----------------------------- MODULE MCGripperJob -----------------------------
\* Small instances of GripperJob for TLC; the constants are in the cfg files.
EXTENDS GripperJob
=============================================================================
