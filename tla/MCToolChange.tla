----------------------------- MODULE MCToolChange -----------------------------
\* Small instances of ToolChange for TLC; the constants are in the cfg files.
EXTENDS ToolChange
=============================================================================
