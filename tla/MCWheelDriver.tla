----------------------------- MODULE MCWheelDriver -----------------------------
(* WheelDriver for TLC: its constants are all numbers, given in the .cfg. *)
EXTENDS WheelDriver
=============================================================================
