--------------------------- MODULE MCEventHistory ---------------------------
(* Short instructions and long ones, which pass the end of a frame.         *)
EXTENDS EventHistory

ShortAndLong == <<1, 2, 2>>
=============================================================================
