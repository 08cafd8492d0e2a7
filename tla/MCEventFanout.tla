---------------------------- MODULE MCEventFanout -----------------------------
(***************************************************************************)
(* Small instances of the event fan-out for TLC.                           *)
(***************************************************************************)
EXTENDS EventFanout

CONSTANTS e1, s1, s2, p1, p2, a1   \* model values

===============================================================================
