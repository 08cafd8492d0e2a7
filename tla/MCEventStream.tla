---------------------------- MODULE MCEventStream -----------------------------
(***************************************************************************)
(* Small instances of the event stream for TLC.                            *)
(***************************************************************************)
EXTENDS EventStream

CONSTANTS c1, c2   \* model values

===============================================================================
