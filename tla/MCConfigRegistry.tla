--------------------------- MODULE MCConfigRegistry ---------------------------
(***************************************************************************)
(* Small instances of the config registry for TLC.                         *)
(***************************************************************************)
EXTENDS ConfigRegistry

CONSTANTS q1, q2, r1, r2, redis   \* model values

===============================================================================
