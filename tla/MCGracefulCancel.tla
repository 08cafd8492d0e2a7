--------------------------- MODULE MCGracefulCancel ----------------------------
(* GracefulCancel for TLC: a call of the model, a tool with two chunks that    *)
(* finds a fact, and the call that writes the report.                          *)
EXTENDS GracefulCancel

MCScript == <<[awaits |-> 1, facts |-> 1, streams |-> FALSE],
              [awaits |-> 2, facts |-> 1, streams |-> TRUE],
              [awaits |-> 1, facts |-> 0, streams |-> FALSE]>>
===============================================================================
