--------------------------- MODULE MCToolPlatform ---------------------------
(***************************************************************************)
(* Model values of the ToolPlatform runs.  Workers, threads, reapers and   *)
(* the calls of one key are interchangeable, so the safety runs may reduce *)
(* by symmetry; the liveness run does not.                                 *)
(***************************************************************************)
EXTENDS ToolPlatform, TLC

Symmetry ==
    Permutations(Calls) \cup Permutations(Workers) \cup Permutations(Threads)
    \cup Permutations(Reapers)

=============================================================================
