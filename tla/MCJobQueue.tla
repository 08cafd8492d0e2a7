------------------------------ MODULE MCJobQueue ------------------------------
(***************************************************************************)
(* JobQueue for TLC: tasks of one kind are interchangeable.                *)
(***************************************************************************)
EXTENDS JobQueue, TLC

Symmetry == Permutations(Workers) \cup Permutations(Timers) \cup Permutations(Clients)

=============================================================================
