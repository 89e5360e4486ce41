------------------------------ MODULE MCEpochGc ------------------------------
(* Small instances of EpochGc for TLC. *)
EXTENDS EpochGc

\* Threads come and go, or the clock is reset: both together end in the states that
\* ResetStopped excludes, and in dangling references.
JoinOrReset == {{"reset"}, {"join", "exit", "cleanup_all", "restart"}}
JoinAndReset == {{"join", "reset", "exit"}}

Symmetry == Permutations(Tx) \cup Permutations(Block)
=============================================================================
