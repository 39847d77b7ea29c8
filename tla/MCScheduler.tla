---------------------------- MODULE MCScheduler ----------------------------
(* Two UI sessions share one scheduler: safety of every interleaving.      *)
EXTENDS Scheduler, TLC

\* Threads and services are only ever compared with each other.
Symmetry ==
    Permutations(Callers) \cup Permutations(Workers) \cup Permutations(Services)
=============================================================================
