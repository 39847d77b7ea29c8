----------------------------- MODULE MCStorage -----------------------------
(* Instances of Storage for TLC.  Threads are only ever compared.          *)
EXTENDS Storage, TLC

Symmetry == Permutations(Threads)
=============================================================================
