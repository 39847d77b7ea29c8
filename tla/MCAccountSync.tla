--------------------------- MODULE MCAccountSync ---------------------------
(* Instances of AccountSync for TLC.  Accounts are only ever compared.     *)
EXTENDS AccountSync, TLC

Symmetry == Permutations(Users)
=============================================================================
