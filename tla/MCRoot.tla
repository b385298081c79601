------------------------------- MODULE MCRoot -------------------------------
(* Instances of Root for model checking. *)
EXTENDS Root, TLC

CONSTANTS o1, o2

OpenersAreInterchangeable == Permutations(Openers)

=============================================================================
