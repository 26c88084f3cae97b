------------------------------- MODULE MCEcet -------------------------------
(* Instances of Ecet for TLC. *)
EXTENDS Ecet, TLC

\* The producers are interchangeable; used where only invariants are checked.
Symmetry == Permutations(Producers)
=============================================================================
