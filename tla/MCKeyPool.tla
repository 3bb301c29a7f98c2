----------------------------- MODULE MCKeyPool -----------------------------
(***************************************************************************)
(* An instance of KeyPool with interchangeable reservations.               *)
(***************************************************************************)
EXTENDS KeyPool
CONSTANTS r1, r2

Symmetry == Permutations(Reserver)
=============================================================================
