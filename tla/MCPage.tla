------------------------------- MODULE MCPage -------------------------------
(* A small instance of Page for TLC: the first filter lets the repository through. *)
EXTENDS Page, TLC

MCMatch == [f \in Filter |-> IF f = 1 THEN Repo ELSE {}]
Symmetry == Permutations(Call)
=============================================================================
