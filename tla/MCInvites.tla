----------------------------- MODULE MCInvites -----------------------------
(* A small instance of Invites for TLC. *)
EXTENDS Invites, TLC

\* For runs without liveness properties.
Symmetry == Permutations(Handler) \cup Permutations(Name) \cup Permutations(Invite)
=============================================================================
