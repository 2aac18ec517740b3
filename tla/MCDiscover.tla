----------------------------- MODULE MCDiscover -----------------------------
(* A small instance of Discover for TLC. *)
EXTENDS Discover, TLC

\* On every log that is in order, KeepYounger is the filter of Vec::retain.
Logs == {w \in UNION {[1 .. n -> Age] : n \in 0 .. 4} : \A i \in 2 .. Len(w) : w[i - 1] >= w[i]}
ASSUME KeepYoungerIsRetain ==
    \A w \in Logs, limit \in Age : KeepYounger(w, limit) = SelectSeq(w, LAMBDA age : age < limit)

Symmetry == Permutations(Search) \cup Permutations(User)
=============================================================================
