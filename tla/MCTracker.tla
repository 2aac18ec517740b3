------------------------------ MODULE MCTracker ------------------------------
(* Small instances of Tracker for TLC. *)
EXTENDS Tracker, TLC

NoBatches == << >>
StarsOnly == <<"top_stars">>
TwoBoards == <<"tracked_daily", "top_stars">>
Symmetry == Permutations(Proc) \cup Permutations(Repo)
=============================================================================
