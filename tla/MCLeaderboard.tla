--------------------------- MODULE MCLeaderboard ---------------------------
(* A small instance of Leaderboard for TLC. *)
EXTENDS Leaderboard, TLC

\* Two answers of GitHub whose metrics order two repositories differently.
MCMetrics == {[stars |-> 1, forks |-> 2, watchers |-> 1, today |-> 1],
              [stars |-> 2, forks |-> 1, watchers |-> 0, today |-> 2]}

\* A row before its languages are fetched, and one that is archived.
Bare == [language |-> "go", names |-> {}, license |-> None, topics |-> {}, words |-> {},
         archived |-> FALSE, pushed |-> Never]
Old == [language |-> "go", names |-> {"go", "c"}, license |-> "mit", topics |-> {"web"},
        words |-> {"web"}, archived |-> TRUE, pushed |-> 1]
MCFacts == {Bare, Old}

GoOnly == [NoParams EXCEPT !.languages = {"go"}, !.within = <<1>>, !.exclude = "0"]
Refused == [NoParams EXCEPT !.mode = "xor"]
MCQuery == {NoParams, GoOnly, Refused}
Symmetry == Permutations(User)

\* The first day's crawl and scan found the first repository.
MCArchive ==
    [k \in {1} \X {1} \X {"top_stars", "trending_daily", "tracked_daily"} |->
        [stars |-> 1, forks |-> 2, watchers |-> Null,
         today |-> IF k[3] = "trending_daily" THEN 2 ELSE Null]]
MCDays == {<<0>>}
=============================================================================
