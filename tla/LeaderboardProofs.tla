------------------------- MODULE LeaderboardProofs -------------------------
(***************************************************************************)
(* Theorems about Leaderboard, for any users, repositories, boards,        *)
(* filters and columns, and any interleaving of writes with the queries of *)
(* a request.                                                              *)
(***************************************************************************)
EXTENDS Leaderboard, FiniteSetTheorems, TLAPS

(***************************************************************************)
(* Types, and which queries a request of each kind waits for.              *)
(***************************************************************************)
Fields == {"kind", "at", "user", "board", "params", "date", "code", "failed", "unmarked", "rows",
           "names", "todo", "items", "counts", "dates", "status", "kept", "always", "seen", "cut"}
Row == [name : Repo, m : Metric]

OneEach(S) == \A r, o \in S : r.name = o.name => r = o

TablesTyped ==
    /\ rows \in [Repo -> Facts]
    /\ DOMAIN snap \subseteq Key /\ \A k \in DOMAIN snap : snap[k] \in Metric
    /\ tracked \subseteq User \X Repo
    /\ today \in Day /\ writes \in 0 .. MaxWrites
    /\ told \subseteq Repo

Fits(r) ==
    /\ DOMAIN r = Fields
    /\ r.kind \in Kind /\ r.at \in At /\ r.code \in {0, 200, 400, 403, 404, 500, 502}
    /\ r.code # 0 <=> r.at = "done"
    /\ r.date \in Day \cup {Latest, BadDate} /\ (r.date = BadDate => r.code = 400)
    /\ r.rows \subseteq Row /\ r.names \subseteq Repo /\ r.todo \subseteq Repo
    /\ DOMAIN r.status \subseteq Repo

Waits(r) ==
    /\ r.at \in {"rows", "merge"} => r.kind = "board"
    /\ r.at = "date" => r.kind \in {"board", "languages", "meta"} /\ r.date = Latest
    /\ r.at = "names" => r.kind \in {"board", "history", "lookup"}
    /\ r.at = "counts" => r.kind \in {"languages", "meta"}
    /\ r.at = "dates" => r.kind \in {"meta", "dates", "history"}
    /\ r.at = "board" => r.kind \in {"mine", "lookup"}
    /\ r.at \in {"list", "any"} => r.kind = "mine"
    /\ r.at = "fetch" => r.kind = "lookup"
    /\ r.at = "idle" => r.kind = "none"

Typed == TablesTyped /\ Fits(req) /\ Waits(req)

LEMMA BoardTypes ==
    /\ CrawlBoard \subseteq Board /\ IndexBoard \subseteq Board
    /\ Day \subseteq Nat /\ BadDate \notin Day /\ Latest \notin Day /\ 1 \in Day
    /\ BadDate # Latest
  BY LeaderboardAssumption DEF Board, Day, BadDate, Latest

LEMMA NewFits ==
    ASSUME NEW kind \in Kind, NEW at \in At \ {"done"}, NEW u, NEW b, NEW p,
           NEW d \in Day \cup {Latest}
    PROVE  LET r == NewReq(kind, at, u, b, p, d)
           IN  /\ Fits(r) /\ r.kind = kind /\ r.at = at /\ r.date = d /\ r.user = u /\ r.board = b
               /\ r.params = p /\ r.names = {} /\ r.counts = << >> /\ ~r.failed /\ ~r.unmarked
               /\ r.kept = {n \in TrackedBy(u) : Passes(rows[n], ParseFilters(p), today)}
               /\ r.always = TrackedBy(u) /\ r.seen = TrackedBy(u) /\ DOMAIN r.status = {}
               /\ r.code = 0
  BY BoardTypes DEF NewReq, Fits, Fields

LEMMA TypedInit == Init => Typed
  <1> SUFFICES ASSUME Init PROVE Typed
    OBVIOUS
  <1>1. Fits(NoReq) /\ Waits(NoReq)
    BY NewFits DEF NoReq, Kind, At, Waits
  <1>2. DOMAIN snap \subseteq Key /\ \A k \in DOMAIN snap : snap[k] \in Metric
    BY LeaderboardAssumption, BoardTypes DEF Init, Key
  <1> QED BY <1>1, <1>2, LeaderboardAssumption DEF Init, Typed, TablesTyped, Day

(***************************************************************************)
(* The three kinds of steps.                                               *)
(***************************************************************************)

\* What an answering step never touches.
Same(r, s) ==
    /\ s.kind = r.kind /\ s.user = r.user /\ s.board = r.board /\ s.params = r.params
    /\ s.kept = r.kept /\ s.always = r.always /\ s.seen = r.seen

\* The rows of a listing are rows, one of each name listed.
LEMMA ListedRows ==
    ASSUME TablesTyped, NEW u, NEW f, NEW mine \in ListTracked(u, f)
    PROVE  /\ mine \subseteq Row
           /\ {r.name : r \in mine} = {n \in TrackedBy(u) : Passes(rows[n], f, today)}
           /\ OneEach(mine)
  <1> DEFINE listed == {n \in TrackedBy(u) : Passes(rows[n], f, today)}
  <1>1. PICK g \in [listed -> UNION {ShownMetrics(n) : n \in listed}] :
           /\ \A n \in listed : g[n] \in ShownMetrics(n)
           /\ mine = {[name |-> n, m |-> g[n]] : n \in listed}
    BY DEF ListTracked, Listings
  <1>2. ASSUME NEW n \in listed PROVE n \in Repo /\ g[n] \in Metric
    <2>1. ShownMetrics(n) \subseteq Metric
      <3>1. NoMetrics \in Metric
        BY DEF NoMetrics, Metric, Null
      <3>2. \A k \in ShownSnapshots(n) : k \in DOMAIN snap
        BY DEF ShownSnapshots
      <3> QED BY <3>1, <3>2 DEF ShownMetrics, TablesTyped
    <2> QED BY <1>1, <2>1 DEF TrackedBy
  <1> HIDE DEF listed
  <1>3. mine \subseteq Row
    BY <1>1, <1>2 DEF Row
  <1>4. {r.name : r \in mine} = listed
    <2>1. \A r \in mine : r.name \in listed
      BY <1>1
    <2>2. \A n \in listed : [name |-> n, m |-> g[n]] \in mine
      BY <1>1
    <2>3. \A n \in listed : \E r \in mine : r.name = n
      BY <2>2
    <2> QED BY <2>1, <2>3
  <1>5. OneEach(mine)
    BY <1>1 DEF OneEach
  <1> QED BY <1>3, <1>4, <1>5 DEF listed

LEMMA AskedTyped ==
    ASSUME Typed, NEW u \in User, Ask(u)
    PROVE  Typed'
  <1> USE BoardTypes DEF Typed, TablesTyped
  <1>k. Kind = {"none", "board", "languages", "meta", "dates", "history", "mine", "lookup"}
    BY DEF Kind
  <1>1. ASSUME NEW b, NEW p, NEW d \in Day \cup {Latest, BadDate}, AskBoard(u, b, p, d)
        PROVE  Fits(req') /\ Waits(req')
    BY <1>1 DEF AskBoard, NewReq, Answered, FirstQuery, Fits, Waits, Fields, Kind, At
  <1>2. ASSUME NEW b, NEW d \in Day \cup {Latest, BadDate}, AskLanguages(u, b, d)
        PROVE  Fits(req') /\ Waits(req')
    BY <1>2 DEF AskLanguages, NewReq, Answered, Fits, Waits, Fields, Kind, At
  <1>8. UNCHANGED <<rows, snap, tracked, today, writes, told>>
    BY DEF Ask, AskBoard, AskLanguages, AskMeta, AskHistory, AskDates, AskMine, AskLookup, tables
  <1>3. ASSUME AskMeta(u) PROVE Fits(req') /\ Waits(req')
    BY <1>3 DEF AskMeta, NewReq, Fits, Waits, Fields, Kind, At
  <1>4. ASSUME NEW n \in Repo, NEW b, NEW days, AskHistory(u, n, b, days)
        PROVE  Fits(req') /\ Waits(req')
    <2> DEFINE r == NewReq("history", IF b = "tracked_daily" THEN "names" ELSE "dates",
                           u, b, [NoParams EXCEPT !.within = <<ClampDays(days)>>], Latest)
    <2>1. req' = Answered(r, 400) \/ req' = [r EXCEPT !.todo = {n}]
      BY <1>4 DEF AskHistory
    <2>2. CASE req' = Answered(r, 400)
      BY <2>2 DEF NewReq, Answered, Fits, Waits, Fields, Kind, At
    <2>3. CASE req' = [r EXCEPT !.todo = {n}]
      BY <2>3 DEF NewReq, Fits, Waits, Fields, Kind, At
    <2> QED BY <2>1, <2>2, <2>3
  <1>5. ASSUME NEW b, AskDates(u, b) PROVE Fits(req') /\ Waits(req')
    BY <1>5 DEF AskDates, NewReq, Fits, Waits, Fields, Kind, At
  <1>6. ASSUME NEW p, AskMine(u, p) PROVE Fits(req') /\ Waits(req')
    BY <1>6 DEF AskMine, NewReq, Answered, Fits, Waits, Fields, Kind, At
  <1>7. ASSUME AskLookup(u) PROVE Fits(req') /\ Waits(req')
    BY <1>7 DEF AskLookup, NewReq, Fits, Waits, Fields, Kind, At
  <1> QED BY <1>1, <1>2, <1>3, <1>4, <1>5, <1>6, <1>7, <1>8 DEF Ask

Goes(r, s) == Fits(s) /\ Waits(s) /\ Same(r, s)
Code == {200, 400, 403, 404, 500, 502}

\* The common ways on: an error, an answer, the next query.
LEMMA WaysOn ==
    ASSUME Typed, req.at # "done"
    PROVE  /\ \A code \in Code : Goes(req, Answered(req, code))
           /\ \A code \in Code : Goes(req, [Answered(req, code) EXCEPT !.failed = TRUE])
           /\ \A code \in Code, S \in SUBSET Repo : Goes(req, [Answered(req, code) EXCEPT !.names = S])
           /\ \A code \in Code : \A S : Goes(req, [Answered(req, code) EXCEPT !.items = S])
           /\ \A code \in Code : \A S : Goes(req, [Answered(req, code) EXCEPT !.counts = S])
           /\ \A code \in Code : \A S : Goes(req, [Answered(req, code) EXCEPT !.dates = S])
  BY BoardTypes DEF Typed, Goes, Code, Answered, Fits, Waits, Same, Fields, At

LEMMA AnsweringTyped ==
    ASSUME Typed, Answering
    PROVE  Typed' /\ (req' = NoReq \/ Same(req, req')) /\ UNCHANGED tables
  <1>r. Fits(req) /\ Waits(req) /\ DOMAIN req = Fields
    BY DEF Typed, Fits
  <1>w. ASSUME NEW from, from # "done", NEW next, Step(from, next), told' \subseteq Repo,
               req.at # "done" => Goes(req, next)
        PROVE  Typed' /\ (req' = NoReq \/ Same(req, req')) /\ UNCHANGED tables
    BY <1>w DEF Step, Goes, Typed, TablesTyped, tables
  <1>s. /\ told \subseteq Repo /\ {200, 403, 404, 500, 502} \subseteq Code
    BY DEF Typed, TablesTyped, Code
  <1>1. CASE ResolveDate
    <2>1. PICK d \in LatestSnapshotDate(req.board) :
             Step("date", [req EXCEPT !.date = d,
                         !.at = IF req.kind = "board" THEN FirstQuery(req.board) ELSE "counts"])
      BY <1>1 DEF ResolveDate
    <2>2. d \in Day /\ req.kind \in {"board", "languages"} /\ req.at = "date"
      BY <1>1, <2>1 DEF ResolveDate, LatestSnapshotDate, SnapshotDates, Step
    <2>3. Goes(req, [req EXCEPT !.date = d,
                         !.at = IF req.kind = "board" THEN FirstQuery(req.board) ELSE "counts"])
      BY <1>r, <2>2, BoardTypes DEF Goes, FirstQuery, Fits, Waits, Same, Fields, At
    <2> QED BY <1>1, <1>s, <1>w, <2>1, <2>3 DEF ResolveDate
  <1>2. CASE NoDate
    BY <1>2, <1>s, <1>w, WaysOn DEF NoDate
  <1>3. CASE ReadBoard
    <2>1. RowsOf(req.date, req.board, Filter) \subseteq Row
      <3>1. ASSUME NEW n \in OnBoard(req.date, req.board)
            PROVE  [name |-> n, m |-> snap[<<n, req.date, req.board>>]] \in Row
        BY DEF OnBoard, Row, Typed, TablesTyped
      <3> QED BY <3>1 DEF RowsOf
    <2> DEFINE all == RowsOf(req.date, req.board, Filter)
               next(top) == [req EXCEPT !.at = AfterRows(req.board), !.rows = top, !.cut = all \ top]
    <2>2. PICK top \in TopRows(req.board, all) : Step("rows", next(top))
      BY <1>3 DEF ReadBoard
    <2>3. top \subseteq Row
      BY <2>1 DEF TopRows
    <2>4. req.at = "rows" /\ req.kind = "board"
      BY <1>r, <2>2 DEF Step, Waits
    <2>5. Goes(req, next(top))
      <3> HIDE DEF all
      <3> QED BY <1>r, <2>3, <2>4 DEF Goes, AfterRows, Fits, Waits, Same, Fields, At
    <2> HIDE DEF next
    <2> QED BY <1>3, <1>s, <1>w, <2>2, <2>5 DEF ReadBoard
  <1>4. CASE ReadBoardFails
    <2>1. ASSUME req.at = "rows" PROVE Goes(req, [req EXCEPT !.at = "names", !.failed = TRUE])
      BY <1>r, <2>1 DEF Goes, Fits, Waits, Same, Fields, At
    <2>2. CASE req.board = "trending_daily"
      BY <1>4, <2>2, <1>s, <1>w, WaysOn DEF ReadBoardFails
    <2>3. CASE req.board # "trending_daily"
      <3>1. Step("rows", [req EXCEPT !.at = "names", !.failed = TRUE]) /\ req.at = "rows"
        BY <1>4, <2>3 DEF ReadBoardFails, Step
      <3> QED BY <1>4, <1>s, <1>w, <2>1, <3>1 DEF ReadBoardFails
    <2> QED BY <2>2, <2>3
  <1>5. CASE ReadNames
    <2>1. req.kind = "board" /\ req.at = "names" /\ TrackedBy(req.user) \subseteq Repo
      BY <1>5 DEF ReadNames, Step, TrackedBy
    <2>2. Goes(req, [req EXCEPT !.at = AfterNames(req.board), !.names = TrackedBy(req.user)])
      BY <1>r, <2>1 DEF Goes, AfterNames, Fits, Waits, Same, Fields, At
    <2>3. Goes(req, [req EXCEPT !.at = AfterNames(req.board), !.unmarked = TRUE])
      BY <1>r, <2>1 DEF Goes, AfterNames, Fits, Waits, Same, Fields, At
    <2> QED BY <1>5, <1>s, <1>w, <2>2, <2>3 DEF ReadNames
  <1>6. CASE Merge
    <2>1. CASE req.failed
      BY <1>6, <2>1, <1>s, <1>w, WaysOn DEF Merge
    <2>2. CASE ~req.failed
      <3>1. PICK S : Step("merge", [Answered(req, 200) EXCEPT !.items = S])
        BY <1>6, <2>2 DEF Merge
      <3>2. req.at # "done" => Goes(req, [Answered(req, 200) EXCEPT !.items = S])
        BY <1>s, WaysOn
      <3> QED BY <1>6, <1>s, <1>w, <3>1, <3>2 DEF Merge
    <2> QED BY <2>1, <2>2
  <1>7. CASE CountLanguages
    BY <1>7, <1>s, <1>w, WaysOn DEF CountLanguages
  <1>8. CASE QueryFails
    <2>1. req.at \in At \ {"done"} /\ Step(req.at, Answered(req, 500))
      BY <1>8 DEF QueryFails, At
    <2> QED BY <1>8, <1>s, <1>w, <2>1, WaysOn DEF QueryFails
  <1>9. CASE MetaDate
    <2>0. told' \subseteq Repo
      BY <1>9, <1>s DEF MetaDate
    <2>1. req.kind = "meta" /\ req.at = "date"
      BY <1>9 DEF MetaDate, Step
    <2>2. ASSUME NEW d \in LatestSnapshotDate("top_stars")
          PROVE  Goes(req, [req EXCEPT !.at = "counts", !.date = d])
      BY <1>r, <2>1, BoardTypes DEF Goes, LatestSnapshotDate, SnapshotDates, Fits, Waits, Same, Fields, At
    <2>3. Goes(req, [req EXCEPT !.at = "dates"])
      BY <1>r, <2>1 DEF Goes, Fits, Waits, Same, Fields, At
    <2>4. Goes(req, [req EXCEPT !.at = "dates", !.failed = TRUE])
      BY <1>r, <2>1 DEF Goes, Fits, Waits, Same, Fields, At
    <2>5. CASE \E d \in LatestSnapshotDate("top_stars") :
                 Step("date", [req EXCEPT !.at = "counts", !.date = d])
      <3>1. PICK d \in LatestSnapshotDate("top_stars") : Step("date", [req EXCEPT !.at = "counts", !.date = d])
        BY <2>5
      <3> QED BY <1>w, <2>0, <2>2, <3>1
    <2>6. CASE Step("date", [req EXCEPT !.at = "dates"])
      BY <1>w, <2>0, <2>3, <2>6
    <2>7. CASE Step("date", [req EXCEPT !.at = "dates", !.failed = TRUE])
      BY <1>w, <2>0, <2>4, <2>7
    <2> QED BY <1>9, <2>5, <2>6, <2>7 DEF MetaDate
  <1>10. CASE MetaCount
    <2> DEFINE k == Len(req.counts) + 1
               n == Cardinality(OnBoard(req.date, MetaBoards[k]))
               next(c) == [req EXCEPT !.counts = Append(@, c), !.failed = @ \/ c # n,
                                      !.at = IF k = Len(MetaBoards) THEN "dates" ELSE "counts"]
    <2>1. PICK c \in {n, 0} : Step("counts", next(c))
      BY <1>10 DEF MetaCount
    <2>2. req.at = "counts" /\ req.kind = "meta"
      BY <1>10 DEF MetaCount
    <2>3. Goes(req, next(c))
      <3> HIDE DEF k, n
      <3> QED BY <1>r, <2>2 DEF Goes, Fits, Waits, Same, Fields, At
    <2> HIDE DEF next
    <2> QED BY <1>10, <1>s, <1>w, <2>1, <2>3 DEF MetaCount
  <1>11. CASE MetaDates
    BY <1>11, <1>s, <1>w, WaysOn DEF MetaDates
  <1>12. CASE ListDates
    BY <1>12, <1>s, <1>w, WaysOn DEF ListDates
  <1>13. CASE HistoryAllowed
    <2>1. ASSUME req.at = "names" PROVE Goes(req, [req EXCEPT !.at = "dates"])
      BY <1>13, <1>r, <2>1 DEF HistoryAllowed, Goes, Fits, Waits, Same, Fields, At
    <2>2. CASE Step("names", [req EXCEPT !.at = "dates"])
      BY <1>13, <1>s, <1>w, <2>1, <2>2 DEF HistoryAllowed, Step
    <2>3. CASE Step("names", Answered(req, 403))
      BY <1>13, <1>s, <1>w, <2>3, WaysOn DEF HistoryAllowed
    <2> QED BY <1>13, <2>2, <2>3 DEF HistoryAllowed
  <1>14. CASE HistoryPoints
    BY <1>14, <1>s, <1>w, WaysOn DEF HistoryPoints
  <1>15. CASE ListMine
    <2> DEFINE next(mine) == [req EXCEPT !.at = "board", !.rows = mine, !.date = today,
                                         !.todo = {r.name : r \in mine}]
    <2>1. PICK mine \in ListTracked(req.user, Filter) : Step("list", next(mine))
      BY <1>15 DEF ListMine
    <2>2. mine \subseteq Row /\ {r.name : r \in mine} \subseteq Repo
      BY ListedRows DEF Typed, TrackedBy
    <2>3. req.at = "list" /\ req.kind = "mine" /\ today \in Day
      BY <1>r, <2>1 DEF Step, Waits, Typed, TablesTyped
    <2>4. Goes(req, next(mine))
      BY <1>r, <2>2, <2>3, BoardTypes DEF Goes, Fits, Waits, Same, Fields, At
    <2> HIDE DEF next
    <2> QED BY <1>15, <1>s, <1>w, <2>1, <2>4 DEF ListMine
  <1>l. ASSUME NEW n \in Repo, NEW status, req.at # "done", req.kind = "mine"
        PROVE  Goes(req, Listed(n, status))
    BY <1>r, <1>l DEF Listed, Goes, Fits, Waits, Same, Fields, At
  <1>16. CASE StatusOnBoard
    <2>1. req.kind = "mine" /\ req.at = "board"
      BY <1>16 DEF StatusOnBoard, Step
    <2>2. ASSUME NEW n \in req.todo
          PROVE  n \in Repo /\ Goes(req, [req EXCEPT !.at = "any", !.names = {n}])
      BY <1>r, <2>1, <2>2 DEF Goes, Fits, Waits, Same, Fields, At
    <2>3. PICK n \in req.todo :
             Step("board", Listed(n, "on_board")) \/ Step("board", [req EXCEPT !.at = "any", !.names = {n}])
      BY <1>16 DEF StatusOnBoard
    <2>4. told' \subseteq Repo
      BY <1>16, <1>s DEF StatusOnBoard
    <2>5. Goes(req, Listed(n, "on_board"))
      BY <1>l, <2>1, <2>2
    <2>6. CASE Step("board", Listed(n, "on_board"))
      BY <1>w, <2>4, <2>5, <2>6
    <2>7. CASE Step("board", [req EXCEPT !.at = "any", !.names = {n}])
      BY <1>w, <2>2, <2>4, <2>7
    <2> QED BY <2>3, <2>6, <2>7
  <1>17. CASE StatusAny
    <2>1. PICK n \in req.names : \E status : Step("any", Listed(n, status))
      BY <1>17 DEF StatusAny
    <2>0. PICK status : Step("any", Listed(n, status))
      BY <2>1
    <2>2. n \in Repo /\ req.at = "any" /\ req.kind = "mine"
      BY <1>r, <2>0 DEF Step, Fits, Waits
    <2> QED BY <1>17, <1>s, <1>w, <1>l, <2>0, <2>2 DEF StatusAny
  <1>18. CASE AnswerMine
    <2>1. told' \subseteq Repo
      BY <1>18, <1>r, <1>s DEF AnswerMine, Fits
    <2> QED BY <1>18, <1>s, <1>w, <2>1, WaysOn DEF AnswerMine
  <1>19. CASE LookupFetch
    <2>0. told' \subseteq Repo
      BY <1>19, <1>s DEF LookupFetch
    <2>1. ASSUME NEW n \in Repo, req.at = "fetch"
          PROVE  Goes(req, [req EXCEPT !.at = "board", !.todo = {n}, !.date = today])
      <3> DEFINE next == [req EXCEPT !.at = "board", !.todo = {n}, !.date = today]
      <3>1. req.kind = "lookup" /\ today \in Day /\ today # BadDate
        BY <1>r, <2>1, BoardTypes DEF Typed, TablesTyped, Waits
      <3>2. /\ next.at = "board" /\ next.todo = {n} /\ next.date = today /\ DOMAIN next = Fields
            /\ next.rows = req.rows /\ next.names = req.names /\ next.status = req.status
            /\ next.code = req.code
        BY <1>r DEF Fields
      <3>3. Same(req, next)
        BY <1>r DEF Same, Fields
      <3> HIDE DEF next
      <3>4. next.kind = "lookup"
        BY <3>1, <3>3 DEF Same
      <3>5. Fits(next) /\ Waits(next)
        BY <1>r, <2>1, <3>1, <3>2, <3>4 DEF Fits, Waits, At
      <3> QED BY <3>3, <3>5 DEF Goes, next
    <2>2. ASSUME NEW n \in Repo,
                 Step("fetch", [req EXCEPT !.at = "board", !.todo = {n}, !.date = today])
          PROVE  Goes(req, [req EXCEPT !.at = "board", !.todo = {n}, !.date = today])
      BY <2>1, <2>2 DEF Step
    <2>3. ASSUME NEW code \in {404, 502}, Step("fetch", Answered(req, code))
          PROVE  Typed' /\ (req' = NoReq \/ Same(req, req')) /\ UNCHANGED tables
      <3>1. code \in Code
        BY <1>s
      <3>2. req.at # "done" => Goes(req, Answered(req, code))
        BY <3>1, WaysOn
      <3> QED BY <2>0, <2>3, <3>2, <1>w
    <2>4. ASSUME NEW n \in Repo,
                 Step("fetch", [req EXCEPT !.at = "board", !.todo = {n}, !.date = today])
          PROVE  Typed' /\ (req' = NoReq \/ Same(req, req')) /\ UNCHANGED tables
      BY <2>0, <2>2, <2>4, <1>w
    <2> DEFINE next(n) == [req EXCEPT !.at = "board", !.todo = {n}, !.date = today]
    <2>5. (\E n \in Repo : Step("fetch", next(n))) \/ \E code \in {404, 502} : Step("fetch", Answered(req, code))
      BY <1>19 DEF LookupFetch
    <2>6. CASE \E n \in Repo : Step("fetch", next(n))
      <3>1. PICK n \in Repo : Step("fetch", next(n))
        BY <2>6
      <3> QED BY <2>4, <3>1
    <2>7. CASE \E code \in {404, 502} : Step("fetch", Answered(req, code))
      BY <2>3, <2>7
    <2> QED BY <2>5, <2>6, <2>7
  <1>20. CASE LookupBoard
    <2>1. PICK st : /\ st = [n \in req.todo |-> IF IsOnPublicBoard(n, req.date) THEN "on_board" ELSE "none"]
                    /\ Step("board", [req EXCEPT !.at = "names", !.status = st])
      BY <1>20 DEF LookupBoard
    <2>2. req.at = "board" /\ req.kind = "lookup"
      BY <1>20 DEF LookupBoard, Step
    <2>3. Goes(req, [req EXCEPT !.at = "names", !.status = st])
      BY <1>r, <2>1, <2>2 DEF Goes, Fits, Waits, Same, Fields, At
    <2> QED BY <1>20, <1>s, <1>w, <2>1, <2>3 DEF LookupBoard
  <1>21. CASE LookupTracked
    <2>1. req.todo \cap TrackedBy(req.user) \in SUBSET Repo
      BY DEF TrackedBy
    <2> QED BY <1>21, <1>s, <1>w, <2>1, WaysOn DEF LookupTracked
  <1>22. CASE Deliver
    <2>1. Fits(NoReq) /\ Waits(NoReq)
      BY NewFits DEF NoReq, Kind, At, Waits
    <2> QED BY <1>22, <2>1 DEF Deliver, Step, Typed, TablesTyped, tables
  <1> QED BY <1>1, <1>2, <1>3, <1>4, <1>5, <1>6, <1>7, <1>8, <1>9, <1>10, <1>11, <1>12, <1>13,
             <1>14, <1>15, <1>16, <1>17, <1>18, <1>19, <1>20, <1>21, <1>22 DEF Answering

\* Writes beside a request touch only the history it keeps.
LEMMA WritingTyped ==
    ASSUME Typed, Writing
    PROVE  /\ Typed' /\ UNCHANGED told /\ DOMAIN snap \subseteq DOMAIN snap'
           /\ req.at # "done" /\ req' = Observed
  <1>o. Fits(Observed) /\ Waits(Observed)
    <2>1. CASE req.at = "idle"
      BY <2>1 DEF Observed, Typed
    <2>2. CASE req.at # "idle"
      BY <2>2 DEF Observed, Typed, Fits, Waits, Fields, At
    <2> QED BY <2>1, <2>2
  <1>w. MaxWrites \in Nat /\ MaxDay \in Nat
    BY LeaderboardAssumption
  <1> USE <1>o, <1>w DEF Typed, TablesTyped
  <1>p. ASSUME NEW k \in Key, NEW m \in Metric, PutSnapshot(k, m)
        PROVE  /\ DOMAIN snap \subseteq DOMAIN snap' /\ DOMAIN snap' \subseteq Key
               /\ \A j \in DOMAIN snap' : snap'[j] \in Metric
    BY <1>p DEF PutSnapshot
  <1>d. \A n \in Repo, d \in WriterDay, b \in Board : <<n, d, b>> \in Key
    BY DEF WriterDay, Key
  <1>m. Metrics \subseteq [stars : Nat, forks : Nat, watchers : Nat, today : Nat]
    BY LeaderboardAssumption
  <1>1. ASSUME NEW n \in Repo, NEW d \in WriterDay, NEW b \in Board, NEW m \in Metrics,
               CrawlSnapshot(n, d, b, m)
        PROVE  /\ Typed' /\ UNCHANGED told /\ DOMAIN snap \subseteq DOMAIN snap'
               /\ req.at # "done" /\ req' = Observed
    <2>1. [m EXCEPT !.watchers = IF b = "top_watchers" THEN @ ELSE Null,
                    !.today = IF b = "trending_daily" THEN @ ELSE Null] \in Metric
      BY <1>m DEF Metric
    <2> QED BY <1>1, <1>p, <1>d, <2>1 DEF CrawlSnapshot, Write
  <1>2. ASSUME NEW n \in Repo, NEW d \in WriterDay, NEW b \in Board, NEW m \in Metrics,
               IndexSnapshot(n, d, b, m)
        PROVE  /\ Typed' /\ UNCHANGED told /\ DOMAIN snap \subseteq DOMAIN snap'
               /\ req.at # "done" /\ req' = Observed
    <2>1. [m EXCEPT !.today = Null] \in Metric
      BY <1>m DEF Metric
    <2> QED BY <1>2, <1>p, <1>d, <2>1 DEF IndexSnapshot, Write
  <1>3. ASSUME NEW u \in User, NEW n \in Repo, Track(u, n) \/ Untrack(u, n)
        PROVE  /\ Typed' /\ UNCHANGED told /\ DOMAIN snap \subseteq DOMAIN snap'
               /\ req.at # "done" /\ req' = Observed
    BY <1>3 DEF Track, Untrack, Write
  <1>4. ASSUME NEW n \in Repo, NEW f \in Facts, UpdateRow(n, f)
        PROVE  /\ Typed' /\ UNCHANGED told /\ DOMAIN snap \subseteq DOMAIN snap'
               /\ req.at # "done" /\ req' = Observed
    BY <1>4 DEF UpdateRow, Write
  <1>5. CASE Tick
    BY <1>5 DEF Tick, Day
  <1> QED BY <1>1, <1>2, <1>3, <1>4, <1>5 DEF Writing

(* Queries are only built from readable dates, and answers have the types TLC checks.  *)
THEOREM TypeCorrect == Spec => []TypeOK
  <1>1. Typed /\ [Next]_vars => Typed'
    <2> SUFFICES ASSUME Typed, [Next]_vars PROVE Typed'
      OBVIOUS
    <2>1. ASSUME NEW u \in User, Ask(u) PROVE Typed'
      BY <2>1, AskedTyped
    <2>2. CASE Answering
      BY <2>2, AnsweringTyped
    <2>3. CASE Writing
      BY <2>3, WritingTyped
    <2>4. CASE UNCHANGED vars
      BY <2>4 DEF Typed, TablesTyped, vars, tables
    <2> QED BY <2>1, <2>2, <2>3, <2>4 DEF Next
  <1>2. Typed => TypeOK
    BY DEF Typed, TablesTyped, Fits, Row, TypeOK
  <1> QED BY <1>1, <1>2, TypedInit, PTL DEF Spec

(***************************************************************************)
(* What a request knows of its caller's tracks.                            *)
(***************************************************************************)

\* The history fields are what they are meant to be.
Watch ==
    req.at # "idle" =>
        /\ req.always \subseteq TrackedBy(req.user)
        /\ TrackedBy(req.user) \subseteq req.seen
        /\ \A n \in req.kept : n \in TrackedBy(req.user) /\ Passes(rows[n], Filter, today)

\* The names of a board were tracked at some moment, and once read they hold all that
\* were tracked throughout.
Marks ==
    req.kind = "board" =>
        /\ req.names \subseteq req.seen
        /\ (req.at = "merge" \/ (req.at = "rows" /\ req.board = "trending_daily")) =>
               req.unmarked \/ req.always \subseteq req.names

\* A tracked_daily history is of what was tracked at some moment.
Allowed ==
    (/\ req.kind = "history" /\ req.board = "tracked_daily"
     /\ req.at = "dates" \/ req.code = 200) => req.todo \subseteq req.seen

Answers == TrackedShown /\ OwnTracksOnly /\ MarkHonest
Mine == Watch /\ Marks /\ Allowed /\ Answers

\* A request that has just been taken in.
Fresh(r) ==
    /\ r.always = TrackedBy(r.user) /\ r.seen = TrackedBy(r.user)
    /\ r.kept = {n \in TrackedBy(r.user) : Passes(rows[n], ParseFilters(r.params), today)}
    /\ r.names = {} /\ r.rows = {} /\ r.cut = {} /\ r.counts = << >> /\ DOMAIN r.status = {} /\ r.code # 200
    /\ r.at # "merge" /\ (r.at = "rows" => r.board # "trending_daily")
    /\ r.kind = "history" /\ r.board = "tracked_daily" => r.at # "dates"
    /\ r.kind = "meta" => r.at = "date" /\ r.date = Latest

LEMMA AskedFresh ==
    ASSUME NEW u \in User, Ask(u)
    PROVE  Fresh(req') /\ UNCHANGED <<tables, told>>
  <1>1. ASSUME NEW b, NEW p, NEW d, AskBoard(u, b, p, d) PROVE Fresh(req')
    BY <1>1 DEF AskBoard, NewReq, Answered, FirstQuery, Fresh
  <1>2. ASSUME NEW b, NEW d, AskLanguages(u, b, d) PROVE Fresh(req')
    BY <1>2 DEF AskLanguages, NewReq, Answered, Fresh
  <1>3. CASE AskMeta(u)
    BY <1>3 DEF AskMeta, NewReq, Fresh
  <1>4. ASSUME NEW n \in Repo, NEW b, NEW days, AskHistory(u, n, b, days) PROVE Fresh(req')
    <2> DEFINE r == NewReq("history", IF b = "tracked_daily" THEN "names" ELSE "dates",
                           u, b, [NoParams EXCEPT !.within = <<ClampDays(days)>>], Latest)
    <2>1. req' = Answered(r, 400) \/ req' = [r EXCEPT !.todo = {n}]
      BY <1>4 DEF AskHistory
    <2>2. CASE req' = Answered(r, 400)
      BY <2>2 DEF NewReq, Answered, Fresh
    <2>3. CASE req' = [r EXCEPT !.todo = {n}]
      BY <2>3 DEF NewReq, Fresh
    <2> QED BY <2>1, <2>2, <2>3
  <1>5. ASSUME NEW b, AskDates(u, b) PROVE Fresh(req')
    BY <1>5 DEF AskDates, NewReq, Fresh
  <1>6. ASSUME NEW p, AskMine(u, p) PROVE Fresh(req')
    BY <1>6 DEF AskMine, NewReq, Answered, Fresh
  <1>7. CASE AskLookup(u)
    BY <1>7 DEF AskLookup, NewReq, Fresh
  <1>8. UNCHANGED <<tables, told>>
    BY DEF Ask, AskBoard, AskLanguages, AskMeta, AskHistory, AskDates, AskMine, AskLookup
  <1> QED BY <1>1, <1>2, <1>3, <1>4, <1>5, <1>6, <1>7, <1>8 DEF Ask

LEMMA MineAsked ==
    ASSUME NEW u \in User, Ask(u)
    PROVE  Mine'
  <1>1. Fresh(req') /\ UNCHANGED <<rows, tracked, today>>
    BY AskedFresh DEF tables
  <1>2. \A v : TrackedBy(v)' = TrackedBy(v)
    BY <1>1 DEF TrackedBy
  <1>3. Watch'
    BY <1>1, <1>2 DEF Watch, Fresh, Filter, Passes
  <1>4. Marks' /\ Allowed' /\ Answers'
    BY <1>1 DEF Marks, Allowed, Answers, TrackedShown, OwnTracksOnly, MarkHonest, Listing, Fresh
  <1> QED BY <1>3, <1>4 DEF Mine

LEMMA MineWriting ==
    ASSUME Typed, Mine, Writing
    PROVE  Mine'
  <1>1. Typed' /\ req.at # "done" /\ req' = Observed
    BY WritingTyped
  <1>2. CASE req.at = "idle"
    <2>1. req' = req /\ req.kind = "none" /\ req.code # 200
      BY <1>1, <1>2 DEF Observed, Typed, Waits, Fits
    <2> QED BY <1>2, <2>1 DEF Mine, Watch, Marks, Allowed, Answers, TrackedShown, OwnTracksOnly,
                              MarkHonest, Listing
  <1>3. CASE req.at # "idle"
    <2>1. /\ req'.at = req.at /\ req'.kind = req.kind /\ req'.user = req.user /\ req'.board = req.board
          /\ req'.params = req.params /\ req'.names = req.names /\ req'.todo = req.todo
          /\ req'.unmarked = req.unmarked /\ req'.code = req.code /\ req.code = 0
          /\ req'.kept = {n \in req.kept : <<req.user, n>> \in tracked' /\ Passes(rows'[n], Filter, today')}
          /\ req'.always = {n \in req.always : <<req.user, n>> \in tracked'}
          /\ req'.seen = req.seen \cup {n \in Repo : <<req.user, n>> \in tracked'}
      BY <1>1, <1>3 DEF Observed, Typed, Fits, Fields
    <2>2. Filter' = Filter
      BY <2>1 DEF Filter
    <2>3. TrackedBy(req.user)' = {n \in Repo : <<req.user, n>> \in tracked'}
      BY <2>1 DEF TrackedBy
    <2>4. Watch'
      <3>1. req.always \subseteq Repo /\ \A n \in req.kept : n \in Repo
        BY <1>3 DEF Mine, Watch, TrackedBy
      <3>2. req'.always \subseteq TrackedBy(req.user)' /\ TrackedBy(req.user)' \subseteq req'.seen
        BY <2>1, <2>3, <3>1
      <3>3. \A n \in req'.kept : n \in TrackedBy(req.user)' /\ Passes(rows'[n], Filter, today')
        BY <2>1, <2>3, <3>1
      <3> QED BY <2>2, <3>2, <3>3 DEF Watch, Passes
    <2>5. Marks' /\ Allowed' /\ Answers'
      BY <2>1 DEF Mine, Marks, Allowed, Answers, TrackedShown, OwnTracksOnly, MarkHonest, Listing
    <2> QED BY <2>4, <2>5 DEF Mine
  <1> QED BY <1>2, <1>3

\* What the merge makes of the board, the listing and the names read before.
LEMMA MergedItems ==
    ASSUME NEW b, NEW board \in SUBSET Row, NEW mine \in SUBSET Row, NEW names
    PROVE  LET items == ToItems(b, MergeRows(board, mine), names)
           IN  /\ \A r \in board \cup mine : \E i \in items : i.name = r.name
               /\ \A i \in items :
                      /\ i.mine <=> i.name \in names
                      /\ \/ [name |-> i.name, m |-> i.m] \in board
                         \/ /\ \E t \in mine : t.name = i.name
                            /\ \A r \in board : r.name # i.name
  <1> DEFINE all == MergeRows(board, mine)
             items == ToItems(b, all, names)
  <1>1. all \subseteq Row /\ \A r \in board \cup mine : \E o \in all : o.name = r.name
    BY DEF MergeRows
  <1>2. \A o \in all : o \in board \/ (o \in mine /\ \A r \in board : r.name # o.name)
    BY DEF MergeRows
  <1> HIDE DEF all
  <1>3. \A o \in all : \E i \in items : i.name = o.name
    <2> TAKE o \in all
    <2>1. [name |-> o.name, m |-> o.m, rank |-> Rank(b, o, all), mine |-> o.name \in names] \in items
      BY DEF ToItems
    <2> QED BY <2>1
  <1>4. ASSUME NEW i \in items
        PROVE  /\ i.mine <=> i.name \in names
               /\ \/ [name |-> i.name, m |-> i.m] \in board
                  \/ /\ \E t \in mine : t.name = i.name
                     /\ \A r \in board : r.name # i.name
    <2>1. PICK o \in all :
             i = [name |-> o.name, m |-> o.m, rank |-> Rank(b, o, all), mine |-> o.name \in names]
      BY DEF ToItems
    <2>2. o \in Row /\ o = [name |-> o.name, m |-> o.m]
      BY <1>1 DEF Row
    <2>3. i.name = o.name /\ i.m = o.m /\ i.mine = (o.name \in names)
      BY <2>1
    <2> QED BY <1>2, <2>2, <2>3
  <1> HIDE DEF items
  <1> QED BY <1>1, <1>3, <1>4 DEF items, all

LEMMA MineAnswering ==
    ASSUME Typed, Mine, Answering
    PROVE  Mine'
  <1>1. Typed' /\ (req' = NoReq \/ Same(req, req')) /\ UNCHANGED <<rows, tracked, today>>
    BY AnsweringTyped DEF tables
  <1>n. NoReq.kind = "none" /\ NoReq.at = "idle" /\ NoReq.code = 0
    BY DEF NoReq, NewReq
  <1>2. CASE req' = NoReq
    BY <1>2, <1>n DEF Mine, Watch, Marks, Allowed, Answers, TrackedShown, OwnTracksOnly, MarkHonest,
                      Listing
  <1>3. CASE Same(req, req')
    <2>t. TrackedBy(req.user)' = TrackedBy(req.user) /\ Filter' = Filter
      BY <1>1, <1>3 DEF TrackedBy, Same, Filter
    <2>i. req.at # "idle"
      <3>1. CASE req.at = "idle"
        <4>1. req.kind = "none"
          BY <3>1 DEF Typed, Waits
        <4> QED BY <3>1, <4>1 DEF Answering, Step, ResolveDate, NoDate, ReadBoard, ReadBoardFails,
              ReadNames, Merge, CountLanguages, QueryFails, MetaDate, MetaCount, MetaDates, ListDates,
              HistoryAllowed, HistoryPoints, ListMine, StatusOnBoard, StatusAny, AnswerMine,
              LookupFetch, LookupBoard, LookupTracked, Deliver
      <3> QED BY <3>1
    <2>2. Watch'
      BY <1>1, <1>3, <2>t, <2>i DEF Mine, Watch, Same, Passes
    <2>r. Fits(req) /\ Fits(req') /\ Waits(req) /\ DOMAIN req = Fields
      BY <1>1 DEF Typed, Fits
    <2> USE DEF Fields
    <2>q. ASSUME \/ req.kind \notin {"board", "history", "lookup"}
                 \/ /\ req'.names = req.names /\ req'.at = "done"
                    /\ req'.code # 200 \/ (req.kind = "board" /\ req'.date = Latest)
          PROVE  Mine'
      BY <1>3, <2>2, <2>q, <2>r DEF Mine, Same, Fits, Marks, Allowed, Answers, TrackedShown, OwnTracksOnly,
            MarkHonest, Listing
    <2>a. ASSUME NEW code \in Code \ {200}, req' = Answered(req, code) PROVE Mine'
      <3>1. req'.names = req.names /\ req'.at = "done" /\ req'.code # 200
        BY <2>a, <2>r DEF Answered, Code
      <3> QED BY <2>q, <3>1
    <2>c. {403, 404, 500, 502} \subseteq Code \ {200}
      BY DEF Code
    <2>3. CASE ResolveDate
      <3>1. PICK d : req' = [req EXCEPT !.date = d,
                         !.at = IF req.kind = "board" THEN FirstQuery(req.board) ELSE "counts"]
        BY <2>3 DEF ResolveDate, Step
      <3>2. CASE req.kind = "board"
        <4>1. /\ req'.at = FirstQuery(req.board) /\ req'.names = req.names /\ req'.code = req.code
              /\ req.at = "date"
          BY <2>r, <2>3, <3>1, <3>2 DEF ResolveDate, Step
        <4> QED BY <1>3, <2>2, <2>r, <3>2, <4>1 DEF FirstQuery, Mine, Same, Fits, Marks, Allowed, Answers,
              TrackedShown, OwnTracksOnly, MarkHonest, Listing
      <3> QED BY <2>q, <2>3, <3>2 DEF ResolveDate
    <2>4. CASE NoDate
      BY <2>4, <2>q, <2>r DEF NoDate, Step, Answered, Waits
    <2>5. CASE ReadBoard
      <3>1. \E top, cut : req.at = "rows" /\ req' = [req EXCEPT !.at = AfterRows(req.board), !.rows = top,
                                                         !.cut = cut]
        BY <2>5 DEF ReadBoard, Step
      <3>2. /\ req'.at = AfterRows(req.board) /\ req'.names = req.names /\ req'.code = req.code
            /\ req'.unmarked = req.unmarked /\ req.kind = "board"
        BY <2>r, <3>1 DEF Waits
      <3> QED BY <1>3, <2>2, <2>r, <3>1, <3>2 DEF AfterRows, Mine, Same, Fits, Marks, Allowed, Answers,
              TrackedShown, OwnTracksOnly, MarkHonest, Listing
    <2>6. CASE ReadBoardFails
      <3>1. CASE req.board = "trending_daily"
        BY <2>6, <2>a, <2>c, <3>1 DEF ReadBoardFails, Step
      <3>2. CASE req.board # "trending_daily"
        <4>1. req'.at = "names" /\ req'.names = req.names /\ req'.code = req.code /\ req.kind = "board"
              /\ req.at = "rows"
          BY <2>6, <2>r, <3>2 DEF ReadBoardFails, Step, Waits
        <4> QED BY <1>3, <2>2, <2>r, <4>1 DEF Mine, Same, Fits, Marks, Allowed, Answers,
              TrackedShown, OwnTracksOnly, MarkHonest, Listing
      <3> QED BY <3>1, <3>2
    <2>7. CASE ReadNames
      <3>1. /\ req.kind = "board" /\ req.at = "names" /\ req'.code = req.code
            /\ req'.names = TrackedBy(req.user) \/ (req'.names = req.names /\ req'.unmarked)
            /\ req'.at = AfterNames(req.board)
        BY <2>7, <2>r DEF ReadNames, Step
      <3>2. req.always \subseteq TrackedBy(req.user) /\ TrackedBy(req.user) \subseteq req.seen
        BY <3>1 DEF Mine, Watch
      <3> QED BY <1>3, <2>2, <2>r, <3>1, <3>2 DEF Mine, Same, Fits, Marks, Allowed, Answers,
              TrackedShown, OwnTracksOnly, MarkHonest, Listing
    <2>8. CASE Merge
      <3>1. CASE req.failed
        BY <2>8, <2>a, <2>c, <3>1 DEF Merge, Step
      <3>2. CASE ~req.failed
        <4>1. PICK mine \in ListTracked(req.user, Filter) :
                 Step("merge", [Answered(req, 200) EXCEPT
                    !.items = ToItems(req.board, MergeRows(req.rows, mine), req.names)])
          BY <2>8, <3>2 DEF Merge
        <4>2. mine \subseteq Row /\ {r.name : r \in mine} = {n \in TrackedBy(req.user) : Passes(rows[n], Filter, today)}
          BY <4>1, ListedRows DEF Typed
        <4> DEFINE items == ToItems(req.board, MergeRows(req.rows, mine), req.names)
        <4>3. /\ \A r \in req.rows \cup mine : \E i \in items : i.name = r.name
              /\ \A i \in items :
                      /\ i.mine <=> i.name \in req.names
                      /\ \/ [name |-> i.name, m |-> i.m] \in req.rows
                         \/ /\ \E t \in mine : t.name = i.name
                            /\ \A r \in req.rows : r.name # i.name
          BY <2>r, <4>2, MergedItems DEF Fits
        <4>4. /\ req.at = "merge" /\ req.kind = "board" /\ req'.at = "done" /\ req'.items = items
              /\ req'.names = req.names /\ req'.rows = req.rows /\ req'.unmarked = req.unmarked
          BY <2>r, <4>1 DEF Step, Answered, Waits
        <4> HIDE DEF items
        <4>5. /\ req'.kind = "board" /\ req'.kept = req.kept /\ req'.always = req.always
              /\ req'.seen = req.seen
          BY <1>3, <4>4 DEF Same
        <4>6. /\ req.names \subseteq req.seen /\ (req.unmarked \/ req.always \subseteq req.names)
              /\ TrackedBy(req.user) \subseteq req.seen
              /\ \A n \in req.kept : n \in TrackedBy(req.user) /\ Passes(rows[n], Filter, today)
          BY <4>4 DEF Mine, Marks, Watch
        <4>7. TrackedShown'
          <5>1. \A n \in req.kept : \E r \in mine : r.name = n
            BY <4>2, <4>6
          <5>2. \A n \in req.kept : \E i \in items : i.name = n
            BY <4>3, <5>1
          <5> QED BY <4>4, <4>5, <5>2 DEF TrackedShown
        <4>8. OwnTracksOnly'
          <5>1. \A t \in mine : t.name \in req.seen
            BY <4>2, <4>6
          <5> QED BY <4>3, <4>4, <4>5, <5>1 DEF OwnTracksOnly
        <4>9. MarkHonest'
          BY <4>3, <4>4, <4>5, <4>6 DEF MarkHonest
        <4>10. Marks' /\ Allowed'
          BY <4>4, <4>5, <4>6 DEF Marks, Allowed
        <4> QED BY <2>2, <4>7, <4>8, <4>9, <4>10 DEF Mine, Answers
      <3> QED BY <3>1, <3>2
    <2>9. CASE CountLanguages
      BY <2>9, <2>q DEF CountLanguages
    <2>10. CASE QueryFails
      BY <2>10, <2>a, <2>c DEF QueryFails, Step
    <2>11. CASE MetaDate \/ MetaCount \/ MetaDates
      BY <2>11, <2>q DEF MetaDate, MetaCount, MetaDates
    <2>12. CASE ListDates
      BY <2>12, <2>q DEF ListDates
    <2>13. CASE HistoryAllowed
      <3>1. CASE ~(req.todo \subseteq TrackedBy(req.user))
        BY <2>13, <2>a, <2>c, <3>1 DEF HistoryAllowed, Step
      <3>2. CASE req.todo \subseteq TrackedBy(req.user)
        <4>1. req'.code = req.code /\ req'.todo = req.todo /\ req.kind = "history" /\ req.at = "names"
          BY <2>13, <2>r, <3>2 DEF HistoryAllowed, Step
        <4>2. req.todo \subseteq req.seen
          BY <2>i, <3>2 DEF Mine, Watch
        <4> QED BY <1>3, <2>2, <2>r, <4>1, <4>2 DEF Mine, Same, Fits, Marks, Allowed, Answers,
              TrackedShown, OwnTracksOnly, MarkHonest, Listing
      <3> QED BY <3>1, <3>2
    <2>14. CASE HistoryPoints
      <3>1. req'.todo = req.todo /\ req.kind = "history" /\ req.at = "dates"
        BY <2>14, <2>r DEF HistoryPoints, Step, Answered
      <3> QED BY <1>3, <2>2, <2>r, <3>1 DEF Mine, Same, Fits, Marks, Allowed, Answers,
              TrackedShown, OwnTracksOnly, MarkHonest, Listing
    <2>15. CASE ListMine
      BY <2>15, <2>q, <2>r DEF ListMine, Step, Waits
    <2>16. CASE StatusOnBoard
      BY <2>16, <2>q DEF StatusOnBoard
    <2>17. CASE StatusAny
      BY <2>17, <2>q, <2>r DEF StatusAny, Step, Waits
    <2>18. CASE AnswerMine
      BY <2>18, <2>q DEF AnswerMine
    <2>19. CASE LookupFetch
      <3>1. req.kind = "lookup"
        BY <2>19, <2>r DEF LookupFetch, Step, Waits
      <3>2. CASE \E n \in Repo : Step("fetch", [req EXCEPT !.at = "board", !.todo = {n}, !.date = today])
        <4>1. req'.at = "board" /\ req'.code = req.code /\ req.at = "fetch"
          BY <2>r, <3>2 DEF Step
        <4> QED BY <1>3, <2>2, <2>r, <3>1, <4>1 DEF Mine, Same, Fits, Marks, Allowed,
              Answers, TrackedShown, OwnTracksOnly, MarkHonest, Listing
      <3>3. CASE \E code \in {404, 502} : Step("fetch", Answered(req, code))
        BY <2>a, <2>c, <3>3 DEF Step
      <3> QED BY <2>19, <3>2, <3>3 DEF LookupFetch
    <2>20. CASE LookupBoard
      BY <2>20, <1>3, <2>2, <2>r DEF LookupBoard, Step, Waits, Mine, Same, Fits, Marks, Allowed,
              Answers, TrackedShown, OwnTracksOnly, MarkHonest, Listing
    <2>21. CASE LookupTracked
      <3>1. /\ req.kind = "lookup" /\ req'.todo = req.todo
            /\ req'.names = req.todo \cap TrackedBy(req.user)
        BY <2>21, <2>r DEF LookupTracked, Step, Answered
      <3>2. req.always \subseteq TrackedBy(req.user) /\ TrackedBy(req.user) \subseteq req.seen
        BY <2>i DEF Mine, Watch
      <3> QED BY <1>3, <2>2, <2>r, <3>1, <3>2 DEF Mine, Same, Fits, Marks, Allowed, Answers,
              TrackedShown, OwnTracksOnly, MarkHonest, Listing
    <2>22. CASE Deliver
      BY <2>22, <1>2 DEF Deliver, Step
    <2> QED BY <2>3, <2>4, <2>5, <2>6, <2>7, <2>8, <2>9, <2>10, <2>11, <2>12, <2>13, <2>14, <2>15,
               <2>16, <2>17, <2>18, <2>19, <2>20, <2>21, <2>22 DEF Answering
  <1> QED BY <1>1, <1>2, <1>3

\* The invariant on the caller's own tracks.
LEMMA MineInvariant == Spec => [](Typed /\ Mine)
  <1>1. Init => Typed /\ Mine
    BY TypedInit DEF Init, NoReq, NewReq, Mine, Watch, Marks, Allowed, Answers, TrackedShown,
       OwnTracksOnly, MarkHonest, Listing
  <1>2. (Typed /\ Mine) /\ [Next]_vars => (Typed /\ Mine)'
    <2> SUFFICES ASSUME Typed, Mine, [Next]_vars PROVE Typed' /\ Mine'
      OBVIOUS
    <2>1. ASSUME NEW u \in User, Ask(u) PROVE Typed' /\ Mine'
      BY <2>1, AskedTyped, MineAsked
    <2>2. CASE Answering
      BY <2>2, AnsweringTyped, MineAnswering
    <2>3. CASE Writing
      BY <2>3, WritingTyped, MineWriting
    <2>4. CASE UNCHANGED vars
      <3>1. UNCHANGED <<rows, snap, tracked, today, writes, req, told>>
        BY <2>4 DEF vars, tables
      <3>2. TrackedBy(req.user)' = TrackedBy(req.user)
        BY <3>1 DEF TrackedBy
      <3> QED BY <3>1, <3>2 DEF Typed, TablesTyped, Mine, Watch, Filter, Passes, Marks, Allowed, Answers,
                        TrackedShown, OwnTracksOnly, MarkHonest, Listing
    <2> QED BY <2>1, <2>2, <2>3, <2>4 DEF Next
  <1> QED BY <1>1, <1>2, PTL DEF Spec

\* What was tracked and passed the filter throughout the request is in its answer,
\* although the board, the names and the listing are read at three moments.
THEOREM OwnTracksShown == Spec => []TrackedShown
  BY MineInvariant, PTL DEF Mine, Answers

\* No answer holds a track of somebody else, nor a tracked_daily history of one.
THEOREM NobodyElsesTracks == Spec => []OwnTracksOnly
  BY MineInvariant, PTL DEF Mine, Answers

\* A mark, and a missing one, was true at some moment of the request.
THEOREM MarksHonest == Spec => []MarkHonest
  BY MineInvariant, PTL DEF Mine, Answers

(***************************************************************************)
(* The six queries of /api/meta.  Snapshots are only ever added.           *)
(***************************************************************************)
MetaSound ==
    req.kind = "meta" =>
        /\ req.counts \in Seq(Nat)
        /\ req.at = "date" => req.date = Latest /\ req.counts = << >>
        /\ req.at \in {"dates", "done"} /\ req.date # Latest => req.counts # << >>
        /\ req.date # Latest => req.date \in SnapshotDates("top_stars")
        /\ req.date # Latest /\ ~req.failed /\ req.counts # << >> => req.counts[1] > 0

LEMMA DatesGrow ==
    ASSUME DOMAIN snap \subseteq DOMAIN snap', NEW b
    PROVE  SnapshotDates(b) \subseteq SnapshotDates(b)'
  <1>1. \A d : OnBoard(d, b) \subseteq OnBoard(d, b)'
    BY DEF OnBoard
  <1> QED BY <1>1 DEF SnapshotDates

LEMMA BoardCounted ==
    ASSUME NEW d, NEW b
    PROVE  /\ Cardinality(OnBoard(d, b)) \in Nat
           /\ d \in SnapshotDates(b) => Cardinality(OnBoard(d, b)) > 0
  <1>1. IsFiniteSet(OnBoard(d, b))
    BY LeaderboardAssumption, FS_Subset DEF OnBoard
  <1>2. Cardinality(OnBoard(d, b)) \in Nat
    BY <1>1, FS_CardinalityType
  <1>3. OnBoard(d, b) # {} => Cardinality(OnBoard(d, b)) # 0
    BY <1>1, FS_EmptySet
  <1> QED BY <1>2, <1>3 DEF SnapshotDates

LEMMA MetaAnswering ==
    ASSUME Typed, MetaSound, MetaCoherent, Answering
    PROVE  MetaSound' /\ MetaCoherent'
  <1>1. Typed' /\ (req' = NoReq \/ Same(req, req')) /\ UNCHANGED snap
    BY AnsweringTyped DEF tables
  <1>n. NoReq.kind = "none"
    BY DEF NoReq, NewReq
  <1>2. CASE req' = NoReq \/ req.kind # "meta"
    BY <1>1, <1>2, <1>n DEF MetaSound, MetaCoherent, Same
  <1>3. CASE req' # NoReq /\ req.kind = "meta"
    <2>r. DOMAIN req = Fields /\ req'.kind = "meta" /\ Waits(req)
      BY <1>1, <1>3 DEF Typed, Fits, Same
    <2> USE DEF Fields
    <2>s. SnapshotDates("top_stars")' = SnapshotDates("top_stars")
      BY <1>1 DEF SnapshotDates, OnBoard
    <2>k. MetaDate \/ MetaCount \/ MetaDates
      BY <1>3, <2>r DEF Answering, ResolveDate, NoDate, ReadBoard, ReadBoardFails,
              ReadNames, Merge, CountLanguages, QueryFails, ListDates,
              HistoryAllowed, HistoryPoints, ListMine, StatusOnBoard, StatusAny, AnswerMine,
              LookupFetch, LookupBoard, LookupTracked, Deliver, Step, Waits
    <2>3. CASE MetaDate
      <3>1. /\ req.date = Latest /\ req'.counts = << >> /\ req.at = "date"
            /\ \/ /\ req'.at = "counts" /\ req'.date \in SnapshotDates("top_stars")
               \/ /\ req'.at = "dates" /\ req'.date = req.date
        BY <2>3, <2>r DEF MetaDate, Step, MetaSound, LatestSnapshotDate
      <3>2. << >> \in Seq(Nat)
        OBVIOUS
      <3> QED BY <2>s, <2>r, <3>1, <3>2 DEF MetaSound, MetaCoherent
    <2>4. CASE MetaCount
      <3> DEFINE k == Len(req.counts) + 1
                 n == Cardinality(OnBoard(req.date, MetaBoards[k]))
      <3>1. PICK c \in {n, 0} :
               Step("counts", [req EXCEPT !.counts = Append(@, c), !.failed = @ \/ c # n,
                                   !.at = IF k = Len(MetaBoards) THEN "dates" ELSE "counts"])
        BY <2>4 DEF MetaCount
      <3>2. req.counts \in Seq(Nat) /\ c \in Nat /\ n \in Nat
        BY <1>3, BoardCounted DEF MetaSound
      <3>3. /\ req'.counts = Append(req.counts, c) /\ req'.failed = (req.failed \/ c # n)
            /\ req'.date = req.date /\ req'.at \in {"dates", "counts"} /\ req.at = "counts"
        BY <2>r, <3>1 DEF Step
      <3>4. req'.counts \in Seq(Nat) /\ req'.counts # << >>
        BY <3>2, <3>3
      <3>5. ASSUME req.date # Latest, ~req'.failed PROVE req'.counts[1] > 0
        <4>1. CASE req.counts = << >>
          <5>1. k = 1 /\ MetaBoards[1] = "top_stars"
            BY <4>1 DEF MetaBoards
          <5>2. req.date \in SnapshotDates("top_stars")
            BY <1>3, <3>5 DEF MetaSound
          <5>3. n > 0 /\ c = n
            BY <3>3, <3>5, <5>1, <5>2, BoardCounted
          <5>4. req'.counts[1] = c
            BY <3>2, <3>3, <4>1
          <5> QED BY <5>3, <5>4
        <4>2. CASE req.counts # << >>
          <5>1. req.counts[1] > 0
            BY <1>3, <3>3, <3>5, <4>2 DEF MetaSound
          <5>2. req'.counts[1] = req.counts[1]
            BY <3>2, <3>3, <4>2
          <5> QED BY <5>1, <5>2
        <4> QED BY <4>1, <4>2
      <3> HIDE DEF k, n
      <3> QED BY <1>3, <2>s, <2>r, <3>3, <3>4, <3>5 DEF MetaSound, MetaCoherent
    <2>5. CASE MetaDates
      <3>1. /\ req.at = "dates" /\ req'.at = "done" /\ req'.counts = req.counts /\ req'.date = req.date
            /\ \/ req'.dates = SnapshotDates("top_stars") /\ req'.failed = req.failed
               \/ req'.failed
        BY <2>5, <2>r DEF MetaDates, Step, Answered
      <3> QED BY <1>3, <2>s, <2>r, <3>1 DEF MetaSound, MetaCoherent
    <2> QED BY <2>k, <2>3, <2>4, <2>5
  <1> QED BY <1>2, <1>3

\* The day /api/meta names is in its list of days and has rows, whatever was written
\* between its six queries.
THEOREM MetaHolds == Spec => []MetaCoherent
  <1>1. Init => MetaSound /\ MetaCoherent
    BY DEF Init, NoReq, NewReq, MetaSound, MetaCoherent
  <1>2. (Typed /\ MetaSound /\ MetaCoherent) /\ [Next]_vars => (MetaSound /\ MetaCoherent)'
    <2> SUFFICES ASSUME Typed, MetaSound, MetaCoherent, [Next]_vars PROVE MetaSound' /\ MetaCoherent'
      OBVIOUS
    <2>1. ASSUME NEW u \in User, Ask(u) PROVE MetaSound' /\ MetaCoherent'
      <3>1. Fresh(req')
        BY <2>1, AskedFresh
      <3>2. << >> \in Seq(Nat)
        OBVIOUS
      <3> QED BY <3>1, <3>2 DEF Fresh, MetaSound, MetaCoherent
    <2>2. CASE Answering
      BY <2>2, MetaAnswering
    <2>3. CASE Writing
      <3>1. DOMAIN snap \subseteq DOMAIN snap' /\ req.at # "done" /\ req' = Observed
        BY <2>3, WritingTyped
      <3>2. /\ req'.kind = req.kind /\ req'.at = req.at /\ req'.date = req.date
            /\ req'.counts = req.counts /\ req'.failed = req.failed
        BY <3>1 DEF Observed, Typed, Fits, Fields
      <3> QED BY <3>1, <3>2, DatesGrow DEF MetaSound, MetaCoherent
    <2>4. CASE UNCHANGED vars
      BY <2>4 DEF vars, tables, MetaSound, MetaCoherent, SnapshotDates, OnBoard
    <2> QED BY <2>1, <2>2, <2>3, <2>4 DEF Next
  <1>3. Spec => []Typed
    BY MineInvariant, PTL
  <1> QED BY <1>1, <1>2, <1>3, PTL DEF Spec

(***************************************************************************)
(* The status of a tracked repository.                                     *)
(***************************************************************************)
StatusSound ==
    /\ \A n \in told : HasAnySnapshot(n)
    /\ req.kind = "mine" =>
           \A n \in DOMAIN req.status :
               IF req.status[n] = "pending" THEN n \notin told ELSE HasAnySnapshot(n)

LEMMA SnapshotsStay ==
    ASSUME DOMAIN snap \subseteq DOMAIN snap', NEW n, HasAnySnapshot(n)
    PROVE  HasAnySnapshot(n)'
  BY DEF HasAnySnapshot, OnBoard

LEMMA StatusAnswering ==
    ASSUME Typed, StatusSound, Answering
    PROVE  StatusSound'
  <1>1. Typed' /\ (req' = NoReq \/ Same(req, req')) /\ UNCHANGED snap
    BY AnsweringTyped DEF tables
  <1>n. NoReq.kind = "none"
    BY DEF NoReq, NewReq
  <1>h. \A n : HasAnySnapshot(n)' <=> HasAnySnapshot(n)
    BY <1>1 DEF HasAnySnapshot, OnBoard
  <1>2. CASE UNCHANGED told /\ (req' = NoReq \/ req.kind # "mine")
    BY <1>1, <1>2, <1>n, <1>h DEF StatusSound, Same
  <1>3. CASE req.kind = "mine" /\ req' # NoReq
    <2>r. DOMAIN req = Fields /\ Waits(req) /\ Fits(req)
      BY DEF Typed, Fits
    <2> USE DEF Fields
    <2>k. \/ UNCHANGED told /\ req'.status = req.status
          \/ StatusOnBoard \/ StatusAny \/ AnswerMine
      <3>1. ListMine \/ QueryFails => UNCHANGED told /\ req'.status = req.status
        BY <2>r DEF ListMine, QueryFails, Step, Answered
      <3>2. ListMine \/ QueryFails \/ StatusOnBoard \/ StatusAny \/ AnswerMine
        BY <1>3, <2>r DEF Answering, ResolveDate, NoDate, ReadBoard, ReadBoardFails, ReadNames, Merge,
              CountLanguages, MetaDate, MetaCount, MetaDates, ListDates, HistoryAllowed,
              HistoryPoints, LookupFetch, LookupBoard, LookupTracked, Deliver, Step, Waits
      <3> QED BY <3>1, <3>2
    <2>l. ASSUME NEW n \in Repo, NEW status, req' = Listed(n, status), UNCHANGED told,
                 IF status = "pending" THEN n \notin told ELSE HasAnySnapshot(n)
          PROVE  StatusSound'
      <3>1. req'.status = [x \in DOMAIN req.status \cup {n} |-> IF x = n THEN status ELSE req.status[x]]
        BY <2>r, <2>l DEF Listed
      <3> QED BY <1>3, <1>h, <2>l, <3>1 DEF StatusSound
    <2>3. CASE StatusOnBoard
      <3>1. PICK n \in req.todo :
               Step("board", IF IsOnPublicBoard(n, req.date) THEN Listed(n, "on_board")
                             ELSE [req EXCEPT !.at = "any", !.names = {n}])
        BY <2>3 DEF StatusOnBoard
      <3>2. CASE IsOnPublicBoard(n, req.date)
        <4>1. n \in Repo /\ UNCHANGED told /\ req' = Listed(n, "on_board")
          BY <2>3, <2>r, <3>1, <3>2 DEF StatusOnBoard, Step, Fits
        <4>2. HasAnySnapshot(n)
          BY <3>2 DEF IsOnPublicBoard, HasAnySnapshot, OnBoard, Typed, TablesTyped, Key, Board
        <4> QED BY <2>l, <4>1, <4>2
      <3>3. CASE ~IsOnPublicBoard(n, req.date)
        <4>1. UNCHANGED told /\ req'.status = req.status
          BY <2>3, <2>r, <3>1, <3>3 DEF StatusOnBoard, Step
        <4> QED BY <1>3, <1>h, <4>1 DEF StatusSound
      <3> QED BY <3>2, <3>3
    <2>4. CASE StatusAny
      <3>1. PICK n \in req.names :
               Step("any", Listed(n, IF HasAnySnapshot(n) THEN "tracking" ELSE "pending"))
        BY <2>4 DEF StatusAny
      <3>2. n \in Repo /\ UNCHANGED told
        BY <2>4, <2>r DEF StatusAny, Fits
      <3> QED BY <2>l, <3>1, <3>2 DEF StatusSound, Step
    <2>5. CASE AnswerMine
      <3>1. /\ req'.status = req.status
            /\ told' = told \cup {n \in DOMAIN req.status : req.status[n] # "pending"}
        BY <2>5, <2>r DEF AnswerMine, Step, Answered
      <3> QED BY <1>3, <1>h, <3>1 DEF StatusSound
    <2>6. CASE UNCHANGED told /\ req'.status = req.status
      BY <1>3, <1>h, <2>6 DEF StatusSound
    <2> QED BY <2>k, <2>3, <2>4, <2>5, <2>6
  <1>4. UNCHANGED told \/ (AnswerMine /\ req.kind = "mine" /\ req' # NoReq)
    <2>1. AnswerMine => req' # NoReq
      <3>1. NoReq.at = "idle"
        BY DEF NoReq, NewReq
      <3>2. AnswerMine => req'.at = "done"
        BY DEF AnswerMine, Step, Answered, Typed, Fits, Fields
      <3> QED BY <3>1, <3>2
    <2> QED BY <2>1 DEF Answering, ResolveDate, NoDate, ReadBoard, ReadBoardFails, ReadNames, Merge,
              CountLanguages, QueryFails, MetaDate, MetaCount, MetaDates, ListDates, HistoryAllowed,
              HistoryPoints, ListMine, StatusOnBoard, StatusAny, AnswerMine, LookupFetch,
              LookupBoard, LookupTracked, Deliver
  <1> QED BY <1>2, <1>3, <1>4

\* Once some list has said that a repository has data, no list says again that it has
\* none, although day, boards and snapshots are read one after the other.
THEOREM NoReturnToPending == Spec => []NeverPendingAgain
  <1>1. Init => StatusSound
    BY DEF Init, NoReq, NewReq, StatusSound
  <1>2. Typed /\ StatusSound /\ [Next]_vars => StatusSound'
    <2> SUFFICES ASSUME Typed, StatusSound, [Next]_vars PROVE StatusSound'
      OBVIOUS
    <2>1. ASSUME NEW u \in User, Ask(u) PROVE StatusSound'
      <3>1. Fresh(req') /\ UNCHANGED <<snap, told>>
        BY <2>1, AskedFresh DEF tables
      <3> QED BY <3>1 DEF Fresh, StatusSound, HasAnySnapshot, OnBoard
    <2>2. CASE Answering
      BY <2>2, StatusAnswering
    <2>3. CASE Writing
      <3>1. DOMAIN snap \subseteq DOMAIN snap' /\ UNCHANGED told /\ req' = Observed
        BY <2>3, WritingTyped
      <3>2. req'.kind = req.kind /\ req'.status = req.status
        BY <3>1 DEF Observed, Typed, Fits, Fields
      <3> QED BY <3>1, <3>2, SnapshotsStay DEF StatusSound
    <2>4. CASE UNCHANGED vars
      BY <2>4 DEF vars, tables, StatusSound, HasAnySnapshot, OnBoard
    <2> QED BY <2>1, <2>2, <2>3, <2>4 DEF Next
  <1>3. StatusSound => NeverPendingAgain
    BY DEF StatusSound, NeverPendingAgain
  <1>4. Spec => []Typed
    BY MineInvariant, PTL
  <1> QED BY <1>1, <1>2, <1>3, <1>4, PTL DEF Spec

(***************************************************************************)
(* Ranking and the LIMIT of a board.                                       *)
(***************************************************************************)
\* Functions of what is counted below.
LEMMA Counting ==
    ASSUME NEW S, NEW T, IsFiniteSet(T), NEW f \in [S -> T],
           \A x, y \in S : f[x] = f[y] => x = y
    PROVE  /\ IsFiniteSet(S) /\ Cardinality(S) \in Nat /\ Cardinality(T) \in Nat
           /\ Cardinality(S) <= Cardinality(T)
           /\ Cardinality(S) = Cardinality(T) <=> \A t \in T : \E x \in S : f[x] = t
  <1>1. f \in Injection(S, T)
    BY DEF Injection, IsInjective
  <1> QED BY <1>1, FS_Injection, FS_CardinalityType DEF Surjection

LEMMA RowsFinite ==
    ASSUME NEW S \in SUBSET Row, OneEach(S)
    PROVE  IsFiniteSet(S) /\ Cardinality(S) \in Nat
  <1> DEFINE f == [r \in S |-> r.name]
  <1>1. f \in [S -> Repo]
    BY DEF Row
  <1>2. \A x, y \in S : f[x] = f[y] => x = y
    BY DEF OneEach
  <1> HIDE DEF f
  <1> QED BY <1>1, <1>2, Counting, LeaderboardAssumption

LEMMA Columns ==
    ASSUME NEW b, NEW m \in Metric
    PROVE  Column(b, m) \in Nat \cup {Null}
  BY DEF Column, Metric

LEMMA Keys ==
    ASSUME NEW b, NEW r \in Row, NEW o \in Row
    PROVE  /\ MetricKey(b, r) \in Nat
           /\ Column(b, r.m) >= Column(b, o.m) => MetricKey(b, r) >= MetricKey(b, o)
  <1>1. Column(b, r.m) \in Nat \cup {Null} /\ Column(b, o.m) \in Nat \cup {Null}
    BY Columns DEF Row
  <1> QED BY <1>1 DEF MetricKey, Null

\* The rows of a board are numbered 1..n in the order of its metric.
LEMMA RanksNumber ==
    ASSUME NEW b, NEW all \in SUBSET Row, OneEach(all)
    PROVE  /\ {Rank(b, r, all) : r \in all} = 1 .. Cardinality(all)
           /\ \A r, o \in all :
                  Rank(b, r, all) < Rank(b, o, all) => MetricKey(b, r) >= MetricKey(b, o)
  <1> DEFINE before(r) == {o \in all : Ahead(b, o, r)}
             n == Cardinality(all)
             rank == [r \in all |-> Rank(b, r, all)]
  <1>1. IsFiniteSet(all) /\ n \in Nat
    BY RowsFinite
  <1>2. \A r \in all : MetricKey(b, r) \in Nat /\ r.name \in Nat
    BY Keys, LeaderboardAssumption DEF Row
  <1>3. \A r \in all : ~Ahead(b, r, r)
    BY <1>2 DEF Ahead
  <1>4. \A r, o, p \in all : Ahead(b, r, o) /\ Ahead(b, o, p) => Ahead(b, r, p)
    BY <1>2 DEF Ahead
  <1>5. \A r, o \in all : r = o \/ Ahead(b, r, o) \/ Ahead(b, o, r)
    BY <1>2 DEF Ahead, OneEach
  <1>6. \A r \in all : rank[r] = 1 + Cardinality(before(r))
    BY DEF Rank
  <1> HIDE DEF rank
  <1>7. ASSUME NEW r \in all PROVE IsFiniteSet(before(r)) /\ Cardinality(before(r)) \in Nat /\ Cardinality(before(r)) < n
    <2>1. before(r) \in SUBSET all /\ before(r) # all
      BY <1>3
    <2>2. /\ IsFiniteSet(before(r)) /\ Cardinality(before(r)) <= n
          /\ n # Cardinality(before(r))
      BY <1>1, <2>1, FS_Subset
    <2>3. Cardinality(before(r)) \in Nat
      BY <2>2, FS_CardinalityType
    <2> HIDE DEF before, n
    <2> QED BY <1>1, <2>2, <2>3
  <1>8. ASSUME NEW r \in all, NEW o \in all, Ahead(b, o, r) PROVE rank[o] < rank[r]
    <2>1. before(o) \in SUBSET before(r) /\ before(o) # before(r)
      BY <1>3, <1>4, <1>8
    <2>2. /\ Cardinality(before(o)) <= Cardinality(before(r))
          /\ Cardinality(before(r)) # Cardinality(before(o))
      BY <1>7, <2>1, FS_Subset
    <2>3. Cardinality(before(o)) \in Nat /\ Cardinality(before(r)) \in Nat
      BY <1>7
    <2>4. rank[o] = 1 + Cardinality(before(o)) /\ rank[r] = 1 + Cardinality(before(r))
      BY <1>6
    <2> HIDE DEF before
    <2> QED BY <2>2, <2>3, <2>4
  <1>n. n = Cardinality(all)
    OBVIOUS
  <1> HIDE DEF before, n
  <1>9. rank \in [all -> 1 .. n]
    <2>1. \A r \in all : rank[r] \in 1 .. n
      BY <1>1, <1>6, <1>7
    <2>2. rank = [r \in all |-> rank[r]]
      BY DEF rank
    <2> QED BY <2>1, <2>2
  <1>10. \A r, o \in all : rank[r] = rank[o] => r = o
    BY <1>5, <1>8, <1>9
  <1>11. IsFiniteSet(1 .. n) /\ Cardinality(1 .. n) = n
    BY <1>1, FS_Interval
  <1>12. \A k \in 1 .. n : \E r \in all : rank[r] = k
    <2> DEFINE T == 1 .. n
    <2>1. Cardinality(all) = Cardinality(T) /\ IsFiniteSet(T) /\ rank \in [all -> T]
      BY <1>9, <1>11, <1>n
    <2> HIDE DEF T
    <2>2. \A k \in T : \E r \in all : rank[r] = k
      BY <1>10, <2>1, Counting
    <2> QED BY <2>2 DEF T
  <1>13. \A r \in all : rank[r] = Rank(b, r, all)
    BY DEF rank
  <1>14. {Rank(b, r, all) : r \in all} = 1 .. n
    <2>1. \A r \in all : Rank(b, r, all) \in 1 .. n
      BY <1>9, <1>13
    <2>2. \A k \in 1 .. n : \E r \in all : Rank(b, r, all) = k
      BY <1>12, <1>13
    <2> QED BY <2>1, <2>2
  <1>15. ASSUME NEW r \in all, NEW o \in all, Rank(b, r, all) < Rank(b, o, all)
         PROVE  MetricKey(b, r) >= MetricKey(b, o)
    <2>1. ~Ahead(b, o, r)
      BY <1>8, <1>9, <1>13, <1>15
    <2> QED BY <1>2, <2>1 DEF Ahead
  <1> QED BY <1>14, <1>15 DEF n

Ordered(b, items, cut) ==
    /\ {i.rank : i \in items} = 1 .. Cardinality({i.name : i \in items})
    /\ \A i, j \in items : i.rank < j.rank => MetricKey(b, i) >= MetricKey(b, j)
    /\ \A r \in cut :
           Cardinality({i \in items : MetricKey(b, i) >= MetricKey(b, r)}) >= Limit

\* The merge keeps the board's order and, of what LIMIT cut off, the claim to be behind.
LEMMA MergedOrder ==
    ASSUME NEW b, NEW names,
           NEW board \in SUBSET Row, OneEach(board), NEW mine \in SUBSET Row, OneEach(mine),
           NEW cut \in SUBSET Row,
           \A r \in cut, o \in board : Column(b, o.m) >= Column(b, r.m),
           cut # {} => Cardinality(board) >= Limit
    PROVE  Ordered(b, ToItems(b, MergeRows(board, mine), names), cut)
  <1> DEFINE all == MergeRows(board, mine)
             item(r) == [name |-> r.name, m |-> r.m, rank |-> Rank(b, r, all), mine |-> r.name \in names]
             items == ToItems(b, all, names)
             shown == {i.name : i \in items}
  <1>1. all \in SUBSET Row /\ OneEach(all) /\ board \subseteq all
    BY DEF MergeRows, OneEach
  <1> HIDE DEF all
  <1>2. /\ \A r \in all : item(r) \in items
        /\ \A i \in items : \E r \in all : i = item(r)
    BY DEF ToItems
  <1>3. \A r \in all : /\ item(r).name = r.name /\ item(r).rank = Rank(b, r, all)
                       /\ MetricKey(b, item(r)) = MetricKey(b, r)
    BY DEF MetricKey
  <1> HIDE DEF item, items
  <1>4. shown = {r.name : r \in all} /\ {i.rank : i \in items} = {Rank(b, r, all) : r \in all}
    <2>1. \A i \in items : \E r \in all : i.name = r.name /\ i.rank = Rank(b, r, all)
      BY <1>2, <1>3
    <2>2. \A r \in all : \E i \in items : i.name = r.name /\ i.rank = Rank(b, r, all)
      BY <1>2, <1>3
    <2> QED BY <2>1, <2>2
  <1>5. Cardinality(all) = Cardinality(shown)
    <2> DEFINE f == [r \in all |-> r.name]
    <2>1. shown \in SUBSET Repo
      BY <1>1, <1>4 DEF Row
    <2>2. IsFiniteSet(shown)
      BY <2>1, LeaderboardAssumption, FS_Subset
    <2>3. f \in [all -> shown] /\ (\A x, y \in all : f[x] = f[y] => x = y)
          /\ \A t \in shown : \E x \in all : f[x] = t
      BY <1>1, <1>4 DEF OneEach
    <2> HIDE DEF f, shown
    <2> QED BY <2>2, <2>3, Counting
  <1>6. {i.rank : i \in items} = 1 .. Cardinality(shown)
    <2>1. {Rank(b, r, all) : r \in all} = 1 .. Cardinality(all)
      BY <1>1, RanksNumber
    <2> HIDE DEF shown
    <2> QED BY <1>4, <1>5, <2>1, Zenon
  <1>7. ASSUME NEW i \in items, NEW j \in items, i.rank < j.rank
        PROVE  MetricKey(b, i) >= MetricKey(b, j)
    <2>1. PICK r \in all, o \in all : i = item(r) /\ j = item(o)
      BY <1>2
    <2> QED BY <1>1, <1>3, <1>7, <2>1, RanksNumber
  <1>8. ASSUME NEW r \in cut
        PROVE  Cardinality({i \in items : MetricKey(b, i) >= MetricKey(b, r)}) >= Limit
    <2> DEFINE S == {i \in items : MetricKey(b, i) >= MetricKey(b, r)}
               h == [i \in S |-> i.name]
               g == [o \in board |-> item(o)]
    <2>1. IsFiniteSet(S)
      <3>1. h \in [S -> Repo]
        BY <1>1, <1>2, <1>3 DEF Row
      <3>2. \A x, y \in S : h[x] = h[y] => x = y
        <4> SUFFICES ASSUME NEW x \in S, NEW y \in S, x.name = y.name PROVE x = y
          OBVIOUS
        <4>1. PICK o \in all, p \in all : x = item(o) /\ y = item(p)
          BY <1>2
        <4> QED BY <1>1, <1>3, <4>1 DEF OneEach
      <3> HIDE DEF h, S
      <3> QED BY <3>1, <3>2, Counting, LeaderboardAssumption
    <2>2. g \in [board -> S]
      <3> SUFFICES ASSUME NEW o \in board PROVE item(o) \in S
        OBVIOUS
      <3>1. MetricKey(b, o) >= MetricKey(b, r)
        BY <1>8, Keys
      <3> QED BY <1>1, <1>2, <1>3, <3>1
    <2>3. \A x, y \in board : g[x] = g[y] => x = y
      <3> SUFFICES ASSUME NEW x \in board, NEW y \in board, item(x) = item(y) PROVE x = y
        OBVIOUS
      <3>1. x.name = y.name
        BY <1>1, <1>3
      <3> QED BY <3>1 DEF OneEach
    <2> HIDE DEF g, S
    <2>4. Cardinality(board) <= Cardinality(S) /\ Cardinality(board) \in Nat /\ Cardinality(S) \in Nat
      BY <2>1, <2>2, <2>3, Counting
    <2> QED BY <1>8, <2>4, LeaderboardAssumption DEF S
  <1> QED BY <1>6, <1>7, <1>8 DEF items, shown, all, Ordered

\* What LIMIT left of a board, and what it cut off.
Topped ==
    req.kind = "board" =>
        /\ OneEach(req.rows) /\ req.cut \subseteq Row
        /\ \A r \in req.cut, o \in req.rows : Column(req.board, o.m) >= Column(req.board, r.m)
        /\ req.cut # {} => Cardinality(req.rows) >= Limit

LEMMA TopAnswering ==
    ASSUME Typed, Topped, TopOfBoard, Answering
    PROVE  Topped' /\ TopOfBoard'
  <1>1. Typed' /\ (req' = NoReq \/ Same(req, req'))
    BY AnsweringTyped
  <1>n. NoReq.kind = "none"
    BY DEF NoReq, NewReq
  <1>2. CASE req' = NoReq \/ req.kind # "board"
    BY <1>1, <1>2, <1>n DEF Topped, TopOfBoard, Listing, Same
  <1>3. CASE req' # NoReq /\ req.kind = "board"
    <2>r. DOMAIN req = Fields /\ req'.kind = "board" /\ req'.board = req.board /\ Fits(req) /\ Waits(req)
      BY <1>1, <1>3 DEF Typed, Fits, Same
    <2> USE DEF Fields
    <2>k. ResolveDate \/ NoDate \/ ReadBoard \/ ReadBoardFails \/ ReadNames \/ Merge \/ QueryFails
      BY <1>3, <2>r DEF Answering, CountLanguages, MetaDate, MetaCount, MetaDates, ListDates,
              HistoryAllowed, HistoryPoints, ListMine, StatusOnBoard, StatusAny, AnswerMine,
              LookupFetch, LookupBoard, LookupTracked, Deliver, Step, Waits
    <2>q. ASSUME req'.rows = req.rows, req'.cut = req.cut, req'.code # 200 \/ req'.date = Latest
          PROVE  Topped' /\ TopOfBoard'
      BY <1>3, <2>r, <2>q DEF Topped, TopOfBoard, Listing
    <2>c. req.at # "done" => req.code = 0
      BY <2>r DEF Fits
    <2>f. DOMAIN req = Fields
      BY <2>r
    <2>a. ASSUME req' = Answered(req, 500) PROVE Topped' /\ TopOfBoard'
      <3>1. req'.rows = req.rows /\ req'.cut = req.cut /\ req'.code = 500
        BY <2>f, <2>a DEF Answered
      <3> QED BY <2>q, <3>1
    <2>3. CASE ResolveDate
      BY <2>3, <2>r, <2>q, <2>c DEF ResolveDate, Step
    <2>4. CASE NoDate
      BY <2>4, <2>r, <2>q DEF NoDate, Step, Answered, Waits
    <2>5. CASE ReadBoardFails
      <3>1. CASE req.board = "trending_daily"
        BY <2>5, <2>a, <3>1 DEF ReadBoardFails, Step
      <3>2. CASE req.board # "trending_daily"
        <4>1. req' = [req EXCEPT !.at = "names", !.failed = TRUE] /\ req.at # "done"
          BY <2>5, <3>2 DEF ReadBoardFails, Step
        <4>2. req'.rows = req.rows /\ req'.cut = req.cut /\ req'.code = req.code
          BY <2>f, <4>1
        <4> QED BY <2>q, <2>c, <4>1, <4>2
      <3> QED BY <3>1, <3>2
    <2>6. CASE ReadNames
      <3>1. /\ req.at # "done"
            /\ \/ req' = [req EXCEPT !.at = AfterNames(req.board), !.names = TrackedBy(req.user)]
               \/ req' = [req EXCEPT !.at = AfterNames(req.board), !.unmarked = TRUE]
        BY <2>6 DEF ReadNames, Step
      <3>2. req'.rows = req.rows /\ req'.cut = req.cut /\ req'.code = req.code
        BY <2>f, <3>1
      <3> QED BY <2>q, <2>c, <3>1, <3>2
    <2>7. CASE QueryFails
      BY <2>7, <2>r, <2>q DEF QueryFails, Step, Answered
    <2>8. CASE ReadBoard
      <3> DEFINE all == RowsOf(req.date, req.board, Filter)
      <3>1. PICK top \in TopRows(req.board, all) :
               Step("rows", [req EXCEPT !.at = AfterRows(req.board), !.rows = top, !.cut = all \ top])
        BY <2>8 DEF ReadBoard
      <3>2. req'.rows = top /\ req'.cut = all \ top /\ req'.code = 0
        BY <2>r, <2>c, <3>1 DEF Step
      <3>3. all \in SUBSET Row /\ OneEach(all)
        <4>1. ASSUME NEW n \in OnBoard(req.date, req.board)
              PROVE  [name |-> n, m |-> snap[<<n, req.date, req.board>>]] \in Row
          BY DEF OnBoard, Row, Typed, TablesTyped
        <4>2. all \subseteq Row
          BY <4>1 DEF RowsOf
        <4>3. \A r \in all : r.m = snap[<<r.name, req.date, req.board>>]
          <5> TAKE r \in all
          <5>1. PICK n : r = [name |-> n, m |-> snap[<<n, req.date, req.board>>]]
            BY DEF RowsOf
          <5> QED BY <5>1
        <4> HIDE DEF all
        <4>4. \A r \in all : r = [name |-> r.name, m |-> r.m]
          BY <4>2 DEF Row
        <4>5. ASSUME NEW r \in all, NEW o \in all, r.name = o.name PROVE r = o
          <5>1. r.m = o.m
            BY <4>3, <4>5
          <5> QED BY <4>4, <4>5, <5>1
        <4> QED BY <4>2, <4>5 DEF OneEach
      <3>4. top \in SUBSET all /\ \A r \in top, o \in all \ top : Column(req.board, r.m) >= Column(req.board, o.m)
        BY DEF TopRows
      <3>5. Cardinality(top) = IF Cardinality(all) < Limit THEN Cardinality(all) ELSE Limit
        BY DEF TopRows
      <3> HIDE DEF all
      <3>6. all \ top # {} => Cardinality(top) >= Limit
        <4>1. IsFiniteSet(all)
          BY <3>3, RowsFinite
        <4>2. Cardinality(all) = Cardinality(top) => all = top
          BY <3>4, <4>1, FS_Subset
        <4> QED BY <3>5, <4>2, LeaderboardAssumption
      <3>7. OneEach(top)
        BY <3>3, <3>4 DEF OneEach
      <3> QED BY <2>r, <3>2, <3>3, <3>4, <3>6, <3>7 DEF Topped, TopOfBoard, Listing
    <2>9. CASE Merge
      <3>1. CASE req.failed
        BY <2>9, <2>a, <3>1 DEF Merge, Step
      <3>2. CASE ~req.failed
        <4>1. PICK mine \in ListTracked(req.user, Filter) :
                 Step("merge", [Answered(req, 200) EXCEPT
                    !.items = ToItems(req.board, MergeRows(req.rows, mine), req.names)])
          BY <2>9, <3>2 DEF Merge
        <4>2. mine \in SUBSET Row /\ OneEach(mine)
          BY <4>1, ListedRows DEF Typed
        <4> DEFINE items == ToItems(req.board, MergeRows(req.rows, mine), req.names)
        <4>3. req'.items = items /\ req'.rows = req.rows /\ req'.cut = req.cut
          BY <2>r, <4>1 DEF Step, Answered
        <4>4. /\ req.rows \in SUBSET Row /\ OneEach(req.rows) /\ req.cut \in SUBSET Row
              /\ \A r \in req.cut, o \in req.rows : Column(req.board, o.m) >= Column(req.board, r.m)
              /\ req.cut # {} => Cardinality(req.rows) >= Limit
          BY <1>3, <2>r DEF Topped, Fits
        <4>5. Ordered(req.board, items, req.cut)
          BY <4>2, <4>4, MergedOrder
        <4> HIDE DEF items
        <4> QED BY <2>r, <4>3, <4>4, <4>5 DEF Topped, TopOfBoard, Ordered
      <3> QED BY <3>1, <3>2
    <2> QED BY <2>k, <2>3, <2>4, <2>5, <2>6, <2>7, <2>8, <2>9
  <1> QED BY <1>2, <1>3

\* A board stays ranked 1..n by its metric through the merge, and what LIMIT cut off has
\* at least Limit rows of at least its metric ahead of it, for every Limit.
THEOREM TopStays == Spec => []TopOfBoard
  <1>1. Init => Topped /\ TopOfBoard
    BY DEF Init, NoReq, NewReq, Topped, TopOfBoard, Listing
  <1>2. (Typed /\ Topped /\ TopOfBoard) /\ [Next]_vars => (Topped /\ TopOfBoard)'
    <2> SUFFICES ASSUME Typed, Topped, TopOfBoard, [Next]_vars PROVE Topped' /\ TopOfBoard'
      OBVIOUS
    <2>1. ASSUME NEW u \in User, Ask(u) PROVE Topped' /\ TopOfBoard'
      <3>1. req'.rows = {} /\ req'.cut = {} /\ req'.code # 200
        BY <2>1, AskedFresh DEF Fresh
      <3> QED BY <3>1 DEF Topped, TopOfBoard, Listing, OneEach
    <2>2. CASE Answering
      BY <2>2, TopAnswering
    <2>3. CASE Writing
      <3>1. req' = Observed
        BY <2>3, WritingTyped
      <3>2. /\ req'.kind = req.kind /\ req'.board = req.board /\ req'.rows = req.rows /\ req'.cut = req.cut
            /\ req'.code = req.code /\ req'.date = req.date /\ req'.items = req.items
        BY <3>1 DEF Observed, Typed, Fits, Fields
      <3> QED BY <3>2 DEF Topped, TopOfBoard, Listing
    <2>4. CASE UNCHANGED vars
      BY <2>4 DEF vars, Topped, TopOfBoard, Listing
    <2> QED BY <2>1, <2>2, <2>3, <2>4 DEF Next
  <1>3. Spec => []Typed
    BY MineInvariant, PTL
  <1> QED BY <1>1, <1>2, <1>3, PTL DEF Spec
=============================================================================
