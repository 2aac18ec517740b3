---------------------------- MODULE Leaderboard ----------------------------
(***************************************************************************)
(* The reading side (backend/crates/api/src: routes_leaderboard.rs,        *)
(* routes_history.rs, the listing in routes_track.rs) over the snapshots   *)
(* and their metrics.  A request is a chain of queries, each of which sees *)
(* the tables of its own moment; crawls, tracks, enrichment and midnight   *)
(* come in between.  Requests only read, so one at a time shows everything *)
(* that can happen to a request.                                           *)
(***************************************************************************)
EXTENDS Integers, FiniteSets, Sequences

CONSTANTS
    User,
    NoUser,     \* the user of no request
    Repo,       \* repository names, numbered in alphabetical order
    MaxDay,     \* bound on the calendar
    MaxWrites,  \* bound on the statements that change the tables
    Limit,      \* LIMIT of a board query: 100
    CrawlBoard, \* the boards a crawl fills
    IndexBoard, \* the boards upsert_indexed_snapshots fills
    Metrics,    \* the metrics GitHub may report of a repository
    Facts,      \* the columns of repos that filters look at
    Query,      \* the filter parameters the clients send
    Days,       \* the `days` parameters they send: << >> or <<number>>
    Archive     \* the snapshots there are when the run begins

Null == -1      \* NULL in a metric's column
None == ""      \* NULL in a text column; a query parameter that is not there
Never == 0      \* pushed_at is NULL
Latest == 0     \* no `date` parameter
BadDate == -1   \* a `date` that is no date

PublicBoard == {"top_stars", "top_forks", "top_watchers", "trending_daily"}
Board == PublicBoard \cup {"tracked_daily"}
Day == 1 .. MaxDay
Key == Repo \X Day \X Board
Metric == [stars : Nat, forks : Nat, watchers : Nat \cup {Null}, today : Nat \cup {Null}]

\* The column a board is ordered by.
Column(b, m) ==
    CASE b = "top_forks" -> m.forks
      [] b = "top_watchers" -> m.watchers
      [] b = "trending_daily" -> m.today
      [] OTHER -> m.stars

ASSUME LeaderboardAssumption ==
    /\ NoUser \notin User
    /\ Repo \subseteq Nat /\ IsFiniteSet(Repo)
    /\ MaxDay \in Nat \ {0} /\ MaxWrites \in Nat /\ Limit \in Nat \ {0}
    /\ CrawlBoard \subseteq PublicBoard
    /\ IndexBoard \subseteq Board \ {"trending_daily"}
    /\ Metrics \subseteq [stars : Nat, forks : Nat, watchers : Nat, today : Nat]
    /\ DOMAIN Archive \subseteq Repo \X {1} \X (CrawlBoard \cup IndexBoard)
    /\ \A k \in DOMAIN Archive : Archive[k] \in Metric /\ Column(k[3], Archive[k]) # Null

VARIABLES
    rows,     \* the columns of each repository's row in repos
    snap,     \* snapshots: <<full_name, day, board>> (UNIQUE) to metrics
    tracked,  \* <<user, full_name>> pairs of user_tracked_repos
    today,
    writes,   \* statements that changed a table so far
    req,      \* the request in flight, its locals and, at last, its answer
    told      \* history: names listed to somebody as no longer pending

tables == <<rows, snap, tracked, today, writes>>
vars == <<tables, req, told>>

(***************************************************************************)
(* Queries (core/src/store.rs), each one statement.                        *)
(***************************************************************************)

\* WHERE of the four boards and of list_tracked: a parameter that is NULL filters
\* nothing.  q is looked for in full_name and description (`words`), license, topics
\* and language_names.
Passes(r, f, now) ==
    /\ f.language # None => r.language = f.language
    /\ f.languages # {} => r.names \cap f.languages # {} \/ r.language \in f.languages
    /\ f.licenses # {} => r.license \in f.licenses
    /\ f.topics # {} => IF f.mode = "and" THEN f.topics \subseteq r.topics
                                          ELSE f.topics \cap r.topics # {}
    /\ f.q # None => f.q \in r.words \cup r.topics \cup r.names \cup {r.license}
    /\ f.noArchived => ~r.archived
    /\ f.within # 0 => ~r.archived /\ r.pushed # Never /\ r.pushed >= now - f.within

OnBoard(d, b) == {n \in Repo : <<n, d, b>> \in DOMAIN snap}
RowsOf(d, b, f) ==
    {[name |-> n, m |-> snap[<<n, d, b>>]] : n \in {x \in OnBoard(d, b) : Passes(rows[x], f, today)}}

\* ORDER BY the column DESC NULLS LAST (Null is the least value) LIMIT: which of
\* equal rows is cut off is up to the database.
TopRows(b, all) ==
    {S \in SUBSET all :
        /\ Cardinality(S) = IF Cardinality(all) < Limit THEN Cardinality(all) ELSE Limit
        /\ \A r \in S, o \in all \ S : Column(b, r.m) >= Column(b, o.m)}

SnapshotDates(b) == {d \in Day : OnBoard(d, b) # {}}
LatestSnapshotDate(b) == {d \in SnapshotDates(b) : \A e \in SnapshotDates(b) : e <= d}

LanguageCount(d, b, l) == Cardinality({n \in OnBoard(d, b) : rows[n].language = l})

TrackedBy(u) == {n \in Repo : <<u, n>> \in tracked}

\* LEFT JOIN LATERAL of list_tracked: tracked_daily before any other board, then the
\* newest day; between boards of one day the database chooses.
ShownSnapshots(n) ==
    LET mine == {k \in DOMAIN snap : k[1] = n}
        daily == {k \in mine : k[3] = "tracked_daily"}
        pool == IF daily # {} THEN daily ELSE mine
    IN  {k \in pool : \A j \in pool : j[2] <= k[2]}

NoMetrics == [stars |-> 0, forks |-> 0, watchers |-> Null, today |-> Null]
ShownMetrics(n) ==
    IF ShownSnapshots(n) = {} THEN {NoMetrics} ELSE {snap[k] : k \in ShownSnapshots(n)}

\* The possible results of list_tracked, each a set of rows (tracked_row_to_leaderboard
\* included), when these names are listed.
Listings(listed) ==
    {{[name |-> n, m |-> pick[n]] : n \in listed} :
        pick \in {g \in [listed -> UNION {ShownMetrics(n) : n \in listed}] :
                      \A n \in listed : g[n] \in ShownMetrics(n)}}

\* Mutations of the next: rows without a snapshot are left out (JOIN for LEFT JOIN);
\* whoever tracks the repository.
ListTrackedJoined(u, f) ==
    Listings({n \in TrackedBy(u) : ShownSnapshots(n) # {} /\ Passes(rows[n], f, today)})
ListTrackedOfAll(u, f) ==
    Listings({n \in UNION {TrackedBy(v) : v \in User} : Passes(rows[n], f, today)})

ListTracked(u, f) == Listings({n \in TrackedBy(u) : Passes(rows[n], f, today)})

IsOnPublicBoard(n, d) == \E b \in PublicBoard : n \in OnBoard(d, b)

\* Mutation of the next: only the day's snapshots count.
HasSnapshotToday(n) == \E b \in Board : n \in OnBoard(today, b)
HasAnySnapshot(n) == \E d \in Day, b \in Board : n \in OnBoard(d, b)

(***************************************************************************)
(* Parsing and merging.                                                    *)
(***************************************************************************)

\* parse_filters: lists are sets here; `within` is << >> or <<days>>.
BadParams(p) == p.mode \notin {None, "and", "or"} \/ (p.within # << >> /\ p.within[1] <= 0)
ParseFilters(p) ==
    [language |-> p.language, languages |-> p.languages, licenses |-> p.licenses,
     topics |-> p.topics, mode |-> IF p.mode = None THEN "and" ELSE p.mode, q |-> p.q,
     noArchived |-> p.exclude # "0",
     within |-> IF p.within = << >> THEN 0 ELSE p.within[1]]

\* merge_with_user_tracked: a NULL metric counts as 0.
MetricKey(b, r) == IF Column(b, r.m) = Null THEN 0 ELSE Column(b, r.m)

\* Mutation of the next: the tracked row is preferred.
MergeTrackedFirst(board, mine) ==
    mine \cup {r \in board : \A t \in mine : t.name # r.name}

\* merge_leaderboard_with_tracked: one row a name, the board's where there are two,
MergeRows(board, mine) ==
    board \cup {t \in mine : \A r \in board : r.name # t.name}

\* sorted by metric, then name, and numbered.
Ahead(b, r, o) ==
    \/ MetricKey(b, r) > MetricKey(b, o)
    \/ MetricKey(b, r) = MetricKey(b, o) /\ r.name < o.name
Rank(b, r, all) == 1 + Cardinality({o \in all : Ahead(b, o, r)})

\* to_items: tracked_by_me from the names read before.
ToItems(b, all, names) ==
    {[name |-> r.name, m |-> r.m, rank |-> Rank(b, r, all), mine |-> r.name \in names] :
        r \in all}

(***************************************************************************)
(* Requests.  `at` is the query a request waits for, "done" when it has    *)
(* answered.  The last four fields are history: the caller's tracks that   *)
(* passed the filter all the time, those there all the time, those there   *)
(* at some time, and the board's rows that LIMIT cut off.                  *)
(***************************************************************************)
Kind == {"none", "board", "languages", "meta", "dates", "history", "mine", "lookup"}
At == {"idle", "date", "rows", "names", "merge", "counts", "dates", "list", "board", "any", "fetch",
       "done"}
MetaBoards == <<"top_stars", "top_forks", "top_watchers", "trending_daily">>

NoParams == [language |-> None, languages |-> {}, licenses |-> {}, topics |-> {},
             mode |-> None, q |-> None, exclude |-> None, within |-> << >>]

NewReq(kind, at, u, b, p, d) ==
    [kind |-> kind, at |-> at, user |-> u, board |-> b, params |-> p, date |-> d,
     code |-> 0, failed |-> FALSE, unmarked |-> FALSE,
     rows |-> {}, names |-> {}, todo |-> {},
     items |-> {}, counts |-> << >>, dates |-> {}, status |-> << >>,
     kept |-> {n \in TrackedBy(u) : Passes(rows[n], ParseFilters(p), today)},
     always |-> TrackedBy(u), seen |-> TrackedBy(u), cut |-> {}]

NoReq == NewReq("none", "idle", NoUser, "top_stars", NoParams, Latest)

Filter == ParseFilters(req.params)

\* Every step of a request leaves the tables alone.
Step(from, next) ==
    /\ req.at = from
    /\ req' = next
    /\ UNCHANGED tables

Answered(r, code) == [r EXCEPT !.at = "done", !.code = code]

\* top reads the board before the tracked names, trending after them.
FirstQuery(b) == IF b = "trending_daily" THEN "names" ELSE "rows"
AfterRows(b) == IF b = "trending_daily" THEN "merge" ELSE "names"
AfterNames(b) == IF b = "trending_daily" THEN "rows" ELSE "merge"

\* Mutation of the next: a date that cannot be read is looked up like any other.
AskBoardUnparsed(u, b, p, d) ==
    LET r == NewReq("board", FirstQuery(b), u, b, p, d)
    IN  /\ req.at = "idle"
        /\ req' = IF d = Latest THEN [r EXCEPT !.at = "date"] ELSE r
        /\ UNCHANGED <<tables, told>>

\* top, trending: the parameters, then the date.
AskBoard(u, b, p, d) ==
    LET r == NewReq("board", FirstQuery(b), u, b, p, d)
    IN  /\ req.at = "idle"
        /\ req' = IF BadParams(p) \/ d = BadDate THEN Answered(r, 400)
                  ELSE IF d = Latest THEN [r EXCEPT !.at = "date"] ELSE r
        /\ UNCHANGED <<tables, told>>

\* Any board that Board::parse knows, tracked_daily included: its rows, whoever tracks
\* them, are counted for every caller.  snapshot_dates below is no different.
AskLanguages(u, b, d) ==
    LET r == NewReq("languages", "counts", u, b, NoParams, d)
    IN  /\ req.at = "idle"
        /\ req' = IF d = BadDate THEN Answered(r, 400)
                  ELSE IF d = Latest THEN [r EXCEPT !.at = "date"] ELSE r
        /\ UNCHANGED <<tables, told>>

\* resolve_date without a parameter; no date, and an error, give an empty answer.
ResolveDate ==
    /\ req.kind \in {"board", "languages"}
    /\ \E d \in LatestSnapshotDate(req.board) :
           Step("date", [req EXCEPT !.date = d,
                         !.at = IF req.kind = "board" THEN FirstQuery(req.board) ELSE "counts"])
    /\ UNCHANGED told

NoDate ==
    /\ req.kind \in {"board", "languages"}
    /\ \/ LatestSnapshotDate(req.board) = {} /\ Step("date", Answered(req, 200))
       \/ Step("date", [Answered(req, 200) EXCEPT !.failed = TRUE])
    /\ UNCHANGED told

ReadBoard ==
    LET all == RowsOf(req.date, req.board, Filter)
    IN  /\ \E top \in TopRows(req.board, all) :
               Step("rows", [req EXCEPT !.at = AfterRows(req.board), !.rows = top,
                                        !.cut = all \ top])
        /\ UNCHANGED told

\* top keeps the error until it has read the names; trending answers at once.
ReadBoardFails ==
    /\ IF req.board = "trending_daily" THEN Step("rows", Answered(req, 500))
       ELSE Step("rows", [req EXCEPT !.at = "names", !.failed = TRUE])
    /\ UNCHANGED told

\* Mutation of the next: everybody's tracks.
ReadNamesOfAll ==
    /\ req.kind = "board"
    /\ Step("names", [req EXCEPT !.at = AfterNames(req.board),
                                 !.names = UNION {TrackedBy(v) : v \in User}])
    /\ UNCHANGED told

\* tracked_full_names, unwrap_or_default.
ReadNames ==
    /\ req.kind = "board"
    /\ \/ Step("names", [req EXCEPT !.at = AfterNames(req.board), !.names = TrackedBy(req.user)])
       \/ Step("names", [req EXCEPT !.at = AfterNames(req.board), !.unmarked = TRUE])
    /\ UNCHANGED told

\* An answer keeps the rows of the board it was made from.
Merge ==
    /\ IF req.failed THEN Step("merge", Answered(req, 500))
       ELSE \E mine \in ListTracked(req.user, Filter) :
                Step("merge", [Answered(req, 200) EXCEPT
                    !.items = ToItems(req.board, MergeRows(req.rows, mine), req.names)])
    /\ UNCHANGED told

CountLanguages ==
    /\ Step("counts", [Answered(req, 200) EXCEPT !.counts =
           [l \in {rows[n].language : n \in OnBoard(req.date, req.board)} \ {None} |->
                LanguageCount(req.date, req.board, l)]])
    /\ req.kind = "languages"
    /\ UNCHANGED told

\* A query whose error the handler turns into 500.
QueryFails ==
    /\ \/ req.at = "counts" /\ req.kind = "languages"
       \/ req.at \in {"merge", "list", "board", "any"}
       \/ req.at \in {"names", "dates"} /\ req.kind \in {"history", "dates", "lookup"}
    /\ Step(req.at, Answered(req, 500))
    /\ UNCHANGED told

\* meta: the latest day of top_stars, the counts of that day, the days there are.
AskMeta(u) ==
    /\ req.at = "idle"
    /\ req' = NewReq("meta", "date", u, "top_stars", NoParams, Latest)
    /\ UNCHANGED <<tables, told>>

MetaDate ==
    /\ req.kind = "meta"
    /\ \/ \E d \in LatestSnapshotDate("top_stars") :
              Step("date", [req EXCEPT !.at = "counts", !.date = d])
       \/ LatestSnapshotDate("top_stars") = {} /\ Step("date", [req EXCEPT !.at = "dates"])
       \/ Step("date", [req EXCEPT !.at = "dates", !.failed = TRUE])
    /\ UNCHANGED told

\* Mutation of the next: the counts are those of the day it is now.
MetaCountToday ==
    LET k == Len(req.counts) + 1
    IN  /\ req.kind = "meta" /\ req.at = "counts"
        /\ Step("counts", [req EXCEPT !.counts = Append(@, Cardinality(OnBoard(today, MetaBoards[k]))),
                                !.at = IF k = Len(MetaBoards) THEN "dates" ELSE "counts"])
        /\ UNCHANGED told

MetaCount ==
    LET k == Len(req.counts) + 1
        n == Cardinality(OnBoard(req.date, MetaBoards[k]))
    IN  /\ req.kind = "meta" /\ req.at = "counts"
        /\ \E c \in {n, 0} :
               Step("counts", [req EXCEPT !.counts = Append(@, c), !.failed = @ \/ c # n,
                                   !.at = IF k = Len(MetaBoards) THEN "dates" ELSE "counts"])
        /\ UNCHANGED told

MetaDates ==
    /\ req.kind = "meta"
    /\ \/ Step("dates", [Answered(req, 200) EXCEPT !.dates = SnapshotDates("top_stars")])
       \/ Step("dates", [Answered(req, 200) EXCEPT !.failed = TRUE])
    /\ UNCHANGED told

\* snapshot_dates.
AskDates(u, b) ==
    /\ req.at = "idle"
    /\ req' = NewReq("dates", "dates", u, b, NoParams, Latest)
    /\ UNCHANGED <<tables, told>>

ListDates ==
    /\ req.kind = "dates"
    /\ Step("dates", [Answered(req, 200) EXCEPT !.dates = SnapshotDates(req.board)])
    /\ UNCHANGED told

\* repo_history of one repository (todo), of `window` days before today.
ClampDays(days) == IF days = << >> THEN 30 ELSE IF days[1] < 1 THEN 1
                   ELSE IF days[1] > 365 THEN 365 ELSE days[1]

\* A full_name that is no owner/name is refused before anything is read.
AskHistory(u, n, b, days) ==
    LET r == NewReq("history", IF b = "tracked_daily" THEN "names" ELSE "dates",
                    u, b, [NoParams EXCEPT !.within = <<ClampDays(days)>>], Latest)
    IN  /\ req.at = "idle"
        /\ req' \in {Answered(r, 400), [r EXCEPT !.todo = {n}]}
        /\ UNCHANGED <<tables, told>>

\* Only the caller's own tracks have a tracked_daily history to show.
HistoryAllowed ==
    /\ req.kind = "history"
    /\ IF req.todo \subseteq TrackedBy(req.user) THEN Step("names", [req EXCEPT !.at = "dates"])
       ELSE Step("names", Answered(req, 403))
    /\ UNCHANGED told

HistoryPoints ==
    /\ req.kind = "history"
    /\ Step("dates", [Answered(req, 200) EXCEPT !.dates =
           {d \in Day : /\ today - req.params.within[1] <= d /\ d <= today
                        /\ req.todo \subseteq OnBoard(d, req.board)}])
    /\ UNCHANGED told

\* list_tracked_api: the list, then compute_status of each row on the day read after it.
AskMine(u, p) ==
    LET r == NewReq("mine", "list", u, "tracked_daily", p, Latest)
    IN  /\ req.at = "idle"
        /\ req' = IF BadParams(p) THEN Answered(r, 400) ELSE r
        /\ UNCHANGED <<tables, told>>

ListMine ==
    /\ \E mine \in ListTracked(req.user, Filter) :
           Step("list", [req EXCEPT !.at = "board", !.rows = mine, !.date = today,
                                    !.todo = {r.name : r \in mine}])
    /\ UNCHANGED told

\* One row has its status: on to the next.
Listed(n, status) ==
    [req EXCEPT !.status = [x \in DOMAIN @ \cup {n} |-> IF x = n THEN status ELSE @[x]],
                !.todo = @ \ {n}, !.at = "board"]

StatusOnBoard ==
    /\ req.kind = "mine"
    /\ \E n \in req.todo :
           Step("board", IF IsOnPublicBoard(n, req.date) THEN Listed(n, "on_board")
                         ELSE [req EXCEPT !.at = "any", !.names = {n}])
    /\ UNCHANGED told

StatusAny ==
    /\ \E n \in req.names :
           Step("any", Listed(n, IF HasAnySnapshot(n) THEN "tracking" ELSE "pending"))
    /\ UNCHANGED told

AnswerMine ==
    /\ req.kind = "mine" /\ req.todo = {}
    /\ Step("board", Answered(req, 200))
    /\ told' = told \cup {n \in DOMAIN req.status : req.status[n] # "pending"}

\* lookup: the repository is the one GitHub answers with.
AskLookup(u) ==
    /\ req.at = "idle"
    /\ req' = NewReq("lookup", "fetch", u, "top_stars", NoParams, Latest)
    /\ UNCHANGED <<tables, told>>

LookupFetch ==
    /\ \/ \E n \in Repo : Step("fetch", [req EXCEPT !.at = "board", !.todo = {n}, !.date = today])
       \/ \E code \in {404, 502} : Step("fetch", Answered(req, code))
    /\ UNCHANGED told

LookupBoard ==
    /\ req.kind = "lookup"
    /\ Step("board", [req EXCEPT !.at = "names", !.status =
           [n \in req.todo |-> IF IsOnPublicBoard(n, req.date) THEN "on_board" ELSE "none"]])
    /\ UNCHANGED told

LookupTracked ==
    /\ req.kind = "lookup"
    /\ Step("names", [Answered(req, 200) EXCEPT !.names = req.todo \cap TrackedBy(req.user)])
    /\ UNCHANGED told

\* The answer has left: the slot is free.
Deliver == Step("done", NoReq) /\ UNCHANGED told

(***************************************************************************)
(* What changes the tables, one statement each.  Answers leave first.      *)
(***************************************************************************)

\* The history a request keeps of the tables as they become.
Observed ==
    IF req.at = "idle" THEN req
    ELSE [req EXCEPT
        !.kept = {n \in @ : <<req.user, n>> \in tracked' /\ Passes(rows'[n], Filter, today')},
        !.always = {n \in @ : <<req.user, n>> \in tracked'},
        !.seen = @ \cup {n \in Repo : <<req.user, n>> \in tracked'}]

Write ==
    /\ req.at # "done"
    /\ writes < MaxWrites
    /\ writes' = writes + 1
    /\ req' = Observed
    /\ UNCHANGED told

\* A writer's day: a pass or a request that began before midnight keeps its date.
WriterDay == {d \in Day : today - 1 <= d /\ d <= today}

PutSnapshot(k, m) ==
    snap' = [j \in DOMAIN snap \cup {k} |-> IF j = k THEN m ELSE snap[j]]

\* store_one of a crawl: watchers only on their board, stars_today only in trending.
CrawlSnapshot(n, d, b, m) ==
    /\ b \in CrawlBoard
    /\ PutSnapshot(<<n, d, b>>,
           [m EXCEPT !.watchers = IF b = "top_watchers" THEN @ ELSE Null,
                     !.today = IF b = "trending_daily" THEN @ ELSE Null])
    /\ UNCHANGED <<rows, tracked, today>>
    /\ Write

\* One upsert_snapshot of upsert_indexed_snapshots, by track or by the scan.
IndexSnapshot(n, d, b, m) ==
    /\ b \in IndexBoard
    /\ PutSnapshot(<<n, d, b>>, [m EXCEPT !.today = Null])
    /\ UNCHANGED <<rows, tracked, today>>
    /\ Write

Track(u, n) ==
    /\ tracked' = tracked \cup {<<u, n>>}
    /\ UNCHANGED <<rows, snap, today>>
    /\ Write

Untrack(u, n) ==
    /\ tracked' = tracked \ {<<u, n>>}
    /\ UNCHANGED <<rows, snap, today>>
    /\ Write

\* Any writer of the columns of repos (module RepoRow).
UpdateRow(n, f) ==
    /\ rows' = [rows EXCEPT ![n] = f]
    /\ UNCHANGED <<snap, tracked, today>>
    /\ Write

Tick ==
    /\ req.at # "done"
    /\ today < MaxDay
    /\ today' = today + 1
    /\ UNCHANGED <<rows, snap, tracked, writes, told>>
    /\ req' = Observed

(***************************************************************************)
(* The specification.                                                      *)
(***************************************************************************)

Init ==
    /\ rows \in [Repo -> Facts]
    /\ snap = Archive
    /\ tracked = {}
    /\ today = 1
    /\ writes = 0
    /\ req = NoReq
    /\ told = {}

Ask(u) ==
    \/ \E b \in CrawlBoard, p \in Query, d \in Day \cup {Latest, BadDate} : AskBoard(u, b, p, d)
    \/ \E b \in CrawlBoard \cup IndexBoard, d \in Day \cup {Latest, BadDate} : AskLanguages(u, b, d)
    \/ AskMeta(u)
    \/ \E n \in Repo, b \in CrawlBoard \cup IndexBoard, days \in Days : AskHistory(u, n, b, days)
    \/ \E b \in CrawlBoard \cup IndexBoard : AskDates(u, b)
    \/ \E p \in Query : AskMine(u, p)
    \/ AskLookup(u)

Answering ==
    \/ ResolveDate \/ NoDate \/ ReadBoard \/ ReadBoardFails \/ ReadNames \/ Merge
    \/ CountLanguages \/ QueryFails \/ MetaDate \/ MetaCount \/ MetaDates
    \/ ListDates \/ HistoryAllowed \/ HistoryPoints
    \/ ListMine \/ StatusOnBoard \/ StatusAny \/ AnswerMine
    \/ LookupFetch \/ LookupBoard \/ LookupTracked \/ Deliver

Writing ==
    \/ \E n \in Repo, d \in WriterDay, b \in Board, m \in Metrics :
           CrawlSnapshot(n, d, b, m) \/ IndexSnapshot(n, d, b, m)
    \/ \E u \in User, n \in Repo : Track(u, n) \/ Untrack(u, n)
    \/ \E n \in Repo, f \in Facts : UpdateRow(n, f)
    \/ Tick

Next == (\E u \in User : Ask(u)) \/ Answering \/ Writing

Spec == Init /\ [][Next]_vars

(***************************************************************************)
(* Properties.                                                             *)
(***************************************************************************)

\* Types, and that a date that is none never reaches a query.
TypeOK ==
    /\ rows \in [Repo -> Facts]
    /\ DOMAIN snap \subseteq Key /\ \A k \in DOMAIN snap : snap[k] \in Metric
    /\ tracked \subseteq User \X Repo
    /\ today \in Day /\ writes \in 0 .. MaxWrites
    /\ req.kind \in Kind /\ req.at \in At /\ req.code \in {0, 200, 400, 403, 404, 500, 502}
    /\ req.code # 0 <=> req.at = "done"
    /\ req.date \in Day \cup {Latest, BadDate} /\ (req.date = BadDate => req.code = 400)
    /\ req.rows \subseteq [name : Repo, m : Metric]
    /\ told \subseteq Repo

Listing == req.kind = "board" /\ req.code = 200 /\ req.date # Latest

\* "User-added repos always participate in ranking" (routes_leaderboard.rs:556-557): what
\* the caller tracked and the filter let through during the whole request is in the
\* answer, whatever was written meanwhile and whether it has snapshots or not.
TrackedShown == Listing => \A n \in req.kept : \E i \in req.items : i.name = n

\* The order promised by the boards survives the merge: no name twice, ranks 1..n,
\* and a row of the board that is not shown has at least Limit rows ahead of it,
\* each of at least its metric.
TopOfBoard ==
    Listing =>
        /\ {i.rank : i \in req.items} = 1 .. Cardinality({i.name : i \in req.items})
        /\ \A i, j \in req.items :
               i.rank < j.rank => MetricKey(req.board, i) >= MetricKey(req.board, j)
        /\ \A r \in req.cut : (\E i \in req.items : i.name = r.name) \/
               Cardinality({i \in req.items : MetricKey(req.board, i) >= MetricKey(req.board, r)})
                   >= Limit

\* The rows listed on a board and the history of a tracked_daily repository are nobody
\* else's tracks: beside the rows of the board's day, with that day's metrics, there are
\* only the caller's own.  (Aggregates are not meant: languages and dates count all.)
OwnTracksOnly ==
    /\ Listing => \A i \in req.items :
           \/ [name |-> i.name, m |-> i.m] \in req.rows
           \/ i.name \in req.seen /\ \A r \in req.rows : r.name # i.name
    /\ (req.kind = "history" /\ req.board = "tracked_daily" /\ req.code = 200) =>
           req.todo \subseteq req.seen

\* The mark "tracked by me" is true of some moment of the request, and its absence
\* too, unless the names could not be read; and so is "already tracked" of a lookup.
MarkHonest ==
    /\ Listing => \A i \in req.items :
           /\ i.mine => i.name \in req.seen
           /\ ~i.mine => i.name \notin req.always \/ req.unmarked
    /\ (req.kind = "lookup" /\ req.code = 200) =>
           req.names \subseteq req.seen /\ (req.todo \ req.names) \cap req.always = {}

\* /api/meta names a day that is in its list of days and has rows, although these are
\* six queries.
MetaCoherent ==
    (req.kind = "meta" /\ req.at = "done" /\ ~req.failed) =>
        IF req.date = Latest THEN TRUE
        ELSE req.date \in req.dates /\ req.counts[1] > 0

\* A repository once listed as tracking or on_board is never listed as pending again,
\* to whomever it is listed.
NeverPendingAgain ==
    (req.kind = "mine" /\ req.code = 200) =>
        \A n \in DOMAIN req.status : req.status[n] = "pending" => n \notin told
=============================================================================
