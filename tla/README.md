# git-trending: TLA+ verification project

Formal models of the GitHub leaderboard service in `backend/` (Rust: API, collector,
admin CLI over one PostgreSQL database) and the tab of its frontend, and of what its README, design documents and
comments promise. The modules are checked by TLC on small instances; all
of their safety properties and both refinements are proved by TLAPS for every instance.

## 1. The system

| Part | State | Operations | Talks to |
|---|---|---|---|
| Metadata (`enrich.rs`, `collector/src/store.rs`, `upsert_repo`, `update_repo_health*`) | the columns of `repos`; the answers each writer holds while it fetches on | upsert from crawl, enrichment, scan, track; health; license backfill | GitHub, tables |
| Tables (`core/src/store.rs`, `migrations/`) | `repos`, `snapshots`, `user_tracked_repos`; no foreign keys, no transaction around several statements | `upsert_repo`, `upsert_snapshot`, `upsert_indexed_snapshots`, `track_repo`, ... | everybody |
| Tracking API (`api/src/routes_track.rs`) | locals of each request in flight | `track`, `untrack`, `lookup`, listing | GitHub, tables |
| Collector (`collector/src/collect.rs`, `store.rs`, `main.rs`) | one pass: batches, report, list of names | `collect_once`: stars/forks, watchers, trending, enrichment, scan of tracked repositories, cleanup | GitHub, tables |
| Sessions (`core/src/refresh.rs`, `api/src/auth/`) | `refresh_tokens`, browser cookies | login, refresh (rotation, reuse detection), logout, expiry, cleanup | browsers, tables |
| Accounts (`core/src/users.rs`, `routes_admin.rs`, `admin/`) | `users`, `invite_codes` | register, create/revoke invite, create-user | tables |
| Discover (`routes_discover.rs`, `rate_limit.rs`, `routes_me_github.rs`) | in-process sliding logs, stored personal tokens | search, put/delete token | GitHub, tables |
| Leaderboards, history, listings (`routes_leaderboard.rs`, `routes_history.rs`, `lookup` and the list in `routes_track.rs`) | locals of each request in flight | chains of read-only queries; filters, merge with the caller's tracks, ranking, facets, dates, status | tables, GitHub |
| Frontend (`frontend/src`) | what is chosen, the lists shown, calls in flight, session timer | board loads, searches, tracking, refresh, forced logout | API |

**What is hard here.** Handlers are chains of awaits, each of which commits on its own: a
request is interleaved with others between any two statements, fails at any of them and is
dropped at any of them when the client hangs up. The collector runs for many minutes beside
the API, loses individual GitHub calls, is killed and restarted. GitHub renames repositories.
Midnight passes inside a request. Transactions exist only in registration and token rotation,
where row locks, unique keys and deadlock detection decide what happens. Answers that carry
cookies are lost or overtaken. The limiter's window has edges. `PROJECT.json` lists each of
these hazards at its line with the properties that cover it, or the reason none does yet.

**What correct means**, component by component: references never dangle; a user's list obeys
its limit; an answer tells the truth about the tables; what is tracked is eventually and daily
snapshotted; a pass's exit status is honest; what is known of a repository is never wiped, and not
replaced by what is older unless writers overlap; a list shows the caller's tracks and nobody else's, in the board's
order, and dates and status agree with it although each comes from a query of its own; a session never splits in two, and reuse of a token
ends the sessions there are; an invite admits no more than its places and its count is exact;
an account never changes hands; no window of a minute holds more searches than the limits;
what the screen shows is what is chosen on it.

## 2. Modules

| Module | Models | State and actions |
|---|---|---|
| `Store` | the three tables reduced to keys, the calendar, the names GitHub knows | one operator per SQL statement; `Tick`, `RenameUpstream` |
| `TrackApi` (extends `Store`) | `track`, `untrack` | `pc[p]`, `req[p]` (locals), `resp[p]`; one action per await, e.g. `FetchOk`, `CheckTracked`, `CheckLimit`, `UpsertGhRepo`, `IndexBoard`, `InsertTrack`, `StatusBoard`; `DbFails`, `IndexFails`, `Abandon` for failure and cancellation |
| `Collector` (extends `Store`) | `collect_once`, `scan_tracked_repos`, `--once` | record `col`; batches (`SearchOk`, `StoreRepo`, `StoreSnapshot`, `BatchStored`, `BatchFailed`), scan (`ListTracked`, `ScanFetch`, `ScanUpsert`, `ScanIndex` and their failures), `FinishPass`, `Killed` |
| `Tracker` | composes the two over the same tables; all their properties | `Next`; `NextNoPass` is the API between two passes |
| `RepoRow` | the columns of one row of `repos` and all who write them: crawl, enrichment, scan, track, license backfill | `row` (columns), `job[p]` (what a process does and the answers it holds), `gh` (GitHub's version of the repository); the statements `UpsertRow`, `UpdateHealth`, `UpdateMissingLicense`, the fetches `FetchBoard`, `FetchNeeded*`, `FetchDetails`, `FetchLanguages`, `FetchRelease`, `GivesUp` for every failure that ends the work |
| `Leaderboard` | every read-only request: the four boards, languages, meta, dates, history, listing, lookup | the tables with metrics and the columns filters look at, `req` (one request, its locals, its answer); one action per query (`ReadBoard`, `ReadNames`, `Merge`, `MetaCount`, `StatusAny`, ...) and one per statement of a writer (`CrawlSnapshot`, `IndexSnapshot`, `Track`, `UpdateRow`, `Tick`) |
| `Sessions` | login, refresh, logout, cleanup | rows, row locks, cookie jars, requests in flight; the rotation transaction statement by statement, the insertion of the next token outside it |
| `Invites` | register, invites, create-user | users, invite rows and locks, open transactions waiting for rows and for uncommitted usernames |
| `Admission` | what `Invites` promises: the abstract specification | accounts, places left, codes issued, names promised; `Issue`, `Close`, `Join`, `Promise`, `Appoint` |
| `Lineage` | what `Sessions` promises: the abstract specification | whose each session is, its usable tokens, which are being renewed; `Begin`, `Exchange`, `Renew`, `Lose`, `Close`, `Age`, `Sweep` |
| `RateLimiter` | `rate_limit.rs` | three sliding logs of ages; `CheckShared`, `CheckUserToken`, `ClockTick` |
| `Discover` (extends `RateLimiter`) | the search handler, stored tokens | `Resolve*`, `CheckLimit`, `CallGithub`, `Answer`; `PutToken`, `DeleteToken` |
| `Page` | one tab of the frontend: `App`, `Leaderboard`, `DiscoverPanel`, `api.ts` | `auth`, `page`, `panel` (what React keeps), `calls` in flight with what their continuations close over, `refreshing`; one action per click, timer and answer (`Choose`, `Land`, `CountDown`, `LoadArrives`, `SearchArrives`, `Unauthorized`, `RefreshFails`, ...) |
| `MCTracker`, `MCRepoRow`, `MCLeaderboard`, `MCSessions`, `MCInvites`, `MCDiscover`, `MCPage` | instances for TLC | values and symmetry sets |
| `TrackerProofs`, `TrackerSafety`, `DiscoverProofs`, `InvitesProofs`, `RepoRowProofs`, `LeaderboardProofs`, `SessionsProofs`, `PageProofs` | theorems | see section 5 |

Operators whose comment begins with "Mutation of" are deliberate bugs; no specification uses
them. They record, for each property, a change of the code that would break it.

Fields and variables marked *history* exist only in the models. They note what a property needs
to know about the past (a request wrote something, the user removed the repository since, two
requests of a session overlapped) and guard no action.

### Abstractions

* **Tables as key sets** (`Store`). Names, dates, boards and users decide control flow; metrics and
  metadata do not. A statement is atomic; nothing else is.
* **Columns as versions** (`RepoRow`). The repository changes on GitHub from version to version, and a
  column holds the version of the answer its value came from, 0 for empty or NULL; a license is named, only
  "Other", or missing. That is enough to say which value is older and which is lost. An answer is the version
  of the moment it is fetched: a cache at GitHub that answers with an older version than before is not
  modelled. One row is enough, since no statement that writes columns reads another row. The collector process
  runs crawl, enrichment and scan jobs for the row in any order, one at a time, which covers the order of the code.
* **Readers** (`Leaderboard`). Requests only read, so one at a time meets everything that can happen to a
  request: between any two of its queries any writer may execute any statement. A list of query parameters is a set; what
  a text search can hit is the set of words a column contains; metrics are numbers, and only their order matters. Of equal
  rows at a LIMIT, and of the boards of one day in `list_tracked`'s LATERAL join, the database may choose any. The
  filter columns of `repos` are set to any of a few values, since `RepoRow` says which writer may set them.
* **Refinement** (`Invites` to `Admission`). `account` is the table of committed users, `places` what `max_uses - used_count`
  leaves of a code that is not revoked, `issued` the codes there are, `promised` the names some answer has confirmed. A
  registration joins when it commits, and promises when its session token exists; locks, waits, refusals and rollbacks
  are steps in which nothing happens to accounts or places.
* **Refinement** (`Sessions` to `Lineage`). A session is its first token and belongs to that token's owner; `usable` are its
  rows that are fresh, `renewing` the sessions with a refresh between the COMMIT that marks its token and the insertion of
  the next. Marking is an `Exchange`, inserting a `Renew` or, for a login, a `Begin`, and a request that ends in between a `Lose`;
  logout, a punished reuse and the refusal of an expired row are a `Close`, the cleanup a `Sweep`. Row locks, waits, cookies
  and every other refusal or failure change nothing.
* **The limiter's logs** (`RateLimiter`). `Vec::retain` drops a log's entries that are too old. Logs are in order, so `KeepYounger`
  cuts a prefix, which can be reasoned about; `MCDiscover` assumes, for TLC to evaluate, that on every ordered log of up to
  four entries this is the filter.
* **GitHub** is the map `canon` from the name asked for to the name answered, or no answer. The
  search may answer with any set of existing repositories; every call may fail.
* **The tab** (`Page`). JavaScript runs a handler to its end and React the effects it causes before the next, so a
  handler with its renders and loads is one step; of several searches one step sends, only the last is kept, since the
  others are superseded at once. A public board, its metric and its date are one member of `Public`, all other
  filters one of `Filter`; an answer is the view or search it answers. Which 401s the server gives is left open (`Sessions`
  says when), and so is every failure. An answer that depends on what the server holds is made there (`Serve`) and travels;
  any other may as well be made when it arrives. Login and logout are single steps; one user at a time, whose list changes in this tab only.
* **Handlers reuse slots.** A slot in `Proc`, `Handler` or `Search` is a request in flight; when it
  has answered it serves another.
* **PostgreSQL**: a row lock taken by `FOR UPDATE`, `UPDATE` or `DELETE` is held to COMMIT or
  ROLLBACK; a `DELETE` works on the rows it saw when it started and waits for their locks
  (READ COMMITTED); an `INSERT .. ON CONFLICT` waits for an open insertion of the same key;
  of two transactions that wait for each other one is failed.
* **Time**: refresh tokens expire in the order of issue, since all live equally long. The limiter's
  instants are kept as ages so that its clock has no bound.

## 3. Runs

| Run | Instance | Shows | States |
|---|---|---|---|
| `tracker` | 1 request slot, 1 user, 2 names of which one exists (the other is what it may be renamed to), 1 batch, 2 of the boards | `TypeOK`, `RefIntegrity`, `ScanCovers`, `ExitHonest`; liveness `PendingEnds` | 108 164 |
| `track_api` | 2 slots of 1 user, 2 repositories, limit 1, 2 days | `CapInv`, `RefusedWritesNothing`, `AnswerHonest`, `IndexedIsOnBoard` | 802 231 |
| `track_cap` | as above, 1 day | **violated**: `CapRespected` | |
| `scan_rename` | 1 slot, rename allowed, no crawl | **violated**: `ScanCoversAll` | |
| `repo_row` | 1 track request, collector, backfill; 2 versions, the first without topics or named license, the second with topics and license "Other" | `TypeOK`, `NothingWiped`, `ReleaseOnlyAdvances`, `StaleOnlyByOverlap`; liveness `TopicsFilled` | 521 185 |
| `health_lost` | 1 version with everything, nobody tracks | **violated**: `HealthCaughtUp` | |
| `sessions` | 2 requests, 1 browser, 2 users, 2 tokens | `TypeOK`, `OneHeir`, `NoFalseAlarm`, `ReuseRevokes`, `NoCollateralLoss`; refinement `ImplementsLineage`; liveness `EveryRequestEnds` | 224 255 |
| `invites` | 2 registrations, 3 names, 2 codes of 1 or 2 uses | `TypeOK`, `InviteHonest`, `RevokedIsClosed`; refinement `ImplementsAdmission`; liveness `EveryRegistrationEnds` | 260 312 |
| `discover` | 2 users, 2 searches, site limit 2, user limits 1, a window of 4 ticks of which 2 make a second | `TypeOK`, `Budget`, `FairRefusal`, `RetryHonest` | 714 108 |
| `leaderboard` | 2 callers, 2 repositories, 2 crawled boards of 1 row each, 2 days, at most 2 writes, yesterday's crawl in the tables | `TypeOK`, `TrackedShown`, `TopOfBoard`, `OwnTracksOnly`, `MarkHonest`, `MetaCoherent`, `NeverPendingAgain` | 1 015 178 |
| `page` | 1 public board, the tracked list, the panel; 2 filters, 1 repository, 1 typed field with 2 texts, 2 calls in flight, a countdown of 1 | `TypeOK`, `PageHonest`, `PanelHonest` | 1 746 780 |
| `page_resend` | as above | **violated**: `SameSearchOnce` | |

**Bounds, and why they are enough.** Two concurrent requests give every race the code has: no
handler's guard counts other handlers, and what one request sees of the rest is the tables. Limit
1 puts every request at the limit. `IndexedBoards` is a parameter; two boards, one private and one
public, suffice for "some written, some not", and the proofs hold for any sequence. One batch is enough for a
crawl that stores, fails or is empty. `MaxDay` bounds midnights. `MaxToken` bounds logins and refreshes: at
the bound issuing can only fail (`CreateFails`). Two versions suffice for "older" and "newer", and one track
request for a writer that overlaps the collector's; the proofs take any number of both. Two tokens are
a token and its successor, and a second refresh that would split the session shows before it inserts a third
(`Minting`); the proofs take any number. In `leaderboard` the answers depend on the tables of at most the moments of two queries, so
two writes, on either side of a query, show every disagreement of two queries; two repositories and boards of
one row show what the merge adds, doubles or cuts off; two boards, of which one is ordered by a column that most writers set to
NULL. A window of four ticks has an
oldest age, an age at the edge and a fraction of a second to round. In `page` two calls give every order of
answers, and a third would only be another of the same (the proofs take any number); two filters, and two texts, are what is chosen and what was chosen before.

**Deadlock** is not checked: every model has states in which nothing needs to happen (an idle
server at the end of the calendar, all codes used up). Waiting in a circle is covered instead by
`EveryRequestEnds` and `EveryRegistrationEnds`, which would fail. What these two rest on is proved for any number of requests:
registrations never wait in a circle (`NoCircle`: the lock on the invite comes before the name, and nothing is waited for after it),
and wherever session requests wait in a circle, of any length, two of the DELETEs in it wait for each other (`CirclesAreOfTwo`),
which is the case `Deadlocked` that PostgreSQL resolves and the fairness relies on.

**Fairness.** Users oblige nobody to do anything; no failure, cancellation, rename or kill is
fair. `Tracker`: the CronJob starts passes again (WF on `StartPass`), a pass that runs goes on
(WF), the cluster does not kill passes for ever (`<>[][~Killed]_vars`: `backoffLimit` and the next
day's job give each a fresh start), and a scan's call or statement that is tried in pass after pass
succeeds some time (SF on `ListTracked`, `ScanFetch`, `ScanUpsert`, `ScanIndex`); without this
assumption GitHub could refuse one repository for ever. `Sessions` and `Invites`: tasks are scheduled
and PostgreSQL hands locks to waiters in order (SF on a handler's step); the only failures relied on
are the deadlock detector's and, at the model's token bound, the failure to issue. `RepoRow`: the row stays on
the boards, so that daily passes list it again and again while it lacks something (SF on `ListNeeds`); a pass that runs
goes on and is not killed for ever while it fetches for this row; the details call and the upsert, tried again
and again, succeed some time (SF on `NeededTopicsOk`, `ApplyEnrichment`). Nothing is assumed of the
languages, license and release calls: `TopicsFilled` says that they cannot hold up the topics. `health_lost` assumes more,
that the health calls succeed too when tried again and again, and the property fails all the same.

## 4. Disagreements between code and documents

Each is a run that ends in a counterexample; `PROJECT.json` quotes the documents.

1. **Limit of 50** (`track_cap`): the count and the insertion are two statements, so concurrent
   requests of one user exceed it. What holds instead is `CapInv`, proved: by at most one row per further
   concurrent request.
2. **Equal searches** (`page_resend`): the design leaves it to the frontend to keep equal searches from the server, which
   has no cache. The panel's filters are a new object in every render of the page, and its load runs whenever they are: opening
   a dialog, a change of theme or tracking a row sends the same search again, at the cost of one of the ten or
   twenty-five searches a minute that `Budget` allows. What is shown is right all the same: `PanelHonest`.
3. **"Every distinct user-tracked repo"** (`scan_rename`): a renamed repository is snapshotted under its
   new name only. What holds instead is `ScanCovers`, proved.
4. **"Made up for next time"** (`health_lost`): the health design says that enrichment which was
   rate-limited is made up for in the next pass. The list of what needs enrichment looks at topics, languages and
   license only, so a row whose last missing column is filled in a pass in which the details call fails is never
   listed again, and its health stays `unknown` unless somebody tracks it. In the same way a row that is complete
   keeps the health of the day it became so.

Noted without a run: README.md:202 says that the ranks of the public boards are not affected by personal tracks;
`merge_with_user_tracked` ranks the caller's tracked rows among the board's, as the handler's comment says (`TopOfBoard` and
`OwnTracksOnly` state what holds: only the caller's own tracks do this, in the caller's answers only). `RefreshError::Stolen` is worded
"token reuse detected; all sessions revoked"; a refresh between its COMMIT and its insertion survives (`ReuseRevokes` states
what holds: every token that existed is gone). `onUntrack` has a branch for a public board, "refresh so tracked_by_me badge
updates", which never runs: it is called from the tracked list only, and closes over that board, so a public board chosen
while the untrack is under way keeps its mark. A board that is left with a load under way shows, if that answer comes last,
the rows of what was chosen before (`PageHonest` excepts it); a search cleared while it is under way fills the panel that shows no
conditions, and a text that lands during the countdown is never searched for (`PanelHonest` excepts both). Two tabs of one
browser that refresh at once, or an answer with a new cookie that is lost, make the browser present a used token, and every session of
the user ends (`NoFalseAlarm` excepts sessions in which requests overlapped or an answer was lost). None of these races is denied by a
property: the three state what holds without them. `/api/languages` and `/api/snapshot-dates` accept `board=tracked_daily` and
answer, for any caller, the languages and days of everybody's tracked rows, while the history of a single repository is refused unless the caller
tracks it (`OwnTracksOnly` is about rows and histories, not about these aggregates). A lookup of `AddRepoModal` closed
meanwhile fills the preview of the dialog opened next. Since a track or scan writes rows of the public boards, `latest_snapshot_date` is that day from then
on, and until the day's crawl has run the boards without a `date` show these rows and not yesterday's list (the design of
2026-08-06 separates the failure of a crawl from serving the old data). The list design shows the day's `tracked_daily`
snapshot; `list_tracked` takes one of any day before another board's of today. Rows merged into a list of a past `date`
carry their latest metrics. A caller whose board has no snapshot at all gets an empty list even with tracks.
`apply_enrichment` ("Write enrichment fields for an existing repo") writes back
language and description as it listed them, so what a track stored meanwhile is undone until the next
crawl (`StaleOnlyByOverlap` allows exactly this); the list design says that every collect overwrites topics, the
code keeps them when the answer has none, so topics removed on GitHub stay; a license read from the LICENSE file
is replaced by the metadata's "Other" in the next crawl. `rate_limit.rs` ("seconds until the oldest hit leaves") rounds down, so a
client that waits exactly as told can be refused once more (`RetryHonest` bounds this by a
second); the design document of 2026-08-06 places `upsert repos` and the snapshots in one transaction,
the code commits each statement; a registration whose session token cannot be created answers 500
although account and place are taken.

## 5. Proofs

All theorems hold for every value of the constants that satisfies the modules' ASSUMEs: any number of
users, repositories, request slots, batches, any list of indexed boards of which one is public, any
number of days, names, codes, handlers, metrics, filters, LIMITs, tokens, browsers and calls in flight.

* `TrackerProofs`: `TypeCorrect`. One lemma per action; the type invariant includes which locals a
  request has at which point (`LocalsFit`), without which `IndexBoard` could not be shown to write a board
  that exists.
* `TrackerSafety`: `HeldRows`, `ReferencesKept`: `RefIntegrity` alone is not inductive, a handler about to
  write a snapshot must be known to hold a row, hence `HeldRowsExist` first. `RefusalsClean`,
  `SuccessesTracked`, `IndexedReported` are three readings of one inductive invariant, `RequestInv`, which
  says for each position of a request what it has established so far (`KnownOf`: nothing written
  before the upsert; past the boards, all of them on its day; past the insertion, the row is there
  or was removed by the user since). `ExitCodeHonest` follows from what the report counts at each point of a
  pass (`ReportInv`); `ScannedCovered` from what the boards already written imply in the middle of a repository
  (`ScanInv`), assuming `tracked_daily` is one of the indexed boards, as in the code.
  For the limit, `CapPromised` counts rows and requests past the gate together; the step that needs
  work is `CheckLimit`, where fewer than `Limit` rows and at most `|Proc| - 1` others past the gate
  leave room for one more. `CapExactWhenSerial`: with one slot the documented limit holds.
* `InvitesProofs`: `LocksHeld` (mutual exclusion on the invite), then `NameClaims` (an open insertion is the
  only one of its name, and a welcomed name is an account), then `InviteHonest` (`UsesCounted`: the count is the number
  of users and within the code's places), and from these `WinnersUnique`, `AccountsNeverChange`, `RevocationFinal`.
  `NeverInCircle` needs to know that a lock is held by an open registration with that code (`HeldByOpen`). `AdmissionImplemented` is the step simulation: under the conjunction of these
  invariants (`IInv`) a commit is a `Join`, the answer a `Promise`, create and revoke `Issue` and `Close`, create-user
  `Appoint`, and every other step leaves the abstract state as it is.
* `RepoRowProofs`: the inductive invariant is `Sound`, what a process holds where it needs it (an upsert has the
  columns it writes, health its details, only the collector ever a release). `WhoWrites` then reduces every step
  that changes the row to three statements, and `LanguagesAgree` and `NothingIsWiped` follow column by column.
  `ReleaseAdvances` needs `ReleaseInv`: only one process ever holds a release, so what it holds is never older than the
  row's. `StaleBounded` needs `OverlapInv`: whatever a process holds is no older than the row unless another has
  written the row since, which is what `overtaken` records.
* `LeaderboardProofs`: `TypeCorrect` with which queries a request of each kind can wait for (`Waits`). `OwnTracksShown`,
  `NobodyElsesTracks` and `MarksHonest` are read off `Mine`: the caller's present tracks lie between those there all the time
  and those there at some time (`Watch`, kept by every writer), the names read once are in turn above the one and below the
  other (`Marks`), and the listing read last has everything that stayed. `TopStays` is a counting argument: `Ahead` is a
  strict total order of rows with different names, so a row's rank is an injection of n rows into 1..n and thus onto it;
  what LIMIT cut off stays behind the `Limit` rows it left (`Topped`), since a merge only adds rows. `MetaHolds` and
  `NoReturnToPending` rest on snapshots never being deleted (`DatesGrow`, `SnapshotsStay`).
* `SessionsProofs`: `TypeCorrect` from `TInv` (whatever is numbered has been issued). `Locals` says what a request that
  waits at an await may rely on: its row is locked and as it was found, its session is that of its token, a DELETE has
  targeted all rows of the user, and only theirs; `StepFrame` that no step of another request disturbs it. From this follow
  `ReuseRevokesAlways` and `NoCollateralLossAlways`. `OneHeirAlways` needs `Heirs`, which counts the refresh that is about to
  insert a token with the usable tokens. `NoFalseAlarmAlways` needs `Cookies` (a token on its way to a jar is in no other
  answer, jar or request) and `Blame` (two requests share a session only if it is shaken; a used token stays in a jar only
  while its successor is on the way, or the session is shaken).
  `DeadlocksOfTwo` takes, of the DELETEs in a circle, one with the fewest rows left (by well-foundedness of strict inclusion):
  a lock is that of the rotation which presented the row (`Held`), a DELETE targets its own row (`Holds`), and of two DELETEs for one
  user the later targets what is left of the earlier's rows (`Nested`), so the one it waits for waits for it.
  `LineageImplemented` is the step simulation under `LInv`: `Locals` and `Heirs` as above, and `Families` (every token, and
  every one about to be inserted, has its session's user), without which a revocation might end another user's session. `OverIsOver`
  is read off it: a session that is over stays over in `Lineage`.
* `DiscoverProofs`: the limiter counts entries of its logs, the properties count searches. `Faithful` says that a log without its expired
  entries is in bijection with the searches it stands for, age by age; lemmas show that the log of the site, of an account and
  of a token stay so when a search is admitted (`Admitted`), pruned or the clock ticks (`Aged`). `TypeCorrect` includes that no log outgrows its
  limit, however often a refused client tries again: what is expired is only dropped when the log is next asked. `Numbered` adds that the searches of one instant
  are numbered without gaps, which makes a new one differ from all others. What is expired is an initial segment of an ordered log, found by counting
  (`InitialSegment`), so the length of a pruned log is the number of searches in the window (`BudgetKept`, `RefusalsFair`), and its first entry the
  oldest of them (`WaitsHonest`).
* `PageProofs`: one inductive invariant, `TabInv`. For the panel: at most one search in flight is still wanted and none while
  the panel counts down or shows an error (`Ready`, `Sober`), and it is the search on display unless the countdown has swallowed
  a change (`Sound`). For the board: unless it has met another load or a change, there is at most one load, it is
  of the chosen view, and once its answer is back the tracked list differs from the server's only by what is being removed or
  by what an added row will reload (`Faithful`, `Listed`). `Waits` and `Starts` say who may wait for a token and that nothing of a
  page is alive before and after it. `PanelShowsItsSearch` and `BoardShowsItsView` are what remains of it when nothing is in flight.

**Only model-checked:** liveness (`PendingEnds`, `TopicsFilled`, `EveryRequestEnds`, `EveryRegistrationEnds`), which rests on
fairness and ENABLED; and that `KeepYounger` is the filter of `Vec::retain`, since the library's filter is defined by
recursion over the data. Every other property of a passing run is a theorem.

## 6. Not modelled

Parsers of GitHub's answers; access tokens, passwords, encryption, configuration; of the frontend the history, admin and token
dialogs, the lookup in `AddRepoModal`, presentation, and of the URL all but what a logout leaves in it; deployment beyond the CronJob's concurrency policy. The health grade, computed from columns as they are read, and the wording of answers. The collector's
daemon mode may in principle start a pass while another is running; the cluster's CronJob forbids it and the model follows
the cluster. The admin check of the invite endpoints reads one column that `AccountsNeverChange` shows never changes. Of the
personal token only its presence is modelled: `Discover` lets it appear and disappear at any moment, which covers what
overlapping PUT and DELETE requests can do to a search, but says nothing of which token is stored in the end.

## 7. What is left

1. `Page` composed with `Sessions`, so that the tab's 401s come from the rows of `refresh_tokens`; the dialogs.
2. Two collector passes at once, as the daemon mode allows.
3. An abstract specification of the limiter: a budget over a set of instants.

## 8. Running

```
tlc -workers 2 -config MCTracker.cfg MCTracker      # a run of section 3
tlapm TrackerSafety.tla                             # a proof module of section 5
```
