---------------------------- MODULE TrackerSafety ----------------------------
(***************************************************************************)
(* What Tracker keeps true beyond the types (module TrackerProofs), for    *)
(* every instance.  Each section strengthens one property to an inductive  *)
(* invariant: what the property says of the answers and of the tables,     *)
(* plus what the requests and the pass under way already know of them.     *)
(***************************************************************************)
EXTENDS TrackerProofs

USE DEF storeVars, apiVars

-----------------------------------------------------------------------------
(* What grows only. *)

\* No step deletes a row of repos or snapshots.
LEMMA OnlyGrows ==
    ASSUME [Next]_vars
    PROVE  repos \subseteq repos' /\ snaps \subseteq snaps'
  <1>1. ASSUME NEW p \in Proc, TrackStep(p)
        PROVE  repos \subseteq repos' /\ snaps \subseteq snaps'
    BY <1>1 DEF TrackStep, FetchOk, FetchFails, CheckTracked, CheckLimit, UpsertGhRepo,
                IndexBoard, IndexFails, InsertTrack, StatusBoard, StatusAny, DbFails,
                UpsertRepo, UpsertSnapshot
  <1>2. CASE ApiNext
    BY <1>1, <1>2 DEF ApiNext, Submit, Abandon, Untrack
  <1>3. CASE Environment
    BY <1>3 DEF Environment, Tick, RenameUpstream
  <1>4. CASE ColNext
    BY <1>4 DEF ColNext, CrawlStep, ScanStep, StartPass, SearchOk, BatchFailed, BatchStored,
                StoreRepo, StoreSnapshot, ListTracked, ListTrackedFails, ScanFetch,
                ScanFetchFails, ScanUpsert, ScanIndex, ScanStoreFails, FinishPass, Killed,
                UpsertRepo, UpsertSnapshot
  <1> QED BY <1>2, <1>3, <1>4 DEF Next, NextNoPass, vars

\* A step of one request leaves the others where they are.
LEMMA OthersStay ==
    ASSUME ApiTypeOK, NEW p \in Proc, TrackStep(p), NEW q \in Proc, q # p
    PROVE  pc'[q] = pc[q] /\ req'[q] = req[q] /\ resp'[q] = resp[q]
  <1> USE DEF ApiTypeOK
  <1>1. ASSUME NEW code, NEW status, Reply(p, code, status)
        PROVE  pc'[q] = pc[q] /\ req'[q] = req[q] /\ resp'[q] = resp[q]
    BY <1>1 DEF Reply
  <1>2. CASE FetchFails(p) \/ StatusAny(p) \/ DbFails(p)
    BY <1>1, <1>2 DEF FetchFails, StatusAny, DbFails
  <1>3. CASE CheckLimit(p) \/ StatusBoard(p)
    BY <1>1, <1>3 DEF CheckLimit, StatusBoard, Goto
  <1>4. CASE FetchOk(p) \/ CheckTracked(p) \/ IndexFails(p) \/ InsertTrack(p)
    BY <1>4 DEF FetchOk, CheckTracked, IndexFails, InsertTrack, Goto
  <1>5. CASE UpsertGhRepo(p)
    BY <1>5 DEF UpsertGhRepo, Goto
  <1>6. CASE IndexBoard(p)
    BY <1>6 DEF IndexBoard, Goto
  <1> QED BY <1>2, <1>3, <1>4, <1>5, <1>6 DEF TrackStep

-----------------------------------------------------------------------------
(* Referential integrity without foreign keys. *)

LEMMA HeldByRequests ==
    ASSUME ApiTypeOK, HeldRowsExist, NEW p \in Proc, TrackStep(p), repos \subseteq repos',
           pc'[p] \in {"index", "track", "board", "any"}
    PROVE  req'[p].gh \in repos'
  <1>r. req[p] \in Req /\ DOMAIN req = Proc /\ DOMAIN pc = Proc
    BY DEF ApiTypeOK
  <1>1. CASE UpsertGhRepo(p)
    BY <1>1, <1>r DEF UpsertGhRepo, UpsertRepo, Req
  <1>2. CASE IndexBoard(p)
    BY <1>2, <1>r DEF IndexBoard, Goto, HeldRowsExist, Req
  <1>3. CASE IndexFails(p)
    BY <1>3, <1>r DEF IndexFails, Goto, HeldRowsExist
  <1>4. CASE InsertTrack(p)
    BY <1>4, <1>r DEF InsertTrack, Goto, HeldRowsExist, Req
  <1>5. CASE StatusBoard(p)
    BY <1>5, <1>r DEF StatusBoard, Goto, Reply, HeldRowsExist
  <1>6. CASE FetchOk(p) \/ FetchFails(p) \/ CheckTracked(p) \/ CheckLimit(p) \/ StatusAny(p)
             \/ DbFails(p)
    BY <1>6, <1>r DEF FetchOk, FetchFails, CheckTracked, CheckLimit, StatusAny, DbFails, Goto, Reply
  <1> QED BY <1>1, <1>2, <1>3, <1>4, <1>5, <1>6 DEF TrackStep

LEMMA HeldRowsNext == TypeOK /\ HeldRowsExist /\ [Next]_vars => HeldRowsExist'
  <1> SUFFICES ASSUME TypeOK, HeldRowsExist, [Next]_vars PROVE HeldRowsExist'
    OBVIOUS
  <1>g. repos \subseteq repos'
    BY OnlyGrows
  <1>t. ApiTypeOK /\ ColTypeOK
    BY DEF TypeOK
  <1>1. ASSUME NEW p \in Proc, TrackStep(p), UNCHANGED col
        PROVE  HeldRowsExist'
    <2>1. ASSUME NEW q \in Proc, pc'[q] \in {"index", "track", "board", "any"}
          PROVE  req'[q].gh \in repos'
      BY <1>1, <1>g, <1>t, <2>1, HeldByRequests, OthersStay DEF HeldRowsExist
    <2> QED BY <1>1, <1>g, <2>1 DEF HeldRowsExist
  <1>2. ASSUME NEW p \in Proc, UNCHANGED <<repos, col>>,
               \/ \E u \in User, n \in Repo : Submit(p, u, n)
               \/ Abandon(p)
        PROVE  HeldRowsExist'
    BY <1>2, <1>t DEF Submit, Abandon, Goto, HeldRowsExist, ApiTypeOK
  <1>3. ASSUME NEW u \in User, NEW n \in Repo, Untrack(u, n), UNCHANGED col
        PROVE  HeldRowsExist'
    <2>1. \A p \in Proc : req'[p].gh = req[p].gh
      BY <1>3, <1>t DEF Untrack, ApiTypeOK, Req
    <2> QED BY <1>3, <2>1 DEF Untrack, HeldRowsExist
  <1>4. CASE Environment /\ UNCHANGED <<apiVars, col>>
    BY <1>4, <1>g DEF HeldRowsExist
  <1>5. CASE ColNext /\ UNCHANGED apiVars
    <2>1. CASE ScanUpsert
      BY <1>5, <1>t, <2>1 DEF ScanUpsert, UpsertRepo, HeldRowsExist, ColTypeOK, Col
    <2>2. ASSUME NEW n \in Repo, StoreRepo(n) PROVE HeldRowsExist'
      BY <1>5, <1>t, <2>2 DEF StoreRepo, UpsertRepo, HeldRowsExist, ColTypeOK, Col
    <2>3. CASE ScanIndex
      BY <1>5, <1>t, <2>3 DEF ScanIndex, ScannedWith, HeldRowsExist, ColTypeOK, Col
    <2>4. ASSUME col'.pc \notin {"snap", "index"} PROVE HeldRowsExist'
      BY <1>5, <1>g, <2>4 DEF HeldRowsExist
    <2>5. ASSUME ~ScanUpsert, ~ScanIndex, \A n \in Repo : ~StoreRepo(n)
          PROVE  col'.pc \notin {"snap", "index"}
      <3>0. col \in Col
        BY <1>t DEF ColTypeOK
      <3>1. CASE CrawlStep
        BY <2>5, <3>0, <3>1
        DEF CrawlStep, SearchOk, BatchFailed, BatchStored, StoreSnapshot, AtBatch, Col
      <3>2. CASE ScanStep
        <4>1. CASE ListTracked \/ ListTrackedFails \/ ScanStoreFails
          BY <3>0, <4>1 DEF ListTracked, ListTrackedFails, ScanStoreFails, ScannedWith, Col
        <4>2. ASSUME NEW n \in Repo, ScanFetch(n) \/ ScanFetchFails(n)
              PROVE  col'.pc \notin {"snap", "index"}
          BY <3>0, <4>2 DEF ScanFetch, ScanFetchFails, Col
        <4>3. ScanStep => \/ ListTracked \/ ListTrackedFails \/ ScanStoreFails \/ ScanUpsert \/ ScanIndex
                          \/ \E n \in Repo : ScanFetch(n) \/ ScanFetchFails(n)
          BY DEF ScanStep
        <4> QED BY <2>5, <3>2, <4>1, <4>2, <4>3
      <3>3. CASE StartPass \/ FinishPass \/ Killed
        BY <3>0, <3>3 DEF StartPass, FinishPass, Killed, AtBatch, NewCol, Col
      <3> QED BY <1>5, <3>1, <3>2, <3>3 DEF ColNext
    <2> QED BY <2>1, <2>2, <2>3, <2>4, <2>5
  <1>6. CASE UNCHANGED vars
    BY <1>6 DEF vars, HeldRowsExist
  <1> QED BY <1>1, <1>2, <1>3, <1>4, <1>5, <1>6 DEF Next, NextNoPass, ApiNext, Submit, Abandon

LEMMA RefNext == TypeOK /\ HeldRowsExist /\ RefIntegrity /\ [Next]_vars => RefIntegrity'
  <1> SUFFICES ASSUME TypeOK, HeldRowsExist, RefIntegrity, [Next]_vars PROVE RefIntegrity'
    OBVIOUS
  <1>g. repos \subseteq repos'
    BY OnlyGrows
  <1>t. StoreTypeOK /\ ApiTypeOK /\ ColTypeOK
    BY DEF TypeOK
  <1>0. CASE snaps' = snaps /\ tracked' \subseteq tracked
    BY <1>0, <1>g DEF RefIntegrity
  <1>1. ASSUME NEW p \in Proc, IndexBoard(p) PROVE RefIntegrity'
    BY <1>1, <1>g DEF IndexBoard, Goto, UpsertSnapshot, RefIntegrity, HeldRowsExist
  <1>2. ASSUME NEW p \in Proc, InsertTrack(p) PROVE RefIntegrity'
    BY <1>2, <1>g DEF InsertTrack, Goto, TrackRepo, RefIntegrity, HeldRowsExist
  <1>3. CASE StoreSnapshot
    BY <1>3, <1>g DEF StoreSnapshot, UpsertSnapshot, RefIntegrity, HeldRowsExist
  <1>4. CASE ScanIndex
    BY <1>4, <1>g DEF ScanIndex, UpsertSnapshot, RefIntegrity, HeldRowsExist
  <1>5. ASSUME NEW u \in User, NEW n \in Repo, Untrack(u, n) PROVE RefIntegrity'
    BY <1>0, <1>5 DEF Untrack, UntrackRepo
  <1>6. CASE ApiNext
    <2>1. ASSUME NEW p \in Proc, TrackStep(p), ~IndexBoard(p), ~InsertTrack(p)
          PROVE  UNCHANGED <<snaps, tracked>>
      BY <2>1 DEF TrackStep, FetchOk, FetchFails, CheckTracked, CheckLimit, UpsertGhRepo, IndexFails,
                  StatusBoard, StatusAny, DbFails
    <2> QED BY <1>0, <1>1, <1>2, <1>5, <1>6, <2>1 DEF ApiNext, Submit, Abandon
  <1>7. CASE ColNext
    BY <1>0, <1>3, <1>4, <1>7 DEF ColNext, CrawlStep, ScanStep, StartPass, SearchOk, BatchFailed,
        BatchStored, StoreRepo, ListTracked, ListTrackedFails, ScanFetch, ScanFetchFails, ScanUpsert,
        ScanStoreFails, FinishPass, Killed
  <1>8. CASE Environment \/ UNCHANGED vars
    BY <1>0, <1>8 DEF Environment, Tick, RenameUpstream, vars
  <1> QED BY <1>6, <1>7, <1>8 DEF Next, NextNoPass

LEMMA RefInit == Init => HeldRowsExist /\ RefIntegrity
  BY DEF Init, StoreInit, ApiInit, ColInit, NewCol, HeldRowsExist, RefIntegrity

\* Whatever a handler or the pass carries from one statement to the next has its row
\* in repos (upsert_repo comes first on every path and nothing deletes from repos).
THEOREM HeldRows == Spec => []HeldRowsExist
  BY TypeCorrect, RefInit, HeldRowsNext, PTL DEF Spec

\* Every snapshot and every track names a repository that has a row: the program
\* keeps what the schema, which has no foreign key, does not.
THEOREM ReferencesKept == Spec => []RefIntegrity
  BY TypeCorrect, HeldRows, RefInit, RefNext, PTL DEF Spec

-----------------------------------------------------------------------------
(* What a request knows of the tables, and what its answer may claim.      *)

\* Nothing is written before the gate; a request that found or added the track
\* still has it unless the user took it back; the boards below `next` are written
\* for the request's day; and the second status query is asked only when one is not.
KnownOf(p) ==
    /\ pc[p] \in {"fetch", "check", "count"} => ~req[p].wrote /\ ~req[p].already
    /\ req[p].already \/ pc[p] \in {"board", "any"} =>
           <<req[p].user, req[p].gh>> \in tracked \/ req[p].undone
    /\ \A k \in 1 .. req[p].next - 1 :
           <<req[p].gh, req[p].day, IndexedBoards[k]>> \in snaps
    /\ pc[p] = "any" => req[p].next <= Len(IndexedBoards)

RequestInv == \A p \in Proc : KnownOf(p)

AnswersHonest == RefusedWritesNothing /\ AnswerHonest /\ IndexedIsOnBoard

\* A request that answered has forgotten everything.
LEMMA AnsweredKnows ==
    ASSUME ApiTypeOK, NEW p \in Proc, pc'[p] = "idle", req'[p] = NoReq
    PROVE  KnownOf(p)'
  BY DEF KnownOf, NoReq, NewReq

LEMMA ReplyKnows ==
    ASSUME ApiTypeOK, NEW p \in Proc, NEW code, NEW status, Reply(p, code, status)
    PROVE  KnownOf(p)'
  BY AnsweredKnows DEF Reply, ApiTypeOK

LEMMA StepKnows ==
    ASSUME TypeOK, NEW p \in Proc, KnownOf(p), TrackStep(p), snaps \subseteq snaps'
    PROVE  KnownOf(p)'
  <1>t. ApiTypeOK /\ StoreTypeOK
    BY DEF TypeOK
  <1>r. /\ req[p] \in Req /\ pc[p] \in PC /\ LocalsFit(pc[p], req[p])
        /\ DOMAIN req = Proc /\ DOMAIN pc = Proc /\ today \in Day
    BY DEF TypeOK, ApiTypeOK, StoreTypeOK
  <1>n. req[p].next \in Nat /\ Len(IndexedBoards) \in Nat \ {0}
    BY <1>r, BoardsTyped DEF Req
  <1>1. CASE FetchOk(p)
    BY <1>1, <1>r DEF FetchOk, Goto, KnownOf, LocalsFit, Req
  <1>2. CASE FetchFails(p) \/ StatusAny(p) \/ DbFails(p)
    BY <1>2, <1>t, ReplyKnows DEF FetchFails, StatusAny, DbFails
  <1>3. CASE CheckTracked(p)
    <2>1. IsTracked(req[p].user, req[p].gh) => <<req[p].user, req[p].gh>> \in tracked
      BY DEF IsTracked
    <2>2. /\ req'[p].already = IsTracked(req[p].user, req[p].gh)
          /\ req'[p].user = req[p].user /\ req'[p].gh = req[p].gh
          /\ req'[p].next = req[p].next /\ req'[p].wrote = req[p].wrote
      BY <1>3, <1>r DEF CheckTracked, Req
    <2>3. req[p].next = 1 /\ ~req[p].wrote /\ pc'[p] \in {"upsert", "count"} /\ tracked' = tracked
      BY <1>3, <1>r DEF CheckTracked, Goto, LocalsFit, KnownOf
    <2>4. req'[p].already => <<req'[p].user, req'[p].gh>> \in tracked'
      BY <2>1, <2>2, <2>3, Zenon
    <2>5. req'[p].already => pc'[p] = "upsert"
      <3>1. pc'[p] = IF IsTracked(req[p].user, req[p].gh) THEN "upsert" ELSE "count"
        BY <1>3, <1>r DEF CheckTracked, Goto
      <3> QED BY <2>2, <3>1, Zenon
    <2> QED BY <2>2, <2>3, <2>4, <2>5 DEF KnownOf
  <1>4. CASE CheckLimit(p)
    <2>1. CASE Reply(p, 409, "none")
      BY <2>1, <1>t, ReplyKnows
    <2>2. CASE Goto(p, "count", "upsert") /\ req' = [req EXCEPT ![p].day = today]
      BY <2>2, <1>4, <1>r DEF CheckLimit, Goto, KnownOf, LocalsFit, Req
    <2> QED BY <1>4, <2>1, <2>2 DEF CheckLimit
  <1>5. CASE UpsertGhRepo(p)
    BY <1>5, <1>r DEF UpsertGhRepo, Goto, KnownOf, LocalsFit, Req
  <1>6. CASE IndexBoard(p)
    <2>1. /\ req'[p] = [req[p] EXCEPT !.next = req[p].next + 1]
          /\ tracked' = tracked /\ pc[p] = "index"
      BY <1>6, <1>r DEF IndexBoard, Goto
    <2>2. ASSUME NEW k \in 1 .. req'[p].next - 1
          PROVE  <<req'[p].gh, req'[p].day, IndexedBoards[k]>> \in snaps'
      BY <1>6, <1>r, <1>n, <2>1 DEF IndexBoard, UpsertSnapshot, KnownOf, Req
    <2>3. pc'[p] \in {"index", AfterIndex(p)} /\ AfterIndex(p) = (IF req[p].already THEN "board" ELSE "track")
      BY <1>6, <1>r DEF IndexBoard, Goto, AfterIndex
    <2> QED BY <1>r, <2>1, <2>2, <2>3 DEF KnownOf, Req
  <1>7. CASE IndexFails(p)
    BY <1>7, <1>r DEF IndexFails, AfterIndex, Goto, KnownOf
  <1>8. CASE InsertTrack(p)
    BY <1>8, <1>r DEF InsertTrack, TrackRepo, Goto, KnownOf, Req
  <1>9. CASE StatusBoard(p)
    <2>1. CASE Reply(p, SuccessCode(p), "on_board")
      BY <2>1, <1>t, ReplyKnows
    <2>2. CASE ~IsOnPublicBoard(req[p].gh, req[p].day) /\ Goto(p, "board", "any")
               /\ UNCHANGED <<req, resp>>
      <3>1. PICK i \in 1 .. Len(IndexedBoards) : IndexedBoards[i] \in PublicBoard
        BY StoreAssumption
      <3>2. <<req[p].gh, req[p].day, IndexedBoards[i]>> \notin snaps
        BY <2>2, <3>1 DEF IsOnPublicBoard
      <3>3. req[p].next <= Len(IndexedBoards)
        BY <1>n, <3>1, <3>2 DEF KnownOf
      <3> QED BY <1>r, <1>9, <2>2, <3>3 DEF StatusBoard, Goto, KnownOf
    <2> QED BY <1>9, <2>1, <2>2 DEF StatusBoard
  <1> QED BY <1>1, <1>2, <1>3, <1>4, <1>5, <1>6, <1>7, <1>8, <1>9 DEF TrackStep

\* A request keeps what it knows while others add rows, and while its own fields
\* stand still.
LEMMA OthersKnow ==
    ASSUME ApiTypeOK, NEW q \in Proc, KnownOf(q), pc'[q] = pc[q], req'[q] = req[q],
           snaps \subseteq snaps', tracked \subseteq tracked'
    PROVE  KnownOf(q)'
  BY DEF KnownOf

LEMMA UntrackKnows ==
    ASSUME TypeOK, NEW u \in User, NEW n \in Repo, Untrack(u, n), NEW q \in Proc, KnownOf(q)
    PROVE  KnownOf(q)'
  <1>r. /\ req[q] \in Req /\ pc' = pc /\ snaps' = snaps /\ tracked \ {<<u, n>>} \subseteq tracked'
    BY DEF TypeOK, ApiTypeOK, Untrack, UntrackRepo
  <1>1. CASE req[q].user = u /\ req[q].gh = n
    <2>1. req'[q] = [req[q] EXCEPT !.undone = TRUE]
      BY <1>1 DEF Untrack
    <2> QED BY <1>r, <2>1 DEF KnownOf, Req
  <1>2. CASE ~(req[q].user = u /\ req[q].gh = n)
    <2>1. req'[q] = req[q]
      BY <1>2 DEF Untrack
    <2> QED BY <1>r, <1>2, <2>1 DEF KnownOf
  <1> QED BY <1>1, <1>2

\* Only Untrack removes a track.
LEMMA TracksStay ==
    ASSUME NEW p \in Proc, TrackStep(p)
    PROVE  tracked \subseteq tracked'
  BY DEF TrackStep, FetchOk, FetchFails, CheckTracked, CheckLimit, UpsertGhRepo, IndexBoard,
         IndexFails, InsertTrack, StatusBoard, StatusAny, DbFails, TrackRepo

LEMMA RequestNext == TypeOK /\ RequestInv /\ [Next]_vars => RequestInv'
  <1> SUFFICES ASSUME TypeOK, RequestInv, [Next]_vars, NEW q \in Proc PROVE KnownOf(q)'
    BY DEF RequestInv
  <1>t. ApiTypeOK /\ KnownOf(q) /\ snaps \subseteq snaps'
    BY OnlyGrows DEF TypeOK, RequestInv
  <1>1. ASSUME NEW p \in Proc, TrackStep(p) PROVE KnownOf(q)'
    <2>1. CASE p = q
      BY <1>1, <1>t, <2>1, StepKnows
    <2>2. CASE p # q
      BY <1>1, <1>t, <2>2, OthersStay, OthersKnow, TracksStay
    <2> QED BY <2>1, <2>2
  <1>2. ASSUME NEW p \in Proc, NEW u \in User, NEW n \in Repo, Submit(p, u, n) PROVE KnownOf(q)'
    <2>1. CASE p = q
      BY <1>2, <1>t, <2>1 DEF Submit, Goto, NewReq, KnownOf, ApiTypeOK
    <2>2. CASE p # q
      BY <1>2, <1>t, <2>2, OthersKnow DEF Submit, Goto, ApiTypeOK
    <2> QED BY <2>1, <2>2
  <1>3. ASSUME NEW p \in Proc, Abandon(p) PROVE KnownOf(q)'
    <2>1. CASE p = q
      BY <1>3, <1>t, <2>1, AnsweredKnows DEF Abandon, ApiTypeOK
    <2>2. CASE p # q
      BY <1>3, <1>t, <2>2, OthersKnow DEF Abandon, ApiTypeOK
    <2> QED BY <2>1, <2>2
  <1>4. ASSUME NEW u \in User, NEW n \in Repo, Untrack(u, n) PROVE KnownOf(q)'
    BY <1>4, <1>t, UntrackKnows
  <1>5. CASE UNCHANGED <<tracked, apiVars>>
    BY <1>5, <1>t, OthersKnow
  <1>6. CASE ColNext /\ UNCHANGED apiVars
    <2>1. UNCHANGED tracked
      BY <1>6 DEF ColNext, CrawlStep, ScanStep, StartPass, SearchOk, BatchFailed, BatchStored,
                  StoreRepo, StoreSnapshot, ListTracked, ListTrackedFails, ScanFetch,
                  ScanFetchFails, ScanUpsert, ScanIndex, ScanStoreFails, FinishPass, Killed
    <2> QED BY <1>5, <1>6, <2>1
  <1>7. CASE Environment /\ UNCHANGED apiVars
    BY <1>5, <1>7 DEF Environment, Tick, RenameUpstream
  <1> QED BY <1>1, <1>2, <1>3, <1>4, <1>5, <1>6, <1>7 DEF Next, NextNoPass, ApiNext, vars

\* The answer a request gives when it stops, from what it knows.
LEMMA ReplyHonest ==
    ASSUME TypeOK, NEW p \in Proc, KnownOf(p), NEW code \in Code, NEW status \in Status,
           Reply(p, code, status),
           code \in {404, 409, 502} => pc[p] \in {"fetch", "count"},
           code \in {200, 201} => pc[p] \in {"board", "any"},
           code \in {200, 201} => (status = "on_board" \/ pc[p] = "any"),
           tracked' = tracked
    PROVE  /\ resp'[p].code \in {404, 409, 502} => ~resp'[p].wrote
           /\ resp'[p].code \in {200, 201} =>
                  <<resp'[p].user, resp'[p].repo>> \in tracked' \/ resp'[p].undone
           /\ resp'[p].code \in {200, 201} /\ resp'[p].indexed => resp'[p].status = "on_board"
  <1>r. req[p] \in Req /\ DOMAIN resp = Proc /\ Len(IndexedBoards) \in Nat
    BY BoardsTyped DEF TypeOK, ApiTypeOK
  <1>a. /\ resp'[p].code = code /\ resp'[p].status = status
        /\ resp'[p].user = req[p].user /\ resp'[p].repo = req[p].gh
        /\ resp'[p].wrote = req[p].wrote /\ resp'[p].undone = req[p].undone
        /\ resp'[p].indexed = (req[p].next > Len(IndexedBoards))
    BY <1>r DEF Reply
  <1>1. code \in {404, 409, 502} => ~req[p].wrote
    BY DEF KnownOf
  <1>2. code \in {200, 201} => <<req[p].user, req[p].gh>> \in tracked \/ req[p].undone
    BY DEF KnownOf
  <1>3. code \in {200, 201} => (status = "on_board" \/ ~(req[p].next > Len(IndexedBoards)))
    BY <1>r DEF KnownOf, Req
  <1>4. resp'[p].code \in {404, 409, 502} => ~resp'[p].wrote
    BY <1>a, <1>1
  <1>5. resp'[p].code \in {200, 201} =>
            <<resp'[p].user, resp'[p].repo>> \in tracked' \/ resp'[p].undone
    <2>1. <<resp'[p].user, resp'[p].repo>> = <<req[p].user, req[p].gh>>
      BY <1>a
    <2>2. resp'[p].code = code /\ resp'[p].undone = req[p].undone
      BY <1>a
    <2> QED BY <1>2, <2>1, <2>2
  <1>6. resp'[p].code \in {200, 201} /\ resp'[p].indexed => resp'[p].status = "on_board"
    <2>1. resp'[p].indexed => req[p].next > Len(IndexedBoards)
      BY <1>a, Zenon
    <2>2. resp'[p].code = code /\ resp'[p].status = status
      BY <1>a, Zenon
    <2> QED BY <1>3, <2>1, <2>2, Zenon
  <1> QED BY <1>4, <1>5, <1>6

\* The three claims, of one slot's last answer.
HonestAt(p) ==
    /\ resp[p].code \in {404, 409, 502} => ~resp[p].wrote
    /\ Accepted(p) => <<resp[p].user, resp[p].repo>> \in tracked \/ resp[p].undone
    /\ Accepted(p) /\ resp[p].indexed => resp[p].status = "on_board"

LEMMA HonestAll == AnswersHonest <=> \A p \in Proc : HonestAt(p)
  BY DEF AnswersHonest, HonestAt, RefusedWritesNothing, AnswerHonest, IndexedIsOnBoard

LEMMA StepHonest ==
    ASSUME TypeOK, NEW p \in Proc, KnownOf(p), HonestAt(p), TrackStep(p)
    PROVE  HonestAt(p)'
  <1>t. tracked \subseteq tracked' /\ ApiTypeOK
    BY TracksStay DEF TypeOK
  <1>0. CASE resp' = resp
    BY <1>0, <1>t DEF HonestAt, Accepted
  <1>1. CASE FetchFails(p)
    BY <1>1, ReplyHonest DEF FetchFails, HonestAt, Accepted, Code, Status
  <1>2. CASE CheckLimit(p)
    BY <1>0, <1>2, ReplyHonest DEF CheckLimit, HonestAt, Accepted, Code, Status
  <1>3. CASE StatusBoard(p)
    BY <1>0, <1>3, ReplyHonest DEF StatusBoard, SuccessCode, HonestAt, Accepted, Code, Status
  <1>4. CASE StatusAny(p)
    BY <1>4, ReplyHonest DEF StatusAny, SuccessCode, HonestAt, Accepted, Code, Status
  <1>5. CASE DbFails(p)
    BY <1>5, ReplyHonest DEF DbFails, HonestAt, Accepted, Code, Status
  <1>6. CASE FetchOk(p) \/ CheckTracked(p) \/ UpsertGhRepo(p) \/ IndexBoard(p) \/ IndexFails(p)
             \/ InsertTrack(p)
    BY <1>0, <1>6 DEF FetchOk, CheckTracked, UpsertGhRepo, IndexBoard, IndexFails, InsertTrack
  <1> QED BY <1>1, <1>2, <1>3, <1>4, <1>5, <1>6 DEF TrackStep

LEMMA AnswersNext == TypeOK /\ RequestInv /\ AnswersHonest /\ [Next]_vars => AnswersHonest'
  <1> SUFFICES ASSUME TypeOK, RequestInv, AnswersHonest, [Next]_vars, NEW q \in Proc
               PROVE  HonestAt(q)'
    BY HonestAll DEF HonestAt, AnswersHonest, RefusedWritesNothing, AnswerHonest, IndexedIsOnBoard,
                     Accepted
  <1>t. ApiTypeOK /\ KnownOf(q) /\ HonestAt(q)
    BY HonestAll DEF TypeOK, RequestInv
  <1>0. CASE resp'[q] = resp[q] /\ tracked \subseteq tracked'
    BY <1>0, <1>t DEF HonestAt, Accepted
  <1>1. ASSUME NEW p \in Proc, TrackStep(p) PROVE HonestAt(q)'
    <2>1. CASE p = q
      BY <1>1, <1>t, <2>1, StepHonest
    <2>2. CASE p # q
      BY <1>0, <1>1, <1>t, <2>2, OthersStay, TracksStay
    <2> QED BY <2>1, <2>2
  <1>2. ASSUME NEW p \in Proc, NEW u \in User, NEW n \in Repo, Submit(p, u, n) PROVE HonestAt(q)'
    <2>1. CASE p = q
      BY <1>2, <1>t, <2>1 DEF Submit, NoResp, HonestAt, Accepted, ApiTypeOK
    <2>2. CASE p # q
      BY <1>0, <1>2, <1>t, <2>2 DEF Submit, ApiTypeOK
    <2> QED BY <2>1, <2>2
  <1>3. ASSUME NEW p \in Proc, Abandon(p) PROVE HonestAt(q)'
    BY <1>0, <1>3 DEF Abandon
  <1>4. ASSUME NEW u \in User, NEW n \in Repo, Untrack(u, n) PROVE HonestAt(q)'
    <2>r. resp[q] \in Resp /\ tracked \ {<<u, n>>} \subseteq tracked'
      BY <1>4, <1>t DEF ApiTypeOK, Untrack, UntrackRepo
    <2>1. CASE resp[q].user = u /\ resp[q].repo = n
      <3>1. resp'[q] = [resp[q] EXCEPT !.undone = TRUE]
        BY <1>4, <2>1 DEF Untrack
      <3> QED BY <1>t, <2>r, <3>1 DEF HonestAt, Accepted, Resp
    <2>2. CASE ~(resp[q].user = u /\ resp[q].repo = n)
      <3>1. resp'[q] = resp[q]
        BY <1>4, <2>2 DEF Untrack
      <3> QED BY <1>t, <2>r, <2>2, <3>1 DEF HonestAt, Accepted
    <2> QED BY <2>1, <2>2
  <1>5. CASE ColNext /\ UNCHANGED apiVars
    BY <1>0, <1>5 DEF ColNext, CrawlStep, ScanStep, StartPass, SearchOk, BatchFailed, BatchStored,
                      StoreRepo, StoreSnapshot, ListTracked, ListTrackedFails, ScanFetch,
                      ScanFetchFails, ScanUpsert, ScanIndex, ScanStoreFails, FinishPass, Killed
  <1>6. CASE Environment /\ UNCHANGED apiVars
    BY <1>0, <1>6 DEF Environment, Tick, RenameUpstream
  <1>7. CASE UNCHANGED vars
    BY <1>0, <1>7 DEF vars
  <1> QED BY <1>1, <1>2, <1>3, <1>4, <1>5, <1>6, <1>7 DEF Next, NextNoPass, ApiNext

LEMMA AnswersInit == Init => RequestInv /\ AnswersHonest
  BY DEF Init, ApiInit, NoReq, NewReq, NoResp, RequestInv, KnownOf, AnswersHonest, RefusedWritesNothing,
         AnswerHonest, IndexedIsOnBoard, Accepted

LEMMA RequestsKnow == Spec => []RequestInv
  BY TypeCorrect, AnswersInit, RequestNext, PTL DEF Spec

LEMMA AllAnswersHonest == Spec => []AnswersHonest
  BY TypeCorrect, RequestsKnow, AnswersInit, AnswersNext, PTL DEF Spec

\* A request refused with 404, 409 or 502 has written nothing.
THEOREM RefusalsClean == Spec => []RefusedWritesNothing
  <1>1. AnswersHonest => RefusedWritesNothing
    BY DEF AnswersHonest
  <1> QED BY <1>1, AllAnswersHonest, PTL

\* A request answered 200 or 201 has its repository in the user's list, unless the
\* user took it back since.
THEOREM SuccessesTracked == Spec => []AnswerHonest
  <1>1. AnswersHonest => AnswerHonest
    BY DEF AnswersHonest
  <1> QED BY <1>1, AllAnswersHonest, PTL

\* A request that wrote all its boards reports the repository on_board, whenever
\* midnight falls.
THEOREM IndexedReported == Spec => []IndexedIsOnBoard
  <1>1. AnswersHonest => IndexedIsOnBoard
    BY DEF AnswersHonest
  <1> QED BY <1>1, AllAnswersHonest, PTL

-----------------------------------------------------------------------------
(* The exit code of a pass. *)

\* Something is on a public board on the pass's day.
OnBoardThatDay == \E n \in Repo, b \in PublicBoard : <<n, col.day, b>> \in snaps

\* What has been counted has been stored: in the current batch and in the report.
ReportInv ==
    /\ col.ok > 0 \/ col.stored > 0 => OnBoardThatDay
    /\ col.exit = "success" => OnBoardThatDay

LEMMA ReportKept ==
    ASSUME TypeOK, ReportInv, snaps \subseteq snaps', col'.day = col.day,
           col'.ok > 0 \/ col'.stored > 0 => col.ok > 0 \/ col.stored > 0,
           col'.exit = "success" => col.exit = "success" \/ col.ok > 0
    PROVE  ReportInv'
  BY DEF ReportInv, OnBoardThatDay

LEMMA ReportStored ==
    ASSUME TypeOK, ReportInv, StoreSnapshot
    PROVE  ReportInv'
  <1>1. /\ col.cur \in Repo /\ col.batch \in 1 .. Len(Batches) /\ Batches[col.batch] \in PublicBoard
    <2>1. col.cur \in Repo /\ col.batch \in 1 .. Len(Batches)
      BY BoardsTyped DEF StoreSnapshot, TypeOK, ColTypeOK, Col
    <2> QED BY <2>1, CollectorAssumption
  <1>2. /\ snaps' = snaps \cup {<<col.cur, col.day, Batches[col.batch]>>}
        /\ col'.day = col.day
    BY DEF StoreSnapshot, UpsertSnapshot, TypeOK, ColTypeOK, Col
  <1>3. OnBoardThatDay'
    BY <1>1, <1>2 DEF OnBoardThatDay
  <1> QED BY <1>3 DEF ReportInv

LEMMA ReportNext == TypeOK /\ ReportInv /\ [Next]_vars => ReportInv'
  <1> SUFFICES ASSUME TypeOK, ReportInv, [Next]_vars PROVE ReportInv'
    OBVIOUS
  <1>g. snaps \subseteq snaps'
    BY OnlyGrows
  <1>c. col \in Col /\ col.ok \in Nat /\ col.stored \in Nat
    BY DEF TypeOK, ColTypeOK, Col
  <1>0. CASE col' = col
    BY <1>0, <1>g, ReportKept
  <1>1. CASE StartPass \/ Killed
    <2>1. col'.ok = 0 /\ col'.stored = 0 /\ col'.exit \in {"none", "killed"}
      BY <1>1 DEF StartPass, Killed, NewCol
    <2> QED BY <2>1 DEF ReportInv
  <1>2. CASE BatchStored
    <2>1. col'.ok = col.ok + col.stored /\ col'.stored = 0 /\ col'.day = col.day /\ col'.exit = col.exit
      BY <1>2, <1>c DEF BatchStored, Col
    <2> QED BY <1>c, <1>g, <2>1, ReportKept
  <1>3. CASE StoreSnapshot
    BY <1>3, ReportStored
  <1>4. CASE FinishPass
    <2>1. /\ col'.ok = 0 /\ col'.stored = 0 /\ col'.day = col.day
          /\ col'.exit = "success" => col.ok > 0
      BY <1>4 DEF FinishPass, NewCol
    <2> QED BY <1>g, <2>1, ReportKept
  <1>5. CASE \/ SearchOk \/ BatchFailed \/ ListTracked \/ ListTrackedFails \/ ScanUpsert \/ ScanIndex
             \/ ScanStoreFails
             \/ \E n \in Repo : StoreRepo(n) \/ ScanFetch(n) \/ ScanFetchFails(n)
    <2> DEFINE Counted == /\ col'.ok = col.ok /\ col'.stored \in {0, col.stored}
                          /\ col'.day = col.day /\ col'.exit = col.exit
    <2>1. CASE SearchOk \/ BatchFailed \/ \E n \in Repo : StoreRepo(n)
      <3>1. Counted
        BY <1>c, <2>1 DEF SearchOk, BatchFailed, StoreRepo, Col
      <3> QED BY <1>c, <1>g, <3>1, ReportKept
    <2>2. CASE ListTracked \/ ListTrackedFails \/ ScanUpsert \/ ScanStoreFails
      <3>1. Counted
        BY <1>c, <2>2 DEF ListTracked, ListTrackedFails, ScanUpsert, ScanStoreFails, ScannedWith, Col
      <3> QED BY <1>c, <1>g, <3>1, ReportKept
    <2>3. CASE ScanIndex \/ \E n \in Repo : ScanFetch(n) \/ ScanFetchFails(n)
      <3>1. Counted
        BY <1>c, <2>3 DEF ScanIndex, ScannedWith, ScanFetch, ScanFetchFails, Col
      <3> QED BY <1>c, <1>g, <3>1, ReportKept
    <2> QED BY <1>5, <2>1, <2>2, <2>3
  <1> QED BY <1>0, <1>1, <1>2, <1>3, <1>4, <1>5 DEF Next, NextNoPass, ColNext, CrawlStep, ScanStep, vars

LEMMA ReportInit == Init => ReportInv
  BY DEF Init, ColInit, NewCol, ReportInv

\* A pass that exits with success has put something on a public board of its day.
THEOREM ExitCodeHonest == Spec => []ExitHonest
  <1>1. ReportInv => ExitHonest
    BY DEF ReportInv, ExitHonest, OnBoardThatDay
  <1> QED BY <1>1, TypeCorrect, ReportInit, ReportNext, PTL DEF Spec

-----------------------------------------------------------------------------
(* The scan of tracked repositories. *)

\* The boards below `next` are written; GitHub knows what is being stored and what has
\* been scanned; and what GitHub still has under the name asked for is stored under it.
ScanInv ==
    /\ col.pc \in {"upsert", "index"} =>
           /\ \A k \in 1 .. col.next - 1 : <<col.cur, col.day, IndexedBoards[k]>> \in snaps
           /\ canon[col.asked] # NoRepo
           /\ canon[col.asked] = col.asked => col.cur = col.asked
    /\ \A n \in col.clean : canon[n] # NoRepo
    /\ ScanCovers

TrackedIndexed == \E i \in 1 .. Len(IndexedBoards) : IndexedBoards[i] = "tracked_daily"

\* A name GitHub knows keeps being known, and never becomes its own new name later.
LEMMA RenameKeeps ==
    ASSUME StoreTypeOK, Environment, NEW x \in Repo, canon[x] # NoRepo
    PROVE  canon'[x] # NoRepo /\ (canon'[x] = x => canon[x] = x)
  <1>1. CASE Tick
    BY <1>1 DEF Tick
  <1>2. ASSUME NEW n \in Repo, NEW m \in Repo, RenameUpstream(n, m)
        PROVE  canon'[x] # NoRepo /\ (canon'[x] = x => canon[x] = x)
    <2>1. canon' = [y \in Repo |-> IF y = m \/ canon[y] = n THEN m ELSE canon[y]]
          /\ canon[m] = NoRepo
      BY <1>2 DEF RenameUpstream
    <2>2. m # NoRepo /\ x # m
      BY <2>1, StoreAssumption
    <2> QED BY <2>1, <2>2
  <1> QED BY <1>1, <1>2 DEF Environment

\* Nothing the scan claims is lost while the pass stands still.
LEMMA ScanStays ==
    ASSUME TypeOK, ScanInv, snaps \subseteq snaps', UNCHANGED col, UNCHANGED canon \/ Environment
    PROVE  ScanInv'
  <1>t. StoreTypeOK /\ col.clean \subseteq Repo /\ (col.pc \in {"upsert", "index"} => col.asked \in Repo)
    BY DEF TypeOK, ColTypeOK, Col
  <1>1. ASSUME NEW x \in Repo, canon[x] # NoRepo
        PROVE  canon'[x] # NoRepo /\ (canon'[x] = x => canon[x] = x)
    BY <1>t, <1>1, RenameKeeps
  <1> QED BY <1>t, <1>1 DEF ScanInv, ScanCovers

\* One repository more, or none, is behind the scan.
LEMMA ScannedKeeps ==
    ASSUME TypeOK, ScanInv, NEW c \in BOOLEAN, col' = ScannedWith(c), UNCHANGED canon,
           snaps \subseteq snaps', canon[col.asked] # NoRepo,
           c => (canon[col.asked] = col.asked =>
                    <<col.asked, col.day, "tracked_daily">> \in snaps')
    PROVE  ScanInv'
  <1>1. /\ col'.pc = "fetch" /\ col'.day = col.day
        /\ col'.clean = IF c THEN col.clean \cup {col.asked} ELSE col.clean
    BY DEF ScannedWith, TypeOK, ColTypeOK, Col
  <1>2. CASE c
    BY <1>1, <1>2 DEF ScanInv, ScanCovers
  <1>3. CASE ~c
    BY <1>1, <1>3 DEF ScanInv, ScanCovers
  <1> QED BY <1>2, <1>3

LEMMA IndexKeeps ==
    ASSUME TrackedIndexed, TypeOK, ScanInv, ScanIndex, snaps \subseteq snaps'
    PROVE  ScanInv'
  <1>c. /\ col.pc = "index" /\ col \in Col /\ col.next \in 1 .. Len(IndexedBoards)
        /\ snaps' = snaps \cup {<<col.cur, col.day, IndexedBoards[col.next]>>}
        /\ UNCHANGED canon
        /\ Len(IndexedBoards) \in Nat
    BY BoardsTyped DEF ScanIndex, UpsertSnapshot, TypeOK, ColTypeOK, Col
  <1>k. \A k \in 1 .. col.next : <<col.cur, col.day, IndexedBoards[k]>> \in snaps'
    BY <1>c DEF ScanInv
  <1>1. CASE col.next = Len(IndexedBoards)
    <2>1. PICK i \in 1 .. Len(IndexedBoards) : IndexedBoards[i] = "tracked_daily"
      BY DEF TrackedIndexed
    <2>2. <<col.cur, col.day, "tracked_daily">> \in snaps'
      BY <1>1, <1>k, <2>1
    <2>3. col' = ScannedWith(TRUE)
      BY <1>1 DEF ScanIndex
    <2>4. canon[col.asked] # NoRepo /\ (canon[col.asked] = col.asked => col.cur = col.asked)
      BY <1>c DEF ScanInv
    <2> QED BY <1>c, <2>2, <2>3, <2>4, ScannedKeeps
  <1>2. CASE col.next # Len(IndexedBoards)
    <2>1. col' = [col EXCEPT !.next = col.next + 1]
      BY <1>2 DEF ScanIndex
    <2>2. /\ col'.next - 1 = col.next /\ col'.pc = "index" /\ col'.cur = col.cur /\ col'.day = col.day
          /\ col'.asked = col.asked /\ col'.clean = col.clean
      BY <1>c, <2>1 DEF Col
    <2> QED BY <1>c, <1>k, <2>2 DEF ScanInv, ScanCovers
  <1> QED BY <1>1, <1>2

LEMMA ScanNext == TrackedIndexed /\ TypeOK /\ ScanInv /\ [Next]_vars => ScanInv'
  <1> SUFFICES ASSUME TrackedIndexed, TypeOK, ScanInv, [Next]_vars PROVE ScanInv'
    OBVIOUS
  <1>g. snaps \subseteq snaps'
    BY OnlyGrows
  <1>c. col \in Col /\ StoreTypeOK
    BY DEF TypeOK, ColTypeOK
  <1>0. CASE UNCHANGED col /\ (UNCHANGED canon \/ Environment)
    BY <1>0, <1>g, ScanStays
  <1>1. CASE StartPass \/ Killed
    <2>1. col'.pc \notin {"upsert", "index"} /\ col'.clean = {}
      BY <1>1 DEF StartPass, Killed, AtBatch, NewCol
    <2> QED BY <2>1 DEF ScanInv, ScanCovers
  <1>2. CASE ScanIndex
    BY <1>2, <1>g, IndexKeeps
  <1>3. CASE ScanStoreFails
    BY <1>3, <1>g, ScannedKeeps DEF ScanStoreFails, ScanInv
  <1>4. CASE ScanUpsert
    <2>1. /\ col.pc = "upsert" /\ col'.cur = col.cur /\ col'.day = col.day /\ col'.asked = col.asked
          /\ col'.clean = col.clean /\ col'.next = col.next /\ UNCHANGED <<canon, snaps>>
      BY <1>4, <1>c DEF ScanUpsert, Col
    <2> QED BY <2>1 DEF ScanInv, ScanCovers
  <1>5. ASSUME NEW n \in Repo, ScanFetch(n) PROVE ScanInv'
    <2>1. /\ canon[n] # NoRepo /\ col'.cur = canon[n] /\ col'.asked = n /\ col'.next = 1
          /\ col'.day = col.day /\ col'.clean = col.clean /\ UNCHANGED <<canon, snaps>>
      BY <1>5, <1>c DEF ScanFetch, Col
    <2> QED BY <2>1 DEF ScanInv, ScanCovers
  <1>6. CASE \/ SearchOk \/ BatchFailed \/ StoreSnapshot \/ BatchStored \/ ListTracked
             \/ ListTrackedFails \/ FinishPass
             \/ \E n \in Repo : StoreRepo(n) \/ ScanFetchFails(n)
    <2>1. /\ col'.pc \notin {"upsert", "index"} /\ col'.day = col.day /\ col'.clean = col.clean
          /\ UNCHANGED canon
      BY <1>6, <1>c DEF SearchOk, BatchFailed, StoreSnapshot, BatchStored, ListTracked, ListTrackedFails,
                        FinishPass, StoreRepo, ScanFetchFails, AtBatch, NewCol, Col
    <2> QED BY <1>g, <2>1 DEF ScanInv, ScanCovers
  <1>7. CASE ApiNext /\ UNCHANGED col
    <2>1. UNCHANGED canon
      BY <1>7 DEF ApiNext, Submit, Abandon, Untrack, TrackStep, FetchOk, FetchFails, CheckTracked,
                  CheckLimit, UpsertGhRepo, IndexBoard, IndexFails, InsertTrack, StatusBoard, StatusAny,
                  DbFails
    <2> QED BY <1>0, <1>7, <2>1
  <1> QED BY <1>0, <1>1, <1>2, <1>3, <1>4, <1>5, <1>6, <1>7
          DEF Next, NextNoPass, ColNext, CrawlStep, ScanStep, vars

\* Every repository the scan handled without an error has its tracked_daily snapshot of
\* the pass's day, if GitHub still has it under that name - whatever the API, GitHub and
\* the calendar do meanwhile, wherever the pass was killed before.
THEOREM ScannedCovered == TrackedIndexed /\ Spec => []ScanCovers
  <1>1. Init => ScanInv
    BY DEF Init, ColInit, NewCol, ScanInv, ScanCovers
  <1>2. ScanInv => ScanCovers
    BY DEF ScanInv
  <1>3. CASE TrackedIndexed
    <2>1. TypeOK /\ ScanInv /\ [Next]_vars => ScanInv'
      BY <1>3, ScanNext
    <2> QED BY <1>1, <1>2, <2>1, TypeCorrect, PTL DEF Spec
  <1>4. CASE ~TrackedIndexed
    BY <1>4
  <1> QED BY <1>3, <1>4

-----------------------------------------------------------------------------
(* How far concurrent track requests can push one user past the limit.  The count of
   rows alone is not inductive: a request that has passed the gate will insert later
   whatever the count is by then.  CapInv counts it already, and the gate's last
   reading bounds the sum. *)

CapAt(u) == CountTracked(u) + Cardinality(PastGate(u)) <= Limit + Cardinality(Proc) - 1

LEMMA SetsFinite ==
    ASSUME NEW u
    PROVE  /\ IsFiniteSet(TrackedBy(u)) /\ CountTracked(u) \in Nat
           /\ IsFiniteSet(PastGate(u)) /\ Cardinality(PastGate(u)) \in Nat
           /\ Cardinality(PastGate(u)) <= Cardinality(Proc)
           /\ Cardinality(Proc) \in Nat
  <1>1. TrackedBy(u) \subseteq Repo /\ PastGate(u) \subseteq Proc
    BY DEF TrackedBy, PastGate
  <1>2. IsFiniteSet(Repo) /\ IsFiniteSet(Proc)
    BY StoreAssumption, TrackApiAssumption
  <1>3. IsFiniteSet(TrackedBy(u)) /\ IsFiniteSet(PastGate(u))
        /\ Cardinality(PastGate(u)) <= Cardinality(Proc)
    BY <1>1, <1>2, FS_Subset
  <1> QED BY <1>2, <1>3, FS_CardinalityType DEF CountTracked

\* Fewer rows and fewer promises keep the bound.
LEMMA FewerKeepsCap ==
    ASSUME NEW u, CapAt(u), TrackedBy(u)' \subseteq TrackedBy(u), PastGate(u)' \subseteq PastGate(u)
    PROVE  CapAt(u)'
  <1>1. Cardinality(TrackedBy(u)') <= Cardinality(TrackedBy(u))
        /\ Cardinality(TrackedBy(u)') \in Nat
    BY SetsFinite, FS_Subset, FS_CardinalityType
  <1>2. Cardinality(PastGate(u)') <= Cardinality(PastGate(u))
        /\ Cardinality(PastGate(u)') \in Nat
    BY SetsFinite, FS_Subset, FS_CardinalityType
  <1>3. Cardinality(TrackedBy(u)) \in Nat /\ Cardinality(PastGate(u)) \in Nat
        /\ Cardinality(Proc) \in Nat /\ Limit \in Nat
    BY SetsFinite, TrackApiAssumption DEF CountTracked
  <1> QED BY <1>1, <1>2, <1>3 DEF CapAt, CountTracked

\* Only the limit check lets a request past the gate.
LEMMA GateOpensOnlyThere ==
    ASSUME ApiTypeOK, NEW p \in Proc, TrackStep(p), ~CheckLimit(p), NEW u
    PROVE  PastGate(u)' \subseteq PastGate(u)
  <1> SUFFICES ASSUME NEW q \in Proc, q \in PastGate(u)' PROVE q \in PastGate(u)
    BY DEF PastGate
  <1>q. pc'[q] \in {"upsert", "index", "track"} /\ req'[q].user = u /\ ~req'[q].already
    BY DEF PastGate
  <1>1. CASE q # p
    <2>1. pc'[q] = pc[q] /\ req'[q] = req[q]
      BY <1>1, OthersStay
    <2> QED BY <1>q, <2>1 DEF PastGate
  <1>2. CASE q = p
    <2>r. req[p] \in Req /\ DOMAIN req = Proc /\ DOMAIN pc = Proc
      BY DEF ApiTypeOK
    <2>0. CASE req'[p].user = req[p].user /\ req'[p].already = req[p].already
               /\ pc[p] \in {"upsert", "index", "track"}
      BY <1>q, <1>2, <2>0 DEF PastGate
    <2>1. CASE CheckTracked(p)
      <3>1. /\ req'[p].already = IsTracked(req[p].user, req[p].gh)
            /\ pc'[p] = IF IsTracked(req[p].user, req[p].gh) THEN "upsert" ELSE "count"
        BY <2>1, <2>r DEF CheckTracked, Goto, Req
      <3>2. pc'[p] = "count"
        BY <1>q, <1>2, <3>1, Zenon
      <3> QED BY <1>q, <1>2, <3>2
    <2>2. CASE UpsertGhRepo(p)
      BY <2>0, <2>2, <2>r DEF UpsertGhRepo, Goto, Req
    <2>3. CASE IndexBoard(p)
      BY <2>0, <2>3, <2>r DEF IndexBoard, Goto, Req
    <2>4. CASE IndexFails(p)
      BY <2>0, <2>4, <2>r DEF IndexFails, Goto
    <2>5. CASE FetchOk(p) \/ FetchFails(p) \/ InsertTrack(p) \/ StatusBoard(p) \/ StatusAny(p)
               \/ DbFails(p)
      BY <1>q, <1>2, <2>5, <2>r
      DEF FetchOk, FetchFails, InsertTrack, StatusBoard, StatusAny, DbFails, Goto, Reply
    <2> QED BY <2>1, <2>2, <2>3, <2>4, <2>5 DEF TrackStep
  <1> QED BY <1>1, <1>2

\* The gate lets a request through only below the limit, and at most Proc are past it.
LEMMA GateKeepsCap ==
    ASSUME TypeOK, NEW p \in Proc, CheckLimit(p), NEW u \in User, CapAt(u)
    PROVE  CapAt(u)'
  <1>t. ApiTypeOK /\ tracked' = tracked /\ req[p] \in Req
    BY DEF TypeOK, ApiTypeOK, CheckLimit
  <1>1. TrackedBy(u)' = TrackedBy(u)
    BY <1>t DEF TrackedBy
  <1>2. CASE LimitReached(u) \/ u # req[p].user
    <2>1. PastGate(u)' \subseteq PastGate(u)
      <3> SUFFICES ASSUME NEW q \in Proc, q \in PastGate(u)' PROVE q \in PastGate(u)
        BY DEF PastGate
      <3>1. CASE q # p
        <4>1. TrackStep(p)
          BY DEF TrackStep
        <4>2. pc'[q] = pc[q] /\ req'[q] = req[q]
          BY <1>t, <3>1, <4>1, OthersStay
        <4> QED BY <4>2 DEF PastGate
      <3>2. CASE q = p
        <4>1. req'[p].user = u /\ pc'[p] \in {"upsert", "index", "track"}
          BY <3>2 DEF PastGate
        <4>2. ~(pc'[p] = "idle")
          BY <4>1
        <4>3. ~LimitReached(req[p].user) /\ req' = [req EXCEPT ![p].day = today]
          BY <1>t, <4>2 DEF CheckLimit, Reply, ApiTypeOK
        <4>4. req'[p].user = req[p].user
          BY <1>t, <4>3 DEF ApiTypeOK, Req
        <4> QED BY <1>2, <4>1, <4>3, <4>4
      <3> QED BY <3>1, <3>2
    <2> QED BY <1>1, <2>1, FewerKeepsCap
  <1>3. CASE ~LimitReached(u)
    <2>1. CountTracked(u) \in Nat /\ CountTracked(u) <= Limit - 1
      BY <1>3, SetsFinite, TrackApiAssumption DEF LimitReached
    <2>2. PastGate(u)' \subseteq Proc
      BY DEF PastGate
    <2>3. Cardinality(PastGate(u)') \in Nat /\ Cardinality(PastGate(u)') <= Cardinality(Proc)
          /\ Cardinality(Proc) \in Nat
      BY <2>2, TrackApiAssumption, FS_Subset, FS_CardinalityType
    <2>4. CountTracked(u)' = CountTracked(u)
      BY <1>1 DEF CountTracked
    <2> QED BY <2>1, <2>3, <2>4, TrackApiAssumption DEF CapAt
  <1> QED BY <1>2, <1>3

\* A request that inserts its row was counted as a promise.
LEMMA InsertKeepsCap ==
    ASSUME TypeOK, NEW p \in Proc, InsertTrack(p), NEW u \in User, CapAt(u)
    PROVE  CapAt(u)'
  <1>t. /\ ApiTypeOK /\ req[p] \in Req /\ DOMAIN req = Proc /\ DOMAIN pc = Proc
        /\ LocalsFit(pc[p], req[p])
    BY DEF TypeOK, ApiTypeOK
  <1>p. /\ pc[p] = "track" /\ pc'[p] = "board" /\ ~req[p].already
        /\ tracked' = tracked \cup {<<req[p].user, req[p].gh>>}
    BY <1>t DEF InsertTrack, TrackRepo, Goto, LocalsFit
  <1>g. PastGate(u)' \subseteq PastGate(u)
    <2>1. TrackStep(p) /\ ~CheckLimit(p)
      BY <1>p DEF TrackStep, CheckLimit
    <2> QED BY <1>t, <2>1, GateOpensOnlyThere
  <1>1. CASE req[p].user # u
    <2>1. TrackedBy(u)' \subseteq TrackedBy(u)
      BY <1>p, <1>1 DEF TrackedBy
    <2> QED BY <1>g, <2>1, FewerKeepsCap
  <1>2. CASE req[p].user = u
    <2>1. p \in PastGate(u) /\ p \notin PastGate(u)'
      BY <1>p, <1>2 DEF PastGate
    <2>2. Cardinality(PastGate(u) \ {p}) = Cardinality(PastGate(u)) - 1
          /\ IsFiniteSet(PastGate(u) \ {p})
      BY <2>1, SetsFinite, FS_RemoveElement
    <2>3. PastGate(u)' \subseteq PastGate(u) \ {p}
      BY <1>g, <2>1
    <2>4. Cardinality(PastGate(u)') \in Nat
          /\ Cardinality(PastGate(u)') <= Cardinality(PastGate(u)) - 1
      BY <2>2, <2>3, FS_Subset, FS_CardinalityType
    <2>5. TrackedBy(u)' \subseteq TrackedBy(u) \cup {req[p].gh}
      BY <1>p DEF TrackedBy
    <2>6. IsFiniteSet(TrackedBy(u) \cup {req[p].gh})
          /\ Cardinality(TrackedBy(u) \cup {req[p].gh}) <= CountTracked(u) + 1
      <3>1. IsFiniteSet(TrackedBy(u)) /\ Cardinality(TrackedBy(u)) \in Nat
        BY SetsFinite DEF CountTracked
      <3>2. IsFiniteSet(TrackedBy(u) \cup {req[p].gh})
            /\ \/ Cardinality(TrackedBy(u) \cup {req[p].gh}) = Cardinality(TrackedBy(u))
               \/ Cardinality(TrackedBy(u) \cup {req[p].gh}) = Cardinality(TrackedBy(u)) + 1
        BY <3>1, FS_AddElement
      <3> QED BY <3>1, <3>2 DEF CountTracked
    <2>7. Cardinality(TrackedBy(u)') \in Nat
          /\ Cardinality(TrackedBy(u)') <= Cardinality(TrackedBy(u) \cup {req[p].gh})
      BY <2>5, <2>6, FS_Subset, FS_CardinalityType
    <2>8. Cardinality(TrackedBy(u) \cup {req[p].gh}) \in Nat
      BY <2>6, FS_CardinalityType
    <2>9. CountTracked(u) \in Nat /\ Cardinality(PastGate(u)) \in Nat /\ Cardinality(Proc) \in Nat
      BY SetsFinite
    <2> QED BY <2>4, <2>6, <2>7, <2>8, <2>9, TrackApiAssumption DEF CapAt, CountTracked
  <1> QED BY <1>1, <1>2

LEMMA CapNext == TypeOK /\ CapInv /\ [Next]_vars => CapInv'
  <1> SUFFICES ASSUME TypeOK, CapInv, [Next]_vars, NEW u \in User PROVE CapAt(u)'
    BY DEF CapInv, CapAt
  <1>t. ApiTypeOK /\ CapAt(u)
    BY DEF TypeOK, CapInv, CapAt
  <1>0. CASE UNCHANGED <<tracked, pc, req>>
    <2>1. TrackedBy(u)' = TrackedBy(u) /\ PastGate(u)' = PastGate(u)
      BY <1>0 DEF TrackedBy, PastGate
    <2> QED BY <1>t, <2>1, FewerKeepsCap
  <1>1. ASSUME NEW p \in Proc, TrackStep(p) PROVE CapAt(u)'
    <2>1. CASE CheckLimit(p)
      BY <1>t, <2>1, GateKeepsCap
    <2>2. CASE InsertTrack(p)
      BY <1>t, <2>2, InsertKeepsCap
    <2>3. CASE ~CheckLimit(p) /\ ~InsertTrack(p)
      <3>1. tracked' = tracked
        BY <1>1, <2>3 DEF TrackStep, FetchOk, FetchFails, CheckTracked, UpsertGhRepo, IndexBoard,
                          IndexFails, StatusBoard, StatusAny, DbFails
      <3>2. TrackedBy(u)' = TrackedBy(u)
        BY <3>1 DEF TrackedBy
      <3> QED BY <1>1, <1>t, <2>3, <3>2, GateOpensOnlyThere, FewerKeepsCap
    <2> QED BY <2>1, <2>2, <2>3
  <1>2. ASSUME NEW p \in Proc, tracked' = tracked, pc'[p] \notin {"upsert", "index", "track"},
               \A q \in Proc : q # p => pc'[q] = pc[q] /\ req'[q] = req[q]
        PROVE  CapAt(u)'
    <2>1. TrackedBy(u)' = TrackedBy(u) /\ PastGate(u)' \subseteq PastGate(u)
      BY <1>2 DEF TrackedBy, PastGate
    <2> QED BY <1>t, <2>1, FewerKeepsCap
  <1>3. ASSUME NEW p \in Proc, NEW v \in User, NEW n \in Repo, Submit(p, v, n) \/ Abandon(p)
        PROVE  CapAt(u)'
    BY <1>2, <1>3, <1>t DEF Submit, Abandon, Goto, ApiTypeOK
  <1>4. ASSUME NEW v \in User, NEW n \in Repo, Untrack(v, n) PROVE CapAt(u)'
    <2>1. TrackedBy(u)' \subseteq TrackedBy(u)
      BY <1>4 DEF Untrack, UntrackRepo, TrackedBy
    <2>2. \A q \in Proc : pc'[q] = pc[q] /\ req'[q].user = req[q].user
                          /\ req'[q].already = req[q].already
      BY <1>4, <1>t DEF Untrack, ApiTypeOK, Req
    <2>3. PastGate(u)' \subseteq PastGate(u)
      BY <2>2 DEF PastGate
    <2> QED BY <1>t, <2>1, <2>3, FewerKeepsCap
  <1>5. CASE ColNext /\ UNCHANGED apiVars
    <2>1. tracked' = tracked
      BY <1>5 DEF ColNext, CrawlStep, ScanStep, StartPass, SearchOk, BatchFailed, BatchStored,
                  StoreRepo, StoreSnapshot, ListTracked, ListTrackedFails, ScanFetch,
                  ScanFetchFails, ScanUpsert, ScanIndex, ScanStoreFails, FinishPass, Killed
    <2> QED BY <1>0, <1>5, <2>1
  <1>6. CASE Environment /\ UNCHANGED apiVars
    BY <1>0, <1>6 DEF Environment, Tick, RenameUpstream
  <1>7. CASE UNCHANGED vars
    BY <1>0, <1>7 DEF vars
  <1>8. CASE ApiNext
    <2>1. ASSUME NEW p \in Proc, Abandon(p) PROVE CapAt(u)'
      BY <1>2, <2>1, <1>t DEF Abandon, ApiTypeOK
    <2> QED BY <1>1, <1>3, <1>4, <1>8, <2>1 DEF ApiNext
  <1> QED BY <1>5, <1>6, <1>7, <1>8 DEF Next, NextNoPass

LEMMA CapInit == Init => CapInv
  <1> SUFFICES ASSUME Init, NEW u \in User
               PROVE  CountTracked(u) + Cardinality(PastGate(u)) <= Limit + Cardinality(Proc) - 1
    BY DEF CapInv
  <1>1. TrackedBy(u) = {} /\ PastGate(u) = {}
    BY DEF Init, StoreInit, ApiInit, TrackedBy, PastGate
  <1>2. CountTracked(u) = 0 /\ Cardinality(PastGate(u)) = 0
    BY <1>1, FS_EmptySet DEF CountTracked
  <1>3. Cardinality(Proc) \in Nat /\ Limit \in Nat \ {0}
    BY SetsFinite, TrackApiAssumption
  <1> QED BY <1>2, <1>3

\* With the places promised to running requests counted, a user never holds more than
\* Limit rows plus one for every further request running at the same time.
THEOREM CapPromised == Spec => []CapInv
  BY TypeCorrect, CapInit, CapNext, PTL DEF Spec

\* Therefore the rows alone are within the same bound: ...
THEOREM CapBounded == Spec => []CapBound
  <1>1. CapInv => CapBound
    <2> SUFFICES ASSUME CapInv, NEW u \in User
                 PROVE  CountTracked(u) <= Limit + Cardinality(Proc) - 1
      BY DEF CapBound
    <2>1. CountTracked(u) \in Nat /\ Cardinality(PastGate(u)) \in Nat /\ Cardinality(Proc) \in Nat
      BY SetsFinite
    <2> QED BY <2>1, TrackApiAssumption DEF CapInv
  <1> QED BY <1>1, CapPromised, PTL

\* ... and the documented limit holds where requests are served one at a time.
THEOREM CapExactWhenSerial == Cardinality(Proc) = 1 /\ Spec => []CapRespected
  <1>1. Cardinality(Proc) = 1 /\ CapBound => CapRespected
    <2> SUFFICES ASSUME Cardinality(Proc) = 1, CapBound, NEW u \in User
                 PROVE  CountTracked(u) <= Limit
      BY DEF CapRespected
    <2>1. CountTracked(u) <= Limit + 1 - 1
      BY DEF CapBound
    <2> QED BY <2>1, TrackApiAssumption
  <1>2. CASE Cardinality(Proc) = 1
    <2>1. CapBound => CapRespected
      BY <1>1, <1>2
    <2> QED BY <2>1, CapBounded, PTL
  <1>3. CASE ~(Cardinality(Proc) = 1)
    BY <1>3
  <1> QED BY <1>2, <1>3
=============================================================================
