---------------------------- MODULE TrackerProofs ----------------------------
(***************************************************************************)
(* Theorems about Tracker, for every set of users, repositories and        *)
(* concurrent requests, every limit and every list of boards and batches.  *)
(* Each safety theorem has the same shape: Init establishes the inductive  *)
(* invariant and every action keeps it.                                    *)
(***************************************************************************)
EXTENDS Tracker, FiniteSetTheorems, TLAPS

USE DEF storeVars, apiVars

-----------------------------------------------------------------------------
(* Type correctness. *)

LEMMA BoardsTyped ==
    /\ Len(IndexedBoards) \in Nat \ {0}
    /\ \A i \in 1 .. Len(IndexedBoards) : IndexedBoards[i] \in Board
    /\ Len(Batches) \in Nat
    /\ \A i \in 1 .. Len(Batches) : Batches[i] \in Board
  <1>1. \A i \in 1 .. Len(IndexedBoards) : IndexedBoards[i] \in Board
    BY StoreAssumption
  <1>2. Len(IndexedBoards) \in Nat \ {0}
    BY StoreAssumption
  <1>3. Batches \in Seq(PublicBoard)
    BY CollectorAssumption DEF CollectorAssumption
  <1>4. Len(Batches) \in Nat /\ \A i \in 1 .. Len(Batches) : Batches[i] \in PublicBoard
    BY <1>3
  <1> QED BY <1>1, <1>2, <1>4 DEF Board

LEMMA TypeInit == Init => TypeOK
  BY BoardsTyped, StoreAssumption, TrackApiAssumption
  DEF StoreAssumption, TrackApiAssumption, Init, TypeOK, StoreInit, StoreTypeOK, ApiInit, ApiTypeOK, ColInit, ColTypeOK,
      LocalsFit, NoReq, NewReq, NoResp, Req, Resp, PC, Status, Code, NewCol, Col, ColPC, Day

\* A request moves to `at` with locals r; the other requests stay where they are.
LEMMA MoveTyped ==
    ASSUME ApiTypeOK, NEW p \in Proc, NEW at \in PC, NEW r \in Req, LocalsFit(at, r),
           pc' = [pc EXCEPT ![p] = at], req' = [req EXCEPT ![p] = r],
           resp' \in [Proc -> Resp]
    PROVE  ApiTypeOK'
  <1>1. pc' \in [Proc -> PC] /\ req' \in [Proc -> Req]
    BY DEF ApiTypeOK
  <1>2. ASSUME NEW q \in Proc PROVE LocalsFit(pc'[q], req'[q])
    BY DEF ApiTypeOK
  <1> QED BY <1>1, <1>2 DEF ApiTypeOK, LocalsFit

LEMMA IdleTyped == NoReq \in Req /\ LocalsFit("idle", NoReq)
  BY BoardsTyped, StoreAssumption DEF NoReq, NewReq, Req, Day, LocalsFit

LEMMA ReplyTyped ==
    ASSUME ApiTypeOK, NEW p \in Proc, NEW code \in Code, NEW status \in Status,
           Reply(p, code, status)
    PROVE  ApiTypeOK'
  <1>1. resp' \in [Proc -> Resp]
    <2>1. req[p].user \in User \cup {NoUser} /\ req[p].gh \in Repo \cup {NoRepo}
          /\ req[p].wrote \in BOOLEAN /\ req[p].undone \in BOOLEAN
      BY DEF ApiTypeOK, Req
    <2> QED BY <2>1 DEF Reply, ApiTypeOK, Resp
  <1>2. "idle" \in PC
    BY DEF PC
  <1> QED BY <1>1, <1>2, IdleTyped, MoveTyped DEF Reply

\* The requests keep their types.
LEMMA ApiStepType ==
    ASSUME StoreTypeOK, ApiTypeOK, NEW p \in Proc, TrackStep(p)
    PROVE  ApiTypeOK'
  <1> USE BoardsTyped
  <1>r. /\ req[p] \in Req /\ pc[p] \in PC /\ LocalsFit(pc[p], req[p])
        /\ resp \in [Proc -> Resp] /\ today \in Day
    BY DEF ApiTypeOK, StoreTypeOK
  <1>1. CASE FetchOk(p)
    <2> DEFINE r == [req[p] EXCEPT !.gh = canon[req[p].name]]
    <2>1. r \in Req /\ LocalsFit("check", r)
      BY <1>r, <1>1 DEF FetchOk, Goto, StoreTypeOK, LocalsFit, Req
    <2>2. pc' = [pc EXCEPT ![p] = "check"] /\ req' = [req EXCEPT ![p] = r] /\ resp' = resp
      BY <1>1 DEF FetchOk, Goto, ApiTypeOK
    <2> QED BY <1>r, <2>1, <2>2, MoveTyped DEF PC
  <1>2. CASE FetchFails(p)
    BY <1>2, ReplyTyped DEF FetchFails, Code, Status
  <1>3. CASE CheckTracked(p)
    <2> DEFINE already == IsTracked(req[p].user, req[p].gh)
               r == [req[p] EXCEPT !.already = already, !.day = today]
               at == IF already THEN "upsert" ELSE "count"
    <2>0. already \in BOOLEAN
      BY DEF IsTracked
    <2>1. r \in Req /\ LocalsFit(at, r)
      <3> HIDE DEF already
      <3>1. r \in Req
        BY <1>r, <2>0 DEF Req
      <3>2. r.already = already /\ r.user = req[p].user /\ r.name = req[p].name
            /\ r.gh = req[p].gh /\ r.next = req[p].next
        BY <1>r DEF Req
      <3>3. pc[p] = "check"
        BY <1>3 DEF CheckTracked, Goto
      <3>4. CASE already
        BY <1>r, <3>2, <3>3, <3>4, <3>1 DEF LocalsFit
      <3>5. CASE ~already
        BY <1>r, <3>2, <3>3, <3>5, <3>1 DEF LocalsFit
      <3> QED BY <3>1, <3>4, <3>5
    <2>2. pc' = [pc EXCEPT ![p] = at] /\ req' = [req EXCEPT ![p] = r] /\ resp' = resp
      BY <1>3 DEF CheckTracked, Goto, ApiTypeOK
    <2> QED BY <1>r, <2>1, <2>2, MoveTyped DEF PC
  <1>4. CASE CheckLimit(p)
    <2>1. CASE Reply(p, 409, "none")
      BY <2>1, ReplyTyped DEF Code, Status
    <2>2. CASE Goto(p, "count", "upsert") /\ req' = [req EXCEPT ![p].day = today] /\ resp' = resp
      <3> DEFINE r == [req[p] EXCEPT !.day = today]
      <3>1. r \in Req /\ LocalsFit("upsert", r)
        BY <1>r, <2>2 DEF Goto, LocalsFit, Req
      <3>2. req' = [req EXCEPT ![p] = r]
        BY <2>2 DEF ApiTypeOK
      <3> QED BY <1>r, <2>2, <3>1, <3>2, MoveTyped DEF PC, Goto
    <2> QED BY <1>4, <2>1, <2>2 DEF CheckLimit
  <1>5. CASE UpsertGhRepo(p)
    <2>1. PICK d \in req[p].day .. today :
              req' = [req EXCEPT ![p].day = d, ![p].wrote = TRUE]
      BY <1>5 DEF UpsertGhRepo
    <2> DEFINE r == [req[p] EXCEPT !.day = d, !.wrote = TRUE]
    <2>2. d \in Day
      BY <1>r, StoreAssumption DEF Req, Day
    <2>3. r \in Req /\ LocalsFit("index", r)
      <3>1. pc[p] = "upsert"
        BY <1>5 DEF UpsertGhRepo, Goto
      <3>2. req[p].next = 1 /\ req[p].user \in User /\ req[p].name \in Repo /\ req[p].gh \in Repo
        BY <1>r, <3>1 DEF LocalsFit
      <3>3. r \in Req
        BY <1>r, <2>2 DEF Req
      <3>4. r.user = req[p].user /\ r.name = req[p].name /\ r.gh = req[p].gh /\ r.next = req[p].next
        BY <1>r DEF Req
      <3> QED BY <3>2, <3>3, <3>4 DEF LocalsFit
    <2>4. pc' = [pc EXCEPT ![p] = "index"] /\ req' = [req EXCEPT ![p] = r] /\ resp' = resp
      BY <1>5, <2>1 DEF UpsertGhRepo, Goto, ApiTypeOK
    <2> QED BY <1>r, <2>3, <2>4, MoveTyped DEF PC
  <1>6. CASE IndexBoard(p)
    <2> DEFINE r == [req[p] EXCEPT !.next = req[p].next + 1]
               at == IF req[p].next = Len(IndexedBoards) THEN AfterIndex(p) ELSE "index"
    <2>1. r \in Req /\ LocalsFit(at, r)
      <3>1. pc[p] = "index"
        BY <1>6 DEF IndexBoard, Goto
      <3>2. /\ req[p].user \in User /\ req[p].name \in Repo /\ req[p].gh \in Repo
            /\ req[p].next <= Len(IndexedBoards)
        BY <1>r, <3>1 DEF LocalsFit
      <3>3. /\ r \in Req /\ r.user = req[p].user /\ r.name = req[p].name /\ r.gh = req[p].gh
            /\ r.next = req[p].next + 1
        <4>1. req[p].next + 1 \in 1 .. Len(IndexedBoards) + 1
          BY <1>r, <3>2, StoreAssumption DEF Req
        <4> QED BY <1>r, <4>1 DEF Req
      <3>4. CASE req[p].next = Len(IndexedBoards)
        <4>1. r.already = req[p].already /\ at = IF r.already THEN "board" ELSE "track"
          BY <1>r, <3>4 DEF AfterIndex, Req
        <4> QED BY <3>3, <3>2, <4>1 DEF LocalsFit
      <3>5. CASE req[p].next # Len(IndexedBoards)
        <4>1. at = "index" /\ r.next <= Len(IndexedBoards)
          BY <1>r, <3>3, <3>2, <3>5, StoreAssumption DEF Req
        <4> QED BY <3>3, <3>2, <4>1 DEF LocalsFit
      <3> QED BY <3>4, <3>5
    <2>2. pc' = [pc EXCEPT ![p] = at] /\ req' = [req EXCEPT ![p] = r] /\ resp' = resp
      BY <1>6 DEF IndexBoard, Goto, ApiTypeOK
    <2> QED BY <1>r, <2>1, <2>2, MoveTyped DEF PC, AfterIndex
  <1>7. CASE IndexFails(p)
    <2>1. LocalsFit(AfterIndex(p), req[p])
      BY <1>r, <1>7 DEF IndexFails, AfterIndex, Goto, LocalsFit
    <2>2. pc' = [pc EXCEPT ![p] = AfterIndex(p)] /\ req' = [req EXCEPT ![p] = req[p]]
          /\ resp' = resp
      BY <1>7 DEF IndexFails, Goto, ApiTypeOK
    <2> QED BY <1>r, <2>1, <2>2, MoveTyped DEF PC, AfterIndex
  <1>8. CASE InsertTrack(p)
    <2> DEFINE r == [req[p] EXCEPT !.undone = FALSE]
    <2>1. r \in Req /\ LocalsFit("board", r)
      BY <1>r, <1>8 DEF InsertTrack, Goto, LocalsFit, Req
    <2>2. pc' = [pc EXCEPT ![p] = "board"] /\ req' = [req EXCEPT ![p] = r] /\ resp' = resp
      BY <1>8 DEF InsertTrack, Goto, ApiTypeOK
    <2> QED BY <1>r, <2>1, <2>2, MoveTyped DEF PC
  <1>9. CASE StatusBoard(p)
    <2>1. CASE Reply(p, SuccessCode(p), "on_board")
      BY <2>1, ReplyTyped DEF SuccessCode, Code, Status
    <2>2. CASE Goto(p, "board", "any") /\ req' = req /\ resp' = resp
      <3>1. LocalsFit("any", req[p])
        BY <1>r, <2>2 DEF Goto, LocalsFit
      <3>2. req' = [req EXCEPT ![p] = req[p]]
        BY <2>2 DEF ApiTypeOK
      <3> QED BY <1>r, <2>2, <3>1, <3>2, MoveTyped DEF PC, Goto
    <2> QED BY <1>9, <2>1, <2>2 DEF StatusBoard
  <1>10. CASE StatusAny(p)
    BY <1>10, ReplyTyped DEF StatusAny, SuccessCode, Code, Status
  <1>11. CASE DbFails(p)
    BY <1>11, ReplyTyped DEF DbFails, Code, Status
  <1> QED BY <1>1, <1>2, <1>3, <1>4, <1>5, <1>6, <1>7, <1>8, <1>9, <1>10, <1>11 DEF TrackStep

LEMMA ApiType ==
    ASSUME StoreTypeOK, ApiTypeOK, ApiNext
    PROVE  ApiTypeOK'
  <1>1. ASSUME NEW p \in Proc, NEW u \in User, NEW n \in Repo, Submit(p, u, n)
        PROVE  ApiTypeOK'
    <2>1. NewReq(u, n) \in Req /\ LocalsFit("fetch", NewReq(u, n))
      BY BoardsTyped, StoreAssumption DEF NewReq, Req, Day, LocalsFit
    <2>2. resp' \in [Proc -> Resp]
      BY <1>1 DEF Submit, ApiTypeOK, Resp, NoResp, Code, Status
    <2> QED BY <1>1, <2>1, <2>2, MoveTyped DEF Submit, Goto, PC
  <1>2. ASSUME NEW p \in Proc, Abandon(p)
        PROVE  ApiTypeOK'
    BY <1>2, IdleTyped, MoveTyped DEF Abandon, PC, ApiTypeOK
  <1>3. ASSUME NEW u \in User, NEW n \in Repo, Untrack(u, n)
        PROVE  ApiTypeOK'
    <2>1. ASSUME NEW p \in Proc
          PROVE  req'[p] \in Req /\ LocalsFit(pc'[p], req'[p]) /\ resp'[p] \in Resp
      <3>1. req[p] \in Req /\ resp[p] \in Resp /\ LocalsFit(pc[p], req[p]) /\ pc'[p] = pc[p]
        BY <1>3, <2>1 DEF Untrack, ApiTypeOK
      <3>2. /\ req'[p] \in {req[p], [req[p] EXCEPT !.undone = TRUE]}
            /\ resp'[p] \in {resp[p], [resp[p] EXCEPT !.undone = TRUE]}
        BY <1>3, <2>1 DEF Untrack
      <3>3. req'[p] \in Req /\ LocalsFit(pc[p], req'[p])
        BY <3>1, <3>2 DEF Req, LocalsFit
      <3>4. resp'[p] \in Resp
        BY <3>1, <3>2 DEF Resp
      <3> QED BY <3>1, <3>3, <3>4
    <2>2. DOMAIN req' = Proc /\ DOMAIN resp' = Proc /\ pc' = pc
      BY <1>3 DEF Untrack
    <2> QED BY <1>3, <2>1, <2>2 DEF Untrack, ApiTypeOK, LocalsFit
  <1> QED BY <1>1, <1>2, <1>3, ApiStepType DEF ApiNext

LEMMA ApiStoreType ==
    ASSUME StoreTypeOK, ApiTypeOK, ApiNext
    PROVE  StoreTypeOK'
  <1>0. CASE UNCHANGED storeVars
    BY <1>0 DEF StoreTypeOK
  <1>1. ASSUME NEW p \in Proc, TrackStep(p), ~ UNCHANGED storeVars
        PROVE  StoreTypeOK'
    <2>r. /\ req[p] \in Req /\ LocalsFit(pc[p], req[p])
      BY DEF ApiTypeOK
    <2>1. CASE UpsertGhRepo(p)
      <3>1. req[p].gh \in Repo
        BY <2>r, <2>1 DEF UpsertGhRepo, Goto, LocalsFit
      <3> QED BY <3>1, <2>1 DEF UpsertGhRepo, UpsertRepo, StoreTypeOK
    <2>2. CASE IndexBoard(p)
      <3>1. req[p].gh \in Repo /\ req[p].day \in Day /\ req[p].next \in 1 .. Len(IndexedBoards)
        BY <2>r, <2>2, BoardsTyped DEF IndexBoard, Goto, LocalsFit, Req
      <3>2. IndexedBoards[req[p].next] \in Board
        BY <3>1, BoardsTyped
      <3> QED BY <3>1, <3>2, <2>2 DEF IndexBoard, UpsertSnapshot, StoreTypeOK
    <2>3. CASE InsertTrack(p)
      <3>1. req[p].gh \in Repo /\ req[p].user \in User
        BY <2>r, <2>3 DEF InsertTrack, Goto, LocalsFit
      <3> QED BY <3>1, <2>3 DEF InsertTrack, TrackRepo, StoreTypeOK
    <2> QED BY <1>1, <2>1, <2>2, <2>3
            DEF TrackStep, FetchOk, FetchFails, CheckTracked, CheckLimit, IndexFails,
                StatusBoard, StatusAny, DbFails
  <1>2. ASSUME NEW u \in User, NEW n \in Repo, Untrack(u, n)
        PROVE  StoreTypeOK'
    BY <1>2 DEF Untrack, UntrackRepo, StoreTypeOK
  <1> QED BY <1>0, <1>1, <1>2 DEF ApiNext, Submit, Abandon

LEMMA EnvironmentType ==
    ASSUME StoreTypeOK, Environment
    PROVE  StoreTypeOK'
  BY StoreAssumption DEF Environment, Tick, RenameUpstream, StoreTypeOK, Day

LEMMA CollectorStoreType ==
    ASSUME StoreTypeOK, ColTypeOK, ColNext
    PROVE  StoreTypeOK'
  <1>0. CASE UNCHANGED storeVars
    BY <1>0 DEF StoreTypeOK
  <1>1. CASE StoreSnapshot
    <2>1. col.cur \in Repo /\ col.day \in Day /\ col.batch \in 1 .. Len(Batches)
      BY <1>1, BoardsTyped DEF StoreSnapshot, ColTypeOK, Col
    <2> QED BY <1>1, <2>1, BoardsTyped DEF StoreSnapshot, UpsertSnapshot, StoreTypeOK
  <1>2. ASSUME NEW n \in Repo, StoreRepo(n) PROVE StoreTypeOK'
    BY <1>2 DEF StoreRepo, UpsertRepo, StoreTypeOK
  <1>3. CASE ScanUpsert
    BY <1>3 DEF ScanUpsert, UpsertRepo, StoreTypeOK, ColTypeOK
  <1>4. CASE ScanIndex
    <2>1. col.cur \in Repo /\ col.day \in Day /\ col.next \in 1 .. Len(IndexedBoards)
      BY <1>4 DEF ScanIndex, ColTypeOK, Col
    <2> QED BY <1>4, <2>1, BoardsTyped DEF ScanIndex, UpsertSnapshot, StoreTypeOK
  <1> QED BY <1>0, <1>1, <1>2, <1>3, <1>4
          DEF ColNext, CrawlStep, ScanStep, StartPass, SearchOk, BatchFailed, BatchStored, ListTracked,
              ListTrackedFails, ScanFetch, ScanFetchFails, ScanStoreFails, FinishPass, Killed

\* A collector record stays one when a field is given a value of the field's type.
LEMMA FieldTyped ==
    ASSUME NEW c \in Col
    PROVE  /\ \A x \in ColPC : [c EXCEPT !.pc = x] \in Col
           /\ \A x \in Day : [c EXCEPT !.day = x] \in Col
           /\ \A x \in 1 .. Len(Batches) + 1 : [c EXCEPT !.batch = x] \in Col
           /\ \A x \in SUBSET Repo : /\ [c EXCEPT !.rows = x] \in Col
                                     /\ [c EXCEPT !.left = x] \in Col
                                     /\ [c EXCEPT !.clean = x] \in Col
           /\ \A x \in Nat : /\ [c EXCEPT !.stored = x] \in Col
                             /\ [c EXCEPT !.ok = x] \in Col
                             /\ [c EXCEPT !.failed = x] \in Col
           /\ \A x \in Repo \cup {NoRepo} : /\ [c EXCEPT !.asked = x] \in Col
                                            /\ [c EXCEPT !.cur = x] \in Col
           /\ \A x \in 1 .. Len(IndexedBoards) : [c EXCEPT !.next = x] \in Col
           /\ \A x \in {"none", "success", "failure", "killed"} : [c EXCEPT !.exit = x] \in Col
  BY DEF Col

LEMMA NewColTyped == NewCol \in Col
  BY BoardsTyped, StoreAssumption DEF NewCol, Col, ColPC, Day

LEMMA ScannedTyped ==
    ASSUME col \in Col, col.asked \in Repo, NEW c \in BOOLEAN
    PROVE  ScannedWith(c) \in Col
  <1> DEFINE done == IF c THEN col.clean \cup {col.asked} ELSE col.clean
             rest == col.left \ {col.asked}
  <1>1. done \in SUBSET Repo /\ rest \in SUBSET Repo
    BY DEF Col
  <1>2. 1 \in 1 .. Len(IndexedBoards) /\ "fetch" \in ColPC
    BY BoardsTyped DEF ColPC
  <1> DEFINE c1 == [col EXCEPT !.pc = "fetch", !.left = rest, !.asked = NoRepo]
             c2 == [c1 EXCEPT !.cur = NoRepo, !.next = 1, !.clean = done]
  <1>3. ScannedWith(c) = c2
    BY DEF ScannedWith
  <1> HIDE DEF done, rest
  <1>4. c1 \in Col
    BY <1>1, <1>2, FieldTyped
  <1> HIDE DEF c1
  <1>5. c2 \in Col
    BY <1>1, <1>2, <1>4, FieldTyped
  <1> QED BY <1>3, <1>5

LEMMA CollectorType ==
    ASSUME StoreTypeOK, ColTypeOK, ColNext
    PROVE  ColTypeOK'
  <1> USE BoardsTyped
  <1>c. /\ col.day \in Day /\ today \in Day /\ 1 \in Day
        /\ col.batch \in 1 .. Len(Batches) + 1
        /\ col.rows \in SUBSET Repo /\ col.stored \in Nat /\ col.ok \in Nat /\ col.failed \in Nat
        /\ col.left \in SUBSET Repo /\ col.clean \in SUBSET Repo
        /\ col.asked \in Repo \cup {NoRepo} /\ col.cur \in Repo \cup {NoRepo}
        /\ col.next \in 1 .. Len(IndexedBoards)
        /\ col \in Col
    BY StoreAssumption DEF ColTypeOK, Col, StoreTypeOK, Day
  <1>1. CASE StartPass
    <2>1. col' \in Col
      BY <1>c, <1>1, NewColTyped, FieldTyped DEF StartPass, AtBatch, ColPC
    <2> QED BY <1>c, <2>1, <1>1 DEF ColTypeOK, Col, StartPass, AtBatch, NewCol
  <1>2. CASE SearchOk
    <2>1. col' \in Col
      <3>1. PICK found \in SUBSET {n \in Repo : canon[n] = n} :
                col' = [col EXCEPT !.pc = "store", !.rows = found, !.stored = 0]
        BY <1>2 DEF SearchOk
      <3>2. found \in SUBSET Repo /\ "store" \in ColPC /\ 0 \in Nat
        BY DEF ColPC
      <3> QED BY <1>c, <3>1, <3>2, FieldTyped
    <2> QED BY <1>c, <2>1, <1>2 DEF ColTypeOK, Col, SearchOk
  <1>3. CASE BatchFailed
    <2>1. col' \in Col
      <3>1. col.batch + 1 \in 1 .. Len(Batches) + 1
        BY <1>c, <1>3 DEF BatchFailed, ColTypeOK
      <3>2. AtBatch(col.batch + 1) \in ColPC /\ col.failed + 1 \in Nat /\ 0 \in Nat
        BY <1>c DEF AtBatch, ColPC
      <3> QED BY <1>c, <1>3, <3>1, <3>2, FieldTyped DEF BatchFailed
    <2> QED BY <1>c, <2>1, <1>3 DEF ColTypeOK, Col, BatchFailed, AtBatch
  <1>4. CASE StoreSnapshot
    <2>1. col' \in Col
      <3>1. col.rows \ {col.cur} \in SUBSET Repo /\ col.stored + 1 \in Nat /\ "store" \in ColPC
        BY <1>c DEF ColPC
      <3> QED BY <1>c, <1>4, <3>1, FieldTyped DEF StoreSnapshot
    <2> QED BY <1>c, <2>1, <1>4 DEF ColTypeOK, Col, StoreSnapshot
  <1>5. CASE BatchStored
    <2>1. col' \in Col
      <3>1. col.batch + 1 \in 1 .. Len(Batches) + 1
        BY <1>c, <1>5 DEF BatchStored, ColTypeOK
      <3>2. AtBatch(col.batch + 1) \in ColPC /\ col.ok + col.stored \in Nat /\ 0 \in Nat
        BY <1>c DEF AtBatch, ColPC
      <3> QED BY <1>c, <1>5, <3>1, <3>2, FieldTyped DEF BatchStored
    <2> QED BY <1>c, <2>1, <1>5 DEF ColTypeOK, Col, BatchStored, AtBatch
  <1>6. ASSUME NEW n \in Repo, StoreRepo(n) PROVE ColTypeOK'
    <2>1. col' \in Col
      BY <1>c, <1>6 DEF StoreRepo, Col, ColPC
    <2> QED BY <1>c, <2>1, <1>6 DEF ColTypeOK, Col, StoreRepo
  <1>7. CASE ListTracked
    <2>1. col' \in Col
      BY <1>c, <1>7 DEF ListTracked, AllTrackedNames, StoreTypeOK, Col, ColPC
    <2> QED BY <1>c, <2>1, <1>7 DEF ColTypeOK, Col, ListTracked, AllTrackedNames, StoreTypeOK
  <1>8. CASE ListTrackedFails
    <2>1. col' \in Col
      BY <1>c, <1>8 DEF ListTrackedFails, Col, ColPC
    <2> QED BY <1>c, <2>1, <1>8 DEF ColTypeOK, Col, ListTrackedFails
  <1>9. CASE ScanUpsert
    <2>1. col' \in Col
      BY <1>c, <1>9 DEF ScanUpsert, Col, ColPC
    <2> QED BY <1>c, <2>1, <1>9 DEF ColTypeOK, Col, ScanUpsert
  <1>10. CASE ScanIndex
    <2>1. col' \in Col
      <3>1. CASE col.next = Len(IndexedBoards)
        BY <1>10, <3>1, ScannedTyped DEF ScanIndex, ColTypeOK
      <3>2. CASE col.next # Len(IndexedBoards)
        <4>1. col.next + 1 \in 1 .. Len(IndexedBoards)
          BY <1>c, <3>2
        <4> QED BY <1>c, <1>10, <3>2, <4>1, FieldTyped DEF ScanIndex
      <3> QED BY <3>1, <3>2
    <2> QED BY <1>c, <2>1, <1>10 DEF ColTypeOK, Col, ScanIndex, ScannedWith
  <1>11. CASE ScanStoreFails
    <2>1. col' \in Col
      BY <1>c, <1>11, ScannedTyped DEF ScanStoreFails, ColTypeOK
    <2> QED BY <1>c, <2>1, <1>11 DEF ColTypeOK, Col, ScanStoreFails, ScannedWith
  <1>12. ASSUME NEW n \in Repo, ScanFetch(n) PROVE ColTypeOK'
    <2>1. col' \in Col
      <3>1. canon[n] \in Repo \cup {NoRepo} /\ n \in Repo \cup {NoRepo}
            /\ 1 \in 1 .. Len(IndexedBoards) /\ "upsert" \in ColPC
        BY <1>c DEF StoreTypeOK, ColPC
      <3> QED BY <1>c, <1>12, <3>1, FieldTyped DEF ScanFetch
    <2> QED BY <1>c, <2>1, <1>12 DEF ColTypeOK, Col, ScanFetch, StoreTypeOK
  <1>13. ASSUME NEW n \in Repo, ScanFetchFails(n) PROVE ColTypeOK'
    <2>1. col' \in Col
      BY <1>c, <1>13 DEF ScanFetchFails, Col, ColPC
    <2> QED BY <1>c, <2>1, <1>13 DEF ColTypeOK, Col, ScanFetchFails
  <1>14. CASE FinishPass
    <2>1. col' \in Col
      BY <1>c, <1>14, NewColTyped, FieldTyped DEF FinishPass
    <2> QED BY <1>c, <2>1, <1>14 DEF ColTypeOK, Col, FinishPass, NewCol
  <1>15. CASE Killed
    <2>1. col' \in Col
      BY <1>15, NewColTyped, FieldTyped DEF Killed
    <2> QED BY <1>c, <2>1, <1>15 DEF ColTypeOK, Col, Killed, NewCol
  <1> QED BY <1>1, <1>2, <1>3, <1>4, <1>5, <1>6, <1>7, <1>8, <1>9, <1>10, <1>11, <1>12,
             <1>13, <1>14, <1>15 DEF ColNext, CrawlStep, ScanStep

LEMMA TypeNext == TypeOK /\ [Next]_vars => TypeOK'
  <1> SUFFICES ASSUME TypeOK, [Next]_vars PROVE TypeOK'
    OBVIOUS
  <1>1. CASE ApiNext /\ UNCHANGED col
    BY <1>1, ApiType, ApiStoreType DEF TypeOK, ColTypeOK
  <1>2. CASE Environment /\ UNCHANGED <<apiVars, col>>
    BY <1>2, EnvironmentType DEF TypeOK, ColTypeOK, ApiTypeOK
  <1>3. CASE ColNext /\ UNCHANGED apiVars
    BY <1>3, CollectorType, CollectorStoreType DEF TypeOK, ApiTypeOK
  <1>4. CASE UNCHANGED vars
    BY <1>4 DEF vars, TypeOK, StoreTypeOK, ApiTypeOK, ColTypeOK
  <1> QED BY <1>1, <1>2, <1>3, <1>4 DEF Next, NextNoPass

\* Every variable keeps its type, and every request and the collector's pass the
\* locals its next statement needs.
THEOREM TypeCorrect == Spec => []TypeOK
  BY TypeInit, TypeNext, PTL DEF Spec
=============================================================================
