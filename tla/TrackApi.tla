------------------------------ MODULE TrackApi ------------------------------
(***************************************************************************)
(* POST /api/repos/track and DELETE /api/repos/track                       *)
(* (backend/crates/api/src/routes_track.rs: track, untrack).  A track      *)
(* request is a chain of awaits: one GitHub call and up to nine SQL        *)
(* statements, each committed on its own.  Proc is the set of request      *)
(* slots the server has in flight; a slot is reused once it has answered.  *)
(***************************************************************************)
EXTENDS Store

CONSTANTS
    Proc,    \* concurrently running track requests
    Limit,   \* TRACKED_REPO_LIMIT
    NoUser   \* the user of a slot that serves nobody

ASSUME TrackApiAssumption ==
    /\ IsFiniteSet(Proc)
    /\ Limit \in Nat \ {0}
    /\ NoUser \notin User

VARIABLES
    pc,    \* where each request stands
    req,   \* its locals
    resp   \* the last answer of each slot

apiVars == <<pc, req, resp>>

PC == {"idle", "fetch", "check", "count", "upsert", "index", "track", "board", "any"}
Status == {"on_board", "tracking", "pending", "none"}
Code == {0, 200, 201, 404, 409, 500, 502}

\* name: the name asked for; gh: the name GitHub answered with; already: what
\* is_tracked_full_name said; day: `today`; next: the next board to write.  Two
\* fields are history: wrote - the request has changed a table; undone - the user
\* removed the repository after the request checked or added it.
Req == [user : User \cup {NoUser}, name : Repo \cup {NoRepo},
        gh : Repo \cup {NoRepo}, already : BOOLEAN, day : Day,
        next : 1 .. Len(IndexedBoards) + 1, wrote : BOOLEAN, undone : BOOLEAN]

\* An answer (code, status), whom and what it was for, and what its request had
\* done: wrote, undone as above; indexed - it wrote all the boards.
Resp == [code : Code, status : Status, user : User \cup {NoUser},
         repo : Repo \cup {NoRepo}, wrote : BOOLEAN, indexed : BOOLEAN, undone : BOOLEAN]

\* Which locals r a request has at which point.
LocalsFit(at, r) ==
    /\ at # "idle" => r.user \in User /\ r.name \in Repo
    /\ at \notin {"idle", "fetch"} => r.gh \in Repo
    /\ at \in {"fetch", "check", "count", "upsert"} => r.next = 1
    /\ at = "index" => r.next <= Len(IndexedBoards)
    /\ at \in {"count", "track"} => ~r.already

ApiTypeOK ==
    /\ pc \in [Proc -> PC]
    /\ req \in [Proc -> Req]
    /\ resp \in [Proc -> Resp]
    /\ \A p \in Proc : LocalsFit(pc[p], req[p])

NewReq(u, n) ==
    [user |-> u, name |-> n, gh |-> NoRepo, already |-> FALSE, day |-> 1, next |-> 1,
     wrote |-> FALSE, undone |-> FALSE]
NoReq == NewReq(NoUser, NoRepo)
NoResp == [code |-> 0, status |-> "none", user |-> NoUser, repo |-> NoRepo,
           wrote |-> FALSE, indexed |-> FALSE, undone |-> FALSE]

ApiInit ==
    /\ pc = [p \in Proc |-> "idle"]
    /\ req = [p \in Proc |-> NoReq]
    /\ resp = [p \in Proc |-> NoResp]

Goto(p, from, to) ==
    /\ pc[p] = from
    /\ pc' = [pc EXCEPT ![p] = to]

Reply(p, code, status) ==
    /\ pc' = [pc EXCEPT ![p] = "idle"]
    /\ req' = [req EXCEPT ![p] = NoReq]
    /\ resp' = [resp EXCEPT ![p] =
           [code |-> code, status |-> status, user |-> req[p].user, repo |-> req[p].gh,
            wrote |-> req[p].wrote, indexed |-> req[p].next > Len(IndexedBoards),
            undone |-> req[p].undone]]

(***************************************************************************)
(* The steps of `track`, in order.                                         *)
(***************************************************************************)

Submit(p, u, n) ==
    /\ Goto(p, "idle", "fetch")
    /\ req' = [req EXCEPT ![p] = NewReq(u, n)]
    /\ resp' = [resp EXCEPT ![p] = NoResp]
    /\ UNCHANGED storeVars

FetchOk(p) ==
    /\ Goto(p, "fetch", "check")
    /\ canon[req[p].name] # NoRepo
    /\ req' = [req EXCEPT ![p].gh = canon[req[p].name]]
    /\ UNCHANGED <<storeVars, resp>>

\* GhError::NotFound (also for a 403: private, or over GitHub's own limit) -> 404,
\* GhError::Other -> 502.
FetchFails(p) ==
    /\ pc[p] = "fetch"
    /\ \E code \in {404, 502} : Reply(p, code, "none")
    /\ UNCHANGED storeVars

\* `already`; a repository the user already tracks skips the limit.
CheckTracked(p) ==
    LET already == IsTracked(req[p].user, req[p].gh)
    IN  /\ Goto(p, "check", IF already THEN "upsert" ELSE "count")
        /\ req' = [req EXCEPT ![p].already = already, ![p].day = today]
        /\ UNCHANGED <<storeVars, resp>>

\* Mutation of the next: off by one.
LimitReachedOffByOne(u) == CountTracked(u) > Limit
LimitReached(u) == CountTracked(u) >= Limit

CheckLimit(p) ==
    /\ pc[p] = "count"
    /\ \/ /\ LimitReached(req[p].user)
          /\ Reply(p, 409, "none")
       \/ /\ ~LimitReached(req[p].user)
          /\ Goto(p, "count", "upsert")
          /\ req' = [req EXCEPT ![p].day = today]
          /\ UNCHANGED resp
    /\ UNCHANGED storeVars

\* `today` is read between the gate and this statement, and midnight may fall
\* in between.  The health columns written next are in RepoRow: no step of a
\* request depends on them.
UpsertGhRepo(p) ==
    /\ Goto(p, "upsert", "index")
    /\ UpsertRepo(req[p].gh)
    /\ \E d \in req[p].day .. today :
           req' = [req EXCEPT ![p].day = d, ![p].wrote = TRUE]
    /\ UNCHANGED <<snaps, tracked, today, canon, resp>>

AfterIndex(p) == IF req[p].already THEN "board" ELSE "track"

\* One upsert_snapshot of upsert_indexed_snapshots.
IndexBoard(p) ==
    LET k == req[p].next
        last == k = Len(IndexedBoards)
    IN  /\ Goto(p, "index", IF last THEN AfterIndex(p) ELSE "index")
        /\ UpsertSnapshot(req[p].gh, req[p].day, IndexedBoards[k])
        /\ req' = [req EXCEPT ![p].next = k + 1]
        /\ UNCHANGED <<repos, tracked, today, canon, resp>>

\* `?` leaves the remaining boards unwritten; track only logs it and goes on.
IndexFails(p) ==
    /\ Goto(p, "index", AfterIndex(p))
    /\ UNCHANGED <<storeVars, req, resp>>

\* Mutations of the next: the limit is checked here too; the INSERT is forgotten.
InsertTrackRechecks(p) ==
    /\ pc[p] = "track"
    /\ \/ /\ LimitReached(req[p].user)
          /\ Reply(p, 409, "none")
          /\ UNCHANGED tracked
       \/ /\ ~LimitReached(req[p].user)
          /\ Goto(p, "track", "board")
          /\ TrackRepo(req[p].user, req[p].gh)
          /\ UNCHANGED <<req, resp>>
    /\ UNCHANGED <<repos, snaps, today, canon>>

InsertTrackDropped(p) ==
    /\ Goto(p, "track", "board")
    /\ UNCHANGED <<storeVars, req, resp>>

InsertTrack(p) ==
    /\ Goto(p, "track", "board")
    /\ TrackRepo(req[p].user, req[p].gh)
    /\ req' = [req EXCEPT ![p].undone = FALSE]
    /\ UNCHANGED <<repos, snaps, today, canon, resp>>

SuccessCode(p) == IF req[p].already THEN 200 ELSE 201

\* Mutation of the next: the status is asked for the day it is now.
StatusBoardToday(p) ==
    /\ pc[p] = "board"
    /\ \/ /\ IsOnPublicBoard(req[p].gh, today)
          /\ Reply(p, SuccessCode(p), "on_board")
       \/ /\ ~IsOnPublicBoard(req[p].gh, today)
          /\ Goto(p, "board", "any")
          /\ UNCHANGED <<req, resp>>
    /\ UNCHANGED storeVars

\* compute_status is two queries; list_tracked after it only fills in dates.
StatusBoard(p) ==
    /\ pc[p] = "board"
    /\ \/ /\ IsOnPublicBoard(req[p].gh, req[p].day)
          /\ Reply(p, SuccessCode(p), "on_board")
       \/ /\ ~IsOnPublicBoard(req[p].gh, req[p].day)
          /\ Goto(p, "board", "any")
          /\ UNCHANGED <<req, resp>>
    /\ UNCHANGED storeVars

StatusAny(p) ==
    /\ pc[p] = "any"
    /\ Reply(p, SuccessCode(p), IF HasAnySnapshot(req[p].gh) THEN "tracking" ELSE "pending")
    /\ UNCHANGED storeVars

\* A statement whose error the handler turns into 500.
DbFails(p) ==
    /\ pc[p] \in {"check", "count", "upsert", "track", "board", "any"}
    /\ Reply(p, 500, "none")
    /\ UNCHANGED storeVars

\* The client hangs up (or the server stops): the handler's future is dropped
\* at the await it stands at, and what it committed stays.
Abandon(p) ==
    /\ pc[p] # "idle"
    /\ pc' = [pc EXCEPT ![p] = "idle"]
    /\ req' = [req EXCEPT ![p] = NoReq]
    /\ UNCHANGED <<storeVars, resp>>

\* DELETE /api/repos/track: one statement.
Untrack(u, n) ==
    /\ UntrackRepo(u, n)
    /\ req' = [p \in Proc |-> IF req[p].user = u /\ req[p].gh = n
                              THEN [req[p] EXCEPT !.undone = TRUE] ELSE req[p]]
    /\ resp' = [p \in Proc |-> IF resp[p].user = u /\ resp[p].repo = n
                               THEN [resp[p] EXCEPT !.undone = TRUE] ELSE resp[p]]
    /\ UNCHANGED <<repos, snaps, today, canon, pc>>

TrackStep(p) ==
    \/ FetchOk(p) \/ FetchFails(p) \/ CheckTracked(p) \/ CheckLimit(p)
    \/ UpsertGhRepo(p) \/ IndexBoard(p) \/ IndexFails(p) \/ InsertTrack(p)
    \/ StatusBoard(p) \/ StatusAny(p) \/ DbFails(p)

ApiNext ==
    \/ \E p \in Proc, u \in User, n \in Repo : Submit(p, u, n)
    \/ \E p \in Proc : TrackStep(p) \/ Abandon(p)
    \/ \E u \in User, n \in Repo : Untrack(u, n)
=============================================================================
