------------------------------- MODULE Tracker -------------------------------
(***************************************************************************)
(* The tracking subsystem: track and untrack requests of the API, the      *)
(* collector's pass, midnight and GitHub, all on the same tables.          *)
(***************************************************************************)
EXTENDS TrackApi, Collector

vars == <<storeVars, apiVars, col>>

Init == StoreInit /\ ApiInit /\ ColInit

\* The API between two passes of the collector.
NextNoPass ==
    \/ ApiNext /\ UNCHANGED col
    \/ Environment /\ UNCHANGED <<apiVars, col>>

Next ==
    \/ NextNoPass
    \/ ColNext /\ UNCHANGED apiVars

SpecNoPass == Init /\ [][NextNoPass]_vars
Spec == Init /\ [][Next]_vars

TypeOK == StoreTypeOK /\ ApiTypeOK /\ ColTypeOK

(***************************************************************************)
(* Safety.                                                                 *)
(***************************************************************************)

\* Requests of u that have passed the limit check and may still insert a row.
PastGate(u) ==
    {p \in Proc : /\ pc[p] \in {"upsert", "index", "track"}
                  /\ req[p].user = u
                  /\ ~req[p].already}

\* The limit is checked in one statement and the row inserted in another, so
\* requests of one user that run together can each take the last place.  What
\* does hold: a user never has more than Limit rows plus one for every further
\* request the server runs at the same time - and exactly Limit when requests
\* are served one after the other.
CapBound == \A u \in User : CountTracked(u) <= Limit + Cardinality(Proc) - 1

\* CapBound is not inductive by itself: places already promised count too.
CapInv == \A u \in User :
              CountTracked(u) + Cardinality(PastGate(u)) <= Limit + Cardinality(Proc) - 1

\* The documented limit (README, "50 per user; 409 beyond"; models.rs,
\* TRACKED_REPO_LIMIT): never more than Limit rows.  The code does not keep it.
CapRespected == \A u \in User : CountTracked(u) <= Limit

\* What handlers and the pass hold between two statements already has its row.
HeldRowsExist ==
    /\ \A p \in Proc : pc[p] \in {"index", "track", "board", "any"} => req[p].gh \in repos
    /\ col.pc \in {"snap", "index"} => col.cur \in repos

\* A request refused before its first write (404 unknown, 409 limit, 502 GitHub)
\* has written nothing: "Gate limit / side effects BEFORE any writes".
RefusedWritesNothing ==
    \A p \in Proc : resp[p].code \in {404, 409, 502} => ~resp[p].wrote

Accepted(p) == resp[p].code \in {200, 201}

\* An answer of 200 or 201 means the repository is in the user's list, unless
\* the user removed it while the request was running or afterwards.
AnswerHonest ==
    \A p \in Proc :
        Accepted(p) => <<resp[p].user, resp[p].repo>> \in tracked \/ resp[p].undone

\* A request that wrote all its boards reports the repository as on_board even if
\* midnight fell between the writes and the status queries: both use one `today`.
IndexedIsOnBoard ==
    \A p \in Proc : Accepted(p) /\ resp[p].indexed => resp[p].status = "on_board"

\* A repository the scan handled without any error has its tracked_daily
\* snapshot of the pass's day, provided GitHub still has it under that name.
ScanCovers ==
    \A n \in col.clean : canon[n] = n => <<n, col.day, "tracked_daily">> \in snaps

\* What the code's comment promises without that proviso ("Snapshot every distinct
\* user-tracked repo onto board=tracked_daily").  The code does not keep it.
ScanCoversAll ==
    \A n \in col.clean : <<n, col.day, "tracked_daily">> \in snaps

\* A process that exits with success has put something on a public board on the
\* day it ran for (main.rs refuses report.ok = 0).
ExitHonest ==
    col.exit = "success" =>
        \E n \in Repo, b \in PublicBoard : <<n, col.day, b>> \in snaps

(***************************************************************************)
(* Liveness.  Nothing obliges a user or the API to do anything.  Of the    *)
(* collector: a pass is started again after every pass (CronJob, daily),   *)
(* a running pass goes on, the cluster does not kill passes for ever, and  *)
(* a statement or GitHub call of the scan tried again and again succeeds   *)
(* some time.                                                              *)
(***************************************************************************)
PassStep(A) == A /\ UNCHANGED apiVars

Fairness ==
    /\ WF_vars(PassStep(StartPass))
    /\ WF_vars(PassStep(CrawlStep))
    /\ WF_vars(PassStep(ScanStep))
    /\ WF_vars(PassStep(FinishPass))
    /\ <>[][~Killed]_vars
    /\ SF_vars(PassStep(ListTracked))
    /\ \A n \in Repo : SF_vars(PassStep(ScanFetch(n)))
    /\ SF_vars(PassStep(ScanUpsert))
    /\ SF_vars(PassStep(ScanIndex))

FairSpec == Spec /\ Fairness

\* A repository a user keeps in the list, and GitHub keeps under its name, leaves
\* "pending": it gets a snapshot even if every write of the request that added it
\* failed.
PendingEnds ==
    \A u \in User, n \in Repo :
        <<u, n>> \in tracked ~>
            HasAnySnapshot(n) \/ <<u, n>> \notin tracked \/ canon[n] # n
=============================================================================
