------------------------------ MODULE Collector ------------------------------
(***************************************************************************)
(* One pass of the collector (backend/crates/collector: collect.rs         *)
(* collect_once and scan_tracked_repos, store.rs store_one and             *)
(* store_top_rows / store_trending_rows, main.rs --once): the public       *)
(* boards batch by batch, then the daily scan of everything users track.   *)
(* The enrichment between the two touches only metadata of rows that exist *)
(* and is not modelled.  The cluster never runs two passes at once         *)
(* (concurrencyPolicy: Forbid), but may kill and restart one anywhere.     *)
(***************************************************************************)
EXTENDS Store

CONSTANT Batches   \* the board each (language, metric) batch stores, in order

ASSUME CollectorAssumption == Batches \in Seq(PublicBoard)

VARIABLE col

\* day: `today`, read once when the pass starts; batch: the current batch; rows: the
\* names of its search result not stored yet; stored: how many were; ok, failed:
\* Report; left: tracked names not scanned yet; asked, cur: the one being scanned
\* or stored and the name GitHub gave it; next: next board to write; exit: how the
\* process ended.  clean is history: names scanned without any error.
ColPC == {"idle", "search", "store", "snap", "list", "fetch", "upsert", "index"}
Col == [pc : ColPC, day : Day, batch : 1 .. Len(Batches) + 1, rows : SUBSET Repo,
        stored : Nat, ok : Nat, failed : Nat, left : SUBSET Repo,
        asked : Repo \cup {NoRepo}, cur : Repo \cup {NoRepo}, next : 1 .. Len(IndexedBoards),
        exit : {"none", "success", "failure", "killed"}, clean : SUBSET Repo]

ColTypeOK ==
    /\ col \in Col
    /\ col.pc \in {"search", "store", "snap"} => col.batch <= Len(Batches)
    /\ col.pc = "snap" => col.cur \in Repo
    /\ col.pc \in {"upsert", "index"} => col.cur \in Repo /\ col.asked \in Repo

NewCol == [pc |-> "idle", day |-> 1, batch |-> 1, rows |-> {}, stored |-> 0, ok |-> 0,
           failed |-> 0, left |-> {}, asked |-> NoRepo, cur |-> NoRepo, next |-> 1,
           exit |-> "none", clean |-> {}]

ColInit == col = NewCol

(***************************************************************************)
(* Public boards.                                                          *)
(***************************************************************************)

\* The pc of a pass whose next batch is b.
AtBatch(b) == IF b <= Len(Batches) THEN "search" ELSE "list"

StartPass ==
    /\ col.pc = "idle"
    /\ col' = [NewCol EXCEPT !.pc = AtBatch(1), !.day = today]
    /\ UNCHANGED storeVars

\* The batch's request was answered with these repositories (under the names
\* GitHub has for them now).
SearchOk ==
    /\ col.pc = "search"
    /\ \E found \in SUBSET {n \in Repo : canon[n] = n} :
           col' = [col EXCEPT !.pc = "store", !.rows = found, !.stored = 0]
    /\ UNCHANGED storeVars

\* The rest of a failed batch is given up; the pass goes on with the next one.
BatchFailed ==
    /\ \/ col.pc = "search"
       \/ col.pc = "store" /\ col.rows # {}
       \/ col.pc = "snap"
    /\ col' = [col EXCEPT !.pc = AtBatch(col.batch + 1), !.batch = col.batch + 1,
                          !.failed = col.failed + 1, !.rows = {}, !.stored = 0,
                          !.cur = NoRepo]
    /\ UNCHANGED storeVars

StoreRepo(n) ==
    /\ col.pc = "store"
    /\ n \in col.rows
    /\ UpsertRepo(n)
    /\ col' = [col EXCEPT !.pc = "snap", !.cur = n]
    /\ UNCHANGED <<snaps, tracked, today, canon>>

StoreSnapshot ==
    /\ col.pc = "snap"
    /\ UpsertSnapshot(col.cur, col.day, Batches[col.batch])
    /\ col' = [col EXCEPT !.pc = "store", !.rows = col.rows \ {col.cur},
                          !.stored = col.stored + 1, !.cur = NoRepo]
    /\ UNCHANGED <<repos, tracked, today, canon>>

\* Mutation of the next: a batch is one success whatever it stored.
BatchStoredCountsBatch ==
    /\ col.pc = "store"
    /\ col.rows = {}
    /\ col' = [col EXCEPT !.pc = AtBatch(col.batch + 1), !.batch = col.batch + 1,
                          !.ok = col.ok + 1, !.stored = 0]
    /\ UNCHANGED storeVars

BatchStored ==
    /\ col.pc = "store"
    /\ col.rows = {}
    /\ col' = [col EXCEPT !.pc = AtBatch(col.batch + 1), !.batch = col.batch + 1,
                          !.ok = col.ok + col.stored, !.stored = 0]
    /\ UNCHANGED storeVars

(***************************************************************************)
(* scan_tracked_repos.                                                     *)
(***************************************************************************)

ListTracked ==
    /\ col.pc = "list"
    /\ col' = [col EXCEPT !.pc = "fetch", !.left = AllTrackedNames]
    /\ UNCHANGED storeVars

\* The list query failed: nothing is scanned.
ListTrackedFails ==
    /\ col.pc = "list"
    /\ col' = [col EXCEPT !.pc = "fetch"]
    /\ UNCHANGED storeVars

\* fetch_repo_details; languages and the latest release, fetched after it, are
\* best effort and decide nothing here.
ScanFetch(n) ==
    /\ col.pc = "fetch"
    /\ n \in col.left
    /\ canon[n] # NoRepo
    /\ col' = [col EXCEPT !.pc = "upsert", !.asked = n, !.cur = canon[n], !.next = 1]
    /\ UNCHANGED storeVars

ScanFetchFails(n) ==
    /\ col.pc = "fetch"
    /\ n \in col.left
    /\ col' = [col EXCEPT !.left = col.left \ {n}]
    /\ UNCHANGED storeVars

\* Mutation of the next: a tracked repository is trusted to have its row.
ScanUpsertSkipped ==
    /\ col.pc = "upsert"
    /\ col' = [col EXCEPT !.pc = "index"]
    /\ UNCHANGED storeVars

ScanUpsert ==
    /\ col.pc = "upsert"
    /\ UpsertRepo(col.cur)
    /\ col' = [col EXCEPT !.pc = "index"]
    /\ UNCHANGED <<snaps, tracked, today, canon>>

\* Done with the repository asked for, with (c) or without an error.
ScannedWith(c) ==
    [col EXCEPT !.pc = "fetch", !.left = col.left \ {col.asked}, !.asked = NoRepo,
                !.cur = NoRepo, !.next = 1,
                !.clean = IF c THEN col.clean \cup {col.asked} ELSE col.clean]

\* Mutations of the next: only the public board is written; one board too many.
ScanIndexFirstOnly ==
    /\ col.pc = "index"
    /\ UpsertSnapshot(col.cur, col.day, "top_stars")
    /\ col' = ScannedWith(TRUE)
    /\ UNCHANGED <<repos, tracked, today, canon>>

ScanIndexOneTooMany ==
    /\ col.pc = "index"
    /\ UpsertSnapshot(col.cur, col.day, IndexedBoards[col.next])
    /\ col' = IF col.next > Len(IndexedBoards) THEN ScannedWith(TRUE)
              ELSE [col EXCEPT !.next = col.next + 1]
    /\ UNCHANGED <<repos, tracked, today, canon>>

ScanIndex ==
    /\ col.pc = "index"
    /\ UpsertSnapshot(col.cur, col.day, IndexedBoards[col.next])
    /\ col' = IF col.next = Len(IndexedBoards) THEN ScannedWith(TRUE)
              ELSE [col EXCEPT !.next = col.next + 1]
    /\ UNCHANGED <<repos, tracked, today, canon>>

\* upsert_repo or a board's statement failed: logged, next repository.
ScanStoreFails ==
    /\ col.pc \in {"upsert", "index"}
    /\ col' = ScannedWith(FALSE)
    /\ UNCHANGED storeVars

(***************************************************************************)
(* The end of the process.  main.rs: ensure!(report.ok > 0).               *)
(***************************************************************************)

FinishPass ==
    /\ col.pc = "fetch"
    /\ col.left = {}
    /\ col' = [NewCol EXCEPT !.day = col.day, !.clean = col.clean,
                             !.exit = IF col.ok > 0 THEN "success" ELSE "failure"]
    /\ UNCHANGED storeVars

Killed ==
    /\ col.pc # "idle"
    /\ col' = [NewCol EXCEPT !.exit = "killed"]
    /\ UNCHANGED storeVars

CrawlStep ==
    \/ SearchOk \/ BatchFailed \/ StoreSnapshot \/ BatchStored
    \/ \E n \in Repo : StoreRepo(n)

ScanStep ==
    \/ ListTracked \/ ListTrackedFails \/ ScanUpsert \/ ScanIndex \/ ScanStoreFails
    \/ \E n \in Repo : ScanFetch(n) \/ ScanFetchFails(n)

ColNext == StartPass \/ CrawlStep \/ ScanStep \/ FinishPass \/ Killed
=============================================================================
