------------------------------- MODULE Store -------------------------------
(***************************************************************************)
(* The tables the API and the collector share (backend/crates/core:        *)
(* store.rs, migrations/), reduced to the rows' keys.  Every operator here *)
(* is ONE SQL statement and therefore one atomic step; a handler that      *)
(* issues several of them is interleaved between any two (no transaction   *)
(* spans them).  There are no foreign keys: nothing in the database stops  *)
(* a snapshot or a track from naming a repository that has no row.         *)
(***************************************************************************)
EXTENDS Integers, FiniteSets, Sequences

CONSTANTS
    User,         \* users.id
    Repo,         \* repository names (owner/name)
    NoRepo,       \* "GitHub knows no public repository of that name"
    Upstream,     \* the names that exist on GitHub at the start
    AllowRename,  \* whether repositories are renamed on GitHub during the run
    MaxDay,       \* bound on the calendar
    IndexedBoards \* the boards upsert_indexed_snapshots writes, in its order: in the
                  \* code <<"tracked_daily", "top_stars", "top_forks", "top_watchers">>

\* The four boards of models.rs::Board anyone may list, and the private one.
PublicBoard == {"top_stars", "top_forks", "top_watchers", "trending_daily"}
Board == PublicBoard \cup {"tracked_daily"}

ASSUME StoreAssumption ==
    /\ NoRepo \notin Repo
    /\ Upstream \subseteq Repo
    /\ AllowRename \in BOOLEAN
    /\ MaxDay \in Nat \ {0}
    /\ IsFiniteSet(Repo)
    /\ IndexedBoards \in Seq(Board)
    /\ \E i \in 1 .. Len(IndexedBoards) : IndexedBoards[i] \in PublicBoard

VARIABLES
    repos,    \* full_names with a row in repos (UNIQUE, never updated or deleted)
    snaps,    \* keys <<full_name, day, board>> of snapshots (UNIQUE)
    tracked,  \* <<user, full_name>> pairs of user_tracked_repos (UNIQUE)
    today,    \* Utc::now().date_naive()
    canon     \* the name GitHub answers with when asked for a name

storeVars == <<repos, snaps, tracked, today, canon>>

Day == 1 .. MaxDay

StoreTypeOK ==
    /\ repos \in SUBSET Repo
    /\ snaps \in SUBSET (Repo \X Day \X Board)
    /\ tracked \in SUBSET (User \X Repo)
    /\ today \in Day
    /\ canon \in [Repo -> Repo \cup {NoRepo}]

StoreInit ==
    /\ repos = {}
    /\ snaps = {}
    /\ tracked = {}
    /\ today = 1
    /\ canon = [n \in Repo |-> IF n \in Upstream THEN n ELSE NoRepo]

(***************************************************************************)
(* Statements.                                                             *)
(***************************************************************************)

\* upsert_repo: INSERT .. ON CONFLICT (full_name) DO UPDATE.
UpsertRepo(n) == repos' = repos \cup {n}

\* upsert_snapshot: INSERT .. ON CONFLICT (repo_id, snapshot_date, board) DO UPDATE.
UpsertSnapshot(n, d, b) == snaps' = snaps \cup {<<n, d, b>>}

\* track_repo: INSERT .. ON CONFLICT (user_id, repo_id) DO NOTHING.
TrackRepo(u, n) == tracked' = tracked \cup {<<u, n>>}

\* untrack_repo: DELETE .. USING repos, matched on the exact full_name.
UntrackRepo(u, n) ==
    tracked' = IF n \in repos THEN tracked \ {<<u, n>>} ELSE tracked

\* is_tracked_full_name joins repos; count_tracked does not.
IsTracked(u, n) == n \in repos /\ <<u, n>> \in tracked
TrackedBy(u) == {n \in Repo : <<u, n>> \in tracked}
CountTracked(u) == Cardinality(TrackedBy(u))

\* is_on_public_board, has_any_snapshot (routes_track.rs).
IsOnPublicBoard(n, d) == \E b \in PublicBoard : <<n, d, b>> \in snaps
HasAnySnapshot(n) == \E d \in Day, b \in Board : <<n, d, b>> \in snaps

\* Mutation of the next: joined with the snapshots.
AllTrackedNamesSnapped ==
    {n \in repos : HasAnySnapshot(n) /\ \E u \in User : <<u, n>> \in tracked}

\* list_all_tracked_full_names: SELECT DISTINCT over every user's tracks.
AllTrackedNames == {n \in repos : \E u \in User : <<u, n>> \in tracked}

(***************************************************************************)
(* The world outside: midnight, and a repository renamed on GitHub, which  *)
(* from then on answers requests for the old name with the new one.        *)
(***************************************************************************)

Tick ==
    /\ today < MaxDay
    /\ today' = today + 1
    /\ UNCHANGED <<repos, snaps, tracked, canon>>

RenameUpstream(n, m) ==
    /\ AllowRename
    /\ canon[n] = n
    /\ canon[m] = NoRepo
    /\ canon' = [x \in Repo |-> IF x = m \/ canon[x] = n THEN m ELSE canon[x]]
    /\ UNCHANGED <<repos, snaps, tracked, today>>

Environment == Tick \/ \E n, m \in Repo : RenameUpstream(n, m)

(***************************************************************************)
(* What the missing foreign keys would have enforced (design document      *)
(* 2026-08-06, "referential integrity is guaranteed by the program").      *)
(***************************************************************************)
RefIntegrity ==
    /\ \A s \in snaps : s[1] \in repos
    /\ \A t \in tracked : t[2] \in repos
=============================================================================
