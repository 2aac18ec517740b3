------------------------------- MODULE RepoRow -------------------------------
(***************************************************************************)
(* The columns of one row of repos and everybody who writes them: the      *)
(* crawl's boards, enrichment and the scan of tracked repositories (one    *)
(* process, one after the other), track requests of the API, and the       *)
(* license backfill of the CLI.  Each fetches from GitHub over several     *)
(* awaits and writes what it has gathered later, in single statements.     *)
(*                                                                         *)
(* GitHub's side of the repository changes from version to version.  A     *)
(* column holds the version of the answer its value came from, 0 when it   *)
(* is empty or NULL.                                                       *)
(***************************************************************************)
EXTENDS Integers

CONSTANTS
    Collector,    \* the collector process
    Backfill,     \* the collector binary run with --backfill-licenses
    Track,        \* track requests in flight
    MaxVersion,   \* bound on the changes at GitHub
    HasTopics,    \* versions with at least one topic
    HasLanguages, \* versions with at least one detected language
    HasRelease,   \* versions with a published release
    Metadata,     \* version -> the license GitHub's metadata names
    Refinable     \* versions whose LICENSE file names a license by itself

Version == 1 .. MaxVersion
Stamp == 0 .. MaxVersion
Failed == -1   \* the release could not be fetched
License == {"null", "other", "spdx"}

ASSUME RepoRowAssumption ==
    /\ MaxVersion \in Nat \ {0}
    /\ HasTopics \subseteq Version
    /\ HasLanguages \subseteq Version
    /\ HasRelease \subseteq Version
    /\ Refinable \subseteq Version
    /\ Metadata \in [Version -> License]
    /\ Collector # Backfill
    /\ Collector \notin Track
    /\ Backfill \notin Track

Proc == Track \cup {Collector, Backfill}

VARIABLES
    gh,    \* the version GitHub has now
    row,   \* the row's columns
    job    \* per process: what it is doing and the locals it does it with

vars == <<gh, row, job>>

Field == {"topics", "languages", "license"}

\* about: language and description, which every statement writes together.
\* names: language_names.  pushed: pushed_at and the other details of health.
Row == [about : Stamp, license : License, topics : Stamp, languages : Stamp,
        names : Stamp, pushed : Stamp, release : Stamp]

\* details, langs, release: the answers at hand; needs: what the row lacked when it
\* was listed and has not been tried yet.  overtaken (history): another process has
\* written the row since this one took what it is going to write.
Job == [kind : {"none", "top", "trending", "enrich", "scan", "track", "backfill"},
        pc : {"idle", "store", "fetch", "details", "languages", "release", "upsert",
              "health", "license", "update"},
        about : Stamp, details : Stamp, langs : Stamp, license : License,
        needs : SUBSET Field, anyOk : BOOLEAN, release : Stamp \cup {Failed},
        overtaken : BOOLEAN]

TypeOK ==
    /\ gh \in Version
    /\ row \in Row
    /\ job \in [Proc -> Job]

NoRow == [about |-> 0, license |-> "null", topics |-> 0, languages |-> 0,
          names |-> 0, pushed |-> 0, release |-> 0]

NoJob == [kind |-> "none", pc |-> "idle", about |-> 0, details |-> 0, langs |-> 0,
          license |-> "null", needs |-> {}, anyOk |-> FALSE, release |-> Failed,
          overtaken |-> FALSE]

Init ==
    /\ gh = 1
    /\ row = NoRow
    /\ job = [p \in Proc |-> NoJob]

Exists == row.about # 0

(***************************************************************************)
(* What GitHub's answers contain.                                          *)
(***************************************************************************)

Topics(v) == IF v \in HasTopics THEN v ELSE 0
Languages(v) == IF v \in HasLanguages THEN v ELSE 0
Release(v) == IF v \in HasRelease THEN v ELSE 0

\* license_from_gh names what the metadata says; resolve_license prefers what the
\* LICENSE file says when the metadata names nothing or only "Other".
Resolved(v) == IF Metadata[v] # "spdx" /\ v \in Refinable THEN "spdx" ELSE Metadata[v]

(***************************************************************************)
(* The statements that write the row.                                      *)
(***************************************************************************)

\* Mutation of UpsertRow: topics always overwritten.
UpsertRowTopicsWiped(about, license, topics, languages, names) ==
    row' = [row EXCEPT !.about = about,
                       !.license = IF license # "null" THEN license ELSE @,
                       !.topics = topics,
                       !.languages = IF languages # 0 THEN languages ELSE @,
                       !.names = IF names # 0 THEN names ELSE @]

\* upsert_repo: about is overwritten, a license only by a license, the enrichment
\* columns only by non-empty values.  The INSERT writes the same over an empty row.
UpsertRow(about, license, topics, languages, names) ==
    row' = [row EXCEPT !.about = about,
                       !.license = IF license # "null" THEN license ELSE @,
                       !.topics = IF topics # 0 THEN topics ELSE @,
                       !.languages = IF languages # 0 THEN languages ELSE @,
                       !.names = IF names # 0 THEN names ELSE @]

\* Mutation of UpdateHealth: a release that could not be fetched is stored as none.
UpdateHealthNoKeep(details, release) ==
    row' = [row EXCEPT !.pushed = details,
                       !.release = IF release = Failed THEN 0 ELSE release]

\* Mutation of UpdateHealth: the mark of a failed fetch is stored.
UpdateHealthUnchecked(details, release) ==
    row' = [row EXCEPT !.pushed = details, !.release = release]

\* update_repo_health, or update_repo_health_keep_release when the release failed.
UpdateHealth(details, release) ==
    row' = [row EXCEPT !.pushed = details,
                       !.release = IF release = Failed THEN @ ELSE release]

\* p goes on with j; Wrote: and everybody else who holds an answer is overtaken.
Goes(p, j) == job' = [job EXCEPT ![p] = j]
Wrote(p, j) ==
    job' = [q \in Proc |->
               IF q = p THEN j
               ELSE [job[q] EXCEPT !.overtaken = @ \/ job[q].about # 0 \/ job[q].details # 0]]

(***************************************************************************)
(* The crawl: a board's answer holds the repository (search_top with its   *)
(* metadata, fetch_trending with language and description only) and is     *)
(* stored row by row afterwards (store_one).                               *)
(***************************************************************************)

FetchBoard(kind) ==
    /\ job[Collector].pc = "idle"
    /\ Goes(Collector, [NoJob EXCEPT !.kind = kind, !.pc = "store",
                                     !.about = gh, !.details = gh])
    /\ UNCHANGED <<gh, row>>

StoreBoard ==
    LET j == job[Collector] IN
    /\ j.pc = "store"
    /\ \/ j.kind = "top" /\ UpsertRow(j.about, Metadata[j.details], Topics(j.details), 0, 0)
       \/ j.kind = "trending" /\ UpsertRow(j.about, "null", 0, 0, 0)
    /\ Wrote(Collector, NoJob)
    /\ UNCHANGED gh

(***************************************************************************)
(* enrich_today_repos.                                                     *)
(***************************************************************************)

Needs == {f \in Field : \/ f = "topics" /\ row.topics = 0
                        \/ f = "languages" /\ row.names = 0
                        \/ f = "license" /\ row.license = "null"}

\* Mutation of ListNeeds: language and description are not read with the list.
ListNeedsBare ==
    /\ job[Collector].pc = "idle"
    /\ Exists
    /\ Needs # {}
    /\ Goes(Collector, [NoJob EXCEPT !.kind = "enrich", !.pc = "fetch", !.needs = Needs])
    /\ UNCHANGED <<gh, row>>

\* list_repos_needing_enrichment, for a row that is on a board of the day.
ListNeeds ==
    /\ job[Collector].pc = "idle"
    /\ Exists
    /\ Needs # {}
    /\ Goes(Collector, [NoJob EXCEPT !.kind = "enrich", !.pc = "fetch",
                                     !.about = row.about, !.needs = Needs])
    /\ UNCHANGED <<gh, row>>

Enriching(field) ==
    /\ job[Collector].pc = "fetch"
    /\ field \in job[Collector].needs

\* Mutation of FetchNeededLanguages: a failure skips the other fetches.
FetchNeededLanguagesOrNothing ==
    /\ Enriching("languages")
    /\ LET j == [job[Collector] EXCEPT !.needs = @ \ {"languages"}] IN
       \/ Goes(Collector, [j EXCEPT !.langs = Languages(gh), !.anyOk = TRUE])
       \/ Goes(Collector, [j EXCEPT !.needs = {}])
    /\ UNCHANGED <<gh, row>>

\* The fetches of what is needed, in order.  A failure is logged and the next is tried.
FetchNeededLanguages ==
    /\ Enriching("languages")
    /\ LET j == [job[Collector] EXCEPT !.needs = @ \ {"languages"}] IN
       \/ Goes(Collector, [j EXCEPT !.langs = Languages(gh), !.anyOk = TRUE])
       \/ Goes(Collector, j)
    /\ UNCHANGED <<gh, row>>

NeededTopicsOk ==
    /\ Enriching("topics")
    /\ ~Enriching("languages")
    /\ Goes(Collector, [job[Collector] EXCEPT !.needs = @ \ {"topics"},
                                              !.details = gh, !.anyOk = TRUE])
    /\ UNCHANGED <<gh, row>>

NeededTopicsFail ==
    /\ Enriching("topics")
    /\ ~Enriching("languages")
    /\ Goes(Collector, [job[Collector] EXCEPT !.needs = @ \ {"topics"}])
    /\ UNCHANGED <<gh, row>>

\* fetch_repo_license: a license, or none (404 or an unnamed one), or an error.
FetchNeededLicense ==
    /\ job[Collector].pc = "fetch"
    /\ job[Collector].needs = {"license"}
    /\ LET j == [job[Collector] EXCEPT !.needs = {}] IN
       \/ /\ Resolved(gh) # "null"
          /\ Goes(Collector, [j EXCEPT !.license = Resolved(gh), !.anyOk = TRUE])
       \/ Goes(Collector, j)
    /\ UNCHANGED <<gh, row>>

\* Once the columns are written only the details and the release are used again.
Onwards(j, pc) ==
    [NoJob EXCEPT !.kind = j.kind, !.pc = pc, !.details = j.details,
                  !.release = j.release, !.overtaken = j.overtaken /\ j.details # 0]

\* Enrichment fetches details for health unless it has them from the topics.
ToHealth(j) == Onwards(j, IF j.details = 0 THEN "details" ELSE "release")

\* apply_enrichment: the upsert writes back the about that was read with the list.
ApplyEnrichment ==
    LET j == job[Collector] IN
    /\ j.pc = "fetch"
    /\ j.needs = {}
    /\ j.anyOk
    /\ UpsertRow(j.about, j.license, Topics(j.details), j.langs, j.langs)
    /\ Wrote(Collector, ToHealth(j))
    /\ UNCHANGED gh

\* Nothing was fetched, or the upsert failed: health is tried all the same.
NothingApplied ==
    /\ job[Collector].pc = "fetch"
    /\ job[Collector].needs = {}
    /\ Goes(Collector, ToHealth(job[Collector]))
    /\ UNCHANGED <<gh, row>>

(***************************************************************************)
(* Details, languages and release, of the scan (scan_tracked_repos), of a  *)
(* track request and of enrichment's health.                               *)
(***************************************************************************)

StartScan ==
    /\ job[Collector].pc = "idle"
    /\ Goes(Collector, [NoJob EXCEPT !.kind = "scan", !.pc = "details"])
    /\ UNCHANGED <<gh, row>>

StartTrack(p) ==
    /\ job[p].pc = "idle"
    /\ Goes(p, [NoJob EXCEPT !.kind = "track", !.pc = "details"])
    /\ UNCHANGED <<gh, row>>

\* Enrichment has written its columns already; the others write this answer's.
FetchDetails(p) ==
    LET j == job[p] IN
    /\ j.pc = "details"
    /\ Goes(p, IF j.kind = "enrich"
               THEN [j EXCEPT !.details = gh, !.pc = "release"]
               ELSE [j EXCEPT !.details = gh, !.about = gh, !.pc = "languages"])
    /\ UNCHANGED <<gh, row>>

\* Best effort: a failure leaves no languages, which keeps the row's.
FetchLanguages(p) ==
    LET j == [job[p] EXCEPT !.pc = IF job[p].kind = "scan" THEN "release" ELSE "upsert"] IN
    /\ job[p].pc = "languages"
    /\ \/ Goes(p, [j EXCEPT !.langs = Languages(gh)])
       \/ Goes(p, j)
    /\ UNCHANGED <<gh, row>>

\* fetch_latest_release: 404 means none; any other failure is remembered as such.
FetchRelease(p) ==
    LET j == [job[p] EXCEPT !.pc = IF job[p].kind = "scan" THEN "upsert" ELSE "health"] IN
    /\ job[p].pc = "release"
    /\ \/ Goes(p, [j EXCEPT !.release = Release(gh)])
       \/ Goes(p, [j EXCEPT !.release = Failed])
    /\ UNCHANGED <<gh, row>>

UpsertDetails(p) ==
    LET j == job[p] IN
    /\ j.pc = "upsert"
    /\ UpsertRow(j.about, Metadata[j.details], Topics(j.details), j.langs, j.langs)
    /\ Wrote(p, Onwards(j, "health"))
    /\ UNCHANGED gh

\* A track request fetches no release: its release is still Failed, which keeps the row's.
WriteHealth(p) ==
    /\ job[p].pc = "health"
    /\ UpdateHealth(job[p].details, job[p].release)
    /\ Wrote(p, NoJob)
    /\ UNCHANGED gh

(***************************************************************************)
(* backfill_missing_licenses.                                              *)
(***************************************************************************)

ListMissingLicense ==
    /\ job[Backfill].pc = "idle"
    /\ Exists
    /\ row.license = "null"
    /\ Goes(Backfill, [NoJob EXCEPT !.kind = "backfill", !.pc = "license"])
    /\ UNCHANGED <<gh, row>>

FetchMissingLicense ==
    /\ job[Backfill].pc = "license"
    /\ Resolved(gh) # "null"
    /\ Goes(Backfill, [job[Backfill] EXCEPT !.license = Resolved(gh), !.pc = "update"])
    /\ UNCHANGED <<gh, row>>

\* UPDATE .. WHERE license IS NULL OR btrim(license) = ''
UpdateMissingLicense ==
    /\ job[Backfill].pc = "update"
    /\ row' = IF row.license = "null"
              THEN [row EXCEPT !.license = job[Backfill].license] ELSE row
    /\ Goes(Backfill, NoJob)
    /\ UNCHANGED gh

(***************************************************************************)
(* The rest.                                                               *)
(***************************************************************************)

\* A call or statement failed that ends the work on the repository (details, upsert,
\* the id's lookup, health, a board's store, the backfill's fetch or update), the
\* license is confirmed absent, the request is refused or dropped, the process killed.
GivesUp(p) ==
    /\ job[p].pc # "idle"
    /\ Goes(p, NoJob)
    /\ UNCHANGED <<gh, row>>

ChangeUpstream ==
    /\ gh < MaxVersion
    /\ gh' = gh + 1
    /\ UNCHANGED <<row, job>>

CrawlStep ==
    \/ \E kind \in {"top", "trending"} : FetchBoard(kind)
    \/ StoreBoard

EnrichStep ==
    \/ FetchNeededLanguages
    \/ NeededTopicsOk
    \/ NeededTopicsFail
    \/ FetchNeededLicense
    \/ ApplyEnrichment
    \/ NothingApplied

DetailsStep(p) ==
    \/ FetchDetails(p)
    \/ FetchLanguages(p)
    \/ FetchRelease(p)
    \/ UpsertDetails(p)
    \/ WriteHealth(p)

BackfillStep ==
    \/ ListMissingLicense
    \/ FetchMissingLicense
    \/ UpdateMissingLicense

Next ==
    \/ CrawlStep
    \/ ListNeeds
    \/ EnrichStep
    \/ StartScan
    \/ \E p \in Track : StartTrack(p)
    \/ \E p \in Track \cup {Collector} : DetailsStep(p)
    \/ BackfillStep
    \/ \E p \in Proc : GivesUp(p)
    \/ ChangeUpstream

Spec == Init /\ [][Next]_vars

\* Passes come back every day and list the row while it stays on a board (SF on
\* ListNeeds); a pass that runs goes on and is not for ever killed while it fetches for
\* the row; the details call and the upsert succeed some time when tried again and again.  Nothing is
\* assumed of the languages, license and release calls.
Fairness ==
    /\ WF_vars(StoreBoard \/ EnrichStep \/ DetailsStep(Collector))
    /\ SF_vars(ListNeeds)
    /\ SF_vars(NeededTopicsOk)
    /\ SF_vars(ApplyEnrichment)
    /\ <>[][~(GivesUp(Collector) /\ job[Collector].pc = "fetch")]_vars

FairSpec == Spec /\ Fairness

\* And the calls and statements of the collector's health, tried again and again,
\* succeed some time.
HealthFairSpec ==
    /\ FairSpec
    /\ SF_vars(FetchDetails(Collector))
    /\ SF_vars(FetchRelease(Collector))
    /\ SF_vars(WriteHealth(Collector))

(***************************************************************************)
(* Properties.                                                             *)
(***************************************************************************)

\* Enrichment is never wiped (store.rs, "Empty topics / languages / language_names do
\* NOT wipe existing enrichment"), and neither is a license or the row, whoever writes
\* and however old or partial the answer is that it writes from.
NothingWiped ==
    [][/\ Exists => Exists'
       /\ row.license # "null" => row'.license # "null"
       /\ \A f \in {"topics", "languages", "names"} : row[f] # 0 => row'[f] # 0]_vars

\* languages and language_names, kept or overwritten by two conditions of the upsert,
\* always come from one answer: the filter never finds what the row does not show.
LanguagesTogether == row.languages = row.names

\* latest_release_at only advances: no failed fetch ("caller must not overwrite stored
\* latest_release_at"), no track request and no writer that comes late sets it back;
\* it becomes NULL only when GitHub has had a version without a release.
ReleaseOnlyAdvances ==
    [][\/ row'.release >= row.release
       \/ row'.release = 0 /\ \E v \in 1 .. gh : v \notin HasRelease]_vars

\* Older metadata replaces newer only when another process wrote the row between this
\* one's read and its write; without overlap description, language and health never go back.
StaleOnlyByOverlap ==
    [][row'.about < row.about \/ row'.pushed < row.pushed
         => \E p \in Proc : job[p].overtaken /\ job'[p] # job[p]]_vars

\* The backfill touches nothing but a license that is missing when it writes, even if
\* one was stored since it listed the row ("Only touch license").
BackfillOnlyFills ==
    [][BackfillStep => row' = row
                       \/ /\ row.license = "null"
                          /\ row' = [row EXCEPT !.license = row'.license]]_vars

\* One endpoint that always fails blocks only its own column: a row GitHub has topics
\* for gets its topics though languages, license and release are never answered.
TopicsFilled == Exists /\ gh \in HasTopics ~> row.topics # 0 \/ gh \notin HasTopics

\* The health design's failure table: "enrich 限流 | warn + 跳过；下次补齐", what
\* enrichment skipped is made up for next time; here, of a repository nobody tracks.
\* The code does not do so: the list has no need for health, so a row that lacks
\* nothing else is never listed again.
HealthCaughtUp ==
    [](\A p \in Proc : job[p].kind \notin {"scan", "track"})
        => (Exists ~> row.pushed # 0)
=============================================================================
