---------------------------- MODULE RepoRowProofs ----------------------------
(***************************************************************************)
(* RepoRow for any number of track requests, any bound on the changes at   *)
(* GitHub and any contents of the versions.                                *)
(***************************************************************************)
EXTENDS RepoRow, TLAPS

(***************************************************************************)
(* Types.                                                                  *)
(***************************************************************************)

\* What GitHub's answers contain fits the columns.
LEMMA AnswersTyped ==
    ASSUME NEW v \in Stamp
    PROVE  /\ Topics(v) \in Stamp
           /\ Languages(v) \in Stamp
           /\ Release(v) \in Stamp
           /\ v \in Version => Resolved(v) \in License /\ Metadata[v] \in License
BY RepoRowAssumption
   DEF Topics, Languages, Release, Resolved, Stamp, Version, License

\* The statements keep the row's type.
LEMMA UpsertTyped ==
    ASSUME row \in Row,
           NEW about \in Stamp, NEW license \in License, NEW topics \in Stamp,
           NEW languages \in Stamp, NEW names \in Stamp,
           UpsertRow(about, license, topics, languages, names)
    PROVE  row' \in Row
BY DEF UpsertRow, Row

LEMMA HealthTyped ==
    ASSUME row \in Row,
           NEW details \in Stamp, NEW release \in Stamp \cup {Failed},
           UpdateHealth(details, release)
    PROVE  row' \in Row
BY DEF UpdateHealth, Row, Stamp, Failed

\* What the locals hold where they are needed: a board's job and those of scan and
\* track have their answer before they write from it, health has details, and only
\* the collector ever holds a release.
Sound(p, j) ==
    /\ j \in Job
    /\ j.pc \in {"store", "fetch", "languages", "upsert"} => j.about # 0
    /\ j.pc = "release" /\ j.kind = "scan" => j.about # 0
    /\ j.pc = "fetch" => j.kind = "enrich"
    /\ j.pc \in {"store", "languages", "release", "upsert", "health"} => j.details # 0
    /\ p # Collector => /\ j.pc # "release"
                        /\ j.kind \notin {"scan", "enrich"}
                        /\ j.release = Failed

AllSound == job \in [Proc -> Job] /\ \A p \in Proc : Sound(p, job[p])

IInv == TypeOK /\ AllSound

\* The two ways of going on keep everybody's locals sound.
LEMMA StepSound ==
    ASSUME AllSound, NEW p \in Proc, NEW j, Sound(p, j), Goes(p, j) \/ Wrote(p, j)
    PROVE  AllSound'
<1> DEFINE over(q) == [job[q] EXCEPT !.overtaken =
                          @ \/ job[q].about # 0 \/ job[q].details # 0]
<1>1. ASSUME NEW q \in Proc PROVE Sound(q, over(q)) /\ over(q) \in Job
  <2>1. Sound(q, job[q]) /\ job[q] \in Job
    BY DEF AllSound, Sound
  <2>2. over(q) \in Job
    BY <2>1 DEF Job
  <2>3. \A f \in {"pc", "kind", "about", "details", "release"} : over(q)[f] = job[q][f]
    BY <2>1 DEF Job
  <2> HIDE DEF over
  <2>4. /\ over(q).pc = job[q].pc /\ over(q).kind = job[q].kind
        /\ over(q).about = job[q].about /\ over(q).details = job[q].details
        /\ over(q).release = job[q].release
    BY <2>3
  <2> QED BY <2>1, <2>2, <2>4 DEF Sound
<1>2. CASE Goes(p, j)
  BY <1>2 DEF Goes, AllSound, Sound
<1>3. CASE Wrote(p, j)
  <2> HIDE DEF over
  <2>1. job' = [q \in Proc |-> IF q = p THEN j ELSE over(q)]
    BY <1>3 DEF Wrote, over
  <2> QED BY <2>1, <1>1 DEF AllSound, Sound
<1> QED BY <1>2, <1>3

LEMMA NoJobSound == ASSUME NEW p \in Proc PROVE Sound(p, NoJob)
BY RepoRowAssumption DEF NoJob, Sound, Job, Stamp, Failed, License, Field

LEMMA SoundInit == Init => IInv
BY RepoRowAssumption, NoJobSound
   DEF Init, IInv, TypeOK, AllSound, Sound, Row, NoRow, Stamp, Version, License

\* An answer of now.
LEMMA Now == TypeOK => gh \in Version /\ gh \in Stamp /\ gh # 0
BY RepoRowAssumption DEF TypeOK, Version, Stamp

LEMMA CrawlSound == IInv /\ CrawlStep => IInv'
<1> SUFFICES ASSUME IInv, CrawlStep PROVE IInv'
  OBVIOUS
<1> DEFINE c == job[Collector]
<1>t. Sound(Collector, c) /\ Collector \in Proc /\ row \in Row /\ gh \in Version
  BY DEF IInv, AllSound, TypeOK, Proc
<1>1. ASSUME NEW kind \in {"top", "trending"}, FetchBoard(kind) PROVE IInv'
  <2>1. Sound(Collector, [NoJob EXCEPT !.kind = kind, !.pc = "store",
                                       !.about = gh, !.details = gh])
    BY NoJobSound, Now, <1>t DEF IInv, Sound, Job
  <2> QED BY <1>1, <1>t, <2>1, StepSound DEF FetchBoard, IInv, TypeOK, AllSound
<1>2. CASE StoreBoard
  <2>1. /\ c.about \in Stamp /\ c.details \in Version
        /\ Topics(c.details) \in Stamp /\ Metadata[c.details] \in License
        /\ 0 \in Stamp /\ "null" \in License
    <3>1. c.about \in Stamp /\ c.details \in Stamp /\ c.details # 0
      BY <1>2, <1>t DEF StoreBoard, Sound, Job
    <3>2. c.details \in Version
      BY <3>1 DEF Version, Stamp
    <3> QED BY <3>1, <3>2, AnswersTyped, RepoRowAssumption DEF Stamp, License
  <2>2. row' \in Row
    BY <1>2, <1>t, <2>1, UpsertTyped DEF StoreBoard
  <2> QED BY <1>2, <1>t, <2>2, StepSound, NoJobSound
           DEF StoreBoard, IInv, TypeOK, AllSound
<1> QED BY <1>1, <1>2 DEF CrawlStep

\* A step of p that leaves the row alone.
LEMMA LocalSound ==
    ASSUME IInv, NEW p \in Proc, NEW j, Sound(p, j), Goes(p, j), UNCHANGED <<gh, row>>
    PROVE  IInv'
<1>1. AllSound'
  BY StepSound DEF IInv
<1> QED BY <1>1 DEF IInv, TypeOK, AllSound

LEMMA OnwardsTyped ==
    ASSUME NEW j \in Job, NEW pc \in {"details", "release", "health"}
    PROVE  /\ Onwards(j, pc) \in Job
           /\ Onwards(j, pc).pc = pc
           /\ Onwards(j, pc).kind = j.kind
           /\ Onwards(j, pc).about = 0
           /\ Onwards(j, pc).details = j.details
           /\ Onwards(j, pc).release = j.release
<1>1. NoJob \in Job /\ NoJob.about = 0
  BY RepoRowAssumption DEF NoJob, Job, Stamp, Failed, License, Field
<1> QED BY <1>1 DEF Onwards, Job

LEMMA ToHealthSound ==
    ASSUME NEW j, Sound(Collector, j), j.kind = "enrich"
    PROVE  Sound(Collector, ToHealth(j))
<1>1. j \in Job
  BY DEF Sound
<1>2. CASE j.details = 0
  <2>1. ToHealth(j) = Onwards(j, "details")
    BY <1>2 DEF ToHealth
  <2> QED BY <2>1, <1>1, OnwardsTyped DEF Sound
<1>3. CASE j.details # 0
  <2>1. ToHealth(j) = Onwards(j, "release")
    BY <1>3 DEF ToHealth
  <2> QED BY <2>1, <1>1, <1>3, OnwardsTyped DEF Sound
<1> QED BY <1>2, <1>3

LEMMA EnrichSound == IInv /\ (ListNeeds \/ EnrichStep) => IInv'
<1> SUFFICES ASSUME IInv, ListNeeds \/ EnrichStep PROVE IInv'
  OBVIOUS
<1> DEFINE c == job[Collector]
<1>c. Collector \in Proc
  BY DEF Proc
<1>t. /\ Sound(Collector, c) /\ c \in Job /\ row \in Row /\ gh \in Version /\ gh \in Stamp
      /\ gh # 0
  BY <1>c, Now DEF IInv, AllSound, TypeOK, Sound
<1>n. Sound(Collector, NoJob) /\ NoJob \in Job
  BY <1>c, NoJobSound DEF Sound
<1>a. /\ Languages(gh) \in Stamp /\ Resolved(gh) \in License
      /\ Topics(c.details) \in Stamp
  BY <1>t, AnswersTyped DEF Job
<1>1. CASE ListNeeds
  <2>1. Needs \in SUBSET Field /\ row.about \in Stamp /\ row.about # 0
    BY <1>1, <1>t DEF ListNeeds, Needs, Exists, Row
  <2>2. Sound(Collector, [NoJob EXCEPT !.kind = "enrich", !.pc = "fetch",
                                       !.about = row.about, !.needs = Needs])
    BY <2>1, <1>n DEF Sound, Job
  <2> QED BY <1>1, <1>c, <2>2, LocalSound DEF ListNeeds
<1>2. CASE FetchNeededLanguages
  <2> DEFINE j == [c EXCEPT !.needs = @ \ {"languages"}]
  <2>1. Sound(Collector, j) /\ j \in Job
    BY <1>t DEF Sound, Job
  <2>2. Sound(Collector, [j EXCEPT !.langs = Languages(gh), !.anyOk = TRUE])
    BY <2>1, <1>a DEF Sound, Job
  <2> QED BY <1>2, <1>c, <2>1, <2>2, LocalSound DEF FetchNeededLanguages
<1>3. CASE NeededTopicsOk
  <2>1. Sound(Collector, [c EXCEPT !.needs = @ \ {"topics"}, !.details = gh, !.anyOk = TRUE])
    BY <1>t DEF Sound, Job
  <2> QED BY <1>3, <1>c, <2>1, LocalSound DEF NeededTopicsOk
<1>4. CASE NeededTopicsFail
  <2>1. Sound(Collector, [c EXCEPT !.needs = @ \ {"topics"}])
    BY <1>t DEF Sound, Job
  <2> QED BY <1>4, <1>c, <2>1, LocalSound DEF NeededTopicsFail
<1>5. CASE FetchNeededLicense
  <2> DEFINE j == [c EXCEPT !.needs = {}]
  <2>1. Sound(Collector, j) /\ j \in Job
    BY <1>t DEF Sound, Job
  <2>2. Sound(Collector, [j EXCEPT !.license = Resolved(gh), !.anyOk = TRUE])
    BY <2>1, <1>a DEF Sound, Job
  <2> QED BY <1>5, <1>c, <2>1, <2>2, LocalSound DEF FetchNeededLicense
<1>6. CASE ApplyEnrichment
  <2>1. c.about \in Stamp /\ c.license \in License /\ c.langs \in Stamp
    BY <1>t DEF Job
  <2>2. row' \in Row
    BY <1>6, <1>t, <1>a, <2>1, UpsertTyped DEF ApplyEnrichment
  <2>3. Sound(Collector, ToHealth(c))
    BY <1>6, <1>t, ToHealthSound DEF ApplyEnrichment, Sound
  <2>4. AllSound'
    BY <1>6, <1>c, <2>3, StepSound DEF ApplyEnrichment, IInv
  <2> QED BY <1>6, <2>2, <2>4 DEF ApplyEnrichment, IInv, TypeOK, AllSound
<1>7. CASE NothingApplied
  <2>1. Sound(Collector, ToHealth(c))
    BY <1>7, <1>t, ToHealthSound DEF NothingApplied, Sound
  <2> QED BY <1>7, <1>c, <2>1, LocalSound DEF NothingApplied
<1> QED BY <1>1, <1>2, <1>3, <1>4, <1>5, <1>6, <1>7 DEF EnrichStep

LEMMA DetailsSound ==
    ASSUME IInv, NEW p \in Track \cup {Collector}, DetailsStep(p)
    PROVE  IInv'
<1> DEFINE j == job[p]
<1>c. p \in Proc
  BY DEF Proc
<1>t. /\ Sound(p, j) /\ j \in Job /\ row \in Row /\ gh \in Version /\ gh \in Stamp
      /\ gh # 0
  BY <1>c, Now DEF IInv, AllSound, TypeOK, Sound
<1>a. Languages(gh) \in Stamp /\ Release(gh) \in Stamp /\ Topics(j.details) \in Stamp
  BY <1>t, AnswersTyped DEF Job
<1>1. CASE FetchDetails(p)
  <2>1. j.kind = "enrich" => Sound(p, [j EXCEPT !.details = gh, !.pc = "release"])
    BY <1>t DEF Sound, Job
  <2>2. Sound(p, [j EXCEPT !.details = gh, !.about = gh, !.pc = "languages"])
    BY <1>t DEF Sound, Job
  <2> QED BY <1>1, <1>c, <2>1, <2>2, LocalSound DEF FetchDetails
<1>2. CASE FetchLanguages(p)
  <2> DEFINE k == [j EXCEPT !.pc = IF j.kind = "scan" THEN "release" ELSE "upsert"]
  <2>1. Sound(p, k) /\ k \in Job
    BY <1>2, <1>t DEF FetchLanguages, Sound, Job
  <2> HIDE DEF k
  <2>2. Sound(p, [k EXCEPT !.langs = Languages(gh)])
    BY <2>1, <1>a DEF Sound, Job
  <2> QED BY <1>2, <1>c, <2>1, <2>2, LocalSound DEF FetchLanguages, k
<1>3. CASE FetchRelease(p)
  <2> DEFINE k == [j EXCEPT !.pc = IF j.kind = "scan" THEN "upsert" ELSE "health"]
  <2>1. Sound(p, k) /\ k \in Job /\ p = Collector
    BY <1>3, <1>t DEF FetchRelease, Sound, Job
  <2> HIDE DEF k
  <2>2. Sound(p, [k EXCEPT !.release = Release(gh)]) /\ Sound(p, [k EXCEPT !.release = Failed])
    BY <2>1, <1>a DEF Sound, Job
  <2> QED BY <1>3, <1>c, <2>2, LocalSound DEF FetchRelease, k
<1>4. CASE UpsertDetails(p)
  <2>1. /\ j.about \in Stamp /\ j.langs \in Stamp /\ j.details \in Version
    BY <1>4, <1>t DEF UpsertDetails, Sound, Job, Stamp, Version
  <2>2. row' \in Row
    BY <1>4, <1>t, <1>a, <2>1, UpsertTyped, RepoRowAssumption DEF UpsertDetails
  <2>3. j.details # 0
    BY <1>4, <1>t DEF UpsertDetails, Sound
  <2>4. Sound(p, Onwards(j, "health"))
    BY <1>t, <2>3, OnwardsTyped DEF Sound
  <2>5. AllSound'
    BY <1>4, <1>c, <2>4, StepSound DEF UpsertDetails, IInv
  <2> QED BY <1>4, <2>2, <2>5 DEF UpsertDetails, IInv, TypeOK, AllSound
<1>5. CASE WriteHealth(p)
  <2>1. row' \in Row
    BY <1>5, <1>t, HealthTyped DEF WriteHealth, Job
  <2>2. AllSound'
    BY <1>5, <1>c, NoJobSound, StepSound DEF WriteHealth, IInv
  <2> QED BY <1>5, <2>1, <2>2 DEF WriteHealth, IInv, TypeOK, AllSound
<1> QED BY <1>1, <1>2, <1>3, <1>4, <1>5 DEF DetailsStep

LEMMA BackfillSound == IInv /\ BackfillStep => IInv'
<1> SUFFICES ASSUME IInv, BackfillStep PROVE IInv'
  OBVIOUS
<1> DEFINE b == job[Backfill]
<1>c. Backfill \in Proc /\ Backfill # Collector
  BY RepoRowAssumption DEF Proc
<1>t. Sound(Backfill, b) /\ b \in Job /\ row \in Row /\ gh \in Version
  BY <1>c DEF IInv, AllSound, TypeOK, Sound
<1>n. Sound(Backfill, NoJob) /\ NoJob \in Job
  BY <1>c, NoJobSound DEF Sound
<1>1. CASE ListMissingLicense
  <2>1. Sound(Backfill, [NoJob EXCEPT !.kind = "backfill", !.pc = "license"])
    BY <1>n DEF Sound, Job
  <2> QED BY <1>1, <1>c, <2>1, LocalSound DEF ListMissingLicense
<1>2. CASE FetchMissingLicense
  <2>1. Resolved(gh) \in License
    BY <1>t, Now, AnswersTyped DEF IInv
  <2>2. Sound(Backfill, [b EXCEPT !.license = Resolved(gh), !.pc = "update"])
    BY <1>t, <2>1 DEF Sound, Job
  <2> QED BY <1>2, <1>c, <2>2, LocalSound DEF FetchMissingLicense
<1>3. CASE UpdateMissingLicense
  <2>1. row' \in Row
    BY <1>3, <1>t DEF UpdateMissingLicense, Row, Job
  <2>2. AllSound'
    BY <1>3, <1>c, <1>n, StepSound DEF UpdateMissingLicense, IInv
  <2> QED BY <1>3, <2>1, <2>2 DEF UpdateMissingLicense, IInv, TypeOK, AllSound
<1> QED BY <1>1, <1>2, <1>3 DEF BackfillStep

LEMMA SoundNext == IInv /\ [Next]_vars => IInv'
<1> SUFFICES ASSUME IInv, [Next]_vars PROVE IInv'
  OBVIOUS
<1>1. CASE StartScan
  <2>1. Collector \in Proc
    BY DEF Proc
  <2>2. Sound(Collector, [NoJob EXCEPT !.kind = "scan", !.pc = "details"])
    BY <2>1, NoJobSound DEF Sound, Job
  <2> QED BY <1>1, <2>1, <2>2, LocalSound DEF StartScan
<1>2. ASSUME NEW p \in Track, StartTrack(p) PROVE IInv'
  <2>1. p \in Proc
    BY DEF Proc
  <2>2. Sound(p, [NoJob EXCEPT !.kind = "track", !.pc = "details"])
    BY <2>1, NoJobSound DEF Sound, Job
  <2> QED BY <1>2, <2>1, <2>2, LocalSound DEF StartTrack
<1>3. ASSUME NEW p \in Proc, GivesUp(p) PROVE IInv'
  BY <1>3, NoJobSound, LocalSound DEF GivesUp
<1>4. CASE ChangeUpstream
  BY <1>4, RepoRowAssumption DEF ChangeUpstream, IInv, TypeOK, AllSound, Sound, Version
<1>5. CASE UNCHANGED vars
  BY <1>5 DEF vars, IInv, TypeOK, AllSound, Sound
<1> QED
  BY <1>1, <1>2, <1>3, <1>4, <1>5, CrawlSound, EnrichSound, DetailsSound, BackfillSound
  DEF Next

LEMMA AlwaysSound == Spec => []IInv
<1> QED BY SoundInit, SoundNext, PTL DEF Spec

\* The row, GitHub's version and every process's locals keep their types.
THEOREM TypeCorrect == Spec => []TypeOK
<1>1. IInv => TypeOK
  BY DEF IInv
<1> QED BY <1>1, AlwaysSound, PTL

(***************************************************************************)
(* Who writes the row.                                                     *)
(***************************************************************************)

\* p writes the columns from what it holds, a license and topics it may have; the
\* languages and their names come from one place.
Upserts(p, license, topics, languages) ==
    /\ job[p].pc \in {"store", "fetch", "upsert"}
    /\ job[p].about # 0
    /\ UpsertRow(job[p].about, license, topics, languages, languages)
    /\ job'[p] # job[p]

\* p writes health from the details it holds.
Updates(p) ==
    /\ job[p].details # 0
    /\ UpdateHealth(job[p].details, job[p].release)
    /\ job'[p] = NoJob /\ job'[p] # job[p]

\* The backfill fills in a license.
FillsIn == row.license = "null" /\ row' = [row EXCEPT !.license = row'.license]

LEMMA WhoWrites ==
    ASSUME IInv, [Next]_vars
    PROVE  \/ row' = row
           \/ \E p \in Proc : \E license, topics, languages :
                 Upserts(p, license, topics, languages)
           \/ \E p \in Proc : Updates(p)
           \/ FillsIn
<1>c. /\ Collector \in Proc /\ Track \subseteq Proc /\ row \in Row
      /\ job \in [Proc -> Job]
      /\ \A p \in Proc : Sound(p, job[p])
  BY DEF Proc, IInv, AllSound, TypeOK
<1>g. \A p \in Proc : \A j : Goes(p, j) \/ Wrote(p, j) => job'[p] = j
  BY <1>c DEF Goes, Wrote
<1>n. NoJob.pc = "idle"
  BY DEF NoJob
<1>1. CASE StoreBoard
  <2>1. job'[Collector] # job[Collector]
    BY <1>1, <1>c, <1>g, <1>n DEF StoreBoard
  <2>2. job[Collector].about # 0
    BY <1>1, <1>c DEF StoreBoard, Sound
  <2> QED BY <1>1, <1>c, <2>1, <2>2 DEF StoreBoard, Upserts
<1>2. CASE ApplyEnrichment
  <2>1. job[Collector].about # 0 /\ job[Collector] \in Job
    BY <1>2, <1>c DEF ApplyEnrichment, Sound
  <2>2. ToHealth(job[Collector]).pc # "fetch"
    BY <2>1, OnwardsTyped DEF ToHealth
  <2>3. job'[Collector] # job[Collector]
    BY <1>2, <1>c, <1>g, <2>2 DEF ApplyEnrichment
  <2> QED BY <1>2, <1>c, <2>1, <2>3 DEF ApplyEnrichment, Upserts
<1>3. ASSUME NEW p \in Track \cup {Collector}, UpsertDetails(p)
      PROVE  \E license, topics, languages : Upserts(p, license, topics, languages)
  <2>1. job[p].about # 0 /\ job[p] \in Job
    BY <1>3, <1>c DEF UpsertDetails, Sound
  <2>2. Onwards(job[p], "health").pc = "health"
    BY <2>1, OnwardsTyped
  <2>3. job'[p] # job[p]
    BY <1>3, <1>c, <1>g, <2>2 DEF UpsertDetails
  <2> QED BY <1>3, <2>1, <2>3 DEF UpsertDetails, Upserts
<1>4. ASSUME NEW p \in Track \cup {Collector}, WriteHealth(p) PROVE Updates(p)
  <2>1. job'[p] = NoJob /\ job'[p] # job[p]
    BY <1>4, <1>c, <1>g, <1>n DEF WriteHealth
  <2> QED BY <1>4, <1>c, <2>1 DEF WriteHealth, Updates, Sound
<1>5. CASE BackfillStep
  <2>1. row \in Row
    BY <1>c
  <2> QED BY <1>5, <2>1 DEF BackfillStep, ListMissingLicense, FetchMissingLicense,
                            UpdateMissingLicense, FillsIn, Row
<1>6. ASSUME NEW p \in Track \cup {Collector},
             FetchDetails(p) \/ FetchLanguages(p) \/ FetchRelease(p)
      PROVE  row' = row
  BY <1>6 DEF FetchDetails, FetchLanguages, FetchRelease
<1>7. CASE \/ \E kind \in {"top", "trending"} : FetchBoard(kind)
           \/ ListNeeds \/ FetchNeededLanguages \/ NeededTopicsOk \/ NeededTopicsFail
           \/ FetchNeededLicense \/ NothingApplied \/ StartScan
           \/ \E p \in Track : StartTrack(p)
           \/ \E p \in Proc : GivesUp(p)
           \/ ChangeUpstream \/ UNCHANGED vars
  BY <1>7 DEF FetchBoard, ListNeeds, FetchNeededLanguages, NeededTopicsOk,
              NeededTopicsFail, FetchNeededLicense, NothingApplied, StartScan, StartTrack,
              GivesUp, ChangeUpstream, vars
<1> QED
  BY <1>1, <1>2, <1>3, <1>4, <1>5, <1>6, <1>7, <1>c
  DEF Next, CrawlStep, EnrichStep, DetailsStep

\* What the two statements do to the columns.
LEMMA UpsertColumns ==
    ASSUME row \in Row, NEW p, NEW license, NEW topics, NEW languages,
           Upserts(p, license, topics, languages)
    PROVE  /\ row'.about = job[p].about /\ row'.about # 0
           /\ row.license # "null" => row'.license # "null"
           /\ row.topics # 0 => row'.topics # 0
           /\ row'.languages = IF languages # 0 THEN languages ELSE row.languages
           /\ row'.names = IF languages # 0 THEN languages ELSE row.names
           /\ row'.pushed = row.pushed
           /\ row'.release = row.release
BY DEF Upserts, UpsertRow, Row

LEMMA HealthColumns ==
    ASSUME row \in Row, NEW p, Updates(p)
    PROVE  /\ \A f \in {"about", "license", "topics", "languages", "names"} : row'[f] = row[f]
           /\ row'.about = row.about
           /\ row'.pushed = job[p].details
           /\ row'.release = IF job[p].release = Failed THEN row.release ELSE job[p].release
BY DEF Updates, UpdateHealth, Row

LEMMA LicenseColumn ==
    ASSUME row \in Row, FillsIn
    PROVE  \A f \in {"about", "topics", "languages", "names", "pushed", "release"} :
               row'[f] = row[f]
BY DEF FillsIn, Row

(***************************************************************************)
(* The properties.                                                         *)
(***************************************************************************)

\* languages and language_names come from one answer, whoever writes.
THEOREM LanguagesAgree == Spec => []LanguagesTogether
<1>1. Init => LanguagesTogether
  BY DEF Init, NoRow, LanguagesTogether
<1>2. IInv /\ LanguagesTogether /\ [Next]_vars => LanguagesTogether'
  <2> SUFFICES ASSUME IInv, LanguagesTogether, [Next]_vars PROVE LanguagesTogether'
    OBVIOUS
  <2>r. row \in Row
    BY DEF IInv, TypeOK
  <2>1. ASSUME NEW p \in Proc, NEW license, NEW topics, NEW languages,
               Upserts(p, license, topics, languages)
        PROVE  LanguagesTogether'
    BY <2>1, <2>r, UpsertColumns DEF LanguagesTogether
  <2>2. ASSUME NEW p \in Proc, Updates(p) PROVE LanguagesTogether'
    BY <2>2, <2>r, HealthColumns DEF LanguagesTogether
  <2>3. CASE FillsIn
    BY <2>3, <2>r, LicenseColumn DEF LanguagesTogether
  <2>4. CASE row' = row
    BY <2>4 DEF LanguagesTogether
  <2> QED BY <2>1, <2>2, <2>3, <2>4, WhoWrites
<1> QED BY <1>1, <1>2, AlwaysSound, PTL DEF Spec

\* Nothing that is known of a repository is ever wiped, whoever writes and from
\* whatever answers.
THEOREM NothingIsWiped == Spec => NothingWiped
<1> DEFINE Kept == /\ Exists => Exists'
                   /\ row.license # "null" => row'.license # "null"
                   /\ \A f \in {"topics", "languages", "names"} : row[f] # 0 => row'[f] # 0
<1>1. IInv /\ [Next]_vars => Kept
  <2> SUFFICES ASSUME IInv, [Next]_vars PROVE Kept
    OBVIOUS
  <2>r. row \in Row
    BY DEF IInv, TypeOK
  <2>1. ASSUME NEW p \in Proc, NEW license, NEW topics, NEW languages,
               Upserts(p, license, topics, languages)
        PROVE  Kept
    BY <2>1, <2>r, UpsertColumns DEF Exists
  <2>2. ASSUME NEW p \in Proc, Updates(p) PROVE Kept
    BY <2>2, <2>r, HealthColumns DEF Exists
  <2>3. CASE FillsIn
    BY <2>3, <2>r, LicenseColumn DEF Exists, FillsIn
  <2>4. CASE row' = row
    BY <2>4 DEF Exists
  <2> QED BY <2>1, <2>2, <2>3, <2>4, WhoWrites
<1>2. Spec => [][Kept]_vars
  BY <1>1, AlwaysSound, PTL DEF Spec
<1> QED BY <1>2 DEF NothingWiped

(***************************************************************************)
(* The release.                                                            *)
(***************************************************************************)

\* A release one may store over the row's: no older, or none if GitHub has had none.
MayStore(r) ==
    \/ r = Failed
    \/ /\ r \in 0 .. gh
       /\ \/ r >= row.release
          \/ r = 0 /\ \E v \in 1 .. gh : v \notin HasRelease

ReleaseInv == row.release <= gh /\ MayStore(job[Collector].release)

\* The collector keeps, drops or fetches its release; only a fetch makes a new one.
LEMMA ReleaseStep ==
    ASSUME IInv, [Next]_vars
    PROVE  \/ job'[Collector].release \in {Failed, job[Collector].release}
           \/ UNCHANGED <<row, gh>> /\ job'[Collector].release = Release(gh)
<1> DEFINE c == job[Collector]
<1>c. /\ Collector \in Proc /\ job \in [Proc -> Job] /\ c \in Job /\ NoJob \in Job
      /\ NoJob.release = Failed
  BY NoJobSound DEF Proc, IInv, AllSound, Sound, NoJob
<1>o. \A j : Wrote(Collector, j) \/ Goes(Collector, j) => job'[Collector] = j
  BY <1>c DEF Wrote, Goes
<1>1. ASSUME NEW p \in Proc, p # Collector, NEW j, Wrote(p, j) \/ Goes(p, j)
      PROVE  job'[Collector].release = c.release
  <2>1. CASE Goes(p, j)
    BY <2>1, <1>1, <1>c DEF Goes
  <2>2. CASE Wrote(p, j)
    <3>1. job'[Collector] = [c EXCEPT !.overtaken = @ \/ c.about # 0 \/ c.details # 0]
      BY <2>2, <1>1, <1>c DEF Wrote
    <3> QED BY <3>1, <1>c DEF Job
  <2> QED BY <1>1, <2>1, <2>2
<1>2. CASE CrawlStep
  BY <1>2, <1>c, <1>o DEF CrawlStep, FetchBoard, StoreBoard, Job
<1>3. CASE EnrichStep
  <2>1. ToHealth(c).release = c.release
    BY <1>c, OnwardsTyped DEF ToHealth
  <2> QED BY <1>3, <1>c, <1>o, <2>1
          DEF EnrichStep, FetchNeededLanguages, NeededTopicsOk, NeededTopicsFail,
              FetchNeededLicense, ApplyEnrichment, NothingApplied, Job
<1>4. CASE ListNeeds \/ StartScan
  <2>1. CASE ListNeeds
    BY <2>1, <1>c, <1>o DEF ListNeeds, Job
  <2>2. CASE StartScan
    <3> DEFINE j == [NoJob EXCEPT !.kind = "scan", !.pc = "details"]
    <3>1. j.release = Failed
      BY <1>c DEF Job
    <3>2. job'[Collector] = j
      BY <2>2, <1>o DEF StartScan
    <3> QED BY <3>1, <3>2
  <2> QED BY <1>4, <2>1, <2>2
<1>5. CASE DetailsStep(Collector)
  <2>1. Onwards(c, "health").release = c.release
    BY <1>c, OnwardsTyped
  <2>2. CASE FetchDetails(Collector) \/ FetchLanguages(Collector)
    BY <2>2, <1>c, <1>o DEF FetchDetails, FetchLanguages, Job
  <2>3. CASE FetchRelease(Collector)
    BY <2>3, <1>c, <1>o DEF FetchRelease, Job
  <2>4. CASE UpsertDetails(Collector) \/ WriteHealth(Collector)
    BY <2>4, <1>c, <1>o, <2>1 DEF UpsertDetails, WriteHealth
  <2> QED BY <1>5, <2>2, <2>3, <2>4 DEF DetailsStep
<1>6. ASSUME NEW p \in Track, StartTrack(p) \/ DetailsStep(p)
      PROVE  job'[Collector].release = c.release
  <2>1. p \in Proc /\ p # Collector
    BY RepoRowAssumption DEF Proc
  <2> QED BY <1>6, <1>1, <2>1 DEF StartTrack, DetailsStep, FetchDetails, FetchLanguages,
                                  FetchRelease, UpsertDetails, WriteHealth
<1>7. CASE BackfillStep
  <2>1. Backfill \in Proc /\ Backfill # Collector
    BY RepoRowAssumption DEF Proc
  <2> QED BY <1>7, <1>1, <2>1 DEF BackfillStep, ListMissingLicense, FetchMissingLicense,
                                  UpdateMissingLicense
<1>8. ASSUME NEW p \in Proc, GivesUp(p)
      PROVE  job'[Collector].release \in {Failed, c.release}
  <2>1. CASE p = Collector
    BY <1>8, <2>1, <1>c, <1>o DEF GivesUp
  <2>2. CASE p # Collector
    BY <1>8, <2>2, <1>1 DEF GivesUp
  <2> QED BY <2>1, <2>2
<1>9. CASE ChangeUpstream \/ UNCHANGED vars
  BY <1>9 DEF ChangeUpstream, vars
<1> QED BY <1>2, <1>3, <1>4, <1>5, <1>6, <1>7, <1>8, <1>9 DEF Next

LEMMA GithubAdvances ==
    ASSUME IInv, [Next]_vars
    PROVE  gh \in Nat /\ gh' \in Nat /\ gh' >= gh
<1>1. CrawlStep \/ ListNeeds \/ EnrichStep \/ StartScan => gh' = gh
  BY DEF CrawlStep, FetchBoard, StoreBoard, ListNeeds, StartScan, EnrichStep,
         FetchNeededLanguages, NeededTopicsOk, NeededTopicsFail, FetchNeededLicense,
         ApplyEnrichment, NothingApplied
<1>2. ASSUME NEW p, StartTrack(p) \/ DetailsStep(p) \/ GivesUp(p) PROVE gh' = gh
  BY <1>2 DEF StartTrack, DetailsStep, FetchDetails, FetchLanguages, FetchRelease,
              UpsertDetails, WriteHealth, GivesUp
<1>3. BackfillStep \/ UNCHANGED vars => gh' = gh
  BY DEF BackfillStep, ListMissingLicense, FetchMissingLicense, UpdateMissingLicense, vars
<1>4. gh' = gh \/ gh' = gh + 1
  BY <1>1, <1>2, <1>3 DEF Next, ChangeUpstream
<1>5. gh \in Nat
  BY RepoRowAssumption DEF IInv, TypeOK, Version
<1> QED BY <1>4, <1>5

\* What the row's release becomes in a step.
LEMMA ReleaseColumn ==
    ASSUME IInv, ReleaseInv, [Next]_vars
    PROVE  \/ row'.release = row.release
           \/ /\ job[Collector].release # Failed
              /\ row'.release = job[Collector].release
              /\ job'[Collector].release = Failed
<1>r. row \in Row
  BY DEF IInv, TypeOK
<1>1. ASSUME NEW p \in Proc, NEW license, NEW topics, NEW languages,
             Upserts(p, license, topics, languages)
      PROVE  row'.release = row.release
  BY <1>1, <1>r, UpsertColumns
<1>2. ASSUME NEW p \in Proc, Updates(p), row'.release # row.release
      PROVE  /\ job[Collector].release # Failed
             /\ row'.release = job[Collector].release
             /\ job'[Collector].release = Failed
  <2>1. job[p].release # Failed /\ row'.release = job[p].release /\ job'[p] = NoJob
    BY <1>2, <1>r, HealthColumns DEF Updates
  <2>2. p = Collector
    BY <2>1 DEF IInv, AllSound, Sound
  <2> QED BY <2>1, <2>2 DEF NoJob
<1>3. CASE FillsIn
  BY <1>3, <1>r, LicenseColumn
<1> QED BY <1>1, <1>2, <1>3, WhoWrites

LEMMA ReleaseInit == Init => ReleaseInv
BY DEF Init, ReleaseInv, MayStore, NoRow, NoJob, Proc

LEMMA ReleaseNext == IInv /\ ReleaseInv /\ [Next]_vars => ReleaseInv'
<1> SUFFICES ASSUME IInv, ReleaseInv, [Next]_vars PROVE ReleaseInv'
  OBVIOUS
<1> DEFINE r == job[Collector].release
<1>g. gh \in Nat /\ gh' \in Nat /\ gh' >= gh
  BY GithubAdvances
<1>t. row.release \in Nat
  <2>1. row.release \in Stamp
    BY DEF IInv, TypeOK, Row
  <2> QED BY <2>1, RepoRowAssumption DEF Stamp
<1>1. CASE /\ r # Failed
           /\ row'.release = r
           /\ job'[Collector].release = Failed
  BY <1>1, <1>g DEF ReleaseInv, MayStore
<1>2. CASE row'.release = row.release /\ job'[Collector].release \in {Failed, r}
  BY <1>2, <1>g, <1>t DEF ReleaseInv, MayStore
<1>3. CASE UNCHANGED <<row, gh>> /\ job'[Collector].release = Release(gh)
  <2>1. gh \in 1 .. gh
    BY <1>g, RepoRowAssumption DEF IInv, TypeOK, Version
  <2>2. CASE gh \in HasRelease
    <3>1. Release(gh) = gh /\ gh \in 0 .. gh /\ row.release <= gh
      BY <1>g, <2>1, <2>2 DEF Release, ReleaseInv
    <3>2. job'[Collector].release = gh /\ row'.release = row.release /\ gh' = gh
      BY <1>3, <3>1
    <3>3. gh >= row.release
      BY <3>1, <1>t, <1>g
    <3>4. job'[Collector].release \in 0 .. gh' /\ job'[Collector].release >= row'.release
      BY <3>1, <3>2, <3>3
    <3>5. row'.release <= gh'
      BY <3>1, <3>2
    <3> QED BY <3>4, <3>5 DEF ReleaseInv, MayStore
  <2>3. CASE gh \notin HasRelease
    <3>1. \E v \in 1 .. gh : v \notin HasRelease
      BY <2>1, <2>3
    <3> QED BY <1>3, <1>g, <1>t, <2>3, <3>1 DEF ReleaseInv, MayStore, Release
  <2> QED BY <2>2, <2>3
<1> QED BY <1>1, <1>2, <1>3, ReleaseStep, ReleaseColumn

\* latest_release_at never goes back, whichever fetches fail and writers overlap.
THEOREM ReleaseAdvances == Spec => ReleaseOnlyAdvances
<1> DEFINE Advances == \/ row'.release >= row.release
                       \/ row'.release = 0 /\ \E v \in 1 .. gh : v \notin HasRelease
<1>1. IInv /\ ReleaseInv /\ [Next]_vars => Advances
  <2>1. IInv => row.release \in Nat
    BY RepoRowAssumption DEF IInv, TypeOK, Row, Stamp
  <2> QED BY <2>1, ReleaseColumn DEF ReleaseInv, MayStore
<1>2. Spec => [][Advances]_vars
  BY <1>1, AlwaysSound, ReleaseInit, ReleaseNext, PTL DEF Spec
<1> QED BY <1>2 DEF ReleaseOnlyAdvances

(***************************************************************************)
(* Overlap.                                                                *)
(***************************************************************************)

\* What a process holds is from the past, and no older than the row unless the
\* process has been overtaken.
Good(j) ==
    /\ j.about <= gh /\ j.details <= gh
    /\ \/ j.overtaken
       \/ /\ j.about # 0 => j.about >= row.about
          /\ j.details # 0 => j.details >= row.pushed

\* The same of j after a step.
GoodAfter(j) ==
    /\ j.about <= gh' /\ j.details <= gh'
    /\ \/ j.overtaken
       \/ /\ j.about # 0 => j.about >= row'.about
          /\ j.details # 0 => j.details >= row'.pushed

OverlapInv ==
    /\ row.about <= gh /\ row.pushed <= gh
    /\ \A p \in Proc : Good(job[p])

LEMMA NoJobGood == IInv => Good(NoJob)
BY RepoRowAssumption DEF NoJob, Good, IInv, TypeOK, Version

\* A step that writes neither about nor health.
LEMMA LocalGood ==
    ASSUME IInv, OverlapInv, NEW p \in Proc, NEW j, Good(j), Goes(p, j),
           gh' = gh, row'.about = row.about, row'.pushed = row.pushed
    PROVE  OverlapInv'
<1>1. ASSUME NEW q \in Proc PROVE Good(job[q])'
  <2>1. Good(job'[q])
    BY DEF Goes, IInv, TypeOK, OverlapInv
  <2> QED BY <2>1 DEF Good
<1> QED BY <1>1 DEF OverlapInv

\* A write of p that leaves it with j.
LEMMA WriteGood ==
    ASSUME IInv, OverlapInv, NEW p \in Proc, NEW j, Wrote(p, j),
           gh' = gh, row'.about <= gh, row'.pushed <= gh, GoodAfter(j)
    PROVE  OverlapInv'
<1>1. ASSUME NEW q \in Proc, q # p PROVE Good(job[q])'
  <2> DEFINE o == [job[q] EXCEPT !.overtaken = @ \/ job[q].about # 0 \/ job[q].details # 0]
  <2>1. job[q] \in Job /\ job'[q] = o
    BY <1>1 DEF Wrote, IInv, TypeOK
  <2>2. /\ o.about = job[q].about /\ o.details = job[q].details
        /\ o.overtaken = (job[q].overtaken \/ job[q].about # 0 \/ job[q].details # 0)
    BY <2>1 DEF Job
  <2>3. job[q].about <= gh /\ job[q].details <= gh
    BY <1>1 DEF OverlapInv, Good
  <2> HIDE DEF o
  <2> QED BY <2>1, <2>2, <2>3 DEF Good
<1>2. job'[p] = j
  BY DEF Wrote, IInv, TypeOK
<1>3. Good(job[p])'
  BY <1>2 DEF Good, GoodAfter
<1> QED BY <1>1, <1>3 DEF OverlapInv

\* Going on after the columns are written, the row's pushed being what it was.
LEMMA OnwardsGood ==
    ASSUME NEW j \in Job, NEW pc \in {"details", "release", "health"},
           Good(j), gh' = gh, gh \in Nat, row'.pushed = row.pushed
    PROVE  GoodAfter(Onwards(j, pc))
<1> DEFINE k == Onwards(j, pc)
<1>1. k.about = 0 /\ k.details = j.details
  BY OnwardsTyped
<1>2. k.overtaken = (j.overtaken /\ j.details # 0)
  <2>1. NoJob \in Job
    BY RepoRowAssumption DEF NoJob, Job, Stamp, Failed, License, Field
  <2> QED BY <2>1 DEF Onwards, Job
<1> HIDE DEF k
<1>3. k.about <= gh' /\ k.details <= gh'
  BY <1>1 DEF Good
<1>4. k.overtaken \/ (k.details # 0 => k.details >= row'.pushed)
  BY <1>1, <1>2 DEF Good
<1>5. k.about = 0
  BY <1>1
<1> QED BY <1>3, <1>4, <1>5 DEF GoodAfter, k

LEMMA OverlapInit == Init => OverlapInv
BY NoJobGood, SoundInit DEF Init, OverlapInv, NoRow, IInv, TypeOK, Version

\* The same about, details and overtaken: as good as before.
LEMMA SameGood ==
    ASSUME NEW j, NEW k, Good(j),
           k.about = j.about, k.details = j.details, k.overtaken = j.overtaken
    PROVE  Good(k)
BY DEF Good

LEMMA RowGood ==
    IInv => row \in Row /\ gh \in Nat /\ row.about \in Nat /\ row.pushed \in Nat
<1> SUFFICES ASSUME IInv
             PROVE  row \in Row /\ gh \in Nat /\ row.about \in Nat /\ row.pushed \in Nat
  OBVIOUS
<1>1. row \in Row /\ gh \in Version
  BY DEF IInv, TypeOK
<1>2. row.about \in Stamp /\ row.pushed \in Stamp
  BY <1>1 DEF Row
<1> QED BY <1>1, <1>2, RepoRowAssumption DEF Stamp, Version

LEMMA CollectorGood ==
    ASSUME IInv, OverlapInv, CrawlStep \/ ListNeeds \/ EnrichStep \/ StartScan
    PROVE  OverlapInv'
<1> DEFINE c == job[Collector]
<1>t. /\ Collector \in Proc /\ c \in Job /\ Good(c) /\ row \in Row /\ gh \in Nat
      /\ row.about <= gh /\ row.pushed <= gh /\ row.about \in Nat /\ row.pushed \in Nat
      /\ NoJob \in Job /\ Good(NoJob) /\ NoJob.about = 0 /\ NoJob.details = 0
  <2>1. Collector \in Proc
    BY DEF Proc
  <2>2. c \in Job /\ Good(c)
    BY <2>1 DEF IInv, TypeOK, OverlapInv
  <2>3. NoJob \in Job /\ Good(NoJob) /\ NoJob.about = 0 /\ NoJob.details = 0
    <3>1. Sound(Collector, NoJob)
      BY <2>1, NoJobSound
    <3> QED BY <3>1, NoJobGood DEF Sound, NoJob
  <2> QED BY <2>1, <2>2, <2>3, RowGood DEF OverlapInv
<1>1. ASSUME NEW kind \in {"top", "trending"}, FetchBoard(kind) PROVE OverlapInv'
  <2> DEFINE j == [NoJob EXCEPT !.kind = kind, !.pc = "store", !.about = gh, !.details = gh]
  <2>1. j.about = gh /\ j.details = gh
    BY <1>t DEF Job
  <2>2. Good(j)
    BY <2>1, <1>t DEF Good
  <2> QED BY <1>1, <1>t, <2>2, LocalGood DEF FetchBoard
<1>2. CASE ListNeeds
  <2> DEFINE j == [NoJob EXCEPT !.kind = "enrich", !.pc = "fetch",
                                !.about = row.about, !.needs = Needs]
  <2>1. j.about = row.about /\ j.details = 0
    BY <1>t DEF Job
  <2>2. Good(j)
    BY <2>1, <1>t DEF Good
  <2> QED BY <1>2, <1>t, <2>2, LocalGood DEF ListNeeds
<1>3. CASE StartScan
  <2> DEFINE j == [NoJob EXCEPT !.kind = "scan", !.pc = "details"]
  <2>1. Good(j)
    BY <1>t, SameGood DEF Job
  <2> QED BY <1>3, <1>t, <2>1, LocalGood DEF StartScan
<1>4. CASE FetchNeededLanguages
  <2> DEFINE j == [c EXCEPT !.needs = @ \ {"languages"}]
             k == [j EXCEPT !.langs = Languages(gh), !.anyOk = TRUE]
  <2>1. Good(j) /\ Good(k)
    BY <1>t, SameGood DEF Job
  <2> QED BY <1>4, <1>t, <2>1, LocalGood DEF FetchNeededLanguages
<1>5. CASE NeededTopicsOk
  <2> DEFINE j == [c EXCEPT !.needs = @ \ {"topics"}, !.details = gh, !.anyOk = TRUE]
  <2>1. j.about = c.about /\ j.details = gh /\ j.overtaken = c.overtaken
    BY <1>t DEF Job
  <2> HIDE DEF j
  <2>2. Good(j)
    BY <2>1, <1>t DEF Good
  <2> QED BY <1>5, <1>t, <2>2, LocalGood DEF NeededTopicsOk, j
<1>6. CASE NeededTopicsFail
  <2> DEFINE j == [c EXCEPT !.needs = @ \ {"topics"}]
  <2>1. Good(j)
    BY <1>t, SameGood DEF Job
  <2> QED BY <1>6, <1>t, <2>1, LocalGood DEF NeededTopicsFail
<1>7. CASE FetchNeededLicense
  <2> DEFINE j == [c EXCEPT !.needs = {}]
             k == [j EXCEPT !.license = Resolved(gh), !.anyOk = TRUE]
  <2>1. Good(j) /\ Good(k)
    BY <1>t, SameGood DEF Job
  <2> QED BY <1>7, <1>t, <2>1, LocalGood DEF FetchNeededLicense
<1>8. CASE NothingApplied
  <2>1. Good(ToHealth(c))
    <3> DEFINE k == ToHealth(c)
    <3>1. k.about = 0 /\ k.details = c.details
      BY <1>t, OnwardsTyped DEF ToHealth
    <3>2. k.overtaken = (c.overtaken /\ c.details # 0)
      BY <1>t DEF ToHealth, Onwards, Job
    <3> HIDE DEF k
    <3>3. k.about <= gh /\ k.details <= gh
      BY <1>t, <3>1 DEF Good
    <3>4. k.overtaken \/ (k.details # 0 => k.details >= row.pushed)
      BY <1>t, <3>1, <3>2 DEF Good
    <3>5. Good(k)
      BY <3>1, <3>3, <3>4 DEF Good
    <3> QED BY <3>5 DEF k
  <2> QED BY <1>8, <1>t, <2>1, LocalGood DEF NothingApplied
<1>9. CASE StoreBoard
  <2>1. row'.about = c.about /\ row'.pushed = row.pushed /\ gh' = gh
    BY <1>9, <1>t DEF StoreBoard, UpsertRow, Row
  <2>2. row'.about <= gh /\ row'.pushed <= gh
    BY <2>1, <1>t DEF Good
  <2>3. GoodAfter(NoJob)
    BY <1>t, <2>1 DEF GoodAfter
  <2> QED BY <1>9, <1>t, <2>1, <2>2, <2>3, WriteGood DEF StoreBoard
<1>10. CASE ApplyEnrichment
  <2>1. row'.about = c.about /\ row'.pushed = row.pushed /\ gh' = gh
    BY <1>10, <1>t DEF ApplyEnrichment, UpsertRow, Row
  <2>2. row'.about <= gh /\ row'.pushed <= gh
    BY <2>1, <1>t DEF Good
  <2>3. GoodAfter(ToHealth(c))
    BY <2>1, <1>t, OnwardsGood DEF ToHealth
  <2> QED BY <1>10, <1>t, <2>1, <2>2, <2>3, WriteGood DEF ApplyEnrichment
<1> QED
  BY <1>1, <1>2, <1>3, <1>4, <1>5, <1>6, <1>7, <1>8, <1>9, <1>10 DEF CrawlStep, EnrichStep

LEMMA DetailsGood ==
    ASSUME IInv, OverlapInv, NEW p \in Track \cup {Collector}, DetailsStep(p)
    PROVE  OverlapInv'
<1> DEFINE j == job[p]
<1>c. p \in Proc
  BY DEF Proc
<1>j. j \in Job /\ Good(j) /\ Sound(p, j)
  BY <1>c DEF IInv, TypeOK, AllSound, OverlapInv
<1>t. row \in Row /\ gh \in Nat /\ row.about <= gh /\ row.pushed <= gh
      /\ row.about \in Nat /\ row.pushed \in Nat
  BY RowGood DEF OverlapInv
<1>1. CASE FetchDetails(p)
  <2> DEFINE e == [j EXCEPT !.details = gh, !.pc = "release"]
             k == [j EXCEPT !.details = gh, !.about = gh, !.pc = "languages"]
  <2>1. /\ e.about = j.about /\ e.details = gh /\ e.overtaken = j.overtaken
        /\ k.about = gh /\ k.details = gh /\ k.overtaken = j.overtaken
    BY <1>j DEF Job
  <2> HIDE DEF e, k
  <2>2. Good(e) /\ Good(k)
    BY <2>1, <1>j, <1>t DEF Good
  <2>3. Goes(p, e) \/ Goes(p, k)
    BY <1>1 DEF FetchDetails, e, k
  <2> QED BY <1>1, <1>c, <2>2, <2>3, LocalGood DEF FetchDetails
<1>2. CASE FetchLanguages(p)
  <2> DEFINE k == [j EXCEPT !.pc = IF j.kind = "scan" THEN "release" ELSE "upsert"]
             l == [k EXCEPT !.langs = Languages(gh)]
  <2>1. /\ k.about = j.about /\ k.details = j.details /\ k.overtaken = j.overtaken
        /\ l.about = j.about /\ l.details = j.details /\ l.overtaken = j.overtaken
    BY <1>j DEF Job
  <2>2. Goes(p, l) \/ Goes(p, k)
    BY <1>2 DEF FetchLanguages
  <2> HIDE DEF k, l
  <2>3. Good(k) /\ Good(l)
    BY <2>1, <1>j, SameGood
  <2> QED BY <1>2, <1>c, <2>2, <2>3, LocalGood DEF FetchLanguages
<1>3. CASE FetchRelease(p)
  <2> DEFINE k == [j EXCEPT !.pc = IF j.kind = "scan" THEN "upsert" ELSE "health"]
             l == [k EXCEPT !.release = Release(gh)]
             m == [k EXCEPT !.release = Failed]
  <2>1. /\ l.about = j.about /\ l.details = j.details /\ l.overtaken = j.overtaken
        /\ m.about = j.about /\ m.details = j.details /\ m.overtaken = j.overtaken
    BY <1>j DEF Job
  <2>2. Goes(p, l) \/ Goes(p, m)
    BY <1>3 DEF FetchRelease
  <2> HIDE DEF k, l, m
  <2>3. Good(l) /\ Good(m)
    BY <2>1, <1>j, SameGood
  <2> QED BY <1>3, <1>c, <2>2, <2>3, LocalGood DEF FetchRelease
<1>4. CASE UpsertDetails(p)
  <2>1. row'.about = j.about /\ row'.pushed = row.pushed /\ gh' = gh
    BY <1>4, <1>t DEF UpsertDetails, UpsertRow, Row
  <2>2. row'.about <= gh /\ row'.pushed <= gh
    BY <2>1, <1>t, <1>j DEF Good
  <2>3. GoodAfter(Onwards(j, "health"))
    BY <2>1, <1>t, <1>j, OnwardsGood
  <2> QED BY <1>4, <1>c, <2>1, <2>2, <2>3, WriteGood DEF UpsertDetails
<1>5. CASE WriteHealth(p)
  <2>1. row'.about = row.about /\ row'.pushed = j.details /\ gh' = gh
    BY <1>5, <1>t DEF WriteHealth, UpdateHealth, Row
  <2>2. row'.about <= gh /\ row'.pushed <= gh
    BY <2>1, <1>t, <1>j DEF Good
  <2>3. GoodAfter(NoJob)
    BY <2>1, <1>t DEF GoodAfter, NoJob
  <2> QED BY <1>5, <1>c, <2>1, <2>2, <2>3, WriteGood DEF WriteHealth
<1> QED BY <1>1, <1>2, <1>3, <1>4, <1>5 DEF DetailsStep

LEMMA BackfillGood ==
    ASSUME IInv, OverlapInv, BackfillStep
    PROVE  OverlapInv'
<1> DEFINE b == job[Backfill]
<1>c. Backfill \in Proc
  BY DEF Proc
<1>j. b \in Job /\ Good(b) /\ NoJob \in Job /\ Good(NoJob)
  BY <1>c, NoJobSound, NoJobGood DEF IInv, TypeOK, OverlapInv, Sound
<1>t. row \in Row
  BY RowGood
<1>1. CASE ListMissingLicense
  <2> DEFINE k == [NoJob EXCEPT !.kind = "backfill", !.pc = "license"]
  <2>1. Good(k)
    BY <1>j, SameGood DEF Job
  <2> QED BY <1>1, <1>c, <2>1, LocalGood DEF ListMissingLicense
<1>2. CASE FetchMissingLicense
  <2> DEFINE k == [b EXCEPT !.license = Resolved(gh), !.pc = "update"]
  <2>1. Good(k)
    BY <1>j, SameGood DEF Job
  <2> QED BY <1>2, <1>c, <2>1, LocalGood DEF FetchMissingLicense
<1>3. CASE UpdateMissingLicense
  <2>1. row'.about = row.about /\ row'.pushed = row.pushed
    BY <1>3, <1>t DEF UpdateMissingLicense, Row
  <2> QED BY <1>3, <1>c, <1>j, <2>1, LocalGood DEF UpdateMissingLicense
<1> QED BY <1>1, <1>2, <1>3 DEF BackfillStep

LEMMA OverlapNext == IInv /\ OverlapInv /\ [Next]_vars => OverlapInv'
<1> SUFFICES ASSUME IInv, OverlapInv, [Next]_vars PROVE OverlapInv'
  OBVIOUS
<1>1. ASSUME NEW p \in Track, StartTrack(p) PROVE OverlapInv'
  <2> DEFINE k == [NoJob EXCEPT !.kind = "track", !.pc = "details"]
  <2>1. p \in Proc
    BY DEF Proc
  <2>2. Good(NoJob) /\ NoJob \in Job
    BY <2>1, NoJobGood, NoJobSound DEF Sound
  <2>3. Good(k)
    BY <2>2, SameGood DEF Job
  <2> QED BY <1>1, <2>1, <2>3, LocalGood DEF StartTrack
<1>2. ASSUME NEW p \in Proc, GivesUp(p) PROVE OverlapInv'
  BY <1>2, NoJobGood, LocalGood DEF GivesUp
<1>3. CASE ChangeUpstream
  <2>1. gh' = gh + 1 /\ gh \in Nat /\ row.about \in Nat /\ row.pushed \in Nat
    BY <1>3, RowGood DEF ChangeUpstream
  <2>2. row' = row /\ job' = job
    BY <1>3 DEF ChangeUpstream
  <2>3. ASSUME NEW p \in Proc PROVE Good(job[p])'
    <3>1. job[p] \in Job /\ Good(job[p])
      BY DEF IInv, TypeOK, OverlapInv
    <3>2. job[p].about \in Stamp /\ job[p].details \in Stamp
      BY <3>1 DEF Job
    <3>3. job[p].about <= gh' /\ job[p].details <= gh'
      BY <3>1, <3>2, <2>1, RepoRowAssumption DEF Good, Stamp
    <3> QED BY <3>1, <3>3, <2>2 DEF Good
  <2> QED BY <2>1, <2>2, <2>3 DEF OverlapInv
<1>4. CASE UNCHANGED vars
  BY <1>4 DEF vars, OverlapInv, Good
<1> QED BY <1>1, <1>2, <1>3, <1>4, CollectorGood, DetailsGood, BackfillGood DEF Next

\* Description, language and health only go back when a process that was overtaken
\* between its read and its write ends that write.
THEOREM StaleBounded == Spec => StaleOnlyByOverlap
<1> DEFINE Bounded ==
              row'.about < row.about \/ row'.pushed < row.pushed
                 => \E p \in Proc : job[p].overtaken /\ job'[p] # job[p]
<1>1. ASSUME IInv, OverlapInv, [Next]_vars PROVE Bounded
  <2>t. row \in Row /\ row.about \in Nat /\ row.pushed \in Nat
    BY <1>1, RowGood
  <2>j. ASSUME NEW p \in Proc
        PROVE  Good(job[p]) /\ job[p].about \in Nat /\ job[p].details \in Nat
    <3>1. job[p] \in Job /\ Good(job[p])
      BY <1>1 DEF IInv, TypeOK, OverlapInv
    <3> QED BY <3>1, RepoRowAssumption DEF Job, Stamp
  <2>1. CASE row' = row
    BY <2>1, <2>t
  <2>2. ASSUME NEW p \in Proc, NEW license, NEW topics, NEW languages,
               Upserts(p, license, topics, languages)
        PROVE  Bounded
    <3>1. row'.about = job[p].about /\ row'.pushed = row.pushed /\ job[p].about # 0
      BY <2>2, <2>t DEF Upserts, UpsertRow, Row
    <3>2. row'.about < row.about => job[p].overtaken
      BY <3>1, <2>t, <2>j DEF Good
    <3> QED BY <2>2, <3>1, <3>2, <2>t DEF Upserts
  <2>3. ASSUME NEW p \in Proc, Updates(p) PROVE Bounded
    <3>1. row'.about = row.about /\ row'.pushed = job[p].details /\ job[p].details # 0
      BY <2>3, <2>t DEF Updates, UpdateHealth, Row
    <3>2. row'.pushed < row.pushed => job[p].overtaken
      BY <3>1, <2>t, <2>j DEF Good
    <3> QED BY <2>3, <3>1, <3>2, <2>t DEF Updates
  <2>4. CASE FillsIn
    <3>1. row'.about = row.about /\ row'.pushed = row.pushed
      BY <2>4, <2>t, LicenseColumn
    <3> QED BY <3>1, <2>t
  <2> QED BY <1>1, <2>1, <2>2, <2>3, <2>4, WhoWrites
<1>2. Spec => [][Bounded]_vars
  BY <1>1, AlwaysSound, OverlapInit, OverlapNext, PTL DEF Spec
<1> QED BY <1>2 DEF StaleOnlyByOverlap
=============================================================================
