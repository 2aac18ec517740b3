\* One track request, the collector and the backfill; GitHub changes once, from a
\* repository without topics to one with topics.
SPECIFICATION FairSpec
CONSTANTS
    Collector = Collector
    Backfill = Backfill
    t1 = t1
    Track = {t1}
    MaxVersion = 2
    HasTopics = {2}
    HasLanguages = {1, 2}
    HasRelease = {1, 2}
    Refinable = {1}
    Metadata <- MCMetadata
INVARIANTS
    TypeOK
PROPERTIES
    NothingWiped
    ReleaseOnlyAdvances
    StaleOnlyByOverlap
    TopicsFilled
CHECK_DEADLOCK FALSE
