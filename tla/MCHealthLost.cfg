\* One version of the repository, complete in every respect, and nobody tracks it.
SPECIFICATION HealthFairSpec
CONSTANTS
    Collector = Collector
    Backfill = Backfill
    Track = {}
    MaxVersion = 1
    HasTopics = {1}
    HasLanguages = {1}
    HasRelease = {1}
    Refinable = {}
    Metadata <- MCLicensed
PROPERTIES
    HealthCaughtUp
CHECK_DEADLOCK FALSE
