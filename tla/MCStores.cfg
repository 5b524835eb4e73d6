\* Two callers at each store.
SPECIFICATION MCSpec
CONSTANTS
    Callers = {c1, c2}
    Holders = {h1, h2}
    Nobody = Nobody
    claimAttempts = 3
    MaxChanges = 5
    Configs <- MCConfigs
    Lists <- MCLists
    Charsets <- MCCharsets
    Zones <- MCZones
    Days <- MCDays
    ParamSets <- MCParams
    Radix = 3
    Generators = {g1, g2}
    MaxGenerated = 3
    Requests = {r1, r2}
    Services <- MCServices
    MediaTypes = {"pdf", "html"}
    Extensions = {"", "odd"}
    maxUploadSize = 2
    presignTTL = 0
    MaxFiles = 1
    MaxSaves = 2
    MaxClock = 1
INVARIANTS
    GivesUpAfterChanges
    IdsAreDistinct
    NothingIsOrphaned
    StoredAsAnswered
PROPERTIES
    ClaimPassesByRelease
\* The bounded calls are made, or the configuration was refused.
CHECK_DEADLOCK FALSE
