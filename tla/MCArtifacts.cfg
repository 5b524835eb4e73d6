\* Two lookups at a time, one fault of the source.  One file drives two others from the cache.
SPECIFICATION ArtifactSpec
CONSTANTS
    Repositories <- MCRepositories
    Pins = {0, 1}
    Lookups = {c1, c2}
    Malformed <- MCMalformed
    Missing <- MCMissing
    sizeOf <- MCSizes
    maxBytes = 3
    reprobeInterval = 1
    MaxFaults = 1
INVARIANTS
    ExplicitKeepsFile
    CacheIsBounded
PROPERTIES
    PublishedIsFound
\* A set that does not load is not used.
CHECK_DEADLOCK FALSE
