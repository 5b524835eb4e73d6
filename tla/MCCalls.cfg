\* Two calls, two reloads; two requests with tokens, two keys of which one does not parse.
SPECIFICATION MCSpec
CONSTANTS
    Calls = {a1, a2}
    Reloads <- MCReloads
    NoService <- MCNoService
    Retries <- MCRetries
    NoRetry <- MCNoRetry
    Lives = {4}
    defaultTimeout = 1
    tokenTimeout = 1
    buffer = 2
    Bearers = {b1, b2}
    Kids = {k1, k2}
    BadKids = {k2}
    Extractors <- MCExtractors
    Tokens <- MCTokens
    jwksCacheTTL = 2
    FetchTimeout = 1
    MaxTime = 4
INVARIANTS
    CallsUseNewConfig
    TokenLivesToArrive
    BodiesAreClosed
    KnownKeyIsFound
    AcceptedKeyIsRecent
    PrincipalIsUsable
\* The last reload is made and the clock of the keys has run out.
CHECK_DEADLOCK FALSE
