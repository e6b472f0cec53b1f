\* Two keys, so that a batch mixes hits, spot prices and quotes; two requests,
\* so that two lookups of one key overlap.
SPECIFICATION Spec
CONSTANTS
    Requests = {r1, r2}
    Keys = {k1, k2}
SYMMETRY CacheSymmetry
INVARIANTS
    OnlySpotPrices
    AnswersMatch
PROPERTIES
    DefiniteResultsOnly
