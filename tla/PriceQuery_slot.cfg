SPECIFICATION Spec
CONSTANTS
    MaxBlock <- MCMaxBlock
    MaxBatch <- MCMaxBatch
    Latest <- MCLatest
    Queries <- MCQueries
INVARIANTS
    SlotCoversCalls
CHECK_DEADLOCK FALSE
