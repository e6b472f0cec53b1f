SPECIFICATION Spec
CONSTANTS
    MaxBlock <- MCMaxBlock
    MaxBatch <- MCMaxBatch
    Latest <- MCLatest
    Queries <- MCQueries
INVARIANTS
    TypeOK
    AmountsKeepPlace
    EveryPositionItsOwn
    StoresWhatItReports
    StatusTellsCause
CHECK_DEADLOCK FALSE
