\* Two inbound messages: the watcher can find its queue full.  A request that
\* is over stops.
SPECIFICATION FairSpec
CONSTANT Chunks = 2
INVARIANTS
    OneResponse
    Answered
    NoOrphanApp
PROPERTIES
    MeetsDeadline
    DepartureStopsApp
CHECK_DEADLOCK FALSE
