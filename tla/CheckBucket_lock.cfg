\* Two lookups fill the permits, the third waits for one; they ask for one
\* token or for two.  A closed supervisor stops.
SPECIFICATION SlotSpec
CONSTANTS
    Requests = {r1, r2, r3}
    Spellings = {"lower", "checksum"}
    Address <- MCAddress
    Active = 2
    MaxQueued = 1
INVARIANTS
    LockMatchesHolder
PROPERTIES
    WaitEnds
    SlotsTurnOver
CHECK_DEADLOCK FALSE
