\* Four request names over two permits and a line of two: a full line, refused
\* newcomers, hand-overs in flight, orphaned tasks.  No symmetry, since liveness
\* and the refinement are checked as well.
SPECIFICATION FairSpec
CONSTANTS
    Requests = {r1, r2, r3, r4}
    Active = 2
    MaxQueued = 2
INVARIANTS
    TypeOK
    PermitConservation
    QueueAccounting
    NoLostWakeup
    ClosingCancelsAll
    NoOrphanWork
PROPERTIES
    LineMoves
    ImplementsAdmissionQueue
CHECK_DEADLOCK FALSE
