\* Two requests, one permit and a line of one: the permit passes from hand to
\* hand while the warm-up is paused, cleans up and is replaced.  An exited
\* process stops.
SPECIFICATION FairSpec
CONSTANTS
    Requests = {r1, r2}
    Active = 1
    MaxQueued = 1
    Prewarms <- MCPrewarms
    Fallible <- MCFallible
    Required <- MCRequired
INVARIANTS
    StartupSettled
    WarmupYields
    IdleMeansResumed
    ResumeRemembered
    ExitIsQuiet
PROPERTIES
    SignalAbortsStartup
    DrainKeepsLookups
    IdleMeansWarming
    HealthyMeansServing
    ShutdownQuiesces
CHECK_DEADLOCK FALSE
