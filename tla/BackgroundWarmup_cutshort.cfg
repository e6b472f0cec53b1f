SPECIFICATION FairSpec
CONSTANTS
    Prewarms <- MCPrewarms
    Fallible <- MCFallible
PROPERTIES
    CutShortIsResumed
CHECK_DEADLOCK FALSE
