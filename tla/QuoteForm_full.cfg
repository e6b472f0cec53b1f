\* Three calls under way: one in the dialog, one in flight that a late answer of
\* the dialog has left alone, and the latest.  Calls are interchangeable.
SPECIFICATION Spec
CONSTANTS
    Submits = {s1, s2, s3}
    Chains <- MCChains
    First <- MCFirst
    Tokens <- MCTokens
    Listed <- MCListed
    Pair <- MCPair
    None = None
INVARIANTS
    LockedMeansFetching
    AgeIsOfResult
SYMMETRY MCSymmetry
