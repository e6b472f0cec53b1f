SPECIFICATION Spec
CONSTANTS
    Requests = {r1, r2}
    Spellings <- MCSpellings
    Address <- MCAddress
INVARIANTS
    OneClassificationPerAddress
