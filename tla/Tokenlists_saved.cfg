\* As Tokenlists_full.
SPECIFICATION Spec
CONSTANTS
    Urls <- MCUrls
    Files <- MCFiles
    Name <- MCName
    Tokens = {t1}
    MaxLists = 2
    MaxEarly = 1
    MaxObjects = 5
    MaxAwaiting = 2
INVARIANTS
    DefaultStateStored
