\* A URL and a file; five entries on a page are the three bundled ones and
\* two of the user's, and two fetches may be in flight.
SPECIFICATION Spec
CONSTANTS
    Urls <- MCUrls
    Files <- MCFiles
    Name <- MCName
    Tokens = {t1}
    MaxLists = 2
    MaxEarly = 1
    MaxObjects = 5
    MaxAwaiting = 2
INVARIANTS
    LocalListsStayOn
    UserListsAreShown
    LocalTokensSaved
PROPERTIES
    SavedAsShown
