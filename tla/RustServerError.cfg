SPECIFICATION Spec
CONSTANTS
    alice = alice
    bob = bob
    badHandle = badHandle
    hello = hello
    badText = badText
    Absent = Absent
    Handles <- MCHandles
    BadHandle = badHandle
    Texts <- MCTexts
    BadText = badText
    DefaultLimit = 2
    MaxLimit = 2
    Clients = {c1, c2}
    Requests <- WriteRequests
    MaxUserID = 2
    MaxTweetID = 2
    MaxClock = 1
INVARIANTS
    NoServerError
