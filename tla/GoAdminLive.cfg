SPECIFICATION AdminSpec
CONSTANTS
    alice = alice
    bob = bob
    badHandle = badHandle
    hello = hello
    badText = badText
    Absent = Absent
    Nobody = Nobody
    Handles <- MCHandles
    BadHandle = badHandle
    Texts <- MCTexts
    BadText = badText
    DefaultLimit = 2
    MaxLimit = 2
    Clients = {c1, c2}
    Requests <- AdminRequests
    MaxUserID = 3
    MaxTweetID = 3
    MaxClock = 1
    Foreign <- NoForeign
INVARIANTS
    LiveLoadLeavesServable
