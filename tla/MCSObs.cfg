SPECIFICATION Spec
CONSTANTS
    alice = alice
    bob = bob
    badHandle = badHandle
    hello = hello
    badText = badText
    Absent = Absent
    Handles <- MCHandles
    BadHandle = badHandle
    Texts <- MCTexts
    BadText = badText
    DefaultLimit = 2
    MaxLimit = 2
    Requests <- MCRequests
    MaxTweets = 3
    MaxClock = 1
INVARIANTS
    TypeOK
    HistoryIsSound
    PageIsExact
    JvmAgrees
PROPERTY
    ImplementsDesign
