SPECIFICATION CornerSpec
CONSTANTS
    alice = alice
    bob = bob
    badHandle = badHandle
    hello = hello
    badText = badText
    Absent = Absent
    Nobody = Nobody
    Handles <- MCHandles
    BadHandle = badHandle
    Texts <- MCTexts
    BadText = badText
    DefaultLimit = 2
    MaxLimit = 2
    Clients = {c1, c2}
    Requests <- AdminRequests
    Foreign <- SomeForeign
    MaxUserID = 2
    MaxTweetID = 2
    MaxClock = 1
SYMMETRY ClientSymmetry
INVARIANTS
    LogStaysMonotone
    LoadLeavesServable
    RustLoadLeavesServable
PROPERTIES
    SnapshotIsLoadable
