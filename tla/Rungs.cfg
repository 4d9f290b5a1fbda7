SPECIFICATION RungsSpec
CONSTANTS
    Handles <- MCHandles
    BadHandle = "Alice"
    Texts = {"text"}
    Text = "text"
    BadText = ""
    Absent = Absent
    DefaultLimit = 50
    MaxLimit = 100
    Reader <- MCReader
    Writers <- MCWriters
    Limits = {1, 2}
    Pool <- MCPool
    Sample <- MCSample
    Ghost = "eve"
    R0Corners <- MCDefects
    R0Faulty = {"none", "created-at-frozen"}
    R1Corners = {"none", "id-burned-on-reject", "cursor-inclusive", "follow-toggles"}
    R1Faulty = {"none"}
    R2Corners = {"none", "cursor-inclusive"}
    StopOnFirst = {TRUE}
    Traces = 1
    Steps = 6
    Setup = 7
    MaxID = 5
INVARIANTS
    CorpusKills
    CanariesAreSeen
    ReproductionIsTight
    RelationsHold
    PagesJoinUp
PROPERTIES
    EveryAttemptGetsCloser
    WalkEnds
CHECK_DEADLOCK FALSE
