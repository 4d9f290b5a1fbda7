SPECIFICATION Spec
CONSTANTS
    alice = alice
    bob = bob
    badHandle = badHandle
    hello = hello
    badText = badText
    Absent = Absent
    Handles <- MCHandles
    BadHandle = badHandle
    Texts <- MCTexts
    BadText = badText
    DefaultLimit = 2
    MaxLimit = 2
    c1 = c1
    c2 = c2
    Clients = {c1, c2}
    Traffic <- MCTraffic
    MaxHeaders = 2
    MaxSent = 2
INVARIANTS
    RoutesWhatWasSent
    AnsweredInTurn
    ClosedForAReason
PROPERTIES
    AnswersLikeSObs
    EveryRequestAnswered
    ThreadsComeBack
CHECK_DEADLOCK FALSE
