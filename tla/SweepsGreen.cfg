SPECIFICATION SweepsSpec
CONSTANTS
    MaxEdits = 1
    MaxFaults = 1
    MaxCrashes = 1
    MaxRuns = 3
    MaxTrouble = 2
    MaxSweeps = 3
    Jobs = 2
    Catalogue <- MCCatalogue
    Rungs <- MCRungs
    Versions <- MCVersions
    AnchoredIn <- MCAnchoredIn
    InputsOf <- MCInputsOf
    Kills <- MCKills
    Answers <- MCAnswers
    Members <- MCMembers
    States <- MCStates
    Elems <- MCElems
    Clauses <- MCClauses
    ReliesOn <- MCReliesOn
    Bodies <- MCBodies
    Control <- TickClause
INVARIANTS
    VerifiedIsGreen
CHECK_DEADLOCK FALSE
