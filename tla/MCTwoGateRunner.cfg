CONSTANTS
    a = a
    b = b
    fix = fix
    hero = hero
    e = e
    c1 = c1
    c2 = c2
    Nobody = Nobody
    Requests <- MCRequests
    Episodes <- MCEpisodes
    Episode = e
    Started <- MCStarted
    Category <- MCCategory
    Pred <- MCPred
    Deps <- MCDeps
    Calls <- MCCalls
    Amounts = {1}
    EpisodeLimit = 9
    MonthLimit = 9
    ExperimentLimit = 9
    MaxMonth = 0
    Cost = 1
    Slots = 1
    Window = 2
    MaxTokens = 3
    MaxFaults = 1
SYMMETRY Symmetry
CONSTRAINT LateCalls
SPECIFICATION RunnerSpec
CHECK_DEADLOCK FALSE
INVARIANTS PostedOnceAndCovered VerdictsHaveReceipts GatesShowApprovedWork PublishedAsApproved
PROPERTIES DecisionsAreFinal
