CONSTANTS
    Requests = {q1, q2}
    Episodes = {e1}
    Amounts = {1, 2}
    EpisodeLimit = 2
    MonthLimit = 9
    ExperimentLimit = 9
    MaxMonth = 0
    Procs = {p1, p2}
    Nobody = Nobody
    Cost <- MCCost
    EpisodeOf <- MCEpisodeOf
    JobLimit = 3
    MaxGen = 4
    MaxFaults = 2
SPECIFICATION FairBillingSpec
INVARIANTS SubmittedOnce EveryPostIsFunded CurrentIsCoherent
PROPERTY CallsEnd
CHECK_DEADLOCK FALSE
