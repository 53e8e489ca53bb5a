CONSTANTS
    h1 = h1
    h2 = h2
    t1 = t1
    t2 = t2
    t3 = t3
    Episodes = {e1}
    Compiled = {}
    Hosts = {h1, h2}
    Turns = {t1, t3}
    HostOf <- MCHostOf1
    Nobody = Nobody
    Approver = Approver
    MaxRestarts = 0
    MaxEpoch = 3
SPECIFICATION FairWorkerSpec
PROPERTIES
    EpisodesSettle
    GateNeedsApproval
CHECK_DEADLOCK FALSE
