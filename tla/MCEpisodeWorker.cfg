CONSTANTS
    h1 = h1
    h2 = h2
    t1 = t1
    t2 = t2
    t3 = t3
    Episodes = {e1}
    Compiled = {e1}
    Hosts = {h1, h2}
    Turns = {t1, t2, t3}
    HostOf <- MCHostOf
    Nobody = Nobody
    Approver = Approver
    MaxRestarts = 1
    MaxEpoch = 2
SYMMETRY MCSymmetry
SPECIFICATION WorkerSpec
INVARIANTS
    SnapshotNeverLies
    ActiveOwnerOwnsRow
PROPERTIES
    TerminalIsFinal
    ClaimsFollowTokens
CHECK_DEADLOCK FALSE
