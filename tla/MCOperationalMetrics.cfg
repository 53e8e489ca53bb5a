CONSTANTS
    Requests = {q1, q2}
    Episodes = {e1, e2}
    Amounts = {1, 2}
    EpisodeLimit = 2
    MonthLimit = 3
    ExperimentLimit = 1
    MaxMonth = 1
    Writers = {w1, w2}
    Unlocked = Unlocked
SPECIFICATION MetricsSpec
SYMMETRY MCSymmetry
INVARIANTS LedgerWithinLimits ShownIsCommitted MetricsFollowTheLedger
PROPERTIES LiabilityIsFinal EvidenceIsAppendOnly
CHECK_DEADLOCK FALSE
