CONSTANTS
    p1 = p1
    p2 = p2
    st = st
    su = su
    sp = sp
    t1 = t1
    t2 = t2
    t3 = t3
    t4 = t4
    Procs = {p1, p2}
    Sources = {st, su, sp}
    Timelines = {t1, t2, t3, t4}
    Candidates = {c1}
    Declarations = {d1}
    SourceMode <- MCSourceMode
    NeedsReview = {}
    SourceOf <- MCSourceOf
    SuffixOf <- MCSuffixOf
    Nothing = Nothing
    Torn = Torn
    MaxAdvances = 2
    MaxFaults = 2
SYMMETRY MCSymmetry
SPECIFICATION PreproductionSpec
INVARIANTS
    PacketsBindOneAdvance
    WorkerRunsOnePacket
PROPERTIES
    PublishedIsFinal
CHECK_DEADLOCK FALSE
