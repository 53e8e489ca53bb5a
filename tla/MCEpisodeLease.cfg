CONSTANTS
    Episodes = {e1}
    Runs = {r1, r2, r3}
    NoRun = NoRun
    TTLs = {1, 2}
    MaxTime = 3
    MaxEpoch = 3
SYMMETRY MCSymmetry
SPECIFICATION LeaseSpec
INVARIANTS
    LeaseInv
PROPERTIES
    SupersededStaysFenced
    LiveRowIsOwners
    ImplementsFencedLease
CHECK_DEADLOCK FALSE
