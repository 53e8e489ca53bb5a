\* Nothing is bounded: the calls are reused and the state space is finite.
CONSTANTS
    Drivers = {d1, d2}
    Cancellers = {c1, c2}
    NoFile = NoFile
SPECIFICATION HeroSpec
INVARIANT PostedOnceAndClaimed
INVARIANT TerminalIsEvidenced
INVARIANT DeliveredStaysDelivered
PROPERTY DriverReturns
CHECK_DEADLOCK FALSE
