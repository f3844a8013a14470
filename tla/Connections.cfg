CONSTANTS
    c1 = c1  c2 = c2
    Conn = {c1, c2}
    Menu <- Calls
    MaxCalls <- Bounds
    MaxSubs = 1
    MaxEvents = 2
    Capacity = 2
SPECIFICATION FairConnSpec
INVARIANT LinesAreWhole EventsInOrder AnsweredBeforeDown
PROPERTY ShutdownCompletes FailureIsNoticed
CHECK_DEADLOCK FALSE
