SPECIFICATION HubSpec
CONSTANTS
    e1 = e1
    e2 = e2
    e3 = e3
    s1 = s1
    s2 = s2
    Entries = {e1, e2, e3}
    Sinks = {s1, s2}
    SinkOf <- Owners
    NoEntry = NoEntry
    MaxFrames = 3
INVARIANTS
    CallsAreSafe
    NoFrameMissed
PROPERTIES
    KeepsPromise
CHECK_DEADLOCK FALSE
