SPECIFICATION FairSpec
CONSTANTS
    Size = 4
    Senders = {s1, s2}
    MaxInFlight <- SafeWindow
    MaxSent = 6
    Coalesce = TRUE
    TriggerMayFail = FALSE
    Outcomes <- NoError
INVARIANTS
    Fifo
    DescriptorLifetime
    RingInv
PROPERTIES
    Implements
    EveryMessageReceived
CHECK_DEADLOCK FALSE
