SPECIFICATION Spec
CONSTANTS
    Size = 4
    Senders = {s1}
    MaxInFlight <- NoWindow
    MaxSent = 8
    Coalesce = TRUE
    TriggerMayFail = TRUE
    Outcomes <- AllOutcomes
INVARIANTS
    TypeOK
    LockReleased
    OnlyFilledRead
CHECK_DEADLOCK FALSE
