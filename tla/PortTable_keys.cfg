SPECIFICATION Spec
CONSTANTS
    Entries = {e1, e2, e3}
    Null = Null
    Keys = {k1, k2}
INVARIANTS
    TypeOK
    ListIsQueue
    AnswersRight
    OneKeyIsSafe
CHECK_DEADLOCK FALSE
