CONSTANTS
    p1 = p1  p2 = p2  r1 = r1  r2 = r2  advance = advance
    Payment <- TwoPayments
    Request <- TwoRequests
    Condition <- OneCondition
    ConditionOf <- SameConditionOf
    Body <- RedirectBodies
    EventKind <- OnlySuccess
    Unnamed <- NoEvent
    MaxRestarts = 0
SPECIFICATION Spec
SYMMETRY Symmetry
INVARIANTS EscrowBacked
CHECK_DEADLOCK FALSE
