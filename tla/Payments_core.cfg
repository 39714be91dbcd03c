CONSTANTS
    p1 = p1  p2 = p2  r1 = r1  r2 = r2  advance = advance
    Payment <- OnePayment
    Request <- TwoRequests
    Condition <- OneCondition
    ConditionOf <- OneConditionOf
    Body <- NoBody
    EventKind <- NoPayoutFailure
    Unnamed <- NoEvent
    MaxRestarts = 1
SPECIFICATION FairSpec
INVARIANTS TypeOK EscrowBacked ReferenceKept
PROPERTIES ImplementsEscrow ChargeReachesLedger
