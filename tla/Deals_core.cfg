CONSTANTS
    d1 = d1  m1 = m1  m2 = m2  p1 = p1  p2 = p2  r1 = r1  r2 = r2
    Deal <- OneDeal
    Milestone <- TwoMilestones
    DealOf <- OfOneDeal
    TypeOf <- SigningInspection
    Payment <- TwoPayments
    PaymentDeal <- ForOneDeal
    ConditionOf <- BothSigned
    Posted <- PendingOrDone
    Request <- TwoRequests
    Unreliable <- OneSlot
SPECIFICATION FairSpec
INVARIANTS TypeOK ReleasedWhenDue StatusEarned
PROPERTIES ImplementsContract HeldIsReleased
