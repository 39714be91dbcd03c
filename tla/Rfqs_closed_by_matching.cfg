CONSTANTS
    x1 = x1  q1 = q1  q2 = q2  d1 = d1  d2 = d2  r1 = r1  r2 = r2
    Rfq <- OneRfq
    Quote <- TwoQuotes
    RfqOf <- SameRfq
    Deal <- TwoDeals
    Request <- TwoRequests
    PoolSize = 2
    MayFail = FALSE
SPECIFICATION Spec
PROPERTY PublishedStaysOpen
