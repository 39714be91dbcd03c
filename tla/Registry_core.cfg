CONSTANTS
    u1 = u1   o1 = o1  o2 = o2  n1 = n1  n2 = n2  p1 = p1  r1 = r1  r2 = r2
    User <- OneUser
    Org <- TwoOrgs
    Name <- TwoNames
    Product <- OneProduct
    Request <- TwoRequests
    MayFail = TRUE
SYMMETRY Symmetry
SPECIFICATION Spec
INVARIANTS TypeOK OneOrganizationPerName AcknowledgedHasOwner
PROPERTY RemovedForGood
\* When every id is used and every record removed no operation is left.
CHECK_DEADLOCK FALSE
