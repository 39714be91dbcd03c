CONSTANTS
    p1 = p1  p2 = p2  d1 = d1  d2 = d2  m1 = m1  m2 = m2
    Page <- TwoPages
    Deal <- TwoDeals
    Message <- TwoMessages
    RoomOf <- OneRoom
    MaxHistory = 1
    SocketOrg = TRUE
    MaxLosses = 1
SPECIFICATION FairSpec
INVARIANTS TypeOK OwnRoom 
 
