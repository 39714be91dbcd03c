CONSTANTS
    t1 = t1  t2 = t2  k1 = k1  k2 = k2
    Tab <- TwoTabs
    Token <- TwoTokens
    LockAfter = 2
    MaxFailures = 3
SPECIFICATION FairSpec
INVARIANTS TypeOK LockIsEarned
 
