CONSTANTS
    n1 = n1  n2 = n2  r1 = r1  r2 = r2
    Notification <- TwoNotifications
    Request <- TwoRequests
SPECIFICATION FairSpec
INVARIANTS TypeOK NoStaleUnread
PROPERTIES DismissedForGood BadgeConverges
