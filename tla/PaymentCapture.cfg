\* Two orders of one payment: checkout, webhook and job verify and release.
SPECIFICATION FairSpec
CONSTANTS
    o1 = o1  o2 = o2  g1 = g1  g2 = g2  s1 = s1  s2 = s2
    NoOrder = NoOrder  NoGid = NoGid
    Orders <- TwoOrders
    MaxRefunds = 0
    Gids <- NoGids
    Amount = 2
    Parts = {2}
    Kinds = {"payment.captured"}
    Sessions <- TwoSessions
INVARIANT VerifiedIsCaptured
 
CHECK_DEADLOCK FALSE
