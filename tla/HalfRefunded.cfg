\* Two halves are asked for, one is paid back.
SPECIFICATION Spec
CONSTANTS
    o1 = o1  o2 = o2  g1 = g1  g2 = g2  s1 = s1  s2 = s2
    NoOrder = NoOrder  NoGid = NoGid
    Orders <- OneOrder
    MaxRefunds = 2
    Gids <- TwoGids
    Amount = 2
    Parts = {1, 2}
    Kinds = {"refund.created", "refund.processed", "refund.failed"}
    Sessions <- TwoSessions
INVARIANT RefundedInFull
CHECK_DEADLOCK FALSE
