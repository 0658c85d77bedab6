\* One order, two refunds in whole or in halves, and their webhooks.
SPECIFICATION Spec
CONSTANTS
    o1 = o1  o2 = o2  g1 = g1  g2 = g2  s1 = s1  s2 = s2
    NoOrder = NoOrder  NoGid = NoGid
    Orders <- OneOrder
    MaxRefunds = 2
    Gids <- OneGid
    Amount = 2
    Parts = {1, 2}
    Kinds = {"refund.created", "refund.processed", "refund.failed"}
    Sessions <- TwoSessions
SYMMETRY Symmetry
INVARIANTS TypeOK RefundsBacked  PendingHasRefund
CHECK_DEADLOCK FALSE
