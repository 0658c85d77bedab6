\* A replacement that saw the ticket before its entry.
SPECIFICATION Spec
CONSTANTS
    t1 = t1  t2 = t2  ann = ann  bob = bob  cat = cat
    general = general  x1 = x1  x2 = x2
    k1 = k1  s1 = s1  s2 = s2
    General = general  NoKey = NoKey
    Tickets <- OneTicket
    Users <- OneUser
    Buyer <- OneBuyer
    Types <- OneType
    Limits = {1}
    Transfers <- NoTransfers
    Keys <- NoKeys
    Sessions <- TwoSessions
    MaxCodes = 1
INVARIANT AdmittedWithinLimit
CHECK_DEADLOCK FALSE
