\* Two tickets, a device that sends again, offline batches and the console.
SPECIFICATION Spec
CONSTANTS
    t1 = t1  t2 = t2  ann = ann  bob = bob  cat = cat
    general = general  x1 = x1  x2 = x2
    k1 = k1  s1 = s1  s2 = s2
    General = general  NoKey = NoKey
    Tickets <- TwoTickets
    Users <- OneUser
    Buyer <- TwoBuyers
    Types <- OneType
    Limits = {1, 2}
    Transfers <- NoTransfers
    Keys <- OneKey
    Sessions <- TwoSessions
    MaxCodes = 1
SYMMETRY ScanSymmetry
CONSTRAINT ThreeEntries
INVARIANTS TypeOK EntriesNumbered EntryLimit ScanCountedOnce
CHECK_DEADLOCK FALSE
