\* A paid event: payment, refund, reconciliation, cancellation and scan race each other.
SPECIFICATION Spec
CONSTANTS
    r1 = r1  r2 = r2  r3 = r3  ann = ann  bob = bob
    e1 = e1  e2 = e2  s1 = s1  s2 = s2
    Regs <- TwoRegs
    Idents <- MCIdents
    IdentOf <- TwoIdentOf
    Kinds <- MCKinds
    KindOf <- SameKindOf
    Entries <- TwoEntries
    EntryIdent <- TwoEntryIdent
    Sessions <- MCSessions
    Capacities = {0, 1}
    StartStatus = {"registration_open"}
    Fee = TRUE
    Approval = FALSE
    OtherEvents = TRUE
SYMMETRY PairSymmetry
CONSTRAINT PaidBounds
INVARIANTS TypeOK SeatsWithinPeak SeatHasTicket
CHECK_DEADLOCK FALSE
