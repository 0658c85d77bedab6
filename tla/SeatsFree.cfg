\* Two events without a fee: three registrations, or approval and a waitlist of two.
SPECIFICATION FreeSpec
CONSTANTS
    r1 = r1  r2 = r2  r3 = r3  ann = ann  bob = bob
    e1 = e1  e2 = e2  s1 = s1  s2 = s2
    Regs <- ThreeRegs
    Idents <- MCIdents
    IdentOf <- ThreeIdentOf
    Kinds <- MCKinds
    KindOf <- SameKindOf
    Entries <- TwoEntries
    EntryIdent <- TwoEntryIdent
    Sessions <- MCSessions
    Capacities = {0, 1, 2}
    StartStatus = {"published", "registration_open"}
    Fee = FALSE
    Approval = FALSE
    OtherEvents = TRUE
SYMMETRY RowSymmetry
INVARIANTS SeatsWithinPeak OneSeatPerIdent SeatHasTicket 
PROPERTIES   ImplementsLedger
CHECK_DEADLOCK FALSE
