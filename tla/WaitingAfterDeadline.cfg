\* The waitlist job does not commit what it closes.
SPECIFICATION FairSpec
CONSTANTS
    r1 = r1  r2 = r2  r3 = r3  ann = ann  bob = bob
    e1 = e1  e2 = e2  s1 = s1  s2 = s2
    Regs <- TwoRegs
    Idents <- MCIdents
    IdentOf <- TwoIdentOf
    Kinds <- MCKinds
    KindOf <- MCKindOf
    Entries <- OneEntries
    EntryIdent <- OneEntryIdent
    Sessions <- MCSessions
    Capacities = {0}
    StartStatus = {"registration_open"}
    Fee = FALSE
    Approval = FALSE
    OtherEvents = FALSE
PROPERTY DeadlineEndsWaiting
CHECK_DEADLOCK FALSE
