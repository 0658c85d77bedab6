\* The last seat closes the event, and with it the waitlist.
SPECIFICATION Spec
CONSTANTS
    r1 = r1  r2 = r2  r3 = r3  ann = ann  bob = bob
    e1 = e1  e2 = e2  s1 = s1  s2 = s2
    Regs <- TwoRegs
    Idents <- MCIdents
    IdentOf <- TwoIdentOf
    Kinds <- MCKinds
    KindOf <- MCKindOf
    Entries <- TwoEntries
    EntryIdent <- TwoEntryIdent
    Sessions <- MCSessions
    Capacities = {1}
    StartStatus = {"registration_open"}
    Fee = FALSE
    Approval = FALSE
    OtherEvents = TRUE
PROPERTY FillingOpensWaitlist
CHECK_DEADLOCK FALSE
