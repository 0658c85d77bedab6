\* The scheduled jobs close the door, serve the waitlist and deliver what is queued.
SPECIFICATION JobsSpec
CONSTANTS
    r1 = r1  r2 = r2  r3 = r3  ann = ann  bob = bob
    e1 = e1  e2 = e2  s1 = s1  s2 = s2
    n1 = n1  n2 = n2  d1 = d1  d2 = d2  w1 = w1  w2 = w2  none = none
    Regs <- TwoRegs
    Idents <- MCIdents
    IdentOf <- TwoIdentOf
    Kinds <- MCKinds
    KindOf <- MCKindOf
    Entries <- OneEntries
    EntryIdent <- OneEntryIdent
    Sessions <- MCSessions
    Capacities = {1}
    StartStatus = {"registration_open"}
    Fee = FALSE
    Approval = FALSE
    OtherEvents = FALSE
PROPERTIES DoorShuts  BatchReachesNext
CHECK_DEADLOCK FALSE
