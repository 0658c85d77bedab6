\* Staff, shifts, codes, transfers, connections and polls, one after the other.
SPECIFICATION Spec
CONSTANTS
    Ss = {s1, s2}  Xs = {x1, x2}  Ys = {y1, y2}  Zs = {z1, z2}
    ann = ann  bob = bob  gate = gate  none = none
SYMMETRY Symmetry
CONSTRAINT Focus
INVARIANTS PeopleTypeOK AccessIsKept PlacesBounded CodesHold BothWanted 
PROPERTY DecisionsStand
CHECK_DEADLOCK FALSE
