\* Teams, venues, competitions, awards, sponsors, records and notifications, one after the other.
SPECIFICATION Spec
CONSTANTS
    Ss = {s1, s2}  Xs = {x1, x2}  Ys = {y1, y2}  alpha = alpha  beta = beta  none = none
SYMMETRY Symmetry
CONSTRAINT Focus
INVARIANTS
    ProgrammeTypeOK  SeparateEditsKeepApart  OneActiveAward
    SponsorshipAgrees RewardedOnce   
CHECK_DEADLOCK FALSE
