\* Two processes on one fresh directory, two stops.
SPECIFICATION FairSpec
CONSTANTS
    Processes = {p1, p2}
    Keys = {k1, k2}
    Refunds = {r1, r2}
    Absent = Absent
    Torn = Torn
    MaxStops = 2
INVARIANTS
    TypeOK
    OneIssuerKey
    LinksSurvive
PROPERTIES
    EveryProcessServes
CHECK_DEADLOCK FALSE
