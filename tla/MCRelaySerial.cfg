SPECIFICATION Spec
CONSTANTS
    a1 = a1  a2 = a2  r1 = r1  r2 = r2  e1 = e1  e2 = e2  e3 = e3  p1 = p1  p2 = p2  p3 = p3
    Handlers = {p1}
    Actions = {a1, a2}
    Refunds = {r1, r2}
    Events = {e1, e2, e3}
    IndexKey = IndexKey
    Absent = Absent
    InvalidRefunds = {r2}
    RefundOf <- MCRefundOf
    MaxFaults = 2
SYMMETRY MCSymmetry
INVARIANTS
    ImmediatePredecessor
PROPERTIES
    EvidenceSpec
