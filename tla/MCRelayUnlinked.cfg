SPECIFICATION Spec
CONSTANTS
    a1 = a1  a2 = a2  r1 = r1  r2 = r2  e1 = e1  e2 = e2  e3 = e3  p1 = p1  p2 = p2  p3 = p3
    Handlers = {p1}
    Actions = {a1}
    Refunds = {r1}
    Events = {e1}
    IndexKey = IndexKey
    Absent = Absent
    InvalidRefunds = {}
    RefundOf <- MCRefundOf
    MaxFaults = 1
INVARIANT CorrelationLinked
