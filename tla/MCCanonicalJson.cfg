\* Texts of any length with up to three values, two levels deep.
SPECIFICATION Spec
CONSTANTS
    MaxDepth = 2
    MaxValues = 3
    MaxUnits = 3
INVARIANTS
    NamesUnique
    AcceptedIsCanonical
    RoundTrip
    OrderIrrelevant
CHECK_DEADLOCK FALSE
