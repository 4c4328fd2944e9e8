\* Two events of any kind the rules tell apart, signed by any of two issuers.
SPECIFICATION Spec
CONSTANTS
    i1 = i1  i2 = i2
    Issuers = {i1, i2}
    MCTypes = {"requested", "accepted", "created", "settlement_pending",
               "settled", "settlement_failed", "cancelled", "reversed"}
    Batches <- MCBatches
    MaxEvents = 2
INVARIANTS
    StrongVerdictsProved
    DecisiveSuffices
PROPERTIES
    VerdictNeverRetreats
    WeakEvidenceOnlyPends
CHECK_DEADLOCK FALSE
