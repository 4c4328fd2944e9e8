\* Four revisions and changes to a copy in all, up to three revisions.
SPECIFICATION Spec
CONSTANTS
    Auditor = Auditor
    Issuers = {i1, i2, Auditor}
    RelayIssuers = {i1, i2}
    RelayKeys = {k1, k2}
    AuditorKey = AuditorKey
    StripeEvents <- MCStripeEvents
    Windows <- MCWindows
    NoFile = NoFile
    MaxRevisions = 3
    MaxChanges = 4
SYMMETRY Symmetry
INVARIANTS
    RelayBundlesValid
    ProofsCoverContent
    VerdictRestsOnSignatures
    LineageComplete
PROPERTIES
    RevisionsKeepProofs
    SigningAddsOnly
CHECK_DEADLOCK FALSE
