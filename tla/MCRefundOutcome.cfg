\* The relay's clock is ahead by exactly the tolerance; claims dated now or late.
SPECIFICATION FairSpec
CONSTANTS
    relay = relay
    Issuers = {relay}
    RelayIssuer = relay
    Tolerance = 1
    Skew = 1
    ClaimLeads = {0, 1}
    MaxTime = 3
    MaxStripeEvents = 4
INVARIANTS
    CaughtUp
    VerdictJustified
PROPERTIES
    ClaimDateDecides
    EventuallyCaughtUp
CHECK_DEADLOCK FALSE
