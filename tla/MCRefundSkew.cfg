\* The relay's clock is one second behind Stripe's; claims are dated now.
SPECIFICATION Spec
CONSTANTS
    relay = relay
    Issuers = {relay}
    RelayIssuer = relay
    Tolerance = 1
    Skew <- MCBehind
    ClaimLeads = {0}
    MaxTime = 2
    MaxStripeEvents = 2
INVARIANT RelayBundlesVerify
CHECK_DEADLOCK FALSE
