----------------------------- MODULE MCEvidenceFile -----------------------------
EXTENDS EvidenceFile

Symmetry == Permutations(RelayIssuers) \cup Permutations(RelayKeys)

StripeEvent(id, type, status, created) ==
    [id |-> id, type |-> type, status |-> status, created |-> created]

\* The creation of a refund, which is two outcome events, its settlement, and an
\* event dated ahead of the relay's clock.
MCStripeEvents ==
    {StripeEvent("evt1", "refund.created", "pending", 2),
     StripeEvent("evt2", "refund.updated", "succeeded", 2),
     StripeEvent("evt3", "refund.failed", "failed", 3)}

\* No restriction, expired, not yet valid, and no time at all.
MCWindows == {<<0, Forever>>, <<1, 1>>, <<3, Forever>>, <<2, 2>>}
================================================================================
