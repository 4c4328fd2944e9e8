---------------------------- MODULE StripeConnector ----------------------------
(***************************************************************************)
(* The Stripe connector (packages/stripe-connector/src/index.mjs): when a  *)
(* webhook delivery is accepted, and which outcome events an accepted      *)
(* Stripe event becomes.  Times are whole seconds.  Signature arithmetic   *)
(* is left out: a delivery carries the time it was signed at and Stripe's  *)
(* own signature, altered deliveries being refused before anything else.   *)
(***************************************************************************)
EXTENDS Integers

CONSTANT Tolerance  \* toleranceSeconds

\* The clock skew and delay a delivery may show are both bounded by Tolerance.
\* Mutant of SignatureAccepted: the bound itself is refused.
SignatureAcceptedInside(signedAt, relayNow) ==
    relayNow - signedAt \in (1 - Tolerance)..(Tolerance - 1)

SignatureAccepted(signedAt, relayNow) ==
    relayNow - signedAt \in (-Tolerance)..Tolerance

StripeTypes == {"refund.created", "refund.updated", "refund.failed"}

\* "unknown" is a status the connector does not know, or none.
RefundStatuses ==
    {"pending", "requires_action", "succeeded", "failed", "canceled", "unknown"}

\* eventDescriptors, as triples of event type, phase and status: what the
\* creation of the refund object says, and what its status says.
CreationDescriptors(type) ==
    IF type = "refund.created" THEN {<<"created", "EFFECT", "SUCCEEDED">>} ELSE {}

\* Mutant of StatusDescriptors: every update of a refund settles it.
StatusDescriptorsSettling(type, status) ==
    CASE type = "refund.updated" -> {<<"settled", "SETTLEMENT", "SUCCEEDED">>}
      [] type # "refund.updated" /\ status = "failed" ->
            {<<"settlement_failed", "SETTLEMENT", "FAILED">>}
      [] OTHER -> {<<"settlement_pending", "SETTLEMENT", "PENDING">>}

StatusDescriptors(type, status) ==
    CASE status \in {"pending", "requires_action"} ->
            {<<"settlement_pending", "SETTLEMENT", "PENDING">>}
      [] status = "succeeded" -> {<<"settled", "SETTLEMENT", "SUCCEEDED">>}
      [] status = "failed" -> {<<"settlement_failed", "SETTLEMENT", "FAILED">>}
      [] status \in {"canceled", "unknown"} /\ type = "refund.failed" ->
            {<<"settlement_failed", "SETTLEMENT", "FAILED">>}
      [] status = "canceled" /\ type # "refund.failed" ->
            {<<"cancelled", "TERMINATION", "CANCELLED">>}
      [] OTHER -> {}

Descriptors(type, status) ==
    CreationDescriptors(type) \cup StatusDescriptors(type, status)

\* An event of an unknown status that says nothing else is refused.
Supported(stripeEvent) ==
    Descriptors(stripeEvent.type, stripeEvent.status) # {}

\* Mutant of Normalize: the two times are swapped.
NormalizeSwapped(stripeEvent, issuer, recordedAt) ==
    {[type |-> d[1], phase |-> d[2], status |-> d[3],
      source |-> "SYSTEM_OF_RECORD", issuer |-> issuer,
      occurred |-> recordedAt, recorded |-> stripeEvent.created] :
        d \in Descriptors(stripeEvent.type, stripeEvent.status)}

\* normalizeStripeRefundEvent: the outcome events of a Stripe event, stated by
\* the relay as a system of record.  Stripe's second-grained creation time is
\* when they occurred, the relay's clock says when they were recorded.
Normalize(stripeEvent, issuer, recordedAt) ==
    {[type |-> d[1], phase |-> d[2], status |-> d[3],
      source |-> "SYSTEM_OF_RECORD", issuer |-> issuer,
      occurred |-> stripeEvent.created, recorded |-> recordedAt] :
        d \in Descriptors(stripeEvent.type, stripeEvent.status)}
================================================================================
