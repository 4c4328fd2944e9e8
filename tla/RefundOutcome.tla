----------------------------- MODULE RefundOutcome -----------------------------
(***************************************************************************)
(* One action from the agent's claim to the verdict: a refund lives at     *)
(* Stripe, each change of it becomes a Stripe event, events reach the      *)
(* relay late, repeatedly and in any order, and the relay adds what the    *)
(* connector makes of them to the evidence bundle.  The verdict is         *)
(* recalculated from the bundle.  The relay's clock is Skew seconds ahead  *)
(* of Stripe's (behind when negative).                                     *)
(*                                                                         *)
(* Requests are served one at a time here; their interleavings, and what   *)
(* they do to the bundle, are the subject of module Relay.                 *)
(***************************************************************************)
EXTENDS RefundVerdict, StripeConnector, FiniteSets

CONSTANTS
    RelayIssuer,      \* the relay's own issuer
    Skew,             \* relay clock minus Stripe clock, in seconds
    ClaimLeads,       \* how far ahead of the relay's clock a claim is dated
    MaxTime,          \* bound on Stripe's clock
    MaxStripeEvents   \* bound on the Stripe events of the refund

ASSUME OutcomeAssumption ==
    /\ RelayIssuer \in Issuers
    /\ Skew \in Int /\ Skew + 1 >= 0
    /\ ClaimLeads \subseteq Nat
    /\ MaxTime \in Nat /\ MaxStripeEvents \in Nat /\ Tolerance \in Nat

VARIABLES
    now,      \* Stripe's clock
    refund,   \* status of the refund at Stripe, "none" before it exists
    emitted,  \* the Stripe events so far
    seen,     \* the Stripe events the relay has recorded
    bundle    \* the current evidence bundle, empty before the claim

vars == <<now, refund, emitted, seen, bundle>>

StripeEvents ==
    [id : Nat, type : StripeTypes, status : RefundStatuses, created : Nat]

RelayNow == now + Skew

Init ==
    /\ now = 1
    /\ refund = "none"
    /\ emitted = {}
    /\ seen = {}
    /\ bundle = [events |-> {}, proofs |-> {}]

-----------------------------------------------------------------------------
\* signTargets: the relay's proof of each new event.
RelayProofs(events) ==
    {[issuer |-> RelayIssuer, target |-> e, sound |-> TRUE] : e \in events}

AddEvidence(events) ==
    bundle' = [events |-> bundle.events \cup events,
               proofs |-> bundle.proofs \cup RelayProofs(events)]

Claimed == bundle.events # {}

\* createAction: revision 1 carries the agent's claim, self-claimed, dated by
\* the client and recorded by the relay's clock.
CreateAction(lead) ==
    /\ ~Claimed
    /\ AddEvidence({[type |-> "requested", phase |-> "INTENT",
                     status |-> "SUCCEEDED", source |-> "SELF_CLAIMED",
                     issuer |-> RelayIssuer,
                     occurred |-> RelayNow + lead, recorded |-> RelayNow]})
    /\ UNCHANGED <<now, refund, emitted, seen>>

\* ingestStripeWebhook: a delivery of e signed by Stripe at signedAt.  An event
\* recorded before is answered as a duplicate and changes nothing.
IngestWebhook(e, signedAt) ==
    /\ Claimed
    /\ SignatureAccepted(signedAt, RelayNow)
    /\ Supported(e)
    /\ e \notin seen
    /\ AddEvidence(Normalize(e, RelayIssuer, RelayNow))
    /\ seen' = seen \cup {e}
    /\ UNCHANGED <<now, refund, emitted>>

-----------------------------------------------------------------------------
(* Stripe and time.                                                        *)

\* The statuses a refund can go to from each status.
NextStatuses ==
    [none |-> {"pending", "requires_action", "succeeded", "failed"},
     pending |-> {"succeeded", "failed", "canceled"},
     requires_action |-> {"pending", "succeeded", "failed", "canceled"},
     succeeded |-> {"failed"},
     failed |-> {},
     canceled |-> {}]

\* The types of the event Stripe sends for a change to a status.
ChangeTypes(status) ==
    IF refund = "none" THEN {"refund.created"}
    ELSE {"refund.updated"}
             \cup (IF status = "failed" THEN {"refund.failed"} ELSE {})

StripeChange(status, type) ==
    /\ Cardinality(emitted) < MaxStripeEvents
    /\ status \in NextStatuses[refund]
    /\ type \in ChangeTypes(status)
    /\ refund' = status
    /\ emitted' = emitted \cup {[id |-> Cardinality(emitted) + 1, type |-> type,
                                 status |-> status, created |-> now]}
    /\ UNCHANGED <<now, seen, bundle>>

Tick ==
    /\ now < MaxTime
    /\ now' = now + 1
    /\ UNCHANGED <<refund, emitted, seen, bundle>>

\* Stripe signs each delivery when it sends it, at any time up to now.
Deliver(e) ==
    /\ e \in emitted
    /\ \E signedAt \in e.created..now : IngestWebhook(e, signedAt)

Next ==
    \/ \E lead \in ClaimLeads : CreateAction(lead)
    \/ \E e \in emitted : Deliver(e)
    \/ \E status \in RefundStatuses, type \in StripeTypes :
          StripeChange(status, type)
    \/ Tick

Spec == Init /\ [][Next]_vars

\* Stripe repeats a delivery, freshly signed, until it is accepted.
FairSpec ==
    Spec /\ \A id \in 1..MaxStripeEvents :
                WF_vars(\E e \in emitted : e.id = id /\ Deliver(e))

-----------------------------------------------------------------------------
\* The variables have their types.
TypeOK ==
    /\ now \in Nat
    /\ refund \in DOMAIN NextStatuses
    /\ emitted \subseteq StripeEvents
    /\ seen \subseteq emitted
    /\ bundle \in Bundles

\* What the API document promises for each status
\* (integrations/RELAY_HTTP_API.md:98-101).
Expected ==
    CASE refund = "none" -> "UNPROVABLE"
      [] refund \in {"pending", "requires_action"} -> "PENDING"
      [] refund = "succeeded" -> "VERIFIED"
      [] refund \in {"failed", "canceled"} -> "CONTRADICTED"

\* Once every Stripe event is recorded, in whatever order they arrived, the
\* verdict is the one promised for the refund's final status (unless the
\* claim was dated after its recording, which spoils the bundle for good).
CaughtUp ==
    seen = emitted /\ BundleValid(bundle) => Verdict(bundle) = Expected

\* The verdict never runs ahead of Stripe: VERIFIED after the refund has
\* succeeded, CONTRADICTED after it has failed or been cancelled.
VerdictJustified ==
    /\ Verdict(bundle) = "VERIFIED" =>
          \E e \in emitted : e.status = "succeeded"
    /\ Verdict(bundle) = "CONTRADICTED" => refund \in {"failed", "canceled"}

\* Deliveries cannot spoil a bundle: only the client's date of the claim can.
ClaimDateDecides ==
    [][Claimed /\ BundleValid(bundle) => BundleValid(bundle')]_vars

\* The verdict of an action with a sound claim ends up being the promised one.
EventuallyCaughtUp ==
    <>[](Claimed /\ BundleValid(bundle) => Verdict(bundle) = Expected)

\* Every bundle of the relay passes the verifier
\* (governance/GLOBAL_ROADMAP.md:106).
RelayBundlesVerify == BundleValid(bundle)
================================================================================
