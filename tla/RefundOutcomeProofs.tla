-------------------------- MODULE RefundOutcomeProofs --------------------------
(***************************************************************************)
(* Proofs about RefundOutcome, for any clocks, bounds, issuers and order   *)
(* of deliveries: the verdict never runs ahead of the refund, and is the   *)
(* promised one as soon as every Stripe event is recorded.                 *)
(***************************************************************************)
EXTENDS RefundOutcome, FiniteSetTheorems, TLAPS

\* Nothing Stripe has sent is dated ahead of its clock.
Clock ==
    /\ now >= 1
    /\ IsFiniteSet(emitted)
    /\ \A e \in emitted : e.created <= now

\* What the events say of the refund: the status it has, and final ones only
\* when it has ended there.
Life ==
    /\ refund = "none" => emitted = {}
    /\ refund # "none" => \E e \in emitted : e.status = refund
    /\ \A e \in emitted :
          /\ e.status # "unknown"
          /\ e.status = "failed" => refund = "failed"
          /\ e.status = "canceled" => refund = "canceled"
          /\ e.status = "succeeded" => refund \in {"succeeded", "failed"}
          /\ e.type = "refund.failed" => e.status = "failed"

Claim(f) == f.type = "requested" /\ f.source = "SELF_CLAIMED"

\* Every event of the bundle is the claim or what a recorded Stripe event says.
Provenance ==
    \A f \in bundle.events :
        Claim(f) \/ \E e \in seen : <<f.type, f.phase, f.status>> \in Descriptors(e.type, e.status)

\* Everything a recorded Stripe event says is in the bundle, and qualifies.
Completeness ==
    \A e \in seen : \A d \in Descriptors(e.type, e.status) :
        \E f \in Qualifying(bundle) : f.type = d[1] /\ f.status = d[3]

IInv == TypeOK /\ Clock /\ Life /\ Provenance /\ Completeness

-----------------------------------------------------------------------------
(* What a Stripe event says.                                               *)

\* Each descriptor is a registered event, and tells the status it came from.
LEMMA DescriptorMeaning ==
  ASSUME NEW type \in StripeTypes, NEW status \in RefundStatuses \ {"unknown"},
         type = "refund.failed" => status = "failed",
         NEW d \in Descriptors(type, status)
  PROVE  \/ d = <<"created", "EFFECT", "SUCCEEDED">>
         \/ d = <<"settlement_pending", "SETTLEMENT", "PENDING">> /\ status \in {"pending", "requires_action"}
         \/ d = <<"settled", "SETTLEMENT", "SUCCEEDED">> /\ status = "succeeded"
         \/ d = <<"settlement_failed", "SETTLEMENT", "FAILED">> /\ status = "failed"
         \/ d = <<"cancelled", "TERMINATION", "CANCELLED">> /\ status = "canceled"
<1>1. CASE d \in CreationDescriptors(type)
  BY <1>1 DEF CreationDescriptors
<1>2. CASE d \in StatusDescriptors(type, status)
  <2>1. CASE status \in {"pending", "requires_action"}
    BY <1>2, <2>1 DEF StatusDescriptors
  <2>2. CASE status = "succeeded"
    BY <1>2, <2>2 DEF StatusDescriptors
  <2>3. CASE status = "failed"
    BY <1>2, <2>3 DEF StatusDescriptors
  <2>4. CASE status = "canceled"
    BY <1>2, <2>4 DEF StatusDescriptors
  <2> QED BY <2>1, <2>2, <2>3, <2>4 DEF RefundStatuses
<1> QED BY <1>1, <1>2 DEF Descriptors

\* Each known status says something.
LEMMA StatusSaid ==
  ASSUME NEW type \in StripeTypes, NEW status \in RefundStatuses,
         type = "refund.failed" => status = "failed"
  PROVE  /\ status \in {"pending", "requires_action"} =>
               <<"settlement_pending", "SETTLEMENT", "PENDING">> \in Descriptors(type, status)
         /\ status = "succeeded" => <<"settled", "SETTLEMENT", "SUCCEEDED">> \in Descriptors(type, status)
         /\ status = "failed" => <<"settlement_failed", "SETTLEMENT", "FAILED">> \in Descriptors(type, status)
         /\ status = "canceled" => <<"cancelled", "TERMINATION", "CANCELLED">> \in Descriptors(type, status)
BY DEF Descriptors, StatusDescriptors

-----------------------------------------------------------------------------
(* Types.                                                                  *)

\* Stripe's events become outcome events of the relay.
LEMMA NormalizedTypes ==
  ASSUME NEW e \in StripeEvents, e.status # "unknown",
         e.type = "refund.failed" => e.status = "failed",
         NEW t \in Nat
  PROVE  /\ Normalize(e, RelayIssuer, t) \subseteq OutcomeEvents
         /\ \A f \in Normalize(e, RelayIssuer, t) :
               /\ f.source = "SYSTEM_OF_RECORD" /\ f.issuer = RelayIssuer
               /\ f.occurred = e.created /\ f.recorded = t
               /\ <<f.type, f.phase, f.status>> \in Descriptors(e.type, e.status)
         /\ \A d \in Descriptors(e.type, e.status) :
               \E f \in Normalize(e, RelayIssuer, t) : f.type = d[1] /\ f.status = d[3]
<1>1. e.type \in StripeTypes /\ e.status \in RefundStatuses \ {"unknown"} /\ e.created \in Nat
  BY DEF StripeEvents
<1> DEFINE Said(d) == [type |-> d[1], phase |-> d[2], status |-> d[3],
                       source |-> "SYSTEM_OF_RECORD", issuer |-> RelayIssuer,
                       occurred |-> e.created, recorded |-> t]
<1>2. Normalize(e, RelayIssuer, t) = {Said(d) : d \in Descriptors(e.type, e.status)}
  BY DEF Normalize
<1>3. ASSUME NEW d \in Descriptors(e.type, e.status)
      PROVE  /\ Said(d) \in OutcomeEvents
             /\ <<Said(d).type, Said(d).phase, Said(d).status>> = d
  <2>1. /\ d[1] \in EventTypes /\ d[2] \in Phases /\ d[3] \in Statuses
        /\ <<d[1], d[2], d[3]>> = d
    <3>1. EventTypes = {"requested", "authorized", "authorization_failed", "dispatched",
             "dispatch_failed", "accepted", "rejected", "created", "creation_failed",
             "settlement_pending", "settled", "settlement_failed", "cancelled", "expired",
             "reversed", "settlement_reversed", "extension"}
      BY DEF EventTypes, RegisteredTypes, RegisteredEvents
    <3> QED BY <1>1, <3>1, DescriptorMeaning DEF Phases, Statuses
  <2>2. RelayIssuer \in Issuers /\ "SYSTEM_OF_RECORD" \in SourceClasses
    BY OutcomeAssumption DEF OutcomeAssumption, SourceClasses
  <2> QED BY <1>1, <2>1, <2>2 DEF OutcomeEvents
<1>4. \A f \in Normalize(e, RelayIssuer, t) : \E d \in Descriptors(e.type, e.status) :
         f = Said(d) /\ f \in OutcomeEvents /\ <<f.type, f.phase, f.status>> = d
  BY <1>2, <1>3
<1>5. Normalize(e, RelayIssuer, t) \subseteq OutcomeEvents
  BY <1>4
<1>6. \A f \in Normalize(e, RelayIssuer, t) :
         <<f.type, f.phase, f.status>> \in Descriptors(e.type, e.status)
  BY <1>4
<1>7. \A f \in Normalize(e, RelayIssuer, t) :
         /\ f.source = "SYSTEM_OF_RECORD" /\ f.issuer = RelayIssuer
         /\ f.occurred = e.created /\ f.recorded = t
  BY <1>2
<1>8. \A d \in Descriptors(e.type, e.status) :
         \E f \in Normalize(e, RelayIssuer, t) : f.type = d[1] /\ f.status = d[3]
  <2> TAKE d \in Descriptors(e.type, e.status)
  <2>1. Said(d) \in Normalize(e, RelayIssuer, t)
    BY <1>2
  <2>2. Said(d).type = d[1] /\ Said(d).status = d[3]
    OBVIOUS
  <2> HIDE DEF Said
  <2> QED BY <2>1, <2>2
<1> QED BY <1>5, <1>6, <1>7, <1>8

\* The relay's clock never reads less than zero.
LEMMA RelayClock ==
  ASSUME TypeOK, Clock
  PROVE  RelayNow \in Nat
BY OutcomeAssumption DEF OutcomeAssumption, TypeOK, Clock, RelayNow

\* Evidence that is added keeps the bundle's type and what qualifies.
LEMMA AddedEvidence ==
  ASSUME TypeOK, NEW events \in SUBSET OutcomeEvents, AddEvidence(events)
  PROVE  /\ bundle' \in Bundles
         /\ bundle'.events = bundle.events \cup events
         /\ Qualifying(bundle) \subseteq Qualifying(bundle')
         /\ \A f \in events : f.source = "SYSTEM_OF_RECORD" /\ f.issuer = RelayIssuer =>
               f \in Qualifying(bundle')
<1>1. bundle.events \in SUBSET OutcomeEvents /\ bundle.proofs \in SUBSET Proofs
  BY DEF TypeOK, Bundles
<1>2. RelayProofs(events) \subseteq Proofs
  <2>1. RelayIssuer \in Issuers
    BY OutcomeAssumption DEF OutcomeAssumption
  <2> DEFINE Proof(f) == [issuer |-> RelayIssuer, target |-> f, sound |-> TRUE]
  <2>2. \A f \in events : Proof(f) \in Proofs
    BY <2>1 DEF Proofs
  <2> HIDE DEF Proof
  <2>3. RelayProofs(events) = {Proof(f) : f \in events}
    BY DEF RelayProofs, Proof
  <2> QED BY <2>2, <2>3
<1>3. /\ bundle'.events = bundle.events \cup events
      /\ bundle'.proofs = bundle.proofs \cup RelayProofs(events)
      /\ bundle' \in Bundles
  BY <1>1, <1>2 DEF AddEvidence, Bundles
<1>4. \A f \in events : \E p \in bundle'.proofs : p.issuer = RelayIssuer /\ p.target = f
  <2> TAKE f \in events
  <2> DEFINE proof == [issuer |-> RelayIssuer, target |-> f, sound |-> TRUE]
  <2>1. proof \in bundle'.proofs
    BY <1>3 DEF RelayProofs
  <2>2. proof.issuer = RelayIssuer /\ proof.target = f
    OBVIOUS
  <2> HIDE DEF proof
  <2> QED BY <2>1, <2>2
<1>5. Qualifying(bundle) \subseteq Qualifying(bundle')
  BY <1>3 DEF Qualifying, ProofCoversEvent
<1>6. \A f \in events : f.source = "SYSTEM_OF_RECORD" /\ f.issuer = RelayIssuer =>
               f \in Qualifying(bundle')
  BY <1>3, <1>4 DEF Qualifying, ProofCoversEvent, StrongSources
<1> QED BY <1>3, <1>5, <1>6

-----------------------------------------------------------------------------
(* The invariant is inductive.                                             *)

LEMMA Initially == Init => IInv
<1> SUFFICES ASSUME Init PROVE IInv
  OBVIOUS
<1>1. TypeOK
  BY DEF Init, TypeOK, Bundles, NextStatuses
<1>2. IsFiniteSet(emitted)
  BY FS_EmptySet DEF Init
<1> QED BY <1>1, <1>2 DEF Init, IInv, Clock, Life, Provenance, Completeness

LEMMA CreateActionStep ==
  ASSUME IInv, NEW lead \in ClaimLeads, CreateAction(lead)
  PROVE  IInv'
<1> DEFINE claim == [type |-> "requested", phase |-> "INTENT",
                     status |-> "SUCCEEDED", source |-> "SELF_CLAIMED",
                     issuer |-> RelayIssuer,
                     occurred |-> RelayNow + lead, recorded |-> RelayNow]
<1>1. RelayNow \in Nat /\ lead \in Nat /\ RelayIssuer \in Issuers
  BY RelayClock, OutcomeAssumption DEF OutcomeAssumption, IInv
<1>2. claim \in OutcomeEvents
  <2>1. "requested" \in EventTypes
    BY DEF EventTypes, RegisteredTypes, RegisteredEvents
  <2> QED BY <1>1, <2>1 DEF OutcomeEvents, Phases, Statuses, SourceClasses
<1>3. Claim(claim) /\ AddEvidence({claim})
  BY DEF CreateAction, Claim
<1> HIDE DEF claim
<1>4. /\ bundle' \in Bundles /\ bundle'.events = bundle.events \cup {claim}
      /\ Qualifying(bundle) \subseteq Qualifying(bundle')
  BY <1>2, <1>3, AddedEvidence DEF IInv
<1>5. UNCHANGED <<now, refund, emitted, seen>>
  BY DEF CreateAction
<1>6. TypeOK' /\ Clock' /\ Life'
  BY <1>4, <1>5 DEF IInv, TypeOK, Clock, Life
<1>7. Provenance'
  BY <1>3, <1>4, <1>5 DEF IInv, Provenance, Claim
<1>8. Completeness'
  BY <1>4, <1>5 DEF IInv, Completeness
<1> QED BY <1>6, <1>7, <1>8 DEF IInv

LEMMA IngestWebhookStep ==
  ASSUME IInv, NEW e \in emitted, NEW signedAt, IngestWebhook(e, signedAt)
  PROVE  IInv'
<1> DEFINE new == Normalize(e, RelayIssuer, RelayNow)
<1>1. e \in StripeEvents /\ e.status # "unknown" /\ (e.type = "refund.failed" => e.status = "failed")
  BY DEF IInv, TypeOK, Life
<1>2. RelayNow \in Nat
  BY RelayClock DEF IInv
<1>3. /\ new \in SUBSET OutcomeEvents
      /\ \A f \in new :
            /\ f.source = "SYSTEM_OF_RECORD" /\ f.issuer = RelayIssuer
            /\ <<f.type, f.phase, f.status>> \in Descriptors(e.type, e.status)
      /\ \A d \in Descriptors(e.type, e.status) : \E f \in new : f.type = d[1] /\ f.status = d[3]
  BY <1>1, <1>2, NormalizedTypes
<1>4. AddEvidence(new) /\ seen' = seen \cup {e} /\ UNCHANGED <<now, refund, emitted>>
  BY DEF IngestWebhook
<1> HIDE DEF new
<1>5. /\ bundle' \in Bundles /\ bundle'.events = bundle.events \cup new
      /\ Qualifying(bundle) \subseteq Qualifying(bundle')
      /\ new \subseteq Qualifying(bundle')
  BY <1>3, <1>4, AddedEvidence DEF IInv
<1>6. TypeOK' /\ Clock' /\ Life'
  BY <1>4, <1>5 DEF IInv, TypeOK, Clock, Life
<1>7. Provenance'
  BY <1>3, <1>4, <1>5 DEF IInv, Provenance, Claim
<1>8. Completeness'
  BY <1>3, <1>4, <1>5 DEF IInv, Completeness
<1> QED BY <1>6, <1>7, <1>8 DEF IInv

\* The refund moves on only from a status that is not final.
LEMMA StripeChangeStep ==
  ASSUME IInv, NEW status \in RefundStatuses, NEW type \in StripeTypes,
         StripeChange(status, type)
  PROVE  IInv'
<1> DEFINE e == [id |-> Cardinality(emitted) + 1, type |-> type, status |-> status, created |-> now]
<1>1. /\ status \in NextStatuses[refund] /\ type \in ChangeTypes(status)
      /\ refund' = status /\ emitted' = emitted \cup {e}
      /\ UNCHANGED <<now, seen, bundle>>
  BY DEF StripeChange
<1>2. /\ refund \notin {"failed", "canceled"}
      /\ refund = "succeeded" => status = "failed"
      /\ status \in {"pending", "requires_action", "succeeded", "failed", "canceled"}
  BY <1>1 DEF IInv, TypeOK, NextStatuses
<1>3. type = "refund.failed" => status = "failed"
  BY <1>1 DEF ChangeTypes
<1>4. e \in StripeEvents /\ e.status = status /\ e.type = type /\ e.created = now
  <2>1. Cardinality(emitted) + 1 \in Nat
    BY FS_CardinalityType DEF IInv, Clock
  <2> QED BY <2>1 DEF StripeEvents, IInv, TypeOK
<1> HIDE DEF e
<1>5. TypeOK'
  BY <1>1, <1>2, <1>4 DEF IInv, TypeOK, NextStatuses
<1>6. Clock'
  <2>1. IsFiniteSet(emitted')
    BY <1>1, FS_AddElement DEF IInv, Clock
  <2> QED BY <1>1, <1>4, <2>1 DEF IInv, TypeOK, Clock
<1>7. Life'
  BY <1>1, <1>2, <1>3, <1>4 DEF IInv, Life
<1>8. Provenance' /\ Completeness'
  BY <1>1 DEF IInv, Provenance, Completeness
<1> QED BY <1>5, <1>6, <1>7, <1>8 DEF IInv

LEMMA TickStep == IInv /\ Tick => IInv'
<1> SUFFICES ASSUME IInv, Tick PROVE IInv'
  OBVIOUS
<1>1. now \in Nat /\ now' = now + 1 /\ UNCHANGED <<refund, emitted, seen, bundle>>
  BY DEF Tick, IInv, TypeOK
<1>2. TypeOK' /\ Life' /\ Provenance' /\ Completeness'
  BY <1>1 DEF IInv, TypeOK, Life, Provenance, Completeness
<1>3. Clock'
  <2>1. \A e \in emitted : e.created \in Nat
    BY DEF IInv, TypeOK, StripeEvents
  <2> QED BY <1>1, <2>1 DEF IInv, Clock
<1> QED BY <1>2, <1>3 DEF IInv

LEMMA Stuttering == IInv /\ UNCHANGED vars => IInv'
BY DEF IInv, TypeOK, Clock, Life, Provenance, Completeness, vars

LEMMA Inductive == IInv /\ [Next]_vars => IInv'
<1> SUFFICES ASSUME IInv, [Next]_vars PROVE IInv'
  OBVIOUS
<1>1. ASSUME NEW lead \in ClaimLeads, CreateAction(lead) PROVE IInv'
  BY <1>1, CreateActionStep
<1>2. ASSUME NEW e \in emitted, Deliver(e) PROVE IInv'
  BY <1>2, IngestWebhookStep DEF Deliver
<1>3. ASSUME NEW status \in RefundStatuses, NEW type \in StripeTypes, StripeChange(status, type)
      PROVE  IInv'
  BY <1>3, StripeChangeStep
<1>4. CASE Tick
  BY <1>4, TickStep
<1>5. CASE UNCHANGED vars
  BY <1>5, Stuttering
<1> QED BY <1>1, <1>2, <1>3, <1>4, <1>5 DEF Next

-----------------------------------------------------------------------------
(* What the bundle says of the refund.                                     *)

\* An event of the bundle with the status of a refund it stands for.
Tells(f, status) ==
    \/ f.type = "created"
    \/ f.type = "settlement_pending"
    \/ f.type = "settled" /\ f.status = "SUCCEEDED" /\ status = "succeeded"
    \/ f.type = "settlement_failed" /\ status = "failed"
    \/ f.type = "cancelled" /\ status = "canceled"

LEMMA EventMeaning ==
  ASSUME IInv, NEW f \in bundle.events, ~Claim(f)
  PROVE  \E e \in seen : e \in emitted /\ Tells(f, e.status)
<1>1. PICK e \in seen : <<f.type, f.phase, f.status>> \in Descriptors(e.type, e.status)
  BY DEF IInv, Provenance
<1>2. e \in emitted /\ e.type \in StripeTypes /\ e.status \in RefundStatuses \ {"unknown"}
      /\ (e.type = "refund.failed" => e.status = "failed")
  BY DEF IInv, TypeOK, Life, StripeEvents
<1> DEFINE d == <<f.type, f.phase, f.status>>
<1>3. f.type = d[1] /\ f.status = d[3]
  OBVIOUS
<1>4. \/ d = <<"created", "EFFECT", "SUCCEEDED">>
      \/ d = <<"settlement_pending", "SETTLEMENT", "PENDING">> /\ e.status \in {"pending", "requires_action"}
      \/ d = <<"settled", "SETTLEMENT", "SUCCEEDED">> /\ e.status = "succeeded"
      \/ d = <<"settlement_failed", "SETTLEMENT", "FAILED">> /\ e.status = "failed"
      \/ d = <<"cancelled", "TERMINATION", "CANCELLED">> /\ e.status = "canceled"
  BY <1>1, <1>2, DescriptorMeaning
<1> HIDE DEF d
<1>5. Tells(f, e.status)
  BY <1>3, <1>4 DEF Tells
<1> QED BY <1>2, <1>5

\* A claim qualifies for nothing, so what contradicts or settles is Stripe's.
LEMMA QualifyingMeaning ==
  ASSUME IInv
  PROVE  /\ Contradicting(bundle) # {} => refund \in {"failed", "canceled"}
         /\ Settled(bundle) # {} => \E e \in emitted : e.status = "succeeded"
<1>1. \A f \in Qualifying(bundle) : f \in bundle.events /\ ~Claim(f)
  BY DEF Qualifying, StrongSources, Claim
<1>2. ASSUME NEW f \in Contradicting(bundle) PROVE refund \in {"failed", "canceled"}
  <2>1. f \in Qualifying(bundle)
    BY <1>2 DEF Contradicting, Reversed, Cancelled, FailedSettlement
  <2>2. PICK e \in seen : e \in emitted /\ Tells(f, e.status)
    BY <1>1, <2>1, EventMeaning
  <2>3. e.status \in {"failed", "canceled"}
    BY <1>2, <2>2 DEF Contradicting, Reversed, Cancelled, FailedSettlement, Tells
  <2> QED BY <2>2, <2>3 DEF IInv, Life
<1>3. ASSUME NEW f \in Settled(bundle) PROVE \E e \in emitted : e.status = "succeeded"
  <2>1. f \in Qualifying(bundle) /\ f.type = "settled"
    BY <1>3 DEF Settled
  <2>2. PICK e \in seen : e \in emitted /\ Tells(f, e.status)
    BY <1>1, <2>1, EventMeaning
  <2> QED BY <2>1, <2>2 DEF Tells
<1> QED BY <1>2, <1>3

\* What the refund's present status says is in the bundle once it is recorded.
LEMMA StatusRecorded ==
  ASSUME IInv, NEW e \in seen
  PROVE  /\ e.status \in {"pending", "requires_action"} => Provisional(bundle) # {}
         /\ e.status = "succeeded" => Settled(bundle) # {}
         /\ e.status \in {"failed", "canceled"} => Contradicting(bundle) # {}
<1>1. e \in emitted /\ e.type \in StripeTypes /\ e.status \in RefundStatuses
      /\ (e.type = "refund.failed" => e.status = "failed")
  BY DEF IInv, TypeOK, Life, StripeEvents
<1>2. ASSUME NEW type, NEW phase, NEW status,
             <<type, phase, status>> \in Descriptors(e.type, e.status)
      PROVE  \E f \in Qualifying(bundle) : f.type = type /\ f.status = status
  <2>1. <<type, phase, status>>[1] = type /\ <<type, phase, status>>[3] = status
    OBVIOUS
  <2> QED BY <1>2, <2>1 DEF IInv, Completeness
<1>3. CASE e.status \in {"pending", "requires_action"}
  <2>1. <<"settlement_pending", "SETTLEMENT", "PENDING">> \in Descriptors(e.type, e.status)
    BY <1>1, <1>3, StatusSaid
  <2> QED BY <1>2, <1>3, <2>1 DEF Provisional, PendingSettlement
<1>4. CASE e.status = "succeeded"
  <2>1. <<"settled", "SETTLEMENT", "SUCCEEDED">> \in Descriptors(e.type, e.status)
    BY <1>1, <1>4, StatusSaid
  <2> QED BY <1>2, <1>4, <2>1 DEF Settled
<1>5. CASE e.status = "failed"
  <2>1. <<"settlement_failed", "SETTLEMENT", "FAILED">> \in Descriptors(e.type, e.status)
    BY <1>1, <1>5, StatusSaid
  <2> QED BY <1>2, <1>5, <2>1 DEF Contradicting, FailedSettlement
<1>6. CASE e.status = "canceled"
  <2>1. <<"cancelled", "TERMINATION", "CANCELLED">> \in Descriptors(e.type, e.status)
    BY <1>1, <1>6, StatusSaid
  <2> QED BY <1>2, <1>6, <2>1 DEF Contradicting, Cancelled
<1> QED BY <1>3, <1>4, <1>5, <1>6

-----------------------------------------------------------------------------
\* What the bundle holds is what recorded Stripe events say, at every moment.
THEOREM OutcomeInvariant == Spec => []IInv
BY Initially, Inductive, PTL DEF Spec

\* The variables keep their types for any bounds and clocks.
THEOREM OutcomeTypeCorrect == Spec => []TypeOK
<1>1. IInv => TypeOK
  BY DEF IInv
<1> QED BY <1>1, OutcomeInvariant, PTL

\* No order of deliveries makes the verdict run ahead of the refund at Stripe.
THEOREM VerdictIsJustified == Spec => []VerdictJustified
<1>1. IInv => VerdictJustified
  <2> SUFFICES ASSUME IInv PROVE VerdictJustified
    OBVIOUS
  <2>1. Verdict(bundle) = "VERIFIED" => Settled(bundle) # {}
    BY DEF Verdict
  <2>2. Verdict(bundle) = "CONTRADICTED" => Contradicting(bundle) # {}
    BY DEF Verdict
  <2> QED BY <2>1, <2>2, QualifyingMeaning DEF VerdictJustified
<1> QED BY <1>1, OutcomeInvariant, PTL

\* Once every Stripe event is recorded the verdict is the promised one, in
\* whatever order they came.
THEOREM VerdictCatchesUp == Spec => []CaughtUp
<1>1. IInv => CaughtUp
  <2> SUFFICES ASSUME IInv, seen = emitted, BundleValid(bundle)
               PROVE  Verdict(bundle) = Expected
    BY DEF CaughtUp
  <2>1. refund \in {"none", "pending", "requires_action", "succeeded", "failed", "canceled"}
    BY DEF IInv, TypeOK, NextStatuses
  <2>2. CASE refund = "none"
    <3>1. \A f \in bundle.events : Claim(f)
      BY <2>2, EventMeaning DEF IInv, Life
    <3>2. Provisional(bundle) = {} /\ Settled(bundle) = {} /\ Contradicting(bundle) = {}
      BY <3>1 DEF Claim, Provisional, PendingSettlement, Created, Accepted, Settled,
           Contradicting, Reversed, Cancelled, FailedSettlement, Qualifying, StrongSources
    <3> QED BY <2>2, <3>2 DEF Verdict, Expected
  <2>3. CASE refund # "none"
    <3>1. PICK e \in emitted : e.status = refund
      BY <2>3 DEF IInv, Life
    <3>2. CASE refund \in {"failed", "canceled"}
      BY <3>1, <3>2, StatusRecorded DEF Verdict, Expected
    <3>3. CASE refund = "succeeded"
      BY <3>1, <3>3, StatusRecorded, QualifyingMeaning DEF Verdict, Expected
    <3>4. CASE refund \in {"pending", "requires_action"}
      <4>1. \A x \in emitted : x.status # "succeeded"
        BY <3>4 DEF IInv, Life
      <4> QED BY <3>1, <3>4, <4>1, StatusRecorded, QualifyingMeaning DEF Verdict, Expected
    <3> QED BY <2>1, <2>3, <3>2, <3>3, <3>4
  <2> QED BY <2>2, <2>3
<1> QED BY <1>1, OutcomeInvariant, PTL

\* While the relay's clock is not behind Stripe's, no delivery spoils a bundle.
THEOREM DeliveriesKeepValid ==
  ASSUME Skew >= 0
  PROVE  Spec => ClaimDateDecides
<1>1. IInv /\ [Next]_vars =>
         [Claimed /\ BundleValid(bundle) => BundleValid(bundle')]_vars
  <2> SUFFICES ASSUME IInv, Next, Claimed, BundleValid(bundle)
               PROVE  BundleValid(bundle')
    OBVIOUS
  <2>1. CASE UNCHANGED bundle
    BY <2>1
  <2>2. ASSUME NEW e \in emitted, NEW signedAt, IngestWebhook(e, signedAt)
        PROVE  BundleValid(bundle')
    <3> DEFINE new == Normalize(e, RelayIssuer, RelayNow)
    <3>1. /\ e.status \in RefundStatuses \ {"unknown"} /\ e.type \in StripeTypes
          /\ (e.type = "refund.failed" => e.status = "failed")
          /\ e \in StripeEvents /\ e.created \in Nat /\ e.created <= now
      BY DEF IInv, TypeOK, Clock, Life, StripeEvents
    <3>2. RelayNow \in Nat /\ e.created <= RelayNow
      BY <3>1, RelayClock, OutcomeAssumption DEF OutcomeAssumption, IInv, TypeOK, RelayNow
    <3>3. \A f \in new : EventValid(f)
      <4> TAKE f \in new
      <4>1. /\ f.source = "SYSTEM_OF_RECORD" /\ f.occurred = e.created /\ f.recorded = RelayNow
            /\ <<f.type, f.phase, f.status>> \in Descriptors(e.type, e.status)
        BY <3>1, <3>2, NormalizedTypes
      <4>2. <<f.type, f.phase, f.status>> \in
               {<<"created", "EFFECT", "SUCCEEDED">>, <<"settlement_pending", "SETTLEMENT", "PENDING">>,
                <<"settled", "SETTLEMENT", "SUCCEEDED">>, <<"settlement_failed", "SETTLEMENT", "FAILED">>,
                <<"cancelled", "TERMINATION", "CANCELLED">>}
        BY <3>1, <4>1, DescriptorMeaning
      <4>3. <<f.type, f.phase, f.status>> \in RegisteredEvents
        BY <4>2 DEF RegisteredEvents
      <4>4. f.status \in PhaseStatuses(f.phase) /\ f.phase \in SourcePhases(f.source)
        BY <4>1, <4>2 DEF PhaseStatuses, SourcePhases, Phases
      <4> QED BY <3>2, <4>1, <4>3, <4>4 DEF EventValid, InVocabulary
    <3>4. AddEvidence(new)
      BY <2>2 DEF IngestWebhook
    <3> HIDE DEF new
    <3>5. \A p \in RelayProofs(new) : p.sound /\ p.target \in new
      BY DEF RelayProofs
    <3>6. bundle'.events = bundle.events \cup new /\ bundle'.proofs = bundle.proofs \cup RelayProofs(new)
      BY <3>4 DEF AddEvidence
    <3> QED BY <3>3, <3>5, <3>6 DEF BundleValid
  <2>3. CASE \E lead \in ClaimLeads : CreateAction(lead)
    BY <2>3 DEF CreateAction
  <2>4. CASE Tick \/ \E status \in RefundStatuses, type \in StripeTypes : StripeChange(status, type)
    BY <2>1, <2>4 DEF Tick, StripeChange
  <2> QED BY <2>2, <2>3, <2>4 DEF Next, Deliver
<1> QED BY <1>1, OutcomeInvariant, PTL DEF Spec, ClaimDateDecides
================================================================================
