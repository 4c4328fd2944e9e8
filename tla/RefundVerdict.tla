----------------------------- MODULE RefundVerdict -----------------------------
(***************************************************************************)
(* The ruleset refund-v0.1 of the verdict engine                           *)
(* (packages/verdict-engine/src/index.mjs), on top of the structural       *)
(* verifier's judgement of events and proofs.                              *)
(*                                                                         *)
(* A bundle is a set of events and a set of proofs.  A proof is one        *)
(* issuer's signature over one event; it is sound when it verifies.  The   *)
(* engine sorts events by time, which orders decisive_events and nothing   *)
(* else, so events are not ordered here.                                   *)
(***************************************************************************)
EXTENDS OutcomeVocabulary

Proofs == [issuer : Issuers, target : OutcomeEvents, sound : BOOLEAN]

Bundles == [events : SUBSET OutcomeEvents, proofs : SUBSET Proofs]

\* verifyBundle does not report INVALID: one bad event or one proof that does
\* not resolve or verify spoils the whole bundle.
BundleValid(b) ==
    /\ \A e \in b.events : EventValid(e)
    /\ \A p \in b.proofs : p.sound /\ p.target \in b.events

StrongSources == {"SYSTEM_OF_RECORD", "INDEPENDENTLY_SETTLED"}

\* A proof counts for an event when the event's own issuer gave it.
ProofCoversEvent(b, e) ==
    \E p \in b.proofs : p.issuer = e.issuer /\ p.target = e

\* Mutant of Qualifying: no proof is asked for.
QualifyingUnproved(b) == {e \in b.events : e.source \in StrongSources}

Qualifying(b) ==
    {e \in b.events : e.source \in StrongSources /\ ProofCoversEvent(b, e)}

\* Mutant of Settled: the source and the proof are not looked at.
SettledAnySource(b) ==
    {e \in b.events : e.type = "settled" /\ e.status = "SUCCEEDED"}

Settled(b) ==
    {e \in Qualifying(b) : e.type = "settled" /\ e.status = "SUCCEEDED"}

Reversed(b) ==
    {e \in Qualifying(b) : /\ e.type \in {"reversed", "settlement_reversed"}
                           /\ e.status \in {"SUCCEEDED", "REVERSED"}}

FailedSettlement(b) ==
    {e \in Qualifying(b) : /\ e.type \in {"settlement_failed", "settled"}
                           /\ e.status = "FAILED"}

PendingSettlement(b) ==
    {e \in Qualifying(b) : e.type = "settlement_pending" /\ e.status = "PENDING"}

Cancelled(b) ==
    {e \in Qualifying(b) : e.type = "cancelled" /\ e.status = "CANCELLED"}

Created(b) ==
    {e \in Qualifying(b) : e.type = "created" /\ e.status = "SUCCEEDED"}

\* Of any source, signed or not.
Accepted(b) ==
    {e \in b.events : e.type \in {"accepted", "created"} /\ e.status = "SUCCEEDED"}

Contradicting(b) == Reversed(b) \cup Cancelled(b) \cup FailedSettlement(b)

Provisional(b) == PendingSettlement(b) \cup Created(b) \cup Accepted(b)

\* Mutants of Verdict: settlement is looked at before what contradicts it; the
\* structural status is reported in place of a verdict.
VerdictSettledFirst(b) ==
    IF ~BundleValid(b) THEN "UNPROVABLE"
    ELSE IF Settled(b) # {} THEN "VERIFIED"
    ELSE IF Contradicting(b) # {} THEN "CONTRADICTED"
    ELSE IF Provisional(b) # {} THEN "PENDING"
    ELSE "UNPROVABLE"

VerdictOfStatus(b) ==
    IF ~BundleValid(b) THEN "INVALID"
    ELSE IF Contradicting(b) # {} THEN "CONTRADICTED"
    ELSE IF Settled(b) # {} THEN "VERIFIED"
    ELSE IF Provisional(b) # {} THEN "PENDING"
    ELSE "UNPROVABLE"

Verdict(b) ==
    IF ~BundleValid(b) THEN "UNPROVABLE"
    ELSE IF Contradicting(b) # {} THEN "CONTRADICTED"
    ELSE IF Settled(b) # {} THEN "VERIFIED"
    ELSE IF Provisional(b) # {} THEN "PENDING"
    ELSE "UNPROVABLE"

\* Mutant of Decisive: a pending refund is always explained by its creation.
DecisiveCreation(b) ==
    CASE Verdict(b) = "CONTRADICTED" -> Settled(b) \cup Contradicting(b)
      [] Verdict(b) = "VERIFIED" -> Settled(b)
      [] Verdict(b) = "PENDING" -> Created(b)
      [] OTHER -> {}

\* The member decisive_events of the evaluation.
Decisive(b) ==
    CASE Verdict(b) = "CONTRADICTED" -> Settled(b) \cup Contradicting(b)
      [] Verdict(b) = "VERIFIED" -> Settled(b)
      [] Verdict(b) = "PENDING" ->
            IF PendingSettlement(b) # {} THEN PendingSettlement(b)
            ELSE IF Created(b) # {} THEN Created(b)
            ELSE Accepted(b)
      [] OTHER -> {}

Verdicts == {"UNPROVABLE", "PENDING", "VERIFIED", "CONTRADICTED"}

\* How far evidence has taken a verdict.
Rank(v) ==
    CASE v = "UNPROVABLE" -> 0
      [] v = "PENDING" -> 1
      [] v = "VERIFIED" -> 2
      [] OTHER -> 3
================================================================================
