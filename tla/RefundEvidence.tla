----------------------------- MODULE RefundEvidence -----------------------------
(***************************************************************************)
(* An Evidence Bundle that grows, as every producer of revisions makes it  *)
(* grow: the events and proofs of the previous revision are kept and new   *)
(* ones are added (service.mjs, ingestStripeWebhook and signTargets).  The *)
(* verdict is recalculated from each bundle and never stored.              *)
(***************************************************************************)
EXTENDS RefundVerdict, FiniteSets

CONSTANTS
    Batches,    \* the sets of events that may be added together
    MaxEvents   \* bound on the events of a bundle

ASSUME BatchesAssumption == Batches \subseteq SUBSET OutcomeEvents
ASSUME MaxEventsAssumption == MaxEvents \in Nat

VARIABLE bundle

Init == bundle = [events |-> {}, proofs |-> {}]

\* Proofs of the events by the given issuers, sound ones or not.
Signatures(events, issuers, sound) ==
    {[issuer |-> i, target |-> e, sound |-> sound] : i \in issuers, e \in events}

AddEvents(events, signatures) ==
    /\ events \cap bundle.events = {}
    /\ Cardinality(bundle.events) + Cardinality(events) <= MaxEvents
    /\ bundle' = [events |-> bundle.events \cup events,
                  proofs |-> bundle.proofs \cup signatures]

Next ==
    \E events \in Batches, issuers \in SUBSET Issuers, sound \in BOOLEAN :
        AddEvents(events, Signatures(events, issuers, sound))

Spec == Init /\ [][Next]_bundle

-----------------------------------------------------------------------------
\* The bundle is made of events and of proofs about them, and its verdict is one
\* of four.
TypeOK ==
    /\ bundle \in Bundles
    /\ \A p \in bundle.proofs : p.target \in bundle.events
    /\ Verdict(bundle) \in Verdicts

\* More evidence never takes a verdict back: a pending refund does not become
\* unprovable, a verified one pending, nor a contradicted one anything else,
\* in whatever order the events come; only a structurally invalid bundle
\* forfeits its verdict (evaluateRefund's order of cases).
VerdictNeverRetreats ==
    [][BundleValid(bundle') => Rank(Verdict(bundle)) <= Rank(Verdict(bundle'))]_bundle

\* An event that is not a proved observation of a strong source can at most
\* turn an unprovable refund into a pending one
\* (evidence/protocol/TP-PROTO-002_ACCEPTANCE.md:22).
WeakEvidenceOnlyPends ==
    [][BundleValid(bundle') /\ Qualifying(bundle') = Qualifying(bundle) =>
          \/ Verdict(bundle') = Verdict(bundle)
          \/ Verdict(bundle) = "UNPROVABLE" /\ Verdict(bundle') = "PENDING"]_bundle

\* VERIFIED and CONTRADICTED rest on an event whose own issuer signed it and
\* whose source is strong, and no weaker event is listed as decisive.
StrongVerdictsProved ==
    Verdict(bundle) \in {"VERIFIED", "CONTRADICTED"} =>
        /\ Decisive(bundle) # {}
        /\ \A e \in Decisive(bundle) :
              /\ e.source \in StrongSources
              /\ \E p \in bundle.proofs :
                    p.sound /\ p.target = e /\ p.issuer = e.issuer

\* The bundle cut down to its decisive events, with their proofs.
Excerpt(b) ==
    [events |-> Decisive(b),
     proofs |-> {p \in b.proofs : p.target \in Decisive(b)}]

\* decisive_events explain the verdict: evaluated alone they give the same.
DecisiveSuffices == Verdict(Excerpt(bundle)) = Verdict(bundle)

================================================================================
