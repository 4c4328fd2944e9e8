--------------------------- MODULE RefundEvidenceProofs ---------------------------
(***************************************************************************)
(* Proofs about the verdict of a growing bundle, for any issuers, any      *)
(* events and any number of them.  The classes of events the rules look at *)
(* only grow with the bundle (ClassesGrow), which gives the monotonicity   *)
(* of the verdict; and cutting a bundle down to its decisive events keeps  *)
(* just those classes that decided (ExcerptClasses).                       *)
(***************************************************************************)
EXTENDS RefundEvidence, TLAPS

LEMMA VerdictType == ASSUME NEW b PROVE Verdict(b) \in Verdicts
BY DEF Verdict, Verdicts

\* A bundle with more events and proofs has more events of every class.
LEMMA ClassesGrow ==
    ASSUME NEW b, NEW c, b.events \subseteq c.events, b.proofs \subseteq c.proofs
    PROVE  /\ Qualifying(b) \subseteq Qualifying(c)
           /\ Settled(b) \subseteq Settled(c)
           /\ Contradicting(b) \subseteq Contradicting(c)
           /\ Provisional(b) \subseteq Provisional(c)
<1>1. Qualifying(b) \subseteq Qualifying(c)
  BY DEF Qualifying, ProofCoversEvent
<1>2. Settled(b) \subseteq Settled(c)
  BY <1>1 DEF Settled
<1>3. Contradicting(b) \subseteq Contradicting(c)
  BY <1>1 DEF Contradicting, Reversed, Cancelled, FailedSettlement
<1>4. Provisional(b) \subseteq Provisional(c)
  BY <1>1 DEF Provisional, PendingSettlement, Created, Accepted
<1> QED BY <1>1, <1>2, <1>3, <1>4

LEMMA MoreEvidence ==
    ASSUME NEW b, NEW c, b.events \subseteq c.events, b.proofs \subseteq c.proofs,
           BundleValid(c)
    PROVE  Rank(Verdict(b)) <= Rank(Verdict(c))
<1>1. /\ Settled(b) \subseteq Settled(c)
      /\ Contradicting(b) \subseteq Contradicting(c)
      /\ Provisional(b) \subseteq Provisional(c)
  BY ClassesGrow
<1>2. Rank(Verdict(c)) \in 0..3
  BY DEF Rank
<1>3. CASE Verdict(b) = "UNPROVABLE"
  BY <1>2, <1>3 DEF Rank
<1>4. CASE Verdict(b) = "PENDING"
  <2>1. Provisional(c) # {}
    BY <1>1, <1>4 DEF Verdict
  <2>2. Verdict(c) \in {"PENDING", "VERIFIED", "CONTRADICTED"}
    BY <2>1 DEF Verdict
  <2> QED BY <1>4, <2>2 DEF Rank
<1>5. CASE Verdict(b) = "VERIFIED"
  <2>1. Settled(c) # {}
    BY <1>1, <1>5 DEF Verdict
  <2>2. Verdict(c) \in {"VERIFIED", "CONTRADICTED"}
    BY <2>1 DEF Verdict
  <2> QED BY <1>5, <2>2 DEF Rank
<1>6. CASE Verdict(b) = "CONTRADICTED"
  <2>1. Contradicting(c) # {}
    BY <1>1, <1>6 DEF Verdict
  <2>2. Verdict(c) = "CONTRADICTED"
    BY <2>1 DEF Verdict
  <2> QED BY <1>6, <2>2 DEF Rank
<1> QED BY <1>3, <1>4, <1>5, <1>6, VerdictType DEF Verdicts

\* A step keeps what the bundle holds.
LEMMA StepGrows ==
    ASSUME [Next]_bundle
    PROVE  bundle.events \subseteq bundle'.events /\ bundle.proofs \subseteq bundle'.proofs
<1>1. CASE Next
  BY <1>1 DEF Next, AddEvents
<1>2. CASE UNCHANGED bundle
  BY <1>2
<1> QED BY <1>1, <1>2

\* More evidence never takes a verdict back (evaluateRefund).
THEOREM NeverRetreats == Spec => VerdictNeverRetreats
<1>1. ASSUME [Next]_bundle
      PROVE  [BundleValid(bundle') =>
                 Rank(Verdict(bundle)) <= Rank(Verdict(bundle'))]_bundle
  BY <1>1, StepGrows, MoreEvidence
<1> QED BY <1>1, PTL DEF Spec, VerdictNeverRetreats

-----------------------------------------------------------------------------
\* Without a new qualifying event only the accepted ones can matter.
LEMMA SameQualifying ==
    ASSUME NEW b, NEW c, b.events \subseteq c.events, b.proofs \subseteq c.proofs,
           BundleValid(c), Qualifying(c) = Qualifying(b)
    PROVE  \/ Verdict(c) = Verdict(b)
           \/ Verdict(b) = "UNPROVABLE" /\ Verdict(c) = "PENDING"
           \/ ~BundleValid(b)
<1>1. Settled(c) = Settled(b) /\ Contradicting(c) = Contradicting(b)
  BY DEF Settled, Contradicting, Reversed, Cancelled, FailedSettlement
<1>2. Provisional(b) \subseteq Provisional(c)
  BY ClassesGrow
<1> QED BY <1>1, <1>2 DEF Verdict

\* No step repairs an invalid bundle: a proof comes with the event it is about.
LEMMA StaysInvalid ==
    ASSUME TypeOK, [Next]_bundle, BundleValid(bundle')
    PROVE  BundleValid(bundle)
<1>1. CASE Next
  <2>1. /\ bundle.events \subseteq bundle'.events
        /\ bundle.proofs \subseteq bundle'.proofs
    BY <1>1, StepGrows
  <2> QED BY <2>1 DEF BundleValid, TypeOK
<1>2. CASE UNCHANGED bundle
  BY <1>2 DEF BundleValid, EventValid, InVocabulary
<1> QED BY <1>1, <1>2

\* The proofs a step adds are proofs of the events it adds, by known issuers.
LEMMA SignatureTypes ==
    ASSUME NEW events \in SUBSET OutcomeEvents, NEW issuers \in SUBSET Issuers,
           NEW sound \in BOOLEAN
    PROVE  /\ Signatures(events, issuers, sound) \subseteq Proofs
           /\ \A p \in Signatures(events, issuers, sound) : p.target \in events
BY DEF Signatures, Proofs

\* The bundle keeps its type, and its proofs stay resolvable.
THEOREM TypeCorrect == Spec => []TypeOK
<1>1. Init => TypeOK
  BY VerdictType DEF Init, TypeOK, Bundles
<1>2. ASSUME TypeOK, [Next]_bundle PROVE TypeOK'
  <2>1. CASE Next
    <3>1. PICK events \in Batches, issuers \in SUBSET Issuers, sound \in BOOLEAN :
             AddEvents(events, Signatures(events, issuers, sound))
      BY <2>1 DEF Next
    <3> DEFINE signatures == Signatures(events, issuers, sound)
    <3>2. events \in SUBSET OutcomeEvents
      BY BatchesAssumption
    <3>3. /\ signatures \subseteq Proofs
          /\ \A p \in signatures : p.target \in events
      BY <3>2, SignatureTypes
    <3>4. bundle' = [events |-> bundle.events \cup events,
                     proofs |-> bundle.proofs \cup signatures]
      BY <3>1 DEF AddEvents
    <3> HIDE DEF signatures
    <3>5. bundle.events \subseteq OutcomeEvents /\ bundle.proofs \subseteq Proofs
      BY <1>2 DEF TypeOK, Bundles
    <3>6. bundle' \in Bundles
      BY <3>2, <3>3, <3>4, <3>5 DEF Bundles
    <3>7. \A p \in bundle'.proofs : p.target \in bundle'.events
      BY <1>2, <3>3, <3>4 DEF TypeOK
    <3>8. Verdict(bundle') \in Verdicts
      BY VerdictType
    <3> QED BY <3>6, <3>7, <3>8 DEF TypeOK
  <2>2. CASE UNCHANGED bundle
    <3>1. Verdict(bundle') \in Verdicts
      BY VerdictType
    <3> QED BY <1>2, <2>2, <3>1 DEF TypeOK
  <2> QED BY <1>2, <2>1, <2>2
<1> QED BY <1>1, <1>2, PTL DEF Spec

\* Weak evidence at most turns UNPROVABLE into PENDING (evaluateRefund).
THEOREM WeakEvidence == Spec => WeakEvidenceOnlyPends
<1>1. ASSUME TypeOK, [Next]_bundle
      PROVE  [BundleValid(bundle') /\ Qualifying(bundle') = Qualifying(bundle) =>
                 \/ Verdict(bundle') = Verdict(bundle)
                 \/ /\ Verdict(bundle) = "UNPROVABLE"
                    /\ Verdict(bundle') = "PENDING"]_bundle
  BY <1>1, StepGrows, StaysInvalid, SameQualifying
<1> QED BY <1>1, TypeCorrect, PTL DEF Spec, WeakEvidenceOnlyPends

-----------------------------------------------------------------------------
\* What is decisive for a strong verdict qualifies.
LEMMA DecisiveQualifies ==
    ASSUME NEW b, Verdict(b) \in {"VERIFIED", "CONTRADICTED"}
    PROVE  Decisive(b) # {} /\ Decisive(b) \subseteq Qualifying(b) /\ BundleValid(b)
<1>1. Settled(b) \subseteq Qualifying(b) /\ Contradicting(b) \subseteq Qualifying(b)
  BY DEF Settled, Contradicting, Reversed, Cancelled, FailedSettlement
<1>2. BundleValid(b)
  BY DEF Verdict
<1>3. CASE Verdict(b) = "VERIFIED"
  <2>1. Decisive(b) = Settled(b) /\ Settled(b) # {}
    BY <1>3 DEF Decisive, Verdict
  <2> QED BY <1>1, <1>2, <2>1
<1>4. CASE Verdict(b) = "CONTRADICTED"
  <2>1. Decisive(b) = Settled(b) \cup Contradicting(b) /\ Contradicting(b) # {}
    BY <1>4 DEF Decisive, Verdict
  <2> QED BY <1>1, <1>2, <2>1
<1> QED BY <1>3, <1>4

\* Strong verdicts rest on proved observations of strong sources.
THEOREM StrongVerdicts == Spec => []StrongVerdictsProved
<1>1. TypeOK => StrongVerdictsProved
  BY DecisiveQualifies
  DEF StrongVerdictsProved, Qualifying, ProofCoversEvent, BundleValid
<1> QED BY <1>1, TypeCorrect, PTL

\* The classes of a valid bundle's excerpt are its own, cut down.
LEMMA ExcerptClasses ==
    ASSUME NEW b, BundleValid(b)
    PROVE  /\ BundleValid(Excerpt(b))
           /\ Settled(Excerpt(b)) = Settled(b) \cap Decisive(b)
           /\ Contradicting(Excerpt(b)) = Contradicting(b) \cap Decisive(b)
           /\ Provisional(Excerpt(b)) = Provisional(b) \cap Decisive(b)
<1> DEFINE x == Excerpt(b)
           d == Decisive(b)
<1>1. x.events = d /\ x.proofs = {p \in b.proofs : p.target \in d}
  BY DEF Excerpt
<1>2. d \subseteq b.events
  BY DEF Decisive, Settled, Contradicting, Reversed, Cancelled, FailedSettlement,
         PendingSettlement, Created, Accepted, Qualifying
<1> HIDE DEF x, d
<1>3. BundleValid(x)
  BY <1>1, <1>2 DEF BundleValid
<1>4. Qualifying(x) = Qualifying(b) \cap d
  BY <1>1, <1>2 DEF Qualifying, ProofCoversEvent
<1>5. Settled(x) = Settled(b) \cap d
  BY <1>4 DEF Settled
<1>6. Contradicting(x) = Contradicting(b) \cap d
  BY <1>4 DEF Contradicting, Reversed, Cancelled, FailedSettlement
<1>7. Accepted(x) = Accepted(b) \cap d
  BY <1>1, <1>2 DEF Accepted
<1>8. Provisional(x) = Provisional(b) \cap d
  BY <1>4, <1>7 DEF Provisional, PendingSettlement, Created
<1> QED BY <1>3, <1>5, <1>6, <1>8 DEF x, d

LEMMA ExcerptVerdict == ASSUME NEW b PROVE Verdict(Excerpt(b)) = Verdict(b)
<1> DEFINE x == Excerpt(b)
<1>1. CASE ~BundleValid(b)
  <2>1. Verdict(b) = "UNPROVABLE" /\ Decisive(b) = {}
    BY <1>1 DEF Verdict, Decisive
  <2>2. x.events = {}
    BY <2>1 DEF Excerpt
  <2> HIDE DEF x
  <2>3. Settled(x) = {} /\ Contradicting(x) = {} /\ Provisional(x) = {}
    BY <2>2 DEF Settled, Contradicting, Reversed, Cancelled, FailedSettlement,
                Provisional, PendingSettlement, Created, Accepted, Qualifying
  <2>4. Verdict(x) = "UNPROVABLE"
    BY <2>3 DEF Verdict
  <2> QED BY <2>1, <2>4 DEF x
<1>2. CASE BundleValid(b)
  <2>1. /\ BundleValid(x)
        /\ Settled(x) = Settled(b) \cap Decisive(b)
        /\ Contradicting(x) = Contradicting(b) \cap Decisive(b)
        /\ Provisional(x) = Provisional(b) \cap Decisive(b)
    BY <1>2, ExcerptClasses
  <2> HIDE DEF x
  <2>2. CASE Verdict(b) = "CONTRADICTED"
    <3>1. Decisive(b) = Settled(b) \cup Contradicting(b) /\ Contradicting(b) # {}
      BY <2>2 DEF Decisive, Verdict
    <3>2. Contradicting(x) # {}
      BY <2>1, <3>1
    <3> QED BY <2>1, <2>2, <3>2 DEF Verdict, x
  <2>3. CASE Verdict(b) = "VERIFIED"
    <3>1. /\ Decisive(b) = Settled(b)
          /\ Settled(b) # {} /\ Contradicting(b) = {}
      BY <2>3 DEF Decisive, Verdict
    <3>2. Contradicting(x) = {} /\ Settled(x) # {}
      BY <2>1, <3>1
    <3> QED BY <2>1, <2>3, <3>2 DEF Verdict, x
  <2>4. CASE Verdict(b) = "PENDING"
    <3>1. /\ Settled(b) = {} /\ Contradicting(b) = {}
          /\ Provisional(b) # {}
      BY <2>4 DEF Verdict
    <3>2. Decisive(b) # {} /\ Decisive(b) \subseteq Provisional(b)
      BY <2>4, <3>1 DEF Decisive, Provisional
    <3>3. Contradicting(x) = {} /\ Settled(x) = {} /\ Provisional(x) # {}
      BY <2>1, <3>1, <3>2
    <3> QED BY <2>1, <2>4, <3>3 DEF Verdict, x
  <2>5. CASE Verdict(b) = "UNPROVABLE"
    <3>1. Decisive(b) = {}
      BY <2>5 DEF Decisive
    <3>2. Contradicting(x) = {} /\ Settled(x) = {} /\ Provisional(x) = {}
      BY <2>1, <3>1
    <3> QED BY <2>1, <2>5, <3>2 DEF Verdict, x
  <2> QED BY <2>2, <2>3, <2>4, <2>5, VerdictType DEF x, Verdicts
<1> QED BY <1>1, <1>2

\* The decisive events of any bundle, evaluated alone, give its verdict.
THEOREM DecisiveEventsSuffice == Spec => []DecisiveSuffices
<1>1. DecisiveSuffices
  BY ExcerptVerdict DEF DecisiveSuffices
<1> QED BY <1>1, PTL
===================================================================================
