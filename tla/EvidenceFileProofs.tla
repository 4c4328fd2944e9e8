--------------------------- MODULE EvidenceFileProofs ---------------------------
(***************************************************************************)
(* Proofs about EvidenceFile and the verifier it extends, for any issuers, *)
(* keys, Stripe events, windows and bounds.                                *)
(***************************************************************************)
EXTENDS EvidenceFile, SequenceTheorems, FiniteSetTheorems, TLAPS

-----------------------------------------------------------------------------
(* Sequences of anything.                                                  *)

IsSeq(s) == s \in Seq(Range(s))

LEMMA SeqBasics ==
  ASSUME NEW s, IsSeq(s)
  PROVE  /\ Len(s) \in Nat /\ DOMAIN s = 1..Len(s)
         /\ s \in [1..Len(s) -> Range(s)]
         /\ \A x : x \in Range(s) <=> \E i \in 1..Len(s) : s[i] = x
         /\ s # <<>> <=> Len(s) > 0
<1>1. Len(s) \in Nat /\ DOMAIN s = 1..Len(s) /\ s \in [1..Len(s) -> Range(s)]
  BY LenProperties DEF IsSeq
<1>2. s # <<>> <=> Len(s) > 0
  BY EmptySeq, <1>1 DEF IsSeq
<1> QED BY <1>1, <1>2 DEF Range

\* A function whose domain is an interval is a sequence.
LEMMA SeqBuilt ==
  ASSUME NEW n \in Nat, NEW S, NEW f \in [1..n -> S]
  PROVE  IsSeq(f) /\ Len(f) = n
<1>1. f \in Seq(S) /\ Len(f) = n
  BY SeqDef
<1> QED BY <1>1, SeqOfRange DEF IsSeq

LEMMA SeqConcat ==
  ASSUME NEW s, NEW t, IsSeq(s), IsSeq(t)
  PROVE  /\ IsSeq(s \o t) /\ Len(s \o t) = Len(s) + Len(t)
         /\ \A i \in 1..Len(s) : (s \o t)[i] = s[i]
         /\ \A i \in 1..Len(t) : (s \o t)[Len(s) + i] = t[i]
         /\ Range(s \o t) = Range(s) \cup Range(t)
<1> DEFINE S == Range(s) \cup Range(t)
<1>1. s \in Seq(S) /\ t \in Seq(S)
  BY SeqMonotonic DEF IsSeq
<1>2. Len(s) \in Nat /\ Len(t) \in Nat
  BY SeqBasics
<1> HIDE DEF S
<1>3. /\ s \o t \in Seq(S) /\ Len(s \o t) = Len(s) + Len(t)
      /\ \A i \in 1..Len(s) + Len(t) :
            (s \o t)[i] = IF i <= Len(s) THEN s[i] ELSE t[i - Len(s)]
  BY <1>1, ConcatProperties
<1>4. IsSeq(s \o t)
  BY <1>3, SeqOfRange DEF IsSeq
<1>5. Range(s \o t) = Range(s) \cup Range(t)
  BY <1>1, RangeConcatenation
<1> QED BY <1>2, <1>3, <1>4, <1>5

LEMMA SeqAppend ==
  ASSUME NEW s, NEW x, IsSeq(s)
  PROVE  /\ IsSeq(Append(s, x)) /\ Len(Append(s, x)) = Len(s) + 1
         /\ \A i \in 1..Len(s) : Append(s, x)[i] = s[i]
         /\ Append(s, x)[Len(s) + 1] = x
         /\ Range(Append(s, x)) = Range(s) \cup {x}
         /\ Append(s, x) = s \o <<x>>
<1> DEFINE S == Range(s) \cup {x}
<1>1. s \in Seq(S)
  BY SeqMonotonic DEF IsSeq
<1>2. x \in S
  OBVIOUS
<1> HIDE DEF S
<1>3. Append(s, x) \in Seq(S) /\ Len(Append(s, x)) = Len(s) + 1 /\ Len(s) \in Nat
      /\ Append(s, x)[Len(s) + 1] = x
      /\ \A i \in 1..Len(s) : Append(s, x)[i] = s[i]
  BY <1>1, <1>2
<1>4. IsSeq(Append(s, x))
  BY <1>3, SeqOfRange DEF IsSeq
<1>5. Append(s, x) = s \o <<x>>
  BY <1>1, <1>2, AppendIsConcat
<1>6. Range(Append(s, x)) = Range(s) \cup {x}
  <2>1. ASSUME NEW y, y \in Range(Append(s, x)) PROVE y \in Range(s) \cup {x}
    <3>1. PICK i \in 1..Len(Append(s, x)) : Append(s, x)[i] = y
      BY <1>4, <2>1, SeqBasics
    <3>2. i \in 1..Len(s) \/ i = Len(s) + 1
      BY <1>3, <3>1
    <3>3. ASSUME i \in 1..Len(s) PROVE y \in Range(s)
      BY <1>3, <3>1, <3>3, SeqBasics
    <3> QED BY <1>3, <3>1, <3>2, <3>3
  <2>2. x \in Range(Append(s, x))
    <3>1. Len(s) + 1 \in 1..Len(Append(s, x))
      BY <1>3
    <3> QED BY <1>3, <1>4, <3>1, SeqBasics
  <2>3. ASSUME NEW y, y \in Range(s) PROVE y \in Range(Append(s, x))
    <3>1. PICK i \in 1..Len(s) : s[i] = y
      BY <2>3, SeqBasics
    <3>2. i \in 1..Len(Append(s, x)) /\ Append(s, x)[i] = y
      BY <1>3, <3>1
    <3> QED BY <1>4, <3>2, SeqBasics
  <2> QED BY <2>1, <2>2, <2>3
<1> QED BY <1>3, <1>4, <1>5, <1>6

LEMMA SeqExcept ==
  ASSUME NEW s, NEW x, IsSeq(s), NEW i \in DOMAIN s
  PROVE  /\ IsSeq([s EXCEPT ![i] = x]) /\ Len([s EXCEPT ![i] = x]) = Len(s)
         /\ Range([s EXCEPT ![i] = x]) \subseteq Range(s) \cup {x}
<1>1. Len(s) \in Nat /\ DOMAIN s = 1..Len(s) /\ s \in [1..Len(s) -> Range(s)]
  BY SeqBasics
<1>2. [s EXCEPT ![i] = x] \in [1..Len(s) -> Range(s) \cup {x}]
  BY <1>1
<1>3. IsSeq([s EXCEPT ![i] = x]) /\ Len([s EXCEPT ![i] = x]) = Len(s)
  BY <1>1, <1>2, SeqBuilt
<1> QED BY <1>2, <1>3 DEF Range

\* The tuple of one element.
LEMMA SeqSingle ==
  ASSUME NEW x
  PROVE  /\ IsSeq(<<x>>) /\ Len(<<x>>) = 1 /\ <<x>>[1] = x /\ Range(<<x>>) = {x}
<1>1. <<x>> \in Seq({x}) /\ Len(<<x>>) = 1 /\ <<x>>[1] = x
  OBVIOUS
<1>2. IsSeq(<<x>>)
  BY <1>1, SeqOfRange DEF IsSeq
<1>3. Range(<<x>>) = {<<x>>[i] : i \in 1..1}
  BY <1>1, RangeEquality
<1> QED BY <1>1, <1>2, <1>3

LEMMA SeqNone == IsSeq(<<>>) /\ Len(<<>>) = 0 /\ Range(<<>>) = {}
<1>1. <<>> \in Seq({}) /\ Len(<<>>) = 0
  BY EmptySeq
<1>2. Range(<<>>) = {<<>>[i] : i \in 1..0}
  BY <1>1, RangeEquality
<1> QED BY <1>1, <1>2, SeqOfRange DEF IsSeq

LEMMA SeqRemoveAt ==
  ASSUME NEW s, IsSeq(s), NEW i \in DOMAIN s
  PROVE  /\ IsSeq(RemoveAt(s, i)) /\ Len(RemoveAt(s, i)) < Len(s)
         /\ Range(RemoveAt(s, i)) \subseteq Range(s)
<1>1. Len(s) \in Nat /\ DOMAIN s = 1..Len(s) /\ s \in [1..Len(s) -> Range(s)]
  BY SeqBasics
<1> DEFINE a == SubSeq(s, 1, i - 1)
           b == SubSeq(s, i + 1, Len(s))
<1>2. a \in Seq(Range(s)) /\ Len(a) = i - 1
  BY <1>1, SubSeqProperties
<1>3. b \in Seq(Range(s)) /\ Len(b) = Len(s) - i
  BY <1>1, SubSeqProperties
<1> HIDE DEF a, b
<1>4. a \o b \in Seq(Range(s)) /\ Len(a \o b) = Len(s) - 1
  <2>1. a \o b \in Seq(Range(s)) /\ Len(a \o b) = Len(a) + Len(b)
    BY <1>2, <1>3, ConcatProperties
  <2> QED BY <1>1, <1>2, <1>3, <2>1
<1>5. Range(a \o b) \subseteq Range(s) /\ IsSeq(a \o b)
  BY <1>4, RangeOfSeq, SeqOfRange DEF IsSeq
<1> QED BY <1>1, <1>4, <1>5 DEF RemoveAt, a, b

-----------------------------------------------------------------------------
(* The places of a sequence.                                               *)

LEMMA LeastNumber ==
  ASSUME NEW T \in SUBSET Nat, T # {}
  PROVE  \E x \in T : \A y \in T : x <= y
<1> DEFINE R == {ss \in Nat \X Nat : ss[1] < ss[2]}
<1>1. IsWellFoundedOn(R, Nat)
  BY NatLessThanWellFounded DEF OpToRel
<1> HIDE DEF R
<1>2. PICK x \in T : \A y \in T : ~(<<y, x>> \in R)
  BY <1>1, WFMin
<1>3. \A y \in T : <<y, x>> \in Nat \X Nat
  OBVIOUS
<1>4. \A y \in T : ~(y < x)
  BY <1>2, <1>3 DEF R
<1> QED BY <1>4

\* In a finite set of numbers there is one of each rank.
LEMMA RankExists ==
  ASSUME NEW P \in SUBSET Nat, IsFiniteSet(P), NEW n \in 1..Cardinality(P)
  PROVE  \E i \in P : Cardinality({j \in P : j <= i}) = n
<1> DEFINE Upto(i) == {j \in P : j <= i}
           Ranks == {Cardinality(Upto(i)) : i \in P}
           Bad == {m \in 1..Cardinality(P) : m \notin Ranks}
<1>1. \A i \in P : IsFiniteSet(Upto(i)) /\ Cardinality(Upto(i)) \in Nat
  BY FS_Subset, FS_CardinalityType
<1>2. Cardinality(P) \in Nat
  BY FS_CardinalityType
<1>3. SUFFICES ASSUME Bad # {} PROVE FALSE
  <2>1. n \in Ranks
    BY <1>3
  <2> QED BY <2>1
<1>4. PICK m \in Bad : \A y \in Bad : m <= y
  <2>1. Bad \in SUBSET Nat
    BY <1>2
  <2> HIDE DEF Bad
  <2> QED BY <1>3, <2>1, LeastNumber
<1> DEFINE Rest(i) == {j \in P : j > i}
\* The next number after those of which the ranks are smaller.
<1>5. ASSUME NEW low \in SUBSET P, Cardinality(low) = m - 1, NEW rest \in SUBSET P,
             rest # {}, low \cup rest = P, \A i \in low, j \in rest : i < j
      PROVE  FALSE
  <2>1. PICK k \in rest : \A y \in rest : k <= y
    <3>1. rest \in SUBSET Nat
      OBVIOUS
    <3> QED BY <1>5, <3>1, LeastNumber
  <2>2. Upto(k) = low \cup {k} /\ k \notin low
    <3>1. k \in Nat /\ \A i \in P : i \in Nat /\ (i \in low \/ i \in rest)
      BY <1>5
    <3>2. \A i \in low : i < k /\ i \in P
      BY <1>5
    <3>3. \A i \in P : i <= k => i \in low \/ i = k
      BY <2>1, <3>1
    <3>4. k \notin low
      BY <3>1, <3>2
    <3>5. \A i \in low \cup {k} : i \in P /\ i <= k
      BY <3>1, <3>2
    <3> QED BY <3>3, <3>4, <3>5
  <2>3. IsFiniteSet(low)
    BY FS_Subset
  <2>4. Cardinality(low \cup {k}) = Cardinality(low) + 1
    BY <2>2, <2>3, FS_AddElement
  <2>5. m \in Ranks
    <3>1. m \in Nat
      BY <1>2, <1>4
    <3>2. m - 1 + 1 = m
      BY <3>1
    <3>3. Cardinality(Upto(k)) = m
      <4> HIDE DEF Upto
      <4> QED BY <1>5, <2>2, <2>4, <3>2
    <3> QED BY <3>3
  <2> QED BY <1>4, <2>5
<1>6. CASE m = 1
  <2>1. P # {}
    BY <1>2, <1>4, FS_EmptySet
  <2>2. Cardinality({}) = m - 1
    BY <1>6, FS_EmptySet
  <2> QED BY <1>5, <2>1, <2>2
<1>7. CASE m # 1
  <2>1. m - 1 \in 1..Cardinality(P) /\ m - 1 \notin Bad
    BY <1>2, <1>4, <1>7
  <2>2. PICK i \in P : Cardinality(Upto(i)) = m - 1
    BY <2>1
  <2>3. Rest(i) # {}
    <3>1. m \in Nat /\ m <= Cardinality(P)
      BY <1>2, <1>4
    <3>2. Upto(i) # P
      <4>1. Cardinality(P) # m - 1
        BY <1>2, <3>1
      <4> HIDE DEF Upto
      <4> QED BY <2>2, <4>1
    <3>3. \A j \in P : j \in Nat
      OBVIOUS
    <3>4. PICK j \in P : ~(j <= i)
      BY <3>2
    <3>5. j > i
      BY <3>3, <3>4
    <3> QED BY <3>5
  <2>4. /\ Upto(i) \in SUBSET P /\ Rest(i) \in SUBSET P /\ Upto(i) \cup Rest(i) = P
        /\ \A a \in Upto(i), b \in Rest(i) : a < b
    <3>1. \A j \in P : j \in Nat
      OBVIOUS
    <3>2. \A j \in P : j <= i \/ j > i
      BY <3>1
    <3>3. \A a \in Upto(i), b \in Rest(i) : a < b
      BY <3>1
    <3> QED BY <3>2, <3>3
  <2> QED BY <1>5, <2>2, <2>3, <2>4
<1> QED BY <1>6, <1>7

\* What is at some places is a sequence of elements of the whole.
LEMMA SeqAt ==
  ASSUME NEW s, IsSeq(s), NEW places \in SUBSET (DOMAIN s)
  PROVE  /\ IsSeq(At(s, places)) /\ Len(At(s, places)) <= Len(s)
         /\ Range(At(s, places)) \subseteq Range(s)
<1>1. Len(s) \in Nat /\ DOMAIN s = 1..Len(s) /\ s \in [1..Len(s) -> Range(s)]
  BY SeqBasics
<1>2. IsFiniteSet(1..Len(s)) /\ Cardinality(1..Len(s)) = Len(s)
  <2> SUFFICES ASSUME NEW n \in Nat PROVE IsFiniteSet(1..n) /\ Cardinality(1..n) = n
    BY <1>1
  <2>1. /\ IsFiniteSet(1..n)
        /\ Cardinality(1..n) = IF 1 > n THEN 0 ELSE n - 1 + 1
    <3>1. 1 \in Int /\ n \in Int
      OBVIOUS
    <3> QED BY <3>1, FS_Interval
  <2>2. (IF 1 > n THEN 0 ELSE n - 1 + 1) = n
    OBVIOUS
  <2> QED BY <2>1, <2>2
<1>3. IsFiniteSet(places) /\ Cardinality(places) <= Len(s) /\ Cardinality(places) \in Nat
  BY <1>1, <1>2, FS_Subset, FS_CardinalityType
<1>4. ASSUME NEW n \in 1..Cardinality(places)
      PROVE  s[CHOOSE i \in places : Cardinality({j \in places : j <= i}) = n] \in Range(s)
  <2>1. places \in SUBSET Nat
    BY <1>1
  <2>2. \E i \in places : Cardinality({j \in places : j <= i}) = n
    BY <1>3, <2>1, RankExists
  <2>3. (CHOOSE i \in places : Cardinality({j \in places : j <= i}) = n) \in places
    BY <2>2
  <2> QED BY <1>1, <2>3
<1>5. At(s, places) \in [1..Cardinality(places) -> Range(s)]
  BY <1>4 DEF At
<1>6. IsSeq(At(s, places)) /\ Len(At(s, places)) = Cardinality(places)
  BY <1>3, <1>5, SeqBuilt
<1> QED BY <1>3, <1>5, <1>6 DEF Range

\* The identifiers of objects are those of the objects there are.
LEMMA IdsRange ==
  ASSUME NEW objects
  PROVE  Range(Ids(objects)) = {o.id : o \in Range(objects)}
BY DEF Range, Ids

\* find finds the first object with the identifier.
LEMMA FirstFound ==
  ASSUME NEW objects, IsSeq(objects), NEW id, id \in Range(Ids(objects))
  PROVE  \E i \in 1..Len(objects) :
            /\ First(objects, id) = objects[i] /\ objects[i].id = id
            /\ \A j \in 1..Len(objects) : objects[j].id = id => i <= j
<1> DEFINE I == {i \in 1..Len(objects) : objects[i].id = id}
<1>1. Len(objects) \in Nat /\ DOMAIN objects = 1..Len(objects)
  BY SeqBasics
<1>2. I # {} /\ I \in SUBSET Nat
  BY <1>1 DEF Range, Ids
<1>3. \E x \in I : \A y \in I : x <= y
  <2> HIDE DEF I
  <2> QED BY <1>2, LeastNumber
<1>4. SelectInSeq(objects, LAMBDA o : o.id = id) = Min(I)
  BY <1>2 DEF SelectInSeq
<1>5. Min(I) \in I /\ \A y \in I : Min(I) <= y
  <2> HIDE DEF I
  <2> QED BY <1>3 DEF Min
<1> QED BY <1>4, <1>5 DEF First

\* With distinct identifiers the object found is the one that has it.
LEMMA FirstUnique ==
  ASSUME NEW objects, IsSeq(objects), ~DuplicateId(objects), NEW o \in Range(objects)
  PROVE  First(objects, o.id) = o
<1>1. PICK k \in 1..Len(objects) : objects[k] = o
  BY SeqBasics
<1>2. o.id \in Range(Ids(objects))
  BY IdsRange
<1>3. PICK i \in 1..Len(objects) : First(objects, o.id) = objects[i] /\ objects[i].id = o.id
  BY <1>2, FirstFound
<1>4. DOMAIN objects = 1..Len(objects)
  BY SeqBasics
<1>5. i = k
  BY <1>1, <1>3, <1>4 DEF DuplicateId, IsInjective, Ids
<1> QED BY <1>1, <1>3, <1>5

-----------------------------------------------------------------------------
(* What the verifier accepts.                                              *)

Typed(p) == "type" \in DOMAIN p /\ p.type \in TargetTypes

\* A bundle has the members that the actions and the verifier read.
Shape(b) ==
    /\ {"legible", "payload", "proofs"} \subseteq DOMAIN b
    /\ {"issuers", "events", "evidence", "relationships"} \subseteq DOMAIN b.payload
    /\ IsSeq(b.payload.issuers) /\ IsSeq(b.payload.events) /\ IsSeq(b.payload.evidence)
    /\ IsSeq(b.payload.relationships) /\ IsSeq(b.proofs)
    /\ \A issuer \in Range(b.payload.issuers) :
          /\ IsSeq(issuer.keys)
          /\ \A k \in Range(issuer.keys) : k.from \in Nat /\ k.until \in Nat
    /\ \A e \in Range(b.payload.events) : "id" \in DOMAIN e
    /\ \A p \in Range(b.proofs) : Typed(p)

\* Issuers with different identifiers have no key in common.
KeysApart(b) ==
    \A i, j \in Range(b.payload.issuers) :
        i.id # j.id => \A k \in Range(i.keys), l \in Range(j.keys) : k.public # l.public

LEMMA StatusOfIssues ==
  ASSUME NEW b
  PROVE  Passes(b) <=> Issues(b) = {}
BY DEF Passes, Status

LEMMA IssueEmpty == \A code, found : Issue(code, found) = {} => ~found
BY DEF Issue

\* A bundle that passes has no issue of any kind.
LEMMA NoIssue ==
  ASSUME NEW b, Passes(b)
  PROVE  /\ b.legible /\ PayloadIssues(b) = {} /\ ProofIssues(b) = {}
<1>1. Issues(b) = {}
  BY StatusOfIssues
<1>2. b.legible
  BY <1>1 DEF Issues
<1> QED BY <1>1, <1>2 DEF Issues

\* The parts of the payload's issues.
LEMMA PayloadParts ==
  ASSUME NEW b
  PROVE  PayloadIssues(b) = {} <=>
           /\ \A i \in Range(b.payload.issuers) : IssuerIssues(i) = {}
           /\ ~DuplicateId(b.payload.issuers)
           /\ \A e \in Range(b.payload.events) :
                 EventIssues(b, e) = {} /\ ParentIssues(b, e) = {} /\ EvidenceRefIssues(b, e) = {}
           /\ \A item \in Range(b.payload.evidence) : EvidenceIssues(b, item) = {}
           /\ \A r \in Range(b.payload.relationships) :
                 RelationshipIssues(r) = {} /\ EndpointIssues(b, r) = {}
           /\ ObjectIdIssues(b) = {}
           /\ PredecessorIssues(b) = {}
<1> DEFINE A == UNION {IssuerIssues(i) : i \in Range(b.payload.issuers)}
           B == Issue("DUPLICATE_ISSUER_ID", DuplicateId(b.payload.issuers))
           C == UNION {EventIssues(b, e) \cup ParentIssues(b, e) \cup EvidenceRefIssues(b, e) :
                          e \in Range(b.payload.events)}
           D == UNION {EvidenceIssues(b, item) : item \in Range(b.payload.evidence)}
           E == UNION {RelationshipIssues(r) \cup EndpointIssues(b, r) :
                          r \in Range(b.payload.relationships)}
<1>1. A = {} <=> \A i \in Range(b.payload.issuers) : IssuerIssues(i) = {}
  OBVIOUS
<1>2. B = {} <=> ~DuplicateId(b.payload.issuers)
  BY DEF Issue
<1>3. C = {} <=> \A e \in Range(b.payload.events) :
          EventIssues(b, e) = {} /\ ParentIssues(b, e) = {} /\ EvidenceRefIssues(b, e) = {}
  OBVIOUS
<1>4. D = {} <=> \A item \in Range(b.payload.evidence) : EvidenceIssues(b, item) = {}
  OBVIOUS
<1>5. E = {} <=> \A r \in Range(b.payload.relationships) :
          RelationshipIssues(r) = {} /\ EndpointIssues(b, r) = {}
  OBVIOUS
<1>6. PayloadIssues(b) = A \cup B \cup C \cup D \cup E \cup ObjectIdIssues(b)
                            \cup PredecessorIssues(b)
  BY DEF PayloadIssues
<1> HIDE DEF A, B, C, D, E
<1>7. PayloadIssues(b) = {} <=> A = {} /\ B = {} /\ C = {} /\ D = {} /\ E = {}
                                  /\ ObjectIdIssues(b) = {} /\ PredecessorIssues(b) = {}
  BY <1>6
<1> QED BY <1>1, <1>2, <1>3, <1>4, <1>5, <1>7

\* What is asked of one proof.
ProofSound(b, p) ==
    p.sound /\ p.issuer \in IssuerIds(b) /\ ProofFailure(b, p) = "none"

LEMMA ProofParts ==
  ASSUME NEW b
  PROVE  ProofIssues(b) = {} <=>
           (\A p \in Range(b.proofs) : ProofSound(b, p)) /\ ~DuplicateId(b.proofs)
<1> DEFINE Of(p) == Issue("PROOF_MALFORMED", ~p.sound)
                      \cup Issue("PROOF_ISSUER_NOT_FOUND", p.issuer \notin IssuerIds(b))
                      \cup ({ProofFailure(b, p)} \ {"none"})
           A == UNION {Of(p) : p \in Range(b.proofs)}
           B == Issue("DUPLICATE_PROOF_ID", DuplicateId(b.proofs))
<1>1. ASSUME NEW p PROVE Of(p) = {} <=> ProofSound(b, p)
  <2>1. Issue("PROOF_MALFORMED", ~p.sound) = {} <=> p.sound
    BY DEF Issue
  <2>2. Issue("PROOF_ISSUER_NOT_FOUND", p.issuer \notin IssuerIds(b)) = {}
          <=> p.issuer \in IssuerIds(b)
    BY DEF Issue
  <2>3. {ProofFailure(b, p)} \ {"none"} = {} <=> ProofFailure(b, p) = "none"
    OBVIOUS
  <2>4. Of(p) = {} <=> /\ Issue("PROOF_MALFORMED", ~p.sound) = {}
                       /\ Issue("PROOF_ISSUER_NOT_FOUND", p.issuer \notin IssuerIds(b)) = {}
                       /\ {ProofFailure(b, p)} \ {"none"} = {}
    OBVIOUS
  <2> QED BY <2>1, <2>2, <2>3, <2>4 DEF ProofSound
<1>2. B = {} <=> ~DuplicateId(b.proofs)
  BY DEF Issue
<1>3. ProofIssues(b) = A \cup B
  BY DEF ProofIssues
<1> HIDE DEF Of
<1>4. A = {} <=> \A p \in Range(b.proofs) : Of(p) = {}
  OBVIOUS
<1> HIDE DEF A, B
<1> QED BY <1>1, <1>2, <1>3, <1>4

\* The objects of each collection declare the digest of what they say.
LEMMA Sealed ==
  ASSUME NEW b, Passes(b)
  PROVE  /\ \A e \in Range(b.payload.events) : e.digest = ObjectDigest(e)
         /\ \A item \in Range(b.payload.evidence) : item.digest = ObjectDigest(item)
         /\ \A r \in Range(b.payload.relationships) : r.digest = ObjectDigest(r)
<1>1. \A o : ObjectDigestIssues(o) = {} => o.digest = ObjectDigest(o)
  BY DEF ObjectDigestIssues, Issue
<1>2. \A e : ObjectDigestIssues(e) \subseteq EventIssues(b, e)
  BY DEF EventIssues
<1>3. \A e : ObjectDigestIssues(e) \subseteq EvidenceIssues(b, e)
  BY DEF EvidenceIssues
<1>4. \A e : ObjectDigestIssues(e) \subseteq RelationshipIssues(e)
  BY DEF RelationshipIssues
<1>5. PayloadIssues(b) = {}
  BY NoIssue
<1>6. /\ \A e \in Range(b.payload.events) : EventIssues(b, e) = {}
      /\ \A item \in Range(b.payload.evidence) : EvidenceIssues(b, item) = {}
      /\ \A r \in Range(b.payload.relationships) : RelationshipIssues(r) = {}
  BY <1>5, PayloadParts
<1>7. ASSUME NEW e \in Range(b.payload.events) PROVE e.digest = ObjectDigest(e)
  BY <1>1, <1>2, <1>6
<1>8. ASSUME NEW e \in Range(b.payload.evidence) PROVE e.digest = ObjectDigest(e)
  BY <1>1, <1>3, <1>6
<1>9. ASSUME NEW e \in Range(b.payload.relationships) PROVE e.digest = ObjectDigest(e)
  BY <1>1, <1>4, <1>6
<1> QED BY <1>7, <1>8, <1>9

\* Nothing an event was built on is missing.
LEMMA LineageOf ==
  ASSUME NEW b, Passes(b), NEW e \in Range(b.payload.events)
  PROVE  /\ Range(e.parents) \subseteq {ObjectDigest(f) : f \in Range(b.payload.events)}
         /\ \A id \in e.evidence : \E item \in Range(b.payload.evidence) : item.id = id
<1>1. PayloadIssues(b) = {}
  BY NoIssue
<1>2. ParentIssues(b, e) = {} /\ EvidenceRefIssues(b, e) = {}
  BY <1>1, PayloadParts
<1>3. ASSUME NEW d \in Range(e.parents)
      PROVE  d \in {ObjectDigest(f) : f \in Range(b.payload.events)}
  <2> DEFINE declared == {f.digest : f \in Range(b.payload.events)}
             Of(x) == IF x = Malformed THEN {"PARENT_DIGEST_INVALID"}
                      ELSE IF x \notin declared THEN {"PARENT_EVENT_NOT_FOUND"}
                      ELSE Issue("EVENT_SELF_PARENT", x = e.digest)
  <2>1. ParentIssues(b, e) = UNION {Of(x) : x \in Range(e.parents)}
    BY DEF ParentIssues
  <2>2. Of(d) = {}
    <3> HIDE DEF Of
    <3> QED BY <1>2, <1>3, <2>1
  <2>3. d \in declared
    BY <2>2
  <2> QED BY <2>3, Sealed
<1>4. e.evidence \subseteq Range(Ids(b.payload.evidence))
  BY <1>2, IssueEmpty DEF EvidenceRefIssues
<1> QED BY <1>3, <1>4, IdsRange

LEMMA DistinctIds ==
  ASSUME NEW s, NEW n \in Nat, DOMAIN s = 1..n
  PROVE  ~DuplicateId(s) <=> \A i, j \in 1..n : s[i].id = s[j].id => i = j
BY DEF DuplicateId, IsInjective, Ids

\* The identifiers of a concatenation are distinct in each part.
LEMMA InjectiveParts ==
  ASSUME NEW s, NEW t, IsSeq(s), IsSeq(t), ~DuplicateId(s \o t)
  PROVE  /\ ~DuplicateId(s) /\ ~DuplicateId(t)
         /\ Range(Ids(s)) \cap Range(Ids(t)) = {}
<1>1. /\ Len(s) \in Nat /\ DOMAIN s = 1..Len(s) /\ Len(t) \in Nat /\ DOMAIN t = 1..Len(t)
      /\ DOMAIN (s \o t) = 1..(Len(s) + Len(t))
      /\ \A i \in 1..Len(s) : (s \o t)[i] = s[i]
      /\ \A i \in 1..Len(t) : (s \o t)[Len(s) + i] = t[i]
  BY SeqBasics, SeqConcat
<1>2. \A i, j \in 1..(Len(s) + Len(t)) : (s \o t)[i].id = (s \o t)[j].id => i = j
  <2>1. Len(s) + Len(t) \in Nat
    BY <1>1
  <2> QED BY <1>1, <2>1, DistinctIds
<1>3. ASSUME NEW i \in 1..Len(s), NEW j \in 1..Len(s), s[i].id = s[j].id PROVE i = j
  BY <1>1, <1>2, <1>3
<1>4. ASSUME NEW i \in 1..Len(t), NEW j \in 1..Len(t), t[i].id = t[j].id PROVE i = j
  <2>1. Len(s) + i \in 1..(Len(s) + Len(t)) /\ Len(s) + j \in 1..(Len(s) + Len(t))
    BY <1>1
  <2>2. Len(s) + i = Len(s) + j
    BY <1>1, <1>2, <1>4, <2>1
  <2> QED BY <1>1, <2>2
<1>5. ASSUME NEW i \in 1..Len(s), NEW j \in 1..Len(t), s[i].id = t[j].id PROVE FALSE
  <2>1. i \in 1..(Len(s) + Len(t)) /\ Len(s) + j \in 1..(Len(s) + Len(t)) /\ i # Len(s) + j
    BY <1>1
  <2> QED BY <1>1, <1>2, <1>5, <2>1
<1>6. ~DuplicateId(s) /\ ~DuplicateId(t)
  BY <1>1, <1>3, <1>4 DEF DuplicateId, IsInjective, Ids
<1>7. Range(Ids(s)) \cap Range(Ids(t)) = {}
  BY <1>1, <1>5 DEF Ids, Range
<1> QED BY <1>6, <1>7

\* And the converse.
LEMMA InjectiveConcat ==
  ASSUME NEW s, NEW t, IsSeq(s), IsSeq(t), ~DuplicateId(s), ~DuplicateId(t),
         Range(Ids(s)) \cap Range(Ids(t)) = {}
  PROVE  ~DuplicateId(s \o t)
<1>1. /\ Len(s) \in Nat /\ DOMAIN s = 1..Len(s) /\ Len(t) \in Nat /\ DOMAIN t = 1..Len(t)
      /\ DOMAIN (s \o t) = 1..(Len(s) + Len(t))
      /\ \A i \in 1..Len(s) : (s \o t)[i] = s[i]
      /\ \A i \in 1..Len(t) : (s \o t)[Len(s) + i] = t[i]
  BY SeqBasics, SeqConcat
<1>2. \A i \in 1..(Len(s) + Len(t)) :
          \/ i \in 1..Len(s)
          \/ i - Len(s) \in 1..Len(t) /\ i = Len(s) + (i - Len(s))
  BY <1>1
<1>3. /\ \A i, j \in 1..Len(s) : s[i].id = s[j].id => i = j
      /\ \A i, j \in 1..Len(t) : t[i].id = t[j].id => i = j
  BY <1>1 DEF DuplicateId, IsInjective, Ids
<1>4. \A i \in 1..Len(s), j \in 1..Len(t) : s[i].id # t[j].id
  BY <1>1 DEF Ids, Range
<1> DEFINE st == s \o t
<1>5. \A i, j \in 1..(Len(s) + Len(t)) : st[i].id = st[j].id => i = j
  <2> SUFFICES ASSUME NEW i \in 1..(Len(s) + Len(t)), NEW j \in 1..(Len(s) + Len(t)),
                      st[i].id = st[j].id
               PROVE  i = j
    OBVIOUS
  <2> HIDE DEF st
  <2>0. \A k \in 1..Len(s) : st[k] = s[k]
    BY <1>1 DEF st
  <2>9. \A k \in 1..Len(t) : st[Len(s) + k] = t[k]
    BY <1>1 DEF st
  <2>1. CASE i \in 1..Len(s) /\ j \in 1..Len(s)
    BY <2>0, <1>3, <2>1
  <2>2. CASE i \in 1..Len(s) /\ j \notin 1..Len(s)
    <3>1. j - Len(s) \in 1..Len(t) /\ st[j] = t[j - Len(s)]
      BY <2>9, <1>2, <2>2
    <3> QED BY <2>0, <1>4, <2>2, <3>1
  <2>3. CASE i \notin 1..Len(s) /\ j \in 1..Len(s)
    <3>1. i - Len(s) \in 1..Len(t) /\ st[i] = t[i - Len(s)]
      BY <2>9, <1>2, <2>3
    <3> QED BY <2>0, <1>4, <2>3, <3>1
  <2>4. CASE i \notin 1..Len(s) /\ j \notin 1..Len(s)
    <3>1. i - Len(s) \in 1..Len(t) /\ st[i] = t[i - Len(s)]
      BY <2>9, <1>2, <2>4
    <3>2. j - Len(s) \in 1..Len(t) /\ st[j] = t[j - Len(s)]
      BY <2>9, <1>2, <2>4
    <3>3. i - Len(s) = j - Len(s)
      BY <1>3, <3>1, <3>2
    <3> QED BY <1>1, <3>3
  <2> QED BY <2>1, <2>2, <2>3, <2>4
<1> QED BY <1>1, <1>5 DEF DuplicateId, IsInjective, Ids

\* In each collection the identifiers are distinct and the digests right.
LEMMA CollectionSound ==
  ASSUME NEW b, Shape(b), Passes(b), NEW type \in TargetTypes, type # "BUNDLE_PAYLOAD"
  PROVE  /\ IsSeq(Collection(b, type)) /\ ~DuplicateId(Collection(b, type))
         /\ \A o \in Range(Collection(b, type)) : o.digest = ObjectDigest(o)
<1> DEFINE events == b.payload.events
           evidence == b.payload.evidence
           relationships == b.payload.relationships
<1>1. IsSeq(events) /\ IsSeq(evidence) /\ IsSeq(relationships)
  BY DEF Shape
<1>2. ~DuplicateId(events \o evidence \o relationships)
  <2>1. PayloadIssues(b) = {}
    BY NoIssue
  <2>2. ObjectIdIssues(b) = {}
    BY <2>1, PayloadParts
  <2> QED BY <2>2, IssueEmpty DEF ObjectIdIssues
<1> HIDE DEF events, evidence, relationships
<1>3. IsSeq(events \o evidence)
  BY <1>1, SeqConcat
<1>4. ~DuplicateId(events \o evidence) /\ ~DuplicateId(relationships)
  BY <1>1, <1>2, <1>3, InjectiveParts
<1>5. ~DuplicateId(events) /\ ~DuplicateId(evidence)
  BY <1>1, <1>4, InjectiveParts
<1>6. /\ \A o \in Range(events) : o.digest = ObjectDigest(o)
      /\ \A o \in Range(evidence) : o.digest = ObjectDigest(o)
      /\ \A o \in Range(relationships) : o.digest = ObjectDigest(o)
  BY Sealed DEF events, evidence, relationships
<1>7. Collection(b, type) \in {events, evidence, relationships}
  BY DEF Collection, TargetTypes, events, evidence, relationships
<1> QED BY <1>1, <1>4, <1>5, <1>6, <1>7

SignedWith(p, k) == p.signature = [key |-> k.public, type |-> p.type, digest |-> p.digest]

\* What a proof that verifies is: the signature is by a key of its issuer and
\* over the digest the proof declares, which is its target's.
LEMMA ProofMeaning ==
  ASSUME NEW b, Shape(b), NEW p, ProofFailure(b, p) = "none"
  PROVE  /\ Resolves(b, p.type, p.target)
         /\ p.digest = TargetDigest(b, p.type, p.target)
         /\ \E issuer \in Range(b.payload.issuers) : \E k \in Range(issuer.keys) :
               issuer.id = p.issuer /\ SignedWith(p, k)
<1> DEFINE issuers == b.payload.issuers
           issuer == First(issuers, p.issuer)
           key == First(issuer.keys, p.method[2])
<1>1. /\ Resolves(b, p.type, p.target)
      /\ p.digest = TargetDigest(b, p.type, p.target)
      /\ p.issuer \in IssuerIds(b)
      /\ p.method[2] \in Range(Ids(issuer.keys))
      /\ KeyFailure(key, p) = "none"
  BY DEF ProofFailure
<1>2. SignedWith(p, key)
  <2> HIDE DEF key
  <2> QED BY <1>1 DEF KeyFailure, SignedWith
<1>3. IsSeq(issuers)
  BY DEF Shape
<1>4. PICK i \in 1..Len(issuers) : issuer = issuers[i] /\ issuers[i].id = p.issuer
  BY <1>1, <1>3, FirstFound DEF IssuerIds
<1>5. issuer \in Range(issuers) /\ issuer.id = p.issuer
  BY <1>3, <1>4, SeqBasics
<1>6. IsSeq(issuer.keys)
  BY <1>5 DEF Shape
<1> HIDE DEF issuer
<1>7. PICK j \in 1..Len(issuer.keys) : key = issuer.keys[j]
  BY <1>1, <1>6, FirstFound
<1>8. key \in Range(issuer.keys)
  BY <1>6, <1>7, SeqBasics
<1> HIDE DEF key
<1> QED BY <1>1, <1>2, <1>5, <1>8

\* In a bundle that passes, every proof is a signature over what its target says.
LEMMA ContentOf ==
  ASSUME NEW b, Shape(b), Passes(b), NEW p \in Range(b.proofs)
  PROVE  /\ p.signature.key \in PublicKeys(b, p.issuer)
         /\ p.signature.type = p.type
         /\ IF p.type = "BUNDLE_PAYLOAD" THEN p.signature.digest = PayloadDigest(b)
            ELSE \E o \in Range(Collection(b, p.type)) :
                    /\ o.id = p.target /\ ObjectDigest(o) = p.signature.digest
                    /\ \A u \in Range(Collection(b, p.type)) : u.id = p.target => u = o
<1>1. ProofFailure(b, p) = "none"
  <2>1. ProofIssues(b) = {}
    BY NoIssue
  <2> QED BY <2>1, ProofParts DEF ProofSound
<1>8. PICK issuer \in Range(b.payload.issuers) :
          /\ issuer.id = p.issuer
          /\ \E k \in Range(issuer.keys) : SignedWith(p, k)
  BY <1>1, ProofMeaning
<1>2. PICK k \in Range(issuer.keys) : SignedWith(p, k)
  BY <1>8
<1>3. /\ p.signature.key = k.public /\ p.signature.type = p.type
      /\ p.signature.digest = p.digest
  BY <1>2 DEF SignedWith
<1>4. k.public \in PublicKeys(b, p.issuer)
  BY <1>3, <1>8 DEF PublicKeys
<1>5. Resolves(b, p.type, p.target) /\ p.digest = TargetDigest(b, p.type, p.target)
  BY <1>1, ProofMeaning
<1>6. CASE p.type = "BUNDLE_PAYLOAD"
  BY <1>3, <1>4, <1>5, <1>6 DEF TargetDigest
<1>7. CASE p.type # "BUNDLE_PAYLOAD"
  <2> DEFINE c == Collection(b, p.type)
  <2>1. p.type \in TargetTypes
    BY DEF Shape, Typed
  <2>2. IsSeq(c) /\ ~DuplicateId(c) /\ \A o \in Range(c) : o.digest = ObjectDigest(o)
    BY <1>7, <2>1, CollectionSound
  <2>3. p.target \in Range(Ids(c)) /\ p.digest = First(c, p.target).digest
    BY <1>5, <1>7 DEF Resolves, TargetDigest
  <2> HIDE DEF c
  <2>4. PICK o \in Range(c) : o.id = p.target
    BY <2>3, IdsRange
  <2>5. \A u \in Range(c) : First(c, u.id) = u
    BY <2>2, FirstUnique
  <2>6. \A u \in Range(c) : u.id = p.target => u = o
    BY <2>4, <2>5
  <2>7. ObjectDigest(o) = p.signature.digest
    BY <1>3, <2>2, <2>3, <2>4, <2>5
  <2>8. /\ o.id = p.target /\ ObjectDigest(o) = p.signature.digest
        /\ \A u \in Range(c) : u.id = p.target => u = o
    BY <2>4, <2>6, <2>7
  <2> QED BY <1>3, <1>4, <1>7, <2>8 DEF c
<1> QED BY <1>6, <1>7

\* The events that a proof covers are those their issuer signed.
LEMMA CoveredSigned ==
  ASSUME NEW b, Shape(b), KeysApart(b), Passes(b), NEW e \in Range(b.payload.events)
  PROVE  ProofCoversEvent(b, e) <=>
           \E p \in Range(b.proofs) :
              /\ p.signature.key \in PublicKeys(b, e.facts.issuer)
              /\ p.signature.type = "OUTCOME_EVENT"
              /\ p.signature.digest = ObjectDigest(e)
<1>1. ValidProofs(b) = Range(b.proofs)
  <2>1. b.legible /\ ProofIssues(b) = {}
    BY NoIssue
  <2>2. \A p \in Range(b.proofs) : ProofFailure(b, p) = "none"
    BY <2>1, ProofParts DEF ProofSound
  <2> QED BY <2>1, <2>2 DEF ValidProofs
<1>2. Collection(b, "OUTCOME_EVENT") = b.payload.events
  BY DEF Collection
<1>3. ASSUME NEW p \in Range(b.proofs), p.issuer = e.facts.issuer, p.type = "OUTCOME_EVENT",
             p.target = e.id
      PROVE  /\ p.signature.key \in PublicKeys(b, e.facts.issuer)
             /\ p.signature.type = "OUTCOME_EVENT" /\ p.signature.digest = ObjectDigest(e)
  BY <1>2, <1>3, ContentOf
<1>4. ASSUME NEW p \in Range(b.proofs), p.signature.key \in PublicKeys(b, e.facts.issuer),
             p.signature.type = "OUTCOME_EVENT", p.signature.digest = ObjectDigest(e)
      PROVE  p.issuer = e.facts.issuer /\ p.type = "OUTCOME_EVENT" /\ p.target = e.id
  <2>1. p.type = "OUTCOME_EVENT" /\ p.signature.key \in PublicKeys(b, p.issuer)
    BY <1>4, ContentOf
  <2>2. PICK o \in Range(b.payload.events) :
            o.id = p.target /\ ObjectDigest(o) = p.signature.digest
    BY <1>2, <2>1, ContentOf
  <2>3. o.id = e.id
    <3>1. "id" \in DOMAIN o \ {"digest"} /\ "id" \in DOMAIN e \ {"digest"}
      BY DEF Shape
    <3>2. ObjectDigest(o)["id"] = o["id"] /\ ObjectDigest(e)["id"] = e["id"]
      BY <3>1 DEF ObjectDigest
    <3> QED BY <1>4, <2>2, <3>2
  <2>4. PICK i \in Range(b.payload.issuers) :
            i.id = p.issuer /\ \E k \in Range(i.keys) : k.public = p.signature.key
    BY <2>1 DEF PublicKeys
  <2>5. PICK j \in Range(b.payload.issuers) :
            j.id = e.facts.issuer /\ \E k \in Range(j.keys) : k.public = p.signature.key
    BY <1>4 DEF PublicKeys
  <2>6. i.id = j.id
    BY <2>4, <2>5 DEF KeysApart
  <2> QED BY <2>1, <2>2, <2>3, <2>4, <2>5, <2>6
<1> QED BY <1>1, <1>3, <1>4 DEF ProofCoversEvent

-----------------------------------------------------------------------------
(* What the Relay builds.                                                  *)

\* Sealing an object changes nothing but its digest.
LEMMA SealedIs ==
  ASSUME NEW o, "digest" \in DOMAIN o
  PROVE  /\ DOMAIN WithObjectDigest(o) = DOMAIN o
         /\ WithObjectDigest(o).digest = ObjectDigest(WithObjectDigest(o))
         /\ \A m \in DOMAIN o \ {"digest"} : WithObjectDigest(o)[m] = o[m]
<1> DEFINE w == WithObjectDigest(o)
<1>1. /\ DOMAIN w = DOMAIN o /\ w["digest"] = ObjectDigest(o)
      /\ \A m \in DOMAIN o \ {"digest"} : w[m] = o[m]
  BY DEF WithObjectDigest
<1> HIDE DEF w
<1>2. ObjectDigest(w) = ObjectDigest(o)
  BY <1>1 DEF ObjectDigest
<1> QED BY <1>1, <1>2 DEF w

LEMMA EventIs ==
  ASSUME NEW id, NEW facts, NEW evidence, NEW parents, NEW sound,
         NEW v, v = Event(id, facts, evidence, parents, sound)
  PROVE  /\ v.id = id /\ v.facts = facts /\ v.evidence = evidence /\ v.parents = parents
         /\ v.sound = sound /\ v.digest = ObjectDigest(v)
         /\ "id" \in DOMAIN v
<1> DEFINE o == [kind |-> "event", id |-> id, facts |-> facts, evidence |-> evidence,
                 parents |-> parents, sound |-> sound, digest |-> Malformed]
<1>1. /\ DOMAIN o = {"kind", "id", "facts", "evidence", "parents", "sound", "digest"}
      /\ o["id"] = id /\ o["facts"] = facts /\ o["evidence"] = evidence
      /\ o["parents"] = parents /\ o["sound"] = sound
  OBVIOUS
<1>2. v = WithObjectDigest(o)
  BY DEF Event
<1> HIDE DEF o
<1>3. /\ DOMAIN v = DOMAIN o /\ v.digest = ObjectDigest(v)
      /\ \A m \in DOMAIN o \ {"digest"} : v[m] = o[m]
  BY <1>1, <1>2, SealedIs
<1> QED BY <1>1, <1>3

LEMMA EvidenceItemIs ==
  ASSUME NEW id, NEW issuer, NEW sound, NEW v, v = EvidenceItem(id, issuer, sound)
  PROVE  /\ v.id = id /\ v.issuer = issuer /\ v.sound = sound /\ v.digest = ObjectDigest(v)
         /\ "id" \in DOMAIN v
<1> DEFINE o == [kind |-> "evidence", id |-> id, issuer |-> issuer, sound |-> sound,
                 digest |-> Malformed]
<1>1. /\ DOMAIN o = {"kind", "id", "issuer", "sound", "digest"}
      /\ o["id"] = id /\ o["issuer"] = issuer /\ o["sound"] = sound
  OBVIOUS
<1>2. v = WithObjectDigest(o)
  BY DEF EvidenceItem
<1> HIDE DEF o
<1>3. /\ DOMAIN v = DOMAIN o /\ v.digest = ObjectDigest(v)
      /\ \A m \in DOMAIN o \ {"digest"} : v[m] = o[m]
  BY <1>1, <1>2, SealedIs
<1> QED BY <1>1, <1>3

LEMMA SupportIs ==
  ASSUME NEW id, NEW item, NEW event, NEW v, v = Support(id, item, event)
  PROVE  /\ v.id = id /\ v.type = "SUPPORTS" /\ v.from = <<"evidence", item>>
         /\ v.to = <<"event", event>> /\ v.sound /\ v.digest = ObjectDigest(v)
         /\ "id" \in DOMAIN v
<1> DEFINE o == [kind |-> "relationship", id |-> id, type |-> "SUPPORTS",
                 from |-> <<"evidence", item>>, to |-> <<"event", event>>,
                 sound |-> TRUE, digest |-> Malformed]
<1>1. /\ DOMAIN o = {"kind", "id", "type", "from", "to", "sound", "digest"}
      /\ o["id"] = id /\ o["type"] = "SUPPORTS" /\ o["from"] = <<"evidence", item>>
      /\ o["to"] = <<"event", event>> /\ o["sound"] = TRUE
  OBVIOUS
<1>2. v = WithObjectDigest(o)
  BY DEF Support
<1> HIDE DEF o
<1>3. /\ DOMAIN v = DOMAIN o /\ v.digest = ObjectDigest(v)
      /\ \A m \in DOMAIN o \ {"digest"} : v[m] = o[m]
  BY <1>1, <1>2, SealedIs
<1> QED BY <1>1, <1>3

\* A set of one element makes one sequence.
LEMMA SetToSeqOne ==
  /\ SetToSeq({}) = <<>>
  /\ \A x : SetToSeq({x}) = <<x>>
<1>1. SetToSeq({}) = <<>>
  <2>1. Cardinality({}) = 0
    BY FS_EmptySet
  <2>2. <<>> \in [1..0 -> {}] /\ IsInjective(<<>>)
    BY DEF IsInjective
  <2>3. SetToSeq({}) \in [1..0 -> {}]
    BY <2>1, <2>2 DEF SetToSeq
  <2> QED BY <2>2, <2>3
<1>2. ASSUME NEW x PROVE SetToSeq({x}) = <<x>>
  <2>1. Cardinality({x}) = 1
    BY FS_Singleton
  <2>2. <<x>> \in [1..1 -> {x}] /\ IsInjective(<<x>>)
    BY DEF IsInjective
  <2>3. SetToSeq({x}) \in [1..1 -> {x}]
    BY <2>1, <2>2 DEF SetToSeq
  <2> QED BY <2>2, <2>3
<1> QED BY <1>1, <1>2

\* The facts of a Stripe event.
IsFact(f, r, e) ==
    /\ <<f.type, f.phase, f.status>> \in RegisteredEvents
    /\ f.phase \in {"EFFECT", "SETTLEMENT", "TERMINATION"}
    /\ f.source = "SYSTEM_OF_RECORD" /\ f.issuer = r.issuer
    /\ f.occurred = e.created /\ f.recorded = Now

AtMostOne(S) == S = {} \/ \E x : S = {x}

LEMMA NormalizedFacts ==
  ASSUME NEW r, NEW e, NEW facts, facts = Stripe!Normalize(e, r.issuer, Now)
  PROVE  /\ AtMostOne({f \in facts : f.type = "created"})
         /\ AtMostOne({f \in facts : f.type # "created"})
         /\ \A f \in facts : IsFact(f, r, e)
         /\ Stripe!Supported(e) => facts # {}
<1> DEFINE Fact(d) == [type |-> d[1], phase |-> d[2], status |-> d[3],
                       source |-> "SYSTEM_OF_RECORD", issuer |-> r.issuer,
                       occurred |-> e.created, recorded |-> Now]
           C == Stripe!CreationDescriptors(e.type)
           S == Stripe!StatusDescriptors(e.type, e.status)
           created == <<"created", "EFFECT", "SUCCEEDED">>
           statuses == {<<"settlement_pending", "SETTLEMENT", "PENDING">>,
                        <<"settled", "SETTLEMENT", "SUCCEEDED">>,
                        <<"settlement_failed", "SETTLEMENT", "FAILED">>,
                        <<"cancelled", "TERMINATION", "CANCELLED">>}
<1>1. C = {} \/ C = {created}
  BY DEF Stripe!CreationDescriptors
<1>2. S = {} \/ \E d \in statuses : S = {d}
  BY DEF Stripe!StatusDescriptors
<1>3. facts = {Fact(d) : d \in C \cup S}
  BY DEF Stripe!Normalize, Stripe!Descriptors
<1>4. Stripe!Supported(e) => C \cup S # {}
  BY DEF Stripe!Supported, Stripe!Descriptors
<1> HIDE DEF C, S
<1>5. Fact(created).type = "created" /\ IsFact(Fact(created), r, e)
  BY DEF IsFact, RegisteredEvents
<1>6. \A d \in statuses : Fact(d).type # "created" /\ IsFact(Fact(d), r, e)
  BY DEF IsFact, RegisteredEvents
<1> HIDE DEF Fact, created, statuses
<1>7. \A f \in facts : f.type = "created" => f = Fact(created)
  BY <1>1, <1>2, <1>3, <1>6
<1>8. AtMostOne({f \in facts : f.type = "created"})
  BY <1>7 DEF AtMostOne
<1>9. AtMostOne({f \in facts : f.type # "created"})
  <2>1. CASE S = {}
    BY <1>1, <1>3, <1>5, <2>1 DEF AtMostOne
  <2>2. CASE S # {}
    <3>1. PICK d \in statuses : S = {d}
      BY <1>2, <2>2
    <3>2. \A f \in facts : f.type # "created" => f = Fact(d)
      BY <1>1, <1>3, <1>5, <3>1
    <3> QED BY <3>2 DEF AtMostOne
  <2> QED BY <2>1, <2>2
<1> QED BY <1>1, <1>2, <1>3, <1>4, <1>5, <1>6, <1>8, <1>9

\* An outcome event made of a Stripe event, but for what it is built on.
IsNew(v, r, e) ==
    /\ IsFact(v.facts, r, e)
    /\ v.id = <<"tpe", "stripe", e.id, v.facts.type>>
    /\ v.evidence = {<<"tpev", "stripe", e.id>>} /\ v.sound = TRUE
    /\ v.digest = ObjectDigest(v) /\ "id" \in DOMAIN v

LEMMA LinkedIs ==
  ASSUME NEW r, NEW e, NEW facts, NEW before, AtMostOne(facts),
         \A f \in facts : IsFact(f, r, e)
  PROVE  \/ facts = {} /\ Linked(e, facts, before) = <<>>
         \/ \E f \in facts : \E v :
               /\ Linked(e, facts, before) = <<v>>
               /\ IsNew(v, r, e) /\ v.facts = f /\ v.parents = LastDigest(before)
<1> DEFINE New(f) == Event(<<"tpe", "stripe", e.id, f.type>>, f, {<<"tpev", "stripe", e.id>>},
                           LastDigest(before), TRUE)
<1>1. Linked(e, facts, before) = SetToSeq({New(f) : f \in facts})
  BY DEF Linked
<1>2. \A f \in facts : IsNew(New(f), r, e) /\ New(f).facts = f
                          /\ New(f).parents = LastDigest(before)
  <2> SUFFICES ASSUME NEW f \in facts, NEW v, v = New(f)
               PROVE  IsNew(v, r, e) /\ v.facts = f /\ v.parents = LastDigest(before)
    OBVIOUS
  <2>1. /\ v.id = <<"tpe", "stripe", e.id, f.type>> /\ v.facts = f
        /\ v.evidence = {<<"tpev", "stripe", e.id>>} /\ v.parents = LastDigest(before)
        /\ v.sound = TRUE /\ v.digest = ObjectDigest(v) /\ "id" \in DOMAIN v
    <3> DEFINE id == <<"tpe", "stripe", e.id, f.type>>
               evidence == {<<"tpev", "stripe", e.id>>}
               parents == LastDigest(before)
               sound == TRUE
    <3>1. v = Event(id, f, evidence, parents, sound)
      OBVIOUS
    <3> HIDE DEF id, evidence, parents, sound, New
    <3>2. /\ v.id = id /\ v.facts = f /\ v.evidence = evidence /\ v.parents = parents
          /\ v.sound = sound /\ v.digest = ObjectDigest(v) /\ "id" \in DOMAIN v
      BY <3>1, EventIs
    <3> QED BY <3>2 DEF id, evidence, parents, sound
  <2> QED BY <2>1 DEF IsNew
<1> HIDE DEF New
<1>3. CASE facts = {}
  <2>1. {New(f) : f \in facts} = {}
    BY <1>3
  <2> QED BY <1>1, <1>3, <2>1, SetToSeqOne
<1>4. CASE facts # {}
  <2>1. PICK f : facts = {f}
    BY <1>4 DEF AtMostOne
  <2>2. {New(g) : g \in facts} = {New(f)}
    BY <2>1
  <2>3. Linked(e, facts, before) = <<New(f)>>
    BY <1>1, <2>2, SetToSeqOne
  <2> QED BY <1>2, <2>1, <2>3
<1> QED BY <1>3, <1>4

LEMMA LastSingle == \A v : LastDigest(<<v>>) = <<v.digest>>
<1> SUFFICES ASSUME NEW v PROVE LastDigest(<<v>>) = <<v.digest>>
  OBVIOUS
<1>1. IsSeq(<<v>>) /\ Len(<<v>>) = 1 /\ <<v>>[1] = v
  BY SeqSingle
<1>2. <<v>> # <<>>
  BY <1>1, SeqBasics
<1> QED BY <1>1, <1>2 DEF LastDigest, Last

\* The last of a concatenation.
LEMMA LastOfConcat ==
  ASSUME NEW s, IsSeq(s), NEW v
  PROVE  LastDigest(s \o <<v>>) = <<v.digest>>
<1>1. IsSeq(<<v>>) /\ Len(<<v>>) = 1 /\ <<v>>[1] = v
  BY SeqSingle
<1>2. /\ IsSeq(s \o <<v>>) /\ Len(s \o <<v>>) = Len(s) + 1 /\ Len(s) \in Nat
      /\ (s \o <<v>>)[Len(s) + 1] = v
  BY <1>1, SeqConcat, SeqBasics
<1>3. s \o <<v>> # <<>>
  BY <1>2, SeqBasics
<1> QED BY <1>2, <1>3 DEF LastDigest, Last

\* The new events: one or two, each built on the one before.
LEMMA ObservedIs ==
  ASSUME NEW r, NEW e, NEW before, IsSeq(before), Stripe!Supported(e),
         NEW events, events = Observed(r, e, before)
  PROVE  /\ IsSeq(events) /\ Len(events) \in {1, 2}
         /\ \A v \in Range(events) : IsNew(v, r, e)
         /\ ~DuplicateId(events)
         /\ events[1].parents = LastDigest(before)
         /\ Len(events) = 2 => events[2].parents = <<events[1].digest>>
<1> DEFINE facts == Stripe!Normalize(e, r.issuer, Now)
           C == {f \in facts : f.type = "created"}
           S == {f \in facts : f.type # "created"}
           creation == Linked(e, C, before)
           status == Linked(e, S, before \o creation)
<1>1. events = creation \o status
  BY DEF Observed
<1>2. /\ AtMostOne(C) /\ AtMostOne(S) /\ C \cup S # {}
      /\ \A f \in C : IsFact(f, r, e) /\ f.type = "created"
      /\ \A f \in S : IsFact(f, r, e) /\ f.type # "created"
  BY NormalizedFacts
<1>3. \/ C = {} /\ creation = <<>>
      \/ \E f \in C : \E v : /\ creation = <<v>> /\ IsNew(v, r, e)
                             /\ v.facts = f /\ v.parents = LastDigest(before)
  <2> HIDE DEF C, S
  <2> QED BY <1>2, LinkedIs
<1>4. \/ S = {} /\ status = <<>>
      \/ \E f \in S : \E v : /\ status = <<v>> /\ IsNew(v, r, e)
                             /\ v.facts = f /\ v.parents = LastDigest(before \o creation)
  <2> HIDE DEF C, S, creation
  <2> QED BY <1>2, LinkedIs
<1>5. before \o <<>> = before
  BY ConcatEmptySeq DEF IsSeq
<1> HIDE DEF C, S, facts, creation, status
<1>6. ASSUME NEW v, events = <<v>>, IsNew(v, r, e), v.parents = LastDigest(before)
      PROVE  /\ IsSeq(events) /\ Len(events) \in {1, 2}
             /\ \A u \in Range(events) : IsNew(u, r, e)
             /\ ~DuplicateId(events)
             /\ events[1].parents = LastDigest(before)
             /\ Len(events) = 2 => events[2].parents = <<events[1].digest>>
  <2>1. IsSeq(events) /\ Len(events) = 1 /\ events[1] = v /\ Range(events) = {v}
    BY <1>6, SeqSingle
  <2>2. DOMAIN events = 1..1
    BY <2>1, SeqBasics
  <2>3. ~DuplicateId(events)
    BY <2>2 DEF DuplicateId, IsInjective, Ids
  <2> QED BY <1>6, <2>1, <2>3
<1>7. CASE C = {} /\ creation = <<>>
  <2>1. PICK f \in S : \E v : /\ status = <<v>> /\ IsNew(v, r, e)
                             /\ v.facts = f /\ v.parents = LastDigest(before \o creation)
    BY <1>2, <1>4, <1>7
  <2>2. PICK v : status = <<v>> /\ IsNew(v, r, e) /\ v.parents = LastDigest(before)
    BY <1>5, <1>7, <2>1
  <2>3. events = <<v>>
    BY <1>1, <1>7, <2>2, SeqSingle, ConcatEmptySeq DEF IsSeq
  <2> QED BY <1>6, <2>2, <2>3
<1>8. CASE C # {}
  <2>0. PICK f \in C : \E v : /\ creation = <<v>> /\ IsNew(v, r, e)
                             /\ v.facts = f /\ v.parents = LastDigest(before)
    BY <1>3, <1>8
  <2>1. PICK v : /\ creation = <<v>> /\ IsNew(v, r, e)
                 /\ v.facts = f /\ v.parents = LastDigest(before)
    BY <2>0
  <2>2. CASE S = {} /\ status = <<>>
    <3>1. events = <<v>>
      BY <1>1, <2>1, <2>2, SeqSingle, ConcatEmptySeq DEF IsSeq
    <3> QED BY <1>6, <2>1, <3>1
  <2>3. CASE S # {}
    <3>0. PICK g \in S : \E u : /\ status = <<u>> /\ IsNew(u, r, e)
                               /\ u.facts = g /\ u.parents = LastDigest(before \o creation)
      BY <1>4, <2>3
    <3>1. PICK u : /\ status = <<u>> /\ IsNew(u, r, e)
                   /\ u.facts = g /\ u.parents = LastDigest(before \o creation)
      BY <3>0
    <3>2. /\ IsSeq(<<v>>) /\ Len(<<v>>) = 1 /\ <<v>>[1] = v /\ Range(<<v>>) = {v}
          /\ IsSeq(<<u>>) /\ Len(<<u>>) = 1 /\ <<u>>[1] = u /\ Range(<<u>>) = {u}
      BY SeqSingle
    <3>3. events = <<v>> \o <<u>>
      BY <1>1, <2>1, <3>1
    <3>4. /\ IsSeq(events) /\ Len(events) = 2 /\ Range(events) = {v, u}
          /\ events[1] = v /\ events[2] = u
      <4>1. /\ IsSeq(events) /\ Len(events) = 1 + 1 /\ Range(events) = {v} \cup {u}
            /\ \A i \in 1..1 : events[i] = <<v>>[i]
            /\ \A i \in 1..1 : events[1 + i] = <<u>>[i]
        BY <3>2, <3>3, SeqConcat
      <4>2. events[1] = v /\ events[1 + 1] = u
        BY <3>2, <4>1
      <4> QED BY <4>1, <4>2
    <3>5. DOMAIN events = 1..2
      BY <3>4, SeqBasics
    <3>6. v.facts.type # u.facts.type
      BY <1>2, <2>1, <3>1
    <3>7. v.id # u.id
      BY <2>1, <3>1, <3>6 DEF IsNew
    <3>8. \A i \in DOMAIN events : i \in {1, 2}
      BY <3>5
    <3>9. ~DuplicateId(events)
      BY <3>4, <3>7, <3>8 DEF DuplicateId, IsInjective, Ids
    <3>10. u.parents = <<v.digest>>
      BY <2>1, <3>1, LastOfConcat
    <3> QED BY <2>1, <3>1, <3>4, <3>9, <3>10
  <2> QED BY <1>4, <2>2, <2>3
<1> QED BY <1>3, <1>7, <1>8

\* A proof that the Relay makes.
RelayProof(b, r, type, id, proofId) ==
    SignatureProof(b, type, id, r.issuer, RelayKeyId, r.key, proofId, Now)

ProofsMade(b, r, item, events, prefix, made) ==
    /\ IsSeq(made) /\ Len(made) = Len(events) + 1
    /\ made[1] = RelayProof(b, r, "EVIDENCE_ITEM", item.id, prefix \o <<1>>)
    /\ \A i \in 1..Len(events) :
          made[i + 1] = RelayProof(b, r, "OUTCOME_EVENT", events[i].id, prefix \o <<i + 1>>)

LEMMA SignTargetsIs ==
  ASSUME NEW b, {"legible", "payload", "proofs"} \subseteq DOMAIN b,
         NEW r, NEW item, NEW events, IsSeq(events), NEW prefix,
         NEW c, c = SignTargets(b, r, item, events, prefix)
  PROVE  /\ c.payload = b.payload /\ c.legible = b.legible /\ DOMAIN c = DOMAIN b
         /\ \E made : c.proofs = b.proofs \o made /\ ProofsMade(b, r, item, events, prefix, made)
<1> DEFINE first == <<"EVIDENCE_ITEM", item.id>>
           others == [i \in DOMAIN events |-> <<"OUTCOME_EVENT", events[i].id>>]
           targets == <<first>> \o others
           Made(i) == RelayProof(b, r, targets[i][1], targets[i][2], prefix \o <<i>>)
           made == [i \in DOMAIN targets |-> Made(i)]
<1>1. Len(events) \in Nat /\ DOMAIN events = 1..Len(events)
  BY SeqBasics
<1>2. IsSeq(others) /\ Len(others) = Len(events)
  <2>1. others \in [1..Len(events) -> Range(others)]
    BY <1>1 DEF Range
  <2> QED BY <1>1, <2>1, SeqBuilt
<1>3. IsSeq(<<first>>) /\ Len(<<first>>) = 1 /\ <<first>>[1] = first
  BY SeqSingle
<1>4. /\ IsSeq(targets) /\ Len(targets) = 1 + Len(events)
      /\ \A i \in 1..1 : targets[i] = <<first>>[i]
      /\ \A i \in 1..Len(events) : targets[1 + i] = others[i]
  <2> HIDE DEF first, others
  <2> QED BY <1>2, <1>3, SeqConcat
<1>5. /\ targets[1] = first
      /\ \A i \in 1..Len(events) : targets[i + 1] = <<"OUTCOME_EVENT", events[i].id>>
  <2> HIDE DEF first, targets
  <2>1. targets[1] = first
    BY <1>3, <1>4
  <2>2. ASSUME NEW i \in 1..Len(events)
        PROVE  targets[i + 1] = <<"OUTCOME_EVENT", events[i].id>>
    <3>1. 1 + i = i + 1
      BY <1>1
    <3>2. others[i] = <<"OUTCOME_EVENT", events[i].id>>
      BY <1>1
    <3> HIDE DEF others
    <3> QED BY <1>4, <3>1, <3>2
  <2> QED BY <2>1, <2>2
<1>6. DOMAIN targets = 1..(Len(events) + 1)
  <2> HIDE DEF targets
  <2>1. Len(targets) = Len(events) + 1
    BY <1>1, <1>4
  <2> QED BY <1>4, <2>1, SeqBasics
<1>7. c = [b EXCEPT !.proofs = @ \o made]
  BY DEF SignTargets, RelayProof
<1> HIDE DEF targets
<1>8. IsSeq(made) /\ Len(made) = Len(events) + 1
  <2>1. made \in [1..(Len(events) + 1) -> Range(made)]
    BY <1>6 DEF Range
  <2> HIDE DEF made
  <2> QED BY <1>1, <2>1, SeqBuilt
<1>9. made[1] = RelayProof(b, r, "EVIDENCE_ITEM", item.id, prefix \o <<1>>)
  <2>1. 1 \in DOMAIN targets
    BY <1>1, <1>6
  <2>2. made[1] = Made(1)
    BY <2>1
  <2>3. targets[1][1] = "EVIDENCE_ITEM" /\ targets[1][2] = item.id
    BY <1>5
  <2> HIDE DEF made
  <2> QED BY <2>2, <2>3
<1>10. ASSUME NEW i \in 1..Len(events)
       PROVE  made[i + 1] = RelayProof(b, r, "OUTCOME_EVENT", events[i].id, prefix \o <<i + 1>>)
  <2>1. i + 1 \in DOMAIN targets
    BY <1>1, <1>6
  <2>2. made[i + 1] = Made(i + 1)
    BY <2>1
  <2>3. targets[i + 1][1] = "OUTCOME_EVENT" /\ targets[i + 1][2] = events[i].id
    BY <1>5
  <2> HIDE DEF made
  <2> QED BY <2>2, <2>3
<1> HIDE DEF made
<1>11. /\ c.payload = b.payload /\ c.legible = b.legible /\ DOMAIN c = DOMAIN b
       /\ c.proofs = b.proofs \o made
  BY <1>7
<1>12. ProofsMade(b, r, item, events, prefix, made)
  BY <1>8, <1>9, <1>10 DEF ProofsMade
<1> QED BY <1>11, <1>12

\* All but the proofs of a bundle is in its payload.
LEMMA SamePayload ==
  ASSUME NEW b, NEW c, b.payload = c.payload
  PROVE  /\ PayloadIssues(b) = PayloadIssues(c)
         /\ IssuerIds(b) = IssuerIds(c)
         /\ \A type, id : TargetDigest(b, type, id) = TargetDigest(c, type, id)
         /\ \A type, id : Resolves(b, type, id) <=> Resolves(c, type, id)
         /\ \A p : ProofFailure(b, p) = ProofFailure(c, p)
         /\ \A r, type, id, proofId :
               RelayProof(b, r, type, id, proofId) = RelayProof(c, r, type, id, proofId)
<1>1. \A type : Collection(b, type) = Collection(c, type)
  BY DEF Collection
<1>2. IssuerIds(b) = IssuerIds(c)
  BY DEF IssuerIds
<1>3. \A type, id : TargetDigest(b, type, id) = TargetDigest(c, type, id)
  BY <1>1 DEF TargetDigest, PayloadDigest
<1>4. \A type, id : Resolves(b, type, id) <=> Resolves(c, type, id)
  BY <1>1 DEF Resolves
<1>5. ASSUME NEW p PROVE ProofFailure(b, p) = ProofFailure(c, p)
  BY <1>2, <1>3, <1>4 DEF ProofFailure
<1>6. ASSUME NEW r, NEW type, NEW id, NEW proofId
      PROVE  RelayProof(b, r, type, id, proofId) = RelayProof(c, r, type, id, proofId)
  BY <1>3 DEF RelayProof, SignatureProof
<1>7. PayloadIssues(b) = PayloadIssues(c)
  <2>1. \A e : EventIssues(b, e) = EventIssues(c, e)
    BY <1>2 DEF EventIssues
  <2>2. \A e : ParentIssues(b, e) = ParentIssues(c, e)
    BY DEF ParentIssues
  <2>3. \A e : EvidenceRefIssues(b, e) = EvidenceRefIssues(c, e)
    BY DEF EvidenceRefIssues
  <2>4. \A e : EvidenceIssues(b, e) = EvidenceIssues(c, e)
    BY <1>2 DEF EvidenceIssues
  <2>5. \A r : EndpointIssues(b, r) = EndpointIssues(c, r)
    BY DEF EndpointIssues
  <2>6. ObjectIdIssues(b) = ObjectIdIssues(c) /\ PredecessorIssues(b) = PredecessorIssues(c)
    BY DEF ObjectIdIssues, PredecessorIssues
  <2> QED BY <2>1, <2>2, <2>3, <2>4, <2>5, <2>6 DEF PayloadIssues
<1> QED BY <1>2, <1>3, <1>4, <1>5, <1>6, <1>7

\* What the Relay signs with its own key, over what the target declares.
LEMMA RelayProofIs ==
  ASSUME NEW b, NEW r, NEW type, NEW id, NEW proofId,
         NEW p, p = RelayProof(b, r, type, id, proofId)
  PROVE  /\ p.id = proofId /\ p.sound = TargetFormed(type, id)
         /\ p.type = type /\ p.target = id
         /\ p.digest = TargetDigest(b, type, id) /\ p.issuer = r.issuer
         /\ p.method[1] = r.issuer /\ p.method[2] = RelayKeyId /\ p.created = Now
         /\ p.signature = [key |-> r.key, type |-> type, digest |-> TargetDigest(b, type, id)]
BY DEF RelayProof, SignatureProof

\* A bundle extended by what a Stripe event becomes.
Grown(b, c, r, e, item, events, supports, made) ==
    /\ DOMAIN c = DOMAIN b /\ c.legible = b.legible
    /\ DOMAIN c.payload = {"revision", "issuers", "events", "evidence", "relationships",
                           "predecessors"}
    /\ c.payload.issuers = b.payload.issuers
    /\ c.payload.events = b.payload.events \o events
    /\ c.payload.evidence = Append(b.payload.evidence, item)
    /\ c.payload.relationships = b.payload.relationships \o supports
    /\ c.payload.predecessors = <<PayloadDigest(b)>>
    /\ c.proofs = b.proofs \o made
    /\ item = EvidenceItem(<<"tpev", "stripe", e.id>>, r.issuer, TRUE)
    /\ events = Observed(r, e, b.payload.events)
    /\ IsSeq(supports) /\ Len(supports) = Len(events)
    /\ \A i \in 1..Len(events) :
          supports[i] = Support(<<"tpr", "stripe", e.id, i>>, item.id, events[i].id)
    /\ ProofsMade(c, r, item, events, <<"tpp", "stripe", e.id>>, made)

LEMMA NextBundleIs ==
  ASSUME NEW b, Shape(b), NEW r, NEW e, Stripe!Supported(e), NEW c, c = NextBundle(b, r, e)
  PROVE  \E item, events, supports, made : Grown(b, c, r, e, item, events, supports, made)
<1> DEFINE p == b.payload
           events == Observed(r, e, p.events)
           item == EvidenceItem(<<"tpev", "stripe", e.id>>, r.issuer, TRUE)
           Supporting(i) == Support(<<"tpr", "stripe", e.id, i>>, item.id, events[i].id)
           supports == [i \in DOMAIN events |-> Supporting(i)]
           payload == [revision |-> p.revision + 1, issuers |-> p.issuers,
                       events |-> p.events \o events,
                       evidence |-> Append(p.evidence, item),
                       relationships |-> p.relationships \o supports,
                       predecessors |-> <<PayloadDigest(b)>>]
           d == [b EXCEPT !.payload = payload]
           prefix == <<"tpp", "stripe", e.id>>
<1>1. c = SignTargets(d, r, item, events, prefix)
  BY DEF NextBundle, NextIssuers
<1>2. IsSeq(events) /\ Len(events) \in Nat /\ DOMAIN events = 1..Len(events)
  <2>1. IsSeq(p.events)
    BY DEF Shape
  <2>2. IsSeq(events)
    BY <2>1, ObservedIs
  <2> QED BY <2>2, SeqBasics
<1>3. /\ IsSeq(supports) /\ Len(supports) = Len(events)
      /\ \A i \in 1..Len(events) : supports[i] = Supporting(i)
  <2> HIDE DEF events
  <2>1. supports \in [1..Len(events) -> Range(supports)]
    BY <1>2 DEF Range
  <2>2. \A i \in 1..Len(events) : supports[i] = Supporting(i)
    BY <1>2
  <2> HIDE DEF supports
  <2> QED BY <1>2, <2>1, <2>2, SeqBuilt
<1>4. /\ DOMAIN payload = {"revision", "issuers", "events", "evidence", "relationships",
                           "predecessors"}
      /\ payload.issuers = p.issuers /\ payload.events = p.events \o events
      /\ payload.evidence = Append(p.evidence, item)
      /\ payload.relationships = p.relationships \o supports
      /\ payload.predecessors = <<PayloadDigest(b)>>
  <2> HIDE DEF events, supports, item, p
  <2> QED OBVIOUS
<1> HIDE DEF payload
<1>5. DOMAIN d = DOMAIN b /\ d.payload = payload /\ d.legible = b.legible /\ d.proofs = b.proofs
  BY DEF Shape
<1> HIDE DEF d, events, item, supports, prefix
<1>6. /\ c.payload = d.payload /\ c.legible = d.legible /\ DOMAIN c = DOMAIN d
      /\ \E made : c.proofs = d.proofs \o made /\ ProofsMade(d, r, item, events, prefix, made)
  <2>1. {"legible", "payload", "proofs"} \subseteq DOMAIN d
    BY <1>5 DEF Shape
  <2> HIDE DEF p
  <2> QED BY <1>1, <1>2, <2>1, SignTargetsIs
<1>7. PICK made : c.proofs = d.proofs \o made /\ ProofsMade(d, r, item, events, prefix, made)
  BY <1>6
<1>8. \A type, id, proofId : RelayProof(d, r, type, id, proofId) = RelayProof(c, r, type, id, proofId)
  BY <1>6, SamePayload
<1>9. ProofsMade(c, r, item, events, prefix, made)
  BY <1>7, <1>8 DEF ProofsMade
<1>10. /\ item = EvidenceItem(<<"tpev", "stripe", e.id>>, r.issuer, TRUE)
       /\ events = Observed(r, e, b.payload.events)
       /\ prefix = <<"tpp", "stripe", e.id>>
  BY DEF item, events, prefix
<1>11. Grown(b, c, r, e, item, events, supports, made)
  BY <1>3, <1>4, <1>5, <1>6, <1>7, <1>9, <1>10 DEF Grown
<1> QED BY <1>11

Claim(r, occurred) ==
    [type |-> "requested", phase |-> "INTENT", status |-> "SUCCEEDED",
     source |-> "SELF_CLAIMED", issuer |-> r.issuer, occurred |-> occurred, recorded |-> Now]

\* The bundle an action starts with.
Initial(c, r, occurred, sound, item, event) ==
    /\ DOMAIN c = {"legible", "payload", "proofs"} /\ c.legible = TRUE
    /\ DOMAIN c.payload = {"revision", "issuers", "events", "evidence", "relationships",
                           "predecessors"}
    /\ c.payload.issuers = <<RelayIssuer(r)>>
    /\ c.payload.events = <<event>> /\ c.payload.evidence = <<item>>
    /\ c.payload.relationships = <<Support(<<"tpr", "claim", 1>>, item.id, event.id)>>
    /\ c.payload.predecessors = <<>>
    /\ item = EvidenceItem(<<"tpev", "claim">>, r.issuer, TRUE)
    /\ event = Event(<<"tpe", "claim">>, Claim(r, occurred), {item.id}, <<>>, sound)
    /\ ProofsMade(c, r, item, <<event>>, <<"tpp", "claim">>, c.proofs)

LEMMA FirstBundleIs ==
  ASSUME NEW r, NEW occurred, NEW sound, NEW c, c = FirstBundle(r, occurred, sound)
  PROVE  \E item, event : Initial(c, r, occurred, sound, item, event)
<1> DEFINE item == EvidenceItem(<<"tpev", "claim">>, r.issuer, TRUE)
           event == Event(<<"tpe", "claim">>, Claim(r, occurred), {item.id}, <<>>, sound)
           support == Support(<<"tpr", "claim", 1>>, item.id, event.id)
           issuer == RelayIssuer(r)
           payload == [revision |-> 1, issuers |-> <<issuer>>, events |-> <<event>>,
                       evidence |-> <<item>>, relationships |-> <<support>>,
                       predecessors |-> <<>>]
           d == [legible |-> TRUE, payload |-> payload, proofs |-> <<>>]
           prefix == <<"tpp", "claim">>
<1>1. c = SignTargets(d, r, item, <<event>>, prefix)
  BY DEF FirstBundle, Claim
<1>2. IsSeq(<<event>>)
  BY SeqSingle
<1> HIDE DEF item, event, support, issuer
<1>3. /\ DOMAIN payload = {"revision", "issuers", "events", "evidence", "relationships",
                           "predecessors"}
      /\ payload.issuers = <<issuer>> /\ payload.events = <<event>>
      /\ payload.evidence = <<item>> /\ payload.relationships = <<support>>
      /\ payload.predecessors = <<>>
  OBVIOUS
<1> HIDE DEF payload
<1>4. /\ DOMAIN d = {"legible", "payload", "proofs"} /\ d.payload = payload
      /\ d.legible = TRUE /\ d.proofs = <<>>
  OBVIOUS
<1> HIDE DEF d, prefix
<1>5. /\ c.payload = d.payload /\ c.legible = d.legible /\ DOMAIN c = DOMAIN d
      /\ \E made : c.proofs = d.proofs \o made /\ ProofsMade(d, r, item, <<event>>, prefix, made)
  <2>1. {"legible", "payload", "proofs"} \subseteq DOMAIN d
    BY <1>4
  <2> QED BY <1>1, <1>2, <2>1, SignTargetsIs
<1>6. PICK made : c.proofs = d.proofs \o made /\ ProofsMade(d, r, item, <<event>>, prefix, made)
  BY <1>5
<1>7. \A type, id, proofId : RelayProof(d, r, type, id, proofId) = RelayProof(c, r, type, id, proofId)
  BY <1>5, SamePayload
<1>8. ProofsMade(c, r, item, <<event>>, prefix, made)
  BY <1>6, <1>7 DEF ProofsMade
<1>9. c.proofs = made
  BY <1>4, <1>6, ConcatEmptySeq DEF ProofsMade, IsSeq
<1>10. Initial(c, r, occurred, sound, item, event)
  BY <1>3, <1>4, <1>5, <1>8, <1>9 DEF Initial, item, event, support, issuer, prefix
<1> QED BY <1>10

-----------------------------------------------------------------------------
(* The shape of bundles and whose keys are in them.                        *)

\* The issuers of a bundle: the relay it began with, and auditors.
IssuersInv(b) ==
    /\ b.payload.issuers # <<>>
    /\ \E r \in Configurations :
          /\ b.payload.issuers[1] = RelayIssuer(r)
          /\ \A i \in Range(b.payload.issuers) :
                \/ i = RelayIssuer(r)
                \/ i.id = Auditor /\ \A k \in Range(i.keys) : k.public = AuditorKey

\* The inductive invariant of every bundle there is.
ShapeInv ==
    /\ current # NoFile => Shape(current) /\ IssuersInv(current)
    /\ file # NoFile => Shape(file) /\ IssuersInv(file)

LEMMA RelayIssuerIs ==
  ASSUME NEW r, NEW i, i = RelayIssuer(r)
  PROVE  /\ i.id = r.issuer /\ i.sound = TRUE
         /\ IsSeq(i.keys) /\ Len(i.keys) = 1
         /\ \E k : /\ i.keys = <<k>> /\ i.keys[1] = k /\ Range(i.keys) = {k}
                  /\ k.id = RelayKeyId /\ k.public = r.key /\ k.from = 0 /\ k.until = Forever
<1> DEFINE k == [id |-> RelayKeyId, public |-> r.key, from |-> 0, until |-> Forever]
<1>1. k.id = RelayKeyId /\ k.public = r.key /\ k.from = 0 /\ k.until = Forever
  OBVIOUS
<1>2. i = [id |-> r.issuer, sound |-> TRUE, keys |-> <<k>>]
  BY DEF RelayIssuer
<1> HIDE DEF k
<1>3. i.id = r.issuer /\ i.sound = TRUE /\ i.keys = <<k>>
  BY <1>2
<1>4. IsSeq(<<k>>) /\ Len(<<k>>) = 1 /\ <<k>>[1] = k /\ Range(<<k>>) = {k}
  BY SeqSingle
<1>5. /\ i.keys = <<k>> /\ i.keys[1] = k /\ Range(i.keys) = {k}
      /\ k.id = RelayKeyId /\ k.public = r.key /\ k.from = 0 /\ k.until = Forever
  BY <1>1, <1>3, <1>4
<1> QED BY <1>3, <1>4, <1>5

LEMMA RelayIssuerKey ==
  ASSUME NEW r, NEW i, i = RelayIssuer(r)
  PROVE  /\ i.id = r.issuer /\ i.keys[1].public = r.key
         /\ \A k \in Range(i.keys) : k.public = r.key
<1> DEFINE k == [id |-> RelayKeyId, public |-> r.key, from |-> 0, until |-> Forever]
<1>1. i = [id |-> r.issuer, sound |-> TRUE, keys |-> <<k>>] /\ k.public = r.key
  BY DEF RelayIssuer
<1> HIDE DEF k
<1>2. <<k>>[1] = k /\ Range(<<k>>) = {k}
  BY SeqSingle
<1>3. i.id = r.issuer /\ i.keys = <<k>>
  BY <1>1
<1> QED BY <1>1, <1>2, <1>3

LEMMA IssuersKeysApart ==
  ASSUME NEW b, IssuersInv(b)
  PROVE  KeysApart(b)
<1>1. PICK r \in Configurations :
          \A i \in Range(b.payload.issuers) :
                \/ i = RelayIssuer(r)
                \/ i.id = Auditor /\ \A k \in Range(i.keys) : k.public = AuditorKey
  BY DEF IssuersInv
<1>2. r.key \in RelayKeys
  BY DEF Configurations
<1>3. \A k \in Range(RelayIssuer(r).keys) : k.public = r.key
  BY RelayIssuerKey
<1> QED BY <1>1, <1>2, <1>3, FileAssumption DEF KeysApart

\* One of the proofs made.
OneMade(b, r, item, events, prefix, p) ==
    \/ p = RelayProof(b, r, "EVIDENCE_ITEM", item.id, prefix \o <<1>>)
    \/ \E i \in 1..Len(events) :
          p = RelayProof(b, r, "OUTCOME_EVENT", events[i].id, prefix \o <<i + 1>>)

LEMMA MadeIs ==
  ASSUME NEW b, NEW r, NEW item, NEW events, IsSeq(events), NEW prefix, NEW made,
         ProofsMade(b, r, item, events, prefix, made)
  PROVE  \A p \in Range(made) : OneMade(b, r, item, events, prefix, p)
<1> SUFFICES ASSUME NEW p \in Range(made)
             PROVE  \/ p = made[1]
                    \/ \E i \in 1..Len(events) : p = made[i + 1]
  BY DEF ProofsMade, OneMade
<1>1. PICK j \in 1..Len(made) : made[j] = p
  BY SeqBasics DEF ProofsMade
<1>2. Len(events) \in Nat /\ Len(made) = Len(events) + 1
  BY SeqBasics DEF ProofsMade
<1>3. j = 1 \/ (j - 1 \in 1..Len(events) /\ j = (j - 1) + 1)
  BY <1>2
<1> QED BY <1>1, <1>3

MadeType(p) == "type" \in DOMAIN p /\ p.type \in {"EVIDENCE_ITEM", "OUTCOME_EVENT"}

LEMMA MadeTypes ==
  ASSUME NEW b, NEW r, NEW item, NEW events, IsSeq(events), NEW prefix, NEW made,
         ProofsMade(b, r, item, events, prefix, made)
  PROVE  \A p \in Range(made) : MadeType(p)
<1> SUFFICES ASSUME NEW p \in Range(made) PROVE MadeType(p)
  OBVIOUS
<1>1. \A type, id, proofId :
          /\ RelayProof(b, r, type, id, proofId).type = type
          /\ "type" \in DOMAIN RelayProof(b, r, type, id, proofId)
  BY DEF RelayProof, SignatureProof
<1>2. CASE p = RelayProof(b, r, "EVIDENCE_ITEM", item.id, prefix \o <<1>>)
  BY <1>1, <1>2 DEF MadeType
<1>3. ASSUME NEW i \in 1..Len(events),
             p = RelayProof(b, r, "OUTCOME_EVENT", events[i].id, prefix \o <<i + 1>>)
      PROVE  MadeType(p)
  BY <1>1, <1>3 DEF MadeType
<1>4. OneMade(b, r, item, events, prefix, p)
  BY MadeIs
<1> QED BY <1>2, <1>3, <1>4 DEF OneMade

LEMMA InitialShape ==
  ASSUME NEW c, NEW r \in Configurations, NEW occurred, NEW sound, NEW item, NEW event,
         Initial(c, r, occurred, sound, item, event)
  PROVE  Shape(c) /\ IssuersInv(c)
<1> DEFINE issuer == RelayIssuer(r)
<1>1. PICK k : /\ IsSeq(issuer.keys) /\ Range(issuer.keys) = {k}
               /\ k.from = 0 /\ k.until = Forever
  BY RelayIssuerIs
<1>2. c.payload.issuers = <<issuer>>
  BY DEF Initial
<1> HIDE DEF issuer
<1>3. IsSeq(c.payload.issuers) /\ Range(c.payload.issuers) = {issuer}
      /\ c.payload.issuers[1] = issuer /\ Len(c.payload.issuers) = 1
  BY <1>2, SeqSingle
<1>4. IssuersInv(c)
  BY <1>3, SeqBasics DEF IssuersInv, issuer
<1>5. IsSeq(c.payload.events) /\ Range(c.payload.events) = {event}
  <2>1. c.payload.events = <<event>>
    BY DEF Initial
  <2> QED BY <2>1, SeqSingle
<1>6. "id" \in DOMAIN event
  <2> DEFINE evidence == {item.id}
             claim == Claim(r, occurred)
  <2>1. event = Event(<<"tpe", "claim">>, claim, evidence, <<>>, sound)
    BY DEF Initial
  <2> HIDE DEF evidence, claim
  <2> QED BY <2>1, EventIs
<1>7. IsSeq(c.payload.evidence) /\ IsSeq(c.payload.relationships)
  <2>1. /\ c.payload.evidence = <<item>>
        /\ c.payload.relationships = <<Support(<<"tpr", "claim", 1>>, item.id, event.id)>>
    BY DEF Initial
  <2> QED BY <2>1, SeqSingle
<1>8. IsSeq(c.proofs) /\ \A p \in Range(c.proofs) : Typed(p)
  <2>1. IsSeq(<<event>>)
    BY SeqSingle
  <2>2. ProofsMade(c, r, item, <<event>>, <<"tpp", "claim">>, c.proofs)
    BY DEF Initial
  <2>3. \A p \in Range(c.proofs) : MadeType(p)
    BY <2>1, <2>2, MadeTypes
  <2> QED BY <2>2, <2>3 DEF ProofsMade, TargetTypes, Typed, MadeType
<1>9. \A i \in Range(c.payload.issuers) :
          IsSeq(i.keys) /\ \A l \in Range(i.keys) : l.from \in Nat /\ l.until \in Nat
  BY <1>1, <1>3 DEF Forever
<1>10. /\ {"legible", "payload", "proofs"} \subseteq DOMAIN c
       /\ {"issuers", "events", "evidence", "relationships"} \subseteq DOMAIN c.payload
  BY DEF Initial
<1>11. Shape(c)
  BY <1>3, <1>5, <1>6, <1>7, <1>8, <1>9, <1>10 DEF Shape
<1> QED BY <1>4, <1>11

LEMMA GrownShape ==
  ASSUME NEW b, NEW c, NEW r, NEW e, NEW item, NEW events, NEW supports, NEW made,
         Shape(b), IssuersInv(b), Stripe!Supported(e),
         Grown(b, c, r, e, item, events, supports, made)
  PROVE  Shape(c) /\ IssuersInv(c)
<1>1. c.payload.issuers = b.payload.issuers
  BY DEF Grown
<1>2. IssuersInv(c)
  BY <1>1 DEF IssuersInv
<1>3. IsSeq(events) /\ \A v \in Range(events) : "id" \in DOMAIN v
  <2>1. IsSeq(b.payload.events) /\ events = Observed(r, e, b.payload.events)
    BY DEF Shape, Grown
  <2>2. IsSeq(events) /\ \A v \in Range(events) : IsNew(v, r, e)
    BY <2>1, ObservedIs
  <2> QED BY <2>2 DEF IsNew
<1>4. IsSeq(c.payload.events) /\ Range(c.payload.events) = Range(b.payload.events) \cup Range(events)
  BY <1>3, SeqConcat DEF Shape, Grown
<1>5. IsSeq(c.payload.evidence) /\ IsSeq(c.payload.relationships)
  <2>1. /\ IsSeq(b.payload.evidence) /\ c.payload.evidence = Append(b.payload.evidence, item)
        /\ IsSeq(b.payload.relationships) /\ IsSeq(supports)
        /\ c.payload.relationships = b.payload.relationships \o supports
    BY DEF Shape, Grown
  <2>2. IsSeq(Append(b.payload.evidence, item))
    BY <2>1, SeqAppend
  <2>3. IsSeq(b.payload.relationships \o supports)
    BY <2>1, SeqConcat
  <2> QED BY <2>1, <2>2, <2>3
<1>6. /\ IsSeq(made) /\ \A p \in Range(made) : Typed(p)
  <2>1. ProofsMade(c, r, item, events, <<"tpp", "stripe", e.id>>, made)
    BY DEF Grown
  <2>2. \A p \in Range(made) : MadeType(p)
    BY <1>3, <2>1, MadeTypes
  <2> QED BY <2>1, <2>2 DEF ProofsMade, TargetTypes, Typed, MadeType
<1>7. IsSeq(c.proofs) /\ Range(c.proofs) = Range(b.proofs) \cup Range(made)
  BY <1>6, SeqConcat DEF Shape, Grown
<1>8. /\ {"legible", "payload", "proofs"} \subseteq DOMAIN c
      /\ {"issuers", "events", "evidence", "relationships"} \subseteq DOMAIN c.payload
  BY DEF Shape, Grown
<1>9. Shape(c)
  BY <1>1, <1>3, <1>4, <1>5, <1>6, <1>7, <1>8 DEF Shape
<1> QED BY <1>2, <1>9

\* Only the proofs of a bundle change.
LEMMA ProofsChanged ==
  ASSUME NEW b, NEW ps, Shape(b), IssuersInv(b), IsSeq(ps),
         \A p \in Range(ps) : Typed(p),
         NEW c, DOMAIN c = DOMAIN b, c.payload = b.payload, c.proofs = ps
  PROVE  Shape(c) /\ IssuersInv(c)
<1>1. Shape(c)
  BY DEF Shape
<1>2. IssuersInv(c)
  BY DEF IssuersInv
<1> QED BY <1>1, <1>2

LEMMA AuditorAppended ==
  ASSUME NEW b, Shape(b), IssuersInv(b), NEW a, a.id = Auditor, IsSeq(a.keys),
         \A l \in Range(a.keys) : l.public = AuditorKey /\ l.from \in Nat /\ l.until \in Nat,
         NEW c, DOMAIN c = DOMAIN b, c.proofs = b.proofs,
         DOMAIN c.payload = DOMAIN b.payload,
         c.payload.issuers = Append(b.payload.issuers, a),
         c.payload.events = b.payload.events, c.payload.evidence = b.payload.evidence,
         c.payload.relationships = b.payload.relationships
  PROVE  Shape(c) /\ IssuersInv(c)
<1> DEFINE issuers == b.payload.issuers
<1>1. IsSeq(issuers) /\ issuers # <<>>
  <2>1. IsSeq(issuers)
    BY DEF Shape
  <2>2. issuers # <<>>
    BY DEF IssuersInv
  <2> QED BY <2>1, <2>2
<1>2. /\ IsSeq(c.payload.issuers) /\ Range(c.payload.issuers) = Range(issuers) \cup {a}
      /\ Len(c.payload.issuers) = Len(issuers) + 1
      /\ \A i \in 1..Len(issuers) : c.payload.issuers[i] = issuers[i]
  <2> DEFINE t == Append(issuers, a)
  <2>1. IsSeq(t) /\ Len(t) = Len(issuers) + 1
    <3> HIDE DEF issuers
    <3> QED BY <1>1, SeqAppend
  <2>2. \A i \in 1..Len(issuers) : t[i] = issuers[i]
    <3> HIDE DEF issuers
    <3> QED BY <1>1, SeqAppend
  <2>3. Range(t) = Range(issuers) \cup {a}
    <3> HIDE DEF issuers
    <3> QED BY <1>1, SeqAppend
  <2>4. c.payload.issuers = t
    OBVIOUS
  <2> HIDE DEF t, issuers
  <2> QED BY <2>1, <2>2, <2>3, <2>4
<1>3. \A i \in Range(c.payload.issuers) :
          IsSeq(i.keys) /\ \A l \in Range(i.keys) : l.from \in Nat /\ l.until \in Nat
  BY <1>2 DEF Shape
<1>4. Shape(c)
  BY <1>2, <1>3 DEF Shape
<1>5. c.payload.issuers[1] = issuers[1] /\ c.payload.issuers # <<>>
  <2>1. Len(issuers) \in Nat /\ Len(issuers) > 0
    BY <1>1, SeqBasics
  <2>2. Len(c.payload.issuers) > 0 /\ 1 \in 1..Len(issuers)
    BY <1>2, <2>1
  <2> QED BY <1>2, <2>2, SeqBasics
<1> QED BY <1>2, <1>4, <1>5 DEF IssuersInv

\* An issuer is appended.
LEMMA DeclareShape ==
  ASSUME NEW b, Shape(b), IssuersInv(b), NEW window \in Windows,
         NEW c, c = [b EXCEPT !.payload.issuers =
                        Append(@, [id |-> Auditor, sound |-> TRUE,
                                   keys |-> <<[id |-> "auditor", public |-> AuditorKey,
                                               from |-> window[1], until |-> window[2]]>>])]
  PROVE  /\ Shape(c) /\ IssuersInv(c) /\ c.proofs = b.proofs
<1> DEFINE k == [id |-> "auditor", public |-> AuditorKey,
                 from |-> window[1], until |-> window[2]]
           a == [id |-> Auditor, sound |-> TRUE, keys |-> <<k>>]
           issuers == b.payload.issuers
<1>1. window[1] \in Nat /\ window[2] \in Nat
  BY FileAssumption
<1>2. k.public = AuditorKey /\ k.from \in Nat /\ k.until \in Nat
  BY <1>1
<1>3. c = [b EXCEPT !.payload.issuers = Append(@, a)]
  OBVIOUS
<1> HIDE DEF k
<1>4. a.id = Auditor /\ a.keys = <<k>>
  OBVIOUS
<1>5. IsSeq(a.keys) /\ Range(a.keys) = {k}
  BY <1>4, SeqSingle
<1> HIDE DEF a
<1>6. /\ DOMAIN c = DOMAIN b /\ c.proofs = b.proofs /\ c.legible = b.legible
      /\ c.payload = [b.payload EXCEPT !.issuers = Append(@, a)]
  BY <1>3 DEF Shape
<1>7. /\ DOMAIN c.payload = DOMAIN b.payload /\ c.payload.issuers = Append(issuers, a)
      /\ c.payload.events = b.payload.events /\ c.payload.evidence = b.payload.evidence
      /\ c.payload.relationships = b.payload.relationships
  BY <1>6 DEF Shape
<1>8. \A l \in Range(a.keys) : l.public = AuditorKey /\ l.from \in Nat /\ l.until \in Nat
  BY <1>2, <1>5
<1>9. Shape(c) /\ IssuersInv(c)
  BY <1>4, <1>5, <1>6, <1>7, <1>8, AuditorAppended
<1> QED BY <1>6, <1>9

\* The issuers stay, and the objects are sequences of objects with identifiers.
LEMMA ObjectsChanged ==
  ASSUME NEW b, Shape(b), IssuersInv(b), NEW c, DOMAIN c = DOMAIN b,
         DOMAIN c.payload = DOMAIN b.payload,
         c.payload.issuers = b.payload.issuers,
         IsSeq(c.payload.events), \A e \in Range(c.payload.events) : "id" \in DOMAIN e,
         IsSeq(c.payload.evidence), IsSeq(c.payload.relationships),
         IsSeq(c.proofs), \A p \in Range(c.proofs) : Typed(p)
  PROVE  Shape(c) /\ IssuersInv(c)
BY DEF Shape, IssuersInv

LEMMA ObservationShape ==
  ASSUME NEW b, Shape(b), IssuersInv(b), NEW v, "id" \in DOMAIN v,
         NEW c, c = [b EXCEPT !.payload.events = Append(@, v)]
  PROVE  /\ Shape(c) /\ IssuersInv(c) /\ c.proofs = b.proofs
<1>1. /\ DOMAIN c = DOMAIN b /\ c.proofs = b.proofs
      /\ c.payload = [b.payload EXCEPT !.events = Append(@, v)]
  BY DEF Shape
<1>2. /\ DOMAIN c.payload = DOMAIN b.payload /\ c.payload.issuers = b.payload.issuers
      /\ c.payload.events = Append(b.payload.events, v)
      /\ c.payload.evidence = b.payload.evidence
      /\ c.payload.relationships = b.payload.relationships
  BY <1>1 DEF Shape
<1>3. IsSeq(c.payload.events) /\ Range(c.payload.events) = Range(b.payload.events) \cup {v}
  <2>1. IsSeq(b.payload.events)
    BY DEF Shape
  <2>2. /\ IsSeq(Append(b.payload.events, v))
        /\ Range(Append(b.payload.events, v)) = Range(b.payload.events) \cup {v}
    BY <2>1, SeqAppend
  <2> QED BY <1>2, <2>2
<1>4. \A e \in Range(c.payload.events) : "id" \in DOMAIN e
  BY <1>3 DEF Shape
<1>5. /\ IsSeq(c.payload.evidence) /\ IsSeq(c.payload.relationships)
      /\ IsSeq(c.proofs) /\ \A p \in Range(c.proofs) : Typed(p)
  BY <1>1, <1>2 DEF Shape
<1> QED BY <1>1, <1>2, <1>3, <1>4, <1>5, ObjectsChanged

LEMMA RedateShape ==
  ASSUME NEW b, Shape(b), IssuersInv(b), NEW i \in DOMAIN b.payload.events,
         NEW v, "id" \in DOMAIN v,
         NEW c, c = [b EXCEPT !.payload.events[i] = v]
  PROVE  /\ Shape(c) /\ IssuersInv(c) /\ c.proofs = b.proofs
<1>1. /\ DOMAIN c = DOMAIN b /\ c.proofs = b.proofs
      /\ c.payload = [b.payload EXCEPT !.events[i] = v]
  BY DEF Shape
<1>2. /\ DOMAIN c.payload = DOMAIN b.payload /\ c.payload.issuers = b.payload.issuers
      /\ c.payload.events = [b.payload.events EXCEPT ![i] = v]
      /\ c.payload.evidence = b.payload.evidence
      /\ c.payload.relationships = b.payload.relationships
  BY <1>1 DEF Shape
<1>3. IsSeq(c.payload.events) /\ Range(c.payload.events) \subseteq Range(b.payload.events) \cup {v}
  <2>1. IsSeq(b.payload.events)
    BY DEF Shape
  <2>2. /\ IsSeq([b.payload.events EXCEPT ![i] = v])
        /\ Range([b.payload.events EXCEPT ![i] = v]) \subseteq Range(b.payload.events) \cup {v}
    BY <2>1, SeqExcept
  <2> QED BY <1>2, <2>2
<1>4. \A e \in Range(c.payload.events) : "id" \in DOMAIN e
  BY <1>3 DEF Shape
<1>5. /\ IsSeq(c.payload.evidence) /\ IsSeq(c.payload.relationships)
      /\ IsSeq(c.proofs) /\ \A p \in Range(c.proofs) : Typed(p)
  BY <1>1, <1>2 DEF Shape
<1> QED BY <1>1, <1>2, <1>3, <1>4, <1>5, ObjectsChanged

\* A payload with other events, evidence and relationships.
Replaced(p, x, y, z) == [p EXCEPT !.events = x, !.evidence = y, !.relationships = z]

LEMMA PayloadReplaced ==
  ASSUME NEW p, {"issuers", "events", "evidence", "relationships"} \subseteq DOMAIN p,
         NEW x, NEW y, NEW z
  PROVE  LET q == Replaced(p, x, y, z) IN
         /\ DOMAIN q = DOMAIN p /\ q.issuers = p.issuers
         /\ q.events = x /\ q.evidence = y /\ q.relationships = z
<1> DEFINE q == Replaced(p, x, y, z)
<1>1. DOMAIN q = DOMAIN p /\ q.issuers = p.issuers
  BY DEF Replaced
<1>2. q.events = x
  BY DEF Replaced
<1>3. q.evidence = y
  BY DEF Replaced
<1>4. q.relationships = z
  BY DEF Replaced
<1> QED BY <1>1, <1>2, <1>3, <1>4

LEMMA RedactShape ==
  ASSUME NEW b, Shape(b), IssuersInv(b), NEW events, NEW evidence, NEW relationships, NEW others,
         events \in SUBSET DOMAIN b.payload.events,
         evidence \in SUBSET DOMAIN b.payload.evidence,
         relationships \in SUBSET DOMAIN b.payload.relationships,
         others \in SUBSET DOMAIN b.proofs,
         NEW c,
         c = [b EXCEPT !.payload.events = At(@, events), !.payload.evidence = At(@, evidence),
                       !.payload.relationships = At(@, relationships),
                       !.proofs = At(@, others)]
  PROVE  /\ Shape(c) /\ IssuersInv(c) /\ Len(c.proofs) <= Len(b.proofs)
<1> DEFINE p == b.payload
<1>1. /\ DOMAIN c = DOMAIN b /\ c.proofs = At(b.proofs, others)
      /\ c.payload = Replaced(p, At(p.events, events), At(p.evidence, evidence),
                              At(p.relationships, relationships))
  BY DEF Shape, Replaced
<1>2. {"issuers", "events", "evidence", "relationships"} \subseteq DOMAIN p
  BY DEF Shape
<1>3. /\ DOMAIN c.payload = DOMAIN p /\ c.payload.issuers = p.issuers
      /\ c.payload.events = At(p.events, events)
      /\ c.payload.evidence = At(p.evidence, evidence)
      /\ c.payload.relationships = At(p.relationships, relationships)
  <2> DEFINE x == At(p.events, events)
             y == At(p.evidence, evidence)
             z == At(p.relationships, relationships)
             q == Replaced(p, x, y, z)
  <2>1. q = c.payload
    BY <1>1
  <2> HIDE DEF x, y, z, p
  <2>2. /\ DOMAIN q = DOMAIN p /\ q.issuers = p.issuers
        /\ q.events = x /\ q.evidence = y /\ q.relationships = z
    BY <1>2, PayloadReplaced
  <2> HIDE DEF q
  <2> QED BY <2>1, <2>2 DEF x, y, z
<1>4. /\ IsSeq(p.events) /\ IsSeq(p.evidence) /\ IsSeq(p.relationships) /\ IsSeq(b.proofs)
  BY DEF Shape
<1>5. IsSeq(At(p.events, events)) /\ Range(At(p.events, events)) \subseteq Range(p.events)
  BY <1>4, SeqAt
<1>6. IsSeq(At(p.evidence, evidence)) /\ IsSeq(At(p.relationships, relationships))
  BY <1>4, SeqAt
<1>7. /\ IsSeq(At(b.proofs, others)) /\ Range(At(b.proofs, others)) \subseteq Range(b.proofs)
      /\ Len(At(b.proofs, others)) <= Len(b.proofs)
  BY <1>4, SeqAt
<1>8. \A e \in Range(c.payload.events) : "id" \in DOMAIN e
  BY <1>3, <1>5 DEF Shape
<1>9. \A q \in Range(c.proofs) : Typed(q)
  BY <1>1, <1>7 DEF Shape
<1>10. /\ IsSeq(c.payload.events) /\ IsSeq(c.payload.evidence)
       /\ IsSeq(c.payload.relationships) /\ IsSeq(c.proofs)
  BY <1>1, <1>3, <1>5, <1>6, <1>7
<1>11. Shape(c) /\ IssuersInv(c)
  BY <1>1, <1>3, <1>8, <1>9, <1>10, ObjectsChanged
<1> QED BY <1>1, <1>7, <1>11

LEMMA MoveShape ==
  ASSUME NEW b, Shape(b), IssuersInv(b), NEW i \in DOMAIN b.proofs, NEW q, Typed(q),
         NEW c, c = [b EXCEPT !.proofs[i] = q]
  PROVE  /\ Shape(c) /\ IssuersInv(c) /\ Len(c.proofs) = Len(b.proofs)
<1> DEFINE ps == b.proofs
           moved == [ps EXCEPT ![i] = q]
<1>1. DOMAIN c = DOMAIN b /\ c.payload = b.payload /\ c.proofs = moved
  BY DEF Shape
<1>2. IsSeq(ps) /\ \A p \in Range(ps) : Typed(p)
  BY DEF Shape
<1> HIDE DEF ps
<1>3. IsSeq(moved) /\ Len(moved) = Len(ps) /\ Range(moved) \subseteq Range(ps) \cup {q}
  BY <1>2, SeqExcept DEF ps
<1>4. \A p \in Range(moved) : Typed(p)
  BY <1>2, <1>3
<1> HIDE DEF moved
<1>5. Shape(c) /\ IssuersInv(c)
  BY <1>1, <1>3, <1>4, ProofsChanged
<1> QED BY <1>1, <1>3, <1>5 DEF ps

\* The command line adds a proof of a target that is there.
SignedOne(b, c, p) ==
    \E type \in TargetTypes : \E id, issuer, keyId, key, proofId :
        /\ b.legible /\ Resolves(b, type, id)
        /\ p = SignatureProof(b, type, id, issuer, keyId, key, proofId, Now)
        /\ c = [b EXCEPT !.proofs = Append(@, p)]

LEMMA SignShape ==
  ASSUME NEW b, Shape(b), IssuersInv(b), NEW c, NEW p, SignedOne(b, c, p)
  PROVE  /\ Shape(c) /\ IssuersInv(c)
         /\ c.proofs = Append(b.proofs, p) /\ Len(c.proofs) = Len(b.proofs) + 1
         /\ c.payload = b.payload /\ c.legible = b.legible
<1>0. PICK type \in TargetTypes : \E id, issuer, keyId, key, proofId :
          /\ p = SignatureProof(b, type, id, issuer, keyId, key, proofId, Now)
          /\ c = [b EXCEPT !.proofs = Append(@, p)]
  BY DEF SignedOne
<1>1. PICK id, issuer, keyId, key, proofId :
          /\ p = SignatureProof(b, type, id, issuer, keyId, key, proofId, Now)
          /\ c = [b EXCEPT !.proofs = Append(@, p)]
  BY <1>0
<1>2. /\ DOMAIN c = DOMAIN b /\ c.payload = b.payload /\ c.legible = b.legible
      /\ c.proofs = Append(b.proofs, p)
  BY <1>1 DEF Shape
<1>3. Typed(p)
  <2>1. p.type = type /\ "type" \in DOMAIN p
    BY <1>1 DEF SignatureProof
  <2> QED BY <2>1 DEF Typed
<1>4. IsSeq(b.proofs) /\ \A q \in Range(b.proofs) : Typed(q)
  BY DEF Shape
<1>5. /\ IsSeq(c.proofs) /\ Len(c.proofs) = Len(b.proofs) + 1
      /\ Range(c.proofs) = Range(b.proofs) \cup {p}
  <2>1. /\ IsSeq(Append(b.proofs, p)) /\ Len(Append(b.proofs, p)) = Len(b.proofs) + 1
        /\ Range(Append(b.proofs, p)) = Range(b.proofs) \cup {p}
    BY <1>4, SeqAppend
  <2> QED BY <1>2, <2>1
<1>6. \A q \in Range(c.proofs) : Typed(q)
  BY <1>3, <1>4, <1>5
<1>7. Shape(c) /\ IssuersInv(c)
  BY <1>2, <1>5, <1>6, ProofsChanged
<1> QED BY <1>2, <1>5, <1>7

LEMMA DropShape ==
  ASSUME NEW b, Shape(b), IssuersInv(b), NEW i \in DOMAIN b.proofs,
         NEW c, c = [b EXCEPT !.proofs = RemoveAt(@, i)]
  PROVE  /\ Shape(c) /\ IssuersInv(c) /\ Len(c.proofs) <= Len(b.proofs)
<1>1. DOMAIN c = DOMAIN b /\ c.payload = b.payload /\ c.proofs = RemoveAt(b.proofs, i)
  BY DEF Shape
<1>2. IsSeq(b.proofs) /\ \A p \in Range(b.proofs) : Typed(p)
  BY DEF Shape
<1>3. /\ IsSeq(c.proofs) /\ Len(c.proofs) < Len(b.proofs)
      /\ Range(c.proofs) \subseteq Range(b.proofs)
  BY <1>1, <1>2, SeqRemoveAt
<1>4. \A p \in Range(c.proofs) : Typed(p)
  BY <1>2, <1>3
<1>5. Len(c.proofs) <= Len(b.proofs)
  <2>1. Len(c.proofs) \in Nat /\ Len(b.proofs) \in Nat
    BY <1>2, <1>3, SeqBasics
  <2> QED BY <1>3, <2>1
<1>6. Shape(c) /\ IssuersInv(c)
  BY <1>1, <1>3, <1>4, ProofsChanged
<1> QED BY <1>5, <1>6

LEMMA GarbleShape ==
  ASSUME NEW b, Shape(b), IssuersInv(b), NEW c, c = [b EXCEPT !.legible = FALSE]
  PROVE  /\ Shape(c) /\ IssuersInv(c) /\ c.proofs = b.proofs
<1>1. DOMAIN c = DOMAIN b /\ c.payload = b.payload /\ c.proofs = b.proofs
  BY DEF Shape
<1>2. IsSeq(b.proofs) /\ \A p \in Range(b.proofs) : Typed(p)
  BY DEF Shape
<1> QED BY <1>1, <1>2, ProofsChanged

\* What a change to the file is: at most as many proofs as before, or one more
\* that the command line made.
Changed(b, c) ==
    /\ Shape(c) /\ IssuersInv(c)
    /\ Len(c.proofs) <= Len(b.proofs) \/ \E p : SignedOne(b, c, p)

LEMMA EditChanges ==
  ASSUME file # NoFile, Shape(file), IssuersInv(file), Edit
  PROVE  Changed(file, file') /\ UNCHANGED current
<1>0. IsSeq(file.proofs) /\ Len(file.proofs) \in Nat
  BY SeqBasics DEF Shape
<1>1. CASE SignSomething
  <2>1. PICK signer \in {<<Auditor, "auditor", AuditorKey>>,
                         <<Operator.id, RelayKeyId, AuditorKey>>,
                         <<Operator.id, RelayKeyId, Operator.keys[1].public>>},
             target \in CommandTargets,
             proofId \in {<<"tpp", "cli", edits>>, <<"tpp", "claim", 1>>} :
                Sign(target[1], target[2], signer[1], signer[2], signer[3], proofId)
    BY <1>1 DEF SignSomething
  <2>2. target[1] \in TargetTypes
    BY DEF CommandTargets, TargetTypes
  <2> DEFINE p == SignatureProof(file, target[1], target[2], signer[1], signer[2], signer[3],
                                 proofId, Now)
  <2>3. /\ file.legible /\ Resolves(file, target[1], target[2]) /\ UNCHANGED current
        /\ file' = [file EXCEPT !.proofs = Append(@, p)]
    BY <2>1 DEF Sign, Change
  <2>4. SignedOne(file, file', p)
    BY <2>2, <2>3 DEF SignedOne
  <2> HIDE DEF p
  <2>5. Shape(file') /\ IssuersInv(file')
    BY <2>4, SignShape
  <2> QED BY <2>3, <2>4, <2>5 DEF Changed
<1>2. ASSUME NEW window \in Windows, DeclareAuditor(window)
      PROVE  Changed(file, file') /\ UNCHANGED current
  <2>1. Shape(file') /\ IssuersInv(file') /\ file'.proofs = file.proofs /\ UNCHANGED current
    BY <1>2, DeclareShape DEF DeclareAuditor, Change
  <2> QED BY <1>0, <2>1 DEF Changed
<1>3. ASSUME NEW id, AddObservation(id)
      PROVE  Changed(file, file') /\ UNCHANGED current
  <2>1. PICK facts, sound :
            /\ file' = [file EXCEPT !.payload.events =
                           Append(@, Event(id, facts, {}, LastDigest(@), sound))]
            /\ UNCHANGED current
    BY <1>3 DEF AddObservation, Change
  <2> DEFINE v == Event(id, facts, {}, LastDigest(file.payload.events), sound)
  <2>2. file' = [file EXCEPT !.payload.events = Append(@, v)]
    BY <2>1
  <2>3. "id" \in DOMAIN v
    <3> DEFINE parents == LastDigest(file.payload.events)
               evidence == {}
    <3>1. v = Event(id, facts, evidence, parents, sound)
      OBVIOUS
    <3> HIDE DEF parents, evidence, v
    <3> QED BY <3>1, EventIs
  <2> HIDE DEF v
  <2>4. Shape(file') /\ IssuersInv(file') /\ file'.proofs = file.proofs
    BY <2>2, <2>3, ObservationShape
  <2> QED BY <1>0, <2>1, <2>4 DEF Changed
<1>4. ASSUME NEW i \in DOMAIN file.payload.events, NEW sealed \in BOOLEAN, Redate(i, sealed)
      PROVE  Changed(file, file') /\ UNCHANGED current
  <2> DEFINE e == [file.payload.events[i] EXCEPT !.facts.occurred = 1]
             v == IF sealed THEN WithObjectDigest(e) ELSE e
  <2>1. file' = [file EXCEPT !.payload.events[i] = v] /\ UNCHANGED current
    BY <1>4 DEF Redate, Change
  <2>2. "id" \in DOMAIN v
    <3>1. "id" \in DOMAIN file.payload.events[i]
      BY DEF Shape, Range
    <3>2. "id" \in DOMAIN e
      BY <3>1
    <3> HIDE DEF e
    <3>3. DOMAIN WithObjectDigest(e) = DOMAIN e
      BY DEF WithObjectDigest
    <3> QED BY <3>2, <3>3
  <2> HIDE DEF v
  <2>3. Shape(file') /\ IssuersInv(file') /\ file'.proofs = file.proofs
    BY <2>1, <2>2, RedateShape
  <2> QED BY <1>0, <2>1, <2>3 DEF Changed
<1>5. ASSUME NEW kind, NEW id, Redact(kind, id)
      PROVE  Changed(file, file') /\ UNCHANGED current
  <2> DEFINE Kept(objects) == {i \in DOMAIN objects : objects[i].id # id}
             Apart(rels) == {i \in DOMAIN rels : <<kind, id>> \notin {rels[i].from, rels[i].to}}
             events == Kept(file.payload.events)
             evidence == Kept(file.payload.evidence)
             relationships == Apart(file.payload.relationships)
             others == {i \in DOMAIN file.proofs : file.proofs[i].target # id}
  <2>1. UNCHANGED current
    BY <1>5 DEF Redact, Change
  <2>2. file' = [file EXCEPT !.payload.events = At(@, events),
                             !.payload.evidence = At(@, evidence),
                             !.payload.relationships = At(@, relationships),
                             !.proofs = At(@, others)]
    BY <1>5 DEF Redact, Change, Shape
  <2>3. /\ events \in SUBSET DOMAIN file.payload.events
        /\ evidence \in SUBSET DOMAIN file.payload.evidence
        /\ relationships \in SUBSET DOMAIN file.payload.relationships
        /\ others \in SUBSET DOMAIN file.proofs
    OBVIOUS
  <2> HIDE DEF events, evidence, relationships, others
  <2>4. Shape(file') /\ IssuersInv(file') /\ Len(file'.proofs) <= Len(file.proofs)
    BY <2>2, <2>3, RedactShape
  <2> QED BY <2>1, <2>4 DEF Changed
<1>6. ASSUME NEW i \in DOMAIN file.proofs, DropProof(i)
      PROVE  Changed(file, file') /\ UNCHANGED current
  <2>1. file' = [file EXCEPT !.proofs = RemoveAt(@, i)] /\ UNCHANGED current
    BY <1>6 DEF DropProof, Change
  <2>2. Shape(file') /\ IssuersInv(file') /\ Len(file'.proofs) <= Len(file.proofs)
    BY <2>1, DropShape
  <2> QED BY <2>1, <2>2 DEF Changed
<1>7. ASSUME NEW i \in DOMAIN file.proofs, NEW e, MoveProof(i, e)
      PROVE  Changed(file, file') /\ UNCHANGED current
  <2> DEFINE q == [file.proofs[i] EXCEPT !.type = "OUTCOME_EVENT", !.target = e.id,
                                         !.digest = e.digest]
  <2>1. file' = [file EXCEPT !.proofs[i] = q] /\ UNCHANGED current
    BY <1>7 DEF MoveProof, Change
  <2>3. Typed(q)
    <3>1. Typed(file.proofs[i])
      BY DEF Shape, Range
    <3>2. q.type = "OUTCOME_EVENT" /\ DOMAIN q = DOMAIN file.proofs[i]
      BY <3>1 DEF Typed
    <3> QED BY <3>1, <3>2 DEF Typed, TargetTypes
  <2> HIDE DEF q
  <2>2. Shape(file') /\ IssuersInv(file') /\ Len(file'.proofs) = Len(file.proofs)
    BY <2>1, <2>3, MoveShape
  <2> QED BY <1>0, <2>1, <2>2 DEF Changed
<1>8. ASSUME Garble PROVE Changed(file, file') /\ UNCHANGED current
  <2>1. file' = [file EXCEPT !.legible = FALSE] /\ UNCHANGED current
    BY <1>8 DEF Garble, Change
  <2>2. Shape(file') /\ IssuersInv(file') /\ file'.proofs = file.proofs
    BY <2>1, GarbleShape
  <2> QED BY <1>0, <2>1, <2>2 DEF Changed
<1> QED BY <1>1, <1>2, <1>3, <1>4, <1>5, <1>6, <1>7, <1>8 DEF Edit

LEMMA ShapeInit == Init => ShapeInv
BY DEF Init, ShapeInv

LEMMA CreateShape ==
  ASSUME ShapeInv, NEW r \in Configurations, NEW occurred, NEW sound,
         CreateAction(r, occurred, sound)
  PROVE  ShapeInv'
<1>1. current' = FirstBundle(r, occurred, sound) /\ file' = file
  BY DEF CreateAction
<1>2. PICK item, event : Initial(current', r, occurred, sound, item, event)
  BY <1>1, FirstBundleIs
<1>3. Shape(current') /\ IssuersInv(current')
  BY <1>2, InitialShape
<1> QED BY <1>1, <1>3 DEF ShapeInv

LEMMA IngestShape ==
  ASSUME ShapeInv, NEW r \in Configurations, NEW e \in StripeEvents, IngestWebhook(r, e)
  PROVE  ShapeInv'
<1>1. /\ current # NoFile /\ Stripe!Supported(e) /\ current' = NextBundle(current, r, e)
      /\ file' = file
  BY DEF IngestWebhook
<1>2. Shape(current) /\ IssuersInv(current)
  BY <1>1 DEF ShapeInv
<1>3. PICK item, events, supports, made :
          Grown(current, current', r, e, item, events, supports, made)
  BY <1>1, <1>2, NextBundleIs
<1>4. Shape(current') /\ IssuersInv(current')
  BY <1>1, <1>2, <1>3, GrownShape
<1> QED BY <1>1, <1>4 DEF ShapeInv

LEMMA ShapeStep == ShapeInv /\ [Next]_vars => ShapeInv'
<1> SUFFICES ASSUME ShapeInv, [Next]_vars PROVE ShapeInv'
  OBVIOUS
<1>1. ASSUME NEW r \in Configurations, NEW occurred \in {Now, Later}, NEW sound \in BOOLEAN,
             CreateAction(r, occurred, sound)
      PROVE  ShapeInv'
  BY <1>1, CreateShape
<1>2. ASSUME NEW r \in Configurations, NEW e \in StripeEvents, IngestWebhook(r, e)
      PROVE  ShapeInv'
  BY <1>2, IngestShape
<1>3. CASE Download
  BY <1>3 DEF Download, ShapeInv
<1>4. CASE file # NoFile /\ Edit
  <2>1. Shape(file) /\ IssuersInv(file)
    BY <1>4 DEF ShapeInv
  <2>2. Shape(file') /\ IssuersInv(file') /\ current' = current
    BY <1>4, <2>1, EditChanges DEF Changed
  <2> QED BY <2>2 DEF ShapeInv
<1>5. CASE UNCHANGED vars
  BY <1>5 DEF vars, ShapeInv
<1> QED BY <1>1, <1>2, <1>3, <1>4, <1>5 DEF Next

\* Whatever is done to it, a bundle stays made of sequences of records, it
\* declares first the issuer that the Relay had when the action was created,
\* and no key of that issuer is also the auditor's.
THEOREM BundlesHaveShape == Spec => []ShapeInv
BY ShapeInit, ShapeStep, PTL DEF Spec

-----------------------------------------------------------------------------
(* What a file that passes says.                                           *)

\* In a file that passes, every proof is a signature by a key of the issuer it
\* names over the present content of its target.
THEOREM ProofsCover == Spec => []ProofsCoverContent
<1>1. ShapeInv => ProofsCoverContent
  <2> SUFFICES ASSUME ShapeInv, file # NoFile, Passes(file), NEW p \in Range(file.proofs)
               PROVE  /\ p.signature.key \in PublicKeys(file, p.issuer)
                      /\ p.signature.type = p.type
                      /\ IF p.type = "BUNDLE_PAYLOAD"
                         THEN p.signature.digest = PayloadDigest(file)
                         ELSE {ObjectDigest(o) :
                                  o \in {u \in Range(Collection(file, p.type)) : u.id = p.target}}
                                = {p.signature.digest}
    BY DEF ProofsCoverContent
  <2>1. Shape(file)
    BY DEF ShapeInv
  <2>2. p.signature.key \in PublicKeys(file, p.issuer) /\ p.signature.type = p.type
    BY <2>1, ContentOf
  <2>3. CASE p.type = "BUNDLE_PAYLOAD"
    BY <2>1, <2>2, <2>3, ContentOf
  <2>4. CASE p.type # "BUNDLE_PAYLOAD"
    <3> DEFINE c == Range(Collection(file, p.type))
               targets == {u \in c : u.id = p.target}
    <3>1. \E o \in c :
             /\ o.id = p.target /\ ObjectDigest(o) = p.signature.digest
             /\ \A u \in c : u.id = p.target => u = o
      BY <2>1, <2>4, ContentOf
    <3> HIDE DEF c
    <3>2. PICK o \in c :
             /\ o.id = p.target /\ ObjectDigest(o) = p.signature.digest
             /\ \A u \in c : u.id = p.target => u = o
      BY <3>1
    <3>3. targets = {o}
      BY <3>2
    <3>4. {ObjectDigest(u) : u \in targets} = {p.signature.digest}
      <4> HIDE DEF targets
      <4> QED BY <3>2, <3>3
    <3> QED BY <2>2, <2>4, <3>4 DEF c
  <2> QED BY <2>3, <2>4
<1> QED BY <1>1, BundlesHaveShape, PTL

\* The verdict on a file that passes is the one the rules give to its events
\* and to the signatures their own issuers made over them.
THEOREM VerdictRests == Spec => []VerdictRestsOnSignatures
<1>1. ShapeInv => VerdictRestsOnSignatures
  <2> DEFINE events == Range(file.payload.events)
             Signed(e) == \E p \in Range(file.proofs) :
                             /\ p.signature.key \in PublicKeys(file, e.facts.issuer)
                             /\ p.signature.type = "OUTCOME_EVENT"
                             /\ p.signature.digest = ObjectDigest(e)
             signed == {e \in events : Signed(e)}
             covered == {f \in events : ProofCoversEvent(file, f)}
             One(f) == [issuer |-> f.issuer, target |-> f, sound |-> TRUE]
             facts == {e.facts : e \in events}
             proofs == {One(e.facts) : e \in signed}
  <2> SUFFICES ASSUME ShapeInv, file # NoFile, Passes(file)
               PROVE  Verdict(file) = Rules!Verdict([events |-> facts, proofs |-> proofs])
    BY DEF VerdictRestsOnSignatures
  <2>1. Shape(file) /\ KeysApart(file)
    BY IssuersKeysApart DEF ShapeInv
  <2>2. \A e \in events : ProofCoversEvent(file, e) <=> Signed(e)
    BY <2>1, CoveredSigned
  <2> HIDE DEF Signed
  <2>3. covered = signed
    BY <2>2
  <2>4. Verdict(file) = Rules!Verdict([events |-> facts,
                                       proofs |-> {One(f) : f \in {e.facts : e \in covered}}])
    BY DEF Verdict, Passes
  <2> HIDE DEF covered, signed, One
  <2>5. {One(f) : f \in {e.facts : e \in covered}} = proofs
    BY <2>3
  <2> HIDE DEF facts, proofs
  <2> QED BY <2>4, <2>5
<1> QED BY <1>1, BundlesHaveShape, PTL

\* In a file that passes, what each event was built on is there as it was.
THEOREM LineageIsComplete == Spec => []LineageComplete
<1>1. LineageComplete
  BY LineageOf DEF LineageComplete
<1> QED BY <1>1, PTL

-----------------------------------------------------------------------------
(* Signing.                                                                *)

\* A proof made as the command line asks, in a file that passes, verifies.
LEMMA ProperProofSound ==
  ASSUME NEW b, Shape(b), Passes(b), NEW c, NEW p, SignedOne(b, c, p), ProperlyMade(b, p)
  PROVE  ProofSound(b, p)
<1>0. PICK type \in TargetTypes : \E id, issuer, keyId, key, proofId :
          /\ Resolves(b, type, id)
          /\ p = SignatureProof(b, type, id, issuer, keyId, key, proofId, Now)
  BY DEF SignedOne
<1>1. PICK id, issuer, keyId, key, proofId :
          /\ Resolves(b, type, id)
          /\ p = SignatureProof(b, type, id, issuer, keyId, key, proofId, Now)
  BY <1>0
<1>2. /\ TargetFormed(p.type, p.target) => p.sound = TRUE
      /\ Resolves(b, p.type, p.target)
      /\ p.digest = TargetDigest(b, p.type, p.target)
      /\ p.method[1] = p.issuer
      /\ p.signature = [key |-> key, type |-> p.type, digest |-> p.digest]
      /\ p.signature.key = key
  BY <1>1 DEF SignatureProof
<1>3. PICK i \in Range(b.payload.issuers) : \E k \in Range(i.keys) :
          /\ <<i.id, k.id>> = p.method
          /\ k.public = p.signature.key
          /\ p.created \in k.from..k.until
  BY DEF ProperlyMade
<1>4. PICK k \in Range(i.keys) :
          /\ <<i.id, k.id>> = p.method
          /\ k.public = p.signature.key
          /\ p.created \in k.from..k.until
  BY <1>3
<1>5. p.issuer = i.id /\ p.method[2] = k.id
  <2>1. p.method[1] = i.id /\ p.method[2] = k.id
    BY <1>4
  <2> QED BY <1>2, <2>1
<1>6. PayloadIssues(b) = {}
  BY NoIssue
<1>7. ~DuplicateId(b.payload.issuers) /\ ~DuplicateId(i.keys)
  <2>1. IssuerIssues(i) = {} /\ ~DuplicateId(b.payload.issuers)
    BY <1>6, PayloadParts
  <2>2. Issue("DUPLICATE_KEY_ID", DuplicateId(i.keys)) \subseteq IssuerIssues(i)
    BY DEF IssuerIssues
  <2> QED BY <2>1, <2>2, IssueEmpty
<1>8. IsSeq(b.payload.issuers) /\ IsSeq(i.keys) /\ k.from \in Nat /\ k.until \in Nat
  BY DEF Shape
<1>9. First(b.payload.issuers, p.issuer) = i
  BY <1>5, <1>7, <1>8, FirstUnique
<1>10. First(i.keys, p.method[2]) = k
  BY <1>5, <1>7, <1>8, FirstUnique
<1>11. p.issuer \in IssuerIds(b) /\ p.method[2] \in Range(Ids(i.keys))
  BY <1>5, IdsRange DEF IssuerIds
<1>12. KeyFailure(k, p) = "none"
  <2>1. p.signature = [key |-> k.public, type |-> p.type, digest |-> p.digest]
    BY <1>2, <1>4
  <2>2. ~(p.created < k.from) /\ ~(p.created > k.until)
    BY <1>4, <1>8
  <2> QED BY <2>1, <2>2 DEF KeyFailure
<1>13. ProofFailure(b, p) = "none"
  BY <1>2, <1>9, <1>10, <1>11, <1>12 DEF ProofFailure
<1>14. p.sound
  BY <1>2 DEF ProperlyMade
<1> QED BY <1>2, <1>11, <1>13, <1>14 DEF ProofSound

\* Signing a file that passes, properly, leaves it passing with every proof
\* valid, and signing never repairs a file that does not pass.
THEOREM SigningOnlyAdds == Spec => SigningAddsOnly
<1> DEFINE A(b, c) ==
       b # NoFile /\ Signs(b, c) =>
          IF Passes(b) /\ ProperlyMade(b, Last(c.proofs))
          THEN Passes(c) /\ ValidProofs(c) = Range(c.proofs)
          ELSE Passes(c) => Passes(b)
<1>1. ASSUME NEW b, NEW c, NEW p, Shape(b), IssuersInv(b), SignedOne(b, c, p)
      PROVE  IF Passes(b) /\ ProperlyMade(b, Last(c.proofs))
             THEN Passes(c) /\ ValidProofs(c) = Range(c.proofs)
             ELSE Passes(c) => Passes(b)
  <2>1. /\ Shape(c) /\ c.proofs = Append(b.proofs, p) /\ Len(c.proofs) = Len(b.proofs) + 1
        /\ c.payload = b.payload /\ c.legible = b.legible
    BY <1>1, SignShape
  <2>2. b.legible
    BY <1>1 DEF SignedOne
  <2>3. /\ PayloadIssues(b) = PayloadIssues(c) /\ IssuerIds(b) = IssuerIds(c)
        /\ \A q : ProofFailure(b, q) = ProofFailure(c, q)
    BY <2>1, SamePayload
  <2>4. IsSeq(b.proofs) /\ IsSeq(c.proofs)
    BY <1>1, <2>1 DEF Shape
  <2>5. /\ Range(c.proofs) = Range(b.proofs) \cup {p}
        /\ c.proofs = b.proofs \o <<p>> /\ Last(c.proofs) = p
    <3>1. /\ Range(Append(b.proofs, p)) = Range(b.proofs) \cup {p}
          /\ Append(b.proofs, p) = b.proofs \o <<p>>
          /\ Append(b.proofs, p)[Len(b.proofs) + 1] = p
      BY <2>4, SeqAppend
    <3> QED BY <2>1, <3>1 DEF Last
  <2>6. IsSeq(<<p>>) /\ Range(<<p>>) = {p} /\ Len(<<p>>) = 1
    BY SeqSingle
  <2>7. \A q : ProofSound(b, q) <=> ProofSound(c, q)
    BY <2>3 DEF ProofSound
  <2>8. ASSUME Passes(c) PROVE Passes(b)
    <3>1. PayloadIssues(c) = {} /\ ProofIssues(c) = {}
      BY <2>8, NoIssue
    <3>2. (\A q \in Range(c.proofs) : ProofSound(c, q)) /\ ~DuplicateId(c.proofs)
      BY <3>1, ProofParts
    <3>3. ~DuplicateId(b.proofs)
      BY <2>4, <2>5, <2>6, <3>2, InjectiveParts
    <3>4. ProofIssues(b) = {}
      BY <2>5, <2>7, <3>2, <3>3, ProofParts
    <3>5. Issues(b) = {}
      BY <2>2, <2>3, <3>1, <3>4 DEF Issues
    <3> QED BY <3>5, StatusOfIssues
  <2>9. ASSUME Passes(b), ProperlyMade(b, p)
        PROVE  Passes(c) /\ ValidProofs(c) = Range(c.proofs)
    <3>1. PayloadIssues(b) = {} /\ ProofIssues(b) = {}
      BY <2>9, NoIssue
    <3>2. (\A q \in Range(b.proofs) : ProofSound(b, q)) /\ ~DuplicateId(b.proofs)
      BY <3>1, ProofParts
    <3>3. ProofSound(b, p)
      BY <1>1, <2>9, ProperProofSound
    <3>4. \A q \in Range(c.proofs) : ProofSound(c, q)
      BY <2>5, <2>7, <3>2, <3>3
    <3>5. ~DuplicateId(c.proofs)
      <4>1. p.id \notin Range(Ids(b.proofs))
        BY <2>9 DEF ProperlyMade
      <4>2. Range(Ids(<<p>>)) = {p.id}
        BY <2>6, IdsRange
      <4>3. ~DuplicateId(<<p>>)
        <5>1. DOMAIN <<p>> = 1..1
          BY <2>6, SeqBasics
        <5> QED BY <5>1 DEF DuplicateId, IsInjective, Ids
      <4>4. Range(Ids(b.proofs)) \cap Range(Ids(<<p>>)) = {}
        BY <4>1, <4>2
      <4> QED BY <2>4, <2>5, <2>6, <3>2, <4>3, <4>4, InjectiveConcat
    <3>6. ProofIssues(c) = {}
      BY <3>4, <3>5, ProofParts
    <3>7. Issues(c) = {}
      BY <2>1, <2>2, <2>3, <3>1, <3>6 DEF Issues
    <3>8. ValidProofs(c) = Range(c.proofs)
      <4>1. \A q \in Range(c.proofs) : ProofFailure(c, q) = "none"
        BY <3>4 DEF ProofSound
      <4> QED BY <2>1, <2>2, <4>1 DEF ValidProofs
    <3> QED BY <3>7, <3>8, StatusOfIssues
  <2> QED BY <2>5, <2>8, <2>9
<1>2. ShapeInv /\ [Next]_vars => A(file, file')
  <2> SUFFICES ASSUME ShapeInv, [Next]_vars, file # NoFile, Signs(file, file')
               PROVE  \E p : SignedOne(file, file', p)
    BY <1>1 DEF ShapeInv
  <2>1. Shape(file) /\ IssuersInv(file) /\ Len(file.proofs) \in Nat
    BY SeqBasics DEF ShapeInv, Shape
  <2>2. file' # file
    BY <2>1 DEF Signs
  <2>3. Edit
    BY <2>2 DEF Next, vars, CreateAction, IngestWebhook, Download
  <2>4. Len(file'.proofs) <= Len(file.proofs) \/ \E p : SignedOne(file, file', p)
    BY <2>1, <2>3, EditChanges DEF Changed
  <2> QED BY <2>1, <2>4 DEF Signs
<1>3. ShapeInv /\ [Next]_vars => [A(file, file')]_vars
  BY <1>2
<1> QED BY <1>3, BundlesHaveShape, PTL DEF Spec, SigningAddsOnly

-----------------------------------------------------------------------------
(* The bundles of the Relay, and the reasons for which they do not pass.   *)

\* An identifier of what the Relay made of the claim or of a Stripe event in S.
Named(id, kind, S) ==
    id[1] = kind /\ (id[2] = "claim" \/ (id[2] = "stripe" /\ id[3] \in S))

AllNamed(objects, kind, S) ==
    ~DuplicateId(objects) /\ \A o \in Range(objects) : Named(o.id, kind, S)

WellSealed(o) == o.digest = ObjectDigest(o) /\ o.digest # Malformed

\* An event of the known vocabulary, built on events and evidence in the bundle.
EventBuilt(b, v) ==
    /\ InVocabulary(v.facts) /\ WellSealed(v) /\ IsInjective(v.parents)
    /\ \A d \in Range(v.parents) :
          d # Malformed /\ d # v.digest /\ d \in {f.digest : f \in Range(b.payload.events)}
    /\ v.evidence \subseteq Range(Ids(b.payload.evidence))

SupportBuilt(b, s) ==
    /\ s.sound /\ s.type = "SUPPORTS" /\ WellSealed(s)
    /\ s.from[1] = "evidence" /\ s.from \in Refs("evidence", b.payload.evidence)
    /\ s.to[1] = "event" /\ s.to \in Refs("event", b.payload.events)

\* A signature over what its target says, by whatever issuer with whatever key.
ProofBuilt(b, p) ==
    /\ p.sound /\ MadeType(p) /\ Resolves(b, p.type, p.target)
    /\ p.digest = TargetDigest(b, p.type, p.target)
    /\ p.method[1] = p.issuer /\ p.method[2] = RelayKeyId /\ p.created = Now
    /\ p.signature = [key |-> p.signature.key, type |-> p.type, digest |-> p.digest]

\* What every bundle of the Relay is, spoilt or not: it declares the issuer r
\* that the Relay was when it made the action, and was made of the claim and
\* the Stripe events S.
BuiltBy(b, r, S) ==
    /\ b.legible /\ b.payload.issuers = <<RelayIssuer(r)>>
    /\ <<>> \notin {b.payload.events, b.payload.evidence, b.proofs}
    /\ IsInjective(b.payload.predecessors) /\ Malformed \notin Range(b.payload.predecessors)
    /\ AllNamed(b.payload.events, "tpe", S) /\ AllNamed(b.payload.evidence, "tpev", S)
    /\ AllNamed(b.payload.relationships, "tpr", S) /\ AllNamed(b.proofs, "tpp", S)
    /\ \A v \in Range(b.payload.events) : EventBuilt(b, v)
    /\ \A item \in Range(b.payload.evidence) : item.sound /\ WellSealed(item)
    /\ \A s \in Range(b.payload.relationships) : SupportBuilt(b, s)
    /\ \A p \in Range(b.proofs) : ProofBuilt(b, p)

\* Nothing was described badly, dated ahead, or made by another issuer or key.
Clean(b, r) ==
    /\ \A v \in Range(b.payload.events) :
          v.sound /\ ~(v.facts.recorded < v.facts.occurred) /\ v.facts.issuer = r.issuer
    /\ \A item \in Range(b.payload.evidence) : item.issuer = r.issuer
    /\ \A p \in Range(b.proofs) : p.issuer = r.issuer /\ p.signature.key = r.key

\* The inductive invariant of the Relay: what makes a bundle pass is that
\* nothing has spoilt it.
RelayInv ==
    current # NoFile =>
        \E r \in Configurations :
            BuiltBy(current, r, seen) /\ (spoilt = {} <=> Clean(current, r))

LEMMA SealedWell ==
  ASSUME NEW o, "id" \in DOMAIN o, o.digest = ObjectDigest(o)
  PROVE  WellSealed(o)
<1>1. "id" \in DOMAIN ObjectDigest(o)
  BY DEF ObjectDigest
<1>2. "id" \notin DOMAIN Malformed
  BY DEF Malformed
<1> QED BY <1>1, <1>2 DEF WellSealed

\* Objects with different identifiers have different digests.
LEMMA DigestsApart ==
  ASSUME NEW o, NEW u, "id" \in DOMAIN o, "id" \in DOMAIN u, o.id # u.id
  PROVE  ObjectDigest(o) # ObjectDigest(u)
<1>1. "id" \in DOMAIN o \ {"digest"} /\ "id" \in DOMAIN u \ {"digest"}
  OBVIOUS
<1>2. ObjectDigest(o)["id"] = o["id"] /\ ObjectDigest(u)["id"] = u["id"]
  BY <1>1 DEF ObjectDigest
<1> QED BY <1>2

\* Objects of different kinds have no identifier in common.
LEMMA KindsApart ==
  ASSUME NEW b, Shape(b), NEW S,
         AllNamed(b.payload.events, "tpe", S), AllNamed(b.payload.evidence, "tpev", S),
         AllNamed(b.payload.relationships, "tpr", S)
  PROVE  ObjectIdIssues(b) = {}
<1> DEFINE events == b.payload.events
           evidence == b.payload.evidence
           relationships == b.payload.relationships
<1>1. /\ IsSeq(events) /\ IsSeq(evidence) /\ IsSeq(relationships)
      /\ ~DuplicateId(events) /\ ~DuplicateId(evidence) /\ ~DuplicateId(relationships)
  BY DEF Shape, AllNamed
<1>2. /\ \A id \in Range(Ids(events)) : id[1] = "tpe"
      /\ \A id \in Range(Ids(evidence)) : id[1] = "tpev"
      /\ \A id \in Range(Ids(relationships)) : id[1] = "tpr"
  BY IdsRange DEF AllNamed, Named
<1> HIDE DEF events, evidence, relationships
<1>3. Range(Ids(events)) \cap Range(Ids(evidence)) = {}
  BY <1>2
<1>4. ~DuplicateId(events \o evidence) /\ IsSeq(events \o evidence)
      /\ Range(events \o evidence) = Range(events) \cup Range(evidence)
  BY <1>1, <1>3, InjectiveConcat, SeqConcat
<1>5. Range(Ids(events \o evidence)) \cap Range(Ids(relationships)) = {}
  <2>1. \A id \in Range(Ids(events \o evidence)) : id[1] = "tpe" \/ id[1] = "tpev"
    BY <1>2, <1>4, IdsRange
  <2> QED BY <1>2, <2>1
<1>6. ~DuplicateId(events \o evidence \o relationships)
  BY <1>1, <1>4, <1>5, InjectiveConcat
<1> QED BY <1>6 DEF ObjectIdIssues, Issue, events, evidence, relationships

LEMMA RegisteredInPhase ==
  \A type, phase, status :
      <<type, phase, status>> \in RegisteredEvents => status \in PhaseStatuses(phase)
BY DEF RegisteredEvents, PhaseStatuses

LEMMA OneIsDistinct == \A x : ~DuplicateId(<<x>>)
BY DEF DuplicateId, IsInjective, Ids

\* What the Relay declares of itself has no issue.
LEMMA OwnIssuer ==
  ASSUME NEW b, NEW r, b.payload.issuers = <<RelayIssuer(r)>>
  PROVE  /\ Range(b.payload.issuers) = {RelayIssuer(r)}
         /\ IssuerIds(b) = {r.issuer} /\ ~DuplicateId(b.payload.issuers)
         /\ \A i \in Range(b.payload.issuers) : IssuerIssues(i) = {}
<1> SUFFICES ASSUME NEW i, i = RelayIssuer(r), b.payload.issuers = <<i>>
             PROVE  /\ Range(<<i>>) = {i}
                    /\ Range(Ids(<<i>>)) = {r.issuer} /\ ~DuplicateId(<<i>>)
                    /\ IssuerIssues(i) = {}
  BY DEF IssuerIds
<1>1. IsSeq(<<i>>) /\ Range(<<i>>) = {i} /\ Len(<<i>>) = 1
  BY SeqSingle
<1>2. Range(Ids(<<i>>)) = {r.issuer}
  <2>1. i.id = r.issuer
    BY RelayIssuerIs
  <2> QED BY <1>1, <2>1, IdsRange
<1>3. \A x : ~DuplicateId(<<x>>)
  BY OneIsDistinct
<1>4. PICK k : i.keys = <<k>> /\ Range(i.keys) = {k} /\ k.from = 0 /\ k.until = Forever
  BY RelayIssuerIs
<1>5. i.sound = TRUE /\ ~DuplicateId(i.keys)
  BY <1>3, <1>4, RelayIssuerIs
<1>6. ~(\E l \in Range(i.keys) : l.until <= l.from)
  BY <1>4 DEF Forever
<1>7. IssuerIssues(i) = {}
  BY <1>5, <1>6 DEF IssuerIssues, Issue
<1> QED BY <1>1, <1>2, <1>3, <1>7

\* The payload of such a bundle has no issue exactly if nothing spoilt it.
LEMMA PayloadClean ==
  ASSUME NEW b, NEW r, NEW S, Shape(b), BuiltBy(b, r, S),
         \A v \in Range(b.payload.events) :
             v.sound /\ ~(v.facts.recorded < v.facts.occurred) /\ v.facts.issuer = r.issuer,
         \A item \in Range(b.payload.evidence) : item.issuer = r.issuer
  PROVE  PayloadIssues(b) = {}
<1>1. /\ IssuerIds(b) = {r.issuer} /\ ~DuplicateId(b.payload.issuers)
      /\ \A i \in Range(b.payload.issuers) : IssuerIssues(i) = {}
  BY OwnIssuer DEF BuiltBy
<1>2. \A o : WellSealed(o) => ObjectDigestIssues(o) = {}
  BY DEF WellSealed, ObjectDigestIssues, Issue
<1>3. ASSUME NEW v \in Range(b.payload.events)
      PROVE  EventIssues(b, v) = {} /\ ParentIssues(b, v) = {} /\ EvidenceRefIssues(b, v) = {}
  <2>1. EventBuilt(b, v)
    BY DEF BuiltBy
  <2>2. EventIssues(b, v) = {}
    BY <1>1, <1>2, <2>1 DEF EventIssues, EventBuilt, Issue
  <2>3. EvidenceRefIssues(b, v) = {}
    BY <2>1 DEF EventBuilt, EvidenceRefIssues, Issue
  <2>4. ParentIssues(b, v) = {}
    <3> DEFINE declared == {f.digest : f \in Range(b.payload.events)}
               Of(x) == IF x = Malformed THEN {"PARENT_DIGEST_INVALID"}
                        ELSE IF x \notin declared THEN {"PARENT_EVENT_NOT_FOUND"}
                        ELSE Issue("EVENT_SELF_PARENT", x = v.digest)
    <3>1. ParentIssues(b, v) = UNION {Of(x) : x \in Range(v.parents)}
      BY DEF ParentIssues
    <3>2. \A x \in Range(v.parents) : x # Malformed /\ x # v.digest /\ x \in declared
      BY <2>1 DEF EventBuilt
    <3> HIDE DEF declared
    <3>3. \A x \in Range(v.parents) : Of(x) = {}
      BY <3>2 DEF Issue
    <3> HIDE DEF Of
    <3> QED BY <3>1, <3>3
  <2> QED BY <2>2, <2>3, <2>4
<1>4. ASSUME NEW item \in Range(b.payload.evidence) PROVE EvidenceIssues(b, item) = {}
  BY <1>1, <1>2 DEF BuiltBy, EvidenceIssues, Issue
<1>5. ASSUME NEW s \in Range(b.payload.relationships)
      PROVE  RelationshipIssues(s) = {} /\ EndpointIssues(b, s) = {}
  <2>1. SupportBuilt(b, s)
    BY DEF BuiltBy
  <2>2. s.from # s.to /\ s.type = "SUPPORTS" /\ s.sound /\ ObjectDigestIssues(s) = {}
    BY <1>2, <2>1 DEF SupportBuilt
  <2>3. EndpointsPermitted(s)
    BY <2>1 DEF SupportBuilt, EndpointsPermitted
  <2>4. RelationshipIssues(s) = {}
    BY <2>2, <2>3 DEF RelationshipIssues, Issue
  <2>5. EndpointIssues(b, s) = {}
    BY <2>1 DEF SupportBuilt, EndpointIssues, Issue
  <2> QED BY <2>4, <2>5
<1>6. ObjectIdIssues(b) = {}
  BY KindsApart DEF BuiltBy
<1>7. PredecessorIssues(b) = {}
  BY DEF BuiltBy, PredecessorIssues, Issue
<1> QED BY <1>1, <1>3, <1>4, <1>5, <1>6, <1>7, PayloadParts

\* The first and only key of the Relay.
LEMMA OwnKey ==
  ASSUME NEW b, NEW r, b.payload.issuers = <<RelayIssuer(r)>>
  PROVE  \E k : /\ First(First(b.payload.issuers, r.issuer).keys, RelayKeyId) = k
               /\ RelayKeyId \in Range(Ids(First(b.payload.issuers, r.issuer).keys))
               /\ k.public = r.key /\ k.from = 0 /\ k.until = Forever
<1> DEFINE issuers == b.payload.issuers
<1> SUFFICES ASSUME NEW i, i = RelayIssuer(r), issuers = <<i>>
             PROVE  \E k : /\ First(First(issuers, r.issuer).keys, RelayKeyId) = k
                          /\ RelayKeyId \in Range(Ids(First(issuers, r.issuer).keys))
                          /\ k.public = r.key /\ k.from = 0 /\ k.until = Forever
  OBVIOUS
<1>1. PICK k : /\ i.keys = <<k>> /\ k.id = RelayKeyId /\ k.public = r.key
               /\ k.from = 0 /\ k.until = Forever
  BY RelayIssuerIs
<1>2. \A x : IsSeq(<<x>>) /\ Range(<<x>>) = {x} /\ ~DuplicateId(<<x>>)
  BY SeqSingle, OneIsDistinct
<1> HIDE DEF issuers
<1>3. First(issuers, i.id) = i
  BY <1>2, FirstUnique
<1>4. i.id = r.issuer
  BY RelayIssuerIs
<1>5. First(i.keys, k.id) = k
  <2>1. IsSeq(i.keys) /\ ~DuplicateId(i.keys) /\ k \in Range(i.keys)
    BY <1>1, <1>2
  <2> QED BY <2>1, FirstUnique
<1>6. k.id \in Range(Ids(i.keys))
  BY <1>1, <1>2, IdsRange
<1> QED BY <1>1, <1>3, <1>4, <1>5, <1>6

\* A bundle of the Relay passes exactly if nothing spoilt it.
LEMMA StatusBuilt ==
  ASSUME NEW b, NEW r, NEW S, Shape(b), BuiltBy(b, r, S)
  PROVE  Status(b) = "VALID" <=> Clean(b, r)
<1>1. Status(b) = "VALID" <=> Issues(b) = {}
  BY DEF Status, BuiltBy
<1>2. /\ Range(b.payload.issuers) = {RelayIssuer(r)} /\ IssuerIds(b) = {r.issuer}
  BY OwnIssuer DEF BuiltBy
<1>3. ASSUME Clean(b, r) PROVE Issues(b) = {}
  <2>1. PayloadIssues(b) = {}
    BY <1>3, PayloadClean DEF Clean
  <2>2. ASSUME NEW p \in Range(b.proofs) PROVE ProofSound(b, p)
    <3>1. ProofBuilt(b, p) /\ p.issuer = r.issuer /\ p.signature.key = r.key
      BY <1>3 DEF BuiltBy, Clean
    <3>2. PICK k : /\ First(First(b.payload.issuers, r.issuer).keys, RelayKeyId) = k
                   /\ RelayKeyId \in Range(Ids(First(b.payload.issuers, r.issuer).keys))
                   /\ k.public = r.key /\ k.from = 0 /\ k.until = Forever
      BY OwnKey DEF BuiltBy
    <3>3. KeyFailure(k, p) = "none"
      <4>1. ~(p.created < k.from) /\ ~(p.created > k.until)
        BY <3>1, <3>2 DEF ProofBuilt, Now, Forever
      <4>2. p.signature = [key |-> k.public, type |-> p.type, digest |-> p.digest]
        BY <3>1, <3>2 DEF ProofBuilt
      <4> QED BY <4>1, <4>2 DEF KeyFailure
    <3>4. ProofFailure(b, p) = "none"
      BY <1>2, <3>1, <3>2, <3>3 DEF ProofFailure, ProofBuilt
    <3> QED BY <1>2, <3>1, <3>4 DEF ProofSound, ProofBuilt
  <2>3. ProofIssues(b) = {}
    BY <2>2, ProofParts DEF BuiltBy, AllNamed
  <2> QED BY <2>1, <2>3 DEF Issues, BuiltBy
<1>4. ASSUME Issues(b) = {} PROVE Clean(b, r)
  <2>1. PayloadIssues(b) = {} /\ ProofIssues(b) = {}
    BY <1>4, StatusOfIssues, NoIssue
  <2>2. ASSUME NEW v \in Range(b.payload.events)
        PROVE  v.sound /\ ~(v.facts.recorded < v.facts.occurred) /\ v.facts.issuer = r.issuer
    <3>1. EventIssues(b, v) = {}
      BY <2>1, PayloadParts
    <3>2. /\ Issue("EVENT_MALFORMED", ~v.sound) = {}
          /\ Issue("EVENT_RECORDED_BEFORE_OCCURRED", v.facts.recorded < v.facts.occurred) = {}
          /\ Issue("EVENT_ISSUER_NOT_FOUND", v.facts.issuer \notin IssuerIds(b)) = {}
      BY <3>1 DEF EventIssues
    <3>3. v.sound /\ ~(v.facts.recorded < v.facts.occurred) /\ v.facts.issuer \in IssuerIds(b)
      BY <3>2 DEF Issue
    <3> QED BY <1>2, <3>3
  <2>3. ASSUME NEW item \in Range(b.payload.evidence) PROVE item.issuer = r.issuer
    <3>1. EvidenceIssues(b, item) = {}
      BY <2>1, PayloadParts
    <3>2. Issue("EVIDENCE_ISSUER_NOT_FOUND", item.issuer \notin IssuerIds(b)) = {}
      BY <3>1 DEF EvidenceIssues
    <3>3. item.issuer \in IssuerIds(b)
      BY <3>2 DEF Issue
    <3> QED BY <1>2, <3>3
  <2>4. ASSUME NEW p \in Range(b.proofs) PROVE p.issuer = r.issuer /\ p.signature.key = r.key
    <3>1. p.issuer \in IssuerIds(b) /\ ProofFailure(b, p) = "none"
      BY <2>1, ProofParts DEF ProofSound
    <3>2. PICK issuer \in Range(b.payload.issuers) :
              issuer.id = p.issuer /\ \E k \in Range(issuer.keys) : SignedWith(p, k)
      BY <3>1, ProofMeaning
    <3>3. PICK k \in Range(issuer.keys) : SignedWith(p, k)
      BY <3>2
    <3>4. k.public = r.key
      <4>1. issuer = RelayIssuer(r)
        BY <1>2
      <4>2. PICK l : Range(issuer.keys) = {l} /\ l.public = r.key
        BY <4>1, RelayIssuerIs
      <4> QED BY <4>2
    <3>5. p.signature.key = k.public
      BY <3>3 DEF SignedWith
    <3> QED BY <1>2, <3>1, <3>4, <3>5
  <2> QED BY <2>2, <2>3, <2>4 DEF Clean
<1> QED BY <1>1, <1>3, <1>4

\* Names built by numbering.
LEMMA Numbered ==
  ASSUME NEW prefix, IsSeq(prefix), Len(prefix) \in {2, 3}
  PROVE  /\ \A i : /\ (prefix \o <<i>>)[1] = prefix[1] /\ (prefix \o <<i>>)[2] = prefix[2]
                   /\ Len(prefix) = 3 => (prefix \o <<i>>)[3] = prefix[3]
         /\ \A i, j : prefix \o <<i>> = prefix \o <<j>> => i = j
<1>1. ASSUME NEW i
      PROVE  /\ (prefix \o <<i>>)[1] = prefix[1] /\ (prefix \o <<i>>)[2] = prefix[2]
             /\ Len(prefix) = 3 => (prefix \o <<i>>)[3] = prefix[3]
             /\ (prefix \o <<i>>)[Len(prefix) + 1] = i
  <2>1. IsSeq(<<i>>) /\ Len(<<i>>) = 1 /\ <<i>>[1] = i
    BY SeqSingle
  <2>2. /\ \A k \in 1..Len(prefix) : (prefix \o <<i>>)[k] = prefix[k]
        /\ \A k \in 1..Len(<<i>>) : (prefix \o <<i>>)[Len(prefix) + k] = <<i>>[k]
    BY <2>1, SeqConcat
  <2> QED BY <2>1, <2>2
<1> QED BY <1>1

LEMMA Pair ==
  ASSUME NEW x, NEW y
  PROVE  IsSeq(<<x, y>>) /\ Len(<<x, y>>) = 2 /\ <<x, y>>[1] = x /\ <<x, y>>[2] = y
<1>1. /\ <<x, y>> \in Seq({x, y}) /\ Len(<<x, y>>) = 2
      /\ <<x, y>>[1] = x /\ <<x, y>>[2] = y
  OBVIOUS
<1> QED BY <1>1, SeqOfRange DEF IsSeq

LEMMA Triple ==
  ASSUME NEW x, NEW y, NEW z
  PROVE  /\ IsSeq(<<x, y, z>>) /\ Len(<<x, y, z>>) = 3
         /\ <<x, y, z>>[1] = x /\ <<x, y, z>>[2] = y /\ <<x, y, z>>[3] = z
<1>1. /\ <<x, y, z>> \in Seq({x, y, z}) /\ Len(<<x, y, z>>) = 3
      /\ <<x, y, z>>[1] = x /\ <<x, y, z>>[2] = y /\ <<x, y, z>>[3] = z
  OBVIOUS
<1> QED BY <1>1, SeqOfRange DEF IsSeq

\* Proofs by the Relay r, with names that begin with the prefix.
MadeBy(b, r, prefix, made) ==
    /\ made # <<>> /\ ~DuplicateId(made)
    /\ \A p \in Range(made) :
          /\ ProofBuilt(b, p) /\ p.issuer = r.issuer /\ p.signature.key = r.key
          /\ p.id[1] = prefix[1] /\ p.id[2] = prefix[2]
          /\ Len(prefix) = 3 => p.id[3] = prefix[3]

\* The proofs that the Relay makes of what is in the bundle.
LEMMA MadeBuilt ==
  ASSUME NEW b, NEW r, NEW item, NEW events, IsSeq(events), NEW prefix, NEW made,
         ProofsMade(b, r, item, events, prefix, made),
         item.id \in Range(Ids(b.payload.evidence)),
         \A v \in Range(events) : v.id \in Range(Ids(b.payload.events)),
         IsSeq(prefix), Len(prefix) \in {2, 3}
  PROVE  MadeBy(b, r, prefix, made)
<1>1. Len(events) \in Nat /\ IsSeq(made) /\ Len(made) = Len(events) + 1
  BY SeqBasics DEF ProofsMade
<1>2. made # <<>> /\ DOMAIN made = 1..Len(made)
  BY <1>1, SeqBasics
<1>3. ASSUME NEW i \in 1..Len(made)
      PROVE  \E type, id :
                /\ type \in {"EVIDENCE_ITEM", "OUTCOME_EVENT"} /\ Resolves(b, type, id)
                /\ made[i] = RelayProof(b, r, type, id, prefix \o <<i>>)
  <2>1. CASE i = 1
    <3>1. Resolves(b, "EVIDENCE_ITEM", item.id)
      BY DEF Resolves, Collection
    <3> QED BY <2>1, <3>1 DEF ProofsMade
  <2>2. CASE i # 1
    <3>1. PICK j \in 1..Len(events) : i = j + 1
      <4>1. i - 1 \in 1..Len(events) /\ i = (i - 1) + 1
        BY <1>1, <2>2
      <4> QED BY <4>1
    <3>2. events[j].id \in Range(Ids(b.payload.events))
      BY SeqBasics
    <3>3. Resolves(b, "OUTCOME_EVENT", events[j].id)
      BY <3>2 DEF Resolves, Collection
    <3> QED BY <3>1, <3>3 DEF ProofsMade
  <2> QED BY <2>1, <2>2
<1>4. ASSUME NEW i \in 1..Len(made), NEW p, p = made[i]
      PROVE  /\ ProofBuilt(b, p) /\ p.issuer = r.issuer /\ p.signature.key = r.key
             /\ p.id = prefix \o <<i>>
  <2>1. PICK type, id :
            /\ type \in {"EVIDENCE_ITEM", "OUTCOME_EVENT"} /\ Resolves(b, type, id)
            /\ p = RelayProof(b, r, type, id, prefix \o <<i>>)
    BY <1>3, <1>4
  <2> DEFINE proofId == prefix \o <<i>>
             key == r.key
             digest == TargetDigest(b, type, id)
  <2>2. p = RelayProof(b, r, type, id, proofId)
    BY <2>1
  <2> HIDE DEF proofId, key, digest
  <2>3. /\ p.id = proofId /\ p.sound = TRUE /\ p.type = type /\ p.target = id
        /\ p.digest = digest /\ p.issuer = r.issuer
        /\ p.method[1] = r.issuer /\ p.method[2] = RelayKeyId /\ p.created = Now
        /\ p.signature = [key |-> key, type |-> type, digest |-> digest]
    <3>1. type # "BUNDLE_PAYLOAD"
      BY <2>1
    <3>2. p.sound = TRUE
      BY <2>2, <3>1 DEF RelayProof, SignatureProof, TargetFormed
    <3> QED BY <2>2, <3>2, RelayProofIs DEF key, digest
  <2>4. "type" \in DOMAIN p
    BY <2>2 DEF RelayProof, SignatureProof
  <2>5. p.signature.key = key
    BY <2>3
  <2>6. MadeType(p)
    BY <2>1, <2>3, <2>4 DEF MadeType
  <2>7. ProofBuilt(b, p)
    BY <2>1, <2>3, <2>5, <2>6 DEF ProofBuilt, digest
  <2> QED BY <2>3, <2>5, <2>7 DEF proofId, key
<1>5. ~DuplicateId(made)
  <2>1. \A i \in 1..Len(made) : made[i].id = prefix \o <<i>>
    BY <1>4
  <2>2. ASSUME NEW i \in 1..Len(made), NEW j \in 1..Len(made), made[i].id = made[j].id
        PROVE  i = j
    <3>1. prefix \o <<i>> = prefix \o <<j>>
      BY <2>1, <2>2
    <3> QED BY <3>1, Numbered
  <2> QED BY <1>2, <2>2 DEF DuplicateId, IsInjective, Ids
<1>6. ASSUME NEW p \in Range(made)
      PROVE  /\ ProofBuilt(b, p) /\ p.issuer = r.issuer /\ p.signature.key = r.key
             /\ p.id[1] = prefix[1] /\ p.id[2] = prefix[2]
             /\ Len(prefix) = 3 => p.id[3] = prefix[3]
  <2>1. PICK i \in 1..Len(made) : made[i] = p
    BY <1>1, SeqBasics
  <2>2. /\ ProofBuilt(b, p) /\ p.issuer = r.issuer /\ p.signature.key = r.key
        /\ p.id = prefix \o <<i>>
    BY <1>4, <2>1
  <2> QED BY <2>2, Numbered
<1> QED BY <1>2, <1>5, <1>6 DEF MadeBy

\* The claim is in the vocabulary, and so is what Stripe says.
LEMMA FactsInVocabulary ==
  /\ \A r, occurred : InVocabulary(Claim(r, occurred))
  /\ \A f, r, e : IsFact(f, r, e) => InVocabulary(f)
<1>1. ASSUME NEW r, NEW occurred, NEW f, f = Claim(r, occurred) PROVE InVocabulary(f)
  <2>1. f.type = "requested" /\ f.phase = "INTENT" /\ f.status = "SUCCEEDED"
        /\ f.source = "SELF_CLAIMED"
    BY <1>1 DEF Claim
  <2>2. "SUCCEEDED" \in PhaseStatuses("INTENT") /\ "INTENT" \in SourcePhases("SELF_CLAIMED")
    BY DEF PhaseStatuses, SourcePhases, Phases
  <2>3. <<"requested", "INTENT", "SUCCEEDED">> \in RegisteredEvents
    BY DEF RegisteredEvents
  <2> QED BY <2>1, <2>2, <2>3 DEF InVocabulary
<1>2. ASSUME NEW f, NEW r, NEW e, IsFact(f, r, e) PROVE InVocabulary(f)
  <2>1. f.status \in PhaseStatuses(f.phase)
    BY <1>2, RegisteredInPhase DEF IsFact
  <2>2. f.phase \in SourcePhases("SYSTEM_OF_RECORD")
    BY <1>2 DEF IsFact, SourcePhases, Phases
  <2> QED BY <1>2, <2>1, <2>2 DEF IsFact, InVocabulary
<1>3. \A r, occurred : InVocabulary(Claim(r, occurred))
  BY <1>1
<1> QED BY <1>2, <1>3

\* One piece of evidence of the Relay's.
LEMMA ItemBuilt ==
  ASSUME NEW id, NEW issuer, NEW sound, NEW item, item = EvidenceItem(id, issuer, sound)
  PROVE  item.id = id /\ item.issuer = issuer /\ item.sound = sound /\ WellSealed(item)
<1>1. /\ item.id = id /\ item.issuer = issuer /\ item.sound = sound
      /\ item.digest = ObjectDigest(item) /\ "id" \in DOMAIN item
  BY EvidenceItemIs
<1> QED BY <1>1, SealedWell

\* One relationship, of a piece of evidence and an event that are there.
LEMMA SupportIsBuilt ==
  ASSUME NEW b, NEW id, NEW item, NEW event, NEW s, s = Support(id, item, event),
         item \in Range(Ids(b.payload.evidence)), event \in Range(Ids(b.payload.events))
  PROVE  s.id = id /\ SupportBuilt(b, s)
<1>1. /\ s.id = id /\ s.type = "SUPPORTS" /\ s.from = <<"evidence", item>>
      /\ s.to = <<"event", event>> /\ s.sound /\ s.digest = ObjectDigest(s)
      /\ "id" \in DOMAIN s
  BY SupportIs
<1>2. WellSealed(s)
  BY <1>1, SealedWell
<1>3. s.from \in Refs("evidence", b.payload.evidence) /\ s.to \in Refs("event", b.payload.events)
  BY <1>1 DEF Refs
<1>4. s.from[1] = "evidence" /\ s.to[1] = "event"
  BY <1>1, Pair
<1> QED BY <1>1, <1>2, <1>3, <1>4 DEF SupportBuilt

\* A sequence of one object with a name.
LEMMA NamedOne ==
  ASSUME NEW o, NEW kind, NEW S, Named(o.id, kind, S)
  PROVE  AllNamed(<<o>>, kind, S)
BY SeqSingle, OneIsDistinct DEF AllNamed

LEMMA InitialEvent ==
  ASSUME NEW c, NEW r, NEW occurred, NEW sound, NEW item, NEW event,
         Initial(c, r, occurred, sound, item, event)
  PROVE  /\ event.id = <<"tpe", "claim">> /\ event.facts = Claim(r, occurred)
         /\ event.evidence = {item.id} /\ event.parents = <<>> /\ event.sound = sound
         /\ WellSealed(event)
<1> DEFINE id == <<"tpe", "claim">>
           claim == Claim(r, occurred)
           evidence == {item.id}
           parents == <<>>
<1>1. event = Event(id, claim, evidence, parents, sound)
  BY DEF Initial
<1> HIDE DEF id, claim, evidence, parents
<1>2. /\ event.id = id /\ event.facts = claim /\ event.evidence = evidence
      /\ event.parents = parents /\ event.sound = sound
      /\ event.digest = ObjectDigest(event) /\ "id" \in DOMAIN event
  BY <1>1, EventIs
<1>3. WellSealed(event)
  BY <1>2, SealedWell
<1> QED BY <1>2, <1>3 DEF id, claim, evidence, parents

\* The bundle of the claim.
LEMMA InitialBuilt ==
  ASSUME NEW c, NEW r, NEW occurred, NEW sound, NEW item, NEW event,
         Initial(c, r, occurred, sound, item, event), NEW S
  PROVE  BuiltBy(c, r, S) /\ (Clean(c, r) <=> sound /\ ~(Now < occurred))
<1> DEFINE support == Support(<<"tpr", "claim", 1>>, item.id, event.id)
<1>1. /\ event.id = <<"tpe", "claim">> /\ event.facts = Claim(r, occurred)
      /\ event.evidence = {item.id} /\ event.parents = <<>> /\ event.sound = sound
      /\ WellSealed(event)
  BY InitialEvent
<1>2. /\ item.id = <<"tpev", "claim">> /\ item.issuer = r.issuer /\ item.sound
      /\ WellSealed(item)
  <2> DEFINE id == <<"tpev", "claim">>
             issuer == r.issuer
             true == TRUE
  <2>1. item = EvidenceItem(id, issuer, true)
    BY DEF Initial
  <2> HIDE DEF id, issuer, true
  <2>2. item.id = id /\ item.issuer = issuer /\ item.sound = true /\ WellSealed(item)
    BY <2>1, ItemBuilt
  <2> QED BY <2>2 DEF id, issuer, true
<1>3. /\ c.payload.events = <<event>> /\ c.payload.evidence = <<item>>
      /\ c.payload.relationships = <<support>> /\ c.payload.predecessors = <<>>
      /\ c.legible = TRUE /\ c.payload.issuers = <<RelayIssuer(r)>>
      /\ ProofsMade(c, r, item, <<event>>, <<"tpp", "claim">>, c.proofs)
  BY DEF Initial
<1>4. \A x : IsSeq(<<x>>) /\ Range(<<x>>) = {x} /\ <<x>> # <<>>
  BY SeqSingle, SeqNone
<1>5. item.id \in Range(Ids(c.payload.evidence)) /\ event.id \in Range(Ids(c.payload.events))
  BY <1>3, <1>4, IdsRange
<1>6. support.id = <<"tpr", "claim", 1>> /\ SupportBuilt(c, support)
  <2> DEFINE id == <<"tpr", "claim", 1>>
             of == item.id
             to == event.id
  <2>1. support = Support(id, of, to)
    OBVIOUS
  <2> HIDE DEF support, id, of, to
  <2>2. of \in Range(Ids(c.payload.evidence)) /\ to \in Range(Ids(c.payload.events))
    BY <1>5 DEF of, to
  <2>3. support.id = id /\ SupportBuilt(c, support)
    BY <2>1, <2>2, SupportIsBuilt
  <2> QED BY <2>3 DEF id
<1> HIDE DEF support
<1>7. EventBuilt(c, event)
  <2>1. InVocabulary(event.facts)
    BY <1>1, FactsInVocabulary
  <2>2. IsInjective(event.parents) /\ Range(event.parents) = {}
    BY <1>1, SeqNone DEF IsInjective
  <2> QED BY <1>1, <1>5, <2>1, <2>2 DEF EventBuilt
<1>8. AllNamed(c.payload.events, "tpe", S)
  <2>1. Named(event.id, "tpe", S)
    BY <1>1, Pair DEF Named
  <2> QED BY <1>3, <2>1, NamedOne
<1>9. AllNamed(c.payload.evidence, "tpev", S)
  <2>1. Named(item.id, "tpev", S)
    BY <1>2, Pair DEF Named
  <2> QED BY <1>3, <2>1, NamedOne
<1>10. AllNamed(c.payload.relationships, "tpr", S)
  <2>1. Named(support.id, "tpr", S)
    BY <1>6, Triple DEF Named
  <2> QED BY <1>3, <2>1, NamedOne
<1>11. /\ c.proofs # <<>> /\ ~DuplicateId(c.proofs)
       /\ \A p \in Range(c.proofs) :
             /\ ProofBuilt(c, p) /\ p.issuer = r.issuer /\ p.signature.key = r.key
             /\ p.id[1] = "tpp" /\ p.id[2] = "claim"
  <2> DEFINE prefix == <<"tpp", "claim">>
             events == <<event>>
             made == c.proofs
  <2>1. IsSeq(prefix) /\ Len(prefix) \in {2, 3} /\ prefix[1] = "tpp" /\ prefix[2] = "claim"
    BY Pair
  <2>2. IsSeq(events) /\ \A v \in Range(events) : v.id \in Range(Ids(c.payload.events))
    BY <1>4, <1>5
  <2>3. ProofsMade(c, r, item, events, prefix, made)
    BY <1>3
  <2> HIDE DEF prefix, events, made
  <2>4. MadeBy(c, r, prefix, made)
    BY <1>5, <2>1, <2>2, <2>3, MadeBuilt
  <2> QED BY <2>1, <2>4 DEF made, MadeBy
<1>12. AllNamed(c.proofs, "tpp", S)
  BY <1>11 DEF AllNamed, Named
<1>13. IsInjective(c.payload.predecessors) /\ Malformed \notin Range(c.payload.predecessors)
  BY <1>3, SeqNone DEF IsInjective
<1>14. BuiltBy(c, r, S)
  <2>1. <<>> \notin {c.payload.events, c.payload.evidence, c.proofs}
    BY <1>3, <1>4, <1>11
  <2>2. /\ Range(c.payload.events) = {event} /\ Range(c.payload.evidence) = {item}
        /\ Range(c.payload.relationships) = {support}
    BY <1>3, <1>4
  <2>3. /\ \A v \in Range(c.payload.events) : EventBuilt(c, v)
        /\ \A u \in Range(c.payload.evidence) : u.sound /\ WellSealed(u)
        /\ \A s \in Range(c.payload.relationships) : SupportBuilt(c, s)
        /\ \A p \in Range(c.proofs) : ProofBuilt(c, p)
    BY <1>2, <1>6, <1>7, <1>11, <2>2
  <2> QED BY <1>3, <1>8, <1>9, <1>10, <1>12, <1>13, <2>1, <2>3 DEF BuiltBy
<1>15. event.facts.recorded = Now /\ event.facts.occurred = occurred
       /\ event.facts.issuer = r.issuer
  BY <1>1 DEF Claim
<1>16. Clean(c, r) <=> sound /\ ~(Now < occurred)
  BY <1>1, <1>2, <1>3, <1>4, <1>11, <1>15 DEF Clean
<1> QED BY <1>14, <1>16

-----------------------------------------------------------------------------
(* Growth: a new revision keeps what was there.                            *)

\* What find finds stays what it finds when objects are appended.
LEMMA FirstGrown ==
  ASSUME NEW s, NEW t, IsSeq(s), IsSeq(t), NEW id, id \in Range(Ids(s))
  PROVE  First(s \o t, id) = First(s, id) /\ id \in Range(Ids(s \o t))
<1> DEFINE st == s \o t
<1>1. /\ IsSeq(st) /\ Len(st) = Len(s) + Len(t) /\ Len(s) \in Nat /\ Len(t) \in Nat
      /\ \A i \in 1..Len(s) : st[i] = s[i]
      /\ Range(st) = Range(s) \cup Range(t)
  BY SeqConcat, SeqBasics
<1> HIDE DEF st
<1>2. id \in Range(Ids(st))
  BY <1>1, IdsRange
<1>3. PICK i \in 1..Len(s) :
          /\ First(s, id) = s[i] /\ s[i].id = id
          /\ \A j \in 1..Len(s) : s[j].id = id => i <= j
  BY FirstFound
<1>4. PICK k \in 1..Len(st) :
          /\ First(st, id) = st[k] /\ st[k].id = id
          /\ \A j \in 1..Len(st) : st[j].id = id => k <= j
  BY <1>1, <1>2, FirstFound
<1>5. k <= i
  <2>1. i \in 1..Len(st) /\ st[i].id = id
    BY <1>1, <1>3
  <2> QED BY <1>4, <2>1
<1>6. i = k
  <2>1. k \in 1..Len(s)
    BY <1>1, <1>5
  <2>2. s[k].id = id
    BY <1>1, <1>4, <2>1
  <2> QED BY <1>3, <1>5, <2>1, <2>2
<1> QED BY <1>1, <1>2, <1>3, <1>4, <1>6 DEF st

\* c is b with events and evidence appended.
Extends(b, c) ==
    /\ c.payload.issuers = b.payload.issuers
    /\ \E events : IsSeq(events) /\ c.payload.events = b.payload.events \o events
    /\ \E evidence : IsSeq(evidence) /\ c.payload.evidence = b.payload.evidence \o evidence

LEMMA GrownExtends ==
  ASSUME NEW b, NEW c, NEW r, NEW e, NEW item, NEW events, NEW supports, NEW made,
         Shape(b), Stripe!Supported(e), Grown(b, c, r, e, item, events, supports, made)
  PROVE  /\ Extends(b, c) /\ IsSeq(events)
         /\ c.payload.evidence = b.payload.evidence \o <<item>>
<1>1. IsSeq(b.payload.events) /\ IsSeq(b.payload.evidence)
  BY DEF Shape
<1>2. IsSeq(events)
  BY <1>1, ObservedIs DEF Grown
<1>3. c.payload.evidence = b.payload.evidence \o <<item>> /\ IsSeq(<<item>>)
  <2>1. Append(b.payload.evidence, item) = b.payload.evidence \o <<item>>
    BY <1>1, SeqAppend
  <2> QED BY <2>1, SeqSingle DEF Grown
<1>4. c.payload.issuers = b.payload.issuers /\ c.payload.events = b.payload.events \o events
  BY DEF Grown
<1>5. Extends(b, c)
  BY <1>2, <1>3, <1>4 DEF Extends
<1> QED BY <1>2, <1>3, <1>5

\* A proof of an event or of evidence is as good as it was.
LEMMA KeptProof ==
  ASSUME NEW b, NEW c, Shape(b), Extends(b, c), NEW p, MadeType(p)
  PROVE  /\ Resolves(b, p.type, p.target) =>
              /\ Resolves(c, p.type, p.target)
              /\ TargetDigest(c, p.type, p.target) = TargetDigest(b, p.type, p.target)
         /\ ProofFailure(b, p) = "none" => ProofFailure(c, p) = "none"
<1>1. PICK events : IsSeq(events) /\ c.payload.events = b.payload.events \o events
  BY DEF Extends
<1>2. PICK evidence : IsSeq(evidence) /\ c.payload.evidence = b.payload.evidence \o evidence
  BY DEF Extends
<1>3. IsSeq(b.payload.events) /\ IsSeq(b.payload.evidence)
  BY DEF Shape
<1>4. p.type # "BUNDLE_PAYLOAD"
  BY DEF MadeType
<1>5. PICK more : IsSeq(more) /\ Collection(c, p.type) = Collection(b, p.type) \o more
                  /\ IsSeq(Collection(b, p.type))
  <2>1. CASE p.type = "OUTCOME_EVENT"
    <3>1. Collection(c, p.type) = c.payload.events /\ Collection(b, p.type) = b.payload.events
      BY <2>1 DEF Collection
    <3> QED BY <1>1, <1>3, <3>1
  <2>2. CASE p.type = "EVIDENCE_ITEM"
    <3>1. Collection(c, p.type) = c.payload.evidence
          /\ Collection(b, p.type) = b.payload.evidence
      BY <2>2 DEF Collection
    <3> QED BY <1>2, <1>3, <3>1
  <2> QED BY <2>1, <2>2 DEF MadeType
<1>6. ASSUME Resolves(b, p.type, p.target)
      PROVE  /\ Resolves(c, p.type, p.target)
             /\ TargetDigest(c, p.type, p.target) = TargetDigest(b, p.type, p.target)
  <2> DEFINE s == Collection(b, p.type)
             id == p.target
  <2>1. id \in Range(Ids(s)) /\ IsSeq(s)
    BY <1>4, <1>5, <1>6 DEF Resolves
  <2> HIDE DEF s, id
  <2>2. First(s \o more, id) = First(s, id) /\ id \in Range(Ids(s \o more))
    BY <1>5, <2>1, FirstGrown
  <2> QED BY <1>4, <1>5, <2>2 DEF Resolves, TargetDigest, s, id
<1>7. ASSUME ProofFailure(b, p) = "none" PROVE ProofFailure(c, p) = "none"
  <2>1. c.payload.issuers = b.payload.issuers /\ IssuerIds(c) = IssuerIds(b)
    BY DEF Extends, IssuerIds
  <2>2. /\ Resolves(b, p.type, p.target)
        /\ p.digest = TargetDigest(b, p.type, p.target)
        /\ ~(p.method[1] # p.issuer \/ p.issuer \notin IssuerIds(b))
        /\ p.method[2] \in Range(Ids(First(b.payload.issuers, p.issuer).keys))
        /\ KeyFailure(First(First(b.payload.issuers, p.issuer).keys, p.method[2]), p) = "none"
    BY <1>7 DEF ProofFailure
  <2>3. Resolves(c, p.type, p.target) /\ p.digest = TargetDigest(c, p.type, p.target)
    BY <1>6, <2>2
  <2> QED BY <2>1, <2>2, <2>3 DEF ProofFailure
<1> QED BY <1>6, <1>7

\* Whatever the Relay's configuration becomes, a revision keeps every proof of
\* the one before verifiable, and names it as its only predecessor.
THEOREM ProofsAreKept == Spec => RevisionsKeepProofs
<1> DEFINE Inv == current # NoFile => \A p \in Range(current.proofs) : MadeType(p)
           Kept == current # NoFile /\ current' # current =>
                      /\ ValidProofs(current) \subseteq ValidProofs(current')
                      /\ current'.payload.predecessors = <<PayloadDigest(current)>>
<1>1. Init => Inv
  BY DEF Init
<1>2. ASSUME ShapeInv, current # NoFile, NEW r \in Configurations, NEW e \in StripeEvents,
             IngestWebhook(r, e)
      PROVE  \E item, events, supports, made :
                Grown(current, current', r, e, item, events, supports, made)
  BY <1>2, NextBundleIs DEF ShapeInv, IngestWebhook
<1>3. ASSUME ShapeInv, Inv, [Next]_vars PROVE Inv' /\ Kept
  <2>1. ASSUME NEW r \in Configurations, NEW occurred, NEW sound,
               CreateAction(r, occurred, sound)
        PROVE  Inv' /\ Kept
    <3>1. current = NoFile /\ current' = FirstBundle(r, occurred, sound)
      BY <2>1 DEF CreateAction
    <3>2. PICK item, event : Initial(current', r, occurred, sound, item, event)
      BY <3>1, FirstBundleIs
    <3>3. /\ IsSeq(<<event>>)
          /\ ProofsMade(current', r, item, <<event>>, <<"tpp", "claim">>, current'.proofs)
      BY <3>2, SeqSingle DEF Initial
    <3>4. \A p \in Range(current'.proofs) : MadeType(p)
      BY <3>3, MadeTypes
    <3> QED BY <3>1, <3>4
  <2>2. ASSUME NEW r \in Configurations, NEW e \in StripeEvents, IngestWebhook(r, e)
        PROVE  Inv' /\ Kept
    <3>1. current # NoFile /\ Stripe!Supported(e) /\ Shape(current)
      BY <1>3, <2>2 DEF IngestWebhook, ShapeInv
    <3>2. PICK item, events, supports, made :
              Grown(current, current', r, e, item, events, supports, made)
      BY <1>2, <1>3, <2>2, <3>1
    <3>3. Extends(current, current') /\ IsSeq(events)
      BY <3>1, <3>2, GrownExtends
    <3>4. \A p \in Range(made) : MadeType(p)
      <4>1. ProofsMade(current', r, item, events, <<"tpp", "stripe", e.id>>, made)
        BY <3>2 DEF Grown
      <4> QED BY <3>3, <4>1, MadeTypes
    <3>5. Range(current'.proofs) = Range(current.proofs) \cup Range(made)
      <4>1. /\ IsSeq(current.proofs) /\ IsSeq(made)
            /\ current'.proofs = current.proofs \o made
        BY <3>1, <3>2 DEF Shape, Grown, ProofsMade
      <4>2. Range(current.proofs \o made) = Range(current.proofs) \cup Range(made)
        BY <4>1, SeqConcat
      <4> QED BY <4>1, <4>2
    <3>6. Inv'
      BY <1>3, <3>1, <3>4, <3>5
    <3>7. ASSUME NEW p \in ValidProofs(current) PROVE p \in ValidProofs(current')
      <4>1. /\ current.legible /\ p \in Range(current.proofs)
            /\ ProofFailure(current, p) = "none"
        BY DEF ValidProofs
      <4>2. MadeType(p)
        BY <1>3, <3>1, <4>1
      <4>3. ProofFailure(current', p) = "none"
        BY <3>1, <3>3, <4>1, <4>2, KeptProof
      <4>4. current'.legible = current.legible
        BY <3>2 DEF Grown
      <4> QED BY <3>5, <4>1, <4>3, <4>4 DEF ValidProofs
    <3>8. current'.payload.predecessors = <<PayloadDigest(current)>>
      BY <3>2 DEF Grown
    <3> QED BY <3>6, <3>7, <3>8
  <2>3. CASE Download
    BY <1>3, <2>3 DEF Download
  <2>4. CASE file # NoFile /\ Edit
    <3>1. current' = current
      BY <1>3, <2>4, EditChanges DEF ShapeInv
    <3> QED BY <1>3, <3>1
  <2>5. CASE UNCHANGED vars
    BY <1>3, <2>5 DEF vars
  <2> QED BY <1>3, <2>1, <2>2, <2>3, <2>4, <2>5 DEF Next
<1> HIDE DEF Inv
<1>4. ShapeInv /\ Inv /\ [Next]_vars => Inv' /\ [Kept]_vars
  BY <1>3
<1> QED BY <1>1, <1>4, BundlesHaveShape, PTL DEF Spec, RevisionsKeepProofs

\* What comes of the Stripe event u has names that nothing before it has.
Fresh(id, kind, u) == id[1] = kind /\ id[2] = "stripe" /\ id[3] = u

LEMMA FreshNames ==
  \A x, y, z, u : Fresh(<<x, "stripe", y>>, x, y) /\ Fresh(<<x, "stripe", z, u>>, x, z)
BY DEF Fresh

LEMMA NamedConcat ==
  ASSUME NEW s, NEW t, NEW kind, NEW S, NEW u, IsSeq(s), IsSeq(t), AllNamed(s, kind, S),
         u \notin S, ~DuplicateId(t), \A o \in Range(t) : Fresh(o.id, kind, u)
  PROVE  AllNamed(s \o t, kind, S \cup {u})
<1>1. \A o \in Range(s) : Named(o.id, kind, S)
  BY DEF AllNamed
<1>2. Range(Ids(s)) \cap Range(Ids(t)) = {}
  <2>1. \A id \in Range(Ids(s)) : Named(id, kind, S)
    BY <1>1, IdsRange
  <2>2. \A id \in Range(Ids(t)) : Fresh(id, kind, u)
    BY IdsRange
  <2>3. \A id : ~(Named(id, kind, S) /\ Fresh(id, kind, u))
    BY DEF Named, Fresh
  <2> QED BY <2>1, <2>2, <2>3
<1>3. ~DuplicateId(s \o t)
  BY <1>2, InjectiveConcat DEF AllNamed
<1>4. Range(s \o t) = Range(s) \cup Range(t)
  BY SeqConcat
<1>5. \A o \in Range(s \o t) : Named(o.id, kind, S \cup {u})
  <2>1. \A id : Named(id, kind, S) => Named(id, kind, S \cup {u})
    BY DEF Named
  <2>2. \A id : Fresh(id, kind, u) => Named(id, kind, S \cup {u})
    BY DEF Named, Fresh
  <2> QED BY <1>1, <1>4, <2>1, <2>2
<1> QED BY <1>3, <1>5 DEF AllNamed

\* The events of a revision: the new ones are built on events that are there.
EventsGrown(b, c, r, e, S, events) ==
    /\ AllNamed(c.payload.events, "tpe", S)
    /\ Range(c.payload.events) = Range(b.payload.events) \cup Range(events)
    /\ IsSeq(events) /\ Len(events) \in {1, 2} /\ ~DuplicateId(events)
    /\ \A v \in Range(events) : IsNew(v, r, e)
    /\ \A v \in Range(events) :
          \E f \in Range(c.payload.events) :
             v.parents = <<f.digest>> /\ WellSealed(f) /\ f.digest # v.digest

LEMMA GrownEvents ==
  ASSUME NEW b, NEW c, NEW r0, NEW S, NEW r, NEW e, NEW item, NEW events, NEW supports, NEW made,
         Shape(b), BuiltBy(b, r0, S), e.id \notin S, Stripe!Supported(e),
         Grown(b, c, r, e, item, events, supports, made)
  PROVE  EventsGrown(b, c, r, e, S \cup {e.id}, events)
<1>1. IsSeq(b.payload.events) /\ b.payload.events # <<>>
  BY DEF Shape, BuiltBy
<1>2. /\ IsSeq(events) /\ Len(events) \in {1, 2}
      /\ \A v \in Range(events) : IsNew(v, r, e)
      /\ ~DuplicateId(events)
      /\ events[1].parents = LastDigest(b.payload.events)
      /\ Len(events) = 2 => events[2].parents = <<events[1].digest>>
  <2>1. events = Observed(r, e, b.payload.events)
    BY DEF Grown
  <2> QED BY <1>1, <2>1, ObservedIs
<1>3. c.payload.events = b.payload.events \o events
  BY DEF Grown
<1>4. Range(c.payload.events) = Range(b.payload.events) \cup Range(events)
  BY <1>1, <1>2, <1>3, SeqConcat
<1>5. AllNamed(c.payload.events, "tpe", S \cup {e.id})
  <2>1. \A v \in Range(events) : Fresh(v.id, "tpe", e.id)
    <3> SUFFICES ASSUME NEW v \in Range(events) PROVE Fresh(v.id, "tpe", e.id)
      OBVIOUS
    <3>1. v.id = <<"tpe", "stripe", e.id, v.facts.type>>
      BY <1>2 DEF IsNew
    <3> QED BY <3>1, FreshNames
  <2>2. AllNamed(b.payload.events, "tpe", S)
    BY DEF BuiltBy
  <2>3. AllNamed(b.payload.events \o events, "tpe", S \cup {e.id})
    BY <1>1, <1>2, <2>1, <2>2, NamedConcat
  <2> QED BY <1>3, <2>3
<1>6. ASSUME NEW f, NEW v \in Range(events), "id" \in DOMAIN f, f.digest = ObjectDigest(f),
             f.id # v.id
      PROVE  WellSealed(f) /\ f.digest # v.digest
  <2>1. "id" \in DOMAIN v /\ v.digest = ObjectDigest(v)
    BY <1>2 DEF IsNew
  <2> QED BY <1>6, <2>1, SealedWell, DigestsApart
<1>7. ASSUME NEW v \in Range(events)
      PROVE  \E f \in Range(c.payload.events) :
                v.parents = <<f.digest>> /\ WellSealed(f) /\ f.digest # v.digest
  <2>1. PICK i \in 1..Len(events) : events[i] = v
    BY <1>2, SeqBasics
  <2>2. CASE i = 1
    <3> DEFINE f == Last(b.payload.events)
    <3>1. f \in Range(b.payload.events)
      <4>1. Len(b.payload.events) > 0 /\ Len(b.payload.events) \in Nat
        BY <1>1, SeqBasics
      <4>2. Len(b.payload.events) \in 1..Len(b.payload.events)
        BY <4>1
      <4> QED BY <1>1, <4>2, SeqBasics DEF Last
    <3>2. v.parents = <<f.digest>>
      BY <1>1, <1>2, <2>1, <2>2 DEF LastDigest
    <3> HIDE DEF f
    <3>3. "id" \in DOMAIN f /\ f.digest = ObjectDigest(f) /\ Named(f.id, "tpe", S)
      BY <3>1 DEF Shape, BuiltBy, EventBuilt, WellSealed, AllNamed
    <3>4. f.id # v.id
      <4>1. v.id = <<"tpe", "stripe", e.id, v.facts.type>>
        BY <1>2 DEF IsNew
      <4>2. Fresh(v.id, "tpe", e.id)
        BY <4>1, FreshNames
      <4> QED BY <3>3, <4>2 DEF Named, Fresh
    <3>5. WellSealed(f) /\ f.digest # v.digest
      BY <1>6, <3>3, <3>4
    <3> QED BY <1>4, <3>1, <3>2, <3>5
  <2>3. CASE i # 1
    <3>1. i = 2 /\ Len(events) = 2
      BY <1>2, <2>1, <2>3
    <3> DEFINE f == events[1]
    <3>2. f \in Range(events) /\ DOMAIN events = 1..2
      BY <1>2, <3>1, SeqBasics
    <3>3. v.parents = <<f.digest>>
      BY <1>2, <2>1, <3>1
    <3>4. "id" \in DOMAIN f /\ f.digest = ObjectDigest(f)
      BY <1>2, <3>2 DEF IsNew
    <3>5. f.id # v.id
      <4>1. 1 \in DOMAIN events /\ 2 \in DOMAIN events /\ v = events[2]
        BY <2>1, <3>1, <3>2
      <4> QED BY <1>2, <4>1 DEF DuplicateId, IsInjective, Ids
    <3> HIDE DEF f
    <3>6. WellSealed(f) /\ f.digest # v.digest
      BY <1>6, <3>4, <3>5
    <3> QED BY <1>4, <3>2, <3>3, <3>6
  <2> QED BY <2>2, <2>3
<1> QED BY <1>2, <1>4, <1>5, <1>7 DEF EventsGrown

\* The evidence of a revision.
EvidenceGrown(b, c, r, e, S, item) ==
    /\ AllNamed(c.payload.evidence, "tpev", S)
    /\ Range(c.payload.evidence) = Range(b.payload.evidence) \cup {item}
    /\ item.id = <<"tpev", "stripe", e.id>> /\ item.issuer = r.issuer
    /\ item.sound /\ WellSealed(item)

LEMMA GrownEvidence ==
  ASSUME NEW b, NEW c, NEW r0, NEW S, NEW r, NEW e, NEW item, NEW events, NEW supports, NEW made,
         Shape(b), BuiltBy(b, r0, S), e.id \notin S, Stripe!Supported(e),
         Grown(b, c, r, e, item, events, supports, made)
  PROVE  EvidenceGrown(b, c, r, e, S \cup {e.id}, item)
<1>1. IsSeq(b.payload.evidence)
  BY DEF Shape
<1>2. /\ item.id = <<"tpev", "stripe", e.id>> /\ item.issuer = r.issuer
      /\ item.sound /\ WellSealed(item)
  <2> DEFINE id == <<"tpev", "stripe", e.id>>
             issuer == r.issuer
             true == TRUE
  <2>1. item = EvidenceItem(id, issuer, true)
    BY DEF Grown
  <2> HIDE DEF id, issuer, true
  <2>2. item.id = id /\ item.issuer = issuer /\ item.sound = true /\ WellSealed(item)
    BY <2>1, ItemBuilt
  <2> QED BY <2>2 DEF id, issuer, true
<1>3. IsSeq(<<item>>) /\ Range(<<item>>) = {item} /\ ~DuplicateId(<<item>>)
  BY SeqSingle, OneIsDistinct
<1>4. c.payload.evidence = b.payload.evidence \o <<item>>
  BY GrownExtends
<1>5. Range(c.payload.evidence) = Range(b.payload.evidence) \cup {item}
  <2>1. Range(b.payload.evidence \o <<item>>) = Range(b.payload.evidence) \cup Range(<<item>>)
    BY <1>1, <1>3, SeqConcat
  <2> QED BY <1>3, <1>4, <2>1
<1>6. AllNamed(c.payload.evidence, "tpev", S \cup {e.id})
  <2>1. Fresh(item.id, "tpev", e.id)
    BY <1>2, FreshNames
  <2>2. \A o \in Range(<<item>>) : Fresh(o.id, "tpev", e.id)
    BY <1>3, <2>1
  <2>3. AllNamed(b.payload.evidence, "tpev", S)
    BY DEF BuiltBy
  <2> DEFINE t == <<item>>
  <2>4. IsSeq(t) /\ ~DuplicateId(t) /\ \A o \in Range(t) : Fresh(o.id, "tpev", e.id)
    BY <1>3, <2>2
  <2> HIDE DEF t
  <2>5. AllNamed(b.payload.evidence \o t, "tpev", S \cup {e.id})
    BY <1>1, <2>3, <2>4, NamedConcat
  <2> QED BY <1>4, <2>5 DEF t
<1> QED BY <1>2, <1>5, <1>6 DEF EvidenceGrown

\* An event, a relationship or a proof that was there is as well built as it was.
LEMMA KeptBuilt ==
  ASSUME NEW b, NEW c, Shape(b), Extends(b, c),
         Range(b.payload.events) \subseteq Range(c.payload.events),
         Range(b.payload.evidence) \subseteq Range(c.payload.evidence)
  PROVE  /\ \A v : EventBuilt(b, v) => EventBuilt(c, v)
         /\ \A s : SupportBuilt(b, s) => SupportBuilt(c, s)
         /\ \A p : ProofBuilt(b, p) => ProofBuilt(c, p)
<1>1. /\ {f.digest : f \in Range(b.payload.events)} \subseteq {f.digest : f \in Range(c.payload.events)}
      /\ Range(Ids(b.payload.evidence)) \subseteq Range(Ids(c.payload.evidence))
      /\ Range(Ids(b.payload.events)) \subseteq Range(Ids(c.payload.events))
  BY IdsRange
<1>2. ASSUME NEW v, EventBuilt(b, v) PROVE EventBuilt(c, v)
  BY <1>1, <1>2 DEF EventBuilt
<1>3. ASSUME NEW s, SupportBuilt(b, s) PROVE SupportBuilt(c, s)
  BY <1>1, <1>3 DEF SupportBuilt, Refs
<1>4. ASSUME NEW p, ProofBuilt(b, p) PROVE ProofBuilt(c, p)
  BY <1>4, KeptProof DEF ProofBuilt
<1> QED BY <1>2, <1>3, <1>4

\* The relationships of a revision.
LEMMA GrownSupports ==
  ASSUME NEW b, NEW c, NEW r0, NEW S, NEW r, NEW e, NEW item, NEW events, NEW supports, NEW made,
         Shape(b), BuiltBy(b, r0, S), e.id \notin S, Stripe!Supported(e),
         Grown(b, c, r, e, item, events, supports, made)
  PROVE  /\ AllNamed(c.payload.relationships, "tpr", S \cup {e.id})
         /\ Range(c.payload.relationships) = Range(b.payload.relationships) \cup Range(supports)
         /\ \A s \in Range(supports) : SupportBuilt(c, s)
<1>1. /\ IsSeq(events) /\ Len(events) \in Nat
      /\ Range(events) \subseteq Range(c.payload.events)
  <2>1. EventsGrown(b, c, r, e, S \cup {e.id}, events)
    BY GrownEvents
  <2> QED BY <2>1, SeqBasics DEF EventsGrown
<1>2. item.id \in Range(Ids(c.payload.evidence))
  <2>1. EvidenceGrown(b, c, r, e, S \cup {e.id}, item)
    BY GrownEvidence
  <2> QED BY <2>1, IdsRange DEF EvidenceGrown
<1>3. /\ IsSeq(b.payload.relationships) /\ IsSeq(supports) /\ Len(supports) = Len(events)
      /\ c.payload.relationships = b.payload.relationships \o supports
      /\ DOMAIN supports = 1..Len(events)
  BY SeqBasics DEF Shape, Grown
<1>4. ASSUME NEW i \in 1..Len(events), NEW s, s = supports[i]
      PROVE  s.id = <<"tpr", "stripe", e.id, i>> /\ SupportBuilt(c, s)
  <2> DEFINE id == <<"tpr", "stripe", e.id, i>>
             of == item.id
             to == events[i].id
  <2>1. s = Support(id, of, to)
    BY <1>4 DEF Grown
  <2>2. to \in Range(Ids(c.payload.events))
    <3>1. events[i] \in Range(c.payload.events)
      BY <1>1, SeqBasics
    <3> QED BY <3>1, IdsRange
  <2>3. of \in Range(Ids(c.payload.evidence))
    BY <1>2
  <2> HIDE DEF id, of, to
  <2>4. s.id = id /\ SupportBuilt(c, s)
    BY <2>1, <2>2, <2>3, SupportIsBuilt
  <2> QED BY <2>4 DEF id
<1>5. ASSUME NEW s \in Range(supports) PROVE Fresh(s.id, "tpr", e.id) /\ SupportBuilt(c, s)
  <2>1. PICK i \in 1..Len(events) : supports[i] = s
    BY <1>3, SeqBasics
  <2>2. s.id = <<"tpr", "stripe", e.id, i>> /\ SupportBuilt(c, s)
    BY <1>4, <2>1
  <2> QED BY <2>2, FreshNames
<1>6. ~DuplicateId(supports)
  <2>1. ASSUME NEW i \in 1..Len(events), NEW j \in 1..Len(events), supports[i].id = supports[j].id
        PROVE  i = j
    <3>1. <<"tpr", "stripe", e.id, i>> = <<"tpr", "stripe", e.id, j>>
      BY <1>4, <2>1
    <3> QED BY <3>1
  <2> QED BY <1>3, <2>1 DEF DuplicateId, IsInjective, Ids
<1>7. AllNamed(b.payload.relationships \o supports, "tpr", S \cup {e.id})
  <2>1. AllNamed(b.payload.relationships, "tpr", S)
    BY DEF BuiltBy
  <2> QED BY <1>3, <1>5, <1>6, <2>1, NamedConcat
<1>8. Range(b.payload.relationships \o supports)
         = Range(b.payload.relationships) \cup Range(supports)
  BY <1>3, SeqConcat
<1> QED BY <1>3, <1>5, <1>7, <1>8

\* The proofs of a revision.
ProofsGrown(b, c, r, S, made) ==
    /\ AllNamed(c.proofs, "tpp", S) /\ Range(made) # {}
    /\ Range(c.proofs) = Range(b.proofs) \cup Range(made)
    /\ \A p \in Range(made) :
          ProofBuilt(c, p) /\ p.issuer = r.issuer /\ p.signature.key = r.key

LEMMA GrownProofs ==
  ASSUME NEW b, NEW c, NEW r0, NEW S, NEW r, NEW e, NEW item, NEW events, NEW supports, NEW made,
         Shape(b), BuiltBy(b, r0, S), e.id \notin S, Stripe!Supported(e),
         Grown(b, c, r, e, item, events, supports, made)
  PROVE  ProofsGrown(b, c, r, S \cup {e.id}, made)
<1>1. IsSeq(events) /\ \A v \in Range(events) : v.id \in Range(Ids(c.payload.events))
  <2>1. EventsGrown(b, c, r, e, S \cup {e.id}, events)
    BY GrownEvents
  <2> QED BY <2>1, IdsRange DEF EventsGrown
<1>2. item.id \in Range(Ids(c.payload.evidence))
  <2>1. EvidenceGrown(b, c, r, e, S \cup {e.id}, item)
    BY GrownEvidence
  <2> QED BY <2>1, IdsRange DEF EvidenceGrown
<1> DEFINE prefix == <<"tpp", "stripe", e.id>>
<1>3. /\ IsSeq(prefix) /\ Len(prefix) = 3
      /\ prefix[1] = "tpp" /\ prefix[2] = "stripe" /\ prefix[3] = e.id
  BY Triple
<1>4. ProofsMade(c, r, item, events, prefix, made)
  BY DEF Grown
<1>5. IsSeq(b.proofs) /\ IsSeq(made) /\ c.proofs = b.proofs \o made
  BY <1>4 DEF Shape, Grown, ProofsMade
<1> HIDE DEF prefix
<1>6. MadeBy(c, r, prefix, made)
  BY <1>1, <1>2, <1>3, <1>4, MadeBuilt
<1>7. /\ made # <<>> /\ ~DuplicateId(made)
      /\ \A p \in Range(made) :
            /\ ProofBuilt(c, p) /\ p.issuer = r.issuer /\ p.signature.key = r.key
            /\ Fresh(p.id, "tpp", e.id)
  BY <1>3, <1>6 DEF MadeBy, Fresh
<1>8. Range(made) # {}
  <2>1. Len(made) > 0 /\ Len(made) \in Nat
    BY <1>5, <1>7, SeqBasics
  <2>2. 1 \in 1..Len(made)
    BY <2>1
  <2> QED BY <1>5, <2>2, SeqBasics
<1>9. AllNamed(b.proofs \o made, "tpp", S \cup {e.id})
  <2>1. AllNamed(b.proofs, "tpp", S)
    BY DEF BuiltBy
  <2> QED BY <1>5, <1>7, <2>1, NamedConcat
<1>10. Range(b.proofs \o made) = Range(b.proofs) \cup Range(made)
  BY <1>5, SeqConcat
<1> QED BY <1>5, <1>7, <1>8, <1>9, <1>10 DEF ProofsGrown

\* A revision is built as the one before, and is clean if that one was, Stripe's
\* clock was not ahead, and the Relay is who it was.
LEMMA GrownBuilt ==
  ASSUME NEW b, NEW c, NEW r0, NEW S, NEW r, NEW e, NEW item, NEW events, NEW supports, NEW made,
         Shape(b), BuiltBy(b, r0, S), e.id \notin S, Stripe!Supported(e),
         Grown(b, c, r, e, item, events, supports, made)
  PROVE  /\ BuiltBy(c, r0, S \cup {e.id})
         /\ Clean(c, r0) <=> /\ Clean(b, r0) /\ ~(Now < e.created)
                             /\ r.issuer = r0.issuer /\ r.key = r0.key
<1>1. /\ AllNamed(c.payload.events, "tpe", S \cup {e.id})
      /\ Range(c.payload.events) = Range(b.payload.events) \cup Range(events)
      /\ IsSeq(events) /\ Len(events) \in {1, 2}
      /\ \A v \in Range(events) : IsNew(v, r, e)
      /\ \A v \in Range(events) :
            \E f \in Range(c.payload.events) :
               v.parents = <<f.digest>> /\ WellSealed(f) /\ f.digest # v.digest
  <2>1. EventsGrown(b, c, r, e, S \cup {e.id}, events)
    BY GrownEvents
  <2> QED BY <2>1 DEF EventsGrown
<1>2. /\ AllNamed(c.payload.evidence, "tpev", S \cup {e.id})
      /\ Range(c.payload.evidence) = Range(b.payload.evidence) \cup {item}
      /\ item.id = <<"tpev", "stripe", e.id>> /\ item.issuer = r.issuer
      /\ item.sound /\ WellSealed(item)
  <2>1. EvidenceGrown(b, c, r, e, S \cup {e.id}, item)
    BY GrownEvidence
  <2> QED BY <2>1 DEF EvidenceGrown
<1>3. /\ AllNamed(c.payload.relationships, "tpr", S \cup {e.id})
      /\ Range(c.payload.relationships) = Range(b.payload.relationships) \cup Range(supports)
      /\ \A s \in Range(supports) : SupportBuilt(c, s)
  BY GrownSupports
<1>4. /\ AllNamed(c.proofs, "tpp", S \cup {e.id}) /\ Range(made) # {}
      /\ Range(c.proofs) = Range(b.proofs) \cup Range(made)
      /\ \A p \in Range(made) :
            ProofBuilt(c, p) /\ p.issuer = r.issuer /\ p.signature.key = r.key
  <2>1. ProofsGrown(b, c, r, S \cup {e.id}, made)
    BY GrownProofs
  <2> QED BY <2>1 DEF ProofsGrown
<1>5. /\ \A v : EventBuilt(b, v) => EventBuilt(c, v)
      /\ \A s : SupportBuilt(b, s) => SupportBuilt(c, s)
      /\ \A p : ProofBuilt(b, p) => ProofBuilt(c, p)
  <2>1. Extends(b, c)
    BY GrownExtends
  <2> QED BY <1>1, <1>2, <2>1, KeptBuilt
<1>6. ASSUME NEW v \in Range(events) PROVE EventBuilt(c, v)
  <2>1. IsNew(v, r, e)
    BY <1>1
  <2>2. InVocabulary(v.facts)
    BY <2>1, FactsInVocabulary DEF IsNew
  <2>3. WellSealed(v)
    BY <2>1, SealedWell DEF IsNew
  <2>4. PICK f \in Range(c.payload.events) :
            v.parents = <<f.digest>> /\ WellSealed(f) /\ f.digest # v.digest
    BY <1>1
  <2>5. Range(v.parents) = {f.digest} /\ IsInjective(v.parents)
    BY <2>4, SeqSingle DEF IsInjective
  <2>6. v.evidence \subseteq Range(Ids(c.payload.evidence))
    BY <1>2, <2>1, IdsRange DEF IsNew
  <2> QED BY <2>2, <2>3, <2>4, <2>5, <2>6 DEF EventBuilt, WellSealed
<1>7. BuiltBy(c, r0, S \cup {e.id})
  <2>1. /\ c.legible /\ c.payload.issuers = <<RelayIssuer(r0)>>
    BY DEF Grown, BuiltBy
  <2>2. <<>> \notin {c.payload.events, c.payload.evidence, c.proofs}
    <3>1. /\ Range(c.payload.events) # {} /\ Range(c.payload.evidence) # {}
          /\ Range(c.proofs) # {}
      <4>1. 1 \in 1..Len(events)
        BY <1>1
      <4>2. Range(events) # {}
        BY <1>1, <4>1, SeqBasics
      <4> QED BY <1>1, <1>2, <1>4, <4>2
    <3> QED BY <3>1, SeqNone
  <2>3. /\ IsInjective(c.payload.predecessors)
        /\ Malformed \notin Range(c.payload.predecessors)
    <3>1. c.payload.predecessors = <<PayloadDigest(b)>>
      BY DEF Grown
    <3>2. PayloadDigest(b) # Malformed
      BY DEF PayloadDigest, Malformed
    <3>3. IsInjective(<<PayloadDigest(b)>>)
      BY DEF IsInjective
    <3>4. Range(<<PayloadDigest(b)>>) = {PayloadDigest(b)}
      BY SeqSingle
    <3> QED BY <3>1, <3>2, <3>3, <3>4
  <2>4. /\ \A v \in Range(c.payload.events) : EventBuilt(c, v)
        /\ \A u \in Range(c.payload.evidence) : u.sound /\ WellSealed(u)
        /\ \A s \in Range(c.payload.relationships) : SupportBuilt(c, s)
        /\ \A p \in Range(c.proofs) : ProofBuilt(c, p)
    BY <1>1, <1>2, <1>3, <1>4, <1>5, <1>6 DEF BuiltBy
  <2> QED BY <1>1, <1>2, <1>3, <1>4, <2>1, <2>2, <2>3, <2>4 DEF BuiltBy
<1>8. ASSUME NEW v \in Range(events)
      PROVE  /\ v.sound /\ v.facts.recorded = Now /\ v.facts.occurred = e.created
             /\ v.facts.issuer = r.issuer
  BY <1>1 DEF IsNew, IsFact
<1>9. \E v : v \in Range(events)
  <2>1. 1 \in 1..Len(events)
    BY <1>1
  <2> QED BY <1>1, <2>1, SeqBasics
<1>10. Clean(c, r0) <=> /\ Clean(b, r0) /\ ~(Now < e.created)
                        /\ r.issuer = r0.issuer /\ r.key = r0.key
  <2>1. ASSUME Clean(b, r0), ~(Now < e.created), r.issuer = r0.issuer, r.key = r0.key
        PROVE  Clean(c, r0)
    BY <1>1, <1>2, <1>4, <1>8, <2>1 DEF Clean
  <2>2. ASSUME Clean(c, r0)
        PROVE  /\ Clean(b, r0) /\ ~(Now < e.created)
               /\ r.issuer = r0.issuer /\ r.key = r0.key
    <3>1. Clean(b, r0)
      BY <1>1, <1>2, <1>4, <2>2 DEF Clean
    <3>2. ~(Now < e.created)
      BY <1>1, <1>8, <1>9, <2>2 DEF Clean
    <3>3. r.issuer = r0.issuer
      BY <1>2, <2>2 DEF Clean
    <3>4. r.key = r0.key
      BY <1>4, <2>2 DEF Clean
    <3> QED BY <3>1, <3>2, <3>3, <3>4
  <2> QED BY <2>1, <2>2
<1> QED BY <1>7, <1>10

LEMMA RelayInvInit == Init => RelayInv
BY DEF Init, RelayInv

LEMMA CreateBuilt ==
  ASSUME NEW r \in Configurations, NEW occurred \in {Now, Later}, NEW sound \in BOOLEAN,
         CreateAction(r, occurred, sound)
  PROVE  RelayInv'
<1>1. /\ current' = FirstBundle(r, occurred, sound) /\ seen' = seen
      /\ spoilt' = (IF occurred > Now THEN {"claim dated ahead"} ELSE {})
                     \cup (IF sound THEN {} ELSE {"claim malformed"})
  BY DEF CreateAction
<1>2. PICK item, event : Initial(current', r, occurred, sound, item, event)
  BY <1>1, FirstBundleIs
<1>3. BuiltBy(current', r, seen') /\ (Clean(current', r) <=> sound /\ ~(Now < occurred))
  BY <1>2, InitialBuilt
<1>4. occurred > Now <=> Now < occurred
  BY DEF Now, Later
<1>5. spoilt' = {} <=> Clean(current', r)
  BY <1>1, <1>3, <1>4
<1> QED BY <1>3, <1>5 DEF RelayInv

IssuerOf(i, r) == i.id = r.issuer /\ i.keys[1].public = r.key

LEMMA RelayIssuerOf ==
  ASSUME NEW r, NEW i, i = RelayIssuer(r)
  PROVE  IssuerOf(i, r)
BY RelayIssuerKey DEF IssuerOf

LEMMA IngestBuilt ==
  ASSUME ShapeInv, RelayInv, NEW r \in Configurations, NEW e \in StripeEvents,
         IngestWebhook(r, e)
  PROVE  RelayInv'
<1>1. /\ current # NoFile /\ Stripe!Supported(e) /\ e.id \notin seen
      /\ current' = NextBundle(current, r, e) /\ seen' = seen \cup {e.id}
      /\ spoilt' = spoilt
             \cup (IF e.created > Now THEN {"relay clock behind"} ELSE {})
             \cup (IF RelayIssuer(r) # current.payload.issuers[1]
                   THEN {"issuer or key changed"} ELSE {})
  BY DEF IngestWebhook, Unrecorded
<1>2. Shape(current)
  BY <1>1 DEF ShapeInv
<1>3. PICK r0 \in Configurations :
          BuiltBy(current, r0, seen) /\ (spoilt = {} <=> Clean(current, r0))
  BY <1>1 DEF RelayInv
<1>4. PICK item, events, supports, made :
          Grown(current, current', r, e, item, events, supports, made)
  BY <1>1, <1>2, NextBundleIs
<1>5. /\ BuiltBy(current', r0, seen')
      /\ Clean(current', r0) <=> /\ Clean(current, r0) /\ ~(Now < e.created)
                                 /\ r.issuer = r0.issuer /\ r.key = r0.key
  <2>1. e.id \notin seen /\ Stripe!Supported(e) /\ BuiltBy(current, r0, seen)
    BY <1>1, <1>3
  <2>2. /\ BuiltBy(current', r0, seen \cup {e.id})
        /\ Clean(current', r0) <=> /\ Clean(current, r0) /\ ~(Now < e.created)
                                   /\ r.issuer = r0.issuer /\ r.key = r0.key
    BY <1>2, <1>4, <2>1, GrownBuilt
  <2> QED BY <1>1, <2>2
<1>6. e.created > Now <=> Now < e.created
  BY FileAssumption DEF Now
<1>7. RelayIssuer(r) = current.payload.issuers[1]
         <=> r.issuer = r0.issuer /\ r.key = r0.key
  <2>1. current.payload.issuers[1] = RelayIssuer(r0)
    <3> DEFINE i == RelayIssuer(r0)
    <3>1. current.payload.issuers = <<i>>
      BY <1>3 DEF BuiltBy
    <3> HIDE DEF i
    <3>2. current.payload.issuers[1] = i
      BY <3>1, SeqSingle
    <3> QED BY <3>2 DEF i
  <2>2. ASSUME r.issuer = r0.issuer, r.key = r0.key PROVE RelayIssuer(r) = RelayIssuer(r0)
    BY <2>2 DEF RelayIssuer
  <2>3. ASSUME NEW i, i = RelayIssuer(r), i = RelayIssuer(r0)
        PROVE  r.issuer = r0.issuer /\ r.key = r0.key
    <3>1. IssuerOf(i, r) /\ IssuerOf(i, r0)
      BY <2>3, RelayIssuerOf
    <3> QED BY <3>1 DEF IssuerOf
  <2> QED BY <2>1, <2>2, <2>3
<1>8. spoilt' = {} <=> Clean(current', r0)
  BY <1>1, <1>3, <1>5, <1>6, <1>7
<1> QED BY <1>5, <1>8 DEF RelayInv

LEMMA RelayInvStep == ShapeInv /\ RelayInv /\ [Next]_vars => RelayInv'
<1> SUFFICES ASSUME ShapeInv, RelayInv, [Next]_vars PROVE RelayInv'
  OBVIOUS
<1>1. ASSUME UNCHANGED <<current, seen, spoilt>> PROVE RelayInv'
  BY <1>1 DEF RelayInv
<1>2. CASE Download
  BY <1>1, <1>2 DEF Download
<1>3. CASE file # NoFile /\ Edit
  <2>1. CASE SignSomething
    <3>1. \E type, id, issuer, keyId, key, proofId : Sign(type, id, issuer, keyId, key, proofId)
      BY <2>1 DEF SignSomething
    <3> QED BY <1>1, <3>1 DEF Sign, Change
  <2>2. ASSUME ~SignSomething PROVE UNCHANGED <<current, seen, spoilt>>
    BY <1>3, <2>2 DEF Edit, DeclareAuditor, AddObservation, Redate, Redact,
                      DropProof, MoveProof, Garble, Change
  <2> QED BY <1>1, <2>1, <2>2
<1>4. CASE UNCHANGED vars
  BY <1>1, <1>4 DEF vars
<1> QED BY <1>2, <1>3, <1>4, CreateBuilt, IngestBuilt DEF Next

\* What the Relay stores is built by one issuer on its claim and the webhooks
\* seen, and is clean exactly as long as nothing has spoilt it.
THEOREM RelayInvariant == Spec => []RelayInv
BY RelayInvInit, RelayInvStep, BundlesHaveShape, PTL DEF Spec

\* Every bundle that the Relay stores passes the verifier, whatever webhooks
\* arrive and in what order, but for the four reasons, and each is for good.
THEOREM RelayBundlesAreValid == Spec => []RelayBundlesValid
<1>1. ShapeInv /\ RelayInv => RelayBundlesValid
  BY StatusBuilt DEF ShapeInv, RelayInv, RelayBundlesValid
<1> QED BY <1>1, BundlesHaveShape, RelayInvariant, PTL
================================================================================
