--------------------------- MODULE CanonicalJsonProofs ---------------------------
(***************************************************************************)
(* Proofs about the strict JSON parser and the canonical text, for texts   *)
(* of any length, names of any length and any number of members, and for   *)
(* values of any depth up to MaxDepth, whatever that bound is:             *)
(*                                                                         *)
(*   1. what sort does: the order of names is strict and total, so the     *)
(*      members get different ranks and every place is somebody's;         *)
(*   2. values: the induction over their parts, and the equations of the   *)
(*      recursive functions over them and over texts (a function that      *)
(*      satisfies such an equation exists, by induction over its domain,   *)
(*      so the one CHOOSE names is one);                                   *)
(*   3. the parser on a canonical text: in whatever containers it is, it   *)
(*      comes out with the value, its members sorted;                      *)
(*   4. the canonical text of a value with its members in another order;   *)
(*   5. the inductive invariant of the parser.  It builds a value bottom   *)
(*      up, so there is at every time a set of sound values, each made of  *)
(*      others of the set, from which everything on the stack is taken; it *)
(*      grows by each value that is completed;                             *)
(*   6. the bound on containers, and with it the properties of             *)
(*      CanonicalJson for every state of the reader.                       *)
(***************************************************************************)
EXTENDS CanonicalJson, SequenceTheorems, FiniteSetTheorems, WellFoundedInduction, TLAPS

-----------------------------------------------------------------------------
(* 1. Sorting.                                                             *)

\* The natural numbers are well founded, so what holds of 0 and passes from each
\* to the next holds of all.
LEMMA FromZero ==
    ASSUME NEW S, 0 \in S, \A n \in Nat : n \in S => n + 1 \in S
    PROVE  Nat \subseteq S
<1> DEFINE R == {pair \in Nat \X Nat : pair[1] < pair[2]}
           T == Nat \ S
<1>1. IsWellFoundedOn(R, Nat)
  BY NatLessThanWellFounded DEF OpToRel
<1>2. CASE T # {}
  <2>1. PICK x \in T : \A y \in T : ~(<<y, x>> \in R)
    <3> HIDE DEF R
    <3>1. T \in SUBSET Nat
      OBVIOUS
    <3> HIDE DEF T
    <3> QED BY <1>1, <1>2, <3>1, WFMin
  <2>2. x \in Nat /\ x # 0 /\ x - 1 \in Nat /\ x - 1 < x
    BY <2>1
  <2>3. x - 1 \notin T
    BY <2>1, <2>2
  <2>4. x - 1 + 1 = x /\ x - 1 \in S
    BY <2>2, <2>3
  <2> QED BY <2>1, <2>2, <2>4
<1> QED BY <1>2

\* A set of natural numbers that is not empty has a least one.
LEMMA Least ==
    ASSUME NEW T \in SUBSET Nat, T # {}
    PROVE  \E x \in T : \A y \in T : x <= y
<1> DEFINE R == {pair \in Nat \X Nat : pair[1] < pair[2]}
<1>1. IsWellFoundedOn(R, Nat)
  BY NatLessThanWellFounded DEF OpToRel
<1>2. PICK x \in T : \A y \in T : ~(<<y, x>> \in R)
  <2> HIDE DEF R
  <2> QED BY <1>1, WFMin
<1>3. \A y \in T : ~(y < x)
  BY <1>2
<1> QED BY <1>3
-----------------------------------------------------------------------------
\* The order of a unit of s, 0 behind its end.
Weight(s, i) == IF i <= Len(s) THEN UnitOrder[s[i]] ELSE 0

\* s and t differ first at i, where s has the smaller unit or none.
LessAt(s, t, i) ==
    /\ \A j \in 1..(i - 1) : Weight(s, j) = Weight(t, j)
    /\ Weight(s, i) < Weight(t, i)

\* A place with equal weights holds equal units, or neither string has it.
LEMMA Weights ==
    ASSUME NEW s \in Seq(Units), NEW t \in Seq(Units), NEW i \in Nat \ {0}
    PROVE  /\ Weight(s, i) \in Nat
           /\ Weight(s, i) = 0 <=> i > Len(s)
           /\ Weight(s, i) = Weight(t, i) /\ i <= Len(s) => i <= Len(t) /\ s[i] = t[i]
<1>1. \A u \in Units : UnitOrder[u] \in Nat \ {0}
  BY DEF Units, UnitOrder
<1>2. \A u, w \in Units : UnitOrder[u] = UnitOrder[w] => u = w
  BY DEF Units, UnitOrder
<1>3. i <= Len(s) => s[i] \in Units
  OBVIOUS
<1>4. i <= Len(t) => t[i] \in Units
  OBVIOUS
<1>5. Len(s) \in Nat /\ Len(t) \in Nat
  OBVIOUS
<1> QED BY <1>1, <1>2, <1>3, <1>4, <1>5 DEF Weight

\* One name precedes another exactly when it is less where they first differ.
LEMMA PrecedesAt ==
    ASSUME NEW s \in Seq(Units), NEW t \in Seq(Units)
    PROVE  Precedes(s, t) <=> \E i \in Nat \ {0} : LessAt(s, t, i)
<1>0. Len(s) \in Nat /\ Len(t) \in Nat
  OBVIOUS
<1>1. ASSUME IsStrictPrefix(s, t)
      PROVE  \E i \in Nat \ {0} : LessAt(s, t, i)
  <2>1. Len(s) < Len(t) /\ \A j \in 1..Len(s) : s[j] = t[j]
    <3>1. Len(s) <= Len(t) /\ SubSeq(s, 1, Len(s)) = SubSeq(t, 1, Len(s)) /\ s # t
      BY <1>1 DEF IsStrictPrefix, IsPrefix
    <3>2. \A j \in 1..Len(s) : SubSeq(s, 1, Len(s))[j] = s[j] /\ SubSeq(t, 1, Len(s))[j] = t[j]
      BY <3>1
    <3>3. \A j \in 1..Len(s) : s[j] = t[j]
      BY <3>1, <3>2
    <3>4. Len(s) # Len(t)
      BY <3>1, <3>3
    <3> QED BY <1>0, <3>1, <3>3, <3>4
  <2>2. \A j \in 1..Len(s) : Weight(s, j) = Weight(t, j)
    BY <1>0, <2>1 DEF Weight
  <2>3. Len(s) + 1 \in Nat \ {0} /\ Len(s) + 1 - 1 = Len(s) /\ Len(s) + 1 <= Len(t)
    BY <1>0, <2>1
  <2>4. Weight(s, Len(s) + 1) = 0 /\ Weight(t, Len(s) + 1) \in Nat /\ Weight(t, Len(s) + 1) # 0
    BY <1>0, <2>3, Weights
  <2>5. LessAt(s, t, Len(s) + 1)
    BY <2>2, <2>3, <2>4 DEF LessAt
  <2> QED BY <2>3, <2>5
<1>2. ASSUME NEW i \in 1..Len(s), i <= Len(t), SubSeq(s, 1, i - 1) = SubSeq(t, 1, i - 1),
             UnitOrder[s[i]] < UnitOrder[t[i]]
      PROVE  \E k \in Nat \ {0} : LessAt(s, t, k)
  <2>1. \A j \in 1..(i - 1) : SubSeq(s, 1, i - 1)[j] = s[j] /\ SubSeq(t, 1, i - 1)[j] = t[j]
    BY <1>0, <1>2
  <2>2. \A j \in 1..(i - 1) : j <= Len(s) /\ j <= Len(t) /\ s[j] = t[j]
    BY <1>0, <1>2, <2>1
  <2>3. LessAt(s, t, i)
    BY <1>0, <1>2, <2>2 DEF LessAt, Weight
  <2> QED BY <1>0, <2>3
<1>3. ASSUME NEW i \in Nat \ {0}, LessAt(s, t, i)
      PROVE  Precedes(s, t)
  <2>1. \A j \in 1..(i - 1) : j <= Len(s) => j <= Len(t) /\ s[j] = t[j]
    <3> SUFFICES ASSUME NEW j \in 1..(i - 1), j <= Len(s)
                 PROVE  j <= Len(t) /\ s[j] = t[j]
      OBVIOUS
    <3>1. j \in Nat \ {0} /\ Weight(s, j) = Weight(t, j)
      BY <1>3 DEF LessAt
    <3> QED BY <3>1, Weights
  <2>2. i <= Len(t)
    <3>1. Weight(s, i) \in Nat /\ Weight(t, i) \in Nat /\ Weight(s, i) < Weight(t, i)
      BY <1>3, Weights DEF LessAt
    <3>2. Weight(t, i) # 0
      BY <3>1
    <3> QED BY <1>0, <3>2, Weights
  <2>3. CASE i <= Len(s)
    <3>1. \A j \in 1..(i - 1) : s[j] = t[j]
      BY <1>0, <2>1, <2>3
    <3>2. SubSeq(s, 1, i - 1) = SubSeq(t, 1, i - 1)
      BY <1>0, <2>2, <2>3, <3>1
    <3>3. UnitOrder[s[i]] < UnitOrder[t[i]]
      BY <1>3, <2>2, <2>3 DEF LessAt, Weight
    <3> QED BY <1>0, <2>2, <2>3, <3>2, <3>3 DEF Precedes
  <2>4. CASE i > Len(s)
    <3>1. \A j \in 1..Len(s) : s[j] = t[j]
      BY <1>0, <2>1, <2>4
    <3>2. Len(s) < Len(t)
      BY <1>0, <2>2, <2>4
    <3>3. SubSeq(s, 1, Len(s)) = SubSeq(t, 1, Len(s))
      BY <1>0, <3>1, <3>2
    <3> QED BY <3>2, <3>3 DEF Precedes, IsStrictPrefix, IsPrefix
  <2> QED BY <1>0, <2>3, <2>4
<1>4. Precedes(s, t) => \E i \in Nat \ {0} : LessAt(s, t, i)
  BY <1>1, <1>2 DEF Precedes
<1> QED BY <1>3, <1>4

\* compareUtf16 orders any two names strictly.
LEMMA OrderStrict ==
    ASSUME NEW s \in Seq(Units), NEW t \in Seq(Units), Precedes(s, t)
    PROVE  ~Precedes(t, s) /\ s # t
<1>1. PICK i \in Nat \ {0} : LessAt(s, t, i)
  BY PrecedesAt
<1>2. \A k \in Nat \ {0} : Weight(s, k) \in Nat /\ Weight(t, k) \in Nat
  BY Weights
<1>3. ASSUME NEW k \in Nat \ {0}, LessAt(t, s, k)
      PROVE  FALSE
  <2>1. CASE i < k
    <3>1. i \in 1..(k - 1)
      BY <2>1
    <3>2. Weight(t, i) = Weight(s, i)
      BY <1>3, <3>1 DEF LessAt
    <3> QED BY <1>1, <1>2, <3>2 DEF LessAt
  <2>2. CASE k < i
    <3>1. k \in 1..(i - 1)
      BY <2>2
    <3>2. Weight(t, k) = Weight(s, k)
      BY <1>1, <3>1 DEF LessAt
    <3> QED BY <1>2, <1>3, <3>2 DEF LessAt
  <2>3. CASE i = k
    BY <1>1, <1>2, <1>3, <2>3 DEF LessAt
  <2> QED BY <2>1, <2>2, <2>3
<1>4. ~Precedes(t, s)
  BY <1>3, PrecedesAt
<1>5. s # t
  BY <1>1, <1>2 DEF LessAt
<1> QED BY <1>4, <1>5

LEMMA OrderTransitive ==
    ASSUME NEW r \in Seq(Units), NEW s \in Seq(Units), NEW t \in Seq(Units),
           Precedes(r, s), Precedes(s, t)
    PROVE  Precedes(r, t)
<1>1. PICK i \in Nat \ {0} : LessAt(r, s, i)
  BY PrecedesAt
<1>2. PICK k \in Nat \ {0} : LessAt(s, t, k)
  BY PrecedesAt
<1>3. \A j \in Nat \ {0} : Weight(r, j) \in Nat /\ Weight(s, j) \in Nat /\ Weight(t, j) \in Nat
  BY Weights
<1>4. CASE i <= k
  <2>1. Weight(s, i) <= Weight(t, i)
    <3>1. CASE i = k
      BY <1>2, <1>3, <3>1 DEF LessAt
    <3>2. CASE i < k
      <4>1. i \in 1..(k - 1)
        BY <3>2
      <4> QED BY <1>2, <1>3, <4>1 DEF LessAt
    <3> QED BY <1>4, <3>1, <3>2
  <2>2. Weight(r, i) < Weight(t, i)
    BY <1>1, <1>3, <2>1 DEF LessAt
  <2>3. \A j \in 1..(i - 1) : j \in 1..(k - 1)
    BY <1>4
  <2>4. LessAt(r, t, i)
    BY <1>1, <1>2, <2>2, <2>3 DEF LessAt
  <2> QED BY <2>4, PrecedesAt
<1>5. CASE k < i
  <2>1. k \in 1..(i - 1) /\ \A j \in 1..(k - 1) : j \in 1..(i - 1)
    BY <1>5
  <2>2. LessAt(r, t, k)
    BY <1>1, <1>2, <2>1 DEF LessAt
  <2> QED BY <2>2, PrecedesAt
<1> QED BY <1>4, <1>5

LEMMA OrderTotal ==
    ASSUME NEW s \in Seq(Units), NEW t \in Seq(Units), s # t
    PROVE  Precedes(s, t) \/ Precedes(t, s)
<1> DEFINE Differ == {i \in Nat \ {0} : Weight(s, i) # Weight(t, i)}
<1>0. Len(s) \in Nat /\ Len(t) \in Nat
  OBVIOUS
<1>1. Differ # {}
  <2> SUFFICES ASSUME \A i \in Nat \ {0} : Weight(s, i) = Weight(t, i)
               PROVE  FALSE
    OBVIOUS
  <2>1. \A i \in 1..Len(s) : i <= Len(t) /\ s[i] = t[i]
    BY <1>0, Weights
  <2>2. \A i \in 1..Len(t) : i <= Len(s)
    BY <1>0, Weights
  <2>3. Len(s) = Len(t)
    BY <1>0, <2>1, <2>2
  <2> QED BY <2>1, <2>3
<1>2. PICK i \in Differ : \A j \in Differ : i <= j
  <2>1. Differ \in SUBSET Nat
    OBVIOUS
  <2> HIDE DEF Differ
  <2> QED BY <1>1, <2>1, Least
<1>3. \A j \in 1..(i - 1) : Weight(s, j) = Weight(t, j)
  <2> SUFFICES ASSUME NEW j \in 1..(i - 1), Weight(s, j) # Weight(t, j)
               PROVE  FALSE
    OBVIOUS
  <2>1. i \in Nat \ {0}
    OBVIOUS
  <2>2. j \in Nat \ {0} /\ ~(i <= j)
    BY <2>1
  <2>3. j \in Differ
    BY <2>2
  <2> QED BY <1>2, <2>2, <2>3
<1>4. i \in Nat \ {0} /\ Weight(s, i) \in Nat /\ Weight(t, i) \in Nat
          /\ Weight(s, i) # Weight(t, i)
  BY Weights
<1>5. Weight(s, i) < Weight(t, i) \/ Weight(t, i) < Weight(s, i)
  BY <1>4
<1>6. LessAt(s, t, i) \/ LessAt(t, s, i)
  BY <1>3, <1>5 DEF LessAt
<1> QED BY <1>4, <1>6, PrecedesAt

\* The members whose names precede the name of the one at i.
Below(members, i) == {j \in DOMAIN members : Precedes(members[j][1], members[i][1])}

\* What a list of members consists of.
LEMMA MemberNames ==
    ASSUME NEW S, NEW members \in MemberLists(S)
    PROVE  /\ members \in Seq(ValidStrings \X S)
           /\ \A i \in DOMAIN members : members[i] = <<members[i][1], members[i][2]>>
                  /\ members[i][1] \in ValidStrings /\ members[i][1] \in Seq(Units)
                  /\ members[i][2] \in S
           /\ \A i, j \in DOMAIN members : members[i][1] = members[j][1] => i = j
<1>1. members \in Seq(ValidStrings \X S)
  BY DEF MemberLists
<1>2. \A i \in DOMAIN members : members[i] \in ValidStrings \X S
  BY <1>1
<1>3. \A i, j \in DOMAIN members : members[i][1] = members[j][1] => i = j
  BY DEF MemberLists, Distinct
<1> QED BY <1>1, <1>2, <1>3 DEF ValidStrings

\* The rank of a member is the number of names before its own: stability is no
\* matter, as no two names are the same.
LEMMA RankBelow ==
    ASSUME NEW S, NEW members \in MemberLists(S), NEW i \in DOMAIN members
    PROVE  Rank(members, i) = Cardinality(Below(members, i))
<1> DEFINE Before(j) == \/ Precedes(members[j][1], members[i][1])
                        \/ j < i /\ ~Precedes(members[i][1], members[j][1])
<1>0. DOMAIN members = 1..Len(members) /\ Len(members) \in Nat
  BY MemberNames
<1>1. ASSUME NEW j \in DOMAIN members
      PROVE  Before(j) <=> Precedes(members[j][1], members[i][1])
  <2>1. CASE j = i
    BY <1>0, <2>1
  <2>2. CASE j # i
    <3>1. members[j][1] # members[i][1]
      BY <2>2, MemberNames
    <3> QED BY <3>1, MemberNames, OrderTotal
  <2> QED BY <2>1, <2>2
<1>2. {j \in DOMAIN members : Before(j)} = Below(members, i)
  BY <1>1 DEF Below
<1> QED BY <1>2 DEF Rank

LEMMA IntervalSize ==
    ASSUME NEW n \in Nat
    PROVE  /\ IsFiniteSet(1..n) /\ Cardinality(1..n) = n
           /\ IsFiniteSet(0..(n - 1)) /\ Cardinality(0..(n - 1)) = n
<1>1. IsFiniteSet(1..n) /\ Cardinality(1..n) = IF 1 > n THEN 0 ELSE n - 1 + 1
  BY FS_Interval
<1>2. IsFiniteSet(0..(n - 1)) /\ Cardinality(0..(n - 1)) = IF 0 > n - 1 THEN 0 ELSE n - 1 - 0 + 1
  <2>1. n - 1 \in Int
    OBVIOUS
  <2> QED BY <2>1, FS_Interval
<1>3. (IF 1 > n THEN 0 ELSE n - 1 + 1) = n /\ (IF 0 > n - 1 THEN 0 ELSE n - 1 - 0 + 1) = n
  OBVIOUS
<1> QED BY <1>1, <1>2, <1>3

LEMMA BelowFinite ==
    ASSUME NEW S, NEW members \in MemberLists(S), NEW i \in DOMAIN members
    PROVE  /\ IsFiniteSet(Below(members, i))
           /\ Rank(members, i) \in 0..(Len(members) - 1)
<1>0. DOMAIN members = 1..Len(members) /\ Len(members) \in Nat
  BY MemberNames
<1> DEFINE D == 1..Len(members)
<1>1. IsFiniteSet(D) /\ Cardinality(D) = Len(members)
  BY <1>0, IntervalSize
<1>2. i \notin Below(members, i) /\ Below(members, i) \subseteq D
  BY <1>0, MemberNames, OrderStrict DEF Below
<1>3. IsFiniteSet(D \ {i}) /\ Cardinality(D \ {i}) = Len(members) - 1
  <2>1. i \in D
    BY <1>0
  <2> HIDE DEF D
  <2> QED BY <1>1, <2>1, FS_RemoveElement
<1>4. Below(members, i) \in SUBSET (D \ {i})
  BY <1>2
<1>5. IsFiniteSet(Below(members, i)) /\ Cardinality(Below(members, i)) <= Len(members) - 1
  <2> HIDE DEF D
  <2> QED BY <1>3, <1>4, FS_Subset
<1>6. Cardinality(Below(members, i)) \in Nat
  BY <1>5, FS_CardinalityType
<1> QED BY <1>0, <1>5, <1>6, RankBelow

\* A member whose name precedes has the smaller rank.
LEMMA RankLess ==
    ASSUME NEW S, NEW members \in MemberLists(S),
           NEW i \in DOMAIN members, NEW k \in DOMAIN members,
           Precedes(members[i][1], members[k][1])
    PROVE  Rank(members, i) < Rank(members, k)
<1> DEFINE A == Below(members, i)
           B == Below(members, k)
<1>1. A \subseteq B
  BY MemberNames, OrderTransitive DEF Below
<1>2. i \in B /\ i \notin A
  BY MemberNames, OrderStrict DEF Below
<1>3. IsFiniteSet(A) /\ IsFiniteSet(B) /\ Rank(members, i) = Cardinality(A)
      /\ Rank(members, k) = Cardinality(B)
  BY BelowFinite, RankBelow
<1>4. Cardinality(A) <= Cardinality(B) /\ (Cardinality(A) = Cardinality(B) => A = B)
  <2> HIDE DEF A, B
  <2>1. A \in SUBSET B
    BY <1>1
  <2>2. Cardinality(A) <= Cardinality(B) /\ (Cardinality(B) = Cardinality(A) => B = A)
    BY <1>3, <2>1, FS_Subset
  <2> QED BY <2>2
<1>5. Cardinality(A) \in Nat /\ Cardinality(B) \in Nat
  BY <1>3, FS_CardinalityType
<1>6. Cardinality(A) # Cardinality(B)
  BY <1>2, <1>4
<1> QED BY <1>3, <1>4, <1>5, <1>6

\* No two members have one rank.
LEMMA RankInjective ==
    ASSUME NEW S, NEW members \in MemberLists(S),
           NEW i \in DOMAIN members, NEW k \in DOMAIN members,
           Rank(members, i) = Rank(members, k)
    PROVE  i = k
<1>1. Rank(members, i) \in Int /\ Rank(members, k) \in Int
  BY BelowFinite, MemberNames
<1>2. ~(Rank(members, i) < Rank(members, k)) /\ ~(Rank(members, k) < Rank(members, i))
  BY <1>1
<1>3. members[i][1] = members[k][1]
  BY <1>2, MemberNames, OrderTotal, RankLess
<1> QED BY <1>3, MemberNames

\* Every place is somebody's.
LEMMA RankTaken ==
    ASSUME NEW S, NEW members \in MemberLists(S), NEW k \in 1..Len(members)
    PROVE  \E i \in DOMAIN members : Rank(members, i) = k - 1
<1> DEFINE D == 1..Len(members)
           R == 0..(Len(members) - 1)
           f == [i \in D |-> Rank(members, i)]
<1>0. DOMAIN members = D /\ Len(members) \in Nat
  BY MemberNames
<1>1. f \in Injection(D, R)
  <2>1. f \in [D -> R]
    BY <1>0, BelowFinite
  <2>2. \A i, j \in D : f[i] = f[j] => i = j
    BY <1>0, RankInjective
  <2> QED BY <2>1, <2>2 DEF Injection, IsInjective
<1>2. IsFiniteSet(R) /\ Cardinality(R) = Len(members) /\ IsFiniteSet(D)
          /\ Cardinality(D) = Len(members)
  BY <1>0, IntervalSize
<1>3. f \in Surjection(D, R)
  <2> HIDE DEF D, R, f
  <2> QED BY <1>1, <1>2, FS_Injection
<1>4. k - 1 \in R
  BY <1>0
<1>5. PICK i \in D : f[i] = k - 1
  <2> HIDE DEF D, R, f
  <2> QED BY <1>3, <1>4 DEF Surjection
<1> QED BY <1>0, <1>5

\* Where sort takes its kth member from.
From(members, k) == CHOOSE i \in DOMAIN members : Rank(members, i) = k - 1

LEMMA SortFrom ==
    ASSUME NEW S, NEW members \in MemberLists(S)
    PROVE  /\ DOMAIN SortMembers(members) = 1..Len(members)
           /\ \A k \in 1..Len(members) :
                  /\ From(members, k) \in DOMAIN members
                  /\ Rank(members, From(members, k)) = k - 1
                  /\ SortMembers(members)[k] = members[From(members, k)]
           /\ \A k \in 1..Len(members) : \A i \in DOMAIN members :
                  Rank(members, i) = k - 1 => i = From(members, k)
<1>0. DOMAIN members = 1..Len(members)
  BY MemberNames
<1>1. \A k \in 1..Len(members) :
          From(members, k) \in DOMAIN members /\ Rank(members, From(members, k)) = k - 1
  BY RankTaken DEF From
<1>2. \A k \in 1..Len(members) : \A i \in DOMAIN members :
                  Rank(members, i) = k - 1 => i = From(members, k)
  BY <1>1, RankInjective
<1> QED BY <1>0, <1>1, <1>2 DEF SortMembers, From

\* Sorting keeps every member and their number.
LEMMA SortLists ==
    ASSUME NEW S, NEW members \in MemberLists(S)
    PROVE  /\ SortMembers(members) \in MemberLists(S)
           /\ Len(SortMembers(members)) = Len(members)
<1> DEFINE s == SortMembers(members)
           n == Len(members)
<1>0. n \in Nat /\ DOMAIN members = 1..n
  BY MemberNames
<1>1. DOMAIN s = 1..n /\ \A k \in 1..n : s[k] = members[From(members, k)]
                /\ From(members, k) \in DOMAIN members /\ Rank(members, From(members, k)) = k - 1
  BY SortFrom
<1>2. \A k \in 1..n : s[k] \in ValidStrings \X S
  <2>1. \A i \in 1..n : members[i] \in ValidStrings \X S
    <3>1. members \in Seq(ValidStrings \X S)
      BY DEF MemberLists
    <3> QED BY <3>1
  <2> HIDE DEF s, n
  <2> QED BY <1>0, <1>1, <2>1
<1>3. s = [k \in 1..n |-> s[k]]
  BY <1>1 DEF SortMembers
<1>4. s \in Seq(ValidStrings \X S) /\ Len(s) = n
  <2>1. [k \in 1..n |-> s[k]] \in Seq(ValidStrings \X S)
    BY <1>0, <1>2
  <2>2. Len([k \in 1..n |-> s[k]]) = n
    BY <1>0
  <2> HIDE DEF s, n
  <2> QED BY <1>3, <2>1, <2>2
<1>5. Distinct(s)
  <2> SUFFICES ASSUME NEW i \in 1..n, NEW j \in 1..n, s[i][1] = s[j][1]
               PROVE  i = j
    BY <1>1 DEF Distinct
  <2>1. members[From(members, i)][1] = members[From(members, j)][1]
    BY <1>1
  <2>2. From(members, i) \in DOMAIN members /\ From(members, j) \in DOMAIN members
    BY <1>1
  <2>3. From(members, i) = From(members, j)
    BY <2>1, <2>2, MemberNames
  <2> QED BY <1>0, <1>1, <2>3
<1> QED BY <1>4, <1>5 DEF MemberLists

-----------------------------------------------------------------------------
(* 2. Values, and functions over them.                                     *)

\* v is a JSON value whose parts are in S: its strings are valid Unicode, its
\* numbers are finite and no two of its members have one name.
BuiltFrom(v, S) ==
    \/ v \in {<<"literal">>, <<"number", "0">>, <<"number", "1">>}
    \/ \E s \in ValidStrings : v = <<"string", s>>
    \/ \E items \in Seq(S) : v = <<"array", items>>
    \/ \E members \in MemberLists(S) : v = <<"object", members>>

\* JsonValues is a function that satisfies its equation.
LevelBody(h, n) ==
    IF n = 0 THEN {}
    ELSE Leaves
         \cup ({"array"} \X Seq(h[n - 1]))
         \cup ({"object"} \X MemberLists(h[n - 1]))

LEMMA LevelsExist ==
    ASSUME NEW N \in Nat
    PROVE  \E h : h = [n \in 0..N |-> LevelBody(h, n)]
<1> DEFINE P == {m \in Nat : \E h : h = [n \in 0..m |-> LevelBody(h, n)]}
<1>1. 0 \in P
  <2> DEFINE h == [n \in 0..0 |-> {}]
  <2>1. \A n \in 0..0 : LevelBody(h, n) = {}
    BY DEF LevelBody
  <2>2. h = [n \in 0..0 |-> LevelBody(h, n)]
    BY <2>1
  <2> QED BY <2>2
<1>2. ASSUME NEW m \in Nat, m \in P
      PROVE  m + 1 \in P
  <2>1. PICK h : h = [n \in 0..m |-> LevelBody(h, n)]
    BY <1>2
  <2> DEFINE g == [n \in 0..(m + 1) |-> LevelBody(h, n)]
  <2>2. \A n \in 0..m : g[n] = h[n]
    <3>1. \A n \in 0..m : h[n] = LevelBody(h, n)
      BY <2>1
    <3> QED BY <3>1
  <2>3. \A n \in 0..(m + 1) : LevelBody(g, n) = LevelBody(h, n)
    <3> SUFFICES ASSUME NEW n \in 0..(m + 1), n # 0
                 PROVE  LevelBody(g, n) = LevelBody(h, n)
      BY DEF LevelBody
    <3>1. n - 1 \in 0..m
      OBVIOUS
    <3>2. g[n - 1] = h[n - 1]
      BY <2>2, <3>1
    <3> HIDE DEF g
    <3> QED BY <3>2 DEF LevelBody
  <2>4. g = [n \in 0..(m + 1) |-> LevelBody(g, n)]
    BY <2>3
  <2> HIDE DEF g
  <2> QED BY <2>4
<1> HIDE DEF P
<1>3. Nat \subseteq P
  BY <1>1, <1>2, FromZero
<1> QED BY <1>3 DEF P

LEMMA LevelsUnfold ==
    JsonValues = [n \in 0..(MaxDepth + 1) |-> LevelBody(JsonValues, n)]
<1>1. MaxDepth + 1 \in Nat
  BY JsonAssumption
<1>2. \E h : h = [n \in 0..(MaxDepth + 1) |-> LevelBody(h, n)]
  BY <1>1, LevelsExist
<1>3. JsonValues = CHOOSE h : h = [n \in 0..(MaxDepth + 1) |-> LevelBody(h, n)]
  BY Zenon DEF JsonValues, LevelBody
<1> QED BY <1>2, <1>3, Zenon

\* The values of one level more are those built from the values of a level.
LEMMA Levels ==
    /\ JsonValues[0] = {}
    /\ \A n \in 0..MaxDepth : \A v : v \in JsonValues[n + 1] <=> BuiltFrom(v, JsonValues[n])
<1>0. MaxDepth \in Nat
  BY JsonAssumption
<1>1. \A n \in 0..(MaxDepth + 1) : JsonValues[n] = LevelBody(JsonValues, n)
  BY LevelsUnfold
<1>2. JsonValues[0] = {}
  <2>1. JsonValues[0] = LevelBody(JsonValues, 0)
    BY <1>0, <1>1
  <2> QED BY <2>1 DEF LevelBody
<1>3. ASSUME NEW n \in 0..MaxDepth
      PROVE  \A v : v \in JsonValues[n + 1] <=> BuiltFrom(v, JsonValues[n])
  <2> DEFINE J == JsonValues[n]
  <2>1. n + 1 \in 0..(MaxDepth + 1) /\ n + 1 # 0 /\ n + 1 - 1 = n
    BY <1>0
  <2>2. JsonValues[n + 1] = Leaves \cup ({"array"} \X Seq(J)) \cup ({"object"} \X MemberLists(J))
    <3>1. JsonValues[n + 1] = LevelBody(JsonValues, n + 1)
      BY <1>1, <2>1
    <3> QED BY <2>1, <3>1 DEF LevelBody
  <2> HIDE DEF J
  <2>3. \A v : v \in Leaves <=>
             \/ v \in {<<"literal">>, <<"number", "0">>, <<"number", "1">>}
             \/ \E s \in ValidStrings : v = <<"string", s>>
    BY DEF Leaves
  <2>4. \A v : v \in {"array"} \X Seq(J) <=> \E items \in Seq(J) : v = <<"array", items>>
    OBVIOUS
  <2>5. \A v : v \in {"object"} \X MemberLists(J) <=>
                 \E members \in MemberLists(J) : v = <<"object", members>>
    OBVIOUS
  <2>6. \A v : v \in JsonValues[n + 1] <=> BuiltFrom(v, J)
    BY <2>2, <2>3, <2>4, <2>5 DEF BuiltFrom
  <2> QED BY <2>6 DEF J
<1> QED BY <1>2, <1>3

LEMMA MoreMembers ==
    ASSUME NEW S, NEW T, S \subseteq T
    PROVE  Seq(S) \subseteq Seq(T) /\ MemberLists(S) \subseteq MemberLists(T)
<1>1. ValidStrings \X S \subseteq ValidStrings \X T
  OBVIOUS
<1>2. Seq(S) \subseteq Seq(T) /\ Seq(ValidStrings \X S) \subseteq Seq(ValidStrings \X T)
  BY <1>1, SeqMonotonic
<1> QED BY <1>2 DEF MemberLists

LEMMA BuiltFromMore ==
    ASSUME NEW S, NEW T, S \subseteq T, NEW v, BuiltFrom(v, S)
    PROVE  BuiltFrom(v, T)
<1>1. Seq(S) \subseteq Seq(T) /\ MemberLists(S) \subseteq MemberLists(T)
  BY MoreMembers
<1> QED BY <1>1 DEF BuiltFrom

LEMMA LevelsGrow ==
    ASSUME NEW n \in 0..MaxDepth
    PROVE  JsonValues[n] \subseteq JsonValues[n + 1]
<1> DEFINE P == {m \in Nat : m <= MaxDepth => JsonValues[m] \subseteq JsonValues[m + 1]}
<1>0. MaxDepth \in Nat
  BY JsonAssumption
<1>1. 0 \in P
  BY <1>0, Levels
<1>2. ASSUME NEW m \in Nat, m \in P
      PROVE  m + 1 \in P
  <2> SUFFICES ASSUME m + 1 <= MaxDepth, NEW v \in JsonValues[m + 1]
               PROVE  v \in JsonValues[m + 1 + 1]
    BY <1>0
  <2>1. m \in 0..MaxDepth /\ m + 1 \in 0..MaxDepth /\ JsonValues[m] \subseteq JsonValues[m + 1]
    BY <1>0, <1>2
  <2>2. BuiltFrom(v, JsonValues[m])
    BY <2>1, Levels
  <2>3. BuiltFrom(v, JsonValues[m + 1])
    BY <2>1, <2>2, BuiltFromMore
  <2> QED BY <2>1, <2>3, Levels
<1> HIDE DEF P
<1>3. Nat \subseteq P
  BY <1>1, <1>2, FromZero
<1> QED BY <1>0, <1>3 DEF P

\* Every level is part of Value.
LEMMA LevelsInValue ==
    ASSUME NEW n \in 0..(MaxDepth + 1)
    PROVE  JsonValues[n] \subseteq Value
<1> DEFINE P == {m \in Nat : m <= MaxDepth + 1 => JsonValues[MaxDepth + 1 - m] \subseteq Value}
<1>0. MaxDepth \in Nat
  BY JsonAssumption
<1>1. 0 \in P
  BY <1>0 DEF Value
<1>2. ASSUME NEW m \in Nat, m \in P
      PROVE  m + 1 \in P
  <2> SUFFICES ASSUME m + 1 <= MaxDepth + 1
               PROVE  JsonValues[MaxDepth + 1 - (m + 1)] \subseteq Value
    BY <1>0
  <2>1. MaxDepth + 1 - (m + 1) \in 0..MaxDepth /\ MaxDepth + 1 - (m + 1) + 1 = MaxDepth + 1 - m
    BY <1>0
  <2>2. JsonValues[MaxDepth + 1 - (m + 1)] \subseteq JsonValues[MaxDepth + 1 - m]
    BY <2>1, LevelsGrow
  <2> QED BY <1>0, <1>2, <2>2
<1> HIDE DEF P
<1>3. Nat \subseteq P
  BY <1>1, <1>2, FromZero
<1>4. MaxDepth + 1 - n \in Nat /\ MaxDepth + 1 - (MaxDepth + 1 - n) = n
  BY <1>0
<1> QED BY <1>0, <1>3, <1>4 DEF P

LEMMA ArrayItems ==
    ASSUME NEW S, NEW items \in Seq(S)
    PROVE  /\ <<"array", items>>[1] = "array" /\ <<"array", items>>[2] = items
           /\ DOMAIN items = 1..Len(items) /\ Len(items) \in Nat
           /\ \A i \in DOMAIN items : items[i] \in S
OBVIOUS

CanonicalBody(h, v) ==
    CASE v[1] = "literal" -> <<"keyword">>
      [] v[1] = "number" -> <<v[2]>>
      [] v[1] = "string" -> StringText(v[2])
      [] v[1] = "array" ->
            <<"[">> \o Separated([i \in DOMAIN v[2] |-> h[v[2][i]]]) \o <<"]">>
      [] OTHER ->
            LET members == SortMembers(v[2])
            IN <<"{">>
               \o Separated([i \in DOMAIN members |->
                     StringText(members[i][1]) \o <<":">> \o h[members[i][2]]])
               \o <<"}">>

\* CanonicalBody looks at h only where the parts of v are.
LEMMA CanonicalBodyParts ==
    ASSUME NEW S, NEW g, NEW h, \A w \in S : g[w] = h[w], NEW v, BuiltFrom(v, S)
    PROVE  CanonicalBody(g, v) = CanonicalBody(h, v)
<1>1. CASE v \in {<<"literal">>, <<"number", "0">>, <<"number", "1">>}
  <2>1. CASE v[1] = "literal"
    BY <2>1, Zenon DEF CanonicalBody
  <2>2. CASE v[1] = "number"
    BY <2>2, Zenon DEF CanonicalBody
  <2> QED BY <1>1, <2>1, <2>2
<1>2. CASE \E s \in ValidStrings : v = <<"string", s>>
  BY <1>2 DEF CanonicalBody
<1>3. ASSUME NEW items \in Seq(S), v = <<"array", items>>
      PROVE  CanonicalBody(g, v) = CanonicalBody(h, v)
  <2>1. [i \in DOMAIN items |-> g[items[i]]] = [i \in DOMAIN items |-> h[items[i]]]
    BY ArrayItems
  <2> QED BY <1>3, <2>1 DEF CanonicalBody
<1>4. ASSUME NEW members \in MemberLists(S), v = <<"object", members>>
      PROVE  CanonicalBody(g, v) = CanonicalBody(h, v)
  <2>5. v[1] = "object" /\ v[2] = members
    BY <1>4
  <2>6. CanonicalBody(g, v) = CanonicalBody(h, v)
    <3>1. \A i \in DOMAIN SortMembers(members) : SortMembers(members)[i][2] \in S
      BY SortLists, MemberNames
    <3>2. \A i \in DOMAIN SortMembers(members) :
              g[SortMembers(members)[i][2]] = h[SortMembers(members)[i][2]]
      BY <3>1
    <3> QED BY <2>5, <3>2 DEF CanonicalBody
  <2> QED BY <2>6
<1> QED BY <1>1, <1>2, <1>3, <1>4 DEF BuiltFrom

\* Level by level, there is a function that satisfies the equation of Canonical.
LEMMA CanonicalExists ==
    ASSUME NEW N \in 0..(MaxDepth + 1)
    PROVE  \E h : h = [v \in JsonValues[N] |-> CanonicalBody(h, v)]
<1> DEFINE P == {n \in Nat : n <= MaxDepth + 1 =>
               \E h : h = [v \in JsonValues[n] |-> CanonicalBody(h, v)]}
<1>0. MaxDepth \in Nat
  BY JsonAssumption
<1>1. 0 \in P
  <2> DEFINE h == [v \in {} |-> {}]
  <2>1. h = [v \in JsonValues[0] |-> CanonicalBody(h, v)]
    BY Levels
  <2> QED BY <2>1
<1>2. ASSUME NEW n \in Nat, n \in P
      PROVE  n + 1 \in P
  <2> SUFFICES ASSUME n + 1 <= MaxDepth + 1
               PROVE  \E h : h = [v \in JsonValues[n + 1] |-> CanonicalBody(h, v)]
    BY <1>0
  <2>1. n \in 0..MaxDepth
    BY <1>0
  <2>2. PICK h : h = [v \in JsonValues[n] |-> CanonicalBody(h, v)]
    BY <1>0, <1>2
  <2> DEFINE g == [v \in JsonValues[n + 1] |-> CanonicalBody(h, v)]
  <2>3. \A w \in JsonValues[n] : g[w] = h[w]
    <3>1. \A w \in JsonValues[n] : h[w] = CanonicalBody(h, w)
      BY <2>2
    <3>2. JsonValues[n] \subseteq JsonValues[n + 1]
      BY <2>1, LevelsGrow
    <3> QED BY <3>1, <3>2
  <2>4. ASSUME NEW v \in JsonValues[n + 1]
        PROVE  CanonicalBody(g, v) = CanonicalBody(h, v)
    <3>1. BuiltFrom(v, JsonValues[n])
      BY <2>1, Levels
    <3> HIDE DEF g
    <3> QED BY <2>3, <3>1, CanonicalBodyParts
  <2>5. g = [v \in JsonValues[n + 1] |-> CanonicalBody(g, v)]
    BY <2>4
  <2> HIDE DEF g
  <2> QED BY <2>5
<1> HIDE DEF P
<1>3. Nat \subseteq P
  BY <1>1, <1>2, FromZero
<1> QED BY <1>0, <1>3 DEF P

\* So Canonical satisfies it.
LEMMA CanonicalUnfold ==
    Canonical = [v \in Value |-> CanonicalBody(Canonical, v)]
<1>1. MaxDepth + 1 \in 0..(MaxDepth + 1)
  BY JsonAssumption
<1>2. \E h : h = [v \in Value |-> CanonicalBody(h, v)]
  BY <1>1, CanonicalExists DEF Value
<1>3. Canonical = CHOOSE h : h = [v \in Value |-> CanonicalBody(h, v)]
  BY Zenon DEF Canonical, CanonicalBody
<1> QED BY <1>2, <1>3, Zenon

SortedBody(h, v) ==
    CASE v[1] = "array" -> <<"array", [i \in DOMAIN v[2] |-> h[v[2][i]]]>>
      [] v[1] = "object" ->
            LET members == SortMembers(v[2])
            IN <<"object", [i \in DOMAIN members |-> <<members[i][1], h[members[i][2]]>>]>>
      [] OTHER -> v

\* SortedBody looks at h only where the parts of v are.
LEMMA SortedBodyParts ==
    ASSUME NEW S, NEW g, NEW h, \A w \in S : g[w] = h[w], NEW v, BuiltFrom(v, S)
    PROVE  SortedBody(g, v) = SortedBody(h, v)
<1>1. CASE v \in {<<"literal">>, <<"number", "0">>, <<"number", "1">>}
  <2>1. CASE v[1] = "literal"
    BY <2>1, Zenon DEF SortedBody
  <2>2. CASE v[1] = "number"
    BY <2>2, Zenon DEF SortedBody
  <2> QED BY <1>1, <2>1, <2>2
<1>2. CASE \E s \in ValidStrings : v = <<"string", s>>
  BY <1>2 DEF SortedBody
<1>3. ASSUME NEW items \in Seq(S), v = <<"array", items>>
      PROVE  SortedBody(g, v) = SortedBody(h, v)
  <2>1. [i \in DOMAIN items |-> g[items[i]]] = [i \in DOMAIN items |-> h[items[i]]]
    BY ArrayItems
  <2> QED BY <1>3, <2>1 DEF SortedBody
<1>4. ASSUME NEW members \in MemberLists(S), v = <<"object", members>>
      PROVE  SortedBody(g, v) = SortedBody(h, v)
  <2>5. v[1] = "object" /\ v[2] = members
    BY <1>4
  <2>6. SortedBody(g, v) = SortedBody(h, v)
    <3>1. \A i \in DOMAIN SortMembers(members) : SortMembers(members)[i][2] \in S
      BY SortLists, MemberNames
    <3>2. \A i \in DOMAIN SortMembers(members) :
              g[SortMembers(members)[i][2]] = h[SortMembers(members)[i][2]]
      BY <3>1
    <3> QED BY <2>5, <3>2 DEF SortedBody
  <2> QED BY <2>6
<1> QED BY <1>1, <1>2, <1>3, <1>4 DEF BuiltFrom

LEMMA SortedExists ==
    ASSUME NEW N \in 0..(MaxDepth + 1)
    PROVE  \E h : h = [v \in JsonValues[N] |-> SortedBody(h, v)]
<1> DEFINE P == {n \in Nat : n <= MaxDepth + 1 =>
               \E h : h = [v \in JsonValues[n] |-> SortedBody(h, v)]}
<1>0. MaxDepth \in Nat
  BY JsonAssumption
<1>1. 0 \in P
  <2> DEFINE h == [v \in {} |-> {}]
  <2>1. h = [v \in JsonValues[0] |-> SortedBody(h, v)]
    BY Levels
  <2> QED BY <2>1
<1>2. ASSUME NEW n \in Nat, n \in P
      PROVE  n + 1 \in P
  <2> SUFFICES ASSUME n + 1 <= MaxDepth + 1
               PROVE  \E h : h = [v \in JsonValues[n + 1] |-> SortedBody(h, v)]
    BY <1>0
  <2>1. n \in 0..MaxDepth
    BY <1>0
  <2>2. PICK h : h = [v \in JsonValues[n] |-> SortedBody(h, v)]
    BY <1>0, <1>2
  <2> DEFINE g == [v \in JsonValues[n + 1] |-> SortedBody(h, v)]
  <2>3. \A w \in JsonValues[n] : g[w] = h[w]
    <3>1. \A w \in JsonValues[n] : h[w] = SortedBody(h, w)
      BY <2>2
    <3>2. JsonValues[n] \subseteq JsonValues[n + 1]
      BY <2>1, LevelsGrow
    <3> QED BY <3>1, <3>2
  <2>4. ASSUME NEW v \in JsonValues[n + 1]
        PROVE  SortedBody(g, v) = SortedBody(h, v)
    <3>1. BuiltFrom(v, JsonValues[n])
      BY <2>1, Levels
    <3> HIDE DEF g
    <3> QED BY <2>3, <3>1, SortedBodyParts
  <2>5. g = [v \in JsonValues[n + 1] |-> SortedBody(g, v)]
    BY <2>4
  <2> HIDE DEF g
  <2> QED BY <2>5
<1> HIDE DEF P
<1>3. Nat \subseteq P
  BY <1>1, <1>2, FromZero
<1> QED BY <1>0, <1>3 DEF P

\* The same of Sorted.
LEMMA SortedUnfold ==
    Sorted = [v \in Value |-> SortedBody(Sorted, v)]
<1>1. MaxDepth + 1 \in 0..(MaxDepth + 1)
  BY JsonAssumption
<1>2. \E h : h = [v \in Value |-> SortedBody(h, v)]
  BY <1>1, SortedExists DEF Value
<1>3. Sorted = CHOOSE h : h = [v \in Value |-> SortedBody(h, v)]
  BY Zenon DEF Sorted, SortedBody
<1> QED BY <1>2, <1>3, Zenon

ReorderedBody(h, v) ==
    CASE v[1] = "array" -> <<"array", [i \in DOMAIN v[2] |-> h[v[2][i]]]>>
      [] v[1] = "object" ->
            <<"object", Reverse([i \in DOMAIN v[2] |-> <<v[2][i][1], h[v[2][i][2]]>>])>>
      [] OTHER -> v

\* ReorderedBody looks at h only where the parts of v are.
LEMMA ReorderedBodyParts ==
    ASSUME NEW S, NEW g, NEW h, \A w \in S : g[w] = h[w], NEW v, BuiltFrom(v, S)
    PROVE  ReorderedBody(g, v) = ReorderedBody(h, v)
<1>1. CASE v \in {<<"literal">>, <<"number", "0">>, <<"number", "1">>}
  <2>1. CASE v[1] = "literal"
    BY <2>1, Zenon DEF ReorderedBody
  <2>2. CASE v[1] = "number"
    BY <2>2, Zenon DEF ReorderedBody
  <2> QED BY <1>1, <2>1, <2>2
<1>2. CASE \E s \in ValidStrings : v = <<"string", s>>
  BY <1>2 DEF ReorderedBody
<1>3. ASSUME NEW items \in Seq(S), v = <<"array", items>>
      PROVE  ReorderedBody(g, v) = ReorderedBody(h, v)
  <2>1. [i \in DOMAIN items |-> g[items[i]]] = [i \in DOMAIN items |-> h[items[i]]]
    BY ArrayItems
  <2> QED BY <1>3, <2>1 DEF ReorderedBody
<1>4. ASSUME NEW members \in MemberLists(S), v = <<"object", members>>
      PROVE  ReorderedBody(g, v) = ReorderedBody(h, v)
  <2>5. v[1] = "object" /\ v[2] = members
    BY <1>4
  <2>6. ReorderedBody(g, v) = ReorderedBody(h, v)
    <3>1. \A i \in DOMAIN members : g[members[i][2]] = h[members[i][2]]
      BY MemberNames
    <3>2. [i \in DOMAIN members |-> <<members[i][1], g[members[i][2]]>>]
            = [i \in DOMAIN members |-> <<members[i][1], h[members[i][2]]>>]
      BY <3>1
    <3> QED BY <2>5, <3>2 DEF ReorderedBody
  <2> QED BY <2>6
<1> QED BY <1>1, <1>2, <1>3, <1>4 DEF BuiltFrom

LEMMA ReorderedExists ==
    ASSUME NEW N \in 0..(MaxDepth + 1)
    PROVE  \E h : h = [v \in JsonValues[N] |-> ReorderedBody(h, v)]
<1> DEFINE P == {n \in Nat : n <= MaxDepth + 1 =>
               \E h : h = [v \in JsonValues[n] |-> ReorderedBody(h, v)]}
<1>0. MaxDepth \in Nat
  BY JsonAssumption
<1>1. 0 \in P
  <2> DEFINE h == [v \in {} |-> {}]
  <2>1. h = [v \in JsonValues[0] |-> ReorderedBody(h, v)]
    BY Levels
  <2> QED BY <2>1
<1>2. ASSUME NEW n \in Nat, n \in P
      PROVE  n + 1 \in P
  <2> SUFFICES ASSUME n + 1 <= MaxDepth + 1
               PROVE  \E h : h = [v \in JsonValues[n + 1] |-> ReorderedBody(h, v)]
    BY <1>0
  <2>1. n \in 0..MaxDepth
    BY <1>0
  <2>2. PICK h : h = [v \in JsonValues[n] |-> ReorderedBody(h, v)]
    BY <1>0, <1>2
  <2> DEFINE g == [v \in JsonValues[n + 1] |-> ReorderedBody(h, v)]
  <2>3. \A w \in JsonValues[n] : g[w] = h[w]
    <3>1. \A w \in JsonValues[n] : h[w] = ReorderedBody(h, w)
      BY <2>2
    <3>2. JsonValues[n] \subseteq JsonValues[n + 1]
      BY <2>1, LevelsGrow
    <3> QED BY <3>1, <3>2
  <2>4. ASSUME NEW v \in JsonValues[n + 1]
        PROVE  ReorderedBody(g, v) = ReorderedBody(h, v)
    <3>1. BuiltFrom(v, JsonValues[n])
      BY <2>1, Levels
    <3> HIDE DEF g
    <3> QED BY <2>3, <3>1, ReorderedBodyParts
  <2>5. g = [v \in JsonValues[n + 1] |-> ReorderedBody(g, v)]
    BY <2>4
  <2> HIDE DEF g
  <2> QED BY <2>5
<1> HIDE DEF P
<1>3. Nat \subseteq P
  BY <1>1, <1>2, FromZero
<1> QED BY <1>0, <1>3 DEF P

\* The same of Reordered.
LEMMA ReorderedUnfold ==
    Reordered = [v \in Value |-> ReorderedBody(Reordered, v)]
<1>1. MaxDepth + 1 \in 0..(MaxDepth + 1)
  BY JsonAssumption
<1>2. \E h : h = [v \in Value |-> ReorderedBody(h, v)]
  BY <1>1, ReorderedExists DEF Value
<1>3. Reordered = CHOOSE h : h = [v \in Value |-> ReorderedBody(h, v)]
  BY Zenon DEF Reordered, ReorderedBody
<1> QED BY <1>2, <1>3, Zenon

-----------------------------------------------------------------------------
(* Texts: the parser along one, and the texts that canonicalize joins.     *)

\* The parser after i symbols of a text, from its states before.
RunBody(h, p, text, i) == IF i = 0 THEN p ELSE Step(h[i - 1], text[i])

HasRun(p, text, N) == \E h : h = [i \in 0..N |-> RunBody(h, p, text, i)]

LEMMA RunExists ==
    ASSUME NEW p, NEW text, NEW N \in Nat
    PROVE  HasRun(p, text, N)
<1> DEFINE P == {m \in Nat : \E h : h = [i \in 0..m |-> RunBody(h, p, text, i)]}
<1>1. 0 \in P
  <2> DEFINE h == [i \in 0..0 |-> p]
  <2>1. \A i \in 0..0 : RunBody(h, p, text, i) = p
    BY DEF RunBody
  <2>2. h = [i \in 0..0 |-> RunBody(h, p, text, i)]
    BY <2>1
  <2> QED BY <2>2
<1>2. ASSUME NEW m \in Nat, m \in P
      PROVE  m + 1 \in P
  <2>1. PICK h : h = [i \in 0..m |-> RunBody(h, p, text, i)]
    BY <1>2
  <2> DEFINE g == [i \in 0..(m + 1) |-> RunBody(h, p, text, i)]
  <2>2. \A i \in 0..m : g[i] = h[i]
    <3>1. \A i \in 0..m : h[i] = RunBody(h, p, text, i)
      BY <2>1
    <3> QED BY <3>1
  <2>3. \A i \in 0..(m + 1) : RunBody(g, p, text, i) = RunBody(h, p, text, i)
    <3> SUFFICES ASSUME NEW i \in 0..(m + 1), i # 0
                 PROVE  RunBody(g, p, text, i) = RunBody(h, p, text, i)
      BY DEF RunBody
    <3>1. i - 1 \in 0..m
      OBVIOUS
    <3>2. g[i - 1] = h[i - 1]
      BY <2>2, <3>1
    <3> HIDE DEF g
    <3> QED BY <3>2 DEF RunBody
  <2>4. g = [i \in 0..(m + 1) |-> RunBody(g, p, text, i)]
    BY <2>3
  <2> HIDE DEF g
  <2> QED BY <2>4
<1> HIDE DEF P
<1>3. Nat \subseteq P
  BY <1>1, <1>2, FromZero
<1> QED BY <1>3 DEF P, HasRun

\* The states of the parser along a text.
LEMMA RunStates ==
    ASSUME NEW p, NEW text, Len(text) \in Nat
    PROVE  \E h : /\ h[0] = p
                  /\ \A i \in 1..Len(text) : h[i] = Step(h[i - 1], text[i])
                  /\ Run(p, text) = h[Len(text)]
<1> DEFINE N == Len(text)
           state == CHOOSE h : h = [i \in 0..N |-> RunBody(h, p, text, i)]
<1>1. Run(p, text) = state[N]
  BY Zenon DEF Run, RunBody
<1>2. state = [i \in 0..N |-> RunBody(state, p, text, i)]
  <2>1. HasRun(p, text, N)
    BY RunExists
  <2>2. \E h : h = [i \in 0..N |-> RunBody(h, p, text, i)]
    BY <2>1, Zenon DEF HasRun
  <2> QED BY <2>2, Zenon
<1> HIDE DEF state
<1>3. \A i \in 0..N : state[i] = RunBody(state, p, text, i)
  BY <1>2
<1>4. state[0] = p
  <2>1. state[0] = RunBody(state, p, text, 0)
    BY <1>3
  <2> QED BY <2>1 DEF RunBody
<1>5. \A i \in 1..N : state[i] = Step(state[i - 1], text[i])
  <2> SUFFICES ASSUME NEW i \in 1..N
               PROVE  state[i] = Step(state[i - 1], text[i])
    OBVIOUS
  <2>1. i # 0 /\ state[i] = RunBody(state, p, text, i)
    BY <1>3
  <2> QED BY <2>1 DEF RunBody
<1> QED BY <1>1, <1>4, <1>5

\* There is one such sequence of states.
LEMMA RunIs ==
    ASSUME NEW p, NEW text, Len(text) \in Nat, NEW f, f[0] = p,
           \A i \in 1..Len(text) : f[i] = Step(f[i - 1], text[i])
    PROVE  Run(p, text) = f[Len(text)]
<1>1. PICK h : /\ h[0] = p
               /\ \A i \in 1..Len(text) : h[i] = Step(h[i - 1], text[i])
               /\ Run(p, text) = h[Len(text)]
  BY RunStates
<1> DEFINE P == {m \in Nat : m <= Len(text) => h[m] = f[m]}
<1>2. 0 \in P
  BY <1>1
<1>3. ASSUME NEW m \in Nat, m \in P
      PROVE  m + 1 \in P
  <2> SUFFICES ASSUME m + 1 <= Len(text)
               PROVE  h[m + 1] = f[m + 1]
    OBVIOUS
  <2>1. m + 1 \in 1..Len(text) /\ m + 1 - 1 = m /\ h[m] = f[m]
    BY <1>3
  <2>2. h[m + 1] = Step(h[m], text[m + 1]) /\ f[m + 1] = Step(f[m], text[m + 1])
    BY <1>1, <2>1
  <2> QED BY <2>1, <2>2
<1> HIDE DEF P
<1>4. Nat \subseteq P
  BY <1>2, <1>3, FromZero
<1> QED BY <1>1, <1>4 DEF P

LEMMA RunEmpty ==
    ASSUME NEW p
    PROVE  Run(p, <<>>) = p
<1>1. Len(<<>>) = 0
  OBVIOUS
<1> QED BY <1>1, RunStates

LEMMA RunOne ==
    ASSUME NEW p, NEW c
    PROVE  Run(p, <<c>>) = Step(p, c)
<1>1. Len(<<c>>) = 1 /\ <<c>>[1] = c
  OBVIOUS
<1>2. 1 \in 1..1 /\ 1 - 1 = 0
  OBVIOUS
<1>3. PICK h : /\ h[0] = p
               /\ \A i \in 1..Len(<<c>>) : h[i] = Step(h[i - 1], <<c>>[i])
               /\ Run(p, <<c>>) = h[Len(<<c>>)]
  BY <1>1, RunStates
<1> QED BY <1>1, <1>2, <1>3

Texts == Seq(Symbols)

\* A text can be read in two parts.
LEMMA RunConcat ==
    ASSUME NEW p, NEW s \in Texts, NEW t \in Texts
    PROVE  Run(p, s \o t) = Run(Run(p, s), t)
<1> USE DEF Texts
<1>0. Len(s) \in Nat /\ Len(t) \in Nat
  OBVIOUS
<1>1. PICK h : /\ h[0] = p
               /\ \A i \in 1..Len(s) : h[i] = Step(h[i - 1], s[i])
               /\ Run(p, s) = h[Len(s)]
  BY <1>0, RunStates
<1>2. PICK k : /\ k[0] = Run(p, s)
               /\ \A i \in 1..Len(t) : k[i] = Step(k[i - 1], t[i])
               /\ Run(Run(p, s), t) = k[Len(t)]
  BY <1>0, RunStates
<1> DEFINE u == s \o t
           f == [i \in 0..(Len(s) + Len(t)) |-> IF i <= Len(s) THEN h[i] ELSE k[i - Len(s)]]
<1>3. /\ Len(u) = Len(s) + Len(t) /\ Len(u) \in Nat
      /\ \A i \in 1..Len(s) : u[i] = s[i]
      /\ \A i \in (Len(s) + 1)..Len(u) : u[i] = t[i - Len(s)]
  BY <1>0
<1> HIDE DEF u
<1>4. \A i \in 0..Len(s) : f[i] = h[i]
  BY <1>0
<1>5. \A i \in 0..Len(t) : f[Len(s) + i] = k[i]
  <2> SUFFICES ASSUME NEW i \in 0..Len(t)
               PROVE  f[Len(s) + i] = k[i]
    OBVIOUS
  <2>1. Len(s) + i \in 0..(Len(s) + Len(t)) /\ Len(s) + i - Len(s) = i
    BY <1>0
  <2>2. CASE i = 0
    BY <1>0, <1>1, <1>2, <2>2
  <2>3. CASE i # 0
    <3>1. ~(Len(s) + i <= Len(s))
      BY <1>0, <2>3
    <3> QED BY <2>1, <3>1
  <2> QED BY <2>2, <2>3
<1> HIDE DEF f
<1>6. \A i \in 1..Len(u) : f[i] = Step(f[i - 1], u[i])
  <2> SUFFICES ASSUME NEW i \in 1..Len(u)
               PROVE  f[i] = Step(f[i - 1], u[i])
    OBVIOUS
  <2>1. CASE i <= Len(s)
    <3>1. i \in 1..Len(s) /\ i \in 0..Len(s) /\ i - 1 \in 0..Len(s)
      BY <1>0, <2>1
    <3> QED BY <1>1, <1>3, <1>4, <3>1
  <2>2. CASE i > Len(s)
    <3>1. i - Len(s) \in 1..Len(t) /\ i - Len(s) \in 0..Len(t) /\ i - Len(s) - 1 \in 0..Len(t)
      BY <1>0, <1>3, <2>2
    <3>2. Len(s) + (i - Len(s)) = i /\ Len(s) + (i - Len(s) - 1) = i - 1
      BY <1>0
    <3>3. f[i] = k[i - Len(s)] /\ f[i - 1] = k[i - Len(s) - 1]
      BY <1>5, <3>1, <3>2
    <3>4. u[i] = t[i - Len(s)]
      BY <1>0, <1>3, <2>2
    <3> QED BY <1>2, <3>1, <3>3, <3>4
  <2> QED BY <1>0, <1>3, <2>1, <2>2
<1>7. f[0] = p
  BY <1>0, <1>1, <1>4
<1>8. Run(p, u) = f[Len(u)]
  BY <1>3, <1>6, <1>7, RunIs
<1>9. f[Len(u)] = k[Len(t)]
  <2>1. Len(t) \in 0..Len(t)
    BY <1>0
  <2> QED BY <1>3, <1>5, <2>1
<1> QED BY <1>2, <1>8, <1>9 DEF u

\* Parse is where the run over the text and its end leads.
LEMMA ParseIs ==
    ASSUME NEW text \in Texts
    PROVE  Parse(text) = Step(Run(Start, text), "eof")
<1>1. Append(text, "eof") = text \o <<"eof">>
  BY DEF Texts
<1>2. <<"eof">> \in Texts
  <2>1. "eof" \in Symbols
    BY Zenon DEF Symbols
  <2> QED BY <2>1 DEF Texts
<1>3. Run(Start, text \o <<"eof">>) = Run(Run(Start, text), <<"eof">>)
  BY <1>2, RunConcat
<1> QED BY <1>1, <1>3, RunOne DEF Parse
JoinBody(h, texts, c, i) ==
    CASE i = 0 -> <<>>
      [] i = 1 -> texts[1]
      [] OTHER -> h[i - 1] \o <<c>> \o texts[i]

HasJoin(texts, c, N) == \E h : h = [i \in 0..N |-> JoinBody(h, texts, c, i)]

LEMMA JoinCases ==
    ASSUME NEW h, NEW texts, NEW c
    PROVE  /\ JoinBody(h, texts, c, 0) = <<>>
           /\ JoinBody(h, texts, c, 1) = texts[1]
           /\ \A i \in Nat : i > 1 => JoinBody(h, texts, c, i) = h[i - 1] \o <<c>> \o texts[i]
<1>1. JoinBody(h, texts, c, 0) = <<>>
  BY DEF JoinBody
<1>2. JoinBody(h, texts, c, 1) = texts[1]
  BY DEF JoinBody
<1>3. ASSUME NEW i \in Nat, i > 1
      PROVE  JoinBody(h, texts, c, i) = h[i - 1] \o <<c>> \o texts[i]
  <2>1. i # 0 /\ i # 1
    BY <1>3
  <2> QED BY <2>1 DEF JoinBody
<1> QED BY <1>1, <1>2, <1>3

LEMMA JoinLater ==
    ASSUME NEW h, NEW texts, NEW c, NEW i \in Nat, i > 1
    PROVE  JoinBody(h, texts, c, i) = h[i - 1] \o <<c>> \o texts[i]
BY JoinCases

LEMMA JoinExists ==
    ASSUME NEW texts, NEW c, NEW N \in Nat
    PROVE  HasJoin(texts, c, N)
<1> DEFINE P == {m \in Nat : \E h : h = [i \in 0..m |-> JoinBody(h, texts, c, i)]}
<1>1. 0 \in P
  <2> DEFINE h == [i \in 0..0 |-> <<>>]
  <2>1. \A i \in 0..0 : JoinBody(h, texts, c, i) = <<>>
    BY DEF JoinBody
  <2>2. h = [i \in 0..0 |-> JoinBody(h, texts, c, i)]
    BY <2>1
  <2> QED BY <2>2
<1>2. ASSUME NEW m \in Nat, m \in P
      PROVE  m + 1 \in P
  <2>1. PICK h : h = [i \in 0..m |-> JoinBody(h, texts, c, i)]
    BY <1>2
  <2> DEFINE g == [i \in 0..(m + 1) |-> JoinBody(h, texts, c, i)]
  <2>2. \A i \in 0..m : g[i] = h[i]
    <3>1. \A i \in 0..m : h[i] = JoinBody(h, texts, c, i)
      BY <2>1
    <3> QED BY <3>1
  <2>3. \A i \in 0..(m + 1) : JoinBody(g, texts, c, i) = JoinBody(h, texts, c, i)
    <3> HIDE DEF g
    <3>1. ASSUME NEW i \in 0..(m + 1), i > 1
          PROVE  JoinBody(g, texts, c, i) = JoinBody(h, texts, c, i)
      <4>1. i - 1 \in 0..m
        BY <3>1
      <4>2. g[i - 1] = h[i - 1]
        BY <2>2, <4>1
      <4>3. /\ JoinBody(g, texts, c, i) = g[i - 1] \o <<c>> \o texts[i]
            /\ JoinBody(h, texts, c, i) = h[i - 1] \o <<c>> \o texts[i]
        <5>1. i \in Nat
          OBVIOUS
        <5>2. JoinBody(g, texts, c, i) = g[i - 1] \o <<c>> \o texts[i]
          BY <3>1, <5>1, JoinLater
        <5>3. JoinBody(h, texts, c, i) = h[i - 1] \o <<c>> \o texts[i]
          BY <3>1, <5>1, JoinLater
        <5> QED BY <5>2, <5>3
      <4> QED BY <4>2, <4>3
    <3>2. /\ JoinBody(g, texts, c, 0) = JoinBody(h, texts, c, 0)
          /\ JoinBody(g, texts, c, 1) = JoinBody(h, texts, c, 1)
      <4>1. \A k : JoinBody(k, texts, c, 0) = <<>> /\ JoinBody(k, texts, c, 1) = texts[1]
        BY JoinCases
      <4> QED BY <4>1
    <3>3. \A i \in 0..(m + 1) : i > 1 \/ i = 0 \/ i = 1
      OBVIOUS
    <3> QED BY <3>1, <3>2, <3>3, Zenon
  <2>4. g = [i \in 0..(m + 1) |-> JoinBody(g, texts, c, i)]
    BY <2>3
  <2> HIDE DEF g
  <2> QED BY <2>4
<1> HIDE DEF P
<1>3. Nat \subseteq P
  BY <1>1, <1>2, FromZero
<1> QED BY <1>3 DEF P, HasJoin

\* Separated, for a list of n texts: the last follows a comma and the others.
LEMMA Joined ==
    ASSUME NEW texts, Len(texts) \in Nat
    PROVE  \E h : /\ h[0] = <<>>
                  /\ Len(texts) > 0 => h[1] = texts[1]
                  /\ \A i \in 1..(Len(texts) - 1) : h[i + 1] = h[i] \o <<",">> \o texts[i + 1]
                  /\ Separated(texts) = h[Len(texts)]
<1> DEFINE N == Len(texts)
           joined == CHOOSE h : h = [i \in 0..N |-> JoinBody(h, texts, ",", i)]
<1>1. Separated(texts) = joined[N]
  BY Zenon DEF Separated, JoinBody
<1>2. joined = [i \in 0..N |-> JoinBody(joined, texts, ",", i)]
  <2>1. \A c : HasJoin(texts, c, N)
    BY JoinExists
  <2>2. \E h : h = [i \in 0..N |-> JoinBody(h, texts, ",", i)]
    BY <2>1, Zenon DEF HasJoin
  <2> QED BY <2>2, Zenon
<1> HIDE DEF joined
<1>3. \A i \in 0..N : joined[i] = JoinBody(joined, texts, ",", i)
  BY <1>2, Zenon
<1>4. \A c : /\ JoinBody(joined, texts, c, 0) = <<>>
             /\ JoinBody(joined, texts, c, 1) = texts[1]
             /\ \A i \in 1..(N - 1) :
                   JoinBody(joined, texts, c, i + 1) = joined[i] \o <<c>> \o texts[i + 1]
  <2>1. \A i \in 1..(N - 1) : i + 1 \in Nat /\ i + 1 > 1 /\ i + 1 - 1 = i
    OBVIOUS
  <2>2. \A c : /\ JoinBody(joined, texts, c, 0) = <<>>
               /\ JoinBody(joined, texts, c, 1) = texts[1]
               /\ \A i \in Nat : i > 1 =>
                     JoinBody(joined, texts, c, i) = joined[i - 1] \o <<c>> \o texts[i]
    BY JoinCases, Zenon
  <2>3. ASSUME NEW c, NEW i \in 1..(N - 1)
        PROVE  JoinBody(joined, texts, c, i + 1) = joined[i] \o <<c>> \o texts[i + 1]
    <3> DEFINE j == i + 1
    <3>1. j \in Nat /\ j > 1 /\ j - 1 = i
      BY <2>1
    <3> HIDE DEF j
    <3>2. JoinBody(joined, texts, c, j) = joined[i] \o <<c>> \o texts[j]
      BY <2>2, <3>1, Zenon
    <3> QED BY <3>2, Zenon DEF j
  <2> QED BY <2>2, <2>3, Zenon
<1>5. 0 \in 0..N /\ (N > 0 => 1 \in 0..N) /\ \A i \in 1..(N - 1) : i + 1 \in 0..N
  OBVIOUS
<1>6. /\ joined[0] = <<>>
      /\ N > 0 => joined[1] = texts[1]
      /\ \A i \in 1..(N - 1) : joined[i + 1] = joined[i] \o <<",">> \o texts[i + 1]
  BY <1>3, <1>4, <1>5, Zenon
<1> QED BY <1>1, <1>6, Zenon

-----------------------------------------------------------------------------
(* What canonicalize makes of each kind of value.                          *)

\* What holds of a value whenever it holds of its parts holds of every value.
LEMMA ValueInduction ==
    ASSUME NEW C,
           \A v \in Value : \A S \in SUBSET (C \cap Value) : BuiltFrom(v, S) => v \in C
    PROVE  Value \subseteq C
<1> DEFINE P == {n \in Nat : n <= MaxDepth + 1 => JsonValues[n] \subseteq C}
<1>0. MaxDepth \in Nat
  BY JsonAssumption
<1>1. 0 \in P
  BY Levels
<1>2. ASSUME NEW n \in Nat, n \in P
      PROVE  n + 1 \in P
  <2> SUFFICES ASSUME n + 1 <= MaxDepth + 1, NEW v \in JsonValues[n + 1]
               PROVE  v \in C
    BY <1>0
  <2>1. n \in 0..MaxDepth /\ n \in 0..(MaxDepth + 1) /\ n + 1 \in 0..(MaxDepth + 1)
        /\ JsonValues[n] \subseteq C
    BY <1>0, <1>2
  <2>2. BuiltFrom(v, JsonValues[n])
    BY <2>1, Levels
  <2>3. v \in Value /\ JsonValues[n] \in SUBSET (C \cap Value)
    BY <2>1, LevelsInValue
  <2> QED BY <2>2, <2>3
<1> HIDE DEF P
<1>3. Nat \subseteq P
  BY <1>1, <1>2, FromZero
<1>4. JsonValues[MaxDepth + 1] \subseteq C
  BY <1>0, <1>3 DEF P
<1> QED BY <1>4 DEF Value

LEMMA Unfolded ==
    ASSUME NEW v \in Value
    PROVE  /\ Canonical[v] = CanonicalBody(Canonical, v)
           /\ Sorted[v] = SortedBody(Sorted, v)
           /\ Reordered[v] = ReorderedBody(Reordered, v)
BY CanonicalUnfold, SortedUnfold, ReorderedUnfold, Zenon

\* Values without parts.
LEMMA LeafForms ==
    /\ \A v \in Value : v = <<"literal">> =>
          Canonical[v] = <<"keyword">> /\ Sorted[v] = v /\ Reordered[v] = v
    /\ \A v \in Value : \A x : v = <<"number", x>> =>
          Canonical[v] = <<x>> /\ Sorted[v] = v /\ Reordered[v] = v
    /\ \A v \in Value : \A s : v = <<"string", s>> =>
          Canonical[v] = StringText(s) /\ Sorted[v] = v /\ Reordered[v] = v
<1>1. ASSUME NEW v \in Value, v = <<"literal">>
      PROVE  Canonical[v] = <<"keyword">> /\ Sorted[v] = v /\ Reordered[v] = v
  <2>1. v[1] = "literal"
    BY <1>1
  <2>2. CanonicalBody(Canonical, v) = <<"keyword">>
    BY <2>1, Zenon DEF CanonicalBody
  <2>3. SortedBody(Sorted, v) = v /\ ReorderedBody(Reordered, v) = v
    BY <2>1 DEF SortedBody, ReorderedBody
  <2> QED BY <2>2, <2>3, Unfolded
<1>2. ASSUME NEW v \in Value, NEW x, v = <<"number", x>>
      PROVE  Canonical[v] = <<x>> /\ Sorted[v] = v /\ Reordered[v] = v
  <2>1. v[1] = "number" /\ v[2] = x
    BY <1>2
  <2>2. CanonicalBody(Canonical, v) = <<v[2]>>
    BY <2>1, Zenon DEF CanonicalBody
  <2>3. SortedBody(Sorted, v) = v /\ ReorderedBody(Reordered, v) = v
    BY <2>1 DEF SortedBody, ReorderedBody
  <2> QED BY <2>1, <2>2, <2>3, Unfolded
<1>3. ASSUME NEW v \in Value, NEW s, v = <<"string", s>>
      PROVE  Canonical[v] = StringText(s) /\ Sorted[v] = v /\ Reordered[v] = v
  <2>1. v[1] = "string" /\ v[2] = s
    BY <1>3
  <2>2. CanonicalBody(Canonical, v) = StringText(v[2])
    BY <2>1, Zenon DEF CanonicalBody
  <2>3. SortedBody(Sorted, v) = v /\ ReorderedBody(Reordered, v) = v
    BY <2>1 DEF SortedBody, ReorderedBody
  <2> QED BY <2>1, <2>2, <2>3, Unfolded
<1> QED BY <1>1, <1>2, <1>3

\* The texts of the items of an array and of the members of an object.
ItemTexts(items) == [i \in DOMAIN items |-> Canonical[items[i]]]
MemberTexts(members) ==
    [i \in DOMAIN members |-> StringText(members[i][1]) \o <<":">> \o Canonical[members[i][2]]]
SortedItems(items) == [i \in DOMAIN items |-> Sorted[items[i]]]
SortedMembers(members) == [i \in DOMAIN members |-> <<members[i][1], Sorted[members[i][2]]>>]
ReorderedItems(items) == [i \in DOMAIN items |-> Reordered[items[i]]]
ReorderedMembers(members) ==
    Reverse([i \in DOMAIN members |-> <<members[i][1], Reordered[members[i][2]]>>])

\* Arrays.
LEMMA ArrayForms ==
    ASSUME NEW items, <<"array", items>> \in Value
    PROVE  /\ Canonical[<<"array", items>>] = <<"[">> \o Separated(ItemTexts(items)) \o <<"]">>
           /\ Sorted[<<"array", items>>] = <<"array", SortedItems(items)>>
           /\ Reordered[<<"array", items>>] = <<"array", ReorderedItems(items)>>
<1> DEFINE v == <<"array", items>>
<1>1. v[1] = "array" /\ v[2] = items
  OBVIOUS
<1> HIDE DEF v
<1>2. CanonicalBody(Canonical, v) = <<"[">> \o Separated(ItemTexts(v[2])) \o <<"]">>
  BY <1>1, Zenon DEF CanonicalBody, ItemTexts
<1>3. /\ SortedBody(Sorted, v) = <<"array", SortedItems(v[2])>>
      /\ ReorderedBody(Reordered, v) = <<"array", ReorderedItems(v[2])>>
  BY <1>1, Zenon DEF SortedBody, ReorderedBody, SortedItems, ReorderedItems
<1>4. v \in Value
  BY DEF v
<1>5. /\ Canonical[v] = <<"[">> \o Separated(ItemTexts(v[2])) \o <<"]">>
      /\ Sorted[v] = <<"array", SortedItems(v[2])>>
      /\ Reordered[v] = <<"array", ReorderedItems(v[2])>>
  BY <1>2, <1>3, <1>4, Unfolded, Zenon
<1> QED BY <1>1, <1>5, Zenon DEF v

\* Objects.
LEMMA ObjectForms ==
    ASSUME NEW members, <<"object", members>> \in Value
    PROVE  /\ Canonical[<<"object", members>>]
                = <<"{">> \o Separated(MemberTexts(SortMembers(members))) \o <<"}">>
           /\ Sorted[<<"object", members>>] = <<"object", SortedMembers(SortMembers(members))>>
           /\ Reordered[<<"object", members>>] = <<"object", ReorderedMembers(members)>>
<1> DEFINE v == <<"object", members>>
<1>1. v[1] = "object" /\ v[2] = members
  OBVIOUS
<1> HIDE DEF v
<1>2. CanonicalBody(Canonical, v)
        = <<"{">> \o Separated(MemberTexts(SortMembers(v[2]))) \o <<"}">>
  BY <1>1, Zenon DEF CanonicalBody, MemberTexts
<1>3. /\ SortedBody(Sorted, v) = <<"object", SortedMembers(SortMembers(v[2]))>>
      /\ ReorderedBody(Reordered, v) = <<"object", ReorderedMembers(v[2])>>
  BY <1>1, Zenon DEF SortedBody, ReorderedBody, SortedMembers, ReorderedMembers
<1>4. v \in Value
  BY DEF v
<1>5. /\ Canonical[v] = <<"{">> \o Separated(MemberTexts(SortMembers(v[2]))) \o <<"}">>
      /\ Sorted[v] = <<"object", SortedMembers(SortMembers(v[2]))>>
      /\ Reordered[v] = <<"object", ReorderedMembers(v[2])>>
  BY <1>2, <1>3, <1>4, Unfolded, Zenon
<1> QED BY <1>1, <1>5, Zenon DEF v
-----------------------------------------------------------------------------
\* Canonical texts consist of symbols.
LEMMA SymbolTypes ==
    /\ {"quote", "[", "]", ":", "keyword", "0", "1", "eof"} \subseteq Symbols
    /\ {"{", "}", ","} \subseteq Symbols
    /\ Units \subseteq Symbols
    /\ \A u \in Units : Escape[u] \in Symbols
<1>1. {"quote", "[", "]", ":", "keyword", "0", "1", "eof"} \subseteq Symbols
  BY Zenon DEF Symbols, Structural, NumberSymbols, Digits, Units
<1>2. {"{", "}", ","} \subseteq Symbols
  BY Zenon DEF Symbols, Structural
<1>3. Units \subseteq Symbols
  BY Zenon DEF Symbols
<1>4. \A u \in Units : Escape[u] \in Symbols
  BY Zenon DEF Symbols
<1> QED BY <1>1, <1>2, <1>3, <1>4, Zenon

LEMMA StringTexts ==
    ASSUME NEW s \in Seq(Units)
    PROVE  StringText(s) \in Texts
<1>1. \A u \in Units : UnitText(u) \in Symbols
  BY SymbolTypes DEF UnitText
<1>2. [i \in DOMAIN s |-> UnitText(s[i])] \in Seq(Symbols)
  <2>1. \A i \in DOMAIN s : UnitText(s[i]) \in Symbols
    BY <1>1
  <2>2. DOMAIN s = 1..Len(s) /\ Len(s) \in Nat
    OBVIOUS
  <2> QED BY <2>1, <2>2
<1>3. <<"quote">> \in Seq(Symbols)
  <2>1. "quote" \in Symbols
    BY SymbolTypes, Zenon
  <2> QED BY <2>1
<1> QED BY <1>2, <1>3 DEF StringText, Texts

LEMMA ConcatText ==
    ASSUME NEW s \in Texts, NEW t \in Texts
    PROVE  s \o t \in Texts
BY DEF Texts

LEMMA OneText ==
    ASSUME NEW c \in Symbols
    PROVE  <<c>> \in Texts
BY DEF Texts

LEMMA SeparatedText ==
    ASSUME NEW texts \in Seq(Texts)
    PROVE  Separated(texts) \in Texts
<1>0. Len(texts) \in Nat /\ \A i \in 1..Len(texts) : texts[i] \in Texts
  OBVIOUS
<1>1. PICK h : /\ h[0] = <<>>
               /\ Len(texts) > 0 => h[1] = texts[1]
               /\ \A i \in 1..(Len(texts) - 1) : h[i + 1] = h[i] \o <<",">> \o texts[i + 1]
               /\ Separated(texts) = h[Len(texts)]
  BY <1>0, Joined, Zenon
<1> DEFINE comma == <<",">>
<1>2. comma \in Texts
  <2>1. "," \in Symbols
    BY SymbolTypes, Zenon
  <2> QED BY <2>1, OneText, Zenon
<1>3. \A i \in 1..(Len(texts) - 1) : h[i + 1] = h[i] \o comma \o texts[i + 1]
  BY <1>1, Zenon
<1>4. h[0] = <<>> /\ (Len(texts) > 0 => h[1] = texts[1]) /\ Separated(texts) = h[Len(texts)]
  BY <1>1, Zenon
<1> HIDE DEF comma
<1> DEFINE P == {m \in Nat : m <= Len(texts) => h[m] \in Texts}
<1>5. 0 \in P
  <2>1. <<>> \in Texts
    BY DEF Texts
  <2> QED BY <1>4, <2>1
<1>6. ASSUME NEW m \in Nat, m \in P
      PROVE  m + 1 \in P
  <2> SUFFICES ASSUME m + 1 <= Len(texts)
               PROVE  h[m + 1] \in Texts
    OBVIOUS
  <2>1. CASE m = 0
    BY <1>0, <1>4, <2>1
  <2>2. CASE m # 0
    <3>1. m \in 1..(Len(texts) - 1) /\ m <= Len(texts) /\ m + 1 \in 1..Len(texts)
      BY <1>0, <2>2
    <3>2. h[m + 1] = h[m] \o comma \o texts[m + 1]
      BY <1>3, <3>1, Zenon
    <3>3. h[m] \in Texts /\ texts[m + 1] \in Texts
      BY <1>0, <1>6, <3>1
    <3>4. h[m] \o comma \in Texts
      BY <1>2, <3>3, ConcatText, Zenon
    <3> QED BY <3>2, <3>3, <3>4, ConcatText, Zenon
  <2> QED BY <2>1, <2>2
<1> HIDE DEF P
<1>7. Nat \subseteq P
  BY <1>5, <1>6, FromZero
<1> QED BY <1>0, <1>4, <1>7 DEF P

LEMMA CanonicalTexts == \A v \in Value : Canonical[v] \in Texts
<1> DEFINE C == {v \in Value : Canonical[v] \in Texts}
<1>1. ASSUME NEW v \in Value, NEW S \in SUBSET (C \cap Value), BuiltFrom(v, S)
      PROVE  v \in C
  <2>0. \A w \in S : Canonical[w] \in Texts
    OBVIOUS
  <2>1. CASE v \in {<<"literal">>, <<"number", "0">>, <<"number", "1">>}
    <3>1. Canonical[v] \in {<<"keyword">>, <<"0">>, <<"1">>}
      BY <2>1, LeafForms
    <3>2. "keyword" \in Symbols /\ "0" \in Symbols /\ "1" \in Symbols
      BY SymbolTypes, Zenon
    <3> QED BY <3>1, <3>2, OneText
  <2>2. CASE \E s \in ValidStrings : v = <<"string", s>>
    BY <2>2, LeafForms, StringTexts DEF ValidStrings
  <2>3. ASSUME NEW items \in Seq(S), v = <<"array", items>>
        PROVE  Canonical[v] \in Texts
    <3>1. Canonical[v] = <<"[">> \o Separated(ItemTexts(items)) \o <<"]">>
      BY <2>3, ArrayForms
    <3>2. ItemTexts(items) \in Seq(Texts)
      <4>1. \A i \in DOMAIN items : Canonical[items[i]] \in Texts
        BY <2>0, ArrayItems
      <4>2. DOMAIN items = 1..Len(items) /\ Len(items) \in Nat
        OBVIOUS
      <4> QED BY <4>1, <4>2 DEF ItemTexts
    <3>3. <<"[">> \in Texts /\ <<"]">> \in Texts
      BY SymbolTypes, OneText, Zenon
    <3> QED BY <3>1, <3>2, <3>3, SeparatedText, ConcatText, Zenon
  <2>4. ASSUME NEW members \in MemberLists(S), v = <<"object", members>>
        PROVE  Canonical[v] \in Texts
    <3> DEFINE sorted == SortMembers(members)
    <3>1. Canonical[v] = <<"{">> \o Separated(MemberTexts(sorted)) \o <<"}">>
      BY <2>4, ObjectForms, Zenon
    <3>2. sorted \in MemberLists(S)
      BY SortLists
    <3> HIDE DEF sorted
    <3>3. MemberTexts(sorted) \in Seq(Texts)
      <4>1. \A i \in DOMAIN sorted :
                StringText(sorted[i][1]) \o <<":">> \o Canonical[sorted[i][2]] \in Texts
        <5> SUFFICES ASSUME NEW i \in DOMAIN sorted
                     PROVE  StringText(sorted[i][1]) \o <<":">> \o Canonical[sorted[i][2]] \in Texts
          OBVIOUS
        <5>1. StringText(sorted[i][1]) \in Texts /\ Canonical[sorted[i][2]] \in Texts
          BY <2>0, <3>2, MemberNames, StringTexts
        <5>2. <<":">> \in Texts
          BY SymbolTypes, OneText, Zenon
        <5> QED BY <5>1, <5>2, ConcatText, Zenon
      <4>2. DOMAIN sorted = 1..Len(sorted) /\ Len(sorted) \in Nat
        BY <3>2, MemberNames
      <4> QED BY <4>1, <4>2 DEF MemberTexts
    <3>4. <<"{">> \in Texts /\ <<"}">> \in Texts
      BY SymbolTypes, OneText, Zenon
    <3> QED BY <3>1, <3>3, <3>4, SeparatedText, ConcatText, Zenon
  <2> QED BY <1>1, <2>1, <2>2, <2>3, <2>4 DEF BuiltFrom
<1> HIDE DEF C
<1>2. Value \subseteq C
  BY <1>1, ValueInduction
<1> QED BY <1>2 DEF C

-----------------------------------------------------------------------------
(* 3. The parser on a canonical text: single steps.                        *)

NoCode == ""

\* The parser in a string, or a number, of which it has read the units.
In(mode, stack, naming, units) ==
    [mode |-> mode, stack |-> stack, naming |-> naming, buffer |-> units,
     value |-> <<>>, code |-> NoCode]

\* The parser in a mode between tokens.
Off == FALSE
On == TRUE
At(mode, stack) == In(mode, stack, Off, <<>>)

Container(kind, items, key) == [kind |-> kind, items |-> items, key |-> key]

\* The value v has been read.
Result(stack, v) == Complete(At("value", stack), v)

\* Which handler the next symbol goes to.
LEMMA TokenStep ==
    ASSUME NEW p, NEW c, p.mode \in TokenModes
    PROVE  Step(p, c) = AtToken(p, c)
BY Zenon DEF Step, Stopped, TokenModes, NumberModes

LEMMA NumberStep ==
    ASSUME NEW p, NEW c, p.mode \in NumberModes
    PROVE  Step(p, c) = InNumber(p, c)
BY Zenon DEF Step, Stopped, NumberModes

LEMMA StringStep ==
    ASSUME NEW p, NEW c
    PROVE  /\ p.mode = "string" => Step(p, c) = InString(p, c)
           /\ p.mode = "raw low" => Step(p, c) = AfterHigh(p, c)
BY Zenon DEF Step, Stopped, NumberModes

\* The first symbols of values.
ValueModes == {"value", "first item"}
Openers == {"quote", "{", "[", "keyword", "0", "1"}

\* The first symbol of a value, and of a name; what stands between them.
LEMMA ValueStep ==
    ASSUME NEW p, p.mode \in ValueModes, NEW c \in Openers
    PROVE  Step(p, c) = AtValue(p, c)
<1>1. p.mode \in TokenModes
  BY Zenon DEF TokenModes, ValueModes
<1>2. ~Closes(p, c) /\ c \notin Whitespace
  BY Zenon DEF Closes, Openers, Whitespace
<1>3. AtToken(p, c) = AtValue(p, c)
  BY <1>2, Zenon DEF AtToken, ValueModes
<1> QED BY <1>1, <1>3, TokenStep

LEMMA ValueSteps ==
    ASSUME NEW p, p.mode \in ValueModes
    PROVE  /\ Step(p, "quote") = OpenString(p, Off)
           /\ Step(p, "{") = Open(p, "object")
           /\ Step(p, "[") = Open(p, "array")
           /\ Step(p, "keyword") = Complete(p, <<"literal">>)
           /\ Step(p, "0") = NumberSymbol(p, "0")
           /\ Step(p, "1") = NumberSymbol(p, "1")
<1>1. \A c \in Openers : Step(p, c) = AtValue(p, c)
  BY ValueStep
<1>2. Step(p, "quote") = AtValue(p, "quote") /\ Step(p, "{") = AtValue(p, "{")
      /\ Step(p, "[") = AtValue(p, "[") /\ Step(p, "keyword") = AtValue(p, "keyword")
      /\ Step(p, "0") = AtValue(p, "0") /\ Step(p, "1") = AtValue(p, "1")
  BY <1>1, Zenon DEF Openers
<1>3. /\ AtValue(p, "quote") = OpenString(p, Off)
      /\ AtValue(p, "{") = Open(p, "object")
      /\ AtValue(p, "[") = Open(p, "array")
      /\ AtValue(p, "keyword") = Complete(p, <<"literal">>)
  BY Zenon DEF AtValue, Off
<1>4. NumberMode("value", "0") = "zero" /\ NumberMode("value", "1") = "integer"
  <2>1. "1" \in Digits \ {"0"} /\ "value" \notin NumberEnds
    BY Zenon DEF Digits, NumberEnds
  <2>2. NumberMode("value", "0") = "zero"
    BY <2>1, Zenon DEF NumberMode
  <2>3. NumberMode("value", "1") = "integer"
    BY <2>1, Zenon DEF NumberMode
  <2> QED BY <2>2, <2>3
<1>5. AtValue(p, "0") = NumberSymbol(p, "0") /\ AtValue(p, "1") = NumberSymbol(p, "1")
  BY <1>4, Zenon DEF AtValue
<1> QED BY <1>2, <1>3, <1>5, Zenon

NameModes == {"key", "first key"}

LEMMA NameStep ==
    ASSUME NEW p, p.mode \in NameModes
    PROVE  Step(p, "quote") = OpenString(p, On)
<1>1. p.mode \in TokenModes
  BY Zenon DEF TokenModes, NameModes
<1>2. ~Closes(p, "quote") /\ "quote" \notin Whitespace
  BY Zenon DEF Closes, Whitespace
<1>3. AtToken(p, "quote") = AtName(p, "quote")
  BY <1>2, Zenon DEF AtToken, NameModes
<1>4. AtName(p, "quote") = OpenString(p, On)
  BY Zenon DEF AtName, On
<1> QED BY <1>1, <1>3, <1>4, TokenStep

LEMMA ColonStep ==
    ASSUME NEW p, p.mode = "colon"
    PROVE  Step(p, ":") = Expect(p, "value")
<1>1. p.mode \in TokenModes
  BY Zenon DEF TokenModes
<1>2. ~Closes(p, ":") /\ ":" \notin Whitespace
  BY Zenon DEF Closes, Whitespace
<1>3. AtToken(p, ":") = Expect(p, "value")
  BY <1>2, Zenon DEF AtToken
<1> QED BY <1>1, <1>3, TokenStep

LEMMA CommaStep ==
    ASSUME NEW p, p.mode = "after"
    PROVE  Step(p, ",") = Expect(p, IF InObject(p) THEN "key" ELSE "value")
<1>1. p.mode \in TokenModes
  BY Zenon DEF TokenModes
<1>2. ~Closes(p, ",") /\ "," \notin Whitespace
  BY Zenon DEF Closes, Whitespace
<1>3. AtToken(p, ",") = Expect(p, IF InObject(p) THEN "key" ELSE "value")
  BY <1>1, <1>2, Zenon DEF AtToken
<1> QED BY <1>1, <1>3, TokenStep

ArrayEnds == {"first item", "after"}
ObjectEnds == {"first key", "after"}

LEMMA CloseSteps ==
    ASSUME NEW p
    PROVE  /\ p.mode \in ArrayEnds /\ InArray(p) => Step(p, "]") = Close(p)
           /\ p.mode \in ObjectEnds /\ InObject(p) => Step(p, "}") = Close(p)
<1>1. p.mode \in ArrayEnds \/ p.mode \in ObjectEnds => p.mode \in TokenModes
  BY Zenon DEF TokenModes, ArrayEnds, ObjectEnds
<1>2. "]" \notin Whitespace /\ "}" \notin Whitespace
  BY Zenon DEF Whitespace
<1>3. p.mode \in ArrayEnds /\ InArray(p) => AtToken(p, "]") = Close(p)
  BY <1>2, Zenon DEF AtToken, Closes, ArrayEnds, ObjectEnds
<1>4. p.mode \in ObjectEnds /\ InObject(p) => AtToken(p, "}") = Close(p)
  BY <1>2, Zenon DEF AtToken, Closes, ArrayEnds, ObjectEnds
<1>5. p.mode \in ArrayEnds /\ InArray(p) => Step(p, "]") = Close(p)
  BY <1>1, <1>3, TokenStep, Zenon
<1>6. p.mode \in ObjectEnds /\ InObject(p) => Step(p, "}") = Close(p)
  BY <1>1, <1>4, TokenStep, Zenon
<1> QED BY <1>5, <1>6, Zenon

LEMMA EndStep ==
    ASSUME NEW p, p.mode = "end"
    PROVE  Step(p, "eof") = Expect(p, "accepted")
<1>1. p.mode \in TokenModes
  BY Zenon DEF TokenModes
<1>2. ~Closes(p, "eof") /\ "eof" \notin Whitespace
  BY Zenon DEF Closes, Whitespace
<1>3. AtToken(p, "eof") = Expect(p, "accepted")
  BY <1>2, Zenon DEF AtToken
<1> QED BY <1>1, <1>3, TokenStep

\* The symbols between which no number continues.
Enders == {",", "]", "}", "eof"}

IntegerModes == {"zero", "integer"}

\* A number ends before any symbol that may follow a value.
LEMMA NumberEndStep ==
    ASSUME NEW p, p.mode \in IntegerModes, NEW c \in Enders,
           NumberEnd(p).mode # "error"
    PROVE  Step(p, c) = AtToken(NumberEnd(p), c)
<1>1. p.mode \in NumberModes /\ p.mode \in NumberEnds
  BY Zenon DEF NumberModes, NumberEnds, IntegerModes
<1>2. c \notin Digits /\ c \notin {".", "e", "+", "-", "0"}
  BY Zenon DEF Enders, Digits
<1>3. p.mode \notin {"value", "first item", "minus", "point", "e", "e plus", "e minus"}
  BY Zenon DEF IntegerModes
<1>4. NumberMode(p.mode, c) = "none"
  BY <1>2, <1>3, Zenon DEF NumberMode, IntegerModes
<1>5. InNumber(p, c) = AtToken(NumberEnd(p), c)
  BY <1>1, <1>2, <1>4, Zenon DEF InNumber
<1> QED BY <1>1, <1>5, NumberStep

\* What can be on the stack while a sorted value is read.
SortedValues == {Sorted[v] : v \in Value}
Items == SortedValues \cup (ValidStrings \X SortedValues)
ItemLists == Seq(Items)
Kinds == {"array", "object"}
SortedContainers == [kind : Kinds, items : ItemLists, key : ValidStrings]
Stacks == Seq(SortedContainers)

Ended(v) ==
    [mode |-> "end", stack |-> <<>>, naming |-> Off, buffer |-> <<>>, value |-> v,
     code |-> NoCode]

\* What Append, Last and Front make of a stack.
LEMMA Pushed ==
    ASSUME NEW stack \in Stacks, NEW top \in SortedContainers
    PROVE  /\ Append(stack, top) \in Stacks /\ Append(stack, top) # <<>>
           /\ Last(Append(stack, top)) = top /\ Front(Append(stack, top)) = stack
<1> DEFINE s == Append(stack, top)
<1>1. s \in Seq(SortedContainers) /\ Len(s) = Len(stack) + 1 /\ s[Len(stack) + 1] = top
          /\ Len(stack) \in Nat
      /\ \A i \in 1..Len(stack) : s[i] = stack[i]
  BY DEF Stacks
<1>2. Front(s) = stack
  BY DEF Front, Stacks
<1>3. s # <<>> /\ Last(s) = top
  BY <1>1 DEF Last
<1> QED BY <1>1, <1>2, <1>3 DEF Stacks

SetMode(p, mode) == [p EXCEPT !.mode = mode]
SetStack(p, stack) == [p EXCEPT !.stack = stack]
SetNaming(p, naming) == [p EXCEPT !.naming = naming]
SetBuffer(p, units) == [p EXCEPT !.buffer = units]
SetValue(p, v) == [p EXCEPT !.value = v]
Grown(top, item) == [top EXCEPT !.items = Append(top.items, item)]
Keyed(top, name) == [top EXCEPT !.key = name]

\* The parser with one field changed.
LEMMA InFields ==
    ASSUME NEW mode, NEW stack, NEW naming, NEW units
    PROVE  /\ In(mode, stack, naming, units).mode = mode
           /\ In(mode, stack, naming, units).stack = stack
           /\ In(mode, stack, naming, units).naming = naming
           /\ In(mode, stack, naming, units).buffer = units
BY DEF In

LEMMA ModeSet ==
    ASSUME NEW mode, NEW stack, NEW naming, NEW units, NEW m
    PROVE  SetMode(In(mode, stack, naming, units), m) = In(m, stack, naming, units)
BY DEF In, SetMode

LEMMA StackSet ==
    ASSUME NEW mode, NEW stack, NEW naming, NEW units, NEW s
    PROVE  SetStack(In(mode, stack, naming, units), s) = In(mode, s, naming, units)
BY DEF In, SetStack

LEMMA NamingSet ==
    ASSUME NEW mode, NEW stack, NEW naming, NEW units, NEW n
    PROVE  SetNaming(In(mode, stack, naming, units), n) = In(mode, stack, n, units)
BY DEF In, SetNaming

LEMMA BufferSet ==
    ASSUME NEW mode, NEW stack, NEW naming, NEW units, NEW u
    PROVE  SetBuffer(In(mode, stack, naming, units), u) = In(mode, stack, naming, u)
BY DEF In, SetBuffer

LEMMA AtFields ==
    ASSUME NEW mode, NEW stack
    PROVE  /\ At(mode, stack).mode = mode
           /\ At(mode, stack).stack = stack
           /\ At(mode, stack).naming = Off
           /\ At(mode, stack).buffer = <<>>
BY DEF At, In

LEMMA AtChanges ==
    ASSUME NEW mode, NEW stack
    PROVE  /\ \A m : SetMode(At(mode, stack), m) = At(m, stack)
           /\ \A s : SetStack(At(mode, stack), s) = At(mode, s)
           /\ \A n : SetNaming(At(mode, stack), n) = In(mode, stack, n, <<>>)
           /\ \A u : SetBuffer(At(mode, stack), u) = In(mode, stack, Off, u)
BY ModeSet, StackSet, NamingSet, BufferSet, SMT DEF At

LEMMA ContainerWhole ==
    ASSUME NEW top \in SortedContainers
    PROVE  top = Container(top.kind, top.items, top.key)
BY DEF SortedContainers, Container

\* A container with one member or its key changed.
LEMMA ContainerChanges ==
    ASSUME NEW top \in SortedContainers
    PROVE  /\ \A item : Grown(top, item) = Container(top.kind, Append(top.items, item), top.key)
           /\ \A name : Keyed(top, name) = Container(top.kind, top.items, name)
<1>1. ASSUME NEW kind, NEW items, NEW key, NEW item
      PROVE  Grown(Container(kind, items, key), item) = Container(kind, Append(items, item), key)
  BY DEF Container, Grown
<1>2. ASSUME NEW kind, NEW items, NEW key, NEW name
      PROVE  Keyed(Container(kind, items, key), name) = Container(kind, items, name)
  BY DEF Container, Keyed
<1>3. top = Container(top.kind, top.items, top.key)
  BY ContainerWhole
<1>4. ASSUME NEW item PROVE Grown(top, item)
                 = Container(top.kind, Append(top.items, item), top.key)
  BY <1>1, <1>3, SMT
<1>5. ASSUME NEW name PROVE Keyed(top, name) = Container(top.kind, top.items, name)
  BY <1>2, <1>3, SMT
<1> QED BY <1>4, <1>5, Zenon

LEMMA ExpectAt ==
    ASSUME NEW mode, NEW next, NEW stack
    PROVE  Expect(At(mode, stack), next) = At(next, stack)
<1>1. \A p : Expect(p, next) = SetMode(p, next)
  BY Zenon DEF Expect, SetMode
<1> QED BY <1>1, AtChanges, SMT

LEMMA OpenStringAt ==
    ASSUME NEW mode, NEW stack, NEW naming
    PROVE  OpenString(At(mode, stack), naming) = In("string", stack, naming, <<>>)
<1>1. \A p : OpenString(p, naming) = SetNaming(SetMode(p, "string"), naming)
  BY Zenon DEF OpenString, SetMode, SetNaming
<1> QED BY <1>1, AtChanges, SMT

OpenMode(kind) == IF kind = "object" THEN "first key" ELSE "first item"

LEMMA OpenAt ==
    ASSUME NEW mode, NEW stack, NEW kind
    PROVE  Open(At(mode, stack), kind)
             = At(OpenMode(kind), Append(stack, Container(kind, <<>>, <<>>)))
<1>1. \A p : Open(p, kind)
              = SetStack(SetMode(p, OpenMode(kind)), Append(p.stack, Container(kind, <<>>, <<>>)))
  BY Zenon DEF Open, OpenMode, SetMode, SetStack, Container
<1> QED BY <1>1, AtFields, AtChanges, SMT

LEMMA OpenModes == OpenMode("object") = "first key" /\ OpenMode("array") = "first item"
BY Zenon DEF OpenMode

\* Complete, on an empty stack and on another.
Item(p, v) == IF InObject(p) THEN <<Top(p).key, v>> ELSE v

LEMMA CompleteForms ==
    ASSUME NEW p, NEW v
    PROVE  /\ p.stack = <<>> => Complete(p, v) = SetValue(SetMode(p, "end"), v)
           /\ p.stack # <<>> =>
                 Complete(p, v)
                   = SetStack(SetMode(p, "after"),
                         Append(Front(p.stack), Grown(Top(p), Item(p, v))))
<1>1. CASE p.stack = <<>>
  BY <1>1, Zenon DEF Complete, SetValue, SetMode
<1>2. CASE p.stack # <<>>
  BY <1>2, Zenon DEF Complete, SetStack, SetMode, Grown, Item
<1> QED BY <1>1, <1>2, Zenon

\* A complete value, at the top level and in a container.
LEMMA CompleteAt ==
    ASSUME NEW mode, NEW stack, NEW v
    PROVE  Complete(At(mode, stack), v) = Result(stack, v)
<1> DEFINE p == At(mode, stack)
           q == At("value", stack)
<1>1. p.stack = stack /\ q.stack = stack
  BY AtFields
<1>2. /\ SetMode(p, "end") = At("end", stack) /\ SetMode(q, "end") = At("end", stack)
      /\ SetMode(p, "after") = At("after", stack) /\ SetMode(q, "after") = At("after", stack)
  BY AtChanges
<1> HIDE DEF p, q
<1>3. Top(p) = Top(q) /\ Item(p, v) = Item(q, v)
  BY <1>1, Zenon DEF Top, InObject, Item
<1>4. Complete(p, v) = Complete(q, v)
  BY <1>1, <1>2, <1>3, CompleteForms, Zenon
<1> QED BY <1>4, Zenon DEF Result, p, q

LEMMA ResultEnded ==
    ASSUME NEW v
    PROVE  Result(<<>>, v) = Ended(v)
<1> DEFINE q == At("value", <<>>)
<1>1. q.stack = <<>>
  BY AtFields
<1>2. Complete(q, v) = SetValue(SetMode(q, "end"), v)
  BY <1>1, CompleteForms, Zenon
<1>3. SetMode(q, "end") = At("end", <<>>)
  BY AtChanges
<1>4. SetValue(At("end", <<>>), v) = Ended(v)
  BY DEF At, In, Ended, SetValue
<1> HIDE DEF q
<1>5. Complete(q, v) = Ended(v)
  BY <1>2, <1>3, <1>4, Zenon
<1> QED BY <1>5, Zenon DEF Result, q

LEMMA ResultPushed ==
    ASSUME NEW stack \in Stacks, NEW top \in SortedContainers, NEW v
    PROVE  Result(Append(stack, top), v)
             = At("after", Append(stack,
                  Container(top.kind,
                            Append(top.items, IF top.kind = "object" THEN <<top.key, v>> ELSE v),
                            top.key)))
<1> DEFINE q == At("value", Append(stack, top))
           item == IF top.kind = "object" THEN <<top.key, v>> ELSE v
<1>1. q.stack = Append(stack, top)
  BY AtFields
<1>2. q.stack # <<>> /\ Last(q.stack) = top /\ Front(q.stack) = stack
  BY <1>1, Pushed, Zenon
<1>3. SetMode(q, "after") = At("after", Append(stack, top))
  BY AtChanges
<1> HIDE DEF q
<1>4. Top(q) = top /\ (InObject(q) <=> top.kind = "object")
  BY <1>2, Zenon DEF Top, InObject
<1>5. Item(q, v) = item
  BY <1>4, Zenon DEF Item
<1> HIDE DEF item
<1>6. Complete(q, v) = SetStack(At("after", Append(stack, top)), Append(stack, Grown(top, item)))
  BY <1>2, <1>3, <1>4, <1>5, CompleteForms, Zenon
<1>7. Complete(q, v)
          = At("after", Append(stack, Container(top.kind, Append(top.items, item), top.key)))
  BY <1>6, AtChanges, ContainerChanges, SMT
<1> QED BY <1>7, Zenon DEF Result, item, q

\* A container that is closed is a complete value of the one around it.
LEMMA CloseAt ==
    ASSUME NEW mode, NEW stack \in Stacks, NEW top \in SortedContainers
    PROVE  Close(At(mode, Append(stack, top))) = Result(stack, <<top.kind, top.items>>)
<1> DEFINE p == At(mode, Append(stack, top))
<1>1. p.stack = Append(stack, top)
  BY AtFields
<1>2. SetStack(p, stack) = At(mode, stack)
  BY AtChanges
<1> HIDE DEF p
<1>3. Top(p) = top /\ Front(p.stack) = stack
  BY <1>1, Pushed, Zenon DEF Top
<1>4. Close(p) = Complete(SetStack(p, Front(p.stack)), <<Top(p).kind, Top(p).items>>)
  BY Zenon DEF Close, SetStack
<1>5. Close(p) = Complete(At(mode, stack), <<top.kind, top.items>>)
  BY <1>2, <1>3, <1>4, Zenon
<1> QED BY <1>5, CompleteAt, Zenon DEF p

LEMMA KindAt ==
    ASSUME NEW mode, NEW stack \in Stacks, NEW top \in SortedContainers
    PROVE  /\ InObject(At(mode, Append(stack, top))) <=> top.kind = "object"
           /\ InArray(At(mode, Append(stack, top))) <=> top.kind = "array"
<1> DEFINE p == At(mode, Append(stack, top))
<1>1. p.stack = Append(stack, top)
  BY AtFields
<1>2. p.stack # <<>> /\ Last(p.stack) = top
  BY <1>1, Pushed, Zenon
<1> HIDE DEF p
<1>3. (InObject(p) <=> top.kind = "object") /\ (InArray(p) <=> top.kind = "array")
  BY <1>2, Zenon DEF Top, InObject, InArray
<1> QED BY <1>3, Zenon DEF p
-----------------------------------------------------------------------------
\* One unit more of a string.
LEMMA CollectIn ==
    ASSUME NEW mode, NEW next, NEW stack, NEW naming, NEW units, NEW u
    PROVE  /\ Collect(In(mode, stack, naming, units), u)
                  = In("string", stack, naming, Append(units, u))
           /\ Expect(Collect(In(mode, stack, naming, units), u), next)
                = In(next, stack, naming, Append(units, u))
<1> DEFINE p == In(mode, stack, naming, units)
<1>1. \A q : Collect(q, u) = SetBuffer(SetMode(q, "string"), Append(q.buffer, u))
  BY Zenon DEF Collect, SetMode, SetBuffer
<1>2. Collect(p, u) = In("string", stack, naming, Append(units, u))
  BY <1>1, InFields, ModeSet, BufferSet
<1>3. \A q : Expect(q, next) = SetMode(q, next)
  BY Zenon DEF Expect, SetMode
<1>4. Expect(Collect(p, u), next) = In(next, stack, naming, Append(units, u))
  BY <1>2, <1>3, ModeSet
<1> QED BY <1>2, <1>4, Zenon

\* A unit of a canonical string is read as that unit.
LEMMA EscapeForms ==
    /\ Escape["a"] = "esc a" /\ Escape["b"] = "esc b" /\ Escape["quote"] = "esc quote"
    /\ Escape["control"] = "esc control" /\ Escape["high"] = "esc high"
           /\ Escape["low"] = "esc low"
BY Zenon DEF Escape

Plain(c) ==
    /\ c # "eof" /\ c # "quote" /\ c # "esc bad" /\ c # "esc hex"
    /\ c # Escape["high"] /\ c # Escape["low"] /\ c # "low" /\ c # "high"
    /\ c # "control" /\ c # "tab"

LEMMA PlainStep ==
    ASSUME NEW p, NEW c, Plain(c)
    PROVE  InString(p, c)
             = IF \E u \in Units : c = Escape[u]
               THEN Collect(p, CHOOSE u \in Units : c = Escape[u])
               ELSE Collect(p, IF c = "b" THEN "b" ELSE "a")
BY Zenon DEF InString, Plain

\* The unit an escape sequence stands for.
EscapedUnit(c) == CHOOSE u \in Units : c = Escape[u]

LEMMA PlainEscape ==
    ASSUME NEW p, NEW c, Plain(c), \E u \in Units : c = Escape[u]
    PROVE  InString(p, c) = Collect(p, EscapedUnit(c))
BY PlainStep, Zenon DEF EscapedUnit

LEMMA PlainSymbols ==
    Plain("a") /\ Plain("b") /\ Plain("esc quote") /\ Plain("esc control")
BY EscapeForms, Zenon DEF Plain

LEMMA LetterStep ==
    ASSUME NEW p, NEW c \in {"a", "b"}
    PROVE  InString(p, c) = Collect(p, c)
<1>1. Plain(c)
  BY PlainSymbols, Zenon
<1>2. ~ \E u \in Units : c = Escape[u]
  BY EscapeForms, Zenon DEF Units
<1>3. (IF c = "b" THEN "b" ELSE "a") = c
  BY Zenon
<1> QED BY <1>1, <1>2, <1>3, PlainStep, Zenon

LEMMA EscapeStep ==
    ASSUME NEW p, NEW w \in {"quote", "control"}
    PROVE  InString(p, Escape[w]) = Collect(p, w)
<1> DEFINE c == Escape[w]
<1>1. w \in Units
  BY Zenon DEF Units
<1>2. \A u \in Units : c = Escape[u] => u = w
  BY EscapeForms, Zenon DEF Units
<1>3. Plain(c)
  BY PlainSymbols, EscapeForms, Zenon
<1>4. \E u \in Units : c = Escape[u]
  BY <1>1, Zenon
<1> HIDE DEF c
<1>5. EscapedUnit(c) \in Units /\ c = Escape[EscapedUnit(c)]
  BY <1>4, Zenon DEF EscapedUnit
<1>6. EscapedUnit(c) = w
  BY <1>2, <1>5, Zenon
<1>7. InString(p, c) = Collect(p, EscapedUnit(c))
  BY <1>3, <1>4, PlainEscape, Zenon
<1>8. InString(p, c) = Collect(p, w)
  BY <1>6, <1>7, Zenon
<1> QED BY <1>8, Zenon DEF c

LEMMA UnitStep ==
    ASSUME NEW p, p.mode = "string", NEW u \in Units, u # "high", u # "low"
    PROVE  Step(p, UnitText(u)) = Collect(p, u)
<1>1. Step(p, UnitText(u)) = InString(p, UnitText(u))
  BY StringStep, Zenon
<1>2. CASE u \in {"a", "b"}
  <2>1. UnitText(u) = u
    BY <1>2, Zenon DEF UnitText
  <2> QED BY <1>1, <1>2, <2>1, LetterStep, Zenon
<1>3. CASE u \in {"quote", "control"}
  <2>1. UnitText(u) = Escape[u]
    BY <1>3, Zenon DEF UnitText
  <2> QED BY <1>1, <1>3, <2>1, EscapeStep, Zenon
<1> QED BY <1>2, <1>3, Zenon DEF Units

LEMMA HighForm ==
    ASSUME NEW p, NEW c, c = "high"
    PROVE  InString(p, c) = Expect(Collect(p, "high"), "raw low")
<1>1. /\ c # "eof" /\ c # "quote" /\ c # "esc bad" /\ c # "esc hex"
      /\ c # Escape["high"] /\ c # Escape["low"] /\ c # "low"
      /\ c # "control" /\ c # "tab"
  BY EscapeForms, Zenon
<1> QED BY <1>1, Zenon DEF InString

LEMMA HighStep ==
    ASSUME NEW p, p.mode = "string"
    PROVE  Step(p, UnitText("high")) = Expect(Collect(p, "high"), "raw low")
<1>1. UnitText("high") = "high"
  BY Zenon DEF UnitText
<1> QED BY <1>1, HighForm, StringStep, Zenon

LEMMA LowStep ==
    ASSUME NEW p, p.mode = "raw low"
    PROVE  Step(p, UnitText("low")) = Collect(p, "low")
<1>1. UnitText("low") = "low"
  BY Zenon DEF UnitText
<1>2. p.mode # "escaped low"
  BY Zenon
<1>3. AfterHigh(p, "low") = Collect(p, "low")
  BY <1>2, Zenon DEF AfterHigh
<1> QED BY <1>1, <1>3, StringStep, Zenon

LEMMA QuoteStep ==
    ASSUME NEW p, p.mode = "string"
    PROVE  Step(p, "quote") = Closed(p)
<1>1. "quote" # Escape["high"] /\ "quote" # Escape["low"]
  BY EscapeForms, Zenon
<1>2. InString(p, "quote") = Closed(p)
  BY <1>1, Zenon DEF InString
<1> QED BY <1>2, StringStep, Zenon

\* The last check of a string finds nothing where none is amiss.
LEMMA ClosedValid ==
    ASSUME NEW p, ValidUnicode(p.buffer)
    PROVE  Closed(p) = TakeString(p)
BY DEF Closed

LEMMA TakenForms ==
    ASSUME NEW p
    PROVE  /\ p.naming = Off =>
                 TakeString(p) = Complete(SetNaming(SetBuffer(p, <<>>), Off), <<"string", p.buffer>>)
           /\ p.naming = On /\ p.buffer \notin Names(Top(p)) =>
                 LET q == SetNaming(SetBuffer(p, <<>>), Off)
                 IN TakeString(p) = SetStack(SetMode(q, "colon"),
                                         Append(Front(q.stack), Keyed(Top(p), p.buffer)))
<1>1. p.naming = Off => ~p.naming
  BY Zenon DEF Off
<1>2. p.naming = On => p.naming
  BY Zenon DEF On
<1>3. ASSUME p.naming = Off
      PROVE  TakeString(p) = Complete(SetNaming(SetBuffer(p, <<>>), Off), <<"string", p.buffer>>)
  BY <1>1, <1>3, Zenon DEF TakeString, SetNaming, SetBuffer, Off
<1>4. ASSUME p.naming = On, p.buffer \notin Names(Top(p))
      PROVE  LET q == SetNaming(SetBuffer(p, <<>>), Off)
             IN TakeString(p) = SetStack(SetMode(q, "colon"),
                                     Append(Front(q.stack), Keyed(Top(p), p.buffer)))
  BY <1>2, <1>4, Zenon DEF TakeString, KnownName, SetNaming, SetBuffer, SetMode, SetStack, Keyed, Off
<1> QED BY <1>3, <1>4, Zenon

\* The end of a string, and of a name.
LEMMA ClosedValue ==
    ASSUME NEW stack, NEW units \in ValidStrings
    PROVE  Closed(In("string", stack, Off, units)) = Result(stack, <<"string", units>>)
<1> DEFINE p == In("string", stack, Off, units)
<1>1. SetNaming(SetBuffer(p, <<>>), Off) = At("string", stack)
  BY NamingSet, BufferSet, SMT DEF At
<1>2. p.naming = Off /\ p.buffer = units
  BY InFields
<1> HIDE DEF p
<1>3. TakeString(p) = Complete(At("string", stack), <<"string", units>>)
  BY <1>1, <1>2, TakenForms, Zenon
<1>4. Closed(p) = TakeString(p)
  BY <1>2, ClosedValid DEF ValidStrings
<1> QED BY <1>3, <1>4, CompleteAt, Zenon DEF p

LEMMA ClosedName ==
    ASSUME NEW stack \in Stacks, NEW top \in SortedContainers,
           NEW units \in ValidStrings, units \notin Names(top)
    PROVE  Closed(In("string", Append(stack, top), On, units))
             = At("colon", Append(stack, Container(top.kind, top.items, units)))
<1> DEFINE s == Append(stack, top)
           p == In("string", s, On, units)
           q == SetNaming(SetBuffer(p, <<>>), Off)
<1>4. Front(s) = stack /\ Last(s) = top
  BY Pushed
<1> HIDE DEF s
<1>1. p.naming = On /\ p.buffer = units /\ p.stack = s
  BY DEF In
<1>2. q = At("string", s)
  BY NamingSet, BufferSet, SMT DEF At
<1> HIDE DEF q
<1>3. q.stack = s
  BY <1>2, AtFields, SMT
<1>5. \A x : SetStack(SetMode(q, "colon"), x) = At("colon", x)
  BY <1>2, AtChanges, SMT
<1> HIDE DEF p
<1>6. Top(p) = top
  BY <1>1, <1>4, Zenon DEF Top
<1>7. TakeString(p) = SetStack(SetMode(q, "colon"), Append(Front(q.stack), Keyed(Top(p), p.buffer)))
  BY <1>1, <1>6, TakenForms, Zenon DEF q
<1>8. Closed(p) = TakeString(p)
  BY <1>1, ClosedValid DEF ValidStrings
<1>9. Closed(p) = At("colon", Append(stack, Keyed(top, units)))
  BY <1>1, <1>3, <1>4, <1>5, <1>6, <1>7, <1>8, Zenon
<1> QED BY <1>9, ContainerChanges, Zenon DEF p, s
-----------------------------------------------------------------------------
LEMMA NumberForms ==
    ASSUME NEW p
    PROVE  /\ \A c, mode : NumberMode(p.mode, c) = mode =>
                 NumberSymbol(p, c) = SetBuffer(SetMode(p, mode), Weigh(p, mode, c))
           /\ p.buffer # <<"huge">> =>
                 NumberEnd(p) = Complete(SetBuffer(p, <<>>),
                                         <<"number", IF p.buffer = <<>> THEN "0" ELSE "1">>)
<1>1. ASSUME NEW c, NEW mode, NumberMode(p.mode, c) = mode
      PROVE  NumberSymbol(p, c) = SetBuffer(SetMode(p, mode), Weigh(p, mode, c))
  BY <1>1, Zenon DEF NumberSymbol, SetMode, SetBuffer
<1>2. ASSUME p.buffer # <<"huge">>
      PROVE  NumberEnd(p) = Complete(SetBuffer(p, <<>>),
                                     <<"number", IF p.buffer = <<>> THEN "0" ELSE "1">>)
  BY <1>2, Zenon DEF NumberEnd, SetBuffer
<1> QED BY <1>1, <1>2, Zenon

LEMMA DigitModes ==
    ASSUME NEW mode \in ValueModes
    PROVE  NumberMode(mode, "0") = "zero" /\ NumberMode(mode, "1") = "integer"
<1>1. mode \notin NumberEnds /\ mode # "point" /\ mode # "minus"
  BY Zenon DEF ValueModes, NumberEnds
<1>2. "1" \in Digits \ {"0"}
  BY Zenon DEF Digits
<1>3. NumberMode(mode, "0") = "zero"
  BY <1>1, Zenon DEF NumberMode, ValueModes
<1>4. NumberMode(mode, "1") = "integer"
  BY <1>1, <1>2, Zenon DEF NumberMode, ValueModes
<1> QED BY <1>3, <1>4, Zenon

LEMMA DigitWeights ==
    ASSUME NEW p, p.buffer = <<>>
    PROVE  Weigh(p, "zero", "0") = <<>> /\ Weigh(p, "integer", "1") = <<"1">>
<1> DEFINE light == {<<"1", "integer">>, <<"1", "fraction">>, <<"huge", "fraction">>}
<1>1. <<"0", "zero">> \notin light /\ <<"1", "integer">> \in light
  BY SMT
<1> HIDE DEF light
<1>2. Weigh(p, "zero", "0") = <<>>
  BY <1>1, Zenon DEF Weigh, light
<1>3. Weigh(p, "integer", "1") = <<"1">>
  BY <1>1, Zenon DEF Weigh, light
<1> QED BY <1>2, <1>3, Zenon

\* The canonical numbers.
LEMMA NumberZero ==
    ASSUME NEW mode \in ValueModes, NEW stack
    PROVE  /\ NumberSymbol(At(mode, stack), "0") = At("zero", stack)
           /\ NumberEnd(At("zero", stack)) = Result(stack, <<"number", "0">>)
<1> DEFINE p == At(mode, stack)
           q == At("zero", stack)
<1>1. p.mode = mode /\ p.buffer = <<>> /\ q.buffer = <<>>
  BY AtFields
<1>2. SetBuffer(SetMode(p, "zero"), <<>>) = q /\ SetBuffer(q, <<>>) = q
  BY AtChanges, BufferSet, SMT DEF At
<1>3. <<>> # <<"huge">>
  OBVIOUS
<1> HIDE DEF p, q
<1>4. NumberSymbol(p, "0") = q
  <2>1. NumberMode(p.mode, "0") = "zero" /\ Weigh(p, "zero", "0") = <<>>
    BY <1>1, DigitModes, DigitWeights, Zenon
  <2>2. NumberSymbol(p, "0") = SetBuffer(SetMode(p, "zero"), Weigh(p, "zero", "0"))
    BY <2>1, NumberForms, Zenon
  <2> QED BY <1>2, <2>1, <2>2, Zenon
<1>5. NumberEnd(q) = Complete(q, <<"number", "0">>)
  BY <1>1, <1>2, <1>3, NumberForms, Zenon
<1> QED BY <1>4, <1>5, CompleteAt, Zenon DEF p, q

LEMMA NumberOne ==
    ASSUME NEW mode \in ValueModes, NEW stack
    PROVE  /\ NumberSymbol(At(mode, stack), "1") = In("integer", stack, Off, <<"1">>)
           /\ NumberEnd(In("integer", stack, Off, <<"1">>)) = Result(stack, <<"number", "1">>)
<1> DEFINE p == At(mode, stack)
           q == In("integer", stack, Off, <<"1">>)
<1>1. p.mode = mode /\ p.buffer = <<>> /\ q.buffer = <<"1">>
  BY AtFields, InFields
<1>2. SetBuffer(SetMode(p, "integer"), <<"1">>) = q /\ SetBuffer(q, <<>>) = At("integer", stack)
  BY AtChanges, BufferSet, SMT DEF At
<1>3. <<"1">> # <<"huge">> /\ <<"1">> # <<>>
  OBVIOUS
<1> HIDE DEF p, q
<1>4. NumberSymbol(p, "1") = q
  <2>1. NumberMode(p.mode, "1") = "integer" /\ Weigh(p, "integer", "1") = <<"1">>
    BY <1>1, DigitModes, DigitWeights, Zenon
  <2>2. NumberSymbol(p, "1") = SetBuffer(SetMode(p, "integer"), Weigh(p, "integer", "1"))
    BY <2>1, NumberForms, Zenon
  <2> QED BY <1>2, <2>1, <2>2, Zenon
<1>5. NumberEnd(q) = Complete(At("integer", stack), <<"number", "1">>)
  BY <1>1, <1>2, <1>3, NumberForms, Zenon
<1> QED BY <1>4, <1>5, CompleteAt, Zenon DEF p, q

-----------------------------------------------------------------------------
(* Whole strings.                                                          *)

RawLow == "raw low"

\* The units of a canonical string are read back one by one.
LEMMA UnitIn ==
    ASSUME NEW stack, NEW naming, NEW units
    PROVE  /\ \A u \in Units : u # "high" /\ u # "low" =>
                 Step(In("string", stack, naming, units), UnitText(u))
                   = In("string", stack, naming, Append(units, u))
           /\ Step(In("string", stack, naming, units), UnitText("high"))
                = In(RawLow, stack, naming, Append(units, "high"))
           /\ Step(In(RawLow, stack, naming, units), UnitText("low"))
                = In("string", stack, naming, Append(units, "low"))
<1> DEFINE p == In("string", stack, naming, units)
           q == In(RawLow, stack, naming, units)
<1>1. p.mode = "string" /\ q.mode = RawLow
  BY InFields
<1>2. \A u : Collect(p, u) = In("string", stack, naming, Append(units, u))
  BY CollectIn, SMT
<1>3. \A u : Collect(q, u) = In("string", stack, naming, Append(units, u))
  BY CollectIn, SMT
<1>4. \A u : Expect(Collect(p, u), RawLow) = In(RawLow, stack, naming, Append(units, u))
  BY CollectIn, SMT
<1> HIDE DEF p, q
<1>5. ASSUME NEW u \in Units, u # "high", u # "low"
      PROVE  Step(p, UnitText(u)) = Collect(p, u)
  BY <1>1, <1>5, UnitStep, Zenon
<1>6. Step(p, UnitText("high")) = Expect(Collect(p, "high"), RawLow)
  BY <1>1, HighStep, Zenon DEF RawLow
<1>7. Step(q, UnitText("low")) = Collect(q, "low")
  BY <1>1, LowStep, Zenon DEF RawLow
<1>8. Step(p, UnitText("high")) = In(RawLow, stack, naming, Append(units, "high"))
      /\ Step(q, UnitText("low")) = In("string", stack, naming, Append(units, "low"))
  BY <1>3, <1>4, <1>6, <1>7, Zenon
<1>9. \A u \in Units : u # "high" /\ u # "low" =>
         Step(p, UnitText(u)) = In("string", stack, naming, Append(units, u))
  BY <1>2, <1>5, Zenon
<1> QED BY <1>8, <1>9, Zenon DEF p, q

\* What the parser waits for after i units of a string.
Waits(s, i) == IF i > 0 /\ s[i] = "high" THEN RawLow ELSE "string"

\* After i units of a string the parser has them, and waits for a low half when
\* the last is a high one.
LEMMA StringRun ==
    ASSUME NEW stack, NEW naming, NEW s \in ValidStrings
    PROVE  Run(In("string", stack, naming, <<>>), [i \in DOMAIN s |-> UnitText(s[i])])
             = In("string", stack, naming, s)
<1> DEFINE n == Len(s)
           text == [i \in DOMAIN s |-> UnitText(s[i])]
           f == [i \in 0..n |-> In(Waits(s, i), stack, naming, SubSeq(s, 1, i))]
<1>1. /\ s \in Seq(Units) /\ n \in Nat /\ DOMAIN s = 1..n /\ \A i \in 1..n : s[i] \in Units
      /\ \A i \in 1..n : /\ s[i] = "high" => i < n /\ s[i + 1] = "low"
                         /\ s[i] = "low" => i > 1 /\ s[i - 1] = "high"
  <2>1. s \in Seq(Units) /\ ValidUnicode(s)
    BY DEF ValidStrings
  <2>2. n \in Nat /\ DOMAIN s = 1..n /\ \A i \in 1..n : s[i] \in Units
    BY <2>1
  <2> QED BY <2>1, <2>2 DEF ValidUnicode
<1>2. Len(text) = n /\ \A i \in 1..n : text[i] = UnitText(s[i])
  BY <1>1
<1>3. f[0] = In("string", stack, naming, <<>>)
  <2>1. Waits(s, 0) = "string" /\ SubSeq(s, 1, 0) = <<>> /\ 0 \in 0..n
    BY <1>1 DEF Waits
  <2> QED BY <2>1
<1>4. f[n] = In("string", stack, naming, s)
  <2>1. Waits(s, n) = "string"
    BY <1>1 DEF Waits
  <2>2. SubSeq(s, 1, n) = s
    BY <1>1
  <2>3. n \in 0..n
    BY <1>1
  <2> QED BY <2>1, <2>2, <2>3
<1>5. ASSUME NEW i \in 1..n
      PROVE  f[i] = Step(f[i - 1], text[i])
  <2> DEFINE j == i - 1
             units == SubSeq(s, 1, j)
  <2>1. j \in 0..n /\ i \in 0..n /\ j + 1 = i /\ i > 0
    BY <1>1
  <2>2. SubSeq(s, 1, i) = Append(units, s[i])
    BY <1>1
  <2>3. f[i] = In(Waits(s, i), stack, naming, Append(units, s[i]))
        /\ f[j] = In(Waits(s, j), stack, naming, units)
    BY <2>1, <2>2
  <2>4. /\ s[i] = "high" => Waits(s, i) = RawLow /\ Waits(s, j) = "string"
        /\ s[i] = "low" => Waits(s, i) = "string" /\ Waits(s, j) = RawLow
        /\ s[i] # "high" /\ s[i] # "low" => Waits(s, i) = "string" /\ Waits(s, j) = "string"
    <3>1. j > 0 => j \in 1..n
      BY <1>1
    <3>2. s[i] # "low" => ~(j > 0 /\ s[j] = "high")
      BY <1>1, <2>1, <3>1
    <3>3. s[i] = "low" => j > 0 /\ s[j] = "high"
      BY <1>1
    <3>4. "high" # "low"
      OBVIOUS
    <3> HIDE DEF j
    <3> QED BY <2>1, <3>2, <3>3, <3>4 DEF Waits
  <2>5. text[i] = UnitText(s[i]) /\ s[i] \in Units
    BY <1>1, <1>2
  <2> HIDE DEF f, text, j, units
  <2>6. f[i] = Step(f[j], text[i])
    <3>1. CASE s[i] = "high"
      BY <2>3, <2>4, <2>5, <3>1, UnitIn, SMT
    <3>2. CASE s[i] = "low"
      BY <2>3, <2>4, <2>5, <3>2, UnitIn, SMT
    <3>3. CASE s[i] # "high" /\ s[i] # "low"
      BY <2>3, <2>4, <2>5, <3>3, UnitIn, SMT
    <3> QED BY <3>1, <3>2, <3>3
  <2> QED BY <2>6 DEF j
<1> HIDE DEF f, text
<1>6. Run(f[0], text) = f[n]
  <2>1. Len(text) \in Nat /\ \A i \in 1..Len(text) : f[i] = Step(f[i - 1], text[i])
    BY <1>1, <1>2, <1>5
  <2>2. Run(f[0], text) = f[Len(text)]
    BY <2>1, RunIs
  <2> QED BY <1>2, <2>2
<1> QED BY <1>3, <1>4, <1>6 DEF text

\* The parser, from a string's first quote to its last.
LEMMA QuotedRun ==
    ASSUME NEW p, NEW stack, NEW naming, Step(p, "quote") = In("string", stack, naming, <<>>),
           NEW s \in ValidStrings
    PROVE  Run(p, StringText(s)) = Closed(In("string", stack, naming, s))
<1> DEFINE text == [i \in DOMAIN s |-> UnitText(s[i])]
           quote == <<"quote">>
           q == In("string", stack, naming, s)
<1>1. StringText(s) = (quote \o text) \o quote
  BY Zenon DEF StringText
<1>2. text \in Texts
  <2>1. \A u \in Units : UnitText(u) \in Symbols
    BY SymbolTypes DEF UnitText
  <2>2. s \in Seq(Units)
    BY DEF ValidStrings
  <2> QED BY <2>1, <2>2 DEF Texts
<1>3. quote \in Texts
  BY SymbolTypes, OneText, Zenon
<1>4. quote \o text \in Texts
  BY <1>2, <1>3, ConcatText, Zenon
<1>5. Run(p, quote) = In("string", stack, naming, <<>>)
  BY RunOne, Zenon
<1>6. Run(In("string", stack, naming, <<>>), text) = q
  BY StringRun
<1>7. Run(q, quote) = Step(q, "quote")
  BY RunOne, Zenon
<1>8. q.mode = "string"
  BY InFields
<1> HIDE DEF text, quote, q
<1>9. Run(p, quote \o text) = q
  <2>1. Run(p, quote \o text) = Run(Run(p, quote), text)
    BY <1>2, <1>3, RunConcat
  <2> QED BY <1>5, <1>6, <2>1, Zenon
<1>10. Run(p, (quote \o text) \o quote) = Step(q, "quote")
  <2>1. Run(p, (quote \o text) \o quote) = Run(Run(p, quote \o text), quote)
    BY <1>3, <1>4, RunConcat
  <2> QED BY <1>7, <1>9, <2>1, Zenon
<1>11. Step(q, "quote") = Closed(q)
  BY <1>8, QuoteStep, Zenon
<1> QED BY <1>1, <1>10, <1>11, Zenon DEF q

\* A string that is a value, and one that is a name.
LEMMA StringValue ==
    ASSUME NEW stack, NEW mode \in ValueModes, NEW s \in ValidStrings
    PROVE  Run(At(mode, stack), StringText(s)) = Result(stack, <<"string", s>>)
<1> DEFINE p == At(mode, stack)
<1>1. p.mode \in ValueModes
  BY AtFields
<1>2. OpenString(p, Off) = In("string", stack, Off, <<>>)
  BY OpenStringAt
<1> HIDE DEF p
<1>3. Step(p, "quote") = In("string", stack, Off, <<>>)
  BY <1>1, <1>2, ValueSteps, Zenon
<1>4. Run(p, StringText(s)) = Closed(In("string", stack, Off, s))
  BY <1>3, QuotedRun, Zenon
<1> QED BY <1>4, ClosedValue, Zenon DEF p

LEMMA StringName ==
    ASSUME NEW stack \in Stacks, NEW top \in SortedContainers, NEW mode \in NameModes,
           NEW s \in ValidStrings, s \notin Names(top)
    PROVE  Run(At(mode, Append(stack, top)), StringText(s))
             = At("colon", Append(stack, Container(top.kind, top.items, s)))
<1> DEFINE all == Append(stack, top)
           p == At(mode, all)
<1>1. p.mode \in NameModes
  BY AtFields
<1>2. OpenString(p, On) = In("string", all, On, <<>>)
  BY OpenStringAt
<1> HIDE DEF p
<1>3. Step(p, "quote") = In("string", all, On, <<>>)
  BY <1>1, <1>2, NameStep, Zenon
<1> HIDE DEF all
<1>4. Run(p, StringText(s)) = Closed(In("string", all, On, s))
  BY <1>3, QuotedRun, Zenon
<1> QED BY <1>4, ClosedName, Zenon DEF p, all

-----------------------------------------------------------------------------
(* Lists of values.                                                        *)

Comma == ","

TextLists == Seq(Texts)

\* A list of texts and the states the parser is in, for what follows, after each.
LEMMA LoopRun ==
    ASSUME NEW texts \in TextLists, Len(texts) > 0, NEW p, NEW g,
           \A c \in Enders : Step(Run(p, texts[1]), c) = Step(g[1], c),
           \A i \in 1..(Len(texts) - 1) : \A c \in Enders :
               Step(Run(Step(g[i], Comma), texts[i + 1]), c) = Step(g[i + 1], c)
    PROVE  \A c \in Enders : Step(Run(p, Separated(texts)), c) = Step(g[Len(texts)], c)
<1> DEFINE n == Len(texts)
           comma == <<Comma>>
<1>0. n \in Nat /\ \A i \in 1..n : texts[i] \in Texts
  BY DEF TextLists
<1>1. PICK h : /\ n > 0 => h[1] = texts[1]
               /\ \A i \in 1..(n - 1) : h[i + 1] = h[i] \o comma \o texts[i + 1]
               /\ Separated(texts) = h[n]
  BY <1>0, Joined, Zenon DEF Comma
<1>2. comma \in Texts
  BY SymbolTypes, OneText, Zenon DEF Comma
<1>3. \A q : Run(q, comma) = Step(q, Comma)
  BY RunOne, Zenon
<1>4. Comma \in Enders
  BY Zenon DEF Comma, Enders
<1> HIDE DEF n, comma
<1> DEFINE P == {m \in Nat : m + 1 <= n =>
                    /\ h[m + 1] \in Texts
                    /\ \A c \in Enders : Step(Run(p, h[m + 1]), c) = Step(g[m + 1], c)}
<1>5. 0 \in P
  BY <1>0, <1>1 DEF n
<1>6. ASSUME NEW m \in Nat, m \in P
      PROVE  m + 1 \in P
  <2> DEFINE i == m + 1
             j == m + 1 + 1
  <2> SUFFICES ASSUME j <= n
               PROVE  /\ h[j] \in Texts
                      /\ \A c \in Enders : Step(Run(p, h[j]), c) = Step(g[j], c)
    OBVIOUS
  <2>1. i \in 1..(n - 1) /\ j \in 1..n /\ i + 1 = j /\ i <= n
    BY <1>0
  <2>2. h[i] \in Texts /\ \A c \in Enders : Step(Run(p, h[i]), c) = Step(g[i], c)
    BY <1>6, <2>1
  <2>3. h[j] = h[i] \o comma \o texts[j]
    BY <1>1, <2>1
  <2>4. \A c \in Enders : Step(Run(Step(g[i], Comma), texts[j]), c) = Step(g[j], c)
    BY <2>1 DEF n
  <2>5. texts[j] \in Texts
    BY <1>0, <2>1
  <2> HIDE DEF i, j, P
  <2>6. h[i] \o comma \in Texts /\ h[j] \in Texts
    BY <1>2, <2>2, <2>3, <2>5, ConcatText
  <2>7. Run(p, h[i] \o comma) = Step(g[i], Comma)
    <3>1. Run(p, h[i] \o comma) = Run(Run(p, h[i]), comma)
      BY <1>2, <2>2, RunConcat
    <3> QED BY <1>3, <1>4, <2>2, <3>1, Zenon
  <2>8. Run(p, h[j]) = Run(Step(g[i], Comma), texts[j])
    <3>1. Run(p, (h[i] \o comma) \o texts[j]) = Run(Run(p, h[i] \o comma), texts[j])
      BY <2>5, <2>6, RunConcat
    <3> QED BY <2>3, <2>7, <3>1, Zenon
  <2> QED BY <2>4, <2>6, <2>8, Zenon
<1> HIDE DEF P
<1>7. Nat \subseteq P
  BY <1>5, <1>6, FromZero
<1>8. n - 1 \in P /\ n - 1 + 1 = n
  BY <1>0, <1>7 DEF n
<1>9. \A c \in Enders : Step(Run(p, h[n]), c) = Step(g[n], c)
  BY <1>0, <1>8 DEF P
<1> QED BY <1>1, <1>9, Zenon DEF n

-----------------------------------------------------------------------------
LEMMA EmptyValid == <<>> \in ValidStrings
BY DEF ValidStrings, ValidUnicode

LEMMA ContainerType ==
    ASSUME NEW kind \in Kinds, NEW items \in ItemLists, NEW key \in ValidStrings
    PROVE  /\ Container(kind, items, key) \in SortedContainers
           /\ Container(kind, items, key).kind = kind
           /\ Container(kind, items, key).items = items
           /\ Container(kind, items, key).key = key
BY DEF Container, SortedContainers

LEMMA ResultMode ==
    ASSUME NEW stack, NEW v
    PROVE  Result(stack, v).mode \in TokenModes
<1> DEFINE q == At("value", stack)
<1>1. q.stack = stack
  BY AtFields
<1>2. SetMode(q, "end") = At("end", stack) /\ SetMode(q, "after") = At("after", stack)
  BY AtChanges
<1>3. \A x : SetValue(At("end", stack), x).mode = "end"
  BY DEF At, In, SetValue
<1>4. \A x : SetStack(At("after", stack), x).mode = "after"
  BY AtChanges, AtFields
<1> HIDE DEF q
<1>5. Complete(q, v).mode \in {"end", "after"}
  BY <1>1, <1>2, <1>3, <1>4, CompleteForms, Zenon
<1> QED BY <1>5, Zenon DEF Result, TokenModes, q

\* The canonical text of v is read, whatever follows it, as the value v sorted.
Readable(v) ==
    \A stack \in Stacks, mode \in ValueModes, c \in Enders :
        Step(Run(At(mode, stack), Canonical[v]), c) = Step(Result(stack, Sorted[v]), c)

\* Numbers and literals.
LEMMA NumberReads ==
    ASSUME NEW stack, NEW mode \in ValueModes, NEW c \in Enders
    PROVE  /\ Step(Run(At(mode, stack), <<"0">>), c) = Step(Result(stack, <<"number", "0">>), c)
           /\ Step(Run(At(mode, stack), <<"1">>), c) = Step(Result(stack, <<"number", "1">>), c)
<1> DEFINE p == At(mode, stack)
           zero == At("zero", stack)
           one == In("integer", stack, Off, <<"1">>)
           r0 == Result(stack, <<"number", "0">>)
           r1 == Result(stack, <<"number", "1">>)
<1>1. p.mode \in ValueModes /\ zero.mode = "zero" /\ one.mode = "integer"
  <2>1. p.mode = mode /\ zero.mode = "zero"
    BY AtFields
  <2>2. one.mode = "integer"
    BY InFields
  <2> QED BY <2>1, <2>2, Zenon
<1>2. NumberSymbol(p, "0") = zero /\ NumberEnd(zero) = r0
  BY NumberZero
<1>3. NumberSymbol(p, "1") = one /\ NumberEnd(one) = r1
  BY NumberOne
<1>4. r0.mode \in TokenModes /\ r1.mode \in TokenModes
  BY ResultMode
<1>5. Run(p, <<"0">>) = Step(p, "0") /\ Run(p, <<"1">>) = Step(p, "1")
  BY RunOne
<1> HIDE DEF p, zero, one, r0, r1
<1>6. Step(p, "0") = zero /\ Step(p, "1") = one
  BY <1>1, <1>2, <1>3, ValueSteps, Zenon
<1>7. r0.mode # "error" /\ r1.mode # "error"
  BY <1>4, Zenon DEF TokenModes
<1>8. Step(zero, c) = AtToken(r0, c) /\ Step(one, c) = AtToken(r1, c)
  <2>1. zero.mode \in IntegerModes /\ one.mode \in IntegerModes
    BY <1>1, Zenon DEF IntegerModes
  <2> QED BY <1>2, <1>3, <1>7, <2>1, NumberEndStep, Zenon
<1>9. Step(r0, c) = AtToken(r0, c) /\ Step(r1, c) = AtToken(r1, c)
  BY <1>4, TokenStep, Zenon
<1> QED BY <1>5, <1>6, <1>8, <1>9, Zenon DEF p, r0, r1

LEMMA LiteralReads ==
    ASSUME NEW stack, NEW mode \in ValueModes
    PROVE  Run(At(mode, stack), <<"keyword">>) = Result(stack, <<"literal">>)
<1> DEFINE p == At(mode, stack)
<1>1. p.mode \in ValueModes
  BY AtFields
<1>2. Complete(p, <<"literal">>) = Result(stack, <<"literal">>)
  BY CompleteAt
<1>3. Run(p, <<"keyword">>) = Step(p, "keyword")
  BY RunOne
<1> HIDE DEF p
<1>4. Step(p, "keyword") = Complete(p, <<"literal">>)
  BY <1>1, ValueSteps, Zenon
<1> QED BY <1>2, <1>3, <1>4, Zenon DEF p

\* The comma after an item or a member, and what follows it.
LEMMA AfterComma ==
    ASSUME NEW stack \in Stacks, NEW top \in SortedContainers
    PROVE  Step(At("after", Append(stack, top)), Comma)
             = At(IF top.kind = "object" THEN "key" ELSE "value", Append(stack, top))
<1> DEFINE p == At("after", Append(stack, top))
           next == IF top.kind = "object" THEN "key" ELSE "value"
<1>1. p.mode = "after"
  BY AtFields
<1>2. InObject(p) <=> top.kind = "object"
  BY KindAt
<1>3. Expect(p, next) = At(next, Append(stack, top))
  BY ExpectAt
<1> HIDE DEF p
<1>4. Step(p, Comma) = Expect(p, IF InObject(p) THEN "key" ELSE "value")
  BY <1>1, CommaStep, Zenon DEF Comma
<1>5. (IF InObject(p) THEN "key" ELSE "value") = next
  BY <1>2, Zenon
<1> HIDE DEF next
<1> QED BY <1>3, <1>4, <1>5, Zenon DEF p, next

LEMMA NextItem ==
    ASSUME NEW stack \in Stacks, NEW top \in SortedContainers, top.kind = "array",
           NEW mode \in ValueModes, NEW w, Readable(w), NEW c \in Enders
    PROVE  Step(Run(At(mode, Append(stack, top)), Canonical[w]), c)
             = Step(At("after", Append(stack,
                      Container("array", Append(top.items, Sorted[w]), top.key))), c)
<1>1. Append(stack, top) \in Stacks
  BY Pushed
<1>2. Step(Run(At(mode, Append(stack, top)), Canonical[w]), c)
        = Step(Result(Append(stack, top), Sorted[w]), c)
  BY <1>1, Zenon DEF Readable
<1>3. (IF top.kind = "object" THEN <<top.key, Sorted[w]>> ELSE Sorted[w]) = Sorted[w]
  OBVIOUS
<1>4. Result(Append(stack, top), Sorted[w])
        = At("after", Append(stack, Container("array", Append(top.items, Sorted[w]), top.key)))
  BY <1>3, ResultPushed, Zenon
<1> QED BY <1>2, <1>4, Zenon

LEMMA NextMember ==
    ASSUME NEW stack \in Stacks, NEW top \in SortedContainers, top.kind = "object",
           NEW mode \in NameModes, NEW name \in ValidStrings, name \notin Names(top),
           NEW w \in Value, Readable(w), NEW c \in Enders
    PROVE  Step(Run(At(mode, Append(stack, top)), StringText(name) \o <<":">> \o Canonical[w]), c)
             = Step(At("after", Append(stack,
                      Container("object", Append(top.items, <<name, Sorted[w]>>), name))), c)
<1> DEFINE p == At(mode, Append(stack, top))
           named == Container("object", top.items, name)
           colon == <<":">>
           quoted == StringText(name)
<1>1. named \in SortedContainers /\ named.kind = "object" /\ named.items = top.items
          /\ named.key = name
  <2>1. "object" \in Kinds /\ top.items \in ItemLists
    BY DEF SortedContainers, Kinds
  <2> QED BY <2>1, ContainerType
<1>2. Run(p, quoted) = At("colon", Append(stack, named))
  BY StringName
<1>3. Expect(At("colon", Append(stack, named)), "value") = At("value", Append(stack, named))
  BY ExpectAt
<1>4. At("colon", Append(stack, named)).mode = "colon"
  BY AtFields
<1>5. Append(stack, named) \in Stacks
  BY <1>1, Pushed
<1>6. quoted \in Texts /\ colon \in Texts /\ Canonical[w] \in Texts
  <2>1. quoted \in Texts
    BY StringTexts DEF ValidStrings
  <2>2. colon \in Texts
    BY SymbolTypes, OneText, Zenon
  <2> QED BY <2>1, <2>2, CanonicalTexts
<1>7. Run(At("colon", Append(stack, named)), colon) = Step(At("colon", Append(stack, named)), ":")
  BY RunOne
<1> HIDE DEF p, named, colon, quoted
<1>8. quoted \o colon \in Texts
  BY <1>6, ConcatText
<1>9. Run(p, quoted \o colon) = At("value", Append(stack, named))
  <2>1. Run(p, quoted \o colon) = Run(Run(p, quoted), colon)
    BY <1>6, RunConcat
  <2>2. Step(At("colon", Append(stack, named)), ":") = At("value", Append(stack, named))
    BY <1>3, <1>4, ColonStep, Zenon
  <2> QED BY <1>2, <1>7, <2>1, <2>2, Zenon
<1>10. Run(p, (quoted \o colon) \o Canonical[w])
           = Run(At("value", Append(stack, named)), Canonical[w])
  <2>1. Run(p, (quoted \o colon) \o Canonical[w]) = Run(Run(p, quoted \o colon), Canonical[w])
    BY <1>6, <1>8, RunConcat
  <2> QED BY <1>9, <2>1, Zenon
<1>11. Step(Run(At("value", Append(stack, named)), Canonical[w]), c)
         = Step(Result(Append(stack, named), Sorted[w]), c)
  BY <1>5, Zenon DEF Readable, ValueModes
<1>12. Result(Append(stack, named), Sorted[w])
         = At("after", Append(stack,
               Container("object", Append(top.items, <<name, Sorted[w]>>), name)))
  <2>1. (IF named.kind = "object" THEN <<named.key, Sorted[w]>> ELSE Sorted[w])
            = <<name, Sorted[w]>>
    BY <1>1
  <2> QED BY <1>1, <2>1, ResultPushed, Zenon
<1> QED BY <1>10, <1>11, <1>12, Zenon DEF p, colon, quoted

LEMMA SortedItem ==
    ASSUME NEW w \in Value
    PROVE  Sorted[w] \in SortedValues
BY DEF SortedValues

\* From the opening symbol of a container to the one that closes it.
LEMMA ContainerRun ==
    ASSUME NEW stack \in Stacks, NEW mode \in ValueModes, NEW kind \in Kinds,
           NEW open, NEW close, NEW text \in Texts, NEW items \in ItemLists,
               NEW key \in ValidStrings,
           <<open>> \in Texts, <<close>> \in Texts,
           Step(At(mode, stack), open) = Open(At(mode, stack), kind),
           Step(Run(At(OpenMode(kind), Append(stack, Container(kind, <<>>, <<>>))), text), close)
             = Close(At("after", Append(stack, Container(kind, items, key))))
    PROVE  Run(At(mode, stack), <<open>> \o text \o <<close>>) = Result(stack, <<kind, items>>)
<1> DEFINE p == At(mode, stack)
           q == At(OpenMode(kind), Append(stack, Container(kind, <<>>, <<>>)))
           top == Container(kind, items, key)
           first == <<open>>
           last == <<close>>
<1>1. Open(p, kind) = q
  BY OpenAt
<1>2. top \in SortedContainers /\ top.kind = kind /\ top.items = items
  BY ContainerType
<1>3. Close(At("after", Append(stack, top))) = Result(stack, <<kind, items>>)
  BY <1>2, CloseAt, Zenon
<1>4. Run(p, first) = Step(p, open) /\ \A r : Run(r, last) = Step(r, close)
  BY RunOne
<1>5. Run(p, first \o text) = Run(Run(p, first), text) /\ first \o text \in Texts
  BY RunConcat, ConcatText
<1> HIDE DEF p, q, first, last, top
<1>6. Run(p, (first \o text) \o last) = Run(Run(p, first \o text), last)
  BY <1>5, RunConcat DEF last
<1>7. Run(p, (first \o text) \o last) = Step(Run(q, text), close)
  <2>1. Run(p, first) = q
    BY <1>1, <1>4, Zenon DEF p
  <2> QED BY <1>4, <1>5, <1>6, <2>1, Zenon
<1> QED BY <1>3, <1>7, Zenon DEF p, q, first, last, top

LEMMA EmptyList == <<>> \in ItemLists /\ "array" \in Kinds /\ "object" \in Kinds
BY DEF ItemLists, Kinds

LEMMA CloseSymbols ==
    ASSUME NEW stack \in Stacks, NEW items \in ItemLists, NEW key \in ValidStrings
    PROVE  /\ \A mode \in ArrayEnds :
                 Step(At(mode, Append(stack, Container("array", items, key))), "]")
                   = Close(At(mode, Append(stack, Container("array", items, key))))
           /\ \A mode \in ObjectEnds :
                 Step(At(mode, Append(stack, Container("object", items, key))), "}")
                   = Close(At(mode, Append(stack, Container("object", items, key))))
<1>1. ASSUME NEW mode, mode \in ArrayEnds
      PROVE  Step(At(mode, Append(stack, Container("array", items, key))), "]")
               = Close(At(mode, Append(stack, Container("array", items, key))))
  <2> DEFINE top == Container("array", items, key)
             p == At(mode, Append(stack, top))
  <2>1. top \in SortedContainers /\ top.kind = "array"
    BY EmptyList, ContainerType, SMT
  <2> HIDE DEF top
  <2>2. InArray(p)
    BY <2>1, KindAt, Zenon
  <2>3. p.mode = mode
    BY AtFields, Zenon
  <2> HIDE DEF p
  <2>4. Step(p, "]") = Close(p)
    BY <1>1, <2>2, <2>3, CloseSteps, Zenon
  <2> QED BY <2>4, Zenon DEF p, top
<1>2. ASSUME NEW mode, mode \in ObjectEnds
      PROVE  Step(At(mode, Append(stack, Container("object", items, key))), "}")
               = Close(At(mode, Append(stack, Container("object", items, key))))
  <2> DEFINE top == Container("object", items, key)
             p == At(mode, Append(stack, top))
  <2>1. top \in SortedContainers /\ top.kind = "object"
    BY EmptyList, ContainerType, SMT
  <2> HIDE DEF top
  <2>2. InObject(p)
    BY <2>1, KindAt, Zenon
  <2>3. p.mode = mode
    BY AtFields, Zenon
  <2> HIDE DEF p
  <2>4. Step(p, "}") = Close(p)
    BY <1>2, <2>2, <2>3, CloseSteps, Zenon
  <2> QED BY <2>4, Zenon DEF p, top
<1> QED BY <1>1, <1>2, Zenon

\* If the items can be read, the array can.
LEMMA ArrayReads ==
    ASSUME NEW S, S \subseteq Value, \A w \in S : Readable(w),
           NEW items \in Seq(S), <<"array", items>> \in Value,
           NEW stack \in Stacks, NEW mode \in ValueModes
    PROVE  Run(At(mode, stack), Canonical[<<"array", items>>])
             = Result(stack, Sorted[<<"array", items>>])
<1> DEFINE n == Len(items)
           texts == ItemTexts(items)
           sorted == SortedItems(items)
           text == Separated(texts)
           top(i) == Container("array", SubSeq(sorted, 1, i), <<>>)
           g == [i \in 0..n |-> At("after", Append(stack, top(i)))]
           q == At(OpenMode("array"), Append(stack, Container("array", <<>>, <<>>)))
<1>1. n \in Nat /\ DOMAIN items = 1..n /\ \A i \in 1..n : items[i] \in S
  BY ArrayItems
<1>2. texts \in TextLists /\ Len(texts) = n /\ \A i \in 1..n : texts[i] = Canonical[items[i]]
  <2>1. \A i \in 1..n : Canonical[items[i]] \in Texts
    BY <1>1, CanonicalTexts
  <2> QED BY <1>1, <2>1 DEF ItemTexts, TextLists
<1>3. sorted \in ItemLists /\ Len(sorted) = n /\ \A i \in 1..n : sorted[i] = Sorted[items[i]]
  <2>1. \A i \in 1..n : Sorted[items[i]] \in Items
    BY <1>1, SortedItem DEF Items
  <2> QED BY <1>1, <2>1 DEF SortedItems, ItemLists
<1>4. text \in Texts
  BY <1>2, SeparatedText DEF TextLists
<1>5. \A i \in 0..n : SubSeq(sorted, 1, i) \in ItemLists
  <2>1. \A i \in 0..n : SubSeq(sorted, 1, i) \in Seq(Items)
    BY <1>1, <1>3 DEF ItemLists
  <2> QED BY <2>1 DEF ItemLists
<1>6. \A i \in 0..n : /\ top(i) \in SortedContainers /\ top(i).kind = "array"
                     /\ top(i).items = SubSeq(sorted, 1, i) /\ top(i).key = <<>>
  <2> SUFFICES ASSUME NEW i \in 0..n
               PROVE  /\ top(i) \in SortedContainers /\ top(i).kind = "array"
                      /\ top(i).items = SubSeq(sorted, 1, i) /\ top(i).key = <<>>
    OBVIOUS
  <2> DEFINE part == SubSeq(sorted, 1, i)
  <2>1. part \in ItemLists
    BY <1>5
  <2> HIDE DEF part
  <2>2. /\ Container("array", part, <<>>) \in SortedContainers
               /\ Container("array", part, <<>>).kind = "array"
        /\ Container("array", part, <<>>).items = part
               /\ Container("array", part, <<>>).key = <<>>
    BY <2>1, EmptyList, EmptyValid, ContainerType
  <2> QED BY <2>2 DEF part
<1>7. top(0) = Container("array", <<>>, <<>>) /\ SubSeq(sorted, 1, n) = sorted
  <2>1. SubSeq(sorted, 1, 0) = <<>> /\ SubSeq(sorted, 1, n) = sorted
    BY <1>3 DEF ItemLists
  <2> QED BY <2>1
<1>8. \A i \in 0..n : g[i] = At("after", Append(stack, top(i)))
  OBVIOUS
<1>9. \A i \in 1..n : Append(SubSeq(sorted, 1, i - 1), Sorted[items[i]]) = SubSeq(sorted, 1, i)
  BY <1>3 DEF ItemLists
<1> HIDE DEF n, texts, sorted, text, top, g
<1>10. ASSUME NEW m \in ValueModes, NEW i \in 1..n, NEW c \in Enders
       PROVE  Step(Run(At(m, Append(stack, top(i - 1))), texts[i]), c) = Step(g[i], c)
  <2>1. i - 1 \in 0..n /\ i \in 0..n
    BY <1>1
  <2>2. Readable(items[i])
    BY <1>1
  <2>3. Step(Run(At(m, Append(stack, top(i - 1))), Canonical[items[i]]), c)
          = Step(At("after", Append(stack,
                   Container("array",
                       Append(top(i - 1).items, Sorted[items[i]]), top(i - 1).key))), c)
    BY <1>6, <2>1, <2>2, NextItem
  <2>4. Container("array", Append(top(i - 1).items, Sorted[items[i]]), top(i - 1).key) = top(i)
    BY <1>6, <1>9, <2>1 DEF top
  <2> QED BY <1>2, <1>8, <2>1, <2>3, <2>4
<1>11. q = At("first item", Append(stack, top(0)))
  BY <1>7, OpenModes, Zenon
<1>0. "value" \in ValueModes
  BY Zenon DEF ValueModes
<1>12. "first item" \in ValueModes /\ "]" \in Enders
       /\ "first item" \in ArrayEnds /\ "after" \in ArrayEnds
  BY Zenon DEF ValueModes, Enders, ArrayEnds
<1> DEFINE last == At("after", Append(stack, Container("array", sorted, <<>>)))
<1>13. Step(Run(q, text), "]") = Close(last)
  <2>1. CASE n = 0
    <3>1. text = <<>> /\ sorted = <<>>
      <4>1. PICK h : h[0] = <<>> /\ Separated(texts) = h[Len(texts)]
        BY <1>1, <1>2, Joined
      <4> QED BY <1>2, <1>3, <2>1, <4>1 DEF text, ItemLists
    <3>2. Run(q, text) = At("first item", Append(stack, top(0)))
      BY <1>11, <3>1, RunEmpty, Zenon
    <3>3. top(0) = Container("array", <<>>, <<>>) /\ top(0) = Container("array", sorted, <<>>)
      BY <1>7, <3>1, Zenon
    <3>4. Step(At("first item", Append(stack, top(0))), "]")
              = Close(At("first item", Append(stack, top(0))))
      BY <1>12, <3>3, EmptyList, EmptyValid, CloseSymbols, Zenon
    <3>5. \A m : Close(At(m,
              Append(stack, top(0)))) = Result(stack, <<top(0).kind, top(0).items>>)
      BY <1>1, <1>6, CloseAt
    <3> QED BY <3>2, <3>3, <3>4, <3>5, Zenon
  <2>2. CASE n > 0
    <3>1. \A c \in Enders : Step(Run(q, texts[1]), c) = Step(g[1], c)
      <4>1. 1 \in 1..n /\ 1 - 1 = 0
        BY <1>1, <2>2
      <4>2. \A c \in Enders : \A m \in ValueModes :
               Step(Run(At(m, Append(stack, top(0))), texts[1]), c) = Step(g[1], c)
        BY <1>10, <4>1
      <4> QED BY <1>11, <1>12, <4>2, Zenon
    <3>2. ASSUME NEW i \in 1..(n - 1), NEW c \in Enders
          PROVE  Step(Run(Step(g[i], Comma), texts[i + 1]), c) = Step(g[i + 1], c)
      <4>1. i \in 0..n /\ i + 1 \in 1..n /\ i + 1 - 1 = i
        BY <1>1
      <4>2. Step(g[i], Comma) = At("value", Append(stack, top(i)))
        BY <1>6, <1>8, <4>1, AfterComma
      <4>3. Step(Run(At("value", Append(stack, top(i + 1 - 1))), texts[i + 1]), c)
                = Step(g[i + 1], c)
        BY <1>0, <1>10, <4>1
      <4> QED BY <4>1, <4>2, <4>3
    <3>3. \A c \in Enders : Step(Run(q, text), c) = Step(g[n], c)
      <4> HIDE DEF q
      <4>1. texts \in TextLists /\ Len(texts) = n /\ Len(texts) > 0
        BY <1>2, <2>2
      <4>2. \A i \in 1..(Len(texts) - 1) : \A c \in Enders :
               Step(Run(Step(g[i], Comma), texts[i + 1]), c) = Step(g[i + 1], c)
        BY <3>2, <4>1
      <4>3. \A c \in Enders : Step(Run(q, Separated(texts)), c) = Step(g[Len(texts)], c)
        BY <3>1, <4>1, <4>2, LoopRun
      <4> QED BY <4>1, <4>3 DEF text
    <3>4. g[n] = last
      <4>1. n \in 0..n
        BY <1>1
      <4> QED BY <1>7, <1>8, <4>1 DEF top
    <3>5. Step(last, "]") = Close(last)
      BY <1>3, <1>12, EmptyValid, CloseSymbols
    <3> QED BY <1>12, <3>3, <3>4, <3>5, Zenon
  <2> QED BY <1>1, <2>1, <2>2
<1>14. Step(At(mode, stack), "[") = Open(At(mode, stack), "array")
  <2>1. At(mode, stack).mode \in ValueModes
    BY AtFields
  <2> QED BY <2>1, ValueSteps, Zenon
<1>15. <<"[">> \in Texts /\ <<"]">> \in Texts
  BY SymbolTypes, OneText, Zenon
<1>16. Run(At(mode, stack), <<"[">> \o text \o <<"]">>) = Result(stack, <<"array", sorted>>)
  BY <1>3, <1>4, <1>13, <1>14, <1>15, EmptyList, EmptyValid, ContainerRun
<1>17. Canonical[<<"array", items>>] = <<"[">> \o text \o <<"]">>
       /\ Sorted[<<"array", items>>] = <<"array", sorted>>
  BY ArrayForms DEF text, texts, sorted
<1> QED BY <1>16, <1>17, Zenon

LEMMA PrefixGrows ==
    ASSUME NEW list \in ItemLists, NEW i \in 1..Len(list)
    PROVE  Append(SubSeq(list, 1, i - 1), list[i]) = SubSeq(list, 1, i)
BY DEF ItemLists

\* If the values of an object can be read, so can the object: each of its sorted
\* names is new to the parser, which knows those before it.
LEMMA ObjectReads ==
    ASSUME NEW S, S \subseteq Value, \A w \in S : Readable(w),
           NEW members \in MemberLists(S), <<"object", members>> \in Value,
           NEW stack \in Stacks, NEW mode \in ValueModes
    PROVE  Run(At(mode, stack), Canonical[<<"object", members>>])
             = Result(stack, Sorted[<<"object", members>>])
<1> DEFINE list == SortMembers(members)
           n == Len(list)
           texts == MemberTexts(list)
           sorted == SortedMembers(list)
           text == Separated(texts)
           key(i) == IF i = 0 THEN <<>> ELSE list[i][1]
           top(i) == Container("object", SubSeq(sorted, 1, i), key(i))
           g == [i \in 0..n |-> At("after", Append(stack, top(i)))]
           q == At(OpenMode("object"), Append(stack, Container("object", <<>>, <<>>)))
<1>0. list \in MemberLists(S)
  BY SortLists
<1>1. /\ n \in Nat /\ DOMAIN list = 1..n
      /\ \A i \in 1..n : list[i] = <<list[i][1], list[i][2]>> /\ list[i][1] \in ValidStrings
                         /\ list[i][1] \in Seq(Units) /\ list[i][2] \in S
      /\ \A i, j \in 1..n : list[i][1] = list[j][1] => i = j
  <2> HIDE DEF list
  <2>1. n \in Nat /\ DOMAIN list = 1..n
    BY <1>0, MemberNames
  <2> QED BY <1>0, <2>1, MemberNames
<1> HIDE DEF list
<1>2. /\ texts \in TextLists /\ Len(texts) = n
      /\ \A i \in 1..n : texts[i] = StringText(list[i][1]) \o <<":">> \o Canonical[list[i][2]]
  <2> DEFINE part(i) == StringText(list[i][1]) \o <<":">> \o Canonical[list[i][2]]
  <2>1. ASSUME NEW i \in 1..n PROVE part(i) \in Texts
    <3>1. StringText(list[i][1]) \in Texts /\ Canonical[list[i][2]] \in Texts
      BY <1>1, CanonicalTexts, StringTexts
    <3>2. <<":">> \in Texts
      BY SymbolTypes, OneText, Zenon
    <3> QED BY <3>1, <3>2, ConcatText
  <2>2. texts = [i \in 1..n |-> part(i)]
    BY <1>1 DEF MemberTexts
  <2> HIDE DEF part, texts
  <2>3. texts \in TextLists /\ Len(texts) = n /\ \A i \in 1..n : texts[i] = part(i)
    BY <1>1, <2>1, <2>2 DEF TextLists
  <2> QED BY <2>3 DEF part
<1>3. sorted \in ItemLists /\ Len(sorted) = n
      /\ \A i \in 1..n : sorted[i] = <<list[i][1], Sorted[list[i][2]]>>
  <2>1. \A i \in 1..n : <<list[i][1], Sorted[list[i][2]]>> \in Items
    BY <1>1, SortedItem DEF Items
  <2> QED BY <1>1, <2>1 DEF SortedMembers, ItemLists
<1>4. text \in Texts
  BY <1>2, SeparatedText DEF TextLists
<1> HIDE DEF sorted, text, texts
<1>5. \A i \in 0..n : SubSeq(sorted, 1, i) \in ItemLists
  <2>1. \A i \in 0..n : SubSeq(sorted, 1, i) \in Seq(Items)
    BY <1>1, <1>3 DEF ItemLists
  <2> QED BY <2>1 DEF ItemLists
<1>6. ASSUME NEW i \in 0..n
      PROVE  /\ top(i) \in SortedContainers /\ top(i).kind = "object"
             /\ top(i).items = SubSeq(sorted, 1, i)
  <2> DEFINE part == SubSeq(sorted, 1, i)
             name == key(i)
  <2>1. part \in ItemLists /\ name \in ValidStrings
    BY <1>1, <1>5, EmptyValid
  <2> HIDE DEF part, name
  <2>2. /\ Container("object", part, name) \in SortedContainers
               /\ Container("object", part, name).kind = "object"
        /\ Container("object", part, name).items = part
    BY <2>1, EmptyList, EmptyValid, ContainerType
  <2> QED BY <2>2 DEF part, name
<1>7. top(0) = Container("object", <<>>, <<>>) /\ SubSeq(sorted, 1, n) = sorted
  <2>1. SubSeq(sorted, 1, 0) = <<>> /\ SubSeq(sorted, 1, n) = sorted
    BY <1>3 DEF ItemLists
  <2> QED BY <2>1
<1>8. \A i \in 0..n : g[i] = At("after", Append(stack, top(i)))
  OBVIOUS
<1>9. ASSUME NEW i \in 1..n
      PROVE  /\ Append(SubSeq(sorted, 1, i - 1), <<list[i][1], Sorted[list[i][2]]>>)
                    = SubSeq(sorted, 1, i)
             /\ list[i][1] \notin Names(top(i - 1))
  <2>1. Append(SubSeq(sorted, 1, i - 1), <<list[i][1], Sorted[list[i][2]]>>)
            = SubSeq(sorted, 1, i)
    <3>1. i \in 1..Len(sorted) /\ sorted[i] = <<list[i][1], Sorted[list[i][2]]>>
      BY <1>3
    <3> QED BY <1>3, <3>1, PrefixGrows
  <2>2. ASSUME NEW j \in DOMAIN SubSeq(sorted, 1, i - 1)
        PROVE  SubSeq(sorted, 1, i - 1)[j][1] # list[i][1]
    <3>1. j \in 1..(i - 1) /\ SubSeq(sorted, 1, i - 1)[j] = sorted[j]
      BY <1>1, <1>3 DEF ItemLists
    <3>2. j \in 1..n /\ j # i
      BY <3>1, <1>1
    <3>3. sorted[j][1] = list[j][1]
      BY <1>3, <3>2
    <3> QED BY <1>1, <3>1, <3>2, <3>3
  <2>3. top(i - 1).items = SubSeq(sorted, 1, i - 1)
    <3>1. i - 1 \in 0..n
      BY <1>1
    <3> QED BY <1>6, <3>1
  <2>4. list[i][1] \notin Names(top(i - 1))
    <3> DEFINE t == top(i - 1)
               part == SubSeq(sorted, 1, i - 1)
    <3> HIDE DEF t, part
    <3>1. t.items = part /\ \A j \in DOMAIN part : part[j][1] # list[i][1]
      BY <2>2, <2>3 DEF t, part
    <3>2. list[i][1] \notin Names(t)
      BY <3>1 DEF Names
    <3> QED BY <3>2 DEF t
  <2> QED BY <2>1, <2>4
<1> HIDE DEF top, g, n
<1>10. ASSUME NEW m \in NameModes, NEW i \in 1..n, NEW c \in Enders
       PROVE  Step(Run(At(m, Append(stack, top(i - 1))), texts[i]), c) = Step(g[i], c)
  <2> DEFINE t == top(i - 1)
             name == list[i][1]
             w == list[i][2]
             s == Sorted[w]
  <2>1. i - 1 \in 0..n /\ i \in 0..n /\ i # 0
    BY <1>1
  <2>2. name \in ValidStrings /\ w \in Value /\ Readable(w) /\ name \notin Names(t)
    BY <1>1, <1>9
  <2>3. t \in SortedContainers /\ t.kind = "object" /\ t.items = SubSeq(sorted, 1, i - 1)
    BY <1>6, <2>1
  <2>4. Container("object", Append(t.items, <<name, s>>), name) = top(i)
    BY <1>9, <2>1, <2>3 DEF top
  <2>5. texts[i] = StringText(name) \o <<":">> \o Canonical[w]
    BY <1>2
  <2> HIDE DEF t, name, w, s
  <2>6. Step(Run(At(m, Append(stack, t)), StringText(name) \o <<":">> \o Canonical[w]), c)
          = Step(At("after", Append(stack,
                Container("object", Append(t.items, <<name, s>>), name))), c)
    BY <2>2, <2>3, NextMember DEF s
  <2>7. g[i] = At("after", Append(stack, top(i)))
    BY <1>8, <2>1
  <2> QED BY <2>4, <2>5, <2>6, <2>7, Zenon DEF t
<1>11. q = At("first key", Append(stack, top(0)))
  BY <1>7, OpenModes, Zenon
<1>12. "first key" \in NameModes /\ "}" \in Enders
       /\ "first key" \in ObjectEnds /\ "after" \in ObjectEnds
  BY Zenon DEF NameModes, Enders, ObjectEnds
<1>13. "key" \in NameModes
  BY Zenon DEF NameModes
<1> DEFINE name == key(n)
           last == At("after", Append(stack, Container("object", sorted, name)))
<1>14. name \in ValidStrings
  BY <1>1, EmptyValid
<1>15. Step(Run(q, text), "}") = Close(last)
  <2>1. CASE n = 0
    <3>1. text = <<>> /\ sorted = <<>> /\ name = <<>>
      <4>1. PICK h : h[0] = <<>> /\ Separated(texts) = h[Len(texts)]
        BY <1>1, <1>2, Joined
      <4> QED BY <1>2, <1>3, <2>1, <4>1 DEF text, ItemLists
    <3> HIDE DEF q, name
    <3>2. Run(q, text) = At("first key", Append(stack, top(0)))
      BY <1>11, <3>1, RunEmpty, Zenon
    <3>3. top(0) = Container("object", <<>>, <<>>) /\ top(0) = Container("object", sorted, name)
      BY <1>7, <3>1, Zenon
    <3>4. Step(At("first key", Append(stack, top(0))), "}")
              = Close(At("first key", Append(stack, top(0))))
      BY <1>12, <3>3, EmptyList, EmptyValid, CloseSymbols, Zenon
    <3>5. \A m : Close(At(m,
              Append(stack, top(0)))) = Result(stack, <<top(0).kind, top(0).items>>)
      BY <1>1, <1>6, CloseAt
    <3> QED BY <3>2, <3>3, <3>4, <3>5, Zenon
  <2>2. CASE n > 0
    <3>1. \A c \in Enders : Step(Run(q, texts[1]), c) = Step(g[1], c)
      <4>1. 1 \in 1..n /\ 1 - 1 = 0
        BY <1>1, <2>2
      <4>2. \A c \in Enders : \A m \in NameModes :
               Step(Run(At(m, Append(stack, top(0))), texts[1]), c) = Step(g[1], c)
        BY <1>10, <4>1
      <4> QED BY <1>11, <1>12, <4>2, Zenon
    <3>2. ASSUME NEW i \in 1..(n - 1), NEW c \in Enders
          PROVE  Step(Run(Step(g[i], Comma), texts[i + 1]), c) = Step(g[i + 1], c)
      <4>1. i \in 0..n /\ i + 1 \in 1..n /\ i + 1 - 1 = i
        BY <1>1
      <4>2. Step(g[i], Comma) = At("key", Append(stack, top(i)))
        BY <1>6, <1>8, <4>1, AfterComma
      <4>3. Step(Run(At("key", Append(stack, top(i + 1 - 1))), texts[i + 1]), c)
                = Step(g[i + 1], c)
        BY <1>10, <1>13, <4>1
      <4> QED BY <4>1, <4>2, <4>3
    <3>3. \A c \in Enders : Step(Run(q, text), c) = Step(g[n], c)
      <4> HIDE DEF q
      <4>1. texts \in TextLists /\ Len(texts) = n /\ Len(texts) > 0
        BY <1>2, <2>2
      <4>2. \A i \in 1..(Len(texts) - 1) : \A c \in Enders :
               Step(Run(Step(g[i], Comma), texts[i + 1]), c) = Step(g[i + 1], c)
        BY <3>2, <4>1
      <4>3. \A c \in Enders : Step(Run(q, Separated(texts)), c) = Step(g[Len(texts)], c)
        BY <3>1, <4>1, <4>2, LoopRun
      <4> QED BY <4>1, <4>3 DEF text
    <3>4. g[n] = last
      <4>1. n \in 0..n
        BY <1>1
      <4> QED BY <1>7, <1>8, <4>1 DEF top
    <3> HIDE DEF name
    <3>5. Step(last, "}") = Close(last)
      BY <1>3, <1>12, <1>14, CloseSymbols, Zenon
    <3> QED BY <1>12, <3>3, <3>4, <3>5, Zenon
  <2>3. n = 0 \/ n > 0
    BY <1>1
  <2> QED BY <2>1, <2>2, <2>3, Zenon
<1> DEFINE open == "{"
           close == "}"
<1>16. Step(At(mode, stack), open) = Open(At(mode, stack), "object")
  <2>1. At(mode, stack).mode \in ValueModes
    BY AtFields
  <2> QED BY <2>1, ValueSteps, Zenon
<1>17. <<open>> \in Texts /\ <<close>> \in Texts
  BY SymbolTypes, OneText, Zenon
<1>18. Step(Run(q, text), close) = Close(last)
  BY <1>15
<1> HIDE DEF name, open, close
<1>19. Run(At(mode, stack), <<open>> \o text \o <<close>>) = Result(stack, <<"object", sorted>>)
  BY <1>3, <1>4, <1>14, <1>16, <1>17, <1>18, EmptyList, ContainerRun
<1>20. Canonical[<<"object", members>>] = <<open>> \o text \o <<close>>
       /\ Sorted[<<"object", members>>] = <<"object", sorted>>
  BY ObjectForms, Zenon DEF text, texts, sorted, list, open, close
<1> QED BY <1>19, <1>20, Zenon
-----------------------------------------------------------------------------
\* Wherever a value may stand, the canonical text of one is read to its end and
\* leaves the value, its members sorted: StringText and UnitText escape neither
\* too little for the parser nor a unit into another one.
THEOREM CanonicalReads == \A v \in Value : Readable(v)
<1> DEFINE C == {v \in Value : Readable(v)}
<1>1. ASSUME NEW v \in Value, NEW S \in SUBSET (C \cap Value), BuiltFrom(v, S)
      PROVE  v \in C
  <2>0. S \subseteq Value /\ \A w \in S : Readable(w)
    OBVIOUS
  <2> HIDE DEF C
  <2>1. ASSUME v \in {<<"literal">>, <<"number", "0">>, <<"number", "1">>}
        PROVE  Readable(v)
    <3>1. CASE v = <<"literal">>
      <4>1. Canonical[v] = <<"keyword">> /\ Sorted[v] = <<"literal">>
        BY <3>1, LeafForms
      <4> QED BY <4>1, LiteralReads, Zenon DEF Readable
    <3>2. CASE v = <<"number", "0">>
      <4>1. Canonical[v] = <<"0">> /\ Sorted[v] = <<"number", "0">>
        BY <3>2, LeafForms
      <4> QED BY <4>1, NumberReads, Zenon DEF Readable
    <3>3. CASE v = <<"number", "1">>
      <4>1. Canonical[v] = <<"1">> /\ Sorted[v] = <<"number", "1">>
        BY <3>3, LeafForms
      <4> QED BY <4>1, NumberReads, Zenon DEF Readable
    <3> QED BY <2>1, <3>1, <3>2, <3>3
  <2>2. ASSUME NEW s \in ValidStrings, v = <<"string", s>>
        PROVE  Readable(v)
    <3>1. Canonical[v] = StringText(s) /\ Sorted[v] = <<"string", s>>
      BY <2>2, LeafForms
    <3> QED BY <3>1, StringValue, Zenon DEF Readable
  <2>3. ASSUME NEW items \in Seq(S), v = <<"array", items>>
        PROVE  Readable(v)
    <3>1. \A stack \in Stacks, mode \in ValueModes :
             Run(At(mode, stack), Canonical[v]) = Result(stack, Sorted[v])
      BY <2>0, <2>3, ArrayReads
    <3> QED BY <3>1, Zenon DEF Readable
  <2>4. ASSUME NEW members \in MemberLists(S), v = <<"object", members>>
        PROVE  Readable(v)
    <3>1. \A stack \in Stacks, mode \in ValueModes :
             Run(At(mode, stack), Canonical[v]) = Result(stack, Sorted[v])
      BY <2>0, <2>4, ObjectReads
    <3> QED BY <3>1, Zenon DEF Readable
  <2> QED BY <1>1, <2>1, <2>2, <2>3, <2>4, Zenon DEF BuiltFrom, C
<1> HIDE DEF C
<1>2. Value \subseteq C
  BY <1>1, ValueInduction
<1> QED BY <1>2 DEF C

\* The canonical text of a value is accepted and read as the value sorted.
THEOREM CanonicalAccepted ==
    ASSUME NEW v \in Value
    PROVE  Parse(Canonical[v]).mode = "accepted" /\ Parse(Canonical[v]).value = Sorted[v]
<1> DEFINE eof == "eof"
           end == Ended(Sorted[v])
<1>1. <<>> \in Stacks
  BY DEF Stacks
<1>2. "value" \in ValueModes /\ eof \in Enders
  BY Zenon DEF ValueModes, Enders
<1>3. Start = At("value", <<>>)
  BY Zenon DEF Start, At, In, Off, NoCode
<1>4. Step(Run(Start, Canonical[v]), eof) = Step(Result(<<>>, Sorted[v]), eof)
  BY <1>1, <1>2, <1>3, CanonicalReads, Zenon DEF Readable
<1>5. Parse(Canonical[v]) = Step(Run(Start, Canonical[v]), eof)
  BY CanonicalTexts, ParseIs, Zenon
<1>6. Result(<<>>, Sorted[v]) = end
  BY ResultEnded
<1>7. end.mode = "end" /\ Expect(end, "accepted").mode = "accepted"
      /\ Expect(end, "accepted").value = Sorted[v]
  BY DEF Ended, Expect
<1> HIDE DEF end, eof
<1>8. Step(end, eof) = Expect(end, "accepted")
  BY <1>7, EndStep, Zenon DEF eof
<1> QED BY <1>4, <1>5, <1>6, <1>7, <1>8, Zenon

-----------------------------------------------------------------------------
(* 4. Members in another order.                                            *)

\* Reversed members are the same members.
LEMMA ReversedLists ==
    ASSUME NEW S, NEW T, NEW members \in MemberLists(S), \A w \in S : Reordered[w] \in T
    PROVE  /\ ReorderedMembers(members) \in MemberLists(T)
           /\ Len(ReorderedMembers(members)) = Len(members)
           /\ \A i \in 1..Len(members) :
                 /\ Len(members) - i + 1 \in 1..Len(members)
                 /\ ReorderedMembers(members)[i]
                      = <<members[Len(members) - i + 1][1],
                          Reordered[members[Len(members) - i + 1][2]]>>
<1> DEFINE n == Len(members)
           list == ReorderedMembers(members)
           new == [i \in DOMAIN members |-> <<members[i][1], Reordered[members[i][2]]>>]
<1>1. /\ n \in Nat /\ DOMAIN members = 1..n
      /\ \A i \in 1..n : members[i] = <<members[i][1], members[i][2]>>
                         /\ members[i][1] \in ValidStrings /\ members[i][2] \in S
      /\ \A i, j \in 1..n : members[i][1] = members[j][1] => i = j
  <2>1. n \in Nat /\ DOMAIN members = 1..n
    BY MemberNames
  <2> QED BY <2>1, MemberNames
<1>2. Len(new) = n /\ \A i \in 1..n : new[i] = <<members[i][1], Reordered[members[i][2]]>>
  BY <1>1
<1>3. list = [i \in 1..Len(new) |-> new[Len(new) - i + 1]]
  BY DEF ReorderedMembers, Reverse
<1> HIDE DEF new, list
<1>4. \A i \in 1..n : n - i + 1 \in 1..n
  BY <1>1
<1> HIDE DEF n
<1>5. \A i \in 1..n : list[i] = <<members[n - i + 1][1], Reordered[members[n - i + 1][2]]>>
  BY <1>2, <1>3, <1>4
<1>6. list \in Seq(ValidStrings \X T) /\ Len(list) = n
  <2>1. ASSUME NEW i \in 1..n
        PROVE  list[i] \in ValidStrings \X T
    <3> DEFINE j == n - i + 1
    <3>1. j \in 1..n /\ list[i] = <<members[j][1], Reordered[members[j][2]]>>
      BY <1>4, <1>5
    <3> HIDE DEF j
    <3>2. members[j][1] \in ValidStrings /\ members[j][2] \in S
      BY <1>1, <3>1
    <3> QED BY <3>1, <3>2
  <2>2. list = [i \in 1..n |-> list[i]]
    BY <1>2, <1>3
  <2>3. [i \in 1..n |-> list[i]] \in Seq(ValidStrings \X T) /\ Len([i \in 1..n |-> list[i]]) = n
    BY <1>1, <2>1
  <2> QED BY <2>2, <2>3, Zenon
<1>7. Distinct(list)
  <2> SUFFICES ASSUME NEW i \in 1..n, NEW j \in 1..n, list[i][1] = list[j][1]
               PROVE  i = j
    BY <1>6 DEF Distinct
  <2>1. members[n - i + 1][1] = members[n - j + 1][1]
    BY <1>5
  <2>2. n - i + 1 = n - j + 1
    BY <1>1, <1>4, <2>1
  <2> QED BY <1>1, <2>2
<1> QED BY <1>4, <1>5, <1>6, <1>7 DEF MemberLists, list, n

\* A member ranks the same wherever it stands.
LEMMA ReversedRank ==
    ASSUME NEW S, NEW T, NEW members \in MemberLists(S), \A w \in S : Reordered[w] \in T,
           NEW i \in 1..Len(members)
    PROVE  Rank(ReorderedMembers(members), i) = Rank(members, Len(members) - i + 1)
<1> DEFINE n == Len(members)
           list == ReorderedMembers(members)
           m == n - i + 1
           A == Below(list, i)
           B == Below(members, m)
           f == [j \in A |-> n - j + 1]
<1>1. /\ list \in MemberLists(T) /\ Len(list) = n /\ n \in Nat
      /\ DOMAIN members = 1..n /\ DOMAIN list = 1..n
      /\ \A j \in 1..n : n - j + 1 \in 1..n /\ list[j][1] = members[n - j + 1][1]
  <2>1. n \in Nat /\ DOMAIN members = 1..n
    BY MemberNames
  <2>2. /\ list \in MemberLists(T) /\ Len(list) = n
        /\ \A j \in 1..n : n - j + 1 \in 1..n
              /\ list[j] = <<members[n - j + 1][1], Reordered[members[n - j + 1][2]]>>
    BY ReversedLists
  <2> HIDE DEF list, n
  <2>3. DOMAIN list = 1..n
    BY <2>2, MemberNames
  <2> QED BY <2>1, <2>2, <2>3
<1> HIDE DEF list
<1>2. i \in 1..n /\ m \in 1..n
  BY <1>1
<1> HIDE DEF n
<1>3. \A j \in 1..n : j \in A <=> n - j + 1 \in B
  BY <1>1, <1>2 DEF Below, m
<1>4. A \subseteq 1..n /\ B \subseteq 1..n
  BY <1>1 DEF Below
<1> HIDE DEF A, B, m
<1>5. f \in Bijection(A, B)
  <2>1. f \in [A -> B]
    BY <1>3, <1>4
  <2>2. \A j, k \in A : f[j] = f[k] => j = k
    BY <1>1, <1>4
  <2>3. \A k \in B : \E j \in A : f[j] = k
    <3> SUFFICES ASSUME NEW k \in B PROVE \E j \in A : f[j] = k
      OBVIOUS
    <3>1. n - k + 1 \in 1..n /\ n - (n - k + 1) + 1 = k
      BY <1>1, <1>4
    <3>2. n - k + 1 \in A
      BY <1>3, <3>1
    <3> QED BY <3>1, <3>2
  <2> HIDE DEF f
  <2> QED BY <2>1, <2>2, <2>3 DEF Bijection, Injection, Surjection, IsInjective
<1>6. IsFiniteSet(A)
  BY <1>1, <1>2, BelowFinite DEF A
<1>7. Cardinality(B) = Cardinality(A)
  BY <1>5, <1>6, FS_Bijection DEF ExistsBijection
<1>8. Rank(list, i) = Cardinality(A) /\ Rank(members, m) = Cardinality(B)
  BY <1>1, <1>2, RankBelow DEF A, B
<1> QED BY <1>7, <1>8 DEF list, m, n

ReorderedEach(members) ==
    [i \in DOMAIN members |-> <<members[i][1], Reordered[members[i][2]]>>]

\* Whatever the order of the members, sort gives the same list.
LEMMA ReversedSort ==
    ASSUME NEW S, NEW T, NEW members \in MemberLists(S), \A w \in S : Reordered[w] \in T
    PROVE  SortMembers(ReorderedMembers(members)) = ReorderedEach(SortMembers(members))
<1> DEFINE n == Len(members)
           list == ReorderedMembers(members)
           old == SortMembers(members)
           new == SortMembers(list)
<1>1. /\ list \in MemberLists(T) /\ Len(list) = n /\ n \in Nat /\ DOMAIN members = 1..n
      /\ \A j \in 1..n : n - j + 1 \in 1..n
            /\ list[j] = <<members[n - j + 1][1], Reordered[members[n - j + 1][2]]>>
  <2>1. n \in Nat /\ DOMAIN members = 1..n
    BY MemberNames
  <2>2. /\ list \in MemberLists(T) /\ Len(list) = n
        /\ \A j \in 1..n : n - j + 1 \in 1..n
              /\ list[j] = <<members[n - j + 1][1], Reordered[members[n - j + 1][2]]>>
    BY ReversedLists
  <2> QED BY <2>1, <2>2
<1>2. \A j \in 1..n : Rank(list, j) = Rank(members, n - j + 1)
  BY ReversedRank
<1> HIDE DEF n, list
<1>3. DOMAIN list = 1..n
  BY <1>1, MemberNames
<1>4. DOMAIN old = 1..n /\ \A k \in 1..n :
         /\ From(members, k) \in 1..n /\ Rank(members, From(members, k)) = k - 1
         /\ old[k] = members[From(members, k)]
  BY <1>1, SortFrom DEF n
<1>5. DOMAIN new = 1..n /\ \A k \in 1..n :
         /\ new[k] = list[From(list, k)]
         /\ \A i \in 1..n : Rank(list, i) = k - 1 => i = From(list, k)
  BY <1>1, <1>3, SortFrom
<1> HIDE DEF old, new
<1>6. ASSUME NEW k \in 1..n
      PROVE  new[k] = <<old[k][1], Reordered[old[k][2]]>>
  <2> DEFINE i == From(members, k)
             j == n - i + 1
  <2>1. i \in 1..n /\ Rank(members, i) = k - 1 /\ old[k] = members[i]
    BY <1>4
  <2>2. j \in 1..n /\ n - j + 1 = i
    BY <1>1, <2>1
  <2>3. Rank(list, j) = k - 1
    BY <1>2, <2>1, <2>2
  <2>4. j = From(list, k)
    BY <1>5, <2>2, <2>3
  <2> HIDE DEF i, j
  <2> QED BY <1>1, <1>5, <2>1, <2>2, <2>4
<1>7. new = [k \in 1..n |-> new[k]]
  BY <1>3 DEF new, SortMembers
<1>8. new = [k \in 1..n |-> <<old[k][1], Reordered[old[k][2]]>>]
  BY <1>6, <1>7
<1>9. new = ReorderedEach(old)
  BY <1>4, <1>8 DEF ReorderedEach
<1> QED BY <1>9, Zenon DEF new, old, list

\* Reordering leaves a value of its level.
LEMMA ReorderedLevels ==
    ASSUME NEW n \in 0..(MaxDepth + 1)
    PROVE  \A v \in JsonValues[n] : Reordered[v] \in JsonValues[n]
<1> DEFINE P == {m \in Nat : m <= MaxDepth + 1 =>
                    \A v \in JsonValues[m] : Reordered[v] \in JsonValues[m]}
<1>0. MaxDepth \in Nat
  BY JsonAssumption
<1>1. 0 \in P
  BY Levels
<1>2. ASSUME NEW m \in Nat, m \in P
      PROVE  m + 1 \in P
  <2> DEFINE S == JsonValues[m]
  <2> SUFFICES ASSUME m + 1 <= MaxDepth + 1, NEW v \in JsonValues[m + 1]
               PROVE  Reordered[v] \in JsonValues[m + 1]
    BY <1>0
  <2>1. m \in 0..MaxDepth /\ m + 1 \in 0..(MaxDepth + 1) /\ \A w \in S : Reordered[w] \in S
    BY <1>0, <1>2
  <2>2. BuiltFrom(v, S) /\ v \in Value
    BY <2>1, Levels, LevelsInValue
  <2> HIDE DEF S
  <2>3. BuiltFrom(Reordered[v], S)
    <3>1. CASE v \in {<<"literal">>, <<"number", "0">>, <<"number", "1">>}
      <4>1. Reordered[v] = v
        BY <2>2, <3>1, LeafForms
      <4> QED BY <3>1, <4>1 DEF BuiltFrom
    <3>2. ASSUME NEW s \in ValidStrings, v = <<"string", s>>
          PROVE  BuiltFrom(Reordered[v], S)
      <4>1. Reordered[v] = v
        BY <2>2, <3>2, LeafForms
      <4> QED BY <3>2, <4>1 DEF BuiltFrom
    <3>3. ASSUME NEW items \in Seq(S), v = <<"array", items>>
          PROVE  BuiltFrom(Reordered[v], S)
      <4>1. Reordered[v] = <<"array", ReorderedItems(items)>>
        BY <2>2, <3>3, ArrayForms
      <4>2. ReorderedItems(items) \in Seq(S)
        BY <2>1, ArrayItems DEF ReorderedItems
      <4> QED BY <4>1, <4>2 DEF BuiltFrom
    <3>4. ASSUME NEW members \in MemberLists(S), v = <<"object", members>>
          PROVE  BuiltFrom(Reordered[v], S)
      <4>1. Reordered[v] = <<"object", ReorderedMembers(members)>>
        BY <2>2, <3>4, ObjectForms
      <4>2. ReorderedMembers(members) \in MemberLists(S)
        BY <2>1, ReversedLists
      <4> QED BY <4>1, <4>2 DEF BuiltFrom
    <3> QED BY <2>2, <3>1, <3>2, <3>3, <3>4 DEF BuiltFrom
  <2> QED BY <2>1, <2>3, Levels DEF S
<1> HIDE DEF P
<1>3. Nat \subseteq P
  BY <1>1, <1>2, FromZero
<1> QED BY <1>0, <1>3 DEF P

\* The canonical text of a value is that of the value with its members in another order.
THEOREM CanonicalOrder == \A v \in Value : Canonical[Reordered[v]] = Canonical[v]
<1> DEFINE C == {v \in Value : Canonical[Reordered[v]] = Canonical[v]}
<1>0. \A v \in Value : Reordered[v] \in Value
  BY JsonAssumption, ReorderedLevels DEF Value
<1>1. ASSUME NEW v \in Value, NEW S \in SUBSET (C \cap Value), BuiltFrom(v, S)
      PROVE  v \in C
  <2>0. \A w \in S : w \in Value /\ Reordered[w] \in Value
            /\ Canonical[Reordered[w]] = Canonical[w]
    BY <1>0
  <2> HIDE DEF C
  <2>1. ASSUME v \in {<<"literal">>, <<"number", "0">>, <<"number", "1">>}
        PROVE  Canonical[Reordered[v]] = Canonical[v]
    <3>1. Reordered[v] = v
      BY <2>1, LeafForms
    <3> QED BY <3>1
  <2>2. ASSUME NEW s \in ValidStrings, v = <<"string", s>>
        PROVE  Canonical[Reordered[v]] = Canonical[v]
    <3>1. Reordered[v] = v
      BY <2>2, LeafForms
    <3> QED BY <3>1
  <2>3. ASSUME NEW items \in Seq(S), v = <<"array", items>>
        PROVE  Canonical[Reordered[v]] = Canonical[v]
    <3> DEFINE new == ReorderedItems(items)
    <3>1. Reordered[v] = <<"array", new>>
              /\ Canonical[v] = <<"[">> \o Separated(ItemTexts(items)) \o <<"]">>
      BY <2>3, ArrayForms
    <3>2. <<"array", new>> \in Value
      BY <1>0, <3>1
    <3>3. Canonical[<<"array", new>>] = <<"[">> \o Separated(ItemTexts(new)) \o <<"]">>
      BY <3>2, ArrayForms
    <3>4. DOMAIN new = DOMAIN items /\ \A i \in DOMAIN items : new[i] = Reordered[items[i]]
      BY DEF ReorderedItems
    <3> HIDE DEF new
    <3>5. \A i \in DOMAIN items : Canonical[new[i]] = Canonical[items[i]]
      BY <2>0, <3>4, ArrayItems
    <3>6. ItemTexts(new) = ItemTexts(items)
      BY <3>4, <3>5 DEF ItemTexts
    <3> QED BY <3>1, <3>3, <3>6, Zenon
  <2>4. ASSUME NEW members \in MemberLists(S), v = <<"object", members>>
        PROVE  Canonical[Reordered[v]] = Canonical[v]
    <3> DEFINE list == ReorderedMembers(members)
               old == SortMembers(members)
               new == SortMembers(list)
    <3>1. Reordered[v] = <<"object", list>>
          /\ Canonical[v] = <<"{">> \o Separated(MemberTexts(old)) \o <<"}">>
      BY <2>4, ObjectForms, Zenon
    <3>2. <<"object", list>> \in Value
      BY <1>0, <3>1
    <3>3. Canonical[<<"object", list>>] = <<"{">> \o Separated(MemberTexts(new)) \o <<"}">>
      BY <3>2, ObjectForms, Zenon
    <3>4. new = ReorderedEach(old)
      <4>1. \A w \in S : Reordered[w] \in Value
        BY <2>0
      <4> QED BY <4>1, ReversedSort, Zenon
    <3>5. \A k \in DOMAIN old : old[k][2] \in S
      BY SortLists, MemberNames
    <3> HIDE DEF new, old, list
    <3>6. MemberTexts(new) = MemberTexts(old)
      <4> DEFINE colon == <<":">>
      <4>1. DOMAIN new = DOMAIN old
            /\ \A k \in DOMAIN old : new[k][1] = old[k][1] /\ new[k][2] = Reordered[old[k][2]]
        BY <3>4 DEF ReorderedEach
      <4>2. \A k \in DOMAIN old : Canonical[new[k][2]] = Canonical[old[k][2]]
        BY <2>0, <3>5, <4>1
      <4> QED BY <4>1, <4>2 DEF MemberTexts
    <3> QED BY <3>1, <3>3, <3>6, Zenon
  <2> QED BY <1>1, <2>1, <2>2, <2>3, <2>4, Zenon DEF BuiltFrom, C
<1> HIDE DEF C
<1>2. Value \subseteq C
  BY <1>1, ValueInduction
<1> QED BY <1>2 DEF C

-----------------------------------------------------------------------------
(* 5. The parser between any two symbols.                                  *)

SoundSet(S) == \A v \in S : BuiltFrom(v, S)

\* v is sound, and so are all its parts down to the innermost.
Sound(v) == \E S : SoundSet(S) /\ v \in S

Containers(S) ==
    [kind : {"array"}, items : Seq(S), key : ValidStrings]
        \cup [kind : {"object"}, items : Seq(ValidStrings \X S), key : ValidStrings]

Codes ==
    {"", "DUPLICATE_PROPERTY", "UNTERMINATED_STRING", "INVALID_ESCAPE",
     "INVALID_UNICODE_ESCAPE", "UNPAIRED_LOW_SURROGATE", "UNPAIRED_HIGH_SURROGATE",
     "UNESCAPED_CONTROL_CHARACTER", "NON_FINITE_NUMBER", "INVALID_LITERAL",
     "UNEXPECTED_TOKEN", "EXPECTED_PROPERTY_NAME", "EXPECTED_COLON",
     "EXPECTED_COMMA", "TRAILING_DATA", "LEADING_ZERO", "INVALID_NUMBER"}

Parsers(S) ==
    [mode : Modes, stack : Seq(Containers(S)), naming : BOOLEAN,
     buffer : Seq(Units \cup {"1", "huge"}), value : S \cup {<<>>}, code : Codes]

\* The parser p, and what it has read is made of the sound values S.
Reads(p, S) ==
    /\ SoundSet(S) /\ p \in Parsers(S) /\ ParserInv(p)
    /\ p.mode \in StringModes => p.buffer \in Seq(Units)
    /\ p.mode \in {"end", "accepted"} => p.value \in S

\* A value may be completed: every open object knows a new name for it.
Awaits(p) ==
    \A k \in DOMAIN p.stack :
        p.stack[k].kind = "object" =>
            Distinct(p.stack[k].items) /\ p.stack[k].key \notin Names(p.stack[k])

\* A value is expected or being read.
ExpectsValue(p) == AwaitsValue(p) \/ p.mode = "first item"
-----------------------------------------------------------------------------
(* Strings.                                                                *)

\* A unit that is no half of a pair may follow.
LEMMA UnitValid ==
    ASSUME NEW s \in ValidStrings, NEW u \in Units, u \notin {"high", "low"}
    PROVE  Append(s, u) \in ValidStrings
<1> DEFINE t == Append(s, u)
<1>1. s \in Seq(Units) /\ ValidUnicode(s)
  BY DEF ValidStrings
<1>2. /\ t \in Seq(Units) /\ Len(t) = Len(s) + 1
      /\ \A i \in 1..Len(s) : t[i] = s[i]
      /\ t[Len(s) + 1] = u
  BY <1>1
<1> HIDE DEF t
<1>3. ASSUME NEW i \in DOMAIN t
      PROVE  /\ t[i] = "high" => i < Len(t) /\ t[i + 1] = "low"
             /\ t[i] = "low" => i > 1 /\ t[i - 1] = "high"
  BY <1>1, <1>2 DEF ValidUnicode
<1>4. t \in ValidStrings
  BY <1>2, <1>3 DEF ValidStrings, ValidUnicode
<1> QED BY <1>4 DEF t

\* So may both halves.
LEMMA PairValid ==
    ASSUME NEW s \in ValidStrings
    PROVE  Append(Append(s, "high"), "low") \in ValidStrings
<1> DEFINE t == Append(Append(s, "high"), "low")
<1>1. s \in Seq(Units) /\ ValidUnicode(s)
  BY DEF ValidStrings
<1>2. /\ t \in Seq(Units) /\ Len(t) = Len(s) + 2
      /\ \A i \in 1..Len(s) : t[i] = s[i]
      /\ t[Len(s) + 1] = "high" /\ t[Len(s) + 2] = "low"
  BY <1>1 DEF Units
<1> HIDE DEF t
<1>3. ASSUME NEW i \in DOMAIN t
      PROVE  /\ t[i] = "high" => i < Len(t) /\ t[i + 1] = "low"
             /\ t[i] = "low" => i > 1 /\ t[i - 1] = "high"
  <2>1. CASE i \in 1..Len(s)
    BY <1>1, <1>2, <2>1 DEF ValidUnicode
  <2>2. CASE i \in {Len(s) + 1, Len(s) + 2}
    BY <1>1, <1>2, <2>2
  <2> QED BY <1>1, <1>2, <1>3, <2>1, <2>2
<1>4. t \in ValidStrings
  BY <1>2, <1>3 DEF ValidStrings, ValidUnicode
<1> QED BY <1>4 DEF t
-----------------------------------------------------------------------------
(* The set of sound values.                                                *)

\* A completed value joins the others.
LEMMA SetGrows ==
    ASSUME NEW S, SoundSet(S), NEW v, BuiltFrom(v, S)
    PROVE  SoundSet(S \cup {v})
BY BuiltFromMore DEF SoundSet

LEMMA TypesGrow ==
    ASSUME NEW S, NEW T, S \subseteq T
    PROVE  Parsers(S) \subseteq Parsers(T)
<1>1. Seq(S) \subseteq Seq(T) /\ Seq(ValidStrings \X S) \subseteq Seq(ValidStrings \X T)
  <2>1. ValidStrings \X S \subseteq ValidStrings \X T
    OBVIOUS
  <2> QED BY <2>1, SeqMonotonic
<1>2. Containers(S) \subseteq Containers(T)
  BY <1>1 DEF Containers
<1>3. Seq(Containers(S)) \subseteq Seq(Containers(T))
  BY <1>2, SeqMonotonic
<1> QED BY <1>3 DEF Parsers
-----------------------------------------------------------------------------
(* Values.                                                                 *)

LEMMA StartReads ==
    ASSUME NEW S, SoundSet(S)
    PROVE  Reads(Start, S) /\ Start.stack = <<>>
<1>1. /\ Start.mode = "value" /\ Start.stack = <<>> /\ Start.naming = FALSE
      /\ Start.buffer = <<>>
  BY DEF Start
<1>2. Start \in Parsers(S)
  <2>1. /\ "value" \in Modes /\ <<>> \in Seq(Containers(S)) /\ FALSE \in BOOLEAN
        /\ <<>> \in Seq(Units \cup {"1", "huge"}) /\ <<>> \in S \cup {<<>>}
        /\ "" \in Codes
    BY DEF Modes, TokenModes, Codes
  <2> QED BY <2>1, Zenon DEF Start, Parsers
<1>3. ParserInv(Start)
  BY <1>1
  DEF ParserInv, PlaceInv, BufferInv, NamesInv, Modes, StringModes, TokenModes
<1> QED BY <1>1, <1>2, <1>3 DEF Reads, StringModes

\* p with another buffer.
Buffered(p, b) == [p EXCEPT !.buffer = b]

LEMMA BufferChanges ==
    ASSUME NEW S, NEW p \in Parsers(S), NEW b \in Seq(Units \cup {"1", "huge"})
    PROVE  /\ Buffered(p, b) \in Parsers(S)
           /\ Buffered(p, b).buffer = b
           /\ Buffered(p, b).mode = p.mode
           /\ Buffered(p, b).stack = p.stack
           /\ Buffered(p, b).naming = p.naming
BY DEF Buffered, Parsers

\* p when the string it read is over.
Emptied(p) == [p EXCEPT !.buffer = <<>>, !.naming = FALSE]

LEMMA EmptiedChanges ==
    ASSUME NEW S, NEW p \in Parsers(S)
    PROVE  /\ Emptied(p) \in Parsers(S)
           /\ Emptied(p).buffer = <<>>
           /\ Emptied(p).mode = p.mode
           /\ Emptied(p).stack = p.stack
<1> DEFINE q == Buffered(p, <<>>)
<1>1. <<>> \in Seq(Units \cup {"1", "huge"})
  OBVIOUS
<1>2. q \in Parsers(S) /\ q.buffer = <<>> /\ q.mode = p.mode /\ q.stack = p.stack
  BY <1>1, BufferChanges
<1>3. Emptied(p) = [q EXCEPT !.naming = FALSE]
  BY DEF Emptied, Buffered
<1> HIDE DEF q
<1> QED BY <1>2, <1>3 DEF Parsers

LEMMA FailedReads ==
    ASSUME NEW S, SoundSet(S), NEW code \in Codes
    PROVE  Reads(Failed(code), S) /\ Failed(code).mode = "error"
<1> DEFINE f == Failed(code)
<1>1. Start \in Parsers(S) /\ Start.stack = <<>>
  BY StartReads DEF Reads
<1>2. f \in Parsers(S) /\ f.mode = "error" /\ f.stack = <<>>
  <2> DEFINE g == [Start EXCEPT !.mode = "error"]
  <2>1. g \in Parsers(S) /\ g.mode = "error" /\ g.stack = <<>>
    BY <1>1 DEF Parsers, Modes
  <2>2. f = [g EXCEPT !.code = code]
    BY DEF Failed
  <2> HIDE DEF f, g
  <2> QED BY <2>1, <2>2 DEF Parsers
<1> HIDE DEF f
<1>3. ParserInv(f)
  BY <1>2
  DEF ParserInv, PlaceInv, BufferInv, NamesInv, Modes, StringModes, TokenModes
<1>4. Reads(f, S) /\ f.mode = "error"
  BY <1>2, <1>3 DEF Reads, StringModes
<1> QED BY <1>4 DEF f

\* A complete value goes to its place: the key it belongs to is new.
LEMMA CompleteReads ==
    ASSUME NEW S, SoundSet(S), NEW p \in Parsers(S), p.buffer = <<>>, Awaits(p),
           NEW v \in S
    PROVE  /\ Reads(Complete(p, v), S)
           /\ Complete(p, v).mode \in {"after", "end"}
<1> DEFINE q == Complete(p, v)
           Known(container) == container.kind = "object" =>
               Distinct(container.items) /\ container.key \notin Names(container)
<1>0. /\ p.stack \in Seq(Containers(S)) /\ "end" \in Modes /\ "after" \in Modes
      /\ \A k \in DOMAIN p.stack : Known(p.stack[k])
  BY DEF Parsers, Modes, TokenModes, Awaits
<1>1. CASE p.stack = <<>>
  <2>1. q = [p EXCEPT !.mode = "end", !.value = v]
    BY <1>1 DEF Complete
  <2>2. q \in Parsers(S) /\ q.mode = "end" /\ q.value = v /\ q.stack = <<>> /\ q.buffer = <<>>
    BY <1>0, <1>1, <2>1 DEF Parsers
  <2> HIDE DEF q
  <2>3. ParserInv(q)
    BY <1>0, <2>2
    DEF ParserInv, PlaceInv, BufferInv, NamesInv, StringModes, TokenModes
  <2>4. Reads(q, S) /\ q.mode \in {"after", "end"}
    BY <2>2, <2>3 DEF Reads, StringModes
  <2> QED BY <2>4 DEF q
<1>2. CASE p.stack # <<>>
  <2> DEFINE top == Top(p)
             item == IF InObject(p) THEN <<top.key, v>> ELSE v
             new == [top EXCEPT !.items = Append(@, item)]
             front == Front(p.stack)
  <2>1. q = [p EXCEPT !.mode = "after", !.stack = Append(front, new)]
    BY <1>2 DEF Complete
  <2>2. /\ Len(p.stack) \in Nat \ {0} /\ top = p.stack[Len(p.stack)]
        /\ top \in Containers(S) /\ Known(top)
    BY <1>0, <1>2 DEF Top, Last
  <2>3. /\ front \in Seq(Containers(S)) /\ Len(front) = Len(p.stack) - 1
        /\ \A k \in 1..Len(front) : front[k] = p.stack[k]
    BY <1>0, <2>2 DEF Front
  <2>4. new \in Containers(S) /\ (new.kind = "object" => Distinct(new.items))
    <3>1. CASE InObject(p)
      <4>1. /\ top.kind = "object" /\ top.items \in Seq(ValidStrings \X S)
            /\ top.key \in ValidStrings
        BY <2>2, <3>1 DEF InObject, Containers
      <4>2. item \in ValidStrings \X S /\ item[1] = top.key
        BY <3>1, <4>1
      <4>3. /\ Append(top.items, item) \in Seq(ValidStrings \X S)
            /\ Len(Append(top.items, item)) = Len(top.items) + 1
            /\ \A i \in 1..Len(top.items) : Append(top.items, item)[i] = top.items[i]
            /\ Append(top.items, item)[Len(top.items) + 1] = item
        <5> HIDE DEF top, item
        <5> QED BY <4>1, <4>2
      <4>4. Distinct(Append(top.items, item))
        <5> HIDE DEF item
        <5>1. Distinct(top.items) /\ top.key \notin {top.items[i][1] : i \in DOMAIN top.items}
          BY <2>2, <4>1 DEF Names
        <5> HIDE DEF top, Known
        <5> QED BY <4>1, <4>2, <4>3, <5>1 DEF Distinct
      <4>5. /\ new.kind = "object" /\ new.key = top.key
            /\ new.items = Append(top.items, item)
            /\ new \in Containers(S)
        <5> HIDE DEF item, Known
        <5>1. top \in [kind : {"object"}, items : Seq(ValidStrings \X S), key : ValidStrings]
          BY <2>2, <4>1 DEF Containers
        <5> HIDE DEF top
        <5> QED BY <4>3, <5>1 DEF Containers
      <4> QED BY <4>4, <4>5
    <3>2. CASE ~InObject(p)
      <4>1. top \in [kind : {"array"}, items : Seq(S), key : ValidStrings] /\ item = v
        BY <1>2, <2>2, <3>2 DEF InObject, Containers
      <4> HIDE DEF top, item, Known
      <4>2. Append(top.items, item) \in Seq(S)
        BY <4>1
      <4> QED BY <4>1, <4>2 DEF Containers
    <3> QED BY <3>1, <3>2
  <2> HIDE DEF top, item, new, front, Known
  <2>5. /\ Append(front, new) \in Seq(Containers(S))
        /\ Len(Append(front, new)) = Len(p.stack)
        /\ \A k \in 1..Len(p.stack) - 1 : Append(front, new)[k] = p.stack[k]
        /\ Append(front, new)[Len(p.stack)] = new
    BY <2>2, <2>3, <2>4
  <2>6. /\ q \in Parsers(S) /\ q.mode = "after" /\ q.buffer = <<>>
        /\ q.stack = Append(front, new)
    BY <1>0, <2>1, <2>5 DEF Parsers
  <2> HIDE DEF q
  <2>7. q.stack # <<>>
    BY <2>2, <2>5, <2>6
  <2>8. NamesInv(q)
    <3> SUFFICES ASSUME NEW k \in DOMAIN q.stack, q.stack[k].kind = "object"
                 PROVE  /\ Distinct(q.stack[k].items)
                        /\ (k < Len(q.stack) \/ AwaitsValue(q)) =>
                              q.stack[k].key \notin Names(q.stack[k])
      BY DEF NamesInv
    <3>1. k \in 1..Len(p.stack) /\ Len(q.stack) = Len(p.stack)
      BY <2>2, <2>5, <2>6
    <3>2. ~AwaitsValue(q)
      BY <2>6 DEF AwaitsValue, StringModes, NumberModes
    <3>3. CASE k = Len(p.stack)
      BY <2>2, <2>4, <2>5, <2>6, <3>1, <3>2, <3>3
    <3>4. CASE k \in 1..Len(p.stack) - 1
      BY <1>0, <2>2, <2>5, <2>6, <3>1, <3>4 DEF Known
    <3> QED BY <2>2, <3>1, <3>3, <3>4
  <2>9. Reads(q, S) /\ q.mode \in {"after", "end"}
    BY <1>0, <2>6, <2>7, <2>8
    DEF Reads, ParserInv, PlaceInv, BufferInv, StringModes, TokenModes
  <2> QED BY <2>9 DEF q
<1> QED BY <1>1, <1>2

\* Where a value is expected, every open object knows a new name for it.
LEMMA ExpectedAwaits ==
    ASSUME NEW S, NEW p \in Parsers(S), Reads(p, S), ExpectsValue(p)
    PROVE  Awaits(p)
<1>1. p.stack \in Seq(Containers(S)) /\ PlaceInv(p) /\ NamesInv(p)
  BY DEF Reads, Parsers, ParserInv
<1>2. CASE AwaitsValue(p)
  BY <1>1, <1>2 DEF NamesInv, Awaits
<1>3. CASE p.mode = "first item"
  <2>1. p.stack # <<>> /\ p.stack[Len(p.stack)].kind = "array"
    BY <1>1, <1>3 DEF PlaceInv, InArray, Top, Last
  <2>2. Len(p.stack) \in Nat /\ DOMAIN p.stack = 1..Len(p.stack)
    BY <1>1, LenProperties
  <2>3. \A k \in DOMAIN p.stack : k < Len(p.stack) \/ k = Len(p.stack)
    BY <2>2
  <2> QED BY <1>1, <2>1, <2>3 DEF NamesInv, Awaits
<1> QED BY <1>2, <1>3 DEF ExpectsValue

\* A bracket or brace opens a container without members.
LEMMA OpenReads ==
    ASSUME NEW S, NEW p \in Parsers(S), Reads(p, S), p.mode \in ValueModes,
           NEW kind \in {"object", "array"}
    PROVE  Reads(Open(p, kind), S)
<1> DEFINE q == Open(p, kind)
           new == [kind |-> kind, items |-> <<>>, key |-> <<>>]
           mode == IF kind = "object" THEN "first key" ELSE "first item"
<1>1. /\ SoundSet(S) /\ p \in Parsers(S) /\ p.stack \in Seq(Containers(S))
      /\ p.buffer = <<>> /\ Awaits(p)
  <2>1. p.buffer = <<>> /\ ExpectsValue(p)
    BY DEF Reads, ParserInv, BufferInv, TokenModes, AwaitsValue, ExpectsValue,
           ValueModes
  <2> QED BY <2>1, ExpectedAwaits DEF Reads, Parsers
<1>2. q = [p EXCEPT !.mode = mode, !.stack = Append(p.stack, new)]
  BY DEF Open
<1>3. /\ new \in Containers(S) /\ new.kind = kind /\ new.items = <<>>
  <2>1. <<>> \in Seq(S) /\ <<>> \in Seq(ValidStrings \X S)
    OBVIOUS
  <2> QED BY <2>1, EmptyValid DEF Containers
<1>4. mode \in Modes /\ mode \in {"first key", "first item"}
  BY DEF Modes, TokenModes
<1> HIDE DEF q, new, mode
<1>0. Len(p.stack) \in Nat /\ DOMAIN p.stack = 1..Len(p.stack)
  BY <1>1, LenProperties
<1>5. /\ Append(p.stack, new) \in Seq(Containers(S))
      /\ Len(Append(p.stack, new)) = Len(p.stack) + 1
      /\ \A k \in 1..Len(p.stack) : Append(p.stack, new)[k] = p.stack[k]
      /\ Append(p.stack, new)[Len(p.stack) + 1] = new
      /\ DOMAIN Append(p.stack, new) = 1..Len(p.stack) + 1
  BY <1>1, <1>3, AppendProperties, LenProperties
<1>6. /\ q \in Parsers(S) /\ q.buffer = <<>> /\ q.stack = Append(p.stack, new)
      /\ q.mode = mode
  BY <1>1, <1>2, <1>4, <1>5 DEF Parsers
<1>7. PlaceInv(q)
  <2>1. q.stack # <<>> /\ Top(q) = new
    BY <1>0, <1>5, <1>6 DEF Top, Last
  <2> QED BY <1>3, <1>6, <2>1 DEF PlaceInv, InObject, InArray, StringModes, mode
<1>8. NamesInv(q)
  <2> SUFFICES ASSUME NEW k \in DOMAIN q.stack, q.stack[k].kind = "object"
               PROVE  /\ Distinct(q.stack[k].items)
                      /\ (k < Len(q.stack) \/ AwaitsValue(q)) =>
                            q.stack[k].key \notin Names(q.stack[k])
    BY DEF NamesInv
  <2>1. k \in 1..Len(p.stack) + 1 /\ Len(q.stack) = Len(p.stack) + 1
    BY <1>5, <1>6
  <2>2. CASE k = Len(p.stack) + 1
    <3>1. ~AwaitsValue(q)
      BY <1>4, <1>6 DEF AwaitsValue, StringModes, NumberModes
    <3>2. Distinct(q.stack[k].items)
      <4>1. q.stack[k].items = <<>>
        BY <1>3, <1>5, <1>6, <2>2
      <4>2. Distinct(<<>>)
        BY DEF Distinct
      <4> QED BY <4>1, <4>2
    <3> QED BY <1>0, <2>1, <2>2, <3>1, <3>2
  <2>3. CASE k \in 1..Len(p.stack)
    <3>1. q.stack[k] = p.stack[k] /\ k \in DOMAIN p.stack
      BY <1>0, <1>5, <1>6, <2>3
    <3> QED BY <1>1, <3>1 DEF Awaits
  <2> QED BY <1>0, <2>1, <2>2, <2>3
<1>9. Reads(q, S)
  <2>1. q.mode \in {"first key", "first item"}
    BY <1>4, <1>6
  <2> QED BY <1>1, <1>4, <1>6, <1>7, <1>8, <2>1
      DEF Reads, ParserInv, BufferInv, StringModes
<1> QED BY <1>9 DEF q

\* p without its innermost container.
Inner(p) == [p EXCEPT !.stack = Front(p.stack)]

LEMMA InnerAwaits ==
    ASSUME NEW S, NEW p \in Parsers(S), p.stack # <<>>, NamesInv(p)
    PROVE  /\ Inner(p) \in Parsers(S) /\ Awaits(Inner(p))
           /\ Inner(p).stack = Front(p.stack) /\ Inner(p).buffer = p.buffer
<1> DEFINE r == Inner(p)
<1>1. p.stack \in Seq(Containers(S))
  BY DEF Parsers
<1>2. Len(p.stack) \in Nat \ {0} /\ DOMAIN p.stack = 1..Len(p.stack)
  BY <1>1, LenProperties, EmptySeq
<1>3. /\ Front(p.stack) \in Seq(Containers(S))
      /\ Len(Front(p.stack)) = Len(p.stack) - 1
      /\ \A k \in 1..Len(p.stack) - 1 : Front(p.stack)[k] = p.stack[k]
  BY <1>1, <1>2 DEF Front
<1>4. r \in Parsers(S) /\ r.buffer = p.buffer /\ r.stack = Front(p.stack)
  BY <1>3 DEF Inner, Parsers
<1> HIDE DEF r
<1>5. Awaits(r)
  <2> SUFFICES ASSUME NEW k \in DOMAIN r.stack, r.stack[k].kind = "object"
               PROVE  Distinct(r.stack[k].items) /\ r.stack[k].key \notin Names(r.stack[k])
    BY DEF Awaits
  <2>1. DOMAIN r.stack = 1..Len(p.stack) - 1
    BY <1>3, <1>4, LenProperties
  <2>2. r.stack[k] = p.stack[k] /\ k \in DOMAIN p.stack /\ k < Len(p.stack)
    BY <1>2, <1>3, <1>4, <2>1
  <2> QED BY <2>2 DEF NamesInv
<1> QED BY <1>4, <1>5 DEF r

\* The matching one makes it a value.
LEMMA CloseReads ==
    ASSUME NEW S, NEW p \in Parsers(S), Reads(p, S), NEW c, Closes(p, c)
    PROVE  \E T : Reads(Close(p), T)
<1> DEFINE top == Top(p)
           v == <<top.kind, top.items>>
           T == S \cup {v}
           r == Inner(p)
<1>1. /\ SoundSet(S) /\ p \in Parsers(S) /\ p.stack \in Seq(Containers(S))
      /\ NamesInv(p)
      /\ p.stack # <<>> /\ p.buffer = <<>>
  BY DEF Reads, Parsers, ParserInv, BufferInv, TokenModes, Closes, InArray, InObject
<1>2. /\ Len(p.stack) \in Nat \ {0} /\ top = p.stack[Len(p.stack)]
      /\ top \in Containers(S)
      /\ top.kind = "object" => Distinct(top.items)
  <2>1. Len(p.stack) \in Nat \ {0} /\ Len(p.stack) \in DOMAIN p.stack
    BY <1>1, LenProperties, EmptySeq
  <2>2. top = p.stack[Len(p.stack)]
    BY DEF Top, Last
  <2>3. p.stack[Len(p.stack)] \in Containers(S)
    BY <1>1, <2>1, LenProperties, ElementOfSeq
  <2>4. p.stack[Len(p.stack)].kind = "object" => Distinct(p.stack[Len(p.stack)].items)
    BY <1>1, <2>1 DEF NamesInv
  <2> HIDE DEF top
  <2> QED BY <2>1, <2>2, <2>3, <2>4
<1>3. BuiltFrom(v, S)
  <2> HIDE DEF top
  <2>1. CASE top.kind = "array"
    <3>1. top.items \in Seq(S)
      BY <1>2, <2>1 DEF Containers
    <3> QED BY <2>1, <3>1 DEF BuiltFrom
  <2>2. CASE top.kind = "object"
    <3>1. top.items \in Seq(ValidStrings \X S)
      BY <1>2, <2>2 DEF Containers
    <3>2. top.items \in MemberLists(S)
      BY <1>2, <2>2, <3>1 DEF MemberLists
    <3> QED BY <2>2, <3>2 DEF BuiltFrom
  <2> QED BY <1>2, <2>1, <2>2 DEF Containers
<1>4. SoundSet(T) /\ v \in T /\ p \in Parsers(T)
  BY <1>1, <1>3, SetGrows, TypesGrow
<1> HIDE DEF T
<1>5. r \in Parsers(T) /\ Awaits(r) /\ r.buffer = <<>>
  BY <1>1, <1>4, InnerAwaits
<1>6. Close(p) = Complete(r, v)
  BY DEF Close, Inner
<1> HIDE DEF r, v, top
<1>7. Reads(Complete(r, v), T)
  BY <1>4, <1>5, CompleteReads
<1> QED BY <1>6, <1>7
-----------------------------------------------------------------------------
(* Strings being read.                                                     *)

\* A string that ends now is valid.
LEMMA BufferValid ==
    ASSUME NEW S, NEW p \in Parsers(S), Reads(p, S), p.mode = "string"
    PROVE  p.buffer \in ValidStrings
BY DEF Reads, ParserInv, BufferInv, ValidStrings, StringModes

\* The name of a member, unless there is one with that name.
LEMMA NameReads ==
    ASSUME NEW S, NEW p \in Parsers(S), Reads(p, S), p.mode = "string",
           p.naming = TRUE
    PROVE  Reads(TakeString(p), S)
<1> DEFINE top == Top(p)
           front == Front(p.stack)
           new == [top EXCEPT !.key = p.buffer]
           q == Emptied(p)
           r == [q EXCEPT !.mode = "colon", !.stack = Append(front, new)]
<1>1. /\ SoundSet(S) /\ p.stack \in Seq(Containers(S)) /\ InObject(p) /\ NamesInv(p)
      /\ p.buffer \in ValidStrings
  BY BufferValid DEF Reads, Parsers, ParserInv, PlaceInv, StringModes
<1>2. CASE KnownName(p, p.buffer)
  <2>1. TakeString(p) = Failed("DUPLICATE_PROPERTY")
    BY <1>2 DEF TakeString
  <2>2. "DUPLICATE_PROPERTY" \in Codes
    BY DEF Codes
  <2> QED BY <1>1, <2>1, <2>2, FailedReads
<1>3. CASE ~KnownName(p, p.buffer)
  <2>1. TakeString(p) = r
    <3>1. q.stack = p.stack
      BY EmptiedChanges
    <3>2. TakeString(p) = [q EXCEPT !.mode = "colon", !.stack = Append(Front(q.stack), new)]
      BY <1>3 DEF TakeString, Emptied
    <3> HIDE DEF q
    <3> QED BY <3>1, <3>2
  <2>2. /\ Len(p.stack) \in Nat \ {0} /\ DOMAIN p.stack = 1..Len(p.stack)
        /\ top = p.stack[Len(p.stack)] /\ top \in Containers(S) /\ top.kind = "object"
        /\ p.buffer \notin Names(top) /\ Distinct(top.items)
    <3>1. p.stack # <<>> /\ top.kind = "object"
      BY <1>1 DEF InObject
    <3>2. Len(p.stack) \in Nat \ {0} /\ DOMAIN p.stack = 1..Len(p.stack)
      BY <1>1, <3>1, LenProperties, EmptySeq
    <3>3. top = p.stack[Len(p.stack)]
      BY DEF Top, Last
    <3>4. top \in Containers(S)
      BY <1>1, <3>2, <3>3, ElementOfSeq
    <3>5. p.buffer \notin Names(top)
      BY <1>3 DEF KnownName
    <3>6. Distinct(top.items)
      BY <1>1, <3>1, <3>2, <3>3 DEF NamesInv
    <3> QED BY <3>1, <3>2, <3>3, <3>4, <3>5, <3>6
  <2>3. /\ front \in Seq(Containers(S)) /\ Len(front) = Len(p.stack) - 1
        /\ \A k \in 1..Len(p.stack) - 1 : front[k] = p.stack[k]
    BY <1>1, <2>2 DEF Front
  <2>4. /\ new \in Containers(S) /\ new.kind = "object" /\ new.items = top.items
        /\ new.key = p.buffer
    <3> HIDE DEF top
    <3>1. top \in [kind : {"object"}, items : Seq(ValidStrings \X S), key : ValidStrings]
      BY <2>2 DEF Containers
    <3> QED BY <1>1, <3>1 DEF Containers
  <2> HIDE DEF top, new, front
  <2>5. /\ Append(front, new) \in Seq(Containers(S))
        /\ Len(Append(front, new)) = Len(p.stack)
        /\ DOMAIN Append(front, new) = 1..Len(p.stack)
        /\ \A k \in 1..Len(p.stack) - 1 : Append(front, new)[k] = p.stack[k]
        /\ Append(front, new)[Len(p.stack)] = new
    BY <2>2, <2>3, <2>4, AppendProperties, LenProperties
  <2>6. /\ r \in Parsers(S) /\ r.mode = "colon" /\ r.buffer = <<>>
        /\ r.stack = Append(front, new)
    <3>1. q \in Parsers(S) /\ q.buffer = <<>>
      BY EmptiedChanges
    <3>2. "colon" \in Modes
      BY DEF Modes, TokenModes
    <3> HIDE DEF q
    <3> QED BY <2>5, <3>1, <3>2 DEF Parsers
  <2> HIDE DEF r
  <2>7. InObject(r)
    <3>1. r.stack # <<>> /\ Top(r) = new
      BY <2>2, <2>5, <2>6 DEF Top, Last
    <3> QED BY <2>4, <3>1 DEF InObject
  <2>8. NamesInv(r)
    <3> SUFFICES ASSUME NEW k \in DOMAIN r.stack, r.stack[k].kind = "object"
                 PROVE  /\ Distinct(r.stack[k].items)
                        /\ r.stack[k].key \notin Names(r.stack[k])
      BY DEF NamesInv
    <3>1. CASE k = Len(p.stack)
      <4>1. r.stack[k] = new /\ Names(new) = Names(top)
        BY <2>4, <2>5, <2>6, <3>1 DEF Names
      <4> QED BY <2>2, <2>4, <4>1
    <3>2. CASE k \in 1..Len(p.stack) - 1
      <4>1. r.stack[k] = p.stack[k] /\ k \in DOMAIN p.stack /\ k < Len(p.stack)
        BY <2>2, <2>5, <2>6, <3>2
      <4> QED BY <1>1, <4>1 DEF NamesInv
    <3>3. k = Len(p.stack) \/ k \in 1..Len(p.stack) - 1
      BY <2>2, <2>5, <2>6
    <3> QED BY <3>1, <3>2, <3>3
  <2>9. Reads(r, S)
    <3>1. r.mode \in Modes
      BY <2>6 DEF Modes, TokenModes
    <3> QED BY <1>1, <2>6, <2>7, <2>8, <3>1
        DEF Reads, ParserInv, PlaceInv, BufferInv, StringModes
  <2> QED BY <2>1, <2>9
<1> QED BY <1>2, <1>3

LEMMA ClosedReads ==
    ASSUME NEW S, NEW p \in Parsers(S), Reads(p, S), p.mode = "string"
    PROVE  \E T : Reads(Closed(p), T)
<1>0. Closed(p) = TakeString(p)
  BY BufferValid, ClosedValid DEF ValidStrings
<1>1. CASE p.naming = TRUE
  BY <1>0, <1>1, NameReads
<1>2. CASE p.naming = FALSE
  <2> DEFINE v == <<"string", p.buffer>>
             T == S \cup {v}
             q == Emptied(p)
  <2>1. SoundSet(S) /\ Awaits(p)
    <3>1. ExpectsValue(p)
      BY <1>2 DEF ExpectsValue, AwaitsValue, StringModes
    <3> QED BY <3>1, ExpectedAwaits DEF Reads
  <2>2. BuiltFrom(v, S)
    BY BufferValid DEF BuiltFrom
  <2>3. SoundSet(T) /\ v \in T /\ p \in Parsers(T)
    BY <2>1, <2>2, SetGrows, TypesGrow
  <2> HIDE DEF T, v
  <2>4. q \in Parsers(T) /\ q.buffer = <<>> /\ q.stack = p.stack
    BY <2>3, EmptiedChanges
  <2>5. Closed(p) = Complete(q, v)
    BY <1>0, <1>2 DEF TakeString, v, Emptied
  <2> HIDE DEF q
  <2>6. Awaits(q)
    BY <2>1, <2>4 DEF Awaits
  <2> QED BY <2>3, <2>4, <2>5, <2>6, CompleteReads
<1>3. p.naming \in BOOLEAN
  BY DEF Parsers
<1> QED BY <1>1, <1>2, <1>3

\* q awaits a value only where p does.
AwaitsNoMore(p, q) == AwaitsValue(q) => AwaitsValue(p)

LEMMA NamesKept ==
    ASSUME NEW p, NEW q, NamesInv(p), q.stack = p.stack, AwaitsNoMore(p, q)
    PROVE  NamesInv(q)
BY DEF NamesInv, AwaitsNoMore

LEMMA AwaitedNames ==
    ASSUME NEW p, NEW q, Awaits(p), q.stack = p.stack
    PROVE  NamesInv(q)
BY DEF NamesInv, Awaits

\* What a string may consist of so far.
BufferFits(p) ==
    /\ p.mode = "string" => p.buffer \in ValidStrings
    /\ p.mode # "string" => \E s \in ValidStrings : p.buffer = Append(s, "high")

LEMMA StringReads ==
    ASSUME NEW S, NEW p \in Parsers(S), SoundSet(S), p.mode \in StringModes,
           BufferFits(p), NamesInv(p), p.naming = TRUE => InObject(p)
    PROVE  Reads(p, S)
<1>1. p.buffer \in Seq(Units) /\ BufferInv(p)
  <2>1. CASE p.mode = "string"
    BY <2>1 DEF BufferFits, BufferInv, ValidStrings, TokenModes
  <2>2. CASE p.mode # "string"
    <3>1. PICK s \in ValidStrings : p.buffer = Append(s, "high")
      BY <2>2 DEF BufferFits
    <3>2. s \in Seq(Units) /\ ValidUnicode(s) /\ "high" \in Units
      BY DEF ValidStrings, Units
    <3>3. /\ p.buffer \in Seq(Units) /\ p.buffer # <<>>
          /\ Len(p.buffer) = Len(s) + 1 /\ p.buffer[Len(s) + 1] = "high"
          /\ \A i \in 1..Len(s) : p.buffer[i] = s[i]
      BY <3>1, <3>2, AppendProperties
    <3>4. /\ Front(p.buffer) \in Seq(Units) /\ Len(Front(p.buffer)) = Len(s)
          /\ \A i \in 1..Len(s) : Front(p.buffer)[i] = s[i]
      BY <3>2, <3>3 DEF Front
    <3>5. Front(p.buffer) = s
      BY <3>2, <3>4, SeqEqual
    <3>6. Last(p.buffer) = "high"
      BY <3>2, <3>3 DEF Last
    <3> QED BY <2>2, <3>2, <3>3, <3>5, <3>6 DEF BufferInv, TokenModes, StringModes
  <2> QED BY <2>1, <2>2
<1>2. PlaceInv(p) /\ p.mode \in Modes
  BY DEF PlaceInv, StringModes, Modes, Parsers
<1> QED BY <1>1, <1>2 DEF Reads, ParserInv, StringModes

\* A half that lacks the other follows a valid string.
LEMMA PendingBuffer ==
    ASSUME NEW S, NEW p \in Parsers(S), Reads(p, S), p.mode \in StringModes,
           p.mode # "string"
    PROVE  \E s \in ValidStrings : p.buffer = Append(s, "high")
<1> DEFINE s == Front(p.buffer)
<1>1. /\ p.buffer \in Seq(Units) /\ p.buffer # <<>> /\ Last(p.buffer) = "high"
      /\ ValidUnicode(s)
  BY DEF Reads, ParserInv, BufferInv, StringModes
<1>2. Len(p.buffer) \in Nat \ {0} /\ "high" \in Units
  BY <1>1, EmptySeq DEF Units
<1>3. /\ s \in Seq(Units) /\ Len(s) = Len(p.buffer) - 1
      /\ \A i \in 1..Len(s) : s[i] = p.buffer[i]
  BY <1>1, <1>2 DEF Front
<1> HIDE DEF s
<1>4. /\ Append(s, "high") \in Seq(Units) /\ Len(Append(s, "high")) = Len(s) + 1
      /\ \A i \in 1..Len(s) : Append(s, "high")[i] = s[i]
      /\ Append(s, "high")[Len(s) + 1] = "high"
  BY <1>2, <1>3, AppendProperties
<1>5. p.buffer[Len(p.buffer)] = "high"
  BY <1>1 DEF Last
<1>6. \A i \in 1..Len(p.buffer) : p.buffer[i] = Append(s, "high")[i]
  BY <1>2, <1>3, <1>4, <1>5
<1>7. p.buffer = Append(s, "high")
  BY <1>1, <1>2, <1>3, <1>4, <1>6, SeqEqual
<1> QED BY <1>1, <1>3, <1>7 DEF ValidStrings

LEMMA Escapes ==
    /\ Escape["a"] = "esc a" /\ Escape["b"] = "esc b" /\ Escape["quote"] = "esc quote"
    /\ Escape["control"] = "esc control" /\ Escape["high"] = "esc high"
    /\ Escape["low"] = "esc low"
BY DEF Escape

LEMMA ModeChanges ==
    ASSUME NEW S, NEW p \in Parsers(S), NEW mode \in Modes
    PROVE  /\ Expect(p, mode) \in Parsers(S)
           /\ Expect(p, mode).mode = mode
           /\ Expect(p, mode).buffer = p.buffer
           /\ Expect(p, mode).stack = p.stack
           /\ Expect(p, mode).naming = p.naming
           /\ Expect(p, mode).value = p.value
BY DEF Parsers, Expect

LEMMA CollectChanges ==
    ASSUME NEW S, NEW p \in Parsers(S), p.buffer \in Seq(Units), NEW u \in Units
    PROVE  /\ Collect(p, u) \in Parsers(S)
           /\ Collect(p, u).mode = "string"
           /\ Collect(p, u).buffer = Append(p.buffer, u)
           /\ Collect(p, u).stack = p.stack
           /\ Collect(p, u).naming = p.naming
<1> DEFINE q == [p EXCEPT !.mode = "string"]
           b == Append(p.buffer, u)
<1>1. /\ q \in Parsers(S) /\ q.mode = "string" /\ q.stack = p.stack
      /\ q.naming = p.naming
  BY DEF Parsers, Modes, StringModes
<1>2. b \in Seq(Units \cup {"1", "huge"})
  BY SeqMonotonic
<1>3. Collect(p, u) = Buffered(q, b)
  BY DEF Collect, Buffered
<1> HIDE DEF q, b
<1> DEFINE r == Buffered(q, b)
<1>4. /\ r \in Parsers(S) /\ r.mode = q.mode /\ r.buffer = b
      /\ r.stack = q.stack /\ r.naming = q.naming
  BY <1>1, <1>2, BufferChanges
<1>5. Collect(p, u) = r
  BY <1>3
<1> HIDE DEF r
<1> QED BY <1>1, <1>4, <1>5 DEF b

\* Between two units of a string nothing else changes.
LEMMA InsideString ==
    ASSUME NEW S, NEW p \in Parsers(S), Reads(p, S), p.mode \in StringModes,
           NEW q \in Parsers(S), q.mode \in StringModes,
           q.stack = p.stack, q.naming = p.naming, BufferFits(q)
    PROVE  Reads(q, S)
<1>1. SoundSet(S) /\ NamesInv(p) /\ (p.naming = TRUE => InObject(p))
  BY DEF Reads, ParserInv, PlaceInv
<1>2. AwaitsNoMore(p, q)
  <2>1. CASE p.naming = TRUE
    BY <2>1 DEF AwaitsNoMore, AwaitsValue, StringModes, NumberModes
  <2>2. CASE p.naming = FALSE
    BY <2>2 DEF AwaitsNoMore, AwaitsValue
  <2> QED BY <2>1, <2>2 DEF Parsers
<1>3. q.naming = TRUE => InObject(q)
  BY <1>1 DEF InObject, Top
<1>4. NamesInv(q)
  BY <1>1, <1>2, NamesKept
<1> QED BY <1>1, <1>3, <1>4, StringReads

\* A unit of its own, raw or escaped.
LEMMA UnitReads ==
    ASSUME NEW S, NEW p \in Parsers(S), Reads(p, S), p.mode = "string",
           NEW u \in Units, u \notin {"high", "low"}
    PROVE  Reads(Collect(p, u), S)
<1> DEFINE q == Collect(p, u)
<1>1. p.buffer \in ValidStrings /\ p.buffer \in Seq(Units)
  BY BufferValid DEF ValidStrings
<1>2. /\ q \in Parsers(S) /\ q.mode = "string" /\ q.buffer = Append(p.buffer, u)
      /\ q.stack = p.stack /\ q.naming = p.naming
  BY <1>1, CollectChanges
<1> HIDE DEF q
<1>3. BufferFits(q)
  BY <1>1, <1>2, UnitValid DEF BufferFits
<1>4. Reads(q, S)
  BY <1>2, <1>3, InsideString DEF StringModes
<1> QED BY <1>4 DEF q

\* The first half of a pair: the other one is expected.
LEMMA HighReads ==
    ASSUME NEW S, NEW p \in Parsers(S), Reads(p, S), p.mode = "string",
           NEW mode \in StringModes, mode # "string"
    PROVE  Reads(Expect(Collect(p, "high"), mode), S)
<1> DEFINE r == Collect(p, "high")
           q == Expect(r, mode)
<1>1. p.buffer \in ValidStrings /\ p.buffer \in Seq(Units) /\ "high" \in Units
  BY BufferValid DEF ValidStrings, Units
<1>2. /\ r \in Parsers(S) /\ r.buffer = Append(p.buffer, "high")
      /\ r.stack = p.stack /\ r.naming = p.naming
  BY <1>1, CollectChanges
<1>3. mode \in Modes
  BY DEF Modes
<1> HIDE DEF r
<1>4. /\ q \in Parsers(S) /\ q.mode = mode /\ q.buffer = Append(p.buffer, "high")
      /\ q.stack = p.stack /\ q.naming = p.naming
  BY <1>2, <1>3, ModeChanges
<1> HIDE DEF q
<1>5. BufferFits(q)
  BY <1>1, <1>4 DEF BufferFits
<1>6. Reads(q, S)
  BY <1>4, <1>5, InsideString DEF StringModes
<1> QED BY <1>6 DEF q, r

\* The second half.
LEMMA LowReads ==
    ASSUME NEW S, NEW p \in Parsers(S), Reads(p, S), p.mode \in StringModes,
           p.mode # "string"
    PROVE  Reads(Collect(p, "low"), S)
<1> DEFINE q == Collect(p, "low")
<1>1. PICK s \in ValidStrings : p.buffer = Append(s, "high")
  BY PendingBuffer
<1>2. p.buffer \in Seq(Units) /\ "low" \in Units
  BY DEF Reads, Units
<1>3. /\ q \in Parsers(S) /\ q.mode = "string" /\ q.buffer = Append(p.buffer, "low")
      /\ q.stack = p.stack /\ q.naming = p.naming
  BY <1>2, CollectChanges
<1> HIDE DEF q
<1>4. BufferFits(q)
  BY <1>1, <1>3, PairValid DEF BufferFits
<1>5. Reads(q, S)
  BY <1>3, <1>4, InsideString DEF StringModes
<1> QED BY <1>5 DEF q

LEMMA InStringReads ==
    ASSUME NEW S, NEW p \in Parsers(S), Reads(p, S), p.mode = "string",
           NEW c \in Symbols
    PROVE  \E T : Reads(InString(p, c), T)
<1>0. SoundSet(S) /\ p.mode \in StringModes
  BY DEF Reads, StringModes
<1>1. CASE c \in {"eof", "esc bad", "esc hex", "esc low", "low", "control", "tab"}
  <2>1. \E code \in Codes : InString(p, c) = Failed(code)
    BY <1>1, Escapes DEF InString, Codes
  <2> QED BY <1>0, <2>1, FailedReads
<1>2. CASE c = "quote"
  <2>1. InString(p, c) = Closed(p)
    BY <1>2, Escapes DEF InString
  <2> QED BY <2>1, ClosedReads
<1>3. CASE c \in {"esc high", "high"}
  <2>1. \E mode \in StringModes :
           mode # "string" /\ InString(p, c) = Expect(Collect(p, "high"), mode)
    BY <1>3, Escapes DEF InString, StringModes
  <2> QED BY <2>1, HighReads
<1>4. CASE c \notin {"eof", "esc bad", "esc hex", "esc low", "low", "control",
                     "tab", "quote", "esc high", "high"}
  <2>1. \E u \in Units : u \notin {"high", "low"} /\ InString(p, c) = Collect(p, u)
    <3> DEFINE u == CHOOSE u \in Units : c = Escape[u]
    <3>1. InString(p, c) = IF \E x \in Units : c = Escape[x] THEN Collect(p, u)
                           ELSE Collect(p, IF c = "b" THEN "b" ELSE "a")
      BY <1>4, Escapes DEF InString
    <3>2. CASE \E x \in Units : c = Escape[x]
      <4>1. u \in Units /\ c = Escape[u]
        BY <3>2
      <4> HIDE DEF u
      <4>2. u \notin {"high", "low"}
        BY <1>4, <4>1, Escapes
      <4> QED BY <3>1, <3>2, <4>1, <4>2
    <3>3. CASE ~\E x \in Units : c = Escape[x]
      BY <3>1, <3>3 DEF Units
    <3> QED BY <3>2, <3>3
  <2> QED BY <2>1, UnitReads
<1> QED BY <1>1, <1>2, <1>3, <1>4

LEMMA AfterHighReads ==
    ASSUME NEW S, NEW p \in Parsers(S), Reads(p, S), p.mode \in StringModes,
           p.mode # "string", NEW c \in Symbols
    PROVE  Reads(AfterHigh(p, c), S)
<1>0. SoundSet(S)
  BY DEF Reads
<1>1. \/ AfterHigh(p, c) = Collect(p, "low")
      \/ \E code \in Codes : AfterHigh(p, c) = Failed(code)
  BY Escapes DEF AfterHigh, Codes
<1> QED BY <1>0, <1>1, LowReads, FailedReads
-----------------------------------------------------------------------------
(* Numbers.                                                                *)

LEMMA NumberModeType ==
    ASSUME NEW mode, NEW c
    PROVE  NumberMode(mode, c) \in NumberModes \cup {"none"}
BY DEF NumberMode, NumberModes, NumberEnds

LEMMA WeighType ==
    ASSUME NEW S, NEW p \in Parsers(S), NEW mode, NEW c
    PROVE  Weigh(p, mode, c) \in Seq(Units \cup {"1", "huge"})
<1>1. /\ <<>> \in Seq(Units \cup {"1", "huge"})
      /\ <<"1">> \in Seq(Units \cup {"1", "huge"})
      /\ <<"huge">> \in Seq(Units \cup {"1", "huge"})
      /\ p.buffer \in Seq(Units \cup {"1", "huge"})
  BY DEF Parsers
<1>2. Weigh(p, mode, c) \in {<<>>, <<"1">>, <<"huge">>, p.buffer}
  BY DEF Weigh
<1> QED BY <1>1, <1>2

\* The places of a number: before its first symbol, and within it.
NumberPlaces == ValueModes \cup NumberModes

LEMMA NumberPlaceAwaits ==
    ASSUME NEW S, NEW p \in Parsers(S), Reads(p, S), p.mode \in NumberPlaces
    PROVE  Awaits(p) /\ SoundSet(S)
<1>1. ExpectsValue(p)
  BY DEF NumberPlaces, ValueModes, ExpectsValue, AwaitsValue
<1> QED BY <1>1, ExpectedAwaits DEF Reads

LEMMA NumberSymbolReads ==
    ASSUME NEW S, NEW p \in Parsers(S), Reads(p, S), p.mode \in NumberPlaces,
           NEW c, NumberMode(p.mode, c) # "none"
    PROVE  Reads(NumberSymbol(p, c), S)
<1> DEFINE mode == NumberMode(p.mode, c)
           b == Weigh(p, mode, c)
           q == [p EXCEPT !.mode = mode]
           r == Buffered(q, b)
<1>1. mode \in NumberModes /\ b \in Seq(Units \cup {"1", "huge"})
  BY NumberModeType, WeighType
<1>2. NumberSymbol(p, c) = r
  BY DEF NumberSymbol, Buffered
<1> HIDE DEF mode, b
<1>3. mode \in Modes
  BY <1>1 DEF Modes
<1>4. q \in Parsers(S) /\ q.mode = mode /\ q.stack = p.stack
  BY <1>3 DEF Parsers
<1> HIDE DEF q
<1>5. r \in Parsers(S) /\ r.mode = q.mode /\ r.stack = q.stack
  BY <1>1, <1>4, BufferChanges
<1> HIDE DEF r
<1>6. SoundSet(S) /\ NamesInv(r)
  BY <1>4, <1>5, NumberPlaceAwaits, AwaitedNames
<1>7. r.mode \in NumberModes
  BY <1>1, <1>4, <1>5
<1>8. PlaceInv(r) /\ BufferInv(r) /\ r.mode \notin StringModes
      /\ r.mode \notin {"end", "accepted"}
  BY <1>7 DEF PlaceInv, BufferInv, NumberModes, StringModes, TokenModes
<1>9. Reads(r, S)
  BY <1>3, <1>4, <1>5, <1>6, <1>8 DEF Reads, ParserInv
<1> QED BY <1>2, <1>9

\* A number that ends is finite.
LEMMA NumberEndReads ==
    ASSUME NEW S, NEW p \in Parsers(S), Reads(p, S), p.mode \in NumberModes
    PROVE  \E T : /\ Reads(NumberEnd(p), T)
                  /\ NumberEnd(p).mode \in {"error", "after", "end"}
<1>0. SoundSet(S) /\ Awaits(p)
  BY NumberPlaceAwaits DEF NumberPlaces
<1>1. CASE p.buffer = <<"huge">>
  <2>1. NumberEnd(p) = Failed("NON_FINITE_NUMBER") /\ "NON_FINITE_NUMBER" \in Codes
    BY <1>1 DEF NumberEnd, Codes
  <2> QED BY <1>0, <2>1, FailedReads
<1>2. CASE p.buffer # <<"huge">>
  <2> DEFINE n == IF p.buffer = <<>> THEN "0" ELSE "1"
             v == <<"number", n>>
             T == S \cup {v}
             q == Buffered(p, <<>>)
  <2>1. BuiltFrom(v, S)
    BY DEF BuiltFrom
  <2>2. SoundSet(T) /\ v \in T /\ p \in Parsers(T)
    BY <1>0, <2>1, SetGrows, TypesGrow
  <2>3. NumberEnd(p) = Complete(q, v)
    BY <1>2 DEF NumberEnd, Buffered
  <2> HIDE DEF n, v, T
  <2>4. q \in Parsers(T) /\ q.buffer = <<>> /\ q.stack = p.stack
    <3>1. <<>> \in Seq(Units \cup {"1", "huge"})
      OBVIOUS
    <3> QED BY <2>2, <3>1, BufferChanges
  <2> HIDE DEF q
  <2>5. Awaits(q)
    BY <1>0, <2>4 DEF Awaits
  <2>6. Reads(Complete(q, v), T) /\ Complete(q, v).mode \in {"after", "end"}
    BY <2>2, <2>4, <2>5, CompleteReads
  <2> QED BY <2>3, <2>6
<1> QED BY <1>1, <1>2
-----------------------------------------------------------------------------
(* Between tokens.                                                         *)

LEMMA OpenStringReads ==
    ASSUME NEW S, NEW p \in Parsers(S), Reads(p, S), p.mode \in TokenModes,
           NEW naming \in BOOLEAN,
           naming = FALSE => Awaits(p), naming = TRUE => InObject(p)
    PROVE  Reads(OpenString(p, naming), S)
<1> DEFINE q == OpenString(p, naming)
<1>1. SoundSet(S) /\ NamesInv(p) /\ p.buffer = <<>>
  BY DEF Reads, ParserInv, BufferInv
<1>2. /\ q \in Parsers(S) /\ q.mode = "string" /\ q.naming = naming
      /\ q.stack = p.stack /\ q.buffer = p.buffer
  BY DEF OpenString, Parsers, Modes, StringModes
<1> HIDE DEF q
<1>3. BufferFits(q)
  BY <1>1, <1>2, EmptyValid DEF BufferFits
<1>4. NamesInv(q)
  <2>1. CASE naming = FALSE
    BY <1>2, <2>1, AwaitedNames
  <2>2. CASE naming = TRUE
    <3>1. ~AwaitsValue(q)
      BY <1>2, <2>2 DEF AwaitsValue, NumberModes
    <3>2. AwaitsNoMore(p, q)
      BY <3>1 DEF AwaitsNoMore
    <3> QED BY <1>1, <1>2, <3>2, NamesKept
  <2> QED BY <2>1, <2>2
<1>5. q.naming = TRUE => InObject(q)
  BY <1>2 DEF InObject, Top
<1>6. Reads(q, S)
  BY <1>1, <1>2, <1>3, <1>4, <1>5, StringReads DEF StringModes
<1> QED BY <1>6 DEF q

LEMMA AtValueReads ==
    ASSUME NEW S, NEW p \in Parsers(S), Reads(p, S), p.mode \in ValueModes,
           NEW c \in Symbols
    PROVE  \E T : Reads(AtValue(p, c), T)
<1>1. SoundSet(S) /\ Awaits(p) /\ p.buffer = <<>> /\ p.mode \in TokenModes
  <2>1. p.mode \in NumberPlaces
    BY DEF NumberPlaces
  <2>2. p.mode \in TokenModes
    BY DEF ValueModes, TokenModes
  <2> QED BY <2>1, <2>2, NumberPlaceAwaits DEF Reads, ParserInv, BufferInv
<1>2. CASE c = "quote"
  <2>1. AtValue(p, c) = OpenString(p, FALSE)
    BY <1>2 DEF AtValue
  <2>2. Reads(OpenString(p, FALSE), S)
    BY <1>1, OpenStringReads
  <2> QED BY <2>1, <2>2
<1>3. CASE c \in {"{", "["}
  <2>1. \E kind \in {"object", "array"} : AtValue(p, c) = Open(p, kind)
    BY <1>3 DEF AtValue
  <2> QED BY <2>1, OpenReads
<1>4. CASE c = "keyword"
  <2> DEFINE v == <<"literal">>
             T == S \cup {v}
  <2>1. AtValue(p, c) = Complete(p, v)
    BY <1>4 DEF AtValue
  <2>2. BuiltFrom(v, S)
    BY DEF BuiltFrom
  <2>3. SoundSet(T) /\ v \in T /\ p \in Parsers(T)
    BY <1>1, <2>2, SetGrows, TypesGrow
  <2> HIDE DEF v, T
  <2> QED BY <1>1, <2>1, <2>3, CompleteReads
<1>5. CASE c = "word"
  <2>1. AtValue(p, c) = Failed("INVALID_LITERAL") /\ "INVALID_LITERAL" \in Codes
    BY <1>5 DEF AtValue, Codes
  <2> QED BY <1>1, <2>1, FailedReads
<1>6. CASE c \notin {"quote", "{", "[", "keyword", "word"}
  <2>1. AtValue(p, c) = IF NumberMode("value", c) # "none" THEN NumberSymbol(p, c)
                        ELSE Failed("UNEXPECTED_TOKEN")
    BY <1>6 DEF AtValue
  <2>2. CASE NumberMode("value", c) # "none"
    <3>1. NumberMode(p.mode, c) # "none"
      BY <2>2 DEF NumberMode, NumberEnds, ValueModes
    <3> QED BY <2>1, <2>2, <3>1, NumberSymbolReads DEF NumberPlaces
  <2>3. CASE NumberMode("value", c) = "none"
    <3>1. "UNEXPECTED_TOKEN" \in Codes
      BY DEF Codes
    <3> QED BY <1>1, <2>1, <2>3, <3>1, FailedReads
  <2> QED BY <2>2, <2>3
<1> QED BY <1>2, <1>3, <1>4, <1>5, <1>6

LEMMA AtNameReads ==
    ASSUME NEW S, NEW p \in Parsers(S), Reads(p, S),
           p.mode = "key" \/ p.mode = "first key", NEW c \in Symbols
    PROVE  Reads(AtName(p, c), S)
<1>1. CASE c = "quote"
  <2>1. AtName(p, c) = OpenString(p, TRUE)
    BY <1>1 DEF AtName
  <2>2. InObject(p) /\ p.mode \in TokenModes
    BY DEF Reads, ParserInv, PlaceInv, TokenModes
  <2>3. Reads(OpenString(p, TRUE), S)
    BY <2>2, OpenStringReads
  <2> QED BY <2>1, <2>3
<1>2. CASE c # "quote"
  <2>1. /\ AtName(p, c) = Failed("EXPECTED_PROPERTY_NAME")
        /\ "EXPECTED_PROPERTY_NAME" \in Codes /\ SoundSet(S)
    BY <1>2 DEF AtName, Codes, Reads
  <2> QED BY <2>1, FailedReads
<1> QED BY <1>1, <1>2

\* Only the mode changes.
LEMMA ExpectReads ==
    ASSUME NEW S, NEW p \in Parsers(S), Reads(p, S), p.mode \in TokenModes,
           NEW mode \in {"value", "key", "accepted"},
           mode = "value" => NamesInv(Expect(p, "value")),
           mode = "key" => InObject(p),
           mode = "accepted" => p.mode = "end"
    PROVE  Reads(Expect(p, mode), S)
<1> DEFINE q == Expect(p, mode)
<1>1. SoundSet(S) /\ NamesInv(p) /\ p.buffer = <<>>
  BY DEF Reads, ParserInv, BufferInv
<1>2. mode \in Modes
  BY DEF Modes, TokenModes
<1>3. /\ q \in Parsers(S) /\ q.mode = mode /\ q.buffer = <<>> /\ q.stack = p.stack
      /\ q.value = p.value
  BY <1>1, <1>2, ModeChanges
<1>4. mode = "value" => NamesInv(q)
  OBVIOUS
<1> HIDE DEF q
<1>5. NamesInv(q)
  <2>1. CASE mode = "value"
    BY <1>4, <2>1
  <2>2. CASE mode # "value"
    <3>1. ~AwaitsValue(q)
      BY <1>3, <2>2 DEF AwaitsValue, StringModes, NumberModes
    <3>2. AwaitsNoMore(p, q)
      BY <3>1 DEF AwaitsNoMore
    <3> QED BY <1>1, <1>3, <3>2, NamesKept
  <2> QED BY <2>1, <2>2
<1>6. PlaceInv(q) /\ BufferInv(q)
  <2>1. mode = "key" => InObject(q)
    BY <1>3 DEF InObject, Top
  <2>2. mode = "accepted" => q.stack = <<>>
    BY <1>3 DEF Reads, ParserInv, PlaceInv
  <2> QED BY <1>3, <2>1, <2>2 DEF PlaceInv, BufferInv, StringModes
<1>7. mode = "accepted" => q.value \in S
  BY <1>3 DEF Reads
<1>8. Reads(q, S)
  BY <1>1, <1>2, <1>3, <1>5, <1>6, <1>7 DEF Reads, ParserInv, StringModes
<1> QED BY <1>8 DEF q

LEMMA AfterValueReads ==
    ASSUME NEW S, NEW p \in Parsers(S), Reads(p, S), p.mode = "after",
           NEW mode, mode = IF InObject(p) THEN "key" ELSE "value"
    PROVE  Reads(Expect(p, mode), S)
<1>1. p.mode \in TokenModes /\ NamesInv(p) /\ p.stack # <<>>
      /\ p.stack \in Seq(Containers(S))
  BY DEF TokenModes, Reads, ParserInv, PlaceInv, Parsers
<1>2. CASE InObject(p)
  BY <1>1, <1>2, ExpectReads
<1>3. CASE ~InObject(p)
  <2> DEFINE q == Expect(p, "value")
  <2>1. q.stack = p.stack
    <3>1. "value" \in Modes
      BY DEF Modes, TokenModes
    <3> QED BY <3>1, ModeChanges
  <2> HIDE DEF q
  <2>2. Len(p.stack) \in Nat \ {0} /\ DOMAIN p.stack = 1..Len(p.stack)
    BY <1>1, LenProperties, EmptySeq
  <2>3. p.stack[Len(p.stack)].kind # "object"
    BY <1>1, <1>3 DEF InObject, Top, Last
  <2>4. NamesInv(q)
    <3> SUFFICES ASSUME NEW k \in DOMAIN q.stack, q.stack[k].kind = "object"
                 PROVE  /\ Distinct(q.stack[k].items)
                        /\ q.stack[k].key \notin Names(q.stack[k])
      BY DEF NamesInv
    <3>1. k < Len(p.stack) /\ k \in DOMAIN p.stack
      BY <2>1, <2>2, <2>3
    <3> QED BY <1>1, <2>1, <3>1 DEF NamesInv
  <2>5. Reads(Expect(p, "value"), S)
    BY <1>1, <2>4, ExpectReads DEF q
  <2> QED BY <1>3, <2>5
<1> QED BY <1>2, <1>3

LEMMA AtTokenReads ==
    ASSUME NEW S, NEW p \in Parsers(S), Reads(p, S), p.mode \in TokenModes,
           NEW c \in Symbols
    PROVE  \E T : Reads(AtToken(p, c), T)
<1>1. CASE c \in Whitespace
  BY <1>1 DEF AtToken
<1>2. CASE c \notin Whitespace /\ Closes(p, c)
  <2>1. AtToken(p, c) = Close(p)
    BY <1>2 DEF AtToken
  <2> QED BY <1>2, <2>1, CloseReads
<1>3. CASE c \notin Whitespace /\ ~Closes(p, c)
  <2>0. SoundSet(S) /\ p.mode \in TokenModes
    BY DEF Reads
  <2>1. CASE p.mode = "value" \/ p.mode = "first item"
    <3>1. AtToken(p, c) = AtValue(p, c)
      BY <1>3, <2>1 DEF AtToken
    <3> QED BY <2>1, <3>1, AtValueReads DEF ValueModes
  <2>2. CASE p.mode = "key" \/ p.mode = "first key"
    <3>1. AtToken(p, c) = AtName(p, c)
      BY <1>3, <2>2 DEF AtToken
    <3> QED BY <2>2, <3>1, AtNameReads
  <2>3. CASE p.mode = "colon"
    <3>1. CASE c = ":"
      <4>1. AtToken(p, c) = Expect(p, "value")
        BY <1>3, <2>3, <3>1 DEF AtToken
      <4>2. NamesInv(Expect(p, "value"))
        <5>1. Expect(p, "value").stack = p.stack
          <6>1. "value" \in Modes
            BY DEF Modes, TokenModes
          <6> QED BY <6>1, ModeChanges
        <5>2. AwaitsNoMore(p, Expect(p, "value"))
          BY <2>3 DEF AwaitsNoMore, AwaitsValue
        <5> QED BY <5>1, <5>2, NamesKept DEF Reads, ParserInv
      <4>3. Reads(Expect(p, "value"), S)
        BY <2>0, <4>2, ExpectReads
      <4> QED BY <4>1, <4>3
    <3>2. CASE c # ":"
      <4>1. AtToken(p, c) = Failed("EXPECTED_COLON") /\ "EXPECTED_COLON" \in Codes
        BY <1>3, <2>3, <3>2 DEF AtToken, Codes
      <4> QED BY <2>0, <4>1, FailedReads
    <3> QED BY <3>1, <3>2
  <2>4. CASE p.mode = "after"
    <3>1. CASE c = ","
      <4> DEFINE mode == IF InObject(p) THEN "key" ELSE "value"
      <4>1. AtToken(p, c) = Expect(p, mode)
        BY <1>3, <2>4, <3>1 DEF AtToken
      <4>2. Reads(Expect(p, mode), S)
        BY <2>4, AfterValueReads
      <4> QED BY <4>1, <4>2
    <3>2. CASE c # ","
      <4>1. AtToken(p, c) = Failed("EXPECTED_COMMA") /\ "EXPECTED_COMMA" \in Codes
        BY <1>3, <2>4, <3>2 DEF AtToken, Codes
      <4> QED BY <2>0, <4>1, FailedReads
    <3> QED BY <3>1, <3>2
  <2>5. CASE p.mode = "end"
    <3>1. CASE c = "eof"
      <4>1. AtToken(p, c) = Expect(p, "accepted")
        BY <1>3, <2>5, <3>1 DEF AtToken
      <4>2. Reads(Expect(p, "accepted"), S)
        BY <2>0, <2>5, ExpectReads
      <4> QED BY <4>1, <4>2
    <3>2. CASE c # "eof"
      <4>1. AtToken(p, c) = Failed("TRAILING_DATA") /\ "TRAILING_DATA" \in Codes
        BY <1>3, <2>5, <3>2 DEF AtToken, Codes
      <4> QED BY <2>0, <4>1, FailedReads
    <3> QED BY <3>1, <3>2
  <2>6. \/ p.mode = "value" \/ p.mode = "first item" \/ p.mode = "key"
        \/ p.mode = "first key" \/ p.mode = "colon" \/ p.mode = "after"
        \/ p.mode = "end"
    BY DEF TokenModes
  <2> QED BY <2>1, <2>2, <2>3, <2>4, <2>5, <2>6
<1> QED BY <1>1, <1>2, <1>3

LEMMA InNumberReads ==
    ASSUME NEW S, NEW p \in Parsers(S), Reads(p, S), p.mode \in NumberModes,
           NEW c \in Symbols
    PROVE  \E T : Reads(InNumber(p, c), T)
<1>0. SoundSet(S)
  BY DEF Reads
<1>1. CASE NumberMode(p.mode, c) # "none"
  <2>1. InNumber(p, c) = NumberSymbol(p, c)
    BY <1>1 DEF InNumber
  <2>2. Reads(NumberSymbol(p, c), S)
    BY <1>1, NumberSymbolReads DEF NumberPlaces
  <2> QED BY <2>1, <2>2
<1>2. CASE NumberMode(p.mode, c) = "none"
  <2> DEFINE q == NumberEnd(p)
  <2>1. \/ \E code \in Codes : InNumber(p, c) = Failed(code)
        \/ InNumber(p, c) = IF q.mode = "error" THEN q ELSE AtToken(q, c)
    <3>1. "LEADING_ZERO" \in Codes /\ "INVALID_NUMBER" \in Codes
      BY DEF Codes
    <3> QED BY <1>2, <3>1 DEF InNumber
  <2>2. PICK T : Reads(q, T) /\ q.mode \in {"error", "after", "end"}
    BY NumberEndReads
  <2>3. q \in Parsers(T)
    BY <2>2 DEF Reads
  <2> HIDE DEF q
  <2>4. CASE q.mode = "error"
    BY <1>0, <2>1, <2>2, <2>4, FailedReads
  <2>5. CASE q.mode # "error"
    <3>1. q.mode \in TokenModes
      BY <2>2, <2>5 DEF TokenModes
    <3>2. \E U : Reads(AtToken(q, c), U)
      BY <2>2, <2>3, <3>1, AtTokenReads
    <3> QED BY <1>0, <2>1, <2>5, <3>2, FailedReads
  <2> QED BY <2>4, <2>5
<1> QED BY <1>1, <1>2

\* One symbol more, and what has been read still consists of sound values.
LEMMA StepReads ==
    ASSUME NEW S, NEW p \in Parsers(S), Reads(p, S), NEW c \in Symbols
    PROVE  \E T : Reads(Step(p, c), T)
<1>1. CASE Stopped(p)
  <2>1. Step(p, c) = p
    BY <1>1 DEF Step, Stopped, NumberModes
  <2> QED BY <2>1
<1>2. CASE ~Stopped(p) /\ p.mode = "string"
  <2>1. Step(p, c) = InString(p, c)
    BY <1>2 DEF Step, Stopped, NumberModes
  <2> QED BY <1>2, <2>1, InStringReads
<1>3. CASE ~Stopped(p) /\ p.mode \in StringModes /\ p.mode # "string"
  <2>1. Step(p, c) = AfterHigh(p, c)
    <3>1. p.mode = "escaped low" \/ p.mode = "raw low"
      BY <1>3 DEF StringModes
    <3> QED BY <1>3, <3>1 DEF Step, Stopped, NumberModes
  <2>2. Reads(AfterHigh(p, c), S)
    BY <1>3, AfterHighReads
  <2> QED BY <2>1, <2>2
<1>4. CASE ~Stopped(p) /\ p.mode \in NumberModes
  <2>1. Step(p, c) = InNumber(p, c)
    BY <1>4 DEF Step, Stopped, NumberModes
  <2> QED BY <1>4, <2>1, InNumberReads
<1>5. CASE ~Stopped(p) /\ p.mode \in TokenModes
  <2>1. Step(p, c) = AtToken(p, c)
    BY <1>5 DEF Step, Stopped, TokenModes, NumberModes
  <2> QED BY <1>5, <2>1, AtTokenReads
<1> QED BY <1>1, <1>2, <1>3, <1>4, <1>5 DEF Parsers, Modes, Stopped
-----------------------------------------------------------------------------
\* What was read is made of sound values, and the parser is where they fit.
SoundInv == \E S : Reads(parser, S)

THEOREM ReaderInvariant == Spec => []SoundInv
<1>1. Init => SoundInv
  <2>1. SoundSet({})
    BY DEF SoundSet
  <2>2. Reads(Start, {})
    BY <2>1, StartReads
  <2> QED BY <2>2 DEF Init, SoundInv
<1>2. SoundInv /\ [Next]_vars => SoundInv'
  <2> SUFFICES ASSUME SoundInv, [Next]_vars
               PROVE  SoundInv'
    OBVIOUS
  <2>1. CASE Next
    <3>1. PICK c \in Symbols : parser' = Step(parser, c)
      BY <2>1 DEF Next, Read
    <3>2. PICK S : Reads(parser, S)
      BY DEF SoundInv
    <3>3. parser \in Parsers(S)
      BY <3>2 DEF Reads
    <3>4. \E T : Reads(Step(parser, c), T)
      BY <3>2, <3>3, StepReads
    <3> QED BY <3>1, <3>4 DEF SoundInv
  <2>2. CASE UNCHANGED vars
    BY <2>2 DEF vars, SoundInv
  <2> QED BY <2>1, <2>2
<1> QED BY <1>1, <1>2, PTL DEF Spec

\* The part of it that TLC evaluates.
THEOREM PlacesAndNames == Spec => []IInv
<1>1. SoundInv => IInv
  BY DEF SoundInv, Reads, IInv
<1> QED BY <1>1, ReaderInvariant, PTL

\* No text of any length makes the parser take two members of one name
\* (keys.has in parseObject), however deep the object and however it spells them.
THEOREM NamesAreUnique == Spec => []NamesUnique
<1>1. IInv => NamesUnique
  BY DEF IInv, ParserInv, NamesInv, NamesUnique
<1> QED BY <1>1, PlacesAndNames, PTL

\* The value of an accepted text is sound down to its innermost parts, so
\* canonicalize finds nothing in it to throw at.
THEOREM AcceptedIsSound == Spec => [](Accepted => Sound(parser.value))
<1>1. SoundInv => (Accepted => Sound(parser.value))
  BY DEF SoundInv, Reads, Accepted, Sound
<1> QED BY <1>1, ReaderInvariant, PTL

-----------------------------------------------------------------------------
(* 6. How deep a value may be where it is.                                 *)

\* The values for which there is room inside k open containers.
Room(k) == JsonValues[MaxDepth + 1 - k]

\* The value a container is if it is closed now.
Whole(container) == <<container.kind, container.items>>

\* Every open container fits where it is.
Nested(p) ==
    /\ Len(p.stack) <= MaxDepth
    /\ \A k \in DOMAIN p.stack : Whole(p.stack[k]) \in Room(k - 1)

Fits(p) == Nested(p) /\ (p.mode \in {"end", "accepted"} => p.value \in Room(0))

LEMMA RoomBuilt ==
    ASSUME NEW k \in 1..(MaxDepth + 1)
    PROVE  \A v : v \in Room(k - 1) <=> BuiltFrom(v, Room(k))
<1> DEFINE n == MaxDepth + 1 - k
<1>1. n \in 0..MaxDepth /\ MaxDepth + 1 - (k - 1) = n + 1
  BY JsonAssumption
<1> HIDE DEF n
<1>2. \A v : v \in JsonValues[n + 1] <=> BuiltFrom(v, JsonValues[n])
  BY <1>1, Levels
<1> QED BY <1>1, <1>2 DEF Room, n

\* What has no parts fits everywhere.
LEMMA RoomForOne ==
    ASSUME NEW k \in 0..MaxDepth, NEW v, BuiltFrom(v, {})
    PROVE  v \in Room(k)
<1> DEFINE j == k + 1
<1>1. j \in 1..(MaxDepth + 1) /\ j - 1 = k
  BY JsonAssumption
<1> HIDE DEF j
<1>2. BuiltFrom(v, Room(j))
  BY BuiltFromMore
<1>3. v \in Room(j - 1)
  BY <1>1, <1>2, RoomBuilt
<1> QED BY <1>1, <1>3

LEMMA ArrayRoom ==
    ASSUME NEW k \in 1..MaxDepth, NEW items, <<"array", items>> \in Room(k - 1),
           NEW v \in Room(k)
    PROVE  <<"array", Append(items, v)>> \in Room(k - 1)
<1> DEFINE R == Room(k)
<1>0. k \in 1..(MaxDepth + 1)
  BY JsonAssumption
<1>1. \A w : w \in Room(k - 1) <=> BuiltFrom(w, R)
  BY <1>0, RoomBuilt
<1>2. v \in R
  OBVIOUS
<1> HIDE DEF R
<1>3. items \in Seq(R)
  BY <1>1 DEF BuiltFrom
<1>4. Append(items, v) \in Seq(R)
  BY <1>2, <1>3
<1>5. BuiltFrom(<<"array", Append(items, v)>>, R)
  BY <1>4 DEF BuiltFrom
<1> QED BY <1>1, <1>5

LEMMA ObjectRoom ==
    ASSUME NEW k \in 1..MaxDepth, NEW items, <<"object", items>> \in Room(k - 1),
           NEW name \in ValidStrings, name \notin {items[i][1] : i \in DOMAIN items},
           NEW v \in Room(k)
    PROVE  <<"object", Append(items, <<name, v>>)>> \in Room(k - 1)
<1> DEFINE R == Room(k)
           item == <<name, v>>
<1>0. k \in 1..(MaxDepth + 1)
  BY JsonAssumption
<1>1. \A w : w \in Room(k - 1) <=> BuiltFrom(w, R)
  BY <1>0, RoomBuilt
<1>2. v \in R
  OBVIOUS
<1> HIDE DEF R
<1>3. items \in MemberLists(R)
  BY <1>1 DEF BuiltFrom
<1>4. items \in Seq(ValidStrings \X R) /\ Distinct(items)
  BY <1>3 DEF MemberLists
<1>5. item \in ValidStrings \X R /\ item[1] = name
  BY <1>2
<1> HIDE DEF item
<1>6. /\ Append(items, item) \in Seq(ValidStrings \X R)
      /\ Len(Append(items, item)) = Len(items) + 1
      /\ \A i \in 1..Len(items) : Append(items, item)[i] = items[i]
      /\ Append(items, item)[Len(items) + 1] = item
  BY <1>4, <1>5
<1>7. Distinct(Append(items, item))
  BY <1>4, <1>5, <1>6 DEF Distinct
<1>8. Append(items, item) \in MemberLists(R)
  BY <1>6, <1>7 DEF MemberLists
<1>9. BuiltFrom(<<"object", Append(items, item)>>, R)
  BY <1>8 DEF BuiltFrom
<1> QED BY <1>1, <1>9 DEF item

LEMMA StackTop ==
    ASSUME NEW S, NEW p \in Parsers(S), p.stack # <<>>
    PROVE  /\ p.stack \in Seq(Containers(S))
           /\ Len(p.stack) \in Nat \ {0} /\ DOMAIN p.stack = 1..Len(p.stack)
           /\ Top(p) = p.stack[Len(p.stack)] /\ Top(p) \in Containers(S)
           /\ Front(p.stack) \in Seq(Containers(S))
           /\ Len(Front(p.stack)) = Len(p.stack) - 1
           /\ \A k \in 1..Len(p.stack) - 1 : Front(p.stack)[k] = p.stack[k]
<1>1. p.stack \in Seq(Containers(S))
  BY DEF Parsers
<1>2. Len(p.stack) \in Nat \ {0} /\ DOMAIN p.stack = 1..Len(p.stack)
  BY <1>1, LenProperties, EmptySeq
<1>3. Top(p) = p.stack[Len(p.stack)]
  BY DEF Top, Last
<1>4. Top(p) \in Containers(S)
  BY <1>1, <1>2, <1>3, ElementOfSeq
<1>5. /\ Front(p.stack) \in Seq(Containers(S))
      /\ Len(Front(p.stack)) = Len(p.stack) - 1
      /\ \A k \in 1..Len(p.stack) - 1 : Front(p.stack)[k] = p.stack[k]
  BY <1>1, <1>2 DEF Front
<1> QED BY <1>1, <1>2, <1>3, <1>4, <1>5

\* The innermost container with one value more.
Filled(p, v) ==
    [Top(p) EXCEPT !.items = Append(@, IF InObject(p) THEN <<Top(p).key, v>> ELSE v)]

LEMMA FilledRoom ==
    ASSUME NEW S, NEW p \in Parsers(S), p.stack # <<>>, Awaits(p), Nested(p),
           NEW v \in Room(Len(p.stack))
    PROVE  Whole(Filled(p, v)) \in Room(Len(p.stack) - 1)
<1> DEFINE n == Len(p.stack)
           top == Top(p)
<1>1. n \in 1..MaxDepth /\ n \in DOMAIN p.stack /\ top = p.stack[n] /\ top \in Containers(S)
  BY StackTop, JsonAssumption DEF Nested
<1>2. <<top.kind, top.items>> \in Room(n - 1)
  BY <1>1 DEF Nested, Whole
<1>3. CASE InObject(p)
  <2>1. /\ top \in [kind : {"object"}, items : Seq(ValidStrings \X S), key : ValidStrings]
        /\ top.kind = "object"
    BY <1>1, <1>3 DEF InObject, Containers
  <2>2. top.key \notin {top.items[i][1] : i \in DOMAIN top.items}
    BY <1>1, <2>1 DEF Awaits, Names
  <2>3. Filled(p, v) = [top EXCEPT !.items = Append(top.items, <<top.key, v>>)]
    BY <1>3 DEF Filled
  <2> HIDE DEF n, top
  <2>4. /\ Filled(p, v).kind = "object"
        /\ Filled(p, v).items = Append(top.items, <<top.key, v>>)
    BY <2>1, <2>3
  <2>5. top.key \in ValidStrings
    BY <2>1
  <2>6. <<"object", Append(top.items, <<top.key, v>>)>> \in Room(n - 1)
    BY <1>1, <1>2, <2>1, <2>2, <2>5, ObjectRoom DEF n
  <2> QED BY <2>4, <2>6 DEF Whole, n
<1>4. CASE ~InObject(p)
  <2>1. /\ top \in [kind : {"array"}, items : Seq(S), key : ValidStrings]
        /\ top.kind = "array"
    BY <1>1, <1>4 DEF InObject, Containers
  <2>2. Filled(p, v) = [top EXCEPT !.items = Append(top.items, v)]
    BY <1>4 DEF Filled
  <2> HIDE DEF n, top
  <2>3. Filled(p, v).kind = "array" /\ Filled(p, v).items = Append(top.items, v)
    BY <2>1, <2>2
  <2>4. <<"array", Append(top.items, v)>> \in Room(n - 1)
    BY <1>1, <1>2, <2>1, ArrayRoom DEF n
  <2> QED BY <2>3, <2>4 DEF Whole, n
<1> QED BY <1>3, <1>4

\* A complete value that fits leaves everything fitting.
LEMMA CompleteFits ==
    ASSUME NEW S, NEW p \in Parsers(S), Awaits(p), Nested(p), NEW v \in Room(Len(p.stack))
    PROVE  Fits(Complete(p, v))
<1> DEFINE q == Complete(p, v)
<1>1. CASE p.stack = <<>>
  <2>1. q = [p EXCEPT !.mode = "end", !.value = v]
    BY <1>1 DEF Complete
  <2>2. q.value = v /\ q.stack = p.stack
    BY <2>1 DEF Parsers
  <2>3. v \in Room(0)
    BY <1>1
  <2> HIDE DEF q
  <2>4. Fits(q)
    BY <2>2, <2>3 DEF Fits, Nested
  <2> QED BY <2>4 DEF q
<1>2. CASE p.stack # <<>>
  <2> DEFINE new == Filled(p, v)
             front == Front(p.stack)
             n == Len(p.stack)
  <2>1. q = [p EXCEPT !.mode = "after", !.stack = Append(front, new)]
    BY <1>2 DEF Complete, Filled
  <2>2. /\ n \in Nat \ {0} /\ DOMAIN p.stack = 1..n
        /\ front \in Seq(Containers(S)) /\ Len(front) = n - 1
        /\ \A k \in 1..n - 1 : front[k] = p.stack[k]
    BY <1>2, StackTop
  <2>3. Whole(new) \in Room(n - 1)
    BY <1>2, FilledRoom
  <2>4. n <= MaxDepth /\ \A k \in 1..n : Whole(p.stack[k]) \in Room(k - 1)
    BY <2>2 DEF Nested
  <2> HIDE DEF new, front, n
  <2>5. /\ Len(Append(front, new)) = n /\ DOMAIN Append(front, new) = 1..n
        /\ \A k \in 1..n - 1 : Append(front, new)[k] = p.stack[k]
        /\ Append(front, new)[n] = new
    BY <2>2
  <2>6. q.mode = "after" /\ q.stack = Append(front, new)
    BY <2>1 DEF Parsers
  <2> HIDE DEF q
  <2>7. \A k \in 1..n : Whole(q.stack[k]) \in Room(k - 1)
    <3> SUFFICES ASSUME NEW k \in 1..n
                 PROVE  Whole(q.stack[k]) \in Room(k - 1)
      OBVIOUS
    <3>1. CASE k = n
      BY <2>3, <2>5, <2>6, <3>1
    <3>2. CASE k # n
      <4>1. k \in 1..n - 1
        BY <2>2, <3>2
      <4> QED BY <2>4, <2>5, <2>6, <4>1
    <3> QED BY <3>1, <3>2
  <2>8. Fits(q)
    BY <2>4, <2>5, <2>6, <2>7 DEF Fits, Nested
  <2> QED BY <2>8 DEF q
<1> QED BY <1>1, <1>2

\* Nothing fits less when the stack stays what it was.
LEMMA FitsKept ==
    ASSUME NEW p, NEW q, Fits(p), q.stack = p.stack, q.mode \notin {"end", "accepted"}
    PROVE  Fits(q)
BY DEF Fits, Nested

LEMMA FailedFits ==
    ASSUME NEW code
    PROVE  Fits(Failed(code))
<1> DEFINE f == Failed(code)
<1>1. f.stack = <<>> /\ f.mode = "error"
  <2>1. f = [[Start EXCEPT !.mode = "error"] EXCEPT !.code = code]
    BY DEF Failed
  <2>2. Start.stack = <<>>
    BY DEF Start
  <2> HIDE DEF f
  <2> QED BY <2>1, <2>2 DEF Start
<1> HIDE DEF f
<1>2. Fits(f)
  BY <1>1, JsonAssumption DEF Fits, Nested
<1> QED BY <1>2 DEF f

LEMMA OpenFits ==
    ASSUME NEW S, NEW p \in Parsers(S), Fits(p), NEW kind \in {"object", "array"},
           Len(Open(p, kind).stack) <= MaxDepth
    PROVE  Fits(Open(p, kind))
<1> DEFINE q == Open(p, kind)
           new == [kind |-> kind, items |-> <<>>, key |-> <<>>]
           mode == IF kind = "object" THEN "first key" ELSE "first item"
           n == Len(p.stack)
<1>1. q = [p EXCEPT !.mode = mode, !.stack = Append(p.stack, new)]
  BY DEF Open
<1>2. mode \notin {"end", "accepted"}
  OBVIOUS
<1>3. p.stack \in Seq(Containers(S)) /\ n \in Nat /\ DOMAIN p.stack = 1..n
  BY LenProperties DEF Parsers
<1>4. Whole(new) = <<kind, <<>>>>
  BY DEF Whole
<1>5. BuiltFrom(<<kind, <<>>>>, {})
  <2>1. <<>> \in Seq({}) /\ <<>> \in MemberLists({})
    BY DEF MemberLists, Distinct
  <2> QED BY <2>1 DEF BuiltFrom
<1> HIDE DEF new, mode, n
<1>6. /\ Len(Append(p.stack, new)) = n + 1
      /\ \A k \in 1..n : Append(p.stack, new)[k] = p.stack[k]
      /\ Append(p.stack, new)[n + 1] = new
      /\ DOMAIN Append(p.stack, new) = 1..n + 1
  BY <1>3 DEF n
<1>7. q.mode = mode /\ q.stack = Append(p.stack, new)
  BY <1>1 DEF Parsers
<1>8. n + 1 <= MaxDepth
  BY <1>6, <1>7
<1> HIDE DEF q
<1>9. Whole(new) \in Room(n)
  BY <1>3, <1>4, <1>5, <1>8, RoomForOne, JsonAssumption
<1>10. \A k \in 1..n + 1 : Whole(q.stack[k]) \in Room(k - 1)
  <2> SUFFICES ASSUME NEW k \in 1..n + 1
               PROVE  Whole(q.stack[k]) \in Room(k - 1)
    OBVIOUS
  <2>1. CASE k = n + 1
    <3>1. k - 1 = n
      BY <1>3, <2>1
    <3> QED BY <1>6, <1>7, <1>9, <2>1, <3>1
  <2>2. CASE k # n + 1
    <3>1. k \in 1..n
      BY <1>3, <2>2
    <3> QED BY <1>3, <1>6, <1>7, <3>1 DEF Fits, Nested
  <2> QED BY <2>1, <2>2
<1>11. Fits(q)
  BY <1>2, <1>6, <1>7, <1>8, <1>10 DEF Fits, Nested
<1> QED BY <1>11 DEF q

LEMMA CloseFits ==
    ASSUME NEW S, NEW p \in Parsers(S), Reads(p, S), Fits(p), NEW c, Closes(p, c)
    PROVE  Fits(Close(p))
<1> DEFINE r == Inner(p)
           n == Len(p.stack)
           v == Whole(Top(p))
<1>1. NamesInv(p) /\ p.stack # <<>>
  BY DEF Reads, ParserInv, Closes, InArray, InObject
<1>2. /\ r \in Parsers(S) /\ Awaits(r) /\ r.stack = Front(p.stack)
  BY <1>1, InnerAwaits
<1>3. /\ n \in Nat \ {0} /\ DOMAIN p.stack = 1..n /\ Top(p) = p.stack[n]
      /\ Len(Front(p.stack)) = n - 1
      /\ \A k \in 1..n - 1 : Front(p.stack)[k] = p.stack[k]
      /\ Front(p.stack) \in Seq(Containers(S))
  BY <1>1, StackTop
<1>4. n <= MaxDepth /\ \A k \in 1..n : Whole(p.stack[k]) \in Room(k - 1)
  BY <1>3 DEF Fits, Nested
<1>5. Close(p) = Complete(r, v)
  BY DEF Close, Inner, Whole
<1>6. v \in Room(n - 1)
  BY <1>3, <1>4
<1> HIDE DEF r, n, v
<1>7. Len(r.stack) = n - 1 /\ DOMAIN r.stack = 1..n - 1
  BY <1>2, <1>3
<1>8. Nested(r)
  <2>1. \A k \in 1..n - 1 : Whole(r.stack[k]) \in Room(k - 1)
    BY <1>2, <1>3, <1>4
  <2>2. Len(r.stack) <= MaxDepth
    BY <1>3, <1>4, <1>7, JsonAssumption
  <2> QED BY <1>7, <2>1, <2>2 DEF Nested
<1>9. v \in Room(Len(r.stack))
  BY <1>6, <1>7
<1>10. Fits(Complete(r, v))
  BY <1>2, <1>8, <1>9, CompleteFits
<1> QED BY <1>5, <1>10

\* A value without parts, where one is expected.
LEMMA OneFits ==
    ASSUME NEW S, NEW p \in Parsers(S), Awaits(p), Nested(p), NEW v, BuiltFrom(v, {})
    PROVE  Fits(Complete(p, v))
<1>1. Len(p.stack) \in 0..MaxDepth
  <2>1. p.stack \in Seq(Containers(S))
    BY DEF Parsers
  <2> QED BY <2>1, LenProperties, JsonAssumption DEF Nested
<1>2. v \in Room(Len(p.stack))
  BY <1>1, RoomForOne
<1> QED BY <1>2, CompleteFits
-----------------------------------------------------------------------------
(* Every step keeps everything fitting.                                    *)

LEMMA ClosedFits ==
    ASSUME NEW S, NEW p \in Parsers(S), Reads(p, S), p.mode = "string", Fits(p)
    PROVE  Fits(Closed(p))
<1> DEFINE q == Emptied(p)
<1>0. q \in Parsers(S) /\ q.mode = p.mode /\ q.stack = p.stack
  BY EmptiedChanges
<1>5. Closed(p) = TakeString(p)
  BY BufferValid, ClosedValid DEF ValidStrings
<1>1. CASE p.naming = FALSE
  <2> DEFINE v == <<"string", p.buffer>>
  <2>1. Closed(p) = Complete(q, v)
    BY <1>5, <1>1 DEF TakeString, Emptied
  <2>2. BuiltFrom(v, {})
    BY BufferValid DEF BuiltFrom
  <2>3. Awaits(p)
    <3>1. ExpectsValue(p)
      BY <1>1 DEF ExpectsValue, AwaitsValue, StringModes
    <3> QED BY <3>1, ExpectedAwaits
  <2> HIDE DEF q, v
  <2>4. Awaits(q) /\ Nested(q)
    BY <1>0, <2>3 DEF Awaits, Fits, Nested
  <2> QED BY <1>0, <2>1, <2>2, <2>4, OneFits
<1>2. CASE p.naming = TRUE /\ KnownName(p, p.buffer)
  <2>1. Closed(p) = Failed("DUPLICATE_PROPERTY")
    BY <1>5, <1>2 DEF TakeString
  <2> QED BY <2>1, FailedFits
<1>3. CASE p.naming = TRUE /\ ~KnownName(p, p.buffer)
  <2> DEFINE new == [Top(p) EXCEPT !.key = p.buffer]
             front == Front(p.stack)
             n == Len(p.stack)
             r == [q EXCEPT !.mode = "colon", !.stack = Append(front, new)]
  <2>1. Closed(p) = r
    <3>1. Closed(p) = [q EXCEPT !.mode = "colon", !.stack = Append(Front(q.stack), new)]
      BY <1>5, <1>3 DEF TakeString, Emptied
    <3> HIDE DEF q
    <3> QED BY <1>0, <3>1
  <2>2. p.stack # <<>>
    BY <1>3 DEF Reads, ParserInv, PlaceInv, InObject, StringModes
  <2>3. /\ n \in Nat \ {0} /\ DOMAIN p.stack = 1..n /\ Top(p) = p.stack[n]
        /\ Top(p) \in Containers(S)
        /\ front \in Seq(Containers(S)) /\ Len(front) = n - 1
        /\ \A k \in 1..n - 1 : front[k] = p.stack[k]
    BY <2>2, StackTop
  <2>4. Whole(new) = Whole(Top(p))
    BY <2>3 DEF Whole, Containers
  <2>5. n <= MaxDepth /\ \A k \in 1..n : Whole(p.stack[k]) \in Room(k - 1)
    BY <2>3 DEF Fits, Nested
  <2> HIDE DEF new, front, n, q
  <2>6. /\ Len(Append(front, new)) = n /\ DOMAIN Append(front, new) = 1..n
        /\ \A k \in 1..n - 1 : Append(front, new)[k] = p.stack[k]
        /\ Append(front, new)[n] = new
    BY <2>3
  <2>7. r.mode = "colon" /\ r.stack = Append(front, new)
    BY <1>0 DEF Parsers
  <2> HIDE DEF r
  <2>8. \A k \in 1..n : Whole(r.stack[k]) \in Room(k - 1)
    <3> SUFFICES ASSUME NEW k \in 1..n
                 PROVE  Whole(r.stack[k]) \in Room(k - 1)
      OBVIOUS
    <3>1. CASE k = n
      BY <2>3, <2>4, <2>5, <2>6, <2>7, <3>1
    <3>2. CASE k # n
      <4>1. k \in 1..n - 1
        BY <2>3, <3>2
      <4> QED BY <2>5, <2>6, <2>7, <4>1
    <3> QED BY <3>1, <3>2
  <2>9. Fits(r)
    BY <2>5, <2>6, <2>7, <2>8 DEF Fits, Nested
  <2> QED BY <2>1, <2>9
<1>4. p.naming \in BOOLEAN
  BY DEF Parsers
<1> QED BY <1>1, <1>2, <1>3, <1>4

LEMMA CollectFits ==
    ASSUME NEW S, NEW p \in Parsers(S), Fits(p), NEW u
    PROVE  /\ Fits(Collect(p, u))
           /\ \A mode \in StringModes : Fits(Expect(Collect(p, u), mode))
<1> DEFINE q == Collect(p, u)
           r == [p EXCEPT !.mode = "string"]
           b == Append(p.buffer, u)
<1>1. q = [r EXCEPT !.buffer = b]
  BY DEF Collect
<1>2. r.mode = "string" /\ r.stack = p.stack /\ DOMAIN r = DOMAIN p
  BY DEF Parsers
<1>3. DOMAIN p = {"mode", "stack", "naming", "buffer", "value", "code"}
  BY DEF Parsers
<1> HIDE DEF r, b
<1>4. q.mode = "string" /\ q.stack = p.stack /\ DOMAIN q = DOMAIN p
  BY <1>1, <1>2, <1>3
<1> HIDE DEF q
<1>5. Fits(q)
  BY <1>4, FitsKept
<1>6. ASSUME NEW mode \in StringModes
      PROVE  Fits(Expect(q, mode))
  <2>1. Expect(q, mode).mode = mode /\ Expect(q, mode).stack = p.stack
    BY <1>3, <1>4 DEF Expect
  <2> QED BY <2>1, FitsKept DEF StringModes
<1> QED BY <1>5, <1>6 DEF q

LEMMA InStringFits ==
    ASSUME NEW S, NEW p \in Parsers(S), Reads(p, S), p.mode = "string", Fits(p),
           NEW c \in Symbols
    PROVE  Fits(InString(p, c))
<1>1. \/ InString(p, c) = Closed(p)
      \/ \E code \in Codes : InString(p, c) = Failed(code)
      \/ \E mode \in StringModes : InString(p, c) = Expect(Collect(p, "high"), mode)
      \/ InString(p, c) = Collect(p, CHOOSE u \in Units : c = Escape[u])
      \/ \E u \in Units : InString(p, c) = Collect(p, u)
  <2>1. CASE c \in {"eof", "esc bad", "esc hex", "esc low", "low", "control", "tab"}
    BY <2>1, Escapes DEF InString, Codes
  <2>2. CASE c = "quote"
    BY <2>2, Escapes DEF InString
  <2>3. CASE c \in {"esc high", "high"}
    BY <2>3, Escapes DEF InString, StringModes
  <2>4. CASE c \notin {"eof", "esc bad", "esc hex", "esc low", "low", "control",
                       "tab", "quote", "esc high", "high"}
    <3>1. InString(p, c) =
             IF \E u \in Units : c = Escape[u]
             THEN Collect(p, CHOOSE u \in Units : c = Escape[u])
             ELSE Collect(p, IF c = "b" THEN "b" ELSE "a")
      BY <2>4, Escapes DEF InString
    <3> QED BY <3>1 DEF Units
  <2> QED BY <2>1, <2>2, <2>3, <2>4
<1> QED BY <1>1, ClosedFits, FailedFits, CollectFits

LEMMA AfterHighFits ==
    ASSUME NEW S, NEW p \in Parsers(S), Fits(p), NEW c
    PROVE  Fits(AfterHigh(p, c))
<1>1. \/ AfterHigh(p, c) = Collect(p, "low")
      \/ \E code \in Codes : AfterHigh(p, c) = Failed(code)
  BY Escapes DEF AfterHigh, Codes
<1> QED BY <1>1, FailedFits, CollectFits

LEMMA NumberSymbolFits ==
    ASSUME NEW S, NEW p \in Parsers(S), Fits(p), NEW c, NumberMode(p.mode, c) # "none"
    PROVE  Fits(NumberSymbol(p, c))
<1> DEFINE mode == NumberMode(p.mode, c)
           b == Weigh(p, mode, c)
           q == [p EXCEPT !.mode = mode]
<1>1. mode \notin {"end", "accepted"}
  BY NumberModeType DEF NumberModes
<1>2. NumberSymbol(p, c) = [q EXCEPT !.buffer = b]
  BY DEF NumberSymbol
<1>3. /\ DOMAIN p = {"mode", "stack", "naming", "buffer", "value", "code"}
      /\ p = [x \in DOMAIN p |-> p[x]]
  BY DEF Parsers
<1> HIDE DEF mode, b
<1>4. q.mode = mode /\ q.stack = p.stack /\ DOMAIN q = DOMAIN p
  BY <1>3
<1> HIDE DEF q
<1>5. NumberSymbol(p, c).mode = mode /\ NumberSymbol(p, c).stack = p.stack
  BY <1>2, <1>3, <1>4
<1> QED BY <1>1, <1>5, FitsKept

LEMMA NumberEndFits ==
    ASSUME NEW S, NEW p \in Parsers(S), Reads(p, S), p.mode \in NumberModes, Fits(p)
    PROVE  Fits(NumberEnd(p))
<1>1. CASE p.buffer = <<"huge">>
  <2>1. NumberEnd(p) = Failed("NON_FINITE_NUMBER")
    BY <1>1 DEF NumberEnd
  <2> QED BY <2>1, FailedFits
<1>2. CASE p.buffer # <<"huge">>
  <2> DEFINE v == <<"number", IF p.buffer = <<>> THEN "0" ELSE "1">>
             q == Buffered(p, <<>>)
  <2>1. NumberEnd(p) = Complete(q, v)
    BY <1>2 DEF NumberEnd, Buffered
  <2>2. BuiltFrom(v, {})
    BY DEF BuiltFrom
  <2>3. q \in Parsers(S) /\ q.stack = p.stack
    <3>1. <<>> \in Seq(Units \cup {"1", "huge"})
      OBVIOUS
    <3> QED BY <3>1, BufferChanges
  <2> HIDE DEF q, v
  <2>4. Awaits(p)
    BY NumberPlaceAwaits DEF NumberPlaces
  <2>5. Awaits(q) /\ Nested(q)
    BY <2>3, <2>4 DEF Awaits, Fits, Nested
  <2> QED BY <2>1, <2>2, <2>3, <2>5, OneFits
<1> QED BY <1>1, <1>2

LEMMA AtValueFits ==
    ASSUME NEW S, NEW p \in Parsers(S), Reads(p, S), p.mode \in ValueModes, Fits(p),
           NEW c, Len(AtValue(p, c).stack) <= MaxDepth
    PROVE  Fits(AtValue(p, c))
<1>1. Awaits(p) /\ Nested(p)
  BY NumberPlaceAwaits DEF NumberPlaces, Fits
<1>2. CASE c = "quote"
  <2> DEFINE q == OpenString(p, FALSE)
  <2>1. AtValue(p, c) = q
    BY <1>2 DEF AtValue
  <2>2. q.mode = "string" /\ q.stack = p.stack
    BY DEF OpenString, Parsers
  <2> HIDE DEF q
  <2> QED BY <2>1, <2>2, FitsKept
<1>3. CASE c \in {"{", "["}
  <2>1. \E kind \in {"object", "array"} : AtValue(p, c) = Open(p, kind)
    BY <1>3 DEF AtValue
  <2> QED BY <2>1, OpenFits
<1>4. CASE c = "keyword"
  <2>1. AtValue(p, c) = Complete(p, <<"literal">>)
    BY <1>4 DEF AtValue
  <2>2. BuiltFrom(<<"literal">>, {})
    BY DEF BuiltFrom
  <2> QED BY <1>1, <2>1, <2>2, OneFits
<1>5. CASE c = "word"
  <2>1. AtValue(p, c) = Failed("INVALID_LITERAL")
    BY <1>5 DEF AtValue
  <2> QED BY <2>1, FailedFits
<1>6. CASE c \notin {"quote", "{", "[", "keyword", "word"}
  <2>1. AtValue(p, c) = IF NumberMode("value", c) # "none" THEN NumberSymbol(p, c)
                        ELSE Failed("UNEXPECTED_TOKEN")
    BY <1>6 DEF AtValue
  <2>2. NumberMode("value", c) # "none" => NumberMode(p.mode, c) # "none"
    BY DEF NumberMode, NumberEnds, ValueModes
  <2> QED BY <2>1, <2>2, NumberSymbolFits, FailedFits
<1> QED BY <1>2, <1>3, <1>4, <1>5, <1>6

LEMMA AtNameFits ==
    ASSUME NEW S, NEW p \in Parsers(S), Fits(p), NEW c
    PROVE  Fits(AtName(p, c))
<1>1. CASE c = "quote"
  <2> DEFINE q == OpenString(p, TRUE)
  <2>1. AtName(p, c) = q
    BY <1>1 DEF AtName
  <2>2. q.mode = "string" /\ q.stack = p.stack
    BY DEF OpenString, Parsers
  <2> HIDE DEF q
  <2> QED BY <2>1, <2>2, FitsKept
<1>2. CASE c # "quote"
  <2>1. AtName(p, c) = Failed("EXPECTED_PROPERTY_NAME")
    BY <1>2 DEF AtName
  <2> QED BY <2>1, FailedFits
<1> QED BY <1>1, <1>2

\* Only the mode changes: what the text stands for is known before its end.
LEMMA ExpectFits ==
    ASSUME NEW S, NEW p \in Parsers(S), Fits(p), NEW mode \in Modes,
           mode \in {"end", "accepted"} => p.mode = "end"
    PROVE  Fits(Expect(p, mode))
<1> DEFINE q == Expect(p, mode)
<1>1. q.mode = mode /\ q.stack = p.stack /\ q.value = p.value
  BY ModeChanges
<1> HIDE DEF q
<1>2. Fits(q)
  BY <1>1 DEF Fits, Nested
<1> QED BY <1>2 DEF q

LEMMA AtTokenFits ==
    ASSUME NEW S, NEW p \in Parsers(S), Reads(p, S), p.mode \in TokenModes, Fits(p),
           NEW c, Len(AtToken(p, c).stack) <= MaxDepth
    PROVE  Fits(AtToken(p, c))
<1>0. {"value", "key", "accepted"} \subseteq Modes
  BY DEF Modes, TokenModes
<1>1. CASE c \in Whitespace
  <2>1. AtToken(p, c) = p
    BY <1>1 DEF AtToken
  <2> QED BY <2>1
<1>2. CASE c \notin Whitespace /\ Closes(p, c)
  <2>1. AtToken(p, c) = Close(p)
    BY <1>2 DEF AtToken
  <2> QED BY <1>2, <2>1, CloseFits
<1>3. CASE c \notin Whitespace /\ ~Closes(p, c)
  <2>1. CASE p.mode \in ValueModes
    <3>1. AtToken(p, c) = AtValue(p, c)
      BY <1>3, <2>1 DEF AtToken, ValueModes
    <3> QED BY <2>1, <3>1, AtValueFits
  <2>2. CASE p.mode = "key" \/ p.mode = "first key"
    <3>1. AtToken(p, c) = AtName(p, c)
      BY <1>3, <2>2 DEF AtToken
    <3> QED BY <3>1, AtNameFits
  <2>3. CASE p.mode \in {"colon", "after", "end"}
    <3>1. \/ \E code \in Codes : AtToken(p, c) = Failed(code)
          \/ \E mode \in {"value", "key"} : AtToken(p, c) = Expect(p, mode)
          \/ p.mode = "end" /\ AtToken(p, c) = Expect(p, "accepted")
      <4>1. CASE p.mode = "colon"
        BY <1>3, <4>1 DEF AtToken, Codes
      <4>2. CASE p.mode = "after"
        BY <1>3, <4>2 DEF AtToken, Codes
      <4>3. CASE p.mode = "end"
        BY <1>3, <4>3 DEF AtToken, Codes
      <4> QED BY <2>3, <4>1, <4>2, <4>3
    <3>2. CASE \E code \in Codes : AtToken(p, c) = Failed(code)
      BY <3>2, FailedFits
    <3>3. CASE \E mode \in {"value", "key"} : AtToken(p, c) = Expect(p, mode)
      BY <1>0, <3>3, ExpectFits
    <3>4. CASE p.mode = "end" /\ AtToken(p, c) = Expect(p, "accepted")
      BY <1>0, <3>4, ExpectFits
    <3> QED BY <3>1, <3>2, <3>3, <3>4
  <2> QED BY <2>1, <2>2, <2>3 DEF TokenModes, ValueModes
<1> QED BY <1>1, <1>2, <1>3

LEMMA InNumberFits ==
    ASSUME NEW S, NEW p \in Parsers(S), Reads(p, S), p.mode \in NumberModes, Fits(p),
           NEW c \in Symbols, Len(InNumber(p, c).stack) <= MaxDepth
    PROVE  Fits(InNumber(p, c))
<1>1. CASE NumberMode(p.mode, c) # "none"
  <2>1. InNumber(p, c) = NumberSymbol(p, c)
    BY <1>1 DEF InNumber
  <2> QED BY <1>1, <2>1, NumberSymbolFits
<1>2. CASE NumberMode(p.mode, c) = "none"
  <2> DEFINE q == NumberEnd(p)
  <2>1. \/ \E code \in Codes : InNumber(p, c) = Failed(code)
        \/ InNumber(p, c) = IF q.mode = "error" THEN q ELSE AtToken(q, c)
    <3>1. "LEADING_ZERO" \in Codes /\ "INVALID_NUMBER" \in Codes
      BY DEF Codes
    <3> QED BY <1>2, <3>1 DEF InNumber
  <2>2. PICK T : Reads(q, T) /\ q.mode \in {"error", "after", "end"}
    BY NumberEndReads
  <2>3. q \in Parsers(T) /\ Fits(q)
    BY <2>2, NumberEndFits DEF Reads
  <2> HIDE DEF q
  <2>4. CASE \E code \in Codes : InNumber(p, c) = Failed(code)
    BY <2>4, FailedFits
  <2>5. CASE q.mode = "error" /\ InNumber(p, c) = q
    BY <2>3, <2>5
  <2>6. CASE q.mode # "error" /\ InNumber(p, c) = AtToken(q, c)
    <3>1. q.mode \in TokenModes
      BY <2>2, <2>6 DEF TokenModes
    <3> QED BY <2>2, <2>3, <2>6, <3>1, AtTokenFits
  <2> QED BY <2>1, <2>4, <2>5, <2>6
<1> QED BY <1>1, <1>2

LEMMA StepFits ==
    ASSUME NEW S, NEW p \in Parsers(S), Reads(p, S), Fits(p),
           NEW c \in Symbols, Len(Step(p, c).stack) <= MaxDepth
    PROVE  Fits(Step(p, c))
<1>1. CASE Stopped(p)
  <2>1. Step(p, c) = p
    BY <1>1 DEF Step, Stopped, NumberModes
  <2> QED BY <2>1
<1>2. CASE ~Stopped(p) /\ p.mode = "string"
  <2>1. Step(p, c) = InString(p, c)
    BY <1>2 DEF Step, NumberModes
  <2> QED BY <1>2, <2>1, InStringFits
<1>3. CASE ~Stopped(p) /\ p.mode \in {"escaped low", "raw low"}
  <2>1. Step(p, c) = AfterHigh(p, c)
    BY <1>3 DEF Step, NumberModes
  <2> QED BY <2>1, AfterHighFits
<1>4. CASE ~Stopped(p) /\ p.mode \in NumberModes
  <2>1. Step(p, c) = InNumber(p, c)
    BY <1>4 DEF Step, NumberModes
  <2> QED BY <1>4, <2>1, InNumberFits
<1>5. CASE ~Stopped(p) /\ p.mode \in TokenModes
  <2>1. Step(p, c) = AtToken(p, c)
    BY <1>5 DEF Step, TokenModes, NumberModes
  <2> QED BY <1>5, <2>1, AtTokenFits
<1> QED BY <1>1, <1>2, <1>3, <1>4, <1>5 DEF Parsers, Modes, StringModes, Stopped
-----------------------------------------------------------------------------
\* What was read also fits the bound on containers.
DepthInv == SoundInv /\ Fits(parser)

LEMMA DepthInvariant == Spec => []DepthInv
<1>1. Init => Fits(parser)
  <2>1. Start.stack = <<>> /\ Start.mode = "value"
    BY DEF Start
  <2>2. Fits(Start)
    BY <2>1, JsonAssumption DEF Fits, Nested
  <2> QED BY <2>2 DEF Init
<1>2. SoundInv /\ Fits(parser) /\ [Next]_vars => Fits(parser)'
  <2> SUFFICES ASSUME SoundInv, Fits(parser), [Next]_vars
               PROVE  Fits(parser)'
    OBVIOUS
  <2>1. CASE Next
    <3>1. PICK c \in Symbols : parser' = Step(parser, c) /\ Len(parser'.stack) <= MaxDepth
      BY <2>1 DEF Next, Read
    <3>2. PICK S : Reads(parser, S)
      BY DEF SoundInv
    <3>3. parser \in Parsers(S)
      BY <3>2 DEF Reads
    <3>4. Len(Step(parser, c).stack) <= MaxDepth
      BY <3>1
    <3>5. Fits(Step(parser, c))
      BY <3>2, <3>3, <3>4, StepFits
    <3> QED BY <3>1, <3>5 DEF Fits, Nested
  <2>2. CASE UNCHANGED vars
    BY <2>2 DEF vars, Fits, Nested
  <2> QED BY <2>1, <2>2
<1> QED BY <1>1, <1>2, ReaderInvariant, PTL DEF Spec, DepthInv

\* Whatever text parseJsonStrict accepts, canonicalize takes its value: no name
\* and no string in it, however deep, makes its check of valid Unicode throw.
THEOREM AcceptedIsTaken == Spec => []AcceptedIsCanonical
<1>1. DepthInv => AcceptedIsCanonical
  <2>1. Room(0) = Value
    <3>1. MaxDepth + 1 - 0 = MaxDepth + 1
      BY JsonAssumption
    <3> QED BY <3>1 DEF Room, Value
  <2> QED BY <2>1 DEF DepthInv, Fits, Accepted, AcceptedIsCanonical
<1> QED BY <1>1, DepthInvariant, PTL

\* Parsing the canonical text of an accepted value gives that value again, its
\* members sorted, whatever the text it was read from.
THEOREM CanonicalRoundTrip == Spec => []RoundTrip
<1>1. AcceptedIsCanonical => RoundTrip
  BY CanonicalAccepted DEF AcceptedIsCanonical, RoundTrip
<1> QED BY <1>1, AcceptedIsTaken, PTL

\* Two values that are not the same once their members are sorted have
\* different canonical texts: their digests are over different inputs.
THEOREM CanonicalDistinguishes ==
    \A v, w \in Value : Canonical[v] = Canonical[w] => Sorted[v] = Sorted[w]
BY CanonicalAccepted

\* The order in which a text writes the members of its objects does not change
\* the canonical text of its value.
THEOREM OrderIsIrrelevant == Spec => []OrderIrrelevant
<1>1. AcceptedIsCanonical => OrderIrrelevant
  BY CanonicalOrder DEF AcceptedIsCanonical, OrderIrrelevant
<1> QED BY <1>1, AcceptedIsTaken, PTL
==================================================================================
