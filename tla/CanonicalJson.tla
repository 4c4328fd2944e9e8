------------------------------ MODULE CanonicalJson ------------------------------
(***************************************************************************)
(* Canonical JSON (packages/core/src/canonicalize.mjs), over which every   *)
(* digest is calculated, of what the parser of JsonReader accepted.        *)
(***************************************************************************)
EXTENDS JsonReader

-----------------------------------------------------------------------------
(* The values canonicalize takes: their strings are valid Unicode, their   *)
(* numbers finite, and no object has two members of one name.              *)

ValidStrings == {s \in Seq(Units) : ValidUnicode(s)}

Leaves ==
    {<<"literal">>} \cup ({"number"} \X {"0", "1"}) \cup ({"string"} \X ValidStrings)

\* The member lists of objects with values from S.
MemberLists(S) == {members \in Seq(ValidStrings \X S) : Distinct(members)}

\* The values of at most n levels.
JsonValues[n \in 0..(MaxDepth + 1)] ==
    IF n = 0 THEN {}
    ELSE Leaves
         \cup ({"array"} \X Seq(JsonValues[n - 1]))
         \cup ({"object"} \X MemberLists(JsonValues[n - 1]))

\* The values with at most MaxDepth levels of containers.
Value == JsonValues[MaxDepth + 1]

-----------------------------------------------------------------------------
(* canonicalize.                                                           *)

\* The order of the UTF-16 units.
UnitOrder == [control |-> 1, quote |-> 2, a |-> 3, b |-> 4, high |-> 5, low |-> 6]

\* Mutant of Precedes: the lengths of two names are not compared.
PrecedesCommon(s, t) ==
    \E i \in 1..Len(s) :
        /\ i <= Len(t)
        /\ SubSeq(s, 1, i - 1) = SubSeq(t, 1, i - 1)
        /\ UnitOrder[s[i]] < UnitOrder[t[i]]

\* compareUtf16(s, t) < 0: by the first unit that differs, then by length.
Precedes(s, t) ==
    \/ IsStrictPrefix(s, t)
    \/ \E i \in 1..Len(s) :
          /\ i <= Len(t)
          /\ SubSeq(s, 1, i - 1) = SubSeq(t, 1, i - 1)
          /\ UnitOrder[s[i]] < UnitOrder[t[i]]

\* How many members sort puts before the one at i: it is stable.
Rank(members, i) ==
    Cardinality({j \in DOMAIN members :
        \/ Precedes(members[j][1], members[i][1])
        \/ j < i /\ ~Precedes(members[i][1], members[j][1])})

SortMembers(members) ==
    [k \in DOMAIN members |->
        members[CHOOSE i \in DOMAIN members : Rank(members, i) = k - 1]]

\* Mutant of UnitText: a control character is not escaped.
UnitTextRawControl(u) == IF u = "quote" THEN Escape[u] ELSE u

\* JSON.stringify of a unit: only what must be escaped is.
UnitText(u) == IF u \in {"quote", "control"} THEN Escape[u] ELSE u

StringText(units) ==
    <<"quote">> \o [i \in DOMAIN units |-> UnitText(units[i])] \o <<"quote">>

\* join(',').
Separated(texts) ==
    LET joined[i \in 0..Len(texts)] ==
            CASE i = 0 -> <<>>
              [] i = 1 -> texts[1]
              [] OTHER -> joined[i - 1] \o <<",">> \o texts[i]
    IN joined[Len(texts)]

Canonical[v \in Value] ==
    CASE v[1] = "literal" -> <<"keyword">>
      [] v[1] = "number" -> <<v[2]>>
      [] v[1] = "string" -> StringText(v[2])
      [] v[1] = "array" ->
            <<"[">> \o Separated([i \in DOMAIN v[2] |-> Canonical[v[2][i]]]) \o <<"]">>
      [] OTHER ->
            LET members == SortMembers(v[2])
            IN <<"{">>
               \o Separated([i \in DOMAIN members |->
                     StringText(members[i][1]) \o <<":">> \o Canonical[members[i][2]]])
               \o <<"}">>

-----------------------------------------------------------------------------
(* Properties.                                                             *)

\* What the parser accepts canonicalize takes, down to the innermost part: no
\* name or string makes its check of valid Unicode throw.
AcceptedIsCanonical == Accepted => parser.value \in Value

Sorted[v \in Value] ==
    CASE v[1] = "array" -> <<"array", [i \in DOMAIN v[2] |-> Sorted[v[2][i]]]>>
      [] v[1] = "object" ->
            LET members == SortMembers(v[2])
            IN <<"object", [i \in DOMAIN members |-> <<members[i][1], Sorted[members[i][2]]>>]>>
      [] OTHER -> v

\* The canonical text of what was accepted is itself accepted and stands for
\* the same value, so two different values never share a digest's input.
RoundTrip ==
    Accepted =>
        LET again == Parse(Canonical[parser.value])
        IN again.mode = "accepted" /\ again.value = Sorted[parser.value]

Reordered[v \in Value] ==
    CASE v[1] = "array" -> <<"array", [i \in DOMAIN v[2] |-> Reordered[v[2][i]]]>>
      [] v[1] = "object" ->
            <<"object", Reverse([i \in DOMAIN v[2] |-> <<v[2][i][1], Reordered[v[2][i][2]]>>])>>
      [] OTHER -> v

\* The canonical text, and with it every digest, does not depend on the order
\* in which the members of objects were written.
OrderIrrelevant ==
    Accepted => Canonical[Reordered[parser.value]] = Canonical[parser.value]
================================================================================
