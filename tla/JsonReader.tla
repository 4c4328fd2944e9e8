------------------------------- MODULE JsonReader -------------------------------
(***************************************************************************)
(* parseJsonStrict (packages/core/src/strict-json.mjs) at work: the parser *)
(* reads an arbitrary text symbol by symbol.                               *)
(***************************************************************************)
EXTENDS StrictJson

CONSTANTS
    MaxDepth,    \* bound on open containers
    MaxValues,   \* bound on the values in a text
    MaxUnits     \* bound on the units of all strings of a text

ASSUME JsonAssumption ==
    {MaxDepth, MaxValues, MaxUnits} \subseteq Nat

VARIABLES
    parser,   \* the parser after the symbols so far
    values,   \* how many values the text has begun
    decoded   \* how many units its strings have

vars == <<parser, values, decoded>>

Init == parser = Start /\ values = 0 /\ decoded = 0

BeginsValue(c) == parser.mode \in {"value", "first item"} /\ c \notin Whitespace

Collects == Len(parser'.buffer) > Len(parser.buffer) /\ parser'.mode \notin NumberModes

\* The parser reads the next symbol of the text, within the bounds.
Read(c) ==
    /\ ~Stopped(parser)
    /\ parser' = Step(parser, c)
    /\ values' = IF BeginsValue(c) THEN values + 1 ELSE values
    /\ decoded' = IF Collects THEN decoded + 1 ELSE decoded
    /\ Len(parser'.stack) <= MaxDepth /\ values' <= MaxValues /\ decoded' <= MaxUnits

Next == \E c \in Symbols : Read(c)

Spec == Init /\ [][Next]_vars

-----------------------------------------------------------------------------
Accepted == parser.mode = "accepted"

\* No two members have one name.
Distinct(members) ==
    \A i, j \in DOMAIN members : members[i][1] = members[j][1] => i = j

\* The names of every object being read are pairwise different once decoded:
\* no member is silently replaced by a later one, however its name is spelled.
NamesUnique ==
    \A k \in DOMAIN parser.stack :
        parser.stack[k].kind = "object" => Distinct(parser.stack[k].items)

-----------------------------------------------------------------------------
(* What is true of the parser p between any two symbols.                   *)

StringModes == {"string", "escaped low", "raw low"}
TokenModes == {"value", "first item", "first key", "key", "colon", "after", "end"}
Modes == StringModes \cup NumberModes \cup TokenModes \cup {"accepted", "error"}

\* The innermost open object is waiting for the value of its key.
AwaitsValue(p) ==
    \/ p.mode \in {"colon", "value"} \cup NumberModes
    \/ (p.mode \in StringModes /\ ~p.naming)

\* The mode fits the innermost open container.
PlaceInv(p) ==
    /\ p.mode \in {"first key", "key", "colon"} => InObject(p)
    /\ (p.mode \in StringModes /\ p.naming) => InObject(p)
    /\ p.mode = "first item" => InArray(p)
    /\ p.mode = "after" => p.stack # <<>>
    /\ p.mode \in {"end", "accepted"} => p.stack = <<>>

\* A string that could end now is valid; one that could not lacks a low half.
BufferInv(p) ==
    /\ p.mode = "string" => ValidUnicode(p.buffer)
    /\ p.mode \in {"escaped low", "raw low"} =>
          /\ p.buffer # <<>> /\ Last(p.buffer) = "high"
          /\ ValidUnicode(Front(p.buffer))
    /\ p.mode \in TokenModes => p.buffer = <<>>

\* Names are different, also the one whose value is not complete.
NamesInv(p) ==
    \A k \in DOMAIN p.stack :
        p.stack[k].kind = "object" =>
            /\ Distinct(p.stack[k].items)
            /\ (k < Len(p.stack) \/ AwaitsValue(p)) =>
                  p.stack[k].key \notin Names(p.stack[k])

ParserInv(p) == p.mode \in Modes /\ PlaceInv(p) /\ BufferInv(p) /\ NamesInv(p)

IInv == ParserInv(parser)
================================================================================
