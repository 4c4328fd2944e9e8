------------------------------- MODULE StrictJson -------------------------------
(***************************************************************************)
(* The strict JSON parser (packages/core/src/strict-json.mjs) as an        *)
(* automaton with a stack of open containers.  A symbol is one character   *)
(* of the text, one escape sequence or one keyword:                        *)
(*                                                                         *)
(*    { } [ ] , :     themselves                                           *)
(*    quote, space, tab (whitespace that is a control character), control  *)
(*    a, b            letters; also any character no rule is about         *)
(*    high, low       halves of a surrogate pair                           *)
(*    esc x           an escape sequence for unit x; "esc bad" is none,    *)
(*                    "esc hex" is \u without four hexadecimal digits      *)
(*    keyword, word   true, false or null; another word starting like one  *)
(*    0 1 - + . e     1 is any digit but 0                                 *)
(*    huge            so many digits that a number with them before its    *)
(*                    point or in its exponent is out of the finite range, *)
(*                    and 0 with them in a negative exponent               *)
(*    eof             the end of the text                                  *)
(*                                                                         *)
(* A string is the sequence of its decoded UTF-16 units, a number is       *)
(* finite or not, an object is the sequence of its members in text order.  *)
(***************************************************************************)
EXTENDS Naturals, SequencesExt

Units == {"a", "b", "quote", "control", "high", "low"}

Escape == [a |-> "esc a", b |-> "esc b", quote |-> "esc quote",
           control |-> "esc control", high |-> "esc high", low |-> "esc low"]

Structural == {"{", "}", "[", "]", ",", ":"}
Whitespace == {"space", "tab"}
Digits == {"0", "1", "huge"}
NumberSymbols == Digits \cup {"-", "+", ".", "e"}
Symbols ==
    Structural \cup Whitespace \cup NumberSymbols \cup Units \cup {"keyword", "word"}
        \cup {Escape[u] : u \in Units} \cup {"esc bad", "esc hex", "eof"}

Expect(p, mode) == [p EXCEPT !.mode = mode]

\* Where parseJsonStrict begins.
Start ==
    [mode |-> "value", stack |-> <<>>, naming |-> FALSE, buffer |-> <<>>,
     value |-> <<>>, code |-> ""]

\* fail(code): the parser throws, and what it read so far is gone.
Failed(code) == [Start EXCEPT !.mode = "error", !.code = code]

Top(p) == Last(p.stack)
InObject(p) == p.stack # <<>> /\ Top(p).kind = "object"
InArray(p) == p.stack # <<>> /\ Top(p).kind = "array"

-----------------------------------------------------------------------------
(* Values.  A complete value goes into the innermost open container.       *)

Complete(p, v) ==
    IF p.stack = <<>> THEN [p EXCEPT !.mode = "end", !.value = v]
    ELSE LET item == IF InObject(p) THEN <<Top(p).key, v>> ELSE v
         IN [p EXCEPT !.mode = "after",
                      !.stack = Append(Front(@), [Top(p) EXCEPT !.items = Append(@, item)])]

Open(p, kind) ==
    [p EXCEPT !.mode = IF kind = "object" THEN "first key" ELSE "first item",
              !.stack = Append(@, [kind |-> kind, items |-> <<>>, key |-> <<>>])]

Close(p) == Complete([p EXCEPT !.stack = Front(@)], <<Top(p).kind, Top(p).items>>)

\* The names of an object's members so far.
Names(container) == {container.items[i][1] : i \in DOMAIN container.items}

\* Mutant of KnownName: an empty name counts as no name.
KnownNameTruthy(p, name) == name # <<>> /\ name \in Names(Top(p))

\* keys.has(key): names are compared decoded, not as they are spelled.
KnownName(p, name) == name \in Names(Top(p))

-----------------------------------------------------------------------------
(* Strings.  Escaped and raw surrogates pair up with their own kind only.  *)

Collect(p, unit) == [p EXCEPT !.mode = "string", !.buffer = Append(@, unit)]

\* assertValidUnicode finds nothing to object to: surrogates come in pairs.
ValidUnicode(units) ==
    \A i \in DOMAIN units :
        /\ units[i] = "high" => i < Len(units) /\ units[i + 1] = "low"
        /\ units[i] = "low" => i > 1 /\ units[i - 1] = "high"

\* A string is a member's name when a key was expected, else a value.
TakeString(p) ==
    LET q == [p EXCEPT !.buffer = <<>>, !.naming = FALSE]
    IN IF ~p.naming THEN Complete(q, <<"string", p.buffer>>)
       ELSE IF KnownName(p, p.buffer) THEN Failed("DUPLICATE_PROPERTY")
       ELSE [q EXCEPT !.mode = "colon",
                      !.stack = Append(Front(@), [Top(p) EXCEPT !.key = p.buffer])]

\* The closing quote: the string is checked once more as a whole.
Closed(p) == IF ValidUnicode(p.buffer) THEN TakeString(p) ELSE Failed("TypeError")

OpenString(p, naming) == [p EXCEPT !.mode = "string", !.naming = naming]

InString(p, c) ==
    CASE c = "eof" -> Failed("UNTERMINATED_STRING")
      [] c = "quote" -> Closed(p)
      [] c = "esc bad" -> Failed("INVALID_ESCAPE")
      [] c = "esc hex" -> Failed("INVALID_UNICODE_ESCAPE")
      [] c = Escape["high"] -> Expect(Collect(p, "high"), "escaped low")
      [] c = Escape["low"] \/ c = "low" -> Failed("UNPAIRED_LOW_SURROGATE")
      [] c = "high" -> Expect(Collect(p, "high"), "raw low")
      [] c \in {"control", "tab"} -> Failed("UNESCAPED_CONTROL_CHARACTER")
      [] OTHER ->
            IF \E u \in Units : c = Escape[u]
            THEN Collect(p, CHOOSE u \in Units : c = Escape[u])
            ELSE Collect(p, IF c = "b" THEN "b" ELSE "a")

\* The second half of a surrogate pair, escaped or raw like the first.
AfterHigh(p, c) ==
    CASE p.mode = "escaped low" /\ c = Escape["low"] -> Collect(p, "low")
      [] p.mode = "raw low" /\ c = "low" -> Collect(p, "low")
      [] p.mode = "escaped low" /\ c = "esc hex" -> Failed("INVALID_UNICODE_ESCAPE")
      [] OTHER -> Failed("UNPAIRED_HIGH_SURROGATE")

-----------------------------------------------------------------------------
(* Numbers: the modes between the first symbol and the last.               *)

NumberModes ==
    {"minus", "zero", "integer", "point", "fraction", "e", "e plus", "exponent",
     "e minus", "negative exponent"}

\* The modes in which a number may end.
NumberEnds == {"zero", "integer", "fraction", "exponent", "negative exponent"}

\* The mode after c, "none" when c cannot continue the number.
NumberMode(mode, c) ==
    CASE mode \in {"value", "first item"} /\ c = "-" -> "minus"
      [] mode \in {"value", "first item", "minus"} /\ c = "0" -> "zero"
      [] mode \in {"value", "first item", "minus"} /\ c \in Digits \ {"0"} -> "integer"
      [] mode \in NumberEnds \ {"zero"} /\ c \in Digits -> mode
      [] mode \in {"zero", "integer"} /\ c = "." -> "point"
      [] mode = "point" /\ c \in Digits -> "fraction"
      [] mode \in {"zero", "integer", "fraction"} /\ c = "e" -> "e"
      [] mode = "e" /\ c = "+" -> "e plus"
      [] mode = "e" /\ c = "-" -> "e minus"
      [] mode \in {"e", "e plus"} /\ c \in Digits -> "exponent"
      [] mode = "e minus" /\ c \in Digits -> "negative exponent"
      [] OTHER -> "none"

\* What the digits so far make of the number: nothing (0), "1" or "huge".
Weigh(p, mode, c) ==
    CASE c = "huge" /\ mode = "negative exponent" -> <<>>
      [] c = "huge" /\ (mode = "integer" \/ (mode = "exponent" /\ p.buffer # <<>>)) -> <<"huge">>
      [] <<c, mode>> \in {<<"1", "integer">>, <<"1", "fraction">>, <<"huge", "fraction">>}
            /\ p.buffer = <<>> -> <<"1">>
      [] OTHER -> p.buffer

NumberSymbol(p, c) ==
    LET mode == NumberMode(p.mode, c)
    IN [p EXCEPT !.mode = mode, !.buffer = Weigh(p, mode, c)]

\* Mutant of NumberEnd: the number may be infinite.
NumberEndUnchecked(p) ==
    Complete([p EXCEPT !.buffer = <<>>],
             <<"number", IF p.buffer = <<>> THEN "0" ELSE Last(p.buffer)>>)

\* -0 and 0 are one number: they have the same canonical form.
NumberEnd(p) ==
    IF p.buffer = <<"huge">> THEN Failed("NON_FINITE_NUMBER")
    ELSE Complete([p EXCEPT !.buffer = <<>>],
                  <<"number", IF p.buffer = <<>> THEN "0" ELSE "1">>)

-----------------------------------------------------------------------------
(* Between tokens.                                                         *)

AtValue(p, c) ==
    CASE c = "quote" -> OpenString(p, FALSE)
      [] c = "{" -> Open(p, "object")
      [] c = "[" -> Open(p, "array")
      [] c = "keyword" -> Complete(p, <<"literal">>)
      [] c = "word" -> Failed("INVALID_LITERAL")
      [] OTHER -> IF NumberMode("value", c) # "none" THEN NumberSymbol(p, c)
                  ELSE Failed("UNEXPECTED_TOKEN")

AtName(p, c) ==
    IF c = "quote" THEN OpenString(p, TRUE) ELSE Failed("EXPECTED_PROPERTY_NAME")

Closes(p, c) ==
    \/ c = "]" /\ InArray(p) /\ p.mode \in {"first item", "after"}
    \/ c = "}" /\ InObject(p) /\ p.mode \in {"first key", "after"}

AtToken(p, c) ==
    IF c \in Whitespace THEN p
    ELSE IF Closes(p, c) THEN Close(p)
    ELSE CASE p.mode \in {"value", "first item"} -> AtValue(p, c)
           [] p.mode \in {"key", "first key"} -> AtName(p, c)
           [] p.mode = "colon" ->
                 IF c = ":" THEN Expect(p, "value") ELSE Failed("EXPECTED_COLON")
           [] p.mode = "after" ->
                 IF c = "," THEN Expect(p, IF InObject(p) THEN "key" ELSE "value")
                 ELSE Failed("EXPECTED_COMMA")
           [] p.mode = "end" ->
                 IF c = "eof" THEN Expect(p, "accepted") ELSE Failed("TRAILING_DATA")

\* A number ends before the symbol that cannot continue it.
InNumber(p, c) ==
    IF NumberMode(p.mode, c) # "none" THEN NumberSymbol(p, c)
    ELSE CASE p.mode = "zero" /\ c \in Digits -> Failed("LEADING_ZERO")
           [] p.mode \in NumberEnds /\ c \notin Digits ->
                 LET q == NumberEnd(p) IN IF q.mode = "error" THEN q ELSE AtToken(q, c)
           [] OTHER -> Failed("INVALID_NUMBER")

Stopped(p) == p.mode \in {"error", "accepted"}

\* One symbol of the text.
Step(p, c) ==
    CASE Stopped(p) -> p
      [] p.mode = "string" -> InString(p, c)
      [] p.mode \in {"escaped low", "raw low"} -> AfterHigh(p, c)
      [] p.mode \in NumberModes -> InNumber(p, c)
      [] OTHER -> AtToken(p, c)

\* The parser p after a text.
Run(p, text) ==
    LET state[i \in 0..Len(text)] ==
            IF i = 0 THEN p ELSE Step(state[i - 1], text[i])
    IN state[Len(text)]

Parse(text) == Run(Start, Append(text, "eof"))
================================================================================
