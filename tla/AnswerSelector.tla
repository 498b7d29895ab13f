--------------------------- MODULE AnswerSelector ---------------------------
(***************************************************************************)
(* Which option the grounded answer says (MCQAdapter.select).               *)
(*                                                                         *)
(* A text is a sequence of atoms: digits, units and words, with spaces and  *)
(* case already gone (_key). Numbers are written without a fraction, so an  *)
(* option resolves one of its unit. An answer is [value, text]; a value is  *)
(* [kind, n, s]: "none", a "number" n or a "text" s. A result is <<>> or    *)
(* <<the number of the option>>.                                            *)
(***************************************************************************)
EXTENDS Places

Digit == <<"0", "1", "2", "3", "4", "5", "6", "7", "8", "9">>
Digits == ToSet(Digit)
Units == [km |-> <<"length", 1000>>, m |-> <<"length", 1>>, h |-> <<"duration", 3600>>,
          min |-> <<"duration", 60>>, s |-> <<"duration", 1>>, places |-> <<"count", 1>>]
CannotKnow == "unknown"
Arrow == "->"

\* How a number is written.
Digitized(n) ==
  LET width == CHOOSE w \in 1 .. 9 : n < 10 ^ w /\ (w = 1 \/ 10 ^ (w - 1) <= n)
  IN [i \in 1 .. width |-> Digit[1 + ((n \div (10 ^ (width - i))) % 10)]]

Alone(fits) == IF Cardinality(fits) = 1 THEN Chosen(fits) ELSE <<>>
Holds(text, part) == part \in SubSeqs(text)

\* _match: the one option equal to the text or, not strictly, holding it or held by it.
Match(text, options, strict) ==
  Alone({o \in DOMAIN options :
           /\ text # <<>> /\ options[o] # <<>>
           /\ \/ options[o] = text
              \/ ~strict /\ (Holds(options[o], text) \/ Holds(text, options[o]))})

\* The maximal runs of digits of a text.
Numbers(text) ==
  {run \in (DOMAIN text) \X (DOMAIN text) :
     /\ run[1] <= run[2] /\ \A k \in run[1] .. run[2] : text[k] \in Digits
     /\ run[1] = 1 \/ (run[1] > 1 /\ text[run[1] - 1] \notin Digits)
     /\ run[2] = Len(text) \/ (run[2] < Len(text) /\ text[run[2] + 1] \notin Digits)}
UnitAfter(text, j) ==
  IF j < Len(text) /\ text[j + 1] \in DOMAIN Units THEN Units[text[j + 1]] ELSE <<"count", 1>>

\* parse_quantity: the one amount a text states; a text that states two names no single amount.
ParseQuantity(text) ==
  LET found == Numbers(text)
      run == CHOOSE r \in found : TRUE
      n == FoldLeft(LAMBDA a, d : 10 * a + SelectInSeq(Digit, LAMBDA e : e = d) - 1, 0, SubSeq(text, run[1], run[2]))
      unit == UnitAfter(text, run[2])
  IN IF Cardinality(found) # 1 THEN <<>>
     ELSE <<[value |-> n * unit[2], dimension |-> unit[1], resolution |-> unit[2]]>>
DimensionsNamed(text) == {Units[text[i]][1] : i \in {i \in DOMAIN text \ {1} :
                            text[i] \in DOMAIN Units /\ text[i - 1] \in Digits}}

\* The amounts an answer may mean, measured against one option: as written, as the value says,
\* the value without a unit it may be wrong about, and a bare number in the option's own unit.
Readings(answer, offered) ==
  LET written == ParseQuantity(answer.text)
      bare == answer.value.kind = "number"
      valued == ParseQuantity(answer.value.s)
      named == DimensionsNamed(answer.text) \cup {v.dimension : v \in ToSet(valued)}
  IN {<<q.value, q.dimension>> : q \in ToSet(written) \cup ToSet(valued)}
     \cup {<<q.value \div q.resolution, q.dimension>> : q \in {v \in ToSet(valued) : v.resolution # 1}}
     \cup (IF bare /\ (named = {} \/ offered.dimension \in named)
           THEN {<<answer.value.n, offered.dimension>>} ELSE {})
     \cup (IF bare /\ offered.dimension \in named
           THEN {<<answer.value.n * offered.resolution, offered.dimension>>} ELSE {})

\* Mutant of Rounds: the amount need only be near the option.
RoundsNearby(amount, offered) ==
  amount[2] = offered.dimension /\ Abs(amount[1] - offered.value) <= offered.resolution

Rounds(amount, offered) ==
  amount[2] = offered.dimension /\ 2 * Abs(amount[1] - offered.value) <= offered.resolution

\* _match_quantity: the one option an amount rounds to at the precision it is written to.
MatchQuantity(answer, options) ==
  Alone({o \in DOMAIN options : \E offered \in ToSet(ParseQuantity(options[o])) :
           \E amount \in Readings(answer, offered) : Rounds(amount, offered)})

\* _match_ordering: the one itinerary whose stops the text names in that order.
NamesInOrder(text, stops) ==
  LET After(cursor, stop) ==
        Min({i \in cursor + 1 .. Len(text) : text[i] = stop} \cup {Len(text) + 1})
  IN FoldLeft(After, 0, stops) <= Len(text)
MatchOrdering(text, options) ==
  LET Stops(o) == SelectSeq(options[o], LAMBDA a : a # Arrow)
  IN Alone({o \in DOMAIN options : Len(Stops(o)) > 1 /\ Arrow \in ToSet(options[o])
                                   /\ NamesInOrder(text, Stops(o))})

\* _match_declined: no value at all, and nothing broke on the way.
MatchDeclined(answer, options, errors) ==
  IF errors > 0 \/ answer.value.kind = "number" \/ answer.value.s \notin {<<>>, <<CannotKnow>>} THEN <<>>
  ELSE Alone({o \in DOMAIN options : CannotKnow \in ToSet(options[o])})

\* str(answer.value)
Spelled(value) ==
  CASE value.kind = "none" -> <<"None">>
    [] value.kind = "number" -> Digitized(value.n)
    [] OTHER -> value.s

\* select: seven ways to reconcile, in this order.
Reconcilers(answer, options, errors) ==
  <<Match(answer.text, options, TRUE), Match(answer.text, options, FALSE),
    Match(Spelled(answer.value), options, TRUE),
    IF answer.value.kind = "number" THEN <<>>
    ELSE Match(Spelled(answer.value), options, FALSE),
    MatchQuantity(answer, options), MatchOrdering(answer.text, options),
    MatchDeclined(answer, options, errors)>>
SelectOption(answer, options, errors) ==
  FoldLeft(LAMBDA chosen, found : IF chosen = <<>> THEN found ELSE chosen, <<>>,
           Reconcilers(answer, options, errors))
=============================================================================
