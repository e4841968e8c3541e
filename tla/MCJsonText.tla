----------------------------- MODULE MCJsonText -----------------------------
(* Instances of the parser and of the text calls for TLC. *)
EXTENDS JsonGrammar

-----------------------------------------------------------------------------
(* f64 from text and back, exact, for numbers below 10^MaxExponent. *)

MaxExponent == 4

DecimalOf(s) == FoldLeft(LAMBDA n, b : 10 * n + b - Zero, 0, s)
Decimal[n \in Nat] == IF n < 10 THEN <<Zero + n>> ELSE Append(Decimal[n \div 10], Zero + (n % 10))
Zeros(n) == [i \in 1..n |-> Zero]

\* m * 10^x, m not a multiple of 10, as Display writes it.
Display(m, x) ==
  LET d == Decimal[m]
  IN IF x >= 0 THEN d \o Zeros(x)
     ELSE IF Len(d) > -x THEN SubSeq(d, 1, Len(d) + x) \o <<Dot>> \o SubSeq(d, Len(d) + x + 1, Len(d))
     ELSE <<Zero, Dot>> \o Zeros(-x - Len(d)) \o d

Nearest(s) ==
  LET body == IF Head(s) = Minus THEN Tail(s) ELSE s
      e == SelectInSeq(body, LAMBDA b : b \in Exponents)
      mantissa == IF e = 0 THEN body ELSE SubSeq(body, 1, e - 1)
      tail == IF e = 0 THEN <<Zero>> ELSE SubSeq(body, e + 1, Len(body))
      point == SelectInSeq(mantissa, LAMBDA b : b = Dot)
      n == DecimalOf(SelectSeq(mantissa, LAMBDA b : b # Dot))
      power == DecimalOf(SelectSeq(tail, LAMBDA b : b \in Digits))
      x == (IF Head(tail) = Minus THEN -power ELSE power)
             - (IF point = 0 THEN 0 ELSE Len(mantissa) - point)
      zeros == Max({k \in 0..Len(s) : n % 10^k = 0})
      m == n \div 10^zeros
      size == Len(Decimal[m]) + x + zeros
  IN IF n > 0 /\ size > MaxExponent THEN <<>>
     ELSE (IF Head(s) = Minus THEN <<Minus>> ELSE <<>>)
            \o (IF n = 0 \/ size < -MaxExponent THEN <<Zero>> ELSE Display(m, x + zeros))

-----------------------------------------------------------------------------
\* What completes a value: the rest of a member, and brackets.
MCCompletions ==
  LET Closings(n) == BoundedSeq({"]", "}"}, n)
  IN {lead \o closers : lead \in {<<>>, <<"null">>, <<":", "null">>, <<"string", ":", "null">>},
                        closers \in Closings(Limit)}
       \cup Closings(Limit + 1)

-----------------------------------------------------------------------------
(* Texts *)

Texts(parts, n) == {FlattenSeq(s) : s \in BoundedSeq(parts, n)}

\* [ ] { } , 0 "" "":
Structures ==
  Texts({<<91>>, <<93>>, <<123>>, <<125>>, <<44>>, <<48>>, <<34, 34>>, <<34, 34, 58>>}, 4)

\* - 0 1 . e +
NumberParts == {<<45>>, <<48>>, <<49>>, <<46>>, <<101>>, <<43>>}
Numbers == Texts(NumberParts, 4) \cup {<<45, 49, 46, 48>> \o s : s \in Texts(NumberParts, 3)}

\* What may stand in a string: a, n, u, a backslash, a quote, a control
\* character, whole and broken UTF-8, escapes, halves of surrogate pairs.
StringParts ==
  {<<97>>, <<110>>, <<117>>, <<92>>, <<34>>, <<10>>, <<195, 169>>, <<195>>, <<237, 160, 128>>,
   <<92, 117, 48, 48, 101, 57>>, <<92, 117, 68, 56, 51, 100>>, <<92, 117, 100, 101, 48, 48>>}
Strings == {<<34>> \o s \o tail : s \in Texts(StringParts, 3), tail \in {<<>>, <<34>>}}

\* Words, broken words, and white space.
Phrases == Texts({<<32>>, <<10>>, <<110, 117, 108, 108>>, <<110, 117>>, <<116, 114, 117, 101>>, <<44>>, <<120>>}, 3)

\* The numbers among all these, looked up for TLC.
NumberTexts == {s \in Numbers : IsNumber(s)}
Doubles == [s \in NumberTexts |-> Nearest(s)]
MCDouble(s) == Doubles[s]

MCInputs == Structures \cup Numbers \cup Strings \cup Phrases
=============================================================================
