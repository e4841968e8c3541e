-------------------------- MODULE TokeniserProofs --------------------------
(***************************************************************************)
(* The tokeniser reads every input right.  Tokeniser goes from left to     *)
(* right and never back; JsonTokens cuts a text in every possible way.     *)
(* That the two agree rests on what a first byte tells: which kind of      *)
(* token begins here, how long it is, and that no other length, and for a  *)
(* string no other sequence of characters, leads to a cut of the rest.     *)
(*                                                                         *)
(* CutsOf and CharsOf are recursive functions.  That they are what their   *)
(* bodies say is proved from the end of the text on (CutsFromIs) and from  *)
(* its beginning (CharsUpToIs); after that they are only used by their     *)
(* equations.                                                              *)
(***************************************************************************)
EXTENDS ParserProofs, JsonTokens, FiniteSetTheorems, SequenceTheorems

-----------------------------------------------------------------------------
(* Numbers and sets of them *)

\* A set of numbers up to n that is not empty has a greatest one, which Max finds.
LEMMA GreatestOf ==
  ASSUME NEW n \in Nat, NEW T \in SUBSET (0..n), T # {}
  PROVE  Max(T) \in T /\ \A x \in T : Max(T) >= x
<1> DEFINE U == {k \in 0..n : n - k \in T}
<1>1. PICK x \in T : TRUE
  OBVIOUS
<1>2. x \in 0..n /\ n - x \in 0..n /\ n - (n - x) = x
  OBVIOUS
<1>3. n - x \in U
  BY <1>1, <1>2
<1>4. U \in SUBSET Nat /\ U # {}
  <2>1. \A k \in 0..n : k \in Nat
    OBVIOUS
  <2>2. U \in SUBSET Nat
    BY <2>1
  <2> HIDE DEF U
  <2> QED
    BY <1>3, <2>2
<1>5. Min(U) \in U /\ \A k \in U : Min(U) <= k
  BY <1>4, LeastOf
<1> DEFINE m == Min(U)
<1> HIDE DEF m
<1>6. m \in 0..n /\ n - m \in T /\ \A k \in U : m <= k
  BY <1>5 DEF m
<1>7. \A y \in T : n - m >= y
  <2> TAKE y \in T
  <2>1. y \in 0..n /\ n - y \in 0..n /\ n - (n - y) = y
    OBVIOUS
  <2>2. n - y \in U
    BY <2>1
  <2>3. m <= n - y
    BY <1>6, <2>2
  <2> QED
    BY <1>6, <2>1, <2>3
<1> QED
  BY <1>6, <1>7 DEF Max

-----------------------------------------------------------------------------
(* Lines and columns *)

Newlines(o) == {i \in 1..o : input[i] = Newline}
LineBegin(o) == Max(Newlines(o) \cup {0})
Columns(o) == {i \in (LineBegin(o) + 1)..o : input[i] \notin 128..191}

\* The parts of a position.
LEMMA PositionIs ==
  ASSUME NEW o
  PROVE  PositionOf(o) = [line |-> Cardinality(Newlines(o)) + 1,
                          column |-> Cardinality(Columns(o)) + 1, offset |-> o]
BY DEF PositionOf, Newlines, LineBegin, Columns

\* The line begins behind the last newline, at or before the offset.
LEMMA LineBeginIs ==
  ASSUME NEW o \in Nat
  PROVE  /\ LineBegin(o) \in 0..o
         /\ IsFiniteSet(Newlines(o)) /\ Cardinality(Newlines(o)) \in Nat
         /\ IsFiniteSet(Columns(o)) /\ Cardinality(Columns(o)) \in Nat
<1>1. Newlines(o) \cup {0} \in SUBSET (0..o) /\ Newlines(o) \cup {0} # {}
  BY DEF Newlines
<1>2. LineBegin(o) \in Newlines(o) \cup {0}
  BY <1>1, GreatestOf DEF LineBegin
<1>3. IsFiniteSet(0..o)
  BY FS_Interval
<1>4. LineBegin(o) \in 0..o
  BY <1>1, <1>2
<1>5. Newlines(o) \in SUBSET (0..o) /\ Columns(o) \in SUBSET (0..o)
  BY <1>1, <1>4 DEF Columns
<1> QED
  BY <1>3, <1>4, <1>5, FS_Subset, FS_CardinalityType

\* Bytes that are no newlines count as columns but for the continuations in UTF-8.
LEMMA OverCounts ==
  ASSUME NEW o \in Nat, NEW n \in Nat, NEW c \in Nat,
         \A k \in (o + 1)..(o + n) : input[k] # Newline,
         c = Cardinality({k \in (o + 1)..(o + n) : input[k] \notin 128..191})
  PROVE  Over(PositionOf(o), n, c) = PositionOf(o + n)
<1> DEFINE N == {k \in (o + 1)..(o + n) : input[k] \notin 128..191}
<1>1. Newlines(o + n) = Newlines(o)
  BY DEF Newlines
<1>2. LineBegin(o + n) = LineBegin(o)
  BY <1>1 DEF LineBegin
<1>3. LineBegin(o) \in 0..o /\ IsFiniteSet(Columns(o)) /\ Cardinality(Columns(o)) \in Nat
  BY LineBeginIs
<1>4. Columns(o + n) = Columns(o) \cup N
  BY <1>2, <1>3 DEF Columns
<1>5. Columns(o) \cap N = {}
  BY <1>3 DEF Columns
<1>6. IsFiniteSet(N)
  <2>1. o + 1 \in Int /\ o + n \in Int
    OBVIOUS
  <2>2. IsFiniteSet((o + 1)..(o + n))
    BY <2>1, FS_Interval
  <2>3. N \in SUBSET ((o + 1)..(o + n))
    OBVIOUS
  <2> HIDE DEF N
  <2> QED
    BY <2>2, <2>3, FS_Subset
<1>7. Cardinality(Columns(o) \cup N) = Cardinality(Columns(o)) + c
  <2> HIDE DEF N
  <2>1. Cardinality(Columns(o) \cap N) = 0
    BY <1>5, FS_EmptySet
  <2>2. Cardinality(Columns(o) \cup N) = Cardinality(Columns(o)) + Cardinality(N) - Cardinality(Columns(o) \cap N)
    BY <1>3, <1>6, FS_Union
  <2>3. c = Cardinality(N)
    BY DEF N
  <2> QED
    BY <1>3, <2>1, <2>2, <2>3
<1> HIDE DEF N
<1>8. PICK a \in Nat : a = Cardinality(Columns(o))
  BY <1>3
<1>9. PositionOf(o) = [line |-> Cardinality(Newlines(o)) + 1, column |-> a + 1, offset |-> o]
  BY <1>8, PositionIs
<1>10. PositionOf(o + n) = [line |-> Cardinality(Newlines(o)) + 1, column |-> a + c + 1, offset |-> o + n]
  BY <1>1, <1>4, <1>7, <1>8, PositionIs
<1>11. a + 1 + c = a + c + 1
  OBVIOUS
<1>12. PICK l : l = Cardinality(Newlines(o)) + 1
  OBVIOUS
<1>13. PICK q : q = PositionOf(o)
  OBVIOUS
<1>14. q = [line |-> l, column |-> a + 1, offset |-> o]
  BY <1>9, <1>12, <1>13
<1>15. [q EXCEPT !.offset = q.offset + n] = [line |-> l, column |-> a + 1, offset |-> o + n]
  BY <1>14
<1>16. Over(q, n, c) = [[q EXCEPT !.offset = q.offset + n] EXCEPT !.column = q.column + c]
  BY <1>14 DEF Over
<1>17. Over(q, n, c) = [line |-> l, column |-> a + c + 1, offset |-> o + n]
  BY <1>11, <1>14, <1>15, <1>16
<1> QED
  BY <1>10, <1>12, <1>13, <1>17

\* A byte that is a column of its own.
PlainBytes == Bytes \ (128..191 \cup {Newline})

\* Bytes that are a column each.
LEMMA OverPlain ==
  ASSUME NEW o \in Nat, NEW n \in Nat, \A k \in (o + 1)..(o + n) : input[k] \in PlainBytes
  PROVE  Over(PositionOf(o), n, n) = PositionOf(o + n)
<1>1. {k \in (o + 1)..(o + n) : input[k] \notin 128..191} = (o + 1)..(o + n)
  BY DEF PlainBytes
<1>2. Cardinality((o + 1)..(o + n)) = n
  BY FS_Interval
<1>3. \A k \in (o + 1)..(o + n) : input[k] # Newline
  BY DEF PlainBytes
<1> QED
  BY <1>1, <1>2, <1>3, OverCounts

\* A character of several bytes is one column.
LEMMA OverChar ==
  ASSUME NEW o \in Nat, NEW n \in Nat \ {0}, input[o + 1] \in PlainBytes,
         \A k \in (o + 2)..(o + n) : input[k] \in 128..191
  PROVE  Over(PositionOf(o), n, 1) = PositionOf(o + n)
<1>1. \A k \in (o + 1)..(o + n) : k = o + 1 \/ k \in (o + 2)..(o + n)
  OBVIOUS
<1>2. o + 1 \in (o + 1)..(o + n)
  OBVIOUS
<1>3. {k \in (o + 1)..(o + n) : input[k] \notin 128..191} = {o + 1}
  BY <1>1, <1>2 DEF PlainBytes
<1>4. \A k \in (o + 1)..(o + n) : input[k] # Newline
  BY <1>1 DEF PlainBytes, Newline
<1>5. Cardinality({o + 1}) = 1
  BY FS_Singleton
<1> QED
  BY <1>3, <1>4, <1>5, OverCounts

\* Behind a newline a line begins.
LEMMA OverNewline ==
  ASSUME NEW o \in Nat, input[o + 1] = Newline
  PROVE  PositionOf(o + 1) = [line |-> PositionOf(o).line + 1, column |-> 1, offset |-> o + 1]
<1>1. Newlines(o + 1) = Newlines(o) \cup {o + 1} /\ o + 1 \notin Newlines(o)
  BY DEF Newlines
<1>2. IsFiniteSet(Newlines(o)) /\ Cardinality(Newlines(o)) \in Nat
  BY LineBeginIs
<1>3. Cardinality(Newlines(o + 1)) = Cardinality(Newlines(o)) + 1
  BY <1>1, <1>2, FS_AddElement
<1>4. LineBegin(o + 1) = o + 1
  <2>1. Newlines(o + 1) \cup {0} \in SUBSET (0..(o + 1)) /\ o + 1 \in Newlines(o + 1) \cup {0} /\ o + 1 \in Nat
    BY <1>1 DEF Newlines
  <2>2. LineBegin(o + 1) \in 0..(o + 1) /\ LineBegin(o + 1) >= o + 1
    BY <2>1, GreatestOf DEF LineBegin
  <2> QED
    BY <2>2
<1>5. Columns(o + 1) = {}
  BY <1>4 DEF Columns
<1>6. Cardinality(Columns(o + 1)) = 0
  BY <1>5, FS_EmptySet
<1> QED
  BY <1>3, <1>6, PositionIs

\* The first place.
LEMMA FirstPosition == PositionOf(0) = START
<1>1. Newlines(0) = {} /\ LineBegin(0) = 0
  <2>1. Newlines(0) = {}
    BY DEF Newlines
  <2>2. LineBegin(0) \in 0..0
    BY LineBeginIs
  <2> QED
    BY <2>1, <2>2
<1>2. Columns(0) = {}
  BY <1>1 DEF Columns
<1> QED
  BY <1>1, <1>2, PositionIs, FS_EmptySet DEF START

-----------------------------------------------------------------------------
(* Cuts *)

\* The cuts of s from b on, if f knows those from later places on.
CutsGoingOn(s, f, b, e) == {<<b>> \o cut : cut \in f[e + 1]}
CutsAfter(s, f, b) ==
  IF b > Len(s) THEN {<<>>}
  ELSE (IF s[b] \in Whitespace THEN f[b + 1] ELSE {})
         \cup UNION {CutsGoingOn(s, f, b, e) : e \in {e \in b..Len(s) : IsPiece(s, b, e)}}
CutsFrom(s) == CHOOSE f : f = [b \in 1..(Len(s) + 1) |-> CutsAfter(s, f, b)]

\* What is not known yet does not matter.
LEMMA CutsAfterSame ==
  ASSUME NEW s \in Seq(Bytes), NEW b \in 1..(Len(s) + 1), NEW f, NEW g,
         \A e \in (b + 1)..(Len(s) + 1) : f[e] = g[e]
  PROVE  CutsAfter(s, f, b) = CutsAfter(s, g, b)
<1> DEFINE E == {e \in b..Len(s) : IsPiece(s, b, e)}
<1>1. Len(s) \in Nat
  OBVIOUS
<1>2. \A e \in E : f[e + 1] = g[e + 1]
  <2> TAKE e \in E
  <2>1. e \in b..Len(s)
    OBVIOUS
  <2>2. e + 1 \in (b + 1)..(Len(s) + 1)
    BY <1>1, <2>1
  <2> QED
    BY <2>2
<1>3. ~(b > Len(s)) => f[b + 1] = g[b + 1]
  BY <1>1
<1> HIDE DEF E
<1>4. \A e \in E : CutsGoingOn(s, f, b, e) = CutsGoingOn(s, g, b, e)
  BY <1>2 DEF CutsGoingOn
<1>5. {CutsGoingOn(s, f, b, e) : e \in E} = {CutsGoingOn(s, g, b, e) : e \in E}
  BY <1>4
<1> QED
  BY <1>3, <1>5 DEF CutsAfter, E

\* There is such a function, found from the end of s on.
LEMMA CutsFromIs ==
  ASSUME NEW s \in Seq(Bytes)
  PROVE  /\ CutsOf(s) = CutsFrom(s)[1]
         /\ \A b \in 1..(Len(s) + 1) : CutsFrom(s)[b] = CutsAfter(s, CutsFrom(s), b)
<1> DEFINE L == Len(s)
           From(n) == IF n <= L THEN L + 1 - n ELSE 1
           Knows(g, n) == \A b \in From(n)..(L + 1) : g[b] = CutsAfter(s, g, b)
           A == {n \in Nat : \E g : Knows(g, n)}
<1>1. L \in Nat
  OBVIOUS
<1>2. 0 \in A
  <2>1. Knows([b \in 1..(L + 1) |-> {<<>>}], 0)
    <3>1. From(0)..(L + 1) = {L + 1}
      BY <1>1
    <3> QED
      BY <1>1, <3>1 DEF CutsAfter
  <2> QED
    BY <2>1
<1>3. ASSUME NEW n \in Nat, n \in A
      PROVE  n + 1 \in A
  <2>1. PICK g : Knows(g, n)
    BY <1>3
  <2>2. CASE n >= L
    BY <1>1, <2>1, <2>2
  <2>3. CASE n < L
    <3> DEFINE t == L - n
               h == [b \in 1..(L + 1) |-> IF b = t THEN CutsAfter(s, g, t) ELSE g[b]]
    <3>1. t \in 1..L /\ From(n + 1) = t /\ From(n) = t + 1
      BY <1>1, <2>3
    <3> HIDE DEF t
    <3>2. \A b \in t..(L + 1) : CutsAfter(s, h, b) = CutsAfter(s, g, b)
      <4> TAKE b \in t..(L + 1)
      <4>1. \A e \in (b + 1)..(L + 1) : h[e] = g[e]
        BY <1>1, <3>1
      <4>2. b \in 1..(L + 1)
        BY <1>1, <3>1
      <4> HIDE DEF h
      <4> QED
        BY <4>1, <4>2, CutsAfterSame
    <3>3. \A b \in (t + 1)..(L + 1) : g[b] = CutsAfter(s, g, b) /\ b # t
      BY <1>1, <2>1, <3>1
    <3>4. \A b \in t..(L + 1) : h[b] = CutsAfter(s, g, b)
      <4> TAKE b \in t..(L + 1)
      <4>1. b \in 1..(L + 1)
        BY <1>1, <3>1
      <4>2. CASE b = t
        BY <4>1, <4>2
      <4>3. CASE b # t
        BY <1>1, <3>1, <3>3, <4>1, <4>3
      <4> QED
        BY <4>2, <4>3
    <3>5. Knows(h, n + 1)
      <4> HIDE DEF h
      <4> QED
        BY <3>1, <3>2, <3>4
    <3> HIDE DEF h
    <3> QED
      BY <3>5
  <2> QED
    BY <1>1, <2>2, <2>3
<1>4. Nat \subseteq A
  <2> HIDE DEF A
  <2> QED
    BY <1>2, <1>3, NatSet
<1>5. PICK g : Knows(g, L)
  BY <1>1, <1>4
<1> DEFINE f == [b \in 1..(L + 1) |-> g[b]]
<1>6. f = [b \in 1..(L + 1) |-> CutsAfter(s, f, b)]
  <2>1. \A b \in 1..(L + 1) : f[b] = CutsAfter(s, g, b)
    BY <1>1, <1>5
  <2>2. \A b \in 1..(L + 1) : CutsAfter(s, f, b) = CutsAfter(s, g, b)
    <3> TAKE b \in 1..(L + 1)
    <3>1. \A e \in (b + 1)..(L + 1) : f[e] = g[e]
      BY <1>1
    <3> HIDE DEF f
    <3> QED
      BY <3>1, CutsAfterSame
  <2>3. f = [b \in 1..(L + 1) |-> CutsAfter(s, g, b)]
    BY <2>1
  <2> HIDE DEF f
  <2> QED
    BY <2>2, <2>3
<1> HIDE DEF f
<1>7. CutsFrom(s) = [b \in 1..(L + 1) |-> CutsAfter(s, CutsFrom(s), b)]
  BY <1>6 DEF CutsFrom
<1>8. CutsFrom(s)[1] = CutsOf(s)
  BY DEF CutsOf, CutsFrom, CutsAfter, CutsGoingOn
<1> DEFINE F == CutsFrom(s)
<1> HIDE DEF F
<1>9. F = [b \in 1..(L + 1) |-> CutsAfter(s, F, b)]
  BY <1>7 DEF F
<1>10. \A b \in 1..(L + 1) : F[b] = CutsAfter(s, F, b)
  BY <1>9
<1> QED
  BY <1>8, <1>10 DEF F

\* The rest of the text from this offset on can be cut into tokens and white space.
CanBeCut(o) == CutsFrom(input)[o + 1] # {}

\* Behind white space that is so, or there is a token, and it is so behind that.
LEMMA CutGoesOn ==
  ASSUME input \in Seq(Bytes), NEW o \in 0..(Len(input) - 1), CanBeCut(o)
  PROVE  \/ input[o + 1] \in Whitespace /\ CanBeCut(o + 1)
         \/ \E e \in (o + 1)..Len(input) : IsPiece(input, o + 1, e) /\ CanBeCut(e)
<1> DEFINE F == CutsFrom(input)
<1>1. Len(input) \in Nat /\ o + 1 \in 1..(Len(input) + 1) /\ ~(o + 1 > Len(input))
  OBVIOUS
<1>2. F[o + 1] = CutsAfter(input, F, o + 1)
  BY <1>1, CutsFromIs
<1>3. PICK cut : cut \in F[o + 1]
  BY DEF CanBeCut
<1> HIDE DEF F
<1>4. \/ input[o + 1] \in Whitespace /\ cut \in F[o + 1 + 1]
      \/ \E e \in (o + 1)..Len(input) : IsPiece(input, o + 1, e) /\ cut \in CutsGoingOn(input, F, o + 1, e)
  BY <1>1, <1>2, <1>3 DEF CutsAfter
<1>5. \A e : cut \in CutsGoingOn(input, F, o + 1, e) => F[e + 1] # {}
  BY DEF CutsGoingOn
<1> QED
  BY <1>4, <1>5 DEF CanBeCut, F

-----------------------------------------------------------------------------
(* Numbers *)

\* The i-th of the bytes from b to e of a text.
LEMMA PartOf ==
  ASSUME NEW s \in Seq(Bytes), NEW b \in 1..(Len(s) + 1), NEW e \in 0..Len(s), b <= e + 1
  PROVE  /\ SubSeq(s, b, e) \in Seq(Bytes)
         /\ Len(SubSeq(s, b, e)) = e - b + 1
         /\ \A i \in 1..(e - b + 1) : SubSeq(s, b, e)[i] = s[b + i - 1]
<1>1. b \in Nat /\ e \in Nat /\ Len(s) \in Nat
  OBVIOUS
<1>2. \A i \in b..e : s[i] \in Bytes
  BY <1>1
<1>3. SubSeq(s, b, e) \in Seq(Bytes)
  BY <1>1, <1>2, SubSeqProperties
<1>4. Len(SubSeq(s, b, e)) = e - b + 1
  BY <1>1
<1> QED
  BY <1>1, <1>3, <1>4

\* A text of digits, byte by byte.
LEMMA AreDigitsIs ==
  ASSUME NEW t \in Seq(Bytes)
  PROVE  AreDigits(t) <=> Len(t) > 0 /\ \A k \in 1..Len(t) : t[k] \in Digits
<1>1. t # <<>> <=> Len(t) > 0
  OBVIOUS
<1>2. ToSet(t) \subseteq Digits <=> \A k \in 1..Len(t) : t[k] \in Digits
  BY DEF ToSet
<1> QED
  BY <1>1, <1>2 DEF AreDigits

\* The same of what follows its first byte.
LEMMA TailDigits ==
  ASSUME NEW t \in Seq(Bytes), t # <<>>
  PROVE  AreDigits(Tail(t)) <=> Len(t) > 1 /\ \A k \in 2..Len(t) : t[k] \in Digits
<1> DEFINE u == Tail(t)
<1>1. u \in Seq(Bytes) /\ Len(u) = Len(t) - 1 /\ Len(t) \in Nat /\ Len(t) > 0
  OBVIOUS
<1>2. \A k \in 1..(Len(t) - 1) : u[k] = t[k + 1]
  OBVIOUS
<1> HIDE DEF u
<1>3. (\A k \in 1..(Len(t) - 1) : u[k] \in Digits) <=> \A k \in 2..Len(t) : t[k] \in Digits
  <2>1. \A k \in 2..Len(t) : k - 1 \in 1..(Len(t) - 1) /\ k - 1 + 1 = k
    BY <1>1
  <2>2. \A k \in 1..(Len(t) - 1) : k + 1 \in 2..Len(t)
    BY <1>1
  <2> QED
    BY <1>2, <2>1, <2>2
<1>4. AreDigits(u) <=> Len(u) > 0 /\ \A k \in 1..Len(u) : u[k] \in Digits
  BY <1>1, AreDigitsIs
<1>5. Len(u) > 0 <=> Len(t) > 1
  BY <1>1
<1>6. AreDigits(u) <=> Len(t) > 1 /\ \A k \in 2..Len(t) : t[k] \in Digits
  BY <1>1, <1>3, <1>4, <1>5
<1> QED
  BY <1>6 DEF u

\* The parts of a number, by what stands where.
LEMMA IntPartIs ==
  ASSUME NEW t \in Seq(Bytes)
  PROVE  IsInt(t) <=> /\ Len(t) > 0 /\ \A k \in 1..Len(t) : t[k] \in Digits
                      /\ t[1] = Zero => Len(t) = 1
BY AreDigitsIs DEF IsInt

\* A fraction is empty, or a dot and digits.
LEMMA FracPartIs ==
  ASSUME NEW t \in Seq(Bytes)
  PROVE  IsFrac(t) <=> \/ Len(t) = 0
                       \/ t[1] = Dot /\ Len(t) > 1 /\ \A k \in 2..Len(t) : t[k] \in Digits
<1>1. CASE t = <<>>
  BY <1>1 DEF IsFrac
<1>2. CASE t # <<>>
  <2>1. Len(t) \in Nat /\ Len(t) > 0
    BY <1>2
  <2>4. AreDigits(Tail(t)) <=> Len(t) > 1 /\ \A k \in 2..Len(t) : t[k] \in Digits
    BY <1>2, TailDigits
  <2> QED
    BY <1>2, <2>1, <2>4 DEF IsFrac
<1> QED
  BY <1>1, <1>2

\* An exponent is empty, or a letter, perhaps a sign, and digits.
LEMMA ExpPartIs ==
  ASSUME NEW t \in Seq(Bytes)
  PROVE  IsExp(t) <=> \/ Len(t) = 0
                      \/ /\ t[1] \in Exponents
                         /\ \/ Len(t) > 1 /\ \A k \in 2..Len(t) : t[k] \in Digits
                            \/ Len(t) > 2 /\ t[2] \in Signs /\ \A k \in 3..Len(t) : t[k] \in Digits
<1>1. CASE t = <<>>
  BY <1>1 DEF IsExp
<1>2. CASE t # <<>>
  <2>1. Len(t) \in Nat /\ Len(t) > 0
    BY <1>2
  <2>4. AreDigits(Tail(t)) <=> Len(t) > 1 /\ \A k \in 2..Len(t) : t[k] \in Digits
    BY <1>2, TailDigits
  <2>5. ASSUME Len(t) > 2
        PROVE  AreDigits(SubSeq(t, 3, Len(t))) <=> \A k \in 3..Len(t) : t[k] \in Digits
    <3> DEFINE u == SubSeq(t, 3, Len(t))
    <3>1. 3 \in 1..(Len(t) + 1) /\ Len(t) \in 0..Len(t) /\ 3 <= Len(t) + 1
      BY <2>1, <2>5
    <3>2. u \in Seq(Bytes) /\ Len(u) = Len(t) - 3 + 1 /\ \A i \in 1..(Len(t) - 3 + 1) : u[i] = t[3 + i - 1]
      BY <3>1, PartOf
    <3> HIDE DEF u
    <3>3. Len(u) = Len(t) - 2 /\ \A i \in 1..(Len(t) - 2) : u[i] = t[i + 2]
      <4>1. Len(t) - 3 + 1 = Len(t) - 2 /\ \A i \in 1..(Len(t) - 2) : 3 + i - 1 = i + 2
        BY <2>1
      <4> QED
        BY <3>2, <4>1
    <3>4. AreDigits(u) <=> \A k \in 1..(Len(t) - 2) : t[k + 2] \in Digits
      <4>1. AreDigits(u) <=> Len(u) > 0 /\ \A k \in 1..Len(u) : u[k] \in Digits
        BY <3>2, AreDigitsIs
      <4>2. Len(u) > 0
        BY <2>1, <2>5, <3>3
      <4> QED
        BY <3>3, <4>1, <4>2
    <3>5. \A k \in 3..Len(t) : k - 2 \in 1..(Len(t) - 2) /\ k - 2 + 2 = k
      BY <2>1
    <3>6. \A k \in 1..(Len(t) - 2) : k + 2 \in 3..Len(t)
      BY <2>1
    <3> QED
      BY <3>4, <3>5, <3>6 DEF u
  <2> QED
    BY <1>2, <2>1, <2>4, <2>5 DEF IsExp
<1> QED
  BY <1>1, <1>2

\* Where the first digit of the number stands that begins at this offset, and of
\* the exponent.
IntBegin(o) == o + (IF Byte(o) = Minus THEN 1 ELSE 0)
ExpBegin(c) == c + (IF Byte(c + 1) \in Signs THEN 2 ELSE 1)

DigitsFill(b, e) == b < e /\ \A k \in b..(e - 1) : Byte(k) \in Digits

IntFills(b, e) == DigitsFill(b, e) /\ (Byte(b) = Zero => e = b + 1)
FracFills(b, e) == b = e \/ (Byte(b) = Dot /\ DigitsFill(b + 1, e))
ExpFills(b, e) == b = e \/ (Byte(b) \in Exponents /\ DigitsFill(ExpBegin(b), e))

\* What a number is from one offset to another.
NumberFills(o, e) ==
  \E b, c \in o..e : IntFills(IntBegin(o), b) /\ FracFills(b, c) /\ ExpFills(c, e)

\* The bytes between two offsets.
LEMMA SliceIs ==
  ASSUME input \in Seq(Bytes), NEW o \in 0..Len(input), NEW e \in o..Len(input)
  PROVE  /\ Slice(o, e) = SubSeq(input, o + 1, e)
         /\ Slice(o, e) \in Seq(Bytes)
         /\ Len(Slice(o, e)) = e - o
         /\ \A i \in 1..(e - o) : Slice(o, e)[i] = Byte(o + i - 1) /\ Slice(o, e)[i] = input[o + i]
<1>1. Len(input) \in Nat /\ o \in Nat /\ e \in Nat /\ o <= e /\ e <= Len(input)
  OBVIOUS
<1>2. Slice(o, e) = SubSeq(input, o + 1, e)
  BY <1>1 DEF Slice
<1>3. o + 1 \in 1..(Len(input) + 1) /\ e \in 0..Len(input) /\ o + 1 <= e + 1 /\ e - (o + 1) + 1 = e - o
  BY <1>1
<1> DEFINE t == SubSeq(input, o + 1, e)
<1>4. t \in Seq(Bytes) /\ Len(t) = e - o /\ \A i \in 1..(e - o) : t[i] = input[o + 1 + i - 1]
  BY <1>3, PartOf
<1> HIDE DEF t
<1>5. \A i \in 1..(e - o) : o + 1 + i - 1 = o + i /\ o + i - 1 < Len(input) /\ o + i - 1 + 1 = o + i
  BY <1>1
<1>6. \A i \in 1..(e - o) : Byte(o + i - 1) = input[o + i]
  BY <1>5 DEF Byte
<1>7. \A i \in 1..(e - o) : t[i] = input[o + i]
  BY <1>4, <1>5
<1>8. Slice(o, e) = t
  BY <1>2 DEF t
<1> QED
  BY <1>4, <1>6, <1>7, <1>8 DEF t

\* A part of such a slice is a slice.
LEMMA SliceOfSlice ==
  ASSUME input \in Seq(Bytes), NEW o \in 0..Len(input), NEW e \in o..Len(input),
         NEW i \in 0..(e - o), NEW j \in i..(e - o)
  PROVE  SubSeq(Slice(o, e), i + 1, j) = Slice(o + i, o + j)
<1>1. Len(input) \in Nat /\ o \in Nat /\ e \in Nat /\ i \in Nat /\ j \in Nat /\ o <= e /\ e <= Len(input)
      /\ i <= j /\ j <= e - o
  OBVIOUS
<1> DEFINE s == Slice(o, e)
           t == SubSeq(s, i + 1, j)
           u == Slice(o + i, o + j)
<1>2. s \in Seq(Bytes) /\ Len(s) = e - o /\ \A k \in 1..(e - o) : s[k] = input[o + k]
  BY SliceIs
<1>3. o + i \in 0..Len(input) /\ o + j \in (o + i)..Len(input) /\ o + j - (o + i) = j - i
  BY <1>1
<1>4. u \in Seq(Bytes) /\ Len(u) = j - i /\ \A k \in 1..(j - i) : u[k] = input[o + i + k]
  <2>1. PICK p \in 0..Len(input) : p = o + i
    BY <1>3
  <2>2. PICK q \in p..Len(input) : q = o + j
    BY <1>3, <2>1
  <2>3. u = Slice(p, q) /\ q - p = j - i
    BY <1>3, <2>1, <2>2
  <2> HIDE DEF u
  <2>4. u \in Seq(Bytes) /\ Len(u) = q - p /\ \A k \in 1..(q - p) : u[k] = input[p + k]
    BY <2>1, <2>2, <2>3, SliceIs
  <2> QED
    BY <2>1, <2>3, <2>4
<1>5. t \in Seq(Bytes) /\ Len(t) = j - i /\ \A k \in 1..(j - i) : t[k] = s[i + k]
  <2>1. i + 1 \in 1..(Len(s) + 1) /\ j \in 0..Len(s) /\ i + 1 <= j + 1 /\ j - (i + 1) + 1 = j - i
    <3> HIDE DEF s
    <3> QED
      BY <1>1, <1>2
  <2>2. \A k \in 1..(j - i) : i + 1 + k - 1 = i + k
    BY <1>1
  <2> HIDE DEF s
  <2>3. t \in Seq(Bytes) /\ Len(t) = j - i /\ \A k \in 1..(j - i) : t[k] = s[i + 1 + k - 1]
    BY <1>2, <2>1, PartOf
  <2> HIDE DEF t
  <2> QED
    BY <2>2, <2>3
<1> HIDE DEF s, t, u
<1>6. \A k \in 1..(j - i) : t[k] = u[k]
  <2> TAKE k \in 1..(j - i)
  <2>1. i + k \in 1..(e - o) /\ o + (i + k) = o + i + k
    BY <1>1
  <2> QED
    BY <1>2, <1>4, <1>5, <2>1
<1>7. t = u
  BY <1>4, <1>5, <1>6, SeqEqual
<1> QED
  BY <1>7 DEF s, t, u

\* The digits of a slice from its d-th byte on.
LEMMA SliceDigits ==
  ASSUME input \in Seq(Bytes), NEW p \in 0..Len(input), NEW q \in p..Len(input), NEW d \in Nat \ {0}
  PROVE  (\A k \in d..(q - p) : Slice(p, q)[k] \in Digits) <=> \A k \in (p + d - 1)..(q - 1) : Byte(k) \in Digits
<1> DEFINE t == Slice(p, q)
<1>1. \A k \in 1..(q - p) : t[k] = Byte(p + k - 1)
  BY SliceIs
<1> HIDE DEF t
<1>2. \A k \in d..(q - p) : k \in 1..(q - p) /\ p + k - 1 \in (p + d - 1)..(q - 1)
  OBVIOUS
<1>3. \A k \in (p + d - 1)..(q - 1) : k - p + 1 \in d..(q - p) /\ p + (k - p + 1) - 1 = k
  OBVIOUS
<1>4. ASSUME \A k \in d..(q - p) : t[k] \in Digits, NEW k \in (p + d - 1)..(q - 1)
      PROVE  Byte(k) \in Digits
  <2>1. PICK j \in d..(q - p) : p + j - 1 = k
    BY <1>3
  <2> QED
    BY <1>1, <1>2, <1>4, <2>1
<1>5. ASSUME \A k \in (p + d - 1)..(q - 1) : Byte(k) \in Digits, NEW k \in d..(q - p)
      PROVE  t[k] \in Digits
  BY <1>1, <1>2, <1>5
<1> QED
  BY <1>4, <1>5 DEF t

\* The same of a slice of the input, by the places of its bytes: an integer,
LEMMA SliceIsInt ==
  ASSUME input \in Seq(Bytes), NEW p \in 0..Len(input), NEW q \in p..Len(input)
  PROVE  IsInt(Slice(p, q)) <=> IntFills(p, q)
<1> DEFINE t == Slice(p, q)
<1>1. t \in Seq(Bytes) /\ Len(t) = q - p /\ (q - p >= 1 => t[1] = Byte(p))
  <2>1. 1 \in 1..(q - p) => Slice(p, q)[1] = Byte(p + 1 - 1)
    BY SliceIs
  <2> QED
    BY <2>1, SliceIs
<1>2. (\A k \in 1..(q - p) : t[k] \in Digits) <=> \A k \in p..(q - 1) : Byte(k) \in Digits
  <2>1. p + 1 - 1 = p /\ 1 \in Nat \ {0}
    OBVIOUS
  <2> QED
    BY <2>1, SliceDigits
<1> HIDE DEF t
<1>3. IsInt(t) <=> /\ Len(t) > 0 /\ \A k \in 1..Len(t) : t[k] \in Digits
                   /\ t[1] = Zero => Len(t) = 1
  BY <1>1, IntPartIs
<1>4. (Len(t) > 0 <=> p < q) /\ (Len(t) = 1 <=> q = p + 1)
  BY <1>1
<1>5. Len(t) > 0 => t[1] = Byte(p)
  BY <1>1
<1> QED
  BY <1>1, <1>2, <1>3, <1>4, <1>5 DEF t, IntFills, DigitsFill

\* a fraction,
LEMMA SliceIsFrac ==
  ASSUME input \in Seq(Bytes), NEW p \in 0..Len(input), NEW q \in p..Len(input)
  PROVE  IsFrac(Slice(p, q)) <=> FracFills(p, q)
<1> DEFINE t == Slice(p, q)
<1>1. t \in Seq(Bytes) /\ Len(t) = q - p /\ (q - p >= 1 => t[1] = Byte(p))
  <2>1. 1 \in 1..(q - p) => Slice(p, q)[1] = Byte(p + 1 - 1)
    BY SliceIs
  <2> QED
    BY <2>1, SliceIs
<1>2. (\A k \in 2..(q - p) : t[k] \in Digits) <=> \A k \in (p + 1)..(q - 1) : Byte(k) \in Digits
  <2>1. p + 2 - 1 = p + 1 /\ 2 \in Nat \ {0}
    OBVIOUS
  <2> QED
    BY <2>1, SliceDigits
<1> HIDE DEF t
<1>3. IsFrac(t) <=> \/ Len(t) = 0
                    \/ t[1] = Dot /\ Len(t) > 1 /\ \A k \in 2..Len(t) : t[k] \in Digits
  BY <1>1, FracPartIs
<1>4. (Len(t) = 0 <=> p = q) /\ (Len(t) > 1 <=> p + 1 < q)
  BY <1>1
<1>5. Len(t) > 1 => t[1] = Byte(p)
  BY <1>1
<1> QED
  BY <1>1, <1>2, <1>3, <1>4, <1>5 DEF t, FracFills, DigitsFill

\* and an exponent.
LEMMA SliceIsExp ==
  ASSUME input \in Seq(Bytes), NEW p \in 0..Len(input), NEW q \in p..Len(input)
  PROVE  IsExp(Slice(p, q)) <=> ExpFills(p, q)
<1> DEFINE t == Slice(p, q)
<1>1. t \in Seq(Bytes) /\ Len(t) = q - p /\ (q - p >= 1 => t[1] = Byte(p)) /\ (q - p >= 2 => t[2] = Byte(p + 1))
  <2>1. \A i \in 1..(q - p) : Slice(p, q)[i] = Byte(p + i - 1)
    BY SliceIs
  <2>2. (q - p >= 1 => 1 \in 1..(q - p)) /\ (q - p >= 2 => 2 \in 1..(q - p)) /\ p + 1 - 1 = p /\ p + 2 - 1 = p + 1
    OBVIOUS
  <2>3. t \in Seq(Bytes) /\ Len(t) = q - p
    BY SliceIs
  <2> QED
    BY <2>1, <2>2, <2>3
<1>2. /\ (\A k \in 2..(q - p) : t[k] \in Digits) <=> \A k \in (p + 1)..(q - 1) : Byte(k) \in Digits
      /\ (\A k \in 3..(q - p) : t[k] \in Digits) <=> \A k \in (p + 2)..(q - 1) : Byte(k) \in Digits
  <2>1. p + 2 - 1 = p + 1 /\ p + 3 - 1 = p + 2 /\ 2 \in Nat \ {0} /\ 3 \in Nat \ {0}
    OBVIOUS
  <2> QED
    BY <2>1, SliceDigits
<1> HIDE DEF t
<1>3. IsExp(t) <=> \/ Len(t) = 0
                   \/ /\ t[1] \in Exponents
                      /\ \/ Len(t) > 1 /\ \A k \in 2..Len(t) : t[k] \in Digits
                         \/ Len(t) > 2 /\ t[2] \in Signs /\ \A k \in 3..Len(t) : t[k] \in Digits
  BY <1>1, ExpPartIs
<1>4. (Len(t) = 0 <=> p = q) /\ (Len(t) > 1 <=> p + 1 < q) /\ (Len(t) > 2 <=> p + 2 < q)
  BY <1>1
<1>5. (Len(t) > 1 => t[1] = Byte(p)) /\ (Len(t) > 2 => t[2] = Byte(p + 1) /\ t[1] = Byte(p))
  BY <1>1
<1>6. IsExp(t) <=> \/ p = q
                   \/ Byte(p) \in Exponents /\ DigitsFill(p + 1, q)
                   \/ Byte(p) \in Exponents /\ Byte(p + 1) \in Signs /\ DigitsFill(p + 2, q)
  BY <1>1, <1>2, <1>3, <1>4, <1>5 DEF DigitsFill
<1>7. DigitsFill(p + 1, q) => Byte(p + 1) \notin Signs
  <2>1. p + 1 < q => p + 1 \in (p + 1)..(q - 1)
    OBVIOUS
  <2>2. Digits \cap Signs = {}
    BY DEF Digits, Signs
  <2> QED
    BY <2>1, <2>2 DEF DigitsFill
<1> QED
  BY <1>6, <1>7 DEF t, ExpFills, ExpBegin

\* The first byte of a text.
LEMMA OneByte ==
  ASSUME NEW s \in Seq(Bytes), Len(s) >= 1
  PROVE  SubSeq(s, 1, 1) = <<s[1]>>
<1> DEFINE u == SubSeq(s, 1, 1)
           v == <<s[1]>>
<1>1. u \in Seq(Bytes) /\ Len(u) = 1 /\ u[1] = s[1]
  <2>1. 1 \in 1..(Len(s) + 1) /\ 1 \in 0..Len(s) /\ 1 <= 1 + 1 /\ 1 - 1 + 1 = 1 /\ 1 \in 1..1 /\ 1 + 1 - 1 = 1
    OBVIOUS
  <2> QED
    BY <2>1, PartOf
<1>2. v \in Seq(Bytes) /\ Len(v) = 1 /\ v[1] = s[1]
  OBVIOUS
<1> HIDE DEF u, v
<1>3. \A i \in 1..1 : u[i] = v[i]
  BY <1>1, <1>2
<1>4. u = v
  BY <1>1, <1>2, <1>3, SeqEqual
<1> QED
  BY <1>4 DEF u, v

\* A number is an integer with a fraction and an exponent, each where the last ends.
LEMMA IsNumberIs ==
  ASSUME input \in Seq(Bytes), NEW o \in 0..Len(input), NEW e \in o..Len(input)
  PROVE  IsNumber(Slice(o, e)) <=> NumberFills(o, e)
<1> DEFINE s == Slice(o, e)
<1>1. s \in Seq(Bytes) /\ Len(s) = e - o /\ (e - o >= 1 => s[1] = Byte(o))
  <2>1. 1 \in 1..(e - o) => Slice(o, e)[1] = Byte(o + 1 - 1)
    BY SliceIs
  <2> QED
    BY <2>1, SliceIs
<1>2. ASSUME NEW i \in 0..(e - o), NEW j \in i..(e - o)
      PROVE  /\ SubSeq(s, i + 1, j) = Slice(o + i, o + j)
             /\ o + i \in 0..Len(input) /\ o + j \in (o + i)..Len(input)
  <2>1. SubSeq(Slice(o, e), i + 1, j) = Slice(o + i, o + j)
    BY SliceOfSlice
  <2>2. o + i \in 0..Len(input) /\ o + j \in (o + i)..Len(input)
    OBVIOUS
  <2> QED
    BY <2>1, <2>2
<1> HIDE DEF s
<1>3. ASSUME NEW a \in 0..1, NEW b \in 0..(e - o), NEW c \in 0..(e - o), a <= b, b <= c
      PROVE  /\ IsInt(SubSeq(s, a + 1, b)) <=> IntFills(o + a, o + b)
             /\ IsFrac(SubSeq(s, b + 1, c)) <=> FracFills(o + b, o + c)
             /\ IsExp(SubSeq(s, c + 1, Len(s))) <=> ExpFills(o + c, e)
             /\ o + b \in o..e /\ o + c \in o..e
  <2>1. a \in 0..(e - o) /\ b \in a..(e - o) /\ c \in b..(e - o) /\ e - o \in c..(e - o) /\ o + (e - o) = e
    BY <1>3
  <2>2. /\ SubSeq(s, a + 1, b) = Slice(o + a, o + b)
        /\ o + a \in 0..Len(input) /\ o + b \in (o + a)..Len(input)
    BY <1>2, <2>1
  <2>3. /\ SubSeq(s, b + 1, c) = Slice(o + b, o + c)
        /\ o + b \in 0..Len(input) /\ o + c \in (o + b)..Len(input)
    BY <1>2, <2>1
  <2>4. /\ SubSeq(s, c + 1, e - o) = Slice(o + c, e)
        /\ o + c \in 0..Len(input) /\ e \in (o + c)..Len(input)
    BY <1>2, <2>1
  <2>5. o + b \in o..e /\ o + c \in o..e
    BY <1>3
  <2> QED
    BY <1>1, <2>2, <2>3, <2>4, <2>5, SliceIsInt, SliceIsFrac, SliceIsExp
<1>4. ASSUME NEW a \in 0..1, NEW b \in 0..(e - o), a <= b, IntFills(o + a, o + b)
      PROVE  SubSeq(s, 1, a) \in {<<>>, <<Minus>>} <=> o + a = IntBegin(o)
  <2>1. a < b /\ Byte(o + a) \in Digits
    <3>1. o + a < o + b /\ o + a \in (o + a)..(o + b - 1)
      BY <1>4 DEF IntFills, DigitsFill
    <3> QED
      BY <1>4, <3>1 DEF IntFills, DigitsFill
  <2>2. CASE a = 0
    <3>1. SubSeq(s, 1, a) = <<>>
      BY <1>1, <2>2
    <3>2. Byte(o) # Minus
      BY <2>1, <2>2 DEF Digits, Minus
    <3> QED
      BY <2>2, <3>1, <3>2 DEF IntBegin
  <2>3. CASE a = 1
    <3>1. e - o >= 1
      BY <2>1, <2>3
    <3>2. SubSeq(s, 1, a) = <<Byte(o)>>
      <4>1. Len(s) >= 1 /\ s[1] = Byte(o)
        BY <1>1, <3>1
      <4>2. SubSeq(s, 1, 1) = <<s[1]>>
        BY <1>1, <4>1, OneByte
      <4> QED
        BY <2>3, <4>1, <4>2
    <3>3. <<Byte(o)>> \in {<<>>, <<Minus>>} <=> Byte(o) = Minus
      OBVIOUS
    <3>4. o + a = IntBegin(o) <=> Byte(o) = Minus
      BY <2>3 DEF IntBegin
    <3> QED
      BY <3>2, <3>3, <3>4
  <2> QED
    BY <2>2, <2>3
<1>5. ASSUME IsNumber(s)
      PROVE  NumberFills(o, e)
  <2>1. PICK a \in 0..1, b \in 0..(e - o), c \in 0..(e - o) :
          /\ a <= b /\ b <= c
          /\ SubSeq(s, 1, a) \in {<<>>, <<Minus>>}
          /\ IsInt(SubSeq(s, a + 1, b))
          /\ IsFrac(SubSeq(s, b + 1, c))
          /\ IsExp(SubSeq(s, c + 1, Len(s)))
    BY <1>1, <1>5 DEF IsNumber
  <2>2. /\ IntFills(o + a, o + b) /\ FracFills(o + b, o + c) /\ ExpFills(o + c, e)
        /\ o + b \in o..e /\ o + c \in o..e
    BY <1>3, <2>1
  <2>3. o + a = IntBegin(o)
    BY <1>4, <2>1, <2>2
  <2> QED
    BY <2>2, <2>3 DEF NumberFills
<1>6. ASSUME NumberFills(o, e)
      PROVE  IsNumber(s)
  <2>1. PICK y \in o..e, z \in o..e : IntFills(IntBegin(o), y) /\ FracFills(y, z) /\ ExpFills(z, e)
    BY <1>6 DEF NumberFills
  <2>2. PICK a \in 0..1 : o + a = IntBegin(o)
    <3>1. o + 0 = o /\ 0 \in 0..1 /\ 1 \in 0..1
      OBVIOUS
    <3> QED
      BY <3>1 DEF IntBegin
  <2>3. PICK b \in 0..(e - o) : o + b = y
    <3>1. y - o \in 0..(e - o) /\ o + (y - o) = y
      OBVIOUS
    <3> QED
      BY <3>1
  <2>4. PICK c \in 0..(e - o) : o + c = z
    <3>1. z - o \in 0..(e - o) /\ o + (z - o) = z
      OBVIOUS
    <3> QED
      BY <3>1
  <2>5. a <= b
    BY <2>1, <2>2, <2>3 DEF IntFills, DigitsFill
  <2>6. b <= c
    <3>1. y = z \/ y < z
      <4>1. y = z \/ y + 1 < z
        BY <2>1 DEF FracFills, DigitsFill
      <4> QED
        BY <4>1
    <3> QED
      BY <2>3, <2>4, <3>1
  <2>7. SubSeq(s, 1, a) \in {<<>>, <<Minus>>}
    BY <1>4, <2>1, <2>2, <2>3, <2>5
  <2>8. IsInt(SubSeq(s, a + 1, b)) /\ IsFrac(SubSeq(s, b + 1, c)) /\ IsExp(SubSeq(s, c + 1, Len(s)))
    BY <1>3, <2>1, <2>2, <2>3, <2>4, <2>5, <2>6
  <2> QED
    BY <1>1, <2>5, <2>6, <2>7, <2>8 DEF IsNumber
<1> QED
  BY <1>5, <1>6 DEF s

\* A run of digits ends with the last of them.
LEMMA DigitsEndIs ==
  ASSUME input \in Seq(Bytes), NEW o \in 0..Len(input)
  PROVE  /\ DigitsEnd(o) \in o..Len(input)
         /\ Byte(DigitsEnd(o)) \notin Digits
         /\ \A k \in o..(DigitsEnd(o) - 1) : Byte(k) \in Digits
<1> DEFINE T == {e \in o..Len(input) : Byte(e) \notin Digits}
<1>1. Len(input) \in Nat /\ T \in SUBSET Nat
  OBVIOUS
<1>2. Byte(Len(input)) \notin Digits
  BY <1>1 DEF Byte, None, Digits
<1>3. Len(input) \in T
  BY <1>1, <1>2
<1>4. DigitsEnd(o) = Min(T)
  BY DEF DigitsEnd
<1> DEFINE m == Min(T)
<1>5. m \in T /\ \A x \in T : m <= x
  BY <1>1, <1>3, LeastOf
<1> HIDE DEF m
<1>6. \A k \in o..(m - 1) : Byte(k) \in Digits
  <2> SUFFICES ASSUME NEW k \in o..(m - 1), Byte(k) \notin Digits
               PROVE  FALSE
    OBVIOUS
  <2>1. m \in o..Len(input)
    BY <1>5
  <2>2. k \in o..Len(input) /\ ~(m <= k)
    BY <1>1, <2>1
  <2> QED
    BY <1>5, <2>2
<1> QED
  BY <1>4, <1>5, <1>6 DEF m

\* Digits that are followed by no digit are the whole run.
LEMMA DigitsStop ==
  ASSUME input \in Seq(Bytes), NEW o \in 0..Len(input), NEW b \in 0..Len(input), DigitsFill(o, b)
  PROVE  /\ Byte(o) \in Digits
         /\ b = DigitsEnd(o) \/ Byte(b) \in Digits
<1> DEFINE m == DigitsEnd(o)
<1>1. m \in o..Len(input) /\ Byte(m) \notin Digits /\ \A k \in o..(m - 1) : Byte(k) \in Digits
  BY DigitsEndIs
<1> HIDE DEF m
<1>2. o < b /\ \A k \in o..(b - 1) : Byte(k) \in Digits
  BY DEF DigitsFill
<1>3. Byte(o) \in Digits
  BY <1>2
<1>4. ~(m < b)
  <2>1. m < b => m \in o..(b - 1)
    BY <1>1
  <2> QED
    BY <1>1, <1>2, <2>1
<1>5. b < m => b \in o..(m - 1)
  BY <1>1, <1>2
<1>6. b < m \/ b = m
  BY <1>1, <1>4
<1> QED
  BY <1>1, <1>3, <1>5, <1>6 DEF m

\* A run that has a digit is digits to its end.
LEMMA DigitsEndFills ==
  ASSUME input \in Seq(Bytes), NEW o \in Nat, Byte(o) \in Digits
  PROVE  DigitsEnd(o) \in (o + 1)..Len(input) /\ DigitsFill(o, DigitsEnd(o))
<1>1. o \in 0..Len(input) /\ Len(input) \in Nat
  <2>1. Byte(o) # None
    BY DEF Digits, None
  <2> QED
    BY <2>1, ByteIsThere
<1>2. /\ DigitsEnd(o) \in o..Len(input) /\ Byte(DigitsEnd(o)) \notin Digits
      /\ \A k \in o..(DigitsEnd(o) - 1) : Byte(k) \in Digits
  BY <1>1, DigitsEndIs
<1>3. DigitsEnd(o) # o
  BY <1>2
<1>4. DigitsEnd(o) \in (o + 1)..Len(input) /\ o < DigitsEnd(o)
  BY <1>1, <1>2, <1>3
<1> QED
  BY <1>2, <1>4 DEF DigitsFill

\* The parts of a number that the tokeniser finds.
LEMMA IntStops ==
  ASSUME input \in Seq(Bytes), NEW o \in Nat
  PROVE  /\ IntEnd(o) # None => IntFills(o, IntEnd(o)) /\ IntEnd(o) \in (o + 1)..Len(input)
         /\ \A b \in 0..Len(input) : IntFills(o, b) => b = IntEnd(o) \/ Byte(b) \in Digits
<1>1. CASE Byte(o) = Zero
  <2>1. IntEnd(o) = o + 1
    BY <1>1 DEF IntEnd
  <2>2. Byte(o) \in Digits /\ Byte(o) # None
    BY <1>1 DEF Zero, Digits, None
  <2>3. o + 1 \in (o + 1)..Len(input)
    BY <2>2, ByteIsThere
  <2>4. IntFills(o, o + 1)
    <3>1. o < o + 1 /\ \A k \in o..(o + 1 - 1) : k = o
      OBVIOUS
    <3> QED
      BY <2>2, <3>1 DEF IntFills, DigitsFill
  <2>5. \A b : IntFills(o, b) => b = o + 1
    BY <1>1 DEF IntFills
  <2> QED
    BY <2>1, <2>3, <2>4, <2>5
<1>2. CASE Byte(o) # Zero /\ Byte(o) \in Digits
  <2>1. IntEnd(o) = DigitsEnd(o)
    BY <1>2 DEF IntEnd
  <2>2. DigitsEnd(o) \in (o + 1)..Len(input) /\ DigitsFill(o, DigitsEnd(o))
    BY <1>2, DigitsEndFills
  <2>3. o \in 0..Len(input)
    BY <2>2
  <2>4. \A b \in 0..Len(input) : DigitsFill(o, b) => b = DigitsEnd(o) \/ Byte(b) \in Digits
    BY <2>3, DigitsStop
  <2> QED
    BY <1>2, <2>1, <2>2, <2>4 DEF IntFills
<1>3. CASE Byte(o) \notin Digits
  <2>1. IntEnd(o) = None
    BY <1>3 DEF IntEnd, Zero, Digits
  <2>2. \A b \in 0..Len(input) : ~IntFills(o, b)
    <3> SUFFICES ASSUME NEW b \in 0..Len(input), IntFills(o, b)
                 PROVE  FALSE
      OBVIOUS
    <3>1. o < b /\ o \in o..(b - 1)
      BY DEF IntFills, DigitsFill
    <3> QED
      BY <1>3, <3>1 DEF IntFills, DigitsFill
  <2> QED
    BY <2>1, <2>2
<1>4. Zero \in Digits
  BY DEF Zero, Digits
<1> QED
  BY <1>1, <1>2, <1>3, <1>4

\* A fraction that fills the text up to b goes to FracEnd, or more of it follows.
LEMMA FracStops ==
  ASSUME input \in Seq(Bytes), NEW o \in 0..Len(input)
  PROVE  /\ FracEnd(o) # None => FracFills(o, FracEnd(o)) /\ FracEnd(o) \in o..Len(input)
         /\ \A b \in 0..Len(input) : FracFills(o, b) => b = FracEnd(o) \/ Byte(b) \in Digits \cup {Dot}
<1>1. CASE Byte(o) # Dot
  BY <1>1 DEF FracEnd, FracFills
<1>2. CASE Byte(o) = Dot
  <2>1. o + 1 \in 0..Len(input) /\ Len(input) \in Nat
    <3>1. Byte(o) # None
      BY <1>2 DEF Dot, None
    <3> QED
      BY <3>1, ByteIsThere
  <2>2. \A b \in 0..Len(input) :
          DigitsFill(o + 1, b) => Byte(o + 1) \in Digits /\ (b = DigitsEnd(o + 1) \/ Byte(b) \in Digits)
    BY <2>1, DigitsStop
  <2>3. \A b \in 0..Len(input) : FracFills(o, b) => b = FracEnd(o) \/ Byte(b) \in Digits \cup {Dot}
    BY <1>2, <2>2 DEF FracFills, FracEnd
  <2>4. CASE Byte(o + 1) \in Digits
    <3>1. FracEnd(o) = DigitsEnd(o + 1)
      BY <1>2, <2>4 DEF FracEnd
    <3>2. o + 1 \in Nat
      OBVIOUS
    <3>3. DigitsEnd(o + 1) \in (o + 1 + 1)..Len(input) /\ DigitsFill(o + 1, DigitsEnd(o + 1))
      BY <2>4, <3>2, DigitsEndFills
    <3>4. DigitsEnd(o + 1) \in o..Len(input)
      BY <2>1, <3>3
    <3> QED
      BY <1>2, <2>3, <3>1, <3>3, <3>4 DEF FracFills
  <2>5. CASE Byte(o + 1) \notin Digits
    BY <1>2, <2>3, <2>5 DEF FracEnd
  <2> QED
    BY <2>4, <2>5
<1> QED
  BY <1>1, <1>2

\* So does an exponent.
LEMMA ExpStops ==
  ASSUME input \in Seq(Bytes), NEW o \in 0..Len(input)
  PROVE  /\ ExpEnd(o) # None => ExpFills(o, ExpEnd(o)) /\ ExpEnd(o) \in o..Len(input)
         /\ \A b \in 0..Len(input) : ExpFills(o, b) => b = ExpEnd(o) \/ Byte(b) \in Digits \cup Exponents
<1>1. CASE Byte(o) \notin Exponents
  BY <1>1 DEF ExpEnd, ExpFills
<1>2. CASE Byte(o) \in Exponents
  <2> DEFINE f == ExpBegin(o)
  <2>1. f \in Nat /\ f > o
    BY DEF ExpBegin
  <2>2. ExpEnd(o) = IF Byte(f) \in Digits THEN DigitsEnd(f) ELSE None
    BY <1>2 DEF ExpEnd, ExpBegin
  <2>3. \A b : ExpFills(o, b) => b = o \/ DigitsFill(f, b)
    BY DEF ExpFills
  <2>4. \A b : DigitsFill(f, b) => ExpFills(o, b)
    BY <1>2 DEF ExpFills
  <2> HIDE DEF f
  <2>5. \A b \in 0..Len(input) : DigitsFill(f, b) => Byte(f) \in Digits /\ (b = DigitsEnd(f) \/ Byte(b) \in Digits)
    <3> TAKE b \in 0..Len(input)
    <3> HAVE DigitsFill(f, b)
    <3>1. f \in 0..Len(input)
      BY <2>1 DEF DigitsFill
    <3> QED
      BY <3>1, DigitsStop
  <2>6. \A b \in 0..Len(input) : ExpFills(o, b) => b = ExpEnd(o) \/ Byte(b) \in Digits \cup Exponents
    BY <1>2, <2>2, <2>3, <2>5
  <2>7. CASE Byte(f) \in Digits
    <3>1. DigitsEnd(f) \in (f + 1)..Len(input) /\ DigitsFill(f, DigitsEnd(f))
      BY <2>1, <2>7, DigitsEndFills
    <3>2. DigitsEnd(f) \in o..Len(input)
      BY <2>1, <3>1
    <3> QED
      BY <2>2, <2>4, <2>6, <2>7, <3>1, <3>2
  <2>8. CASE Byte(f) \notin Digits
    BY <2>2, <2>6, <2>8
  <2> QED
    BY <2>7, <2>8
<1> QED
  BY <1>1, <1>2

\* What the tokeniser reads is a number, and what else is one goes on in a way in
\* which nothing begins but a number.
LEMMA NumberStops ==
  ASSUME input \in Seq(Bytes), NEW o \in 0..Len(input)
  PROVE  /\ NumberEnd(o) # None => NumberFills(o, NumberEnd(o)) /\ NumberEnd(o) \in (o + 1)..Len(input)
         /\ \A e \in o..Len(input) : NumberFills(o, e) =>
              e = NumberEnd(o) \/ Byte(e) \in Digits \cup {Dot} \cup Exponents
<1> DEFINE p == IntBegin(o)
<1>1. p \in Nat /\ p >= o /\ Len(input) \in Nat
  BY DEF IntBegin
<1>2. /\ NumberEnd(o) # None => IntEnd(p) # None /\ FracEnd(IntEnd(p)) # None
      /\ IntEnd(p) # None /\ FracEnd(IntEnd(p)) # None => NumberEnd(o) = ExpEnd(FracEnd(IntEnd(p)))
  BY DEF NumberEnd, IntBegin
<1> HIDE DEF p
<1>3. /\ IntEnd(p) # None => IntFills(p, IntEnd(p)) /\ IntEnd(p) \in (p + 1)..Len(input)
      /\ \A b \in 0..Len(input) : IntFills(p, b) => b = IntEnd(p) \/ Byte(b) \in Digits
  BY <1>1, IntStops
<1>4. ASSUME NumberEnd(o) # None
      PROVE  NumberFills(o, NumberEnd(o)) /\ NumberEnd(o) \in (o + 1)..Len(input)
  <2> DEFINE b == IntEnd(p)
             c == FracEnd(b)
             e == ExpEnd(c)
  <2>1. b # None /\ c # None /\ NumberEnd(o) = e /\ e # None
    BY <1>2, <1>4
  <2>2. IntFills(p, b) /\ b \in (p + 1)..Len(input)
    BY <1>3, <2>1
  <2> HIDE DEF b
  <2>3. b \in 0..Len(input)
    BY <1>1, <2>2
  <2>4. FracFills(b, c) /\ c \in b..Len(input)
    BY <2>1, <2>3, FracStops
  <2> HIDE DEF c
  <2>5. c \in 0..Len(input)
    BY <2>3, <2>4
  <2>6. ExpFills(c, e) /\ e \in c..Len(input)
    BY <2>1, <2>5, ExpStops
  <2> HIDE DEF e
  <2>7. b \in o..e /\ c \in o..e /\ e \in (o + 1)..Len(input)
    BY <1>1, <2>2, <2>4, <2>6
  <2> QED
    BY <2>1, <2>2, <2>4, <2>6, <2>7 DEF NumberFills, p
<1>5. ASSUME NEW e \in o..Len(input), NumberFills(o, e)
      PROVE  e = NumberEnd(o) \/ Byte(e) \in Digits \cup {Dot} \cup Exponents
  <2>1. PICK b \in o..e, c \in o..e : IntFills(p, b) /\ FracFills(b, c) /\ ExpFills(c, e)
    BY <1>5 DEF NumberFills, p
  <2>2. b \in 0..Len(input) /\ c \in 0..Len(input) /\ e \in 0..Len(input)
    BY <1>1
  <2>3. Dot \notin Digits \cup Exponents /\ Digits \cap Exponents = {} /\ None \notin 0..Len(input)
    BY DEF Dot, Digits, Exponents, None
  <2>4. CASE Byte(b) \in Digits
    <3>1. c = b
      BY <2>1, <2>3, <2>4 DEF FracFills
    <3>2. e = c
      BY <2>1, <2>3, <2>4, <3>1 DEF ExpFills
    <3> QED
      BY <2>4, <3>1, <3>2
  <2>5. CASE b = IntEnd(p)
    <3>1. c = FracEnd(b) \/ Byte(c) \in Digits \cup {Dot}
      BY <2>1, <2>2, FracStops
    <3>2. CASE Byte(c) \in Digits \cup {Dot}
      <4>1. e = c
        BY <2>1, <2>3, <3>2 DEF ExpFills
      <4> QED
        BY <3>2, <4>1
    <3>3. CASE c = FracEnd(b)
      <4>1. NumberEnd(o) = ExpEnd(c)
        BY <1>2, <2>2, <2>3, <2>5, <3>3
      <4>2. e = ExpEnd(c) \/ Byte(e) \in Digits \cup Exponents
        BY <2>1, <2>2, ExpStops
      <4> QED
        BY <4>1, <4>2
    <3> QED
      BY <3>1, <3>2, <3>3
  <2> QED
    BY <1>3, <2>1, <2>2, <2>4, <2>5
<1> QED
  BY <1>4, <1>5

\* A number begins with a digit or a minus sign.
LEMMA NumberBegins ==
  ASSUME input \in Seq(Bytes), NEW o \in 0..Len(input), NEW e \in o..Len(input), IsNumber(Slice(o, e))
  PROVE  Byte(o) \in Digits \cup {Minus}
<1>1. PICK b : DigitsFill(IntBegin(o), b) /\ b \in o..e
  BY IsNumberIs DEF NumberFills, IntFills
<1>2. CASE Byte(o) # Minus
  <2>1. IntBegin(o) = o
    BY <1>2 DEF IntBegin
  <2>2. o \in o..(b - 1)
    BY <1>1, <2>1 DEF DigitsFill
  <2> QED
    BY <1>1, <2>1, <2>2 DEF DigitsFill
<1> QED
  BY <1>2

-----------------------------------------------------------------------------
(* Tokens, by their first byte *)

\* The tokens of each kind that a text can be.
SignsOf(s) == {[kind |-> Punctuation[b], text |-> <<>>] : b \in {b \in DOMAIN Punctuation : s = <<b>>}}
WordsOf(s) == {[kind |-> w.kind, text |-> <<>>] : w \in {w \in Literals : s = w.text}}
NumbersOf(s) == IF IsNumber(s) /\ Double(s) # <<>> THEN {[kind |-> "number", text |-> Double(s)]} ELSE {}
StringsOf(s) ==
  IF Len(s) >= 2 /\ Head(s) = Quote /\ Last(s) = Quote
  THEN {[kind |-> "string", text |-> t] : t \in CharsOf(SubSeq(s, 2, Len(s) - 1))} ELSE {}

\* The tokens are those of the four kinds.
LEMMA TokensOfIs ==
  ASSUME NEW s
  PROVE  TokensOf(s) = SignsOf(s) \cup WordsOf(s) \cup NumbersOf(s) \cup StringsOf(s)
BY DEF TokensOf, SignsOf, WordsOf, NumbersOf, StringsOf

SignBytes == {123, 125, 91, 93, 58, 44}
WordBytes == {116, 102, 110}

\* The first bytes of the kinds of tokens differ: of a sign,
LEMMA SignClass ==
  ASSUME NEW b \in SignBytes
  PROVE  b \notin WordBytes /\ b \notin Digits \cup {Minus} /\ b # Quote /\ b \notin Whitespace
<1>1. b = 123 \/ b = 125 \/ b = 91 \/ b = 93 \/ b = 58 \/ b = 44
  BY DEF SignBytes
<1>2. b \notin WordBytes
  BY <1>1 DEF WordBytes
<1>3. b \notin Digits
  BY <1>1 DEF Digits
<1>4. b # Minus /\ b # Quote
  BY <1>1 DEF Minus, Quote
<1>5. b \notin Whitespace
  BY <1>1 DEF Whitespace
<1> QED
  BY <1>2, <1>3, <1>4, <1>5

\* of a word,
LEMMA WordClass ==
  ASSUME NEW b \in WordBytes
  PROVE  b \notin SignBytes /\ b \notin Digits \cup {Minus} /\ b # Quote /\ b \notin Whitespace
<1>1. b = 116 \/ b = 102 \/ b = 110
  BY DEF WordBytes
<1>2. b \notin Digits
  BY <1>1 DEF Digits
<1>3. b # Minus /\ b # Quote /\ b \notin Whitespace
  BY <1>1 DEF Minus, Quote, Whitespace
<1> QED
  BY <1>2, <1>3, SignClass

\* of a number,
LEMMA NumberClass ==
  ASSUME NEW b \in Digits \cup {Minus}
  PROVE  b \notin SignBytes /\ b \notin WordBytes /\ b # Quote /\ b \notin Whitespace
<1>1. b \in 48..57 \/ b = 45
  BY DEF Digits, Minus
<1>2. b # Quote /\ b \notin Whitespace
  BY <1>1 DEF Quote, Whitespace
<1> QED
  BY <1>2, SignClass, WordClass

\* and white space begins none of them.
LEMMA BlankClass ==
  ASSUME NEW b \in Whitespace
  PROVE  b \notin SignBytes /\ b \notin WordBytes /\ b \notin Digits \cup {Minus} /\ b # Quote
<1>1. b = 9 \/ b = 10 \/ b = 13 \/ b = 32
  BY DEF Whitespace
<1>2. b # Quote
  BY <1>1 DEF Quote
<1> QED
  BY <1>2, SignClass, WordClass, NumberClass

\* Nor does what may follow the first digits of a number.
LEMMA InNumberClass ==
  ASSUME NEW b \in {Dot} \cup Exponents
  PROVE  b \notin SignBytes \cup WordBytes \cup Digits \cup {Minus, Quote} \cup Whitespace
<1>1. b = 46 \/ b = 69 \/ b = 101
  BY DEF Dot, Exponents
<1>2. b \notin SignBytes /\ b \notin WordBytes
  BY <1>1 DEF SignBytes, WordBytes
<1>3. b \notin Digits
  BY <1>1 DEF Digits
<1>4. b # Minus /\ b # Quote /\ b \notin Whitespace
  BY <1>1 DEF Minus, Quote, Whitespace
<1> QED
  BY <1>2, <1>3, <1>4

\* The signs that Structural reads.
LEMMA PunctuationBytes == DOMAIN Punctuation = SignBytes
BY DEF Punctuation, SignBytes

\* The words, by their first byte.
LEMMA LiteralsAre ==
  ASSUME NEW w \in Literals
  PROVE  /\ w.text \in Seq(Bytes) /\ Len(w.text) \in {4, 5}
         /\ Head(w.text) = w.text[1] /\ w.text[1] \in WordBytes
         /\ \A i \in 1..Len(w.text) : w.text[i] \in 97..122
         /\ \A v \in Literals : v.text[1] = w.text[1] => v = w
<1>1. \/ w = [kind |-> "true", text |-> <<116, 114, 117, 101>>]
      \/ w = [kind |-> "false", text |-> <<102, 97, 108, 115, 101>>]
      \/ w = [kind |-> "null", text |-> <<110, 117, 108, 108>>]
  BY DEF Literals
<1>2. \A v \in Literals : \/ v = [kind |-> "true", text |-> <<116, 114, 117, 101>>]
                          \/ v = [kind |-> "false", text |-> <<102, 97, 108, 115, 101>>]
                          \/ v = [kind |-> "null", text |-> <<110, 117, 108, 108>>]
  BY DEF Literals
<1>3. CASE w = [kind |-> "true", text |-> <<116, 114, 117, 101>>]
  <2>1. /\ <<116, 114, 117, 101>> \in Seq(Bytes) /\ Len(<<116, 114, 117, 101>>) = 4
        /\ \A i \in 1..4 : <<116, 114, 117, 101>>[i] \in 97..122
        /\ Head(<<116, 114, 117, 101>>) = 116
    BY DEF Bytes
  <2> QED
    BY <1>2, <1>3, <2>1 DEF WordBytes
<1>4. CASE w = [kind |-> "false", text |-> <<102, 97, 108, 115, 101>>]
  <2>1. /\ <<102, 97, 108, 115, 101>> \in Seq(Bytes) /\ Len(<<102, 97, 108, 115, 101>>) = 5
        /\ \A i \in 1..5 : <<102, 97, 108, 115, 101>>[i] \in 97..122
        /\ Head(<<102, 97, 108, 115, 101>>) = 102
    BY DEF Bytes
  <2> QED
    BY <1>2, <1>4, <2>1 DEF WordBytes
<1>5. CASE w = [kind |-> "null", text |-> <<110, 117, 108, 108>>]
  <2>1. /\ <<110, 117, 108, 108>> \in Seq(Bytes) /\ Len(<<110, 117, 108, 108>>) = 4
        /\ \A i \in 1..4 : <<110, 117, 108, 108>>[i] \in 97..122
        /\ Head(<<110, 117, 108, 108>>) = 110
    BY DEF Bytes
  <2> QED
    BY <1>2, <1>5, <2>1 DEF WordBytes
<1> QED
  BY <1>1, <1>3, <1>4, <1>5

\* What the first byte rules out.
LEMMA FirstByteDecides ==
  ASSUME input \in Seq(Bytes), NEW o \in 0..(Len(input) - 1), NEW e \in (o + 1)..Len(input)
  PROVE  /\ Slice(o, e) = SubSeq(input, o + 1, e) /\ Slice(o, e) \in Seq(Bytes)
         /\ Len(Slice(o, e)) = e - o /\ Slice(o, e)[1] = Byte(o) /\ Head(Slice(o, e)) = Byte(o)
         /\ Byte(o) \notin SignBytes => SignsOf(Slice(o, e)) = {}
         /\ Byte(o) \notin WordBytes => WordsOf(Slice(o, e)) = {}
         /\ Byte(o) \notin Digits \cup {Minus} => NumbersOf(Slice(o, e)) = {} /\ ~IsNumber(Slice(o, e))
         /\ Byte(o) # Quote => StringsOf(Slice(o, e)) = {}
<1> DEFINE s == Slice(o, e)
<1>1. o \in 0..Len(input) /\ e \in o..Len(input) /\ 1 \in 1..(e - o) /\ o + 1 - 1 = o
  OBVIOUS
<1>2. s = SubSeq(input, o + 1, e) /\ s \in Seq(Bytes) /\ Len(s) = e - o /\ s[1] = Byte(o)
  <2>1. s[1] = Byte(o + 1 - 1)
    BY <1>1, SliceIs
  <2> QED
    BY <1>1, <2>1, SliceIs
<1>3. IsNumber(s) => Byte(o) \in Digits \cup {Minus}
  BY <1>1, NumberBegins
<1> HIDE DEF s
<1>4. Head(s) = Byte(o)
  BY <1>2
<1>5. SignsOf(s) # {} => Byte(o) \in SignBytes
  <2> SUFFICES ASSUME SignsOf(s) # {}
               PROVE  Byte(o) \in SignBytes
    OBVIOUS
  <2>1. PICK b \in SignBytes : s = <<b>>
    BY PunctuationBytes DEF SignsOf
  <2>2. s[1] = b
    BY <2>1
  <2> QED
    BY <1>2, <2>1, <2>2
<1>6. WordsOf(s) # {} => Byte(o) \in WordBytes
  BY <1>2, LiteralsAre DEF WordsOf
<1>7. StringsOf(s) # {} => Byte(o) = Quote
  BY <1>4 DEF StringsOf
<1> QED
  BY <1>2, <1>3, <1>4, <1>5, <1>6, <1>7 DEF s, NumbersOf

\* From o to e there is this token and no other, and whatever can be cut from o
\* on can be cut from e on.
ReadsTo(o, e, t) ==
  /\ TokensOf(Slice(o, e)) = {t}
  /\ CanBeCut(o) => CanBeCut(e)

\* If no token begins at o but to e, that is all there is.
LEMMA CutOnlyAt ==
  ASSUME input \in Seq(Bytes), NEW o \in 0..(Len(input) - 1), NEW E,
         \A e \in (o + 1)..Len(input) : TokensOf(Slice(o, e)) # {} /\ IsPiece(input, o + 1, e) /\ CanBeCut(e) => e \in E,
         Byte(o) \notin Whitespace, CanBeCut(o)
  PROVE  \E e \in E : CanBeCut(e)
<1>1. Byte(o) = input[o + 1]
  BY DEF Byte
<1>2. PICK e \in (o + 1)..Len(input) : IsPiece(input, o + 1, e) /\ CanBeCut(e)
  BY <1>1, CutGoesOn
<1>3. TokensOf(Slice(o, e)) # {}
  <2>1. Slice(o, e) = SubSeq(input, o + 1, e)
    BY FirstByteDecides
  <2> QED
    BY <1>2, <2>1 DEF IsPiece
<1> QED
  BY <1>2, <1>3

\* White space can only be skipped.
LEMMA BlankReads ==
  ASSUME input \in Seq(Bytes), NEW o \in 0..(Len(input) - 1), Byte(o) \in Whitespace, CanBeCut(o)
  PROVE  CanBeCut(o + 1)
<1>1. \/ CanBeCut(o + 1)
      \/ \E e \in (o + 1)..Len(input) : IsPiece(input, o + 1, e) /\ CanBeCut(e)
  BY CutGoesOn
<1>2. \A e \in (o + 1)..Len(input) : TokensOf(SubSeq(input, o + 1, e)) = {}
  <2> TAKE e \in (o + 1)..Len(input)
  <2>1. /\ Byte(o) \notin SignBytes /\ Byte(o) \notin WordBytes /\ Byte(o) \notin Digits \cup {Minus} /\ Byte(o) # Quote
    BY BlankClass
  <2> QED
    BY <2>1, FirstByteDecides, TokensOfIs
<1> QED
  BY <1>1, <1>2 DEF IsPiece

\* A sign is a token of one byte.
LEMMA SignReads ==
  ASSUME input \in Seq(Bytes), NEW o \in 0..(Len(input) - 1), Byte(o) \in DOMAIN Punctuation
  PROVE  ReadsTo(o, o + 1, [kind |-> Punctuation[Byte(o)], text |-> <<>>])
<1>1. Byte(o) \in SignBytes
  BY PunctuationBytes
<1>2. /\ Byte(o) \notin WordBytes /\ Byte(o) \notin Digits \cup {Minus} /\ Byte(o) # Quote /\ Byte(o) \notin Whitespace
  BY <1>1, SignClass
<1>3. \A e \in (o + 1)..Len(input) : TokensOf(Slice(o, e)) = SignsOf(Slice(o, e))
  BY <1>2, FirstByteDecides, TokensOfIs
<1>4. \A e \in (o + 1)..Len(input) : SignsOf(Slice(o, e)) # {} => e = o + 1
  <2> TAKE e \in (o + 1)..Len(input)
  <2> HAVE SignsOf(Slice(o, e)) # {}
  <2>1. PICK b : Slice(o, e) = <<b>>
    BY DEF SignsOf
  <2>2. Len(<<b>>) = 1
    OBVIOUS
  <2>3. 1 = e - o
    BY <2>1, <2>2, FirstByteDecides
  <2> QED
    BY <2>3
<1>5. TokensOf(Slice(o, o + 1)) = {[kind |-> Punctuation[Byte(o)], text |-> <<>>]}
  <2>1. o + 1 \in (o + 1)..Len(input) /\ o + 1 - o = 1
    OBVIOUS
  <2>2. Slice(o, o + 1) \in Seq(Bytes) /\ Len(Slice(o, o + 1)) = 1 /\ Slice(o, o + 1)[1] = Byte(o)
    <3>1. PICK e \in (o + 1)..Len(input) : e = o + 1
      BY <2>1
    <3>2. Slice(o, e) \in Seq(Bytes) /\ Len(Slice(o, e)) = e - o /\ Slice(o, e)[1] = Byte(o)
      BY FirstByteDecides
    <3> QED
      BY <2>1, <3>1, <3>2
  <2>3. Slice(o, o + 1) = <<Byte(o)>>
    BY <2>2
  <2>4. SignsOf(<<Byte(o)>>) = {[kind |-> Punctuation[Byte(o)], text |-> <<>>]}
    <3>1. {b \in DOMAIN Punctuation : <<Byte(o)>> = <<b>>} = {Byte(o)}
      OBVIOUS
    <3> QED
      BY <3>1 DEF SignsOf
  <2> QED
    BY <1>3, <2>1, <2>3, <2>4
<1>6. CanBeCut(o) => CanBeCut(o + 1)
  <2> DEFINE E == {o + 1}
  <2>1. \A e \in (o + 1)..Len(input) : TokensOf(Slice(o, e)) # {} => e \in E
    BY <1>3, <1>4
  <2>2. CanBeCut(o) => \E e \in E : CanBeCut(e)
    <3> HIDE DEF E
    <3> QED
      BY <1>2, <2>1, CutOnlyAt
  <2> QED
    BY <2>2
<1> QED
  BY <1>5, <1>6 DEF ReadsTo

\* A word is a token that another word does not begin like.
LEMMA WordReads ==
  ASSUME input \in Seq(Bytes), NEW o \in 0..(Len(input) - 1), NEW w \in Literals, Byte(o) = Head(w.text)
  PROVE  IF Slice(o, o + Len(w.text)) = w.text
         THEN o + Len(w.text) <= Len(input) /\ ReadsTo(o, o + Len(w.text), [kind |-> w.kind, text |-> <<>>])
         ELSE ~CanBeCut(o)
<1> DEFINE n == Len(w.text)
<1>1. /\ w.text \in Seq(Bytes) /\ n \in {4, 5} /\ Byte(o) = w.text[1] /\ Byte(o) \in WordBytes
      /\ \A v \in Literals : v.text[1] = w.text[1] => v = w
  BY LiteralsAre
<1>2. /\ Byte(o) \notin SignBytes /\ Byte(o) \notin Digits \cup {Minus} /\ Byte(o) # Quote /\ Byte(o) \notin Whitespace
  BY <1>1, WordClass
<1>3. \A e \in (o + 1)..Len(input) : TokensOf(Slice(o, e)) = WordsOf(Slice(o, e))
  BY <1>2, FirstByteDecides, TokensOfIs
<1> HIDE DEF n
<1>4. \A e \in (o + 1)..Len(input) : WordsOf(Slice(o, e)) # {} => Slice(o, e) = w.text /\ e = o + n
  <2> TAKE e \in (o + 1)..Len(input)
  <2> HAVE WordsOf(Slice(o, e)) # {}
  <2>1. PICK v \in Literals : Slice(o, e) = v.text
    BY DEF WordsOf
  <2>2. Slice(o, e)[1] = Byte(o) /\ Len(Slice(o, e)) = e - o
    BY FirstByteDecides
  <2>3. v = w
    BY <1>1, <2>1, <2>2
  <2>4. e - o = n
    BY <2>1, <2>2, <2>3 DEF n
  <2> QED
    BY <1>1, <2>1, <2>3, <2>4
<1>5. CASE Slice(o, o + n) = w.text
  <2>1. o + n <= Len(input)
    <3>1. o \in 0..Len(input) /\ n \in Nat \ {0}
      BY <1>1
    <3>2. Len(Slice(o, o + n)) = n
      BY <1>5 DEF n
    <3> QED
      BY <3>1, <3>2, SliceIsThere
  <2>2. o + n \in (o + 1)..Len(input)
    BY <1>1, <2>1
  <2>3. WordsOf(w.text) = {[kind |-> w.kind, text |-> <<>>]}
    <3>1. {v \in Literals : w.text = v.text} = {w}
      BY <1>1
    <3> QED
      BY <3>1 DEF WordsOf
  <2>4. TokensOf(Slice(o, o + n)) = {[kind |-> w.kind, text |-> <<>>]}
    BY <1>3, <1>5, <2>2, <2>3
  <2>5. CanBeCut(o) => CanBeCut(o + n)
    <3> DEFINE E == {o + n}
    <3>1. \A e \in (o + 1)..Len(input) : TokensOf(Slice(o, e)) # {} => e \in E
      BY <1>3, <1>4
    <3>2. CanBeCut(o) => \E e \in E : CanBeCut(e)
      <4> HIDE DEF E
      <4> QED
        BY <1>2, <3>1, CutOnlyAt
    <3> QED
      BY <3>2
  <2> QED
    BY <1>5, <2>1, <2>4, <2>5 DEF ReadsTo, n
<1>6. CASE Slice(o, o + n) # w.text
  <2>1. \A e \in (o + 1)..Len(input) : TokensOf(Slice(o, e)) # {} => e \in {}
    BY <1>3, <1>4, <1>6
  <2>2. ~CanBeCut(o)
    BY <1>2, <2>1, CutOnlyAt
  <2> QED
    BY <1>6, <2>2 DEF n
<1> QED
  BY <1>5, <1>6

\* Nothing begins with any other byte.
LEMMA NothingReads ==
  ASSUME input \in Seq(Bytes), NEW o \in 0..(Len(input) - 1),
         Byte(o) \notin SignBytes \cup WordBytes \cup Digits \cup {Minus, Quote} \cup Whitespace
  PROVE  ~CanBeCut(o)
<1>1. \A e \in (o + 1)..Len(input) : TokensOf(Slice(o, e)) = {}
  BY FirstByteDecides, TokensOfIs
<1>2. \A e \in (o + 1)..Len(input) : TokensOf(Slice(o, e)) # {} => e \in {}
  BY <1>1
<1> QED
  BY <1>2, CutOnlyAt

\* A number is a token to where it stops, and there is no other way to cut it.
LEMMA NumberReads ==
  ASSUME input \in Seq(Bytes), NEW o \in 0..(Len(input) - 1), Byte(o) \in Digits \cup {Minus}
  PROVE  LET end == NumberEnd(o)
             value == Double(Slice(o, end))
         IN IF end # None /\ value # <<>>
            THEN end \in (o + 1)..Len(input) /\ ReadsTo(o, end, [kind |-> "number", text |-> value])
            ELSE ~CanBeCut(o)
<1> DEFINE end == NumberEnd(o)
           value == Double(Slice(o, end))
<1>1. /\ end # None => NumberFills(o, end) /\ end \in (o + 1)..Len(input)
      /\ \A e \in o..Len(input) : NumberFills(o, e) => e = end \/ Byte(e) \in Digits \cup {Dot} \cup Exponents
  BY NumberStops
<1>2. /\ Byte(o) \notin SignBytes /\ Byte(o) \notin WordBytes /\ Byte(o) # Quote /\ Byte(o) \notin Whitespace
  BY NumberClass
<1>3. \A e \in (o + 1)..Len(input) : TokensOf(Slice(o, e)) = NumbersOf(Slice(o, e))
  BY <1>2, FirstByteDecides, TokensOfIs
<1>4. \A e \in (o + 1)..Len(input) : IsNumber(Slice(o, e)) <=> NumberFills(o, e)
  BY IsNumberIs
<1> HIDE DEF end
<1>5. ASSUME NEW e \in (o + 1)..Len(input), TokensOf(Slice(o, e)) # {}, IsPiece(input, o + 1, e), CanBeCut(e)
      PROVE  e = end /\ value # <<>>
  <2>1. IsNumber(Slice(o, e)) /\ Double(Slice(o, e)) # <<>>
    BY <1>3, <1>5 DEF NumbersOf
  <2>2. e = end \/ Byte(e) \in Digits \cup {Dot} \cup Exponents
    BY <1>1, <1>4, <2>1
  <2>3. ASSUME Byte(e) \in Digits \cup {Dot} \cup Exponents
        PROVE  FALSE
    <3>1. e < Len(input)
      <4>1. Byte(e) # None /\ e \in Nat
        BY <2>3 DEF Digits, Dot, Exponents, None
      <4> QED
        BY <4>1, ByteIsThere
    <3>2. Byte(e) = input[e + 1] /\ e \in 0..(Len(input) - 1)
      BY <3>1 DEF Byte
    <3>3. input[e + 1] \notin Digits \cup {Minus}
      BY <1>5, <2>1, <3>1, FirstByteDecides DEF IsPiece
    <3>4. Byte(e) \notin SignBytes \cup WordBytes \cup Digits \cup {Minus, Quote} \cup Whitespace
      <4>1. Byte(e) \in {Dot} \cup Exponents
        BY <2>3, <3>2, <3>3
      <4> QED
        BY <4>1, InNumberClass
    <3> QED
      BY <1>5, <3>2, <3>4, NothingReads
  <2> QED
    BY <2>1, <2>2, <2>3
<1>6. CASE end # None /\ value # <<>>
  <2>1. end \in (o + 1)..Len(input) /\ IsNumber(Slice(o, end))
    BY <1>1, <1>4, <1>6
  <2>2. TokensOf(Slice(o, end)) = {[kind |-> "number", text |-> value]}
    BY <1>3, <1>6, <2>1 DEF NumbersOf
  <2>3. CanBeCut(o) => CanBeCut(end)
    <3> DEFINE E == {end}
    <3>1. \A e \in (o + 1)..Len(input) :
            TokensOf(Slice(o, e)) # {} /\ IsPiece(input, o + 1, e) /\ CanBeCut(e) => e \in E
      BY <1>5
    <3>2. CanBeCut(o) => \E e \in E : CanBeCut(e)
      <4> HIDE DEF E
      <4> QED
        BY <1>2, <3>1, CutOnlyAt
    <3> QED
      BY <3>2
  <2> QED
    BY <1>6, <2>1, <2>2, <2>3 DEF ReadsTo, end
<1>7. CASE ~(end # None /\ value # <<>>)
  <2>1. \A e \in (o + 1)..Len(input) :
          TokensOf(Slice(o, e)) # {} /\ IsPiece(input, o + 1, e) /\ CanBeCut(e) => e \in {}
    BY <1>5, <1>7 DEF None
  <2>2. ~CanBeCut(o)
    BY <1>2, <2>1, CutOnlyAt
  <2> QED
    BY <1>7, <2>2 DEF end
<1> QED
  BY <1>6, <1>7

-----------------------------------------------------------------------------
(* What is between the quotes *)

\* What s denotes up to e, if f knows that of the places before.
Joined(T, C) == {text \o c : text \in T, c \in C}
CharsJoined(s, f, e, n) == Joined(f[e - n], CharOf(SubSeq(s, e - n + 1, e)))
CharsBefore(s, f, e) ==
  IF e = 0 THEN {<<>>} ELSE UNION {CharsJoined(s, f, e, n) : n \in CharsEndingAt(s, e)}
CharsUpTo(s) == CHOOSE f : f = [e \in 0..Len(s) |-> CharsBefore(s, f, e)]

\* The texts of Joined.
LEMMA JoinedIs ==
  ASSUME NEW T, NEW C
  PROVE  \A x : x \in Joined(T, C) <=> \E text \in T : \E c \in C : x = text \o c
BY DEF Joined

SameBelow(f, g, e) == \A k \in 0..(e - 1) : f[k] = g[k]
SameBefore(s, t, e) == \A k \in 1..e : SubSeq(s, k, e) = SubSeq(t, k, e)

\* What is not known yet does not matter, nor what comes later in the text.
LEMMA CharsBeforeSame ==
  ASSUME NEW s, NEW t, NEW e \in Nat, NEW f, NEW g,
         SameBelow(f, g, e), SameBefore(s, t, e)
  PROVE  CharsBefore(s, f, e) = CharsBefore(t, g, e)
<1>1. CASE e = 0
  BY <1>1 DEF CharsBefore
<1>2. CASE e # 0
  <2> DEFINE S == {1, 2, 3, 4, 6, 12}
  <2>1. \A n \in S : n <= e => e - n \in 0..(e - 1) /\ e - n + 1 \in 1..e
    OBVIOUS
  <2>2. CharsEndingAt(s, e) = CharsEndingAt(t, e)
    BY <2>1 DEF CharsEndingAt, SameBefore
  <2>3. \A n \in CharsEndingAt(s, e) : n \in S /\ n <= e
    BY DEF CharsEndingAt
  <2> HIDE DEF S
  <2>4. \A n \in CharsEndingAt(s, e) : f[e - n] = g[e - n] /\ SubSeq(s, e - n + 1, e) = SubSeq(t, e - n + 1, e)
    BY <2>1, <2>3 DEF SameBelow, SameBefore
  <2>5. \A n \in CharsEndingAt(s, e) : CharsJoined(s, f, e, n) = CharsJoined(t, g, e, n)
    <3> TAKE n \in CharsEndingAt(s, e)
    <3>1. f[e - n] = g[e - n] /\ SubSeq(s, e - n + 1, e) = SubSeq(t, e - n + 1, e)
      BY <2>4
    <3> QED
      BY <3>1 DEF CharsJoined
  <2>6. {CharsJoined(s, f, e, n) : n \in CharsEndingAt(s, e)} = {CharsJoined(t, g, e, n) : n \in CharsEndingAt(t, e)}
    BY <2>2, <2>5
  <2> QED
    BY <1>2, <2>6 DEF CharsBefore
<1> QED
  BY <1>1, <1>2

\* There is such a function, found from the beginning of s on.
LEMMA CharsUpToIs ==
  ASSUME NEW s \in Seq(Bytes)
  PROVE  /\ CharsOf(s) = CharsUpTo(s)[Len(s)]
         /\ \A e \in 0..Len(s) : CharsUpTo(s)[e] = CharsBefore(s, CharsUpTo(s), e)
<1> DEFINE L == Len(s)
           Knows(g, n) == \A e \in 0..n : g[e] = CharsBefore(s, g, e)
           A == {n \in Nat : \E g : Knows(g, n)}
<1>1. L \in Nat
  OBVIOUS
<1>2. 0 \in A
  <2>1. Knows([e \in {0} |-> {<<>>}], 0)
    <3>1. 0..0 = {0}
      OBVIOUS
    <3> QED
      BY <3>1 DEF CharsBefore
  <2> QED
    BY <2>1
<1>3. ASSUME NEW n \in Nat, n \in A
      PROVE  n + 1 \in A
  <2>1. PICK g : Knows(g, n)
    BY <1>3
  <2> DEFINE h == [e \in 0..(n + 1) |-> IF e = n + 1 THEN CharsBefore(s, g, n + 1) ELSE g[e]]
  <2>2. \A e \in 0..(n + 1) : CharsBefore(s, h, e) = CharsBefore(s, g, e)
    <3> TAKE e \in 0..(n + 1)
    <3>1. SameBelow(h, g, e) /\ SameBefore(s, s, e)
      BY DEF SameBelow, SameBefore
    <3>2. e \in Nat
      OBVIOUS
    <3> HIDE DEF h
    <3> QED
      BY <3>1, <3>2, CharsBeforeSame
  <2>3. \A e \in 0..(n + 1) : h[e] = CharsBefore(s, g, e)
    <3> TAKE e \in 0..(n + 1)
    <3>1. CASE e = n + 1
      BY <3>1
    <3>2. CASE e # n + 1
      <4>1. e \in 0..n
        BY <3>2
      <4> QED
        BY <2>1, <3>2, <4>1
    <3> QED
      BY <3>1, <3>2
  <2>4. Knows(h, n + 1)
    <3> HIDE DEF h
    <3> QED
      BY <2>2, <2>3
  <2> HIDE DEF h
  <2> QED
    BY <2>4
<1>4. Nat \subseteq A
  <2> HIDE DEF A
  <2> QED
    BY <1>2, <1>3, NatSet
<1>5. PICK g : Knows(g, L)
  BY <1>1, <1>4
<1> DEFINE f == [e \in 0..L |-> g[e]]
<1>6. f = [e \in 0..L |-> CharsBefore(s, f, e)]
  <2>1. \A e \in 0..L : f[e] = CharsBefore(s, g, e)
    BY <1>5
  <2>2. \A e \in 0..L : CharsBefore(s, f, e) = CharsBefore(s, g, e)
    <3> TAKE e \in 0..L
    <3>1. SameBelow(f, g, e) /\ SameBefore(s, s, e)
      BY <1>1 DEF SameBelow, SameBefore
    <3>2. e \in Nat
      BY <1>1
    <3> HIDE DEF f, L
    <3> QED
      BY <3>1, <3>2, CharsBeforeSame
  <2>3. f = [e \in 0..L |-> CharsBefore(s, g, e)]
    BY <2>1
  <2> HIDE DEF f
  <2> QED
    BY <2>2, <2>3
<1> HIDE DEF f
<1>7. CharsUpTo(s) = [e \in 0..L |-> CharsBefore(s, CharsUpTo(s), e)]
  BY <1>6 DEF CharsUpTo
<1>8. CharsUpTo(s)[L] = CharsOf(s)
  BY DEF CharsOf, CharsUpTo, CharsBefore, CharsJoined, Joined
<1> DEFINE F == CharsUpTo(s)
<1> HIDE DEF F
<1>9. F = [e \in 0..L |-> CharsBefore(s, F, e)]
  BY <1>7 DEF F
<1>10. \A e \in 0..L : F[e] = CharsBefore(s, F, e)
  BY <1>9
<1> QED
  BY <1>8, <1>10 DEF F

\* What the text between q and o denotes, if a string begins at q.
Decodings(q, o) == CharsUpTo(Slice(q, Len(input)))[o - q]

\* The rest of the input as a text of its own.
LEMMA RestIs ==
  ASSUME input \in Seq(Bytes), NEW q \in 0..Len(input)
  PROVE  /\ Slice(q, Len(input)) \in Seq(Bytes) /\ Len(Slice(q, Len(input))) = Len(input) - q
         /\ \A i \in 0..(Len(input) - q) : \A j \in i..(Len(input) - q) :
              SubSeq(Slice(q, Len(input)), i + 1, j) = Slice(q + i, q + j)
<1>1. Len(input) \in q..Len(input)
  OBVIOUS
<1> QED
  BY <1>1, SliceIs, SliceOfSlice

\* It is empty where no character ends behind another.
LEMMA DecodingsAre ==
  ASSUME input \in Seq(Bytes), NEW q \in 0..Len(input)
  PROVE  /\ Decodings(q, q) = {<<>>}
         /\ \A o \in (q + 1)..Len(input) : \A text :
              text \in Decodings(q, o) <=>
                \E n \in {1, 2, 3, 4, 6, 12} : \E before \in Decodings(q, o - n) : \E c \in CharOf(Slice(o - n, o)) :
                  n <= o - q /\ text = before \o c
<1> DEFINE R == Slice(q, Len(input))
           F == CharsUpTo(R)
<1>1. R \in Seq(Bytes) /\ Len(R) = Len(input) - q /\ Len(input) \in Nat /\ q \in Nat /\ q <= Len(input)
  BY RestIs
<1>2. \A i \in 0..(Len(input) - q) : \A j \in i..(Len(input) - q) : SubSeq(R, i + 1, j) = Slice(q + i, q + j)
  BY RestIs
<1>3. \A o : Decodings(q, o) = F[o - q]
  BY DEF Decodings
<1> HIDE DEF R
<1>4. \A e \in 0..(Len(input) - q) : F[e] = CharsBefore(R, F, e)
  BY <1>1, CharsUpToIs
<1> HIDE DEF F
<1>5. Decodings(q, q) = {<<>>}
  <2>1. q - q = 0 /\ 0 \in 0..(Len(input) - q)
    BY <1>1
  <2>2. F[0] = {<<>>}
    BY <1>4, <2>1 DEF CharsBefore
  <2> QED
    BY <1>3, <2>1, <2>2
<1>6. ASSUME NEW o \in (q + 1)..Len(input), NEW text
      PROVE  text \in Decodings(q, o) <=>
                \E n \in {1, 2, 3, 4, 6, 12} : \E before \in Decodings(q, o - n) : \E c \in CharOf(Slice(o - n, o)) :
                  n <= o - q /\ text = before \o c
  <2> DEFINE e == o - q
  <2>1. e \in 0..(Len(input) - q) /\ e # 0 /\ e \in Nat
    BY <1>1
  <2>2. F[e] = UNION {CharsJoined(R, F, e, n) : n \in CharsEndingAt(R, e)}
    BY <1>4, <2>1 DEF CharsBefore
  <2>3. \A n \in {1, 2, 3, 4, 6, 12} : n <= e => /\ SubSeq(R, e - n + 1, e) = Slice(o - n, o)
                                                 /\ F[e - n] = Decodings(q, o - n)
    <3> TAKE n \in {1, 2, 3, 4, 6, 12}
    <3> HAVE n <= e
    <3>1. e - n \in 0..(Len(input) - q) /\ e \in (e - n)..(Len(input) - q) /\ q + (e - n) = o - n /\ q + e = o /\ o - n - q = e - n
      BY <1>1, <2>1
    <3>2. SubSeq(R, e - n + 1, e) = Slice(q + (e - n), q + e)
      BY <1>2, <3>1
    <3> HIDE DEF e
    <3> QED
      BY <1>3, <3>1, <3>2
  <2>4. Decodings(q, o) = F[e]
    BY <1>3
  <2>5. text \in F[e] <=> \E n \in CharsEndingAt(R, e) : text \in CharsJoined(R, F, e, n)
    BY <2>2
  <2> HIDE DEF e
  <2>6. \A n \in CharsEndingAt(R, e) : n \in {1, 2, 3, 4, 6, 12} /\ n <= e
    BY DEF CharsEndingAt
  <2>7. ASSUME NEW n \in {1, 2, 3, 4, 6, 12}, n <= e
        PROVE  (n \in CharsEndingAt(R, e) /\ text \in CharsJoined(R, F, e, n)) <=>
                 \E before \in Decodings(q, o - n) : \E c \in CharOf(Slice(o - n, o)) : text = before \o c
    <3>1. SubSeq(R, e - n + 1, e) = Slice(o - n, o) /\ F[e - n] = Decodings(q, o - n)
      BY <2>3, <2>7
    <3>2. n \in CharsEndingAt(R, e) <=> CharOf(Slice(o - n, o)) # {}
      BY <2>7, <3>1 DEF CharsEndingAt
    <3>3. text \in CharsJoined(R, F, e, n) <=>
            \E before \in Decodings(q, o - n) : \E c \in CharOf(Slice(o - n, o)) : text = before \o c
      <4>1. CharsJoined(R, F, e, n) = Joined(Decodings(q, o - n), CharOf(Slice(o - n, o)))
        BY <3>1 DEF CharsJoined
      <4> QED
        BY <4>1, JoinedIs
    <3> QED
      BY <3>2, <3>3
  <2>8. text \in F[e] <=> \E n \in {1, 2, 3, 4, 6, 12} : n <= e /\
          \E before \in Decodings(q, o - n) : \E c \in CharOf(Slice(o - n, o)) : text = before \o c
    BY <2>5, <2>6, <2>7
  <2>9. e = o - q
    BY DEF e
  <2> QED
    BY <2>4, <2>8, <2>9
<1> QED
  BY <1>5, <1>6

\* What follows o does not matter.
LEMMA CharsOfIs ==
  ASSUME input \in Seq(Bytes), NEW q \in 0..Len(input), NEW o \in q..Len(input)
  PROVE  CharsOf(Slice(q, o)) = Decodings(q, o)
<1> DEFINE R == Slice(q, Len(input))
           F == CharsUpTo(R)
           t == Slice(q, o)
           G == CharsUpTo(t)
           m == o - q
<1>1. R \in Seq(Bytes) /\ Len(R) = Len(input) - q /\ m \in Nat /\ m <= Len(input) - q /\ Len(input) - q \in Nat
  BY RestIs
<1>2. t \in Seq(Bytes) /\ Len(t) = m
  BY SliceIs
<1>3. \A e \in 0..m : \A k \in 1..e : SubSeq(t, k, e) = SubSeq(R, k, e)
  <2> TAKE e \in 0..m
  <2> TAKE k \in 1..e
  <2>1. k - 1 \in 0..(o - q) /\ e \in (k - 1)..(o - q) /\ k - 1 + 1 = k
    OBVIOUS
  <2>2. k - 1 \in 0..(Len(input) - q) /\ e \in (k - 1)..(Len(input) - q)
    OBVIOUS
  <2>3. SubSeq(t, k - 1 + 1, e) = Slice(q + (k - 1), q + e)
    BY <2>1, SliceOfSlice
  <2>4. SubSeq(R, k - 1 + 1, e) = Slice(q + (k - 1), q + e)
    BY <2>2, RestIs
  <2> HIDE DEF t, R
  <2> QED
    BY <2>1, <2>3, <2>4
<1>4. Decodings(q, o) = F[m]
  BY DEF Decodings
<1> HIDE DEF R, t, m
<1>5. \A e \in 0..m : F[e] = CharsBefore(R, F, e)
  <2>1. \A e \in 0..m : e \in 0..Len(R)
    BY <1>1
  <2> QED
    BY <1>1, <2>1, CharsUpToIs
<1>6. CharsOf(t) = G[m] /\ \A e \in 0..m : G[e] = CharsBefore(t, G, e)
  BY <1>2, CharsUpToIs
<1> HIDE DEF F, G
<1> DEFINE B == {n \in Nat : \A e \in 0..n : e <= m => G[e] = F[e]}
<1>7. 0 \in B
  <2>1. 0 \in 0..m /\ CharsBefore(t, G, 0) = {<<>>} /\ CharsBefore(R, F, 0) = {<<>>}
    BY <1>1 DEF CharsBefore
  <2>2. G[0] = {<<>>} /\ F[0] = {<<>>}
    BY <1>5, <1>6, <2>1
  <2>3. \A e \in 0..0 : e = 0
    OBVIOUS
  <2> QED
    BY <2>2, <2>3
<1>8. ASSUME NEW n \in Nat, n \in B
      PROVE  n + 1 \in B
  <2> SUFFICES ASSUME n + 1 <= m
               PROVE  G[n + 1] = F[n + 1]
    <3>1. \A e \in 0..(n + 1) : e \in 0..n \/ e = n + 1
      OBVIOUS
    <3> QED
      BY <1>8, <3>1
  <2>1. \A k \in 0..(n + 1 - 1) : G[k] = F[k]
    BY <1>1, <1>8
  <2>2. n + 1 \in Nat /\ n + 1 \in 0..m
    BY <1>1
  <2>3. \A k \in 1..(n + 1) : SubSeq(t, k, n + 1) = SubSeq(R, k, n + 1)
    BY <1>3, <2>2
  <2>4. CharsBefore(t, G, n + 1) = CharsBefore(R, F, n + 1)
    <3>1. PICK e \in Nat : e = n + 1
      BY <2>2
    <3>2. SameBelow(G, F, e)
      BY <2>1, <3>1 DEF SameBelow
    <3>3. SameBefore(t, R, e)
      BY <2>3, <3>1 DEF SameBefore
    <3>4. CharsBefore(t, G, e) = CharsBefore(R, F, e)
      BY <3>2, <3>3, CharsBeforeSame
    <3> QED
      BY <3>1, <3>4
  <2> QED
    BY <1>5, <1>6, <2>2, <2>4
<1>9. Nat \subseteq B
  <2> HIDE DEF B
  <2> QED
    BY <1>7, <1>8, NatSet
<1>10. G[m] = F[m]
  BY <1>1, <1>9
<1> QED
  BY <1>4, <1>6, <1>10 DEF t

-----------------------------------------------------------------------------
(* The characters of a string, by their first byte *)

CharSizes == {1, 2, 3, 4, 6, 12}
PlainChars == 32..127 \ {Quote, Backslash}
Surrogates == HighSurrogates \cup LowSurrogates

HexThere(o) == \A k \in 0..3 : Byte(o + k) \in HexDigits
CodeAt(o) ==
  4096 * HexValue(Byte(o)) + 256 * HexValue(Byte(o + 1)) + 16 * HexValue(Byte(o + 2)) + HexValue(Byte(o + 3))
EscapeAt(o) == Byte(o) = Backslash /\ Byte(o + 1) = LetterU /\ HexThere(o + 2)
Paired(high, low) == 65536 + (high - 55296) * 1024 + low - 56320

\* What a character is that the n bytes from o on make.
PlainAt(o, n, c) == n = 1 /\ Byte(o) \in PlainChars /\ c = Slice(o, o + n)
Utf8At(o, n, c) == IsUtf8Char(Slice(o, o + n)) /\ c = Slice(o, o + n)
SimpleAt(o, n, c) ==
  n = 2 /\ Byte(o) = Backslash /\ Byte(o + 1) \in DOMAIN Escapes /\ c = <<Escapes[Byte(o + 1)]>>
UnicodeAt(o, n, c) ==
  n = 6 /\ EscapeAt(o) /\ CodeAt(o + 2) \notin Surrogates /\ c = Encode(CodeAt(o + 2))
PairAt(o, n, c) ==
  /\ n = 12 /\ EscapeAt(o) /\ EscapeAt(o + 6)
  /\ CodeAt(o + 2) \in HighSurrogates /\ CodeAt(o + 8) \in LowSurrogates
  /\ c = Encode(Paired(CodeAt(o + 2), CodeAt(o + 8)))
CharAt(o, n, c) ==
  PlainAt(o, n, c) \/ Utf8At(o, n, c) \/ SimpleAt(o, n, c) \/ UnicodeAt(o, n, c) \/ PairAt(o, n, c)

\* The same of a text by itself.
CharOfPlain(s) == Len(s) = 1 /\ s[1] \in PlainChars
CharOfEscape(s) == Len(s) = 2 /\ s[1] = Backslash /\ s[2] \in DOMAIN Escapes
CharOfPair(s) == Len(s) = 12 /\ IsHexEscape(SubSeq(s, 1, 6)) /\ IsHexEscape(SubSeq(s, 7, 12))

\* A backslash begins no character of several bytes.
LEMMA BackslashAlone == Utf8Length(Backslash) = 1
<1>1. Backslash \in 0..127
  BY DEF Backslash
<1> QED
  BY <1>1 DEF Utf8Length

\* A CASE whose guards exclude each other, as an IF.
LEMMA FiveWays ==
  ASSUME NEW s \in Seq(Bytes), NEW x, NEW y, NEW z,
         CharOf(s) = CASE CharOfPlain(s) -> {s} [] IsUtf8Char(s) -> {s} [] CharOfEscape(s) -> {x}
                       [] IsHexEscape(s) -> y [] CharOfPair(s) -> z [] OTHER -> {}
  PROVE  LET A == CharOfPlain(s)
             B == IsUtf8Char(s)
             C == CharOfEscape(s)
             D == IsHexEscape(s)
             E == CharOfPair(s)
         IN /\ A /\ ~B /\ ~C /\ ~D /\ ~E => CharOf(s) = {s}
            /\ ~A /\ B /\ ~C /\ ~D /\ ~E => CharOf(s) = {s}
            /\ ~A /\ ~B /\ C /\ ~D /\ ~E => CharOf(s) = {x}
            /\ ~A /\ ~B /\ ~C /\ D /\ ~E => CharOf(s) = y
            /\ ~A /\ ~B /\ ~C /\ ~D /\ E => CharOf(s) = z
            /\ ~A /\ ~B /\ ~C /\ ~D /\ ~E => CharOf(s) = {}
OBVIOUS

\* The five kinds of characters, which exclude each other.
LEMMA CharOfIs ==
  ASSUME NEW s \in Seq(Bytes), NEW c
  PROVE  c \in CharOf(s) <=>
           \/ CharOfPlain(s) /\ c = s
           \/ IsUtf8Char(s) /\ c = s
           \/ CharOfEscape(s) /\ c = <<Escapes[s[2]]>>
           \/ /\ IsHexEscape(s) /\ HexCode(SubSeq(s, 3, 6)) \notin Surrogates
              /\ c = Encode(HexCode(SubSeq(s, 3, 6)))
           \/ /\ CharOfPair(s)
              /\ HexCode(SubSeq(s, 3, 6)) \in HighSurrogates /\ HexCode(SubSeq(s, 9, 12)) \in LowSurrogates
              /\ c = Encode(Paired(HexCode(SubSeq(s, 3, 6)), HexCode(SubSeq(s, 9, 12))))
<1> DEFINE high == HexCode(SubSeq(s, 3, 6))
           low == HexCode(SubSeq(s, 9, 12))
           x == <<Escapes[s[2]]>>
           y == Encode(high)
           z == Encode(Paired(high, low))
           single == IF high \in Surrogates THEN {} ELSE {y}
           pair == IF high \in HighSurrogates /\ low \in LowSurrogates THEN {z} ELSE {}
<1> HIDE DEF high, low, x, y, z, single, pair
<1>13. PICK X, Y, Z : X = x /\ Y = single /\ Z = pair
  OBVIOUS
<1>14. single = IF high \in Surrogates THEN {} ELSE {y}
  BY DEF single
<1>15. pair = IF high \in HighSurrogates /\ low \in LowSurrogates THEN {z} ELSE {}
  BY DEF pair
<1>1. CharOf(s) = CASE CharOfPlain(s) -> {s} [] IsUtf8Char(s) -> {s} [] CharOfEscape(s) -> {X}
                    [] IsHexEscape(s) -> Y [] CharOfPair(s) -> Z [] OTHER -> {}
  <2>1. CharOf(s) = CASE CharOfPlain(s) -> {s} [] IsUtf8Char(s) -> {s} [] CharOfEscape(s) -> {x}
                      [] IsHexEscape(s) -> single [] CharOfPair(s) -> pair [] OTHER -> {}
    BY DEF CharOf, CharOfPlain, CharOfEscape, CharOfPair, Surrogates, Paired, PlainChars, high, low, x, y, z, single, pair
  <2> QED
    BY <1>13, <2>1
<1>2. CharOfPlain(s) => Len(s) = 1
  BY DEF CharOfPlain
<1>3. IsUtf8Char(s) => Len(s) \in 2..4 /\ s[1] # Backslash
  <2>1. s[1] = Backslash => Utf8Length(s[1]) = 1
    BY BackslashAlone
  <2> QED
    BY <2>1 DEF IsUtf8Char
<1>4. CharOfEscape(s) => Len(s) = 2 /\ s[1] = Backslash
  BY DEF CharOfEscape
<1>5. IsHexEscape(s) => Len(s) = 6
  BY DEF IsHexEscape
<1>6. CharOfPair(s) => Len(s) = 12
  BY DEF CharOfPair
<1>16. /\ CharOfPlain(s) => ~IsUtf8Char(s) /\ ~CharOfEscape(s) /\ ~IsHexEscape(s) /\ ~CharOfPair(s)
       /\ IsUtf8Char(s) => ~CharOfPlain(s) /\ ~CharOfEscape(s) /\ ~IsHexEscape(s) /\ ~CharOfPair(s)
       /\ CharOfEscape(s) => ~CharOfPlain(s) /\ ~IsUtf8Char(s) /\ ~IsHexEscape(s) /\ ~CharOfPair(s)
       /\ IsHexEscape(s) => ~CharOfPlain(s) /\ ~IsUtf8Char(s) /\ ~CharOfEscape(s) /\ ~CharOfPair(s)
       /\ CharOfPair(s) => ~CharOfPlain(s) /\ ~IsUtf8Char(s) /\ ~CharOfEscape(s) /\ ~IsHexEscape(s)
  <2>1. PICK n \in Nat : n = Len(s)
    OBVIOUS
  <2>2. PICK b : b = s[1]
    OBVIOUS
  <2>3. /\ CharOfPlain(s) => n = 1
        /\ IsUtf8Char(s) => n \in 2..4 /\ b # Backslash
        /\ CharOfEscape(s) => n = 2 /\ b = Backslash
        /\ IsHexEscape(s) => n = 6
        /\ CharOfPair(s) => n = 12
    BY <1>2, <1>3, <1>4, <1>5, <1>6, <2>1, <2>2
  <2>4. /\ n = 1 => n \notin 2..4 /\ n # 2 /\ n # 6 /\ n # 12
        /\ n = 2 => n # 6 /\ n # 12
        /\ n = 6 => n \notin 2..4 /\ n # 12
        /\ n = 12 => n \notin 2..4
    OBVIOUS
  <2>5. /\ CharOfPlain(s) => ~IsUtf8Char(s) /\ ~CharOfEscape(s) /\ ~IsHexEscape(s) /\ ~CharOfPair(s)
        /\ CharOfEscape(s) => ~IsUtf8Char(s) /\ ~IsHexEscape(s) /\ ~CharOfPair(s)
        /\ IsHexEscape(s) => ~IsUtf8Char(s) /\ ~CharOfPair(s)
        /\ CharOfPair(s) => ~IsUtf8Char(s)
    BY <2>3, <2>4
  <2> QED
    BY <2>5
<1>17. LET A == CharOfPlain(s)
           B == IsUtf8Char(s)
           C == CharOfEscape(s)
           D == IsHexEscape(s)
           E == CharOfPair(s)
       IN /\ A /\ ~B /\ ~C /\ ~D /\ ~E => CharOf(s) = {s}
          /\ ~A /\ B /\ ~C /\ ~D /\ ~E => CharOf(s) = {s}
          /\ ~A /\ ~B /\ C /\ ~D /\ ~E => CharOf(s) = {X}
          /\ ~A /\ ~B /\ ~C /\ D /\ ~E => CharOf(s) = Y
          /\ ~A /\ ~B /\ ~C /\ ~D /\ E => CharOf(s) = Z
          /\ ~A /\ ~B /\ ~C /\ ~D /\ ~E => CharOf(s) = {}
  BY <1>1, FiveWays
<1>7. CASE CharOfPlain(s)
  <2>1. CharOf(s) = {s} /\ ~IsUtf8Char(s) /\ ~CharOfEscape(s) /\ ~IsHexEscape(s) /\ ~CharOfPair(s)
    BY <1>7, <1>16, <1>17
  <2> QED
    BY <1>7, <2>1
<1>8. CASE IsUtf8Char(s)
  <2>1. ~CharOfPlain(s) /\ ~CharOfEscape(s) /\ ~IsHexEscape(s) /\ ~CharOfPair(s)
    BY <1>16, <1>8
  <2>2. CharOf(s) = {s}
    BY <1>17, <1>8, <2>1
  <2> QED
    BY <1>8, <2>1, <2>2
<1>9. CASE CharOfEscape(s)
  <2>1. ~CharOfPlain(s) /\ ~IsUtf8Char(s) /\ ~IsHexEscape(s) /\ ~CharOfPair(s)
    BY <1>16, <1>9
  <2>2. CharOf(s) = {X}
    BY <1>17, <1>9, <2>1
  <2> QED
    BY <1>9, <1>13, <2>1, <2>2 DEF x
<1>10. CASE IsHexEscape(s)
  <2>1. ~CharOfPlain(s) /\ ~IsUtf8Char(s) /\ ~CharOfEscape(s) /\ ~CharOfPair(s)
    BY <1>16, <1>10
  <2>2. CharOf(s) = Y
    BY <1>17, <1>10, <2>1
  <2> QED
    BY <1>10, <1>13, <1>14, <2>1, <2>2 DEF y, high
<1>11. CASE CharOfPair(s)
  <2>1. ~CharOfPlain(s) /\ ~IsUtf8Char(s) /\ ~CharOfEscape(s) /\ ~IsHexEscape(s)
    BY <1>16, <1>11
  <2>2. CharOf(s) = Z
    BY <1>17, <1>11, <2>1
  <2> QED
    BY <1>11, <1>13, <1>15, <2>1, <2>2 DEF z, high, low
<1>12. CASE ~CharOfPlain(s) /\ ~IsUtf8Char(s) /\ ~CharOfEscape(s) /\ ~IsHexEscape(s) /\ ~CharOfPair(s)
  BY <1>12, <1>17
<1> QED
  BY <1>7, <1>8, <1>9, <1>10, <1>11, <1>12

\* The n bytes from o on.
LEMMA SliceOf ==
  ASSUME input \in Seq(Bytes), NEW o \in Nat, NEW n \in Nat, o + n <= Len(input)
  PROVE  /\ Slice(o, o + n) \in Seq(Bytes) /\ Len(Slice(o, o + n)) = n
         /\ \A i \in 1..n : Slice(o, o + n)[i] = Byte(o + i - 1)
         /\ \A i \in 0..n : \A j \in i..n : SubSeq(Slice(o, o + n), i + 1, j) = Slice(o + i, o + j)
<1>1. PICK e : e = o + n
  OBVIOUS
<1>2. o \in 0..Len(input) /\ e \in o..Len(input) /\ e - o = n
  BY <1>1
<1>3. Slice(o, e) \in Seq(Bytes) /\ Len(Slice(o, e)) = n /\ \A i \in 1..n : Slice(o, e)[i] = Byte(o + i - 1)
  BY <1>2, SliceIs
<1>4. \A i \in 0..n : \A j \in i..n : SubSeq(Slice(o, e), i + 1, j) = Slice(o + i, o + j)
  BY <1>2, SliceOfSlice
<1> QED
  BY <1>1, <1>3, <1>4

\* Four hex digits and what precedes them.
LEMMA HexAt ==
  ASSUME input \in Seq(Bytes), NEW o \in Nat, o + 6 <= Len(input)
  PROVE  /\ IsHexEscape(Slice(o, o + 6)) <=> EscapeAt(o)
         /\ HexCode(Slice(o + 2, o + 6)) = CodeAt(o + 2)
<1> DEFINE s == Slice(o, o + 6)
           d == Slice(o + 2, o + 6)
<1>1. o \in Nat /\ Len(input) \in Nat
  OBVIOUS
<1>2. Len(s) = 6 /\ \A i \in 1..6 : s[i] = Byte(o + i - 1)
  <2>1. 6 \in Nat
    OBVIOUS
  <2> QED
    BY <2>1, SliceOf
<1>3. SubSeq(s, 3, 6) = d
  <2>1. 6 \in Nat /\ 2 \in 0..6 /\ 6 \in 2..6 /\ 2 + 1 = 3
    OBVIOUS
  <2>2. SubSeq(s, 2 + 1, 6) = d
    BY <2>1, SliceOf
  <2> QED
    BY <2>1, <2>2
<1>4. d \in Seq(Bytes) /\ Len(d) = 4 /\ \A i \in 1..4 : d[i] = Byte(o + 2 + i - 1)
  <2>1. PICK p \in Nat : p = o + 2
    BY <1>1
  <2>2. p + 4 = o + 6 /\ p + 4 <= Len(input) /\ 4 \in Nat
    BY <1>1, <2>1
  <2>3. Slice(p, p + 4) \in Seq(Bytes) /\ Len(Slice(p, p + 4)) = 4 /\ \A i \in 1..4 : Slice(p, p + 4)[i] = Byte(p + i - 1)
    BY <2>2, SliceOf
  <2> QED
    BY <2>1, <2>2, <2>3
<1>5. s[1] = Byte(o) /\ s[2] = Byte(o + 1)
  <2>1. o + 1 - 1 = o /\ o + 2 - 1 = o + 1 /\ 1 \in 1..6 /\ 2 \in 1..6
    BY <1>1
  <2>2. s[1] = Byte(o + 1 - 1) /\ s[2] = Byte(o + 2 - 1)
    BY <1>2, <2>1
  <2> QED
    BY <2>1, <2>2
<1>6. d[1] = Byte(o + 2) /\ d[2] = Byte(o + 2 + 1) /\ d[3] = Byte(o + 2 + 2) /\ d[4] = Byte(o + 2 + 3)
  <2>1. o + 2 + 1 - 1 = o + 2 /\ o + 2 + 2 - 1 = o + 2 + 1 /\ o + 2 + 3 - 1 = o + 2 + 2 /\ o + 2 + 4 - 1 = o + 2 + 3
        /\ 1 \in 1..4 /\ 2 \in 1..4 /\ 3 \in 1..4 /\ 4 \in 1..4
    BY <1>1
  <2>2. d[1] = Byte(o + 2 + 1 - 1) /\ d[2] = Byte(o + 2 + 2 - 1) /\ d[3] = Byte(o + 2 + 3 - 1) /\ d[4] = Byte(o + 2 + 4 - 1)
    BY <1>4, <2>1
  <2> QED
    BY <2>1, <2>2
<1> HIDE DEF s, d
<1>7. HexCode(d) = CodeAt(o + 2)
  BY <1>6 DEF HexCode, CodeAt
<1>8. ToSet(d) \subseteq HexDigits <=> HexThere(o + 2)
  <2>1. ToSet(d) = {d[i] : i \in 1..4}
    BY <1>4 DEF ToSet
  <2>2. \A i \in 1..4 : i = 1 \/ i = 2 \/ i = 3 \/ i = 4
    OBVIOUS
  <2>3. ToSet(d) \subseteq HexDigits <=> d[1] \in HexDigits /\ d[2] \in HexDigits /\ d[3] \in HexDigits /\ d[4] \in HexDigits
    BY <2>1, <2>2
  <2>4. o + 2 + 0 = o + 2 /\ \A k \in 0..3 : k = 0 \/ k = 1 \/ k = 2 \/ k = 3
    BY <1>1
  <2>5. HexThere(o + 2) <=> /\ Byte(o + 2) \in HexDigits /\ Byte(o + 2 + 1) \in HexDigits
                            /\ Byte(o + 2 + 2) \in HexDigits /\ Byte(o + 2 + 3) \in HexDigits
    BY <2>4 DEF HexThere
  <2> QED
    BY <1>6, <2>3, <2>5
<1>9. IsHexEscape(s) <=> EscapeAt(o)
  BY <1>2, <1>3, <1>5, <1>8 DEF IsHexEscape, EscapeAt
<1> QED
  BY <1>7, <1>9 DEF s, d

\* A character of n bytes is one of these.
LEMMA CharAtIs ==
  ASSUME input \in Seq(Bytes), NEW o \in Nat, NEW n \in Nat \ {0}, o + n <= Len(input), NEW c
  PROVE  c \in CharOf(Slice(o, o + n)) <=> CharAt(o, n, c)
<1> DEFINE s == Slice(o, o + n)
<1>1. s \in Seq(Bytes) /\ Len(s) = n /\ s[1] = Byte(o)
  <2>1. 1 \in 1..n /\ o + 1 - 1 = o
    OBVIOUS
  <2> QED
    BY <2>1, SliceOf
<1>2. CharOfPlain(s) /\ c = s <=> PlainAt(o, n, c)
  BY <1>1 DEF CharOfPlain, PlainAt
<1>3. IsUtf8Char(s) /\ c = s <=> Utf8At(o, n, c)
  BY DEF Utf8At
<1>4. CharOfEscape(s) /\ c = <<Escapes[s[2]]>> <=> SimpleAt(o, n, c)
  <2>1. CASE n = 2
    <3>1. 2 \in 1..n /\ o + 2 - 1 = o + 1
      BY <2>1
    <3>2. s[2] = Byte(o + 1)
      <4>1. s[2] = Byte(o + 2 - 1)
        BY <3>1, SliceOf
      <4> QED
        BY <3>1, <4>1
    <3> QED
      BY <1>1, <2>1, <3>2 DEF CharOfEscape, SimpleAt
  <2>2. CASE n # 2
    BY <1>1, <2>2 DEF CharOfEscape, SimpleAt
  <2> QED
    BY <2>1, <2>2
<1>5. (IsHexEscape(s) /\ HexCode(SubSeq(s, 3, 6)) \notin Surrogates /\ c = Encode(HexCode(SubSeq(s, 3, 6))))
      <=> UnicodeAt(o, n, c)
  <2>1. CASE n = 6
    <3>1. 2 \in 0..n /\ 6 \in 2..n /\ 2 + 1 = 3
      BY <2>1
    <3>2. SubSeq(s, 2 + 1, 6) = Slice(o + 2, o + 6)
      BY <3>1, SliceOf
    <3>3. o + 6 <= Len(input)
      BY <2>1
    <3>4. HexCode(SubSeq(s, 3, 6)) = CodeAt(o + 2) /\ (IsHexEscape(s) <=> EscapeAt(o))
      BY <2>1, <3>1, <3>2, <3>3, HexAt
    <3> HIDE DEF s
    <3> QED
      BY <2>1, <3>4 DEF UnicodeAt
  <2>2. CASE n # 6
    BY <1>1, <2>2 DEF IsHexEscape, UnicodeAt
  <2> QED
    BY <2>1, <2>2
<1>6. (/\ CharOfPair(s)
       /\ HexCode(SubSeq(s, 3, 6)) \in HighSurrogates /\ HexCode(SubSeq(s, 9, 12)) \in LowSurrogates
       /\ c = Encode(Paired(HexCode(SubSeq(s, 3, 6)), HexCode(SubSeq(s, 9, 12)))))
      <=> PairAt(o, n, c)
  <2>1. CASE n = 12
    <3>1. /\ 0 \in 0..n /\ 6 \in 0..n /\ 2 \in 0..n /\ 8 \in 0..n /\ 12 \in 0..n
          /\ 6 \in 0..n /\ 12 \in 6..n /\ 6 \in 2..n /\ 12 \in 8..n
          /\ 0 + 1 = 1 /\ 6 + 1 = 7 /\ 2 + 1 = 3 /\ 8 + 1 = 9 /\ o + 0 = o
      BY <2>1
    <3>2. /\ SubSeq(s, 0 + 1, 6) = Slice(o + 0, o + 6) /\ SubSeq(s, 6 + 1, 12) = Slice(o + 6, o + 12)
          /\ SubSeq(s, 2 + 1, 6) = Slice(o + 2, o + 6) /\ SubSeq(s, 8 + 1, 12) = Slice(o + 8, o + 12)
      <4>1. \A i \in 0..n : \A j \in i..n : SubSeq(s, i + 1, j) = Slice(o + i, o + j)
        BY SliceOf
      <4> HIDE DEF s
      <4>2. 6 \in 0..n
        BY <2>1
      <4> QED
        BY <3>1, <4>1, <4>2
    <3>3. o + 6 <= Len(input)
      BY <2>1
    <3>4. (IsHexEscape(Slice(o, o + 6)) <=> EscapeAt(o)) /\ HexCode(Slice(o + 2, o + 6)) = CodeAt(o + 2)
      BY <3>3, HexAt
    <3>5. (IsHexEscape(Slice(o + 6, o + 12)) <=> EscapeAt(o + 6)) /\ HexCode(Slice(o + 8, o + 12)) = CodeAt(o + 8)
      <4>1. PICK p \in Nat : p = o + 6
        OBVIOUS
      <4>2. p + 6 = o + 12 /\ p + 2 = o + 8 /\ p + 6 <= Len(input)
        BY <2>1, <4>1
      <4>3. (IsHexEscape(Slice(p, p + 6)) <=> EscapeAt(p)) /\ HexCode(Slice(p + 2, p + 6)) = CodeAt(p + 2)
        BY <4>2, HexAt
      <4> QED
        BY <4>1, <4>2, <4>3
    <3> HIDE DEF s
    <3>6. CharOfPair(s) <=> EscapeAt(o) /\ EscapeAt(o + 6)
      BY <1>1, <2>1, <3>1, <3>2, <3>4, <3>5 DEF CharOfPair
    <3> QED
      BY <2>1, <3>1, <3>2, <3>4, <3>5, <3>6 DEF PairAt
  <2>2. CASE n # 12
    BY <1>1, <2>2 DEF CharOfPair, PairAt
  <2> QED
    BY <2>1, <2>2
<1> HIDE DEF s
<1>7. c \in CharOf(s) <=>
        \/ CharOfPlain(s) /\ c = s
        \/ IsUtf8Char(s) /\ c = s
        \/ CharOfEscape(s) /\ c = <<Escapes[s[2]]>>
        \/ /\ IsHexEscape(s) /\ HexCode(SubSeq(s, 3, 6)) \notin Surrogates
           /\ c = Encode(HexCode(SubSeq(s, 3, 6)))
        \/ /\ CharOfPair(s)
           /\ HexCode(SubSeq(s, 3, 6)) \in HighSurrogates /\ HexCode(SubSeq(s, 9, 12)) \in LowSurrogates
           /\ c = Encode(Paired(HexCode(SubSeq(s, 3, 6)), HexCode(SubSeq(s, 9, 12))))
  BY <1>1, CharOfIs
<1>8. c \in CharOf(s) <=> CharAt(o, n, c)
  BY <1>2, <1>3, <1>4, <1>5, <1>6, <1>7 DEF CharAt
<1> QED
  BY <1>8 DEF s

LeadBytes == PlainChars \cup 194..244 \cup {Backslash}

\* How many bytes a character has that begins at o.
CharSize(o) ==
  IF Byte(o) \in PlainChars THEN 1
  ELSE IF Byte(o) # Backslash THEN Utf8Length(Byte(o))
  ELSE IF Byte(o + 1) # LetterU THEN 2
  ELSE IF CodeAt(o + 2) \in HighSurrogates THEN 12 ELSE 6

\* The bytes that stand for themselves.
LEMMA PlainClass ==
  ASSUME NEW b \in PlainChars
  PROVE  b \in 32..127 /\ b # None /\ ~(b >= 128) /\ b # Backslash /\ b # Quote
<1>1. b \in 32..127 /\ b # Quote /\ b # Backslash
  BY DEF PlainChars
<1> QED
  BY <1>1 DEF None

\* The hexadecimal digits.
LEMMA HexClass ==
  ASSUME NEW b \in HexDigits
  PROVE  b \in 48..102 /\ b # None
BY DEF HexDigits, Digits, None

\* A byte of the input.
LEMMA ByteOf ==
  ASSUME input \in Seq(Bytes), NEW o \in Nat, o < Len(input)
  PROVE  Byte(o) = input[o + 1] /\ Byte(o) \in Bytes
<1>1. o + 1 \in 1..Len(input)
  OBVIOUS
<1> QED
  BY <1>1 DEF Byte

\* The first bytes of characters of several bytes.
LEMMA Utf8Lead ==
  ASSUME NEW b \in Bytes, Utf8Length(b) \in 2..4
  PROVE  b \in 194..244 /\ b \notin PlainChars /\ b # Backslash
<1>1. b \notin 0..127
  BY DEF Utf8Length
<1>2. b \in 194..244
  BY <1>1 DEF Utf8Length, Bytes
<1> QED
  BY <1>1, <1>2 DEF PlainChars, Backslash

\* A character that begins at o has the size that its first bytes say.
LEMMA CharSizeIs ==
  ASSUME input \in Seq(Bytes), NEW o \in Nat, NEW n \in Nat \ {0}, o + n <= Len(input), NEW c, CharAt(o, n, c)
  PROVE  n = CharSize(o) /\ n \in CharSizes /\ Byte(o) \in LeadBytes
<1>1. Backslash \notin PlainChars /\ LetterU \notin DOMAIN Escapes
  BY DEF PlainChars, LetterU, Escapes
<1>2. CASE PlainAt(o, n, c)
  BY <1>2 DEF PlainAt, CharSize, CharSizes, LeadBytes
<1>3. CASE Utf8At(o, n, c)
  <2>1. Len(Slice(o, o + n)) = n /\ Slice(o, o + n)[1] = Byte(o)
    <3>1. 1 \in 1..n /\ o + 1 - 1 = o
      OBVIOUS
    <3>2. Slice(o, o + n)[1] = Byte(o + 1 - 1)
      BY <3>1, SliceOf
    <3> QED
      BY <3>1, <3>2, SliceOf
  <2>2. n \in 2..4 /\ n = Utf8Length(Byte(o))
    BY <1>3, <2>1 DEF Utf8At, IsUtf8Char
  <2>3. Byte(o) \in Bytes
    <3>1. o < Len(input)
      OBVIOUS
    <3> QED
      BY <3>1, ByteOf
  <2>4. Byte(o) \in 194..244 /\ Byte(o) \notin PlainChars /\ Byte(o) # Backslash
    BY <2>2, <2>3, Utf8Lead
  <2> QED
    BY <2>2, <2>4 DEF CharSize, CharSizes, LeadBytes
<1>4. CASE SimpleAt(o, n, c)
  BY <1>1, <1>4 DEF SimpleAt, CharSize, CharSizes, LeadBytes
<1>5. CASE UnicodeAt(o, n, c)
  BY <1>1, <1>5 DEF UnicodeAt, EscapeAt, Surrogates, CharSize, CharSizes, LeadBytes
<1>6. CASE PairAt(o, n, c)
  BY <1>1, <1>6 DEF PairAt, EscapeAt, CharSize, CharSizes, LeadBytes
<1> QED
  BY <1>2, <1>3, <1>4, <1>5, <1>6 DEF CharAt

\* Where characters are that begin at o: one of this size and denoting c, or none.
OneChar(o, n, c) == n \in CharSizes /\ o + n <= Len(input) /\ CharOf(Slice(o, o + n)) = {c}
NoChar(o) == \A n \in CharSizes : o + n <= Len(input) => CharOf(Slice(o, o + n)) = {}

\* The sizes as numbers.
LEMMA SizesAre == \A n \in CharSizes : n \in Nat \ {0} /\ n <= 12
BY DEF CharSizes

\* So at most one size fits.
LEMMA SameSize ==
  ASSUME input \in Seq(Bytes), NEW o \in Nat,
         NEW n \in CharSizes, o + n <= Len(input), CharOf(Slice(o, o + n)) # {}
  PROVE  n = CharSize(o) /\ Byte(o) \in LeadBytes
<1>1. n \in Nat \ {0}
  BY SizesAre
<1>2. PICK c : c \in CharOf(Slice(o, o + n))
  OBVIOUS
<1>3. CharAt(o, n, c)
  BY <1>1, <1>2, CharAtIs
<1> QED
  BY <1>1, <1>3, CharSizeIs

\* There is one if all that can be there has this size and this value.
LEMMA OneCharIs ==
  ASSUME input \in Seq(Bytes), NEW o \in Nat, NEW n \in CharSizes, o + n <= Len(input),
         NEW c, CharAt(o, n, c), \A d : CharAt(o, n, d) => d = c
  PROVE  OneChar(o, n, c)
<1>1. n \in Nat \ {0}
  BY SizesAre
<1>2. \A d : d \in CharOf(Slice(o, o + n)) <=> CharAt(o, n, d)
  BY <1>1, CharAtIs
<1>3. \A d : d \in CharOf(Slice(o, o + n)) <=> d = c
  BY <1>2
<1>4. CharOf(Slice(o, o + n)) = {c}
  BY <1>3
<1> QED
  BY <1>4 DEF OneChar

\* No character begins at o if none of any size does.
LEMMA NoCharIs ==
  ASSUME input \in Seq(Bytes), NEW o \in Nat,
         \A n \in CharSizes : \A c : o + n <= Len(input) => ~CharAt(o, n, c)
  PROVE  NoChar(o)
<1>1. ASSUME NEW n \in CharSizes, o + n <= Len(input)
      PROVE  CharOf(Slice(o, o + n)) = {}
  <2>1. n \in Nat \ {0}
    BY SizesAre
  <2>2. \A d : d \in CharOf(Slice(o, o + n)) <=> CharAt(o, n, d)
    BY <1>1, <2>1, CharAtIs
  <2>3. \A d : d \notin CharOf(Slice(o, o + n))
    BY <1>1, <2>2
  <2> QED
    BY <2>3
<1> QED
  BY <1>1 DEF NoChar

\* The first byte as each kind of character has it.
LEMMA CharByFirstByte ==
  ASSUME input \in Seq(Bytes), NEW o \in Nat, NEW n \in CharSizes, o + n <= Len(input), NEW c, CharAt(o, n, c)
  PROVE  /\ Byte(o) \in PlainChars => PlainAt(o, n, c)
         /\ Byte(o) >= 128 => Utf8At(o, n, c) /\ n = Utf8Length(Byte(o))
         /\ Byte(o) = Backslash /\ Byte(o + 1) # LetterU => SimpleAt(o, n, c)
         /\ Byte(o) = Backslash /\ Byte(o + 1) = LetterU => UnicodeAt(o, n, c) \/ PairAt(o, n, c)
<1>1. /\ Backslash \notin PlainChars /\ LetterU \notin DOMAIN Escapes /\ ~(Backslash >= 128)
      /\ \A b \in PlainChars : ~(b >= 128)
  BY PlainClass DEF LetterU, Escapes, Backslash
<1>2. n \in Nat \ {0}
  BY SizesAre
<1>3. n = CharSize(o)
  BY <1>2, CharSizeIs
<1>4. Byte(o) >= 128 => n = Utf8Length(Byte(o))
  BY <1>1, <1>3 DEF CharSize
<1>5. Utf8At(o, n, c) => Byte(o) \notin PlainChars /\ Byte(o) # Backslash
  <2> SUFFICES ASSUME Utf8At(o, n, c)
               PROVE  Byte(o) \notin PlainChars /\ Byte(o) # Backslash
    OBVIOUS
  <2>1. o < Len(input) /\ 1 \in 1..n /\ o + 1 - 1 = o
    BY <1>2
  <2>2. Slice(o, o + n)[1] = Byte(o + 1 - 1)
    BY <1>2, <2>1, SliceOf
  <2>3. Utf8Length(Byte(o)) \in 2..4
    BY <2>1, <2>2 DEF Utf8At, IsUtf8Char
  <2>4. Byte(o) \in Bytes
    BY <2>1, ByteOf
  <2> QED
    BY <2>3, <2>4, Utf8Lead
<1>6. PlainAt(o, n, c) => Byte(o) \in PlainChars
  BY DEF PlainAt
<1>7. SimpleAt(o, n, c) => Byte(o) = Backslash /\ Byte(o + 1) # LetterU
  BY <1>1 DEF SimpleAt
<1>8. UnicodeAt(o, n, c) \/ PairAt(o, n, c) => Byte(o) = Backslash /\ Byte(o + 1) = LetterU
  BY DEF UnicodeAt, PairAt, EscapeAt
<1> QED
  BY <1>1, <1>4, <1>5, <1>6, <1>7, <1>8 DEF CharAt

\* What begins at o, by its first byte: a byte that stands for itself,
LEMMA PlainIsChar ==
  ASSUME input \in Seq(Bytes), NEW o \in Nat, Byte(o) \in PlainChars
  PROVE  OneChar(o, 1, <<Byte(o)>>)
<1>1. Byte(o) # None
  BY PlainClass
<1>2. o + 1 <= Len(input) /\ 1 \in Nat /\ 1 \in CharSizes
  BY <1>1, ByteIsThere DEF CharSizes
<1>3. Slice(o, o + 1) = <<Byte(o)>>
  <2> DEFINE s == Slice(o, o + 1)
             t == <<Byte(o)>>
  <2>1. s \in Seq(Bytes) /\ Len(s) = 1 /\ s[1] = Byte(o)
    <3>1. 1 \in 1..1 /\ o + 1 - 1 = o
      OBVIOUS
    <3>2. s[1] = Byte(o + 1 - 1)
      BY <1>2, <3>1, SliceOf
    <3> QED
      BY <1>2, <3>1, <3>2, SliceOf
  <2>2. t \in Seq(Bytes) /\ Len(t) = 1 /\ t[1] = Byte(o)
    BY <2>1
  <2> HIDE DEF s, t
  <2>3. \A i \in 1..1 : s[i] = t[i]
    BY <2>1, <2>2
  <2>4. s = t
    BY <2>1, <2>2, <2>3, SeqEqual
  <2> QED
    BY <2>4 DEF s, t
<1>4. CharAt(o, 1, <<Byte(o)>>)
  BY <1>3 DEF CharAt, PlainAt
<1>5. \A d : CharAt(o, 1, d) => d = <<Byte(o)>>
  BY <1>2, <1>3, CharByFirstByte DEF PlainAt
<1> QED
  BY <1>2, <1>4, <1>5, OneCharIs

\* a character of several bytes, or nothing,
LEMMA Utf8IsChar ==
  ASSUME input \in Seq(Bytes), NEW o \in Nat, Byte(o) >= 128, NEW n, n = Utf8Length(Byte(o))
  PROVE  IF n > 0 /\ o + n <= Len(input) /\ IsUtf8Char(Slice(o, o + n))
         THEN OneChar(o, n, Slice(o, o + n)) /\ n \in 2..4
         ELSE NoChar(o)
<1>1. CASE n > 0 /\ o + n <= Len(input) /\ IsUtf8Char(Slice(o, o + n))
  <2>1. n \in Nat
    BY DEF Utf8Length
  <2>2. Len(Slice(o, o + n)) = n
    BY <1>1, <2>1, SliceOf
  <2>3. n \in 2..4 /\ n \in CharSizes
    BY <1>1, <2>1, <2>2 DEF IsUtf8Char, CharSizes
  <2>4. CharAt(o, n, Slice(o, o + n))
    BY <1>1 DEF CharAt, Utf8At
  <2>5. \A d : CharAt(o, n, d) => d = Slice(o, o + n)
    BY <1>1, <2>3, CharByFirstByte DEF Utf8At
  <2> QED
    BY <1>1, <2>3, <2>4, <2>5, OneCharIs
<1>2. CASE ~(n > 0 /\ o + n <= Len(input) /\ IsUtf8Char(Slice(o, o + n)))
  <2>1. ASSUME NEW m \in CharSizes, NEW c, o + m <= Len(input), CharAt(o, m, c)
        PROVE  FALSE
    <3>1. Utf8At(o, m, c) /\ m = n
      BY <2>1, CharByFirstByte
    <3>2. m > 0
      BY SizesAre
    <3> QED
      BY <1>2, <2>1, <3>1, <3>2 DEF Utf8At
  <2> QED
    BY <1>2, <2>1, NoCharIs
<1> QED
  BY <1>1, <1>2

\* an escape of two bytes, or nothing,
LEMMA SimpleIsChar ==
  ASSUME input \in Seq(Bytes), NEW o \in Nat, Byte(o) = Backslash, Byte(o + 1) # LetterU
  PROVE  IF Byte(o + 1) \in DOMAIN Escapes THEN OneChar(o, 2, <<Escapes[Byte(o + 1)]>>) ELSE NoChar(o)
<1>1. CASE Byte(o + 1) \in DOMAIN Escapes
  <2>1. Byte(o + 1) # None
    BY <1>1 DEF Escapes, None
  <2>2. o + 2 <= Len(input) /\ 2 \in CharSizes
    BY <2>1, ByteIsThere DEF CharSizes
  <2>3. CharAt(o, 2, <<Escapes[Byte(o + 1)]>>)
    BY <1>1 DEF CharAt, SimpleAt
  <2>4. \A d : CharAt(o, 2, d) => d = <<Escapes[Byte(o + 1)]>>
    BY <2>2, CharByFirstByte DEF SimpleAt
  <2> QED
    BY <1>1, <2>2, <2>3, <2>4, OneCharIs
<1>2. CASE Byte(o + 1) \notin DOMAIN Escapes
  <2>1. \A m \in CharSizes : \A c : o + m <= Len(input) => ~CharAt(o, m, c)
    BY <1>2, CharByFirstByte DEF SimpleAt
  <2> QED
    BY <1>2, <2>1, NoCharIs
<1> QED
  BY <1>1, <1>2

\* The digits of an escape lie in the text.
LEMMA EscapeInText ==
  ASSUME input \in Seq(Bytes), NEW o \in Nat, EscapeAt(o)
  PROVE  o + 6 <= Len(input)
<1>1. Byte(o + 2 + 3) \in HexDigits
  BY DEF EscapeAt, HexThere
<1>2. Byte(o + 2 + 3) # None
  BY <1>1, HexClass
<1>3. o + 2 + 3 < Len(input) /\ Len(input) \in Nat
  <2>1. PICK p \in Nat : p = o + 2 + 3
    OBVIOUS
  <2> QED
    BY <1>2, <2>1, ByteIsThere
<1> QED
  BY <1>3

\* a \u escape, or a pair of them, or nothing.
LEMMA UnicodeIsChar ==
  ASSUME input \in Seq(Bytes), NEW o \in Nat, Byte(o) = Backslash, Byte(o + 1) = LetterU
  PROVE  IF HexThere(o + 2) /\ CodeAt(o + 2) \notin Surrogates
         THEN OneChar(o, 6, Encode(CodeAt(o + 2)))
         ELSE IF HexThere(o + 2) /\ CodeAt(o + 2) \in HighSurrogates /\ EscapeAt(o + 6) /\ CodeAt(o + 8) \in LowSurrogates
         THEN OneChar(o, 12, Encode(Paired(CodeAt(o + 2), CodeAt(o + 8))))
         ELSE NoChar(o)
<1> DEFINE high == CodeAt(o + 2)
           low == CodeAt(o + 8)
           A == HexThere(o + 2) /\ high \notin Surrogates
           B == HexThere(o + 2) /\ high \in HighSurrogates /\ EscapeAt(o + 6) /\ low \in LowSurrogates
<1>1. \A m \in CharSizes : \A c : o + m <= Len(input) /\ CharAt(o, m, c) => UnicodeAt(o, m, c) \/ PairAt(o, m, c)
  BY CharByFirstByte
<1>2. /\ \A m, c : UnicodeAt(o, m, c) <=> m = 6 /\ A /\ c = Encode(high)
      /\ \A m, c : PairAt(o, m, c) <=> m = 12 /\ B /\ c = Encode(Paired(high, low))
  BY DEF UnicodeAt, PairAt, EscapeAt
<1>3. ~(A /\ B)
  BY DEF Surrogates
<1>4. \A m, c : UnicodeAt(o, m, c) \/ PairAt(o, m, c) => CharAt(o, m, c)
  BY DEF CharAt
<1>5. 6 \in CharSizes /\ 12 \in CharSizes
  BY DEF CharSizes
<1>6. A => o + 6 <= Len(input)
  BY EscapeInText DEF EscapeAt
<1>7. B => o + 12 <= Len(input)
  <2>1. PICK p \in Nat : p = o + 6
    OBVIOUS
  <2>2. B => p + 6 <= Len(input)
    BY <2>1, EscapeInText
  <2> QED
    BY <2>1, <2>2
<1> HIDE DEF high, low, A, B
<1>8. CASE A
  <2>1. \A d : CharAt(o, 6, d) => d = Encode(high)
    BY <1>1, <1>2, <1>3, <1>5, <1>6, <1>8
  <2>2. OneChar(o, 6, Encode(high))
    BY <1>2, <1>4, <1>5, <1>6, <1>8, <2>1, OneCharIs
  <2> QED
    BY <1>8, <2>2 DEF A, high
<1>9. CASE B
  <2>1. \A d : CharAt(o, 12, d) => d = Encode(Paired(high, low))
    BY <1>1, <1>2, <1>3, <1>5, <1>7, <1>9
  <2>2. OneChar(o, 12, Encode(Paired(high, low)))
    BY <1>2, <1>4, <1>5, <1>7, <1>9, <2>1, OneCharIs
  <2> QED
    BY <1>3, <1>9, <2>2 DEF A, B, high, low
<1>10. CASE ~A /\ ~B
  <2>1. \A m \in CharSizes : \A c : o + m <= Len(input) => ~CharAt(o, m, c)
    BY <1>1, <1>2, <1>10
  <2>2. NoChar(o)
    BY <2>1, NoCharIs
  <2> QED
    BY <1>10, <2>2 DEF A, B, high, low
<1> QED
  BY <1>8, <1>9, <1>10

\* Nothing begins with a control character, a quote or the end.
LEMMA OtherIsNoChar ==
  ASSUME input \in Seq(Bytes), NEW o \in Nat, Byte(o) \notin LeadBytes
  PROVE  NoChar(o)
<1>1. \A m \in CharSizes : \A c : o + m <= Len(input) => ~CharAt(o, m, c)
  BY SizesAre, CharSizeIs
<1> QED
  BY <1>1, NoCharIs

\* read_hex4 finds the four digits or something wrong.
LEMMA Hex4Is ==
  ASSUME NEW o
  PROVE  /\ Hex4(o).fault = "None" <=> HexThere(o)
         /\ HexThere(o) => Hex4(o).code = 4096 * HexValue(Byte(o + 0)) + 256 * HexValue(Byte(o + 1))
                                            + 16 * HexValue(Byte(o + 2)) + HexValue(Byte(o + 3))
<1> DEFINE wrong == {k \in 0..3 : Byte(o + k) \notin HexDigits}
<1>1. HexThere(o) <=> wrong = {}
  BY DEF HexThere
<1> HIDE DEF wrong
<1>2. CASE wrong = {}
  BY <1>1, <1>2 DEF Hex4, wrong
<1>3. CASE wrong # {}
  BY <1>1, <1>3 DEF Hex4, wrong
<1> QED
  BY <1>2, <1>3

-----------------------------------------------------------------------------
(* Strings, from the quote on *)

\* From q to o the characters denote text and nothing else, and none of them
\* reaches beyond o.
Decoded(q, o, text) ==
  /\ Decodings(q, o) = {text}
  /\ \A k \in q..(o - 1) : Decodings(q, k) # {} =>
       \E n \in CharSizes : k + n <= o /\ CharOf(Slice(k, k + n)) # {}

\* A quote begins no character, nor does the end of the text.
LEMMA QuoteLeads == Quote \notin LeadBytes /\ None \notin LeadBytes
<1>1. \A b \in LeadBytes : b \in PlainChars \/ b \in 194..244 \/ b = Backslash
  BY DEF LeadBytes
<1>2. \A b \in LeadBytes : b # Quote /\ b # None
  BY <1>1, PlainClass DEF Quote, Backslash, None
<1> QED
  BY <1>2

\* Right behind the quote nothing has been decoded.
LEMMA DecodedAtQuote ==
  ASSUME input \in Seq(Bytes), NEW q \in 0..Len(input)
  PROVE  Decoded(q, q, <<>>)
<1>1. Decodings(q, q) = {<<>>}
  BY DecodingsAre
<1> QED
  BY <1>1 DEF Decoded

\* What the text denotes up to o, by its last character.
LEMMA DecodingsEnd ==
  ASSUME input \in Seq(Bytes), NEW q \in 0..Len(input), NEW o \in (q + 1)..Len(input)
  PROVE  \A x : x \in Decodings(q, o) <=>
           \E n \in CharSizes : \E before \in Decodings(q, o - n) : \E c \in CharOf(Slice(o - n, o)) :
             n <= o - q /\ x = before \o c
<1>1. \A k \in (q + 1)..Len(input) : \A x :
        x \in Decodings(q, k) <=>
          \E n \in {1, 2, 3, 4, 6, 12} : \E before \in Decodings(q, k - n) : \E c \in CharOf(Slice(k - n, k)) :
            n <= k - q /\ x = before \o c
  BY DecodingsAre
<1>2. CharSizes = {1, 2, 3, 4, 6, 12}
  BY DEF CharSizes
<1> QED
  BY <1>1, <1>2

\* A character ends at o that begins where one ended before.
LEMMA LastChar ==
  ASSUME input \in Seq(Bytes), NEW q \in 0..Len(input), NEW o \in (q + 1)..Len(input), NEW text,
         text \in Decodings(q, o)
  PROVE  \E k \in q..(o - 1) : \E n \in CharSizes : \E before \in Decodings(q, k) : \E c \in CharOf(Slice(k, k + n)) :
           k + n = o /\ text = before \o c
<1>1. PICK n \in CharSizes : \E before \in Decodings(q, o - n) : \E c \in CharOf(Slice(o - n, o)) :
                               n <= o - q /\ text = before \o c
  <2>1. \A x : x \in Decodings(q, o) <=>
          \E n \in CharSizes : \E before \in Decodings(q, o - n) : \E c \in CharOf(Slice(o - n, o)) :
            n <= o - q /\ x = before \o c
    BY DecodingsEnd
  <2> QED
    BY <2>1
<1>2. n \in Nat \ {0}
  BY SizesAre
<1>3. PICK k : k = o - n
  OBVIOUS
<1>4. k \in q..(o - 1) /\ k + n = o
  BY <1>1, <1>2, <1>3
<1> QED
  BY <1>1, <1>3, <1>4

\* What the characters reach behind o, they reach over one that begins at o.
LEMMA NextChar ==
  ASSUME input \in Seq(Bytes), NEW q \in 0..Len(input), NEW o \in q..Len(input), NEW text, Decoded(q, o, text),
         NEW e \in (o + 1)..Len(input), Decodings(q, e) # {}
  PROVE  \E n \in CharSizes : o + n <= e /\ CharOf(Slice(o, o + n)) # {}
<1> DEFINE T == {k \in (o + 1)..Len(input) : Decodings(q, k) # {}}
<1>1. o \in Nat /\ q \in Nat /\ q <= o /\ Len(input) \in Nat
  OBVIOUS
<1>2. T \in SUBSET Nat /\ e \in T
  BY <1>1
<1> DEFINE m == Min(T)
<1>3. m \in T /\ \A k \in T : m <= k
  BY <1>2, LeastOf
<1> HIDE DEF m
<1>4. m \in (o + 1)..Len(input) /\ Decodings(q, m) # {} /\ m <= e
  BY <1>2, <1>3
<1>5. PICK k \in q..(m - 1) : \E n \in CharSizes : \E before \in Decodings(q, k) : \E c \in CharOf(Slice(k, k + n)) :
                                k + n = m
  <2>1. m \in (q + 1)..Len(input)
    BY <1>1, <1>4
  <2>2. PICK x : x \in Decodings(q, m)
    BY <1>4
  <2> QED
    BY <2>1, <2>2, LastChar
<1>6. PICK n \in CharSizes : k + n = m /\ Decodings(q, k) # {} /\ CharOf(Slice(k, k + n)) # {}
  BY <1>5
<1>7. k \in Nat /\ n \in Nat \ {0} /\ k + n <= Len(input)
  BY <1>1, <1>4, <1>6, SizesAre
<1>8. ~(k > o)
  <2> SUFFICES ASSUME k > o
               PROVE  FALSE
    OBVIOUS
  <2>1. k \in (o + 1)..Len(input)
    BY <1>1, <1>7
  <2>2. k \in T
    BY <1>6, <2>1
  <2> HIDE DEF T
  <2> QED
    BY <1>3, <1>4, <1>6, <1>7, <2>2
<1>9. ~(k < o)
  <2> SUFFICES ASSUME k < o
               PROVE  FALSE
    OBVIOUS
  <2>1. k \in q..(o - 1)
    BY <1>1
  <2>2. PICK j \in CharSizes : k + j <= o /\ CharOf(Slice(k, k + j)) # {}
    BY <1>6, <2>1 DEF Decoded
  <2>3. j \in Nat \ {0} /\ k + j <= Len(input)
    BY <1>1, <1>7, <2>2, SizesAre
  <2>4. j = CharSize(k) /\ n = CharSize(k)
    BY <1>6, <1>7, <2>2, <2>3, SameSize
  <2> QED
    BY <1>1, <1>4, <1>6, <1>7, <2>2, <2>3, <2>4
<1>10. k = o
  BY <1>1, <1>7, <1>8, <1>9
<1> QED
  BY <1>4, <1>6, <1>7, <1>10

\* The next character, if there is one.
LEMMA PushDecodes ==
  ASSUME input \in Seq(Bytes), NEW q \in 0..Len(input), NEW o \in q..Len(input), NEW text, Decoded(q, o, text),
         NEW n, NEW c, OneChar(o, n, c)
  PROVE  o + n \in (o + 1)..Len(input) /\ Decoded(q, o + n, text \o c)
<1>1. o \in Nat /\ q \in Nat /\ q <= o /\ Len(input) \in Nat /\ n \in Nat \ {0} /\ n \in CharSizes
      /\ o + n <= Len(input) /\ CharOf(Slice(o, o + n)) = {c}
  BY SizesAre DEF OneChar
<1>2. PICK e : e = o + n
  OBVIOUS
<1>3. e \in (o + 1)..Len(input) /\ e \in (q + 1)..Len(input) /\ e - n = o /\ n <= e - q
  BY <1>1, <1>2
<1>4. \A m \in CharSizes : o + m <= Len(input) /\ CharOf(Slice(o, o + m)) # {} => m = n
  <2> TAKE m \in CharSizes
  <2> HAVE o + m <= Len(input) /\ CharOf(Slice(o, o + m)) # {}
  <2>1. m = CharSize(o)
    BY <1>1, SameSize
  <2>2. CharOf(Slice(o, o + n)) # {}
    BY <1>1
  <2>3. n = CharSize(o)
    BY <1>1, <2>2, SameSize
  <2> QED
    BY <2>1, <2>3
<1>5. ASSUME NEW k \in (o + 1)..(e - 1), Decodings(q, k) # {}
      PROVE  FALSE
  <2>1. k \in (o + 1)..Len(input) /\ k \in Nat /\ k < e
    BY <1>1, <1>3
  <2>2. PICK m \in CharSizes : o + m <= k /\ CharOf(Slice(o, o + m)) # {}
    BY <1>5, <2>1, NextChar
  <2>3. m \in Nat
    BY SizesAre
  <2>4. m = n
    BY <1>1, <1>4, <2>1, <2>2, <2>3
  <2> QED
    BY <1>1, <1>2, <2>1, <2>2, <2>4
<1>6. ASSUME NEW x
      PROVE  x \in Decodings(q, e) <=> x = text \o c
  <2>1. ASSUME x \in Decodings(q, e)
        PROVE  x = text \o c
    <3>1. PICK k \in q..(e - 1) : \E m \in CharSizes : \E before \in Decodings(q, k) : \E d \in CharOf(Slice(k, k + m)) :
                                    k + m = e /\ x = before \o d
      <4>1. PICK j \in (q + 1)..Len(input) : j = e
        BY <1>3
      <4>2. x \in Decodings(q, j)
        BY <2>1, <4>1
      <4>3. \E k \in q..(j - 1) : \E m \in CharSizes : \E before \in Decodings(q, k) : \E d \in CharOf(Slice(k, k + m)) :
              k + m = j /\ x = before \o d
        BY <4>2, LastChar
      <4> QED
        BY <4>1, <4>3
    <3>2. PICK m \in CharSizes : \E before \in Decodings(q, k) : \E d \in CharOf(Slice(k, k + m)) :
                                    k + m = e /\ x = before \o d
      BY <3>1
    <3>3. k \in Nat /\ m \in Nat \ {0} /\ Decodings(q, k) # {} /\ CharOf(Slice(k, k + m)) # {} /\ k + m = e
      BY <1>1, <3>2, SizesAre
    <3>4. k \notin (o + 1)..(e - 1)
      BY <1>5, <3>3
    <3>5. ~(k < o)
      <4> SUFFICES ASSUME k < o
                   PROVE  FALSE
        OBVIOUS
      <4>1. k \in q..(o - 1)
        BY <1>1
      <4>2. PICK j \in CharSizes : k + j <= o /\ CharOf(Slice(k, k + j)) # {}
        BY <3>3, <4>1 DEF Decoded
      <4>3. j \in Nat \ {0} /\ k + j <= Len(input) /\ k + m <= Len(input)
        BY <1>1, <1>2, <3>3, <4>2, SizesAre
      <4>4. j = CharSize(k) /\ m = CharSize(k)
        BY <3>3, <4>2, <4>3, SameSize
      <4> QED
        BY <1>1, <1>2, <3>3, <4>2, <4>3, <4>4
    <3>6. k = o
      BY <1>1, <1>3, <3>3, <3>4, <3>5
    <3>7. m = n
      BY <1>1, <1>2, <3>3, <3>6
    <3>8. PICK before \in Decodings(q, k) : \E d \in CharOf(Slice(k, k + m)) : x = before \o d
      BY <3>2
    <3>9. before = text
      BY <3>6 DEF Decoded
    <3> QED
      BY <1>1, <3>6, <3>7, <3>8, <3>9
  <2>2. ASSUME x = text \o c
        PROVE  x \in Decodings(q, e)
    <3>1. text \in Decodings(q, e - n) /\ c \in CharOf(Slice(e - n, e))
      BY <1>1, <1>2, <1>3 DEF Decoded
    <3>2. \A y : y \in Decodings(q, e) <=>
            \E m \in CharSizes : \E before \in Decodings(q, e - m) : \E d \in CharOf(Slice(e - m, e)) :
              m <= e - q /\ y = before \o d
      BY <1>3, DecodingsEnd
    <3>3. \E m \in CharSizes : \E before \in Decodings(q, e - m) : \E d \in CharOf(Slice(e - m, e)) :
            m <= e - q /\ x = before \o d
      <4>1. \E d \in CharOf(Slice(e - n, e)) : n <= e - q /\ x = text \o d
        BY <1>3, <2>2, <3>1
      <4>2. \E before \in Decodings(q, e - n) : \E d \in CharOf(Slice(e - n, e)) : n <= e - q /\ x = before \o d
        BY <3>1, <4>1
      <4> QED
        BY <1>1, <4>2
    <3> QED
      BY <3>2, <3>3
  <2> QED
    BY <2>1, <2>2
<1>7. Decodings(q, e) = {text \o c}
  BY <1>6
<1>8. \A k \in q..(e - 1) : Decodings(q, k) # {} =>
        \E m \in CharSizes : k + m <= e /\ CharOf(Slice(k, k + m)) # {}
  <2> TAKE k \in q..(e - 1)
  <2> HAVE Decodings(q, k) # {}
  <2>1. k \in q..(o - 1) \/ k = o
    BY <1>1, <1>3, <1>5
  <2>2. CASE k \in q..(o - 1)
    <3>1. PICK m \in CharSizes : k + m <= o /\ CharOf(Slice(k, k + m)) # {}
      BY <2>2 DEF Decoded
    <3> QED
      BY <1>1, <1>2, <3>1, SizesAre
  <2>3. CASE k = o
    <3>1. k + n <= e
      BY <1>1, <1>2, <2>3
    <3>2. CharOf(Slice(k, k + n)) # {}
      BY <1>1, <2>3
    <3> QED
      BY <1>1, <3>1, <3>2
  <2> QED
    BY <2>1, <2>2, <2>3
<1> QED
  BY <1>2, <1>3, <1>7, <1>8 DEF Decoded

\* Where no character begins, the only quote behind characters can be there.
LEMMA StringStops ==
  ASSUME input \in Seq(Bytes), NEW q \in 0..Len(input), NEW o \in q..Len(input), NEW text, Decoded(q, o, text),
         NoChar(o), NEW e \in q..(Len(input) - 1), Byte(e) = Quote, Decodings(q, e) # {}
  PROVE  e = o
<1>1. o \in Nat /\ q \in Nat /\ e \in Nat /\ q <= o /\ q <= e /\ e < Len(input) /\ Len(input) \in Nat
  OBVIOUS
<1>2. ~(e > o)
  <2> SUFFICES ASSUME e > o
               PROVE  FALSE
    OBVIOUS
  <2>1. e \in (o + 1)..Len(input)
    BY <1>1
  <2>2. PICK n \in CharSizes : o + n <= e /\ CharOf(Slice(o, o + n)) # {}
    BY <2>1, NextChar
  <2> QED
    BY <1>1, <2>2, SizesAre DEF NoChar
<1>3. ~(e < o)
  <2> SUFFICES ASSUME e < o
               PROVE  FALSE
    OBVIOUS
  <2>1. e \in q..(o - 1)
    BY <1>1
  <2>2. PICK n \in CharSizes : e + n <= o /\ CharOf(Slice(e, e + n)) # {}
    BY <2>1 DEF Decoded
  <2>3. e + n <= Len(input)
    BY <1>1, <2>2, SizesAre
  <2>4. Byte(e) \in LeadBytes
    BY <1>1, <2>2, <2>3, SameSize
  <2> QED
    BY <2>4, QuoteLeads
<1> QED
  BY <1>1, <1>2, <1>3

\* A quote begins no other token.
LEMMA QuoteClass ==
  /\ Quote \notin SignBytes /\ Quote \notin WordBytes /\ Quote \notin Digits \cup {Minus} /\ Quote \notin Whitespace
BY DEF Quote, SignBytes, WordBytes, Digits, Minus, Whitespace

\* The texts of the tokens from a quote to e.
LEMMA StringsFrom ==
  ASSUME input \in Seq(Bytes), NEW p \in 0..(Len(input) - 1), Byte(p) = Quote, NEW e \in (p + 1)..Len(input)
  PROVE  TokensOf(Slice(p, e)) =
           IF e > p + 1 /\ Byte(e - 1) = Quote
           THEN {[kind |-> "string", text |-> t] : t \in Decodings(p + 1, e - 1)} ELSE {}
<1> DEFINE s == Slice(p, e)
<1>1. p \in Nat /\ Len(input) \in Nat /\ e \in Nat /\ p + 1 <= e /\ e <= Len(input)
  OBVIOUS
<1>2. s \in Seq(Bytes) /\ Len(s) = e - p /\ Head(s) = Byte(p)
  BY FirstByteDecides
<1>3. TokensOf(s) = StringsOf(s)
  <2>1. SignsOf(s) = {} /\ WordsOf(s) = {} /\ NumbersOf(s) = {}
    BY QuoteClass, FirstByteDecides
  <2> QED
    BY <2>1, TokensOfIs
<1>4. PICK n \in Nat \ {0} : n = e - p
  BY <1>1
<1>5. /\ Last(s) = Byte(e - 1)
      /\ n >= 2 => SubSeq(s, 2, n - 1) = Slice(p + 1, e - 1)
  <2>1. p + n = e /\ n \in 1..n /\ p + n - 1 = e - 1 /\ n \in Nat /\ p + n <= Len(input)
    BY <1>1, <1>4
  <2>2. /\ Slice(p, p + n)[n] = Byte(p + n - 1)
        /\ \A i \in 0..n : \A j \in i..n : SubSeq(Slice(p, p + n), i + 1, j) = Slice(p + i, p + j)
    BY <1>1, <2>1, SliceOf
  <2> HIDE DEF s
  <2>3. s = Slice(p, p + n)
    BY <2>1 DEF s
  <2>4. s[n] = Byte(e - 1) /\ \A i \in 0..n : \A j \in i..n : SubSeq(s, i + 1, j) = Slice(p + i, p + j)
    BY <2>1, <2>2, <2>3
  <2>5. Last(s) = Byte(e - 1)
    BY <1>2, <1>4, <2>4 DEF Last
  <2>6. ASSUME n >= 2
        PROVE  SubSeq(s, 2, n - 1) = Slice(p + 1, e - 1)
    <3>1. 1 \in 0..n /\ n - 1 \in 1..n /\ p + (n - 1) = e - 1 /\ 1 + 1 = 2
      BY <1>1, <1>4, <2>6
    <3>2. SubSeq(s, 1 + 1, n - 1) = Slice(p + 1, p + (n - 1))
      BY <2>4, <3>1
    <3> QED
      BY <3>1, <3>2
  <2> QED
    BY <2>5, <2>6
<1>6. n >= 2 => CharsOf(Slice(p + 1, e - 1)) = Decodings(p + 1, e - 1)
  <2> SUFFICES ASSUME n >= 2
               PROVE  CharsOf(Slice(p + 1, e - 1)) = Decodings(p + 1, e - 1)
    OBVIOUS
  <2>1. PICK q \in 0..Len(input) : q = p + 1
    BY <1>1
  <2>2. PICK o \in q..Len(input) : o = e - 1
    BY <1>1, <1>4, <2>1
  <2>3. CharsOf(Slice(q, o)) = Decodings(q, o)
    BY CharsOfIs
  <2> QED
    BY <2>1, <2>2, <2>3
<1>7. n >= 2 <=> e > p + 1
  BY <1>1, <1>4
<1> HIDE DEF s
<1>8. StringsOf(s) =
        IF e > p + 1 /\ Byte(e - 1) = Quote
        THEN {[kind |-> "string", text |-> t] : t \in Decodings(p + 1, e - 1)} ELSE {}
  <2>1. Len(s) = n
    BY <1>2, <1>4
  <2>2. StringsOf(s) = IF n >= 2 /\ Byte(e - 1) = Quote
                       THEN {[kind |-> "string", text |-> t] : t \in CharsOf(SubSeq(s, 2, n - 1))} ELSE {}
    BY <1>2, <1>5, <2>1 DEF StringsOf
  <2>3. CASE n >= 2
    BY <1>5, <1>6, <1>7, <2>2, <2>3
  <2>4. CASE ~(n >= 2)
    BY <1>7, <2>2, <2>4
  <2> QED
    BY <2>3, <2>4
<1> QED
  BY <1>3, <1>8 DEF s

\* A string is a token to the first quote no character takes; if something else
\* stops the characters, there is none.
LEMMA StringReads ==
  ASSUME input \in Seq(Bytes), NEW p \in 0..(Len(input) - 1), Byte(p) = Quote, NEW q \in 0..Len(input), q = p + 1,
         NEW o \in q..Len(input), NEW text, Decoded(q, o, text), NoChar(o)
  PROVE  IF Byte(o) = Quote
         THEN o + 1 \in (p + 1)..Len(input) /\ ReadsTo(p, o + 1, [kind |-> "string", text |-> text])
         ELSE ~CanBeCut(p)
<1>1. p \in Nat /\ q \in Nat /\ o \in Nat /\ Len(input) \in Nat /\ p < o /\ o <= Len(input) /\ p < Len(input)
  OBVIOUS
<1>2. Byte(p) \notin Whitespace
  BY QuoteClass
<1>3. ASSUME NEW e \in (p + 1)..Len(input), TokensOf(Slice(p, e)) # {}
      PROVE  e = o + 1 /\ Byte(o) = Quote
  <2>1. e > p + 1 /\ Byte(e - 1) = Quote /\ Decodings(p + 1, e - 1) # {}
    BY <1>3, StringsFrom
  <2>2. PICK d \in q..(Len(input) - 1) : d = e - 1
    BY <1>1, <2>1
  <2>3. Byte(d) = Quote /\ Decodings(q, d) # {}
    BY <2>1, <2>2
  <2>4. d = o
    BY <2>3, StringStops
  <2> QED
    BY <1>1, <2>1, <2>2, <2>4
<1>4. CASE Byte(o) = Quote
  <2>1. o < Len(input)
    BY <1>1, <1>4, ByteIsThere DEF Quote, None
  <2>2. PICK e \in (p + 1)..Len(input) : e = o + 1
    BY <1>1, <2>1
  <2>3. TokensOf(Slice(p, e)) = {[kind |-> "string", text |-> text]}
    <3>1. e > p + 1 /\ e - 1 = o
      BY <1>1, <2>2
    <3>2. TokensOf(Slice(p, e)) = {[kind |-> "string", text |-> t] : t \in Decodings(p + 1, e - 1)}
      BY <1>4, <3>1, StringsFrom
    <3>3. Decodings(p + 1, e - 1) = {text}
      BY <3>1 DEF Decoded
    <3> QED
      BY <3>2, <3>3
  <2>4. CanBeCut(p) => CanBeCut(e)
    <3>1. \A d \in (p + 1)..Len(input) :
            TokensOf(Slice(p, d)) # {} /\ IsPiece(input, p + 1, d) /\ CanBeCut(d) => d \in {e}
      BY <1>3, <2>2
    <3>2. CanBeCut(p) => \E d \in {e} : CanBeCut(d)
      BY <1>2, <3>1, CutOnlyAt
    <3> QED
      BY <3>2
  <2> QED
    BY <1>4, <2>2, <2>3, <2>4 DEF ReadsTo
<1>5. CASE Byte(o) # Quote
  <2>1. \A d \in (p + 1)..Len(input) :
          TokensOf(Slice(p, d)) # {} /\ IsPiece(input, p + 1, d) /\ CanBeCut(d) => d \in {}
    BY <1>3, <1>5
  <2>2. ~CanBeCut(p)
    BY <1>2, <2>1, CutOnlyAt
  <2> QED
    BY <1>5, <2>2
<1> QED
  BY <1>4, <1>5

-----------------------------------------------------------------------------
(* What a step of the tokeniser passes over *)

\* They include all but control characters and what continues a character.
LEMMA AreBytesPlain ==
  ASSUME NEW b \in 11..127 \cup {9} \cup 192..255
  PROVE  b \in PlainBytes
BY DEF PlainBytes, Bytes, Newline

\* Bytes that count one column each.
LEMMA OverBytes ==
  ASSUME input \in Seq(Bytes), NEW o \in Nat, NEW n \in Nat, o + n <= Len(input),
         \A k \in o..(o + n - 1) : Byte(k) \in PlainBytes
  PROVE  Over(PositionOf(o), n, n) = PositionOf(o + n)
<1>1. \A k \in (o + 1)..(o + n) : input[k] \in PlainBytes
  <2> TAKE k \in (o + 1)..(o + n)
  <2>1. PICK j \in o..(o + n - 1) : j = k - 1 /\ j + 1 = k /\ j \in Nat /\ j < Len(input)
    OBVIOUS
  <2>2. Byte(j) = input[j + 1] /\ Byte(j) \in PlainBytes
    BY <2>1, ByteOf
  <2> QED
    BY <2>1, <2>2
<1> QED
  BY <1>1, OverPlain

\* One byte that is one column.
LEMMA OverOne ==
  ASSUME input \in Seq(Bytes), NEW o \in Nat, o < Len(input), Byte(o) \in PlainBytes
  PROVE  Over(PositionOf(o), 1, 1) = PositionOf(o + 1)
<1>1. 1 \in Nat /\ o + 1 <= Len(input) /\ \A k \in o..(o + 1 - 1) : k = o
  OBVIOUS
<1>2. \A k \in o..(o + 1 - 1) : Byte(k) \in PlainBytes
  BY <1>1
<1> QED
  BY <1>1, <1>2, OverBytes

\* The bytes of a number.
NumberBytes == {43, 45, 46} \cup 48..57 \cup {69, 101}

\* They are one column each.
LEMMA NumberBytesPlain == NumberBytes \subseteq PlainBytes
<1>1. \A b \in NumberBytes : b \in 11..127 \cup {9} \cup 192..255
  BY DEF NumberBytes
<1> QED
  BY <1>1, AreBytesPlain

\* So all of a number is.
LEMMA NumberIsPlain ==
  ASSUME NEW o \in Nat, NEW e \in Nat, NumberFills(o, e)
  PROVE  \A k \in o..(e - 1) : Byte(k) \in PlainBytes
<1>1. PICK b \in o..e, c \in o..e : IntFills(IntBegin(o), b) /\ FracFills(b, c) /\ ExpFills(c, e)
  BY DEF NumberFills
<1>2. b \in Nat /\ c \in Nat
  OBVIOUS
<1>3. \A d : d \in Digits \cup {Minus, Dot} \cup Exponents \cup Signs => d \in NumberBytes
  BY DEF Digits, Minus, Dot, Exponents, Signs, NumberBytes
<1>4. \A k \in o..(b - 1) : Byte(k) \in NumberBytes
  <2> TAKE k \in o..(b - 1)
  <2>1. CASE k \in IntBegin(o)..(b - 1)
    BY <1>1, <1>3, <2>1 DEF IntFills, DigitsFill
  <2>2. CASE k \notin IntBegin(o)..(b - 1)
    <3>1. k = o /\ Byte(o) = Minus
      BY <1>2, <2>2 DEF IntBegin
    <3> QED
      BY <1>3, <3>1
  <2> QED
    BY <2>1, <2>2
<1>5. \A k \in b..(c - 1) : Byte(k) \in NumberBytes
  <2> TAKE k \in b..(c - 1)
  <2>1. Byte(b) = Dot /\ DigitsFill(b + 1, c)
    BY <1>1, <1>2 DEF FracFills
  <2>2. k = b \/ k \in (b + 1)..(c - 1)
    BY <1>2
  <2> QED
    BY <1>3, <2>1, <2>2 DEF DigitsFill
<1>6. \A k \in c..(e - 1) : Byte(k) \in NumberBytes
  <2> TAKE k \in c..(e - 1)
  <2>1. Byte(c) \in Exponents /\ DigitsFill(ExpBegin(c), e)
    BY <1>1, <1>2 DEF ExpFills
  <2>2. CASE k \in ExpBegin(c)..(e - 1)
    BY <1>3, <2>1, <2>2 DEF DigitsFill
  <2>3. CASE k \notin ExpBegin(c)..(e - 1)
    <3>1. k = c \/ (k = c + 1 /\ Byte(c + 1) \in Signs)
      BY <1>2, <2>3 DEF ExpBegin
    <3> QED
      BY <1>3, <2>1, <3>1
  <2> QED
    BY <2>2, <2>3
<1>7. \A k \in o..(e - 1) : k \in o..(b - 1) \/ k \in b..(c - 1) \/ k \in c..(e - 1)
  BY <1>2
<1> QED
  BY <1>4, <1>5, <1>6, <1>7, NumberBytesPlain

\* A character of several bytes is one column.
LEMMA Utf8IsColumn ==
  ASSUME input \in Seq(Bytes), NEW o \in Nat, NEW n \in 2..4, o + n <= Len(input), IsUtf8Char(Slice(o, o + n))
  PROVE  Over(PositionOf(o), n, 1) = PositionOf(o + n)
<1> DEFINE s == Slice(o, o + n)
<1>1. n \in Nat /\ n \in Nat \ {0} /\ o \in 0..Len(input) /\ o + n \in o..Len(input) /\ o < Len(input)
  OBVIOUS
<1>2. Len(s) = n /\ \A i \in 1..n : s[i] = Byte(o + i - 1)
  BY <1>1, SliceOf
<1> HIDE DEF s
<1>3. \A i \in 1..n : s[i] = input[o + i]
  <2> TAKE i \in 1..n
  <2>1. PICK j \in Nat : j = o + i - 1 /\ j + 1 = o + i /\ j < Len(input)
    BY <1>1
  <2>2. Byte(j) = input[j + 1]
    BY <2>1, ByteOf
  <2> QED
    BY <1>2, <2>1, <2>2
<1>4. Utf8Length(s[1]) = n /\ s[2] \in SecondBytes(s[1]) /\ \A i \in 3..n : s[i] \in 128..191
  BY <1>2 DEF IsUtf8Char, s
<1>5. s[1] = input[o + 1] /\ s[1] \in Bytes
  <2>1. 1 \in 1..n /\ o + 1 \in 1..Len(input)
    BY <1>1
  <2> QED
    BY <1>3, <2>1
<1>6. input[o + 1] \in PlainBytes
  <2>1. s[1] \in 194..244
    <3>1. PICK b \in Bytes : b = s[1]
      BY <1>5
    <3>2. Utf8Length(b) \in 2..4
      BY <1>4, <3>1
    <3>3. b \in 194..244
      BY <3>2, Utf8Lead
    <3> QED
      BY <3>1, <3>3
  <2>2. s[1] \in 11..127 \cup {9} \cup 192..255
    BY <2>1
  <2> QED
    BY <1>5, <2>2, AreBytesPlain
<1>7. s[2] \in 128..191
  <2>1. SecondBytes(s[1]) \subseteq 128..191
    BY DEF SecondBytes
  <2> QED
    BY <1>4, <2>1
<1>8. \A k \in (o + 2)..(o + n) : input[k] \in 128..191
  <2> TAKE k \in (o + 2)..(o + n)
  <2>1. PICK i \in 2..n : k = o + i
    <3>1. k - o \in 2..n /\ k = o + (k - o)
      BY <1>1
    <3> QED
      BY <3>1
  <2>2. i \in 1..n /\ (i = 2 \/ i \in 3..n)
    BY <1>1
  <2> QED
    BY <1>3, <1>4, <1>7, <2>1, <2>2
<1> QED
  BY <1>1, <1>6, <1>8, OverChar

\* An escape is as many columns as it has bytes.
LEMMA EscapeIsPlain ==
  ASSUME input \in Seq(Bytes), NEW o \in Nat, EscapeAt(o)
  PROVE  \A k \in o..(o + 5) : Byte(k) \in PlainBytes
<1>1. \A b \in HexDigits \cup {Backslash, LetterU} : b \in 11..127 \cup {9} \cup 192..255
  BY HexClass DEF Backslash, LetterU
<1>2. \A b \in HexDigits \cup {Backslash, LetterU} : b \in PlainBytes
  <2> TAKE b \in HexDigits \cup {Backslash, LetterU}
  <2>1. b \in 11..127 \cup {9} \cup 192..255
    BY <1>1
  <2> QED
    BY <2>1, AreBytesPlain
<1>3. \A k \in o..(o + 5) : k = o \/ k = o + 1 \/ \E j \in 0..3 : k = o + 2 + j
  <2> TAKE k \in o..(o + 5)
  <2>1. k = o \/ k = o + 1 \/ (k - (o + 2) \in 0..3 /\ k = o + 2 + (k - (o + 2)))
    OBVIOUS
  <2> QED
    BY <2>1
<1> QED
  BY <1>2, <1>3 DEF EscapeAt, HexThere

\* So is an escape of two bytes.
LEMMA SimpleIsPlain ==
  ASSUME NEW b, b \in DOMAIN Escapes \cup {Backslash}
  PROVE  b \in PlainBytes
<1>1. b \in 11..127 \cup {9} \cup 192..255
  BY DEF Escapes, Backslash
<1> QED
  BY <1>1, AreBytesPlain

-----------------------------------------------------------------------------
(* What the tokeniser knows *)

Counted(p) == p = PositionOf(p.offset)
Blank(from, to) == \A k \in from..(to - 1) : Byte(k) \in Whitespace
CutTo(o) == CanBeCut(0) => CanBeCut(o)

\* Where the last token ends.
Behind == IF tokens = <<>> THEN 0 ELSE Last(tokens).end.offset

Spelt(i) ==
  LET t == tokens[i]
      before == IF i = 1 THEN 0 ELSE tokens[i - 1].end.offset
  IN /\ Counted(t.pos) /\ Counted(t.end)
     /\ before <= t.pos.offset /\ t.pos.offset <= t.end.offset /\ Blank(before, t.pos.offset)
     /\ TokensOf(Slice(t.pos.offset, t.end.offset)) = {[kind |-> t.kind, text |-> t.text]}

\* Every way to cut the text leads here, and a string that has begun denotes
\* what has been decoded of it.
Lexed ==
  /\ Counted(pos) /\ Counted(opened) /\ Counted(error.pos)
  /\ \A i \in 1..Len(tokens) : Spelt(i)
  /\ lexer = "scan" =>
       Behind <= pos.offset /\ Blank(Behind, pos.offset) /\ CutTo(pos.offset) /\ out = <<>>
  /\ lexer = "string" =>
       /\ Behind <= opened.offset /\ Blank(Behind, opened.offset) /\ CutTo(opened.offset)
       /\ opened.offset < pos.offset /\ Byte(opened.offset) = Quote
       /\ Decoded(opened.offset + 1, pos.offset, out)
  /\ lexer = "done" /\ mode = "whole" => Blank(Behind, Len(input))
  /\ lexer = "failed" => ~CanBeCut(0)

LexInv == CursorInTokens /\ PlacesInText /\ Lexed

\* All this is said of the text, which stays.
LEMMA TextStays ==
  ASSUME input' = input
  PROVE  /\ \A p : Counted(p)' <=> Counted(p)
         /\ \A a, b : Blank(a, b)' <=> Blank(a, b)
         /\ \A o : CanBeCut(o)' <=> CanBeCut(o)
         /\ \A o : CutTo(o)' <=> CutTo(o)
         /\ \A o : Byte(o)' = Byte(o)
         /\ \A q, o, text : Decoded(q, o, text)' <=> Decoded(q, o, text)
         /\ \A o, e : Slice(o, e)' = Slice(o, e)
<1>1. \A p : Counted(p)' <=> Counted(p)
  BY DEF Counted, PositionOf
<1>2. \A o : Byte(o)' = Byte(o)
  BY DEF Byte
<1>3. \A a, b : Blank(a, b)' <=> Blank(a, b)
  BY <1>2 DEF Blank
<1>4. \A o : CanBeCut(o)' <=> CanBeCut(o)
  BY DEF CanBeCut
<1>5. \A o : CutTo(o)' <=> CutTo(o)
  BY <1>4 DEF CutTo
<1>6. \A q, o, text : Decoded(q, o, text)' <=> Decoded(q, o, text)
  BY DEF Decoded, Decodings, Slice
<1>7. \A o, e : Slice(o, e)' = Slice(o, e)
  BY DEF Slice
<1> QED
  BY <1>1, <1>2, <1>3, <1>4, <1>5, <1>6, <1>7

\* The numbers in what is known.
LEMMA PlacesAre ==
  ASSUME LexInv
  PROVE  /\ input \in Seq(Bytes) /\ Len(input) \in Nat
         /\ pos.offset \in 0..Len(input) /\ opened.offset \in 0..Len(input)
         /\ Len(tokens) \in Nat /\ Behind \in 0..Len(input)
         /\ \A i \in 1..Len(tokens) : tokens[i].pos.offset \in 0..Len(input) /\ tokens[i].end.offset \in 0..Len(input)
<1>1. PICK S : tokens \in Seq(S)
  BY DEF LexInv, CursorInTokens
<1>2. Len(tokens) \in Nat /\ (tokens # <<>> => Len(tokens) \in 1..Len(tokens))
  BY <1>1
<1>3. input \in Seq(Bytes) /\ Len(input) \in Nat /\ pos.offset \in 0..Len(input) /\ opened.offset \in 0..Len(input)
  BY DEF LexInv, PlacesInText, Positions
<1>4. \A i \in 1..Len(tokens) : tokens[i].pos.offset \in 0..Len(input) /\ tokens[i].end.offset \in 0..Len(input)
  BY DEF LexInv, PlacesInText, Positions
<1>5. Behind \in 0..Len(input)
  BY <1>2, <1>3, <1>4 DEF Behind, Last
<1> QED
  BY <1>2, <1>3, <1>4, <1>5

\* The tokens so far are what they were.
LEMMA SpeltStays ==
  ASSUME input' = input, tokens' = tokens, NEW i, Spelt(i)
  PROVE  Spelt(i)'
BY TextStays DEF Spelt

\* Between a place and itself there is only white space.
LEMMA EmptyIsBlank == \A o \in Nat : Blank(o, o)
BY DEF Blank

\* A token is noted that spells what it stands for.
LEMMA EmitLexes ==
  ASSUME LexInv, NEW token, Emit(token), lexer = "scan" \/ lexer = "string",
         NEW p \in 0..Len(input), NEW e \in p..Len(input),
         token.pos = PositionOf(p), token.end = PositionOf(e),
         Behind <= p, Blank(Behind, p), CutTo(p),
         ReadsTo(p, e, [kind |-> token.kind, text |-> token.text])
  PROVE  Lexed'
<1>1. PICK S : tokens \in Seq(S)
  BY DEF LexInv, CursorInTokens
<1>2. /\ tokens' = Append(tokens, token) /\ pos' = token.end /\ lexer' = "scan" /\ out' = <<>>
      /\ input' = input /\ mode' = mode /\ opened' = opened /\ error' = error
  BY DEF Emit
<1>3. p \in Nat /\ e \in Nat /\ p <= e /\ e <= Len(input) /\ Len(tokens) \in Nat
  BY PlacesAre
<1>4. token.pos.offset = p /\ token.end.offset = e
  BY PositionIs
<1>5. Len(tokens') = Len(tokens) + 1 /\ \A i \in 1..Len(tokens') : tokens'[i] = IF i <= Len(tokens) THEN tokens[i] ELSE token
  BY <1>1, <1>2
<1>6. tokens' # <<>> /\ Last(tokens') = token
  BY <1>1, <1>2, <1>5 DEF Last
<1>7. Behind' = e
  BY <1>4, <1>6 DEF Behind
<1>8. Counted(token.pos) /\ Counted(token.end)
  BY <1>4 DEF Counted
<1>9. Counted(pos)' /\ Counted(opened)' /\ Counted(error.pos)'
  BY <1>2, <1>8, TextStays DEF LexInv, Lexed
<1>10. \A i \in 1..Len(tokens') : Spelt(i)'
  <2> TAKE i \in 1..Len(tokens')
  <2>1. CASE i <= Len(tokens)
    <3>1. i \in 1..Len(tokens) /\ (i # 1 => i - 1 \in 1..Len(tokens'))
      BY <1>3, <1>5, <2>1
    <3>2. tokens'[i] = tokens[i] /\ (i # 1 => tokens'[i - 1] = tokens[i - 1])
      BY <1>3, <1>5, <2>1, <3>1
    <3>3. Spelt(i)
      BY <3>1 DEF LexInv, Lexed
    <3> QED
      BY <1>2, <3>2, <3>3, TextStays DEF Spelt
  <2>2. CASE ~(i <= Len(tokens))
    <3>1. i = Len(tokens) + 1 /\ tokens'[i] = token
      BY <1>3, <1>5, <2>2
    <3>2. (IF i = 1 THEN 0 ELSE tokens'[i - 1].end.offset) = Behind
      <4>1. CASE i = 1
        <5>1. Len(tokens) = 0
          BY <1>3, <3>1, <4>1
        <5>2. tokens = <<>>
          BY <1>1, <5>1
        <5> QED
          BY <4>1, <5>2 DEF Behind
      <4>2. CASE i # 1
        <5>1. i - 1 = Len(tokens) /\ i - 1 \in 1..Len(tokens')  /\ tokens # <<>>
          BY <1>1, <1>3, <1>5, <3>1, <4>2
        <5>2. tokens'[i - 1] = tokens[Len(tokens)]
          BY <1>3, <1>5, <5>1
        <5> QED
          BY <4>2, <5>1, <5>2 DEF Behind, Last
      <4> QED
        BY <4>1, <4>2
    <3>3. TokensOf(Slice(p, e)) = {[kind |-> token.kind, text |-> token.text]}
      BY DEF ReadsTo
    <3> HIDE DEF Behind
    <3>4. PICK b : b = Behind
      OBVIOUS
    <3>5. /\ Counted(token.pos)' /\ Counted(token.end)' /\ Blank(b, p)' /\ Slice(p, e)' = Slice(p, e)
      BY <1>2, <1>8, <3>4, TextStays
    <3> QED
      BY <1>3, <1>4, <3>1, <3>2, <3>3, <3>4, <3>5 DEF Spelt
  <2> QED
    BY <2>1, <2>2
<1>11. Blank(e, e)' /\ CutTo(e)'
  <2>1. Blank(e, e) /\ CutTo(e)
    BY <1>3, EmptyIsBlank DEF CutTo, ReadsTo
  <2> QED
    BY <1>2, <2>1, TextStays
<1>12. pos'.offset = e
  BY <1>2, <1>4
<1> QED
  BY <1>2, <1>3, <1>7, <1>9, <1>10, <1>11, <1>12 DEF Lexed

\* An error that there is no way around.
LEMMA FailLexes ==
  ASSUME LexInv, NEW kind, NEW p, Fail(kind, p), Counted(p), ~CanBeCut(0)
  PROVE  Lexed'
<1>1. /\ input' = input /\ mode' = mode /\ pos' = pos /\ opened' = opened /\ tokens' = tokens
      /\ lexer' = IF mode = "prefix" THEN "done" ELSE "failed"
      /\ error'.pos = error.pos \/ error'.pos = p
  BY DEF Fail
<1>2. Counted(pos)' /\ Counted(opened)'
  BY <1>1, TextStays DEF LexInv, Lexed
<1>3. Counted(error.pos)'
  BY <1>1, TextStays DEF LexInv, Lexed
<1>4. \A i \in 1..Len(tokens') : Spelt(i)'
  BY <1>1, SpeltStays DEF LexInv, Lexed
<1>5. ~CanBeCut(0)'
  BY <1>1, TextStays
<1> QED
  BY <1>1, <1>2, <1>3, <1>4, <1>5 DEF Lexed

\* A character is decoded.
LEMMA PushLexes ==
  ASSUME LexInv, lexer = "string", NEW char, NEW n, NEW c, Push(char, n, c),
         OneChar(pos.offset, n, char), Over(PositionOf(pos.offset), n, c) = PositionOf(pos.offset + n)
  PROVE  Lexed'
<1>1. /\ input' = input /\ mode' = mode /\ lexer' = lexer /\ opened' = opened /\ tokens' = tokens /\ error' = error
      /\ out' = out \o char /\ pos' = Over(pos, n, c)
  BY DEF Push
<1>2. pos = PositionOf(pos.offset)
  BY DEF LexInv, Lexed, Counted
<1>3. pos' = PositionOf(pos.offset + n)
  BY <1>1, <1>2
<1>4. PICK o \in 0..Len(input) : o = pos.offset
  BY PlacesAre
<1>5. PICK q \in 0..Len(input) : q = opened.offset + 1 /\ q <= o
  <2>1. opened.offset + 1 <= o /\ opened.offset + 1 \in 0..Len(input)
    BY <1>4, PlacesAre DEF LexInv, Lexed
  <2> QED
    BY <2>1
<1>6. Len(input) \in Nat /\ input \in Seq(Bytes) /\ o \in q..Len(input)
  BY <1>4, <1>5, PlacesAre
<1>7. Decoded(q, o, out)
  BY <1>4, <1>5 DEF LexInv, Lexed
<1>8. o + n \in (o + 1)..Len(input) /\ Decoded(q, o + n, out \o char)
  BY <1>4, <1>6, <1>7, PushDecodes
<1>9. pos'.offset = o + n
  BY <1>3, <1>4, PositionIs
<1>10. Counted(pos)' /\ Counted(opened)' /\ Counted(error.pos)'
  <2>1. Counted(PositionOf(o + n))
    BY PositionIs DEF Counted
  <2>2. pos' = PositionOf(o + n)
    BY <1>3, <1>4
  <2> QED
    BY <1>1, <2>1, <2>2, TextStays DEF LexInv, Lexed
<1>11. \A i \in 1..Len(tokens') : Spelt(i)'
  BY <1>1, SpeltStays DEF LexInv, Lexed
<1>12. Decoded(opened.offset + 1, pos.offset, out)'
  <2>1. PICK text : text = out \o char
    OBVIOUS
  <2>2. PICK e : e = o + n
    OBVIOUS
  <2>3. Decoded(q, e, text)
    BY <1>8, <2>1, <2>2
  <2>4. Decoded(q, e, text)'
    BY <1>1, <2>3, TextStays
  <2>5. opened'.offset + 1 = q /\ pos'.offset = e /\ out' = text
    BY <1>1, <1>5, <1>9, <2>1, <2>2
  <2> QED
    BY <2>4, <2>5
<1>13. Behind' = Behind
  BY <1>1 DEF Behind
<1>14. Behind' <= opened'.offset /\ Blank(Behind, opened.offset)' /\ CutTo(opened.offset)' /\ Byte(opened.offset)' = Quote
  <2>1. PICK b : b = Behind
    OBVIOUS
  <2>2. PICK a : a = opened.offset
    OBVIOUS
  <2>3. b <= a /\ Blank(b, a) /\ CutTo(a) /\ Byte(a) = Quote
    BY <2>1, <2>2 DEF LexInv, Lexed
  <2>4. Blank(b, a)' /\ CutTo(a)' /\ Byte(a)' = Quote
    BY <1>1, <2>3, TextStays
  <2> HIDE DEF Behind
  <2> QED
    BY <1>1, <1>13, <2>1, <2>2, <2>3, <2>4
<1>15. opened'.offset < pos'.offset
  <2>1. opened.offset \in Nat /\ opened'.offset = opened.offset
    BY <1>1, PlacesAre
  <2> QED
    BY <1>4, <1>5, <1>8, <1>9, <2>1
<1> QED
  BY <1>1, <1>10, <1>11, <1>12, <1>14, <1>15 DEF Lexed

\* What holds between two tokens.
LEMMA ScanKnows ==
  ASSUME LexInv, lexer = "scan"
  PROVE  \E o \in 0..Len(input) :
           /\ pos = PositionOf(o) /\ pos.offset = o /\ Here = Byte(o)
           /\ Behind <= o /\ Blank(Behind, o) /\ CutTo(o) /\ out = <<>>
           /\ Here # None => o \in 0..(Len(input) - 1) /\ o < Len(input)
<1>1. PICK o \in 0..Len(input) : o = pos.offset
  BY PlacesAre
<1>2. pos = PositionOf(o) /\ Here = Byte(o)
  BY <1>1 DEF LexInv, Lexed, Counted, Here
<1>3. Behind <= o /\ Blank(Behind, o) /\ CutTo(o) /\ out = <<>>
  BY <1>1 DEF LexInv, Lexed
<1>4. Here # None => o \in 0..(Len(input) - 1) /\ o < Len(input)
  <2> SUFFICES ASSUME Here # None
               PROVE  o \in 0..(Len(input) - 1) /\ o < Len(input)
    OBVIOUS
  <2>1. Len(input) \in Nat /\ o \in Nat /\ Byte(o) # None
    BY <1>2, PlacesAre
  <2>2. o < Len(input)
    BY <2>1 DEF Byte
  <2> QED
    BY <2>1, <2>2
<1> QED
  BY <1>1, <1>2, <1>3, <1>4

\* A token of n bytes that each are a column.
LEMMA TokenLexes ==
  ASSUME LexInv, lexer = "scan", NEW kind, NEW text, NEW n \in Nat,
         Emit(Token(kind, text, Over(pos, n, n))), pos.offset + n <= Len(input),
         \A k \in pos.offset..(pos.offset + n - 1) : Byte(k) \in PlainBytes,
         ReadsTo(pos.offset, pos.offset + n, [kind |-> kind, text |-> text])
  PROVE  Lexed'
<1>1. PICK o \in 0..Len(input) : pos = PositionOf(o) /\ pos.offset = o /\ Behind <= o /\ Blank(Behind, o) /\ CutTo(o)
  BY ScanKnows
<1>2. input \in Seq(Bytes) /\ Len(input) \in Nat /\ o \in Nat
  BY PlacesAre
<1>3. Over(pos, n, n) = PositionOf(o + n)
  BY <1>1, <1>2, OverBytes
<1> DEFINE token == Token(kind, text, Over(pos, n, n))
<1>4. token.kind = kind /\ token.text = text /\ token.pos = PositionOf(o) /\ token.end = PositionOf(o + n)
  BY <1>1, <1>3 DEF Token
<1>5. Emit(token)
  OBVIOUS
<1> HIDE DEF token
<1>6. PICK e \in o..Len(input) : e = o + n
  BY <1>1, <1>2
<1>7. ReadsTo(o, e, [kind |-> token.kind, text |-> token.text])
  BY <1>1, <1>4, <1>6
<1> QED
  BY <1>1, <1>4, <1>5, <1>6, <1>7, EmitLexes

\* White space makes no token and opens no other way to cut the text.
LEMMA SkipWsLexes ==
  ASSUME LexInv, SkipWs
  PROVE  Lexed'
<1>1. lexer = "scan" /\ Here \in Whitespace
  BY DEF SkipWs
<1>2. /\ input' = input /\ mode' = mode /\ lexer' = lexer /\ opened' = opened /\ out' = out
      /\ tokens' = tokens /\ error' = error
  BY DEF SkipWs
<1>3. Here # None
  BY <1>1 DEF Whitespace, None
<1>4. PICK o \in 0..Len(input) :
        /\ pos = PositionOf(o) /\ pos.offset = o /\ Here = Byte(o)
        /\ Behind <= o /\ Blank(Behind, o) /\ CutTo(o) /\ out = <<>>
        /\ Here # None => o \in 0..(Len(input) - 1) /\ o < Len(input)
  BY <1>1, ScanKnows
<1>5. input \in Seq(Bytes) /\ Len(input) \in Nat /\ o \in Nat /\ o < Len(input) /\ o \in 0..(Len(input) - 1)
  BY <1>3, <1>4, PlacesAre
<1>6. pos' = PositionOf(o + 1)
  <2>1. CASE Here = Newline
    <3>1. input[o + 1] = Newline
      BY <1>4, <1>5, <2>1, ByteOf
    <3>2. pos' = [line |-> pos.line + 1, column |-> 1, offset |-> pos.offset + 1]
      BY <2>1 DEF SkipWs
    <3> QED
      BY <1>4, <1>5, <3>1, <3>2, OverNewline
  <2>2. CASE Here # Newline
    <3>1. Byte(o) \in 11..127 \cup {9} \cup 192..255
      BY <1>1, <1>4, <2>2 DEF Whitespace, Newline
    <3>2. Byte(o) \in PlainBytes
      BY <3>1, AreBytesPlain
    <3>3. pos' = Over(pos, 1, 1)
      BY <2>2 DEF SkipWs
    <3> QED
      BY <1>4, <1>5, <3>2, <3>3, OverOne
  <2> QED
    BY <2>1, <2>2
<1>7. PICK e \in Nat : e = o + 1
  BY <1>5
<1>8. pos' = PositionOf(e) /\ pos'.offset = e
  BY <1>6, <1>7, PositionIs
<1>9. CutTo(e)
  BY <1>1, <1>4, <1>5, <1>7, BlankReads DEF CutTo
<1>10. PICK b : b = Behind
  OBVIOUS
<1>11. b \in Nat /\ b <= o
  BY <1>4, <1>10, PlacesAre
<1>12. Blank(b, e)
  <2>1. \A k \in b..(e - 1) : k \in b..(o - 1) \/ k = o
    BY <1>5, <1>7, <1>11
  <2> QED
    BY <1>1, <1>4, <1>10, <2>1 DEF Blank
<1>13. Behind' = b
  BY <1>2, <1>10 DEF Behind
<1>14. Blank(b, e)' /\ CutTo(e)'
  BY <1>2, <1>9, <1>12, TextStays
<1>15. Blank(Behind, pos.offset)' /\ CutTo(pos.offset)' /\ Behind' <= pos'.offset
  BY <1>5, <1>7, <1>8, <1>11, <1>13, <1>14
<1>16. Counted(pos)' /\ Counted(opened)' /\ Counted(error.pos)'
  <2>1. Counted(PositionOf(e))
    BY PositionIs DEF Counted
  <2> QED
    BY <1>2, <1>8, <2>1, TextStays DEF LexInv, Lexed
<1>17. \A i \in 1..Len(tokens') : Spelt(i)'
  BY <1>2, SpeltStays DEF LexInv, Lexed
<1>18. out' = <<>> /\ lexer' = "scan"
  BY <1>1, <1>2, <1>4
<1> QED
  BY <1>15, <1>16, <1>17, <1>18 DEF Lexed

\* At the end of the input there is only white space behind the last token.
LEMMA EndOfInputLexes ==
  ASSUME LexInv, EndOfInput
  PROVE  Lexed'
<1>1. lexer = "scan" /\ Here = None
  BY DEF EndOfInput
<1>2. /\ input' = input /\ mode' = mode /\ lexer' = "done" /\ pos' = pos /\ opened' = opened /\ out' = out
      /\ tokens' = tokens /\ error' = error
  BY DEF EndOfInput
<1>3. PICK o \in 0..Len(input) : Here = Byte(o) /\ Blank(Behind, o)
  BY <1>1, ScanKnows
<1>4. input \in Seq(Bytes) /\ Len(input) \in Nat /\ o \in Nat
  BY PlacesAre
<1>5. o = Len(input)
  <2> SUFFICES ASSUME o < Len(input)
               PROVE  FALSE
    BY <1>4
  <2>1. None \in Bytes
    BY <1>1, <1>3, <1>4, ByteOf
  <2> QED
    BY <2>1 DEF None, Bytes
<1>6. PICK b : b = Behind
  OBVIOUS
<1>7. PICK l : l = Len(input)
  OBVIOUS
<1>8. Blank(b, l)
  BY <1>3, <1>5, <1>6, <1>7
<1>9. Blank(b, l)'
  BY <1>2, <1>8, TextStays
<1>10. Behind' = b /\ Len(input') = l
  BY <1>2, <1>6, <1>7 DEF Behind
<1>11. Counted(pos)' /\ Counted(opened)' /\ Counted(error.pos)'
  BY <1>2, TextStays DEF LexInv, Lexed
<1>12. \A i \in 1..Len(tokens') : Spelt(i)'
  BY <1>2, SpeltStays DEF LexInv, Lexed
<1>13. Blank(Behind, Len(input))'
  BY <1>9, <1>10
<1> QED
  BY <1>2, <1>11, <1>12, <1>13 DEF Lexed

\* A sign is a token of one byte.
LEMMA StructuralLexes ==
  ASSUME LexInv, Structural
  PROVE  Lexed'
<1>1. /\ lexer = "scan" /\ Here \in DOMAIN Punctuation
      /\ Emit(Token(Punctuation[Here], <<>>, Over(pos, 1, 1)))
  BY DEF Structural
<1>2. Here \in SignBytes
  BY <1>1, PunctuationBytes
<1>3. Here # None /\ Here \in 11..127 \cup {9} \cup 192..255
  BY <1>2 DEF SignBytes, None
<1>4. PICK o \in 0..Len(input) : pos.offset = o /\ Here = Byte(o) /\ (Here # None => o \in 0..(Len(input) - 1))
  BY <1>1, ScanKnows
<1>5. input \in Seq(Bytes) /\ Len(input) \in Nat /\ o \in 0..(Len(input) - 1)
  BY <1>3, <1>4, PlacesAre
<1>6. ReadsTo(o, o + 1, [kind |-> Punctuation[Here], text |-> <<>>])
  BY <1>1, <1>4, <1>5, SignReads
<1>7. \A k \in o..(o + 1 - 1) : Byte(k) \in PlainBytes
  <2>1. \A k \in o..(o + 1 - 1) : k = o
    OBVIOUS
  <2>2. Byte(o) \in PlainBytes
    BY <1>3, <1>4, AreBytesPlain
  <2> QED
    BY <2>1, <2>2
<1>8. 1 \in Nat /\ o + 1 <= Len(input)
  BY <1>5
<1> QED
  BY <1>1, <1>4, <1>6, <1>7, <1>8, TokenLexes

\* A word is there as a whole, or no token begins here.
LEMMA ReadLiteralLexes ==
  ASSUME LexInv, ReadLiteral
  PROVE  Lexed'
<1>1. lexer = "scan"
  BY DEF ReadLiteral
<1>2. PICK w \in Literals :
        /\ Here = Head(w.text)
        /\ IF Slice(pos.offset, pos.offset + Len(w.text)) = w.text
           THEN Emit(Token(w.kind, <<>>, Over(pos, Len(w.text), Len(w.text))))
           ELSE Fail("InvalidLiteral", pos)
  BY DEF ReadLiteral
<1>3. /\ w.text \in Seq(Bytes) /\ Len(w.text) \in {4, 5} /\ Here \in WordBytes
      /\ \A i \in 1..Len(w.text) : w.text[i] \in 97..122
  BY <1>2, LiteralsAre
<1>4. Here # None
  BY <1>3 DEF WordBytes, None
<1>5. PICK o \in 0..Len(input) :
        pos.offset = o /\ Here = Byte(o) /\ CutTo(o) /\ (Here # None => o \in 0..(Len(input) - 1))
  BY <1>1, ScanKnows
<1>6. input \in Seq(Bytes) /\ Len(input) \in Nat /\ o \in 0..(Len(input) - 1) /\ o \in Nat
  BY <1>4, <1>5, PlacesAre
<1>7. PICK n \in Nat : n = Len(w.text)
  BY <1>3
<1>8. IF Slice(o, o + n) = w.text
      THEN o + n <= Len(input) /\ ReadsTo(o, o + n, [kind |-> w.kind, text |-> <<>>])
      ELSE ~CanBeCut(o)
  BY <1>2, <1>5, <1>6, <1>7, WordReads
<1>9. CASE Slice(o, o + n) = w.text
  <2>1. o + n <= Len(input) /\ ReadsTo(o, o + n, [kind |-> w.kind, text |-> <<>>])
    BY <1>8, <1>9
  <2>2. \A i \in 1..n : Slice(o, o + n)[i] = Byte(o + i - 1)
    BY <1>6, <2>1, SliceOf
  <2>3. \A k \in o..(o + n - 1) : Byte(k) \in PlainBytes
    <3> TAKE k \in o..(o + n - 1)
    <3>1. PICK i \in 1..n : o + i - 1 = k
      <4>1. k - o + 1 \in 1..n /\ o + (k - o + 1) - 1 = k
        BY <1>6
      <4> QED
        BY <4>1
    <3>2. Byte(k) \in 97..122
      BY <1>3, <1>7, <1>9, <2>2, <3>1
    <3>3. Byte(k) \in 11..127 \cup {9} \cup 192..255
      BY <3>2
    <3> QED
      BY <3>3, AreBytesPlain
  <2>4. Emit(Token(w.kind, <<>>, Over(pos, n, n)))
    BY <1>2, <1>5, <1>7, <1>9
  <2> QED
    BY <1>1, <1>5, <2>1, <2>3, <2>4, TokenLexes
<1>10. CASE Slice(o, o + n) # w.text
  <2>1. ~CanBeCut(0)
    BY <1>5, <1>8, <1>10 DEF CutTo
  <2>2. Fail("InvalidLiteral", pos)
    BY <1>2, <1>5, <1>7, <1>10
  <2>3. Counted(pos)
    BY DEF LexInv, Lexed
  <2> QED
    BY <2>1, <2>2, <2>3, FailLexes
<1> QED
  BY <1>9, <1>10

\* No token begins with this byte.
LEMMA UnknownByteLexes ==
  ASSUME LexInv, UnknownByte
  PROVE  Lexed'
<1>1. /\ lexer = "scan" /\ Fail("UnexpectedChar", pos)
      /\ Here \notin Whitespace \cup DOMAIN Punctuation \cup Digits \cup {None, Quote, Minus}
      /\ \A word \in Literals : Here # Head(word.text)
  BY DEF UnknownByte
<1>2. Here \notin WordBytes
  <2>1. /\ [kind |-> "true", text |-> <<116, 114, 117, 101>>] \in Literals
        /\ [kind |-> "false", text |-> <<102, 97, 108, 115, 101>>] \in Literals
        /\ [kind |-> "null", text |-> <<110, 117, 108, 108>>] \in Literals
    BY DEF Literals
  <2>2. Head(<<116, 114, 117, 101>>) = 116 /\ Head(<<102, 97, 108, 115, 101>>) = 102 /\ Head(<<110, 117, 108, 108>>) = 110
    OBVIOUS
  <2>3. Here # 116 /\ Here # 102 /\ Here # 110
    BY <1>1, <2>1, <2>2
  <2> QED
    BY <2>3 DEF WordBytes
<1>3. PICK o \in 0..Len(input) :
        pos.offset = o /\ Here = Byte(o) /\ CutTo(o) /\ (Here # None => o \in 0..(Len(input) - 1))
  BY <1>1, ScanKnows
<1>4. ~CanBeCut(o)
  <2>1. input \in Seq(Bytes) /\ o \in 0..(Len(input) - 1)
    BY <1>1, <1>3, PlacesAre
  <2>2. Byte(o) \notin SignBytes \cup WordBytes \cup Digits \cup {Minus, Quote} \cup Whitespace
    BY <1>1, <1>2, <1>3, PunctuationBytes
  <2> QED
    BY <2>1, <2>2, NothingReads
<1>5. ~CanBeCut(0) /\ Counted(pos)
  BY <1>3, <1>4 DEF CutTo, LexInv, Lexed
<1> QED
  BY <1>1, <1>5, FailLexes

\* A number goes as far as it can; if it breaks off, no shorter one will do.
LEMMA ReadNumberLexes ==
  ASSUME LexInv, ReadNumber
  PROVE  Lexed'
<1>1. lexer = "scan" /\ Here \in Digits \cup {Minus}
  BY DEF ReadNumber
<1>2. Here # None
  BY <1>1 DEF Digits, Minus, None
<1>3. PICK o \in 0..Len(input) :
        pos.offset = o /\ Here = Byte(o) /\ CutTo(o) /\ (Here # None => o \in 0..(Len(input) - 1))
  BY <1>1, ScanKnows
<1>4. input \in Seq(Bytes) /\ Len(input) \in Nat /\ o \in 0..(Len(input) - 1) /\ o \in Nat
  BY <1>2, <1>3, PlacesAre
<1> DEFINE end == NumberEnd(o)
           value == Double(Slice(o, end))
<1>5. IF end # None /\ value # <<>>
      THEN end \in (o + 1)..Len(input) /\ ReadsTo(o, end, [kind |-> "number", text |-> value])
      ELSE ~CanBeCut(o)
  BY <1>1, <1>3, <1>4, NumberReads
<1>6. IF end = None THEN Fail("InvalidNumber", pos)
      ELSE IF value = <<>> THEN Fail("NumberOutOfRange", pos)
      ELSE Emit(Token("number", value, Over(pos, end - o, end - o)))
  BY <1>3 DEF ReadNumber
<1>7. end # None => NumberFills(o, end)
  BY <1>4, NumberStops
<1> HIDE DEF end, value
<1>8. CASE end # None /\ value # <<>>
  <2>1. PICK n \in Nat : n = end - o /\ o + n = end /\ o + n <= Len(input) /\ end \in Nat
    BY <1>4, <1>5, <1>8
  <2>2. \A k \in o..(o + n - 1) : Byte(k) \in PlainBytes
    BY <1>4, <1>7, <1>8, <2>1, NumberIsPlain
  <2>3. Emit(Token("number", value, Over(pos, n, n)))
    BY <1>6, <1>8, <2>1
  <2>4. ReadsTo(o, o + n, [kind |-> "number", text |-> value])
    BY <1>5, <1>8, <2>1
  <2> QED
    BY <1>1, <1>3, <2>1, <2>2, <2>3, <2>4, TokenLexes
<1>9. CASE ~(end # None /\ value # <<>>)
  <2>1. ~CanBeCut(0) /\ Counted(pos)
    BY <1>3, <1>5, <1>9 DEF CutTo, LexInv, Lexed
  <2> QED
    BY <1>6, <1>9, <2>1, FailLexes
<1> QED
  BY <1>8, <1>9

\* Behind its quote a string denotes the empty text so far.
LEMMA OpenStringLexes ==
  ASSUME LexInv, OpenString
  PROVE  Lexed'
<1>1. /\ lexer = "scan" /\ Here = Quote /\ lexer' = "string" /\ opened' = pos /\ pos' = Over(pos, 1, 1)
      /\ input' = input /\ mode' = mode /\ out' = out /\ tokens' = tokens /\ error' = error
  BY DEF OpenString
<1>2. Here # None /\ Here \in 11..127 \cup {9} \cup 192..255
  BY <1>1 DEF Quote, None
<1>3. PICK p \in 0..Len(input) :
        /\ pos = PositionOf(p) /\ pos.offset = p /\ Here = Byte(p)
        /\ Behind <= p /\ Blank(Behind, p) /\ CutTo(p) /\ out = <<>>
        /\ Here # None => p \in 0..(Len(input) - 1) /\ p < Len(input)
  BY <1>1, ScanKnows
<1>4. input \in Seq(Bytes) /\ Len(input) \in Nat /\ p \in Nat /\ p < Len(input)
  BY <1>2, <1>3, PlacesAre
<1>5. PICK q \in 0..Len(input) : q = p + 1
  BY <1>4
<1>6. pos' = PositionOf(q)
  <2>1. Byte(p) \in PlainBytes
    BY <1>2, <1>3, AreBytesPlain
  <2> QED
    BY <1>1, <1>3, <1>4, <1>5, <2>1, OverOne
<1>7. pos'.offset = q /\ opened'.offset = p
  BY <1>1, <1>3, <1>6, PositionIs
<1>8. Decoded(q, q, <<>>)
  BY <1>4, DecodedAtQuote
<1>9. PICK b : b = Behind
  OBVIOUS
<1>10. Behind' = b
  BY <1>1, <1>9 DEF Behind
<1>11. Blank(b, p)' /\ CutTo(p)' /\ Byte(p)' = Quote /\ Decoded(q, q, <<>>)'
  <2>1. Blank(b, p) /\ CutTo(p) /\ Byte(p) = Quote
    BY <1>1, <1>3, <1>9
  <2>2. PICK x : x = <<>>
    OBVIOUS
  <2>3. Decoded(q, q, x)
    BY <1>8, <2>2
  <2>4. Decoded(q, q, x)'
    BY <1>1, <2>3, TextStays
  <2> QED
    BY <1>1, <2>1, <2>2, <2>4, TextStays
<1>12. Counted(pos)' /\ Counted(opened)' /\ Counted(error.pos)'
  <2>1. Counted(PositionOf(q))
    BY PositionIs DEF Counted
  <2>2. Counted(pos) /\ Counted(error.pos)
    BY DEF LexInv, Lexed
  <2> QED
    BY <1>1, <1>6, <2>1, <2>2, TextStays
<1>13. \A i \in 1..Len(tokens') : Spelt(i)'
  BY <1>1, SpeltStays DEF LexInv, Lexed
<1>14. b <= p /\ p < q
  BY <1>3, <1>4, <1>5, <1>9
<1>15. Decoded(opened.offset + 1, pos.offset, out)'
  <2>1. out' = <<>> /\ p + 1 = q
    BY <1>1, <1>3, <1>5
  <2> QED
    BY <1>7, <1>11, <2>1
<1>16. /\ Behind' <= opened'.offset /\ Blank(Behind, opened.offset)' /\ CutTo(opened.offset)'
       /\ opened'.offset < pos'.offset /\ Byte(opened.offset)' = Quote
  BY <1>7, <1>10, <1>11, <1>14
<1> QED
  BY <1>1, <1>12, <1>13, <1>15, <1>16 DEF Lexed

\* What holds inside a string.
LEMMA StringKnows ==
  ASSUME LexInv, lexer = "string"
  PROVE  \E p \in 0..(Len(input) - 1), q \in 0..Len(input) : \E o \in q..Len(input) :
           /\ opened = PositionOf(p) /\ opened.offset = p /\ Byte(p) = Quote /\ q = p + 1
           /\ pos = PositionOf(o) /\ pos.offset = o /\ Here = Byte(o) /\ o \in 0..Len(input) /\ o \in Nat
           /\ Behind <= p /\ Blank(Behind, p) /\ CutTo(p) /\ Decoded(q, o, out)
<1>1. PICK p : p = opened.offset
  OBVIOUS
<1>2. PICK o : o = pos.offset
  OBVIOUS
<1>3. p \in 0..Len(input) /\ o \in 0..Len(input) /\ Len(input) \in Nat
  BY <1>1, <1>2, PlacesAre
<1>4. /\ Behind <= p /\ Blank(Behind, p) /\ CutTo(p)
      /\ p < o /\ Byte(p) = Quote /\ Decoded(p + 1, o, out)
  BY <1>1, <1>2 DEF LexInv, Lexed
<1>5. opened = PositionOf(p) /\ pos = PositionOf(o) /\ Here = Byte(o)
  BY <1>1, <1>2 DEF LexInv, Lexed, Counted, Here
<1>6. PICK q : q = p + 1
  OBVIOUS
<1>7. p \in 0..(Len(input) - 1) /\ q \in 0..Len(input) /\ o \in q..Len(input) /\ o \in Nat
  BY <1>3, <1>4, <1>6
<1>8. Decoded(q, o, out)
  BY <1>4, <1>6
<1> QED
  BY <1>1, <1>2, <1>3, <1>4, <1>5, <1>6, <1>7, <1>8

\* The string ends at the first quote that no character takes.
LEMMA CloseStringLexes ==
  ASSUME LexInv, CloseString
  PROVE  Lexed'
<1> DEFINE token == [Token("string", out, Over(pos, 1, 1)) EXCEPT !.pos = opened]
<1>1. lexer = "string" /\ Here = Quote /\ Emit(token)
  BY DEF CloseString
<1>2. token.kind = "string" /\ token.text = out /\ token.pos = opened /\ token.end = Over(pos, 1, 1)
  BY DEF Token
<1> HIDE DEF token
<1>3. PICK p \in 0..(Len(input) - 1), q \in 0..Len(input) : \E o \in q..Len(input) :
        /\ opened = PositionOf(p) /\ opened.offset = p /\ Byte(p) = Quote /\ q = p + 1
        /\ pos = PositionOf(o) /\ pos.offset = o /\ Here = Byte(o) /\ o \in 0..Len(input) /\ o \in Nat
        /\ Behind <= p /\ Blank(Behind, p) /\ CutTo(p) /\ Decoded(q, o, out)
  BY <1>1, StringKnows
<1>4. PICK o \in q..Len(input) :
        /\ opened = PositionOf(p) /\ opened.offset = p /\ Byte(p) = Quote /\ q = p + 1
        /\ pos = PositionOf(o) /\ pos.offset = o /\ Here = Byte(o) /\ o \in 0..Len(input) /\ o \in Nat
        /\ Behind <= p /\ Blank(Behind, p) /\ CutTo(p) /\ Decoded(q, o, out)
  BY <1>3
<1>5. input \in Seq(Bytes) /\ Len(input) \in Nat
  BY PlacesAre
<1>6. Byte(o) = Quote /\ NoChar(o)
  <2>1. Byte(o) \notin LeadBytes
    BY <1>1, <1>4, QuoteLeads
  <2> QED
    BY <1>1, <1>4, <1>5, <2>1, OtherIsNoChar
<1>7. o + 1 \in (p + 1)..Len(input) /\ ReadsTo(p, o + 1, [kind |-> "string", text |-> out])
  BY <1>4, <1>5, <1>6, StringReads
<1>8. PICK e \in p..Len(input) : e = o + 1
  BY <1>4, <1>5, <1>7
<1>9. token.end = PositionOf(e)
  <2>1. Byte(o) \in 11..127 \cup {9} \cup 192..255
    BY <1>6 DEF Quote
  <2>2. Byte(o) \in PlainBytes
    BY <2>1, AreBytesPlain
  <2>3. o < Len(input)
    BY <1>4, <1>5, <1>7
  <2> QED
    BY <1>2, <1>4, <1>5, <1>8, <2>2, <2>3, OverOne
<1>10. ReadsTo(p, e, [kind |-> token.kind, text |-> token.text])
  BY <1>2, <1>7, <1>8
<1>11. p \in 0..Len(input) /\ token.pos = PositionOf(p)
  BY <1>2, <1>4, <1>5
<1> QED
  BY <1>1, <1>4, <1>9, <1>10, <1>11, EmitLexes

\* A string that can neither go on nor end.
LEMMA StringFails ==
  ASSUME LexInv, lexer = "string", Here # Quote, NoChar(pos.offset)
  PROVE  ~CanBeCut(0) /\ Counted(pos) /\ Counted(opened)
<1>1. PICK p \in 0..(Len(input) - 1), q \in 0..Len(input) : \E o \in q..Len(input) :
        /\ opened = PositionOf(p) /\ opened.offset = p /\ Byte(p) = Quote /\ q = p + 1
        /\ pos = PositionOf(o) /\ pos.offset = o /\ Here = Byte(o) /\ o \in 0..Len(input) /\ o \in Nat
        /\ Behind <= p /\ Blank(Behind, p) /\ CutTo(p) /\ Decoded(q, o, out)
  BY StringKnows
<1>2. PICK o \in q..Len(input) :
        /\ Byte(p) = Quote /\ q = p + 1
        /\ pos.offset = o /\ Here = Byte(o)
        /\ CutTo(p) /\ Decoded(q, o, out)
  BY <1>1
<1>3. ~CanBeCut(p)
  <2>1. input \in Seq(Bytes) /\ NoChar(o) /\ Byte(o) # Quote
    BY <1>2, PlacesAre
  <2> QED
    BY <1>2, <2>1, StringReads
<1> QED
  BY <1>2, <1>3 DEF CutTo, LexInv, Lexed

\* The text ends within the string,
LEMMA UnterminatedStringLexes ==
  ASSUME LexInv, UnterminatedString
  PROVE  Lexed'
<1>1. lexer = "string" /\ Here = None /\ Fail("UnexpectedEof", opened)
  BY DEF UnterminatedString
<1>2. PICK o : o = pos.offset
  OBVIOUS
<1>3. o \in Nat /\ Byte(o) = None /\ input \in Seq(Bytes)
  BY <1>1, <1>2, PlacesAre DEF Here
<1>4. NoChar(o) /\ Here # Quote
  <2>1. Byte(o) \notin LeadBytes /\ None # Quote
    BY <1>3, QuoteLeads DEF None, Quote
  <2> QED
    BY <1>1, <1>3, <2>1, OtherIsNoChar
<1> QED
  BY <1>1, <1>2, <1>4, StringFails, FailLexes

\* or a control character stands in it.
LEMMA ControlCharLexes ==
  ASSUME LexInv, ControlChar
  PROVE  Lexed'
<1>1. lexer = "string" /\ Here \in Controls /\ Fail("UnexpectedChar", pos)
  BY DEF ControlChar
<1>2. PICK o : o = pos.offset
  OBVIOUS
<1>3. o \in Nat /\ Byte(o) = Here /\ input \in Seq(Bytes)
  BY <1>2, PlacesAre DEF Here
<1>4. \A b \in Controls : b \notin LeadBytes /\ b # Quote
  <2>1. \A b \in Controls : b \in 0..31
    BY DEF Controls
  <2>2. \A b \in LeadBytes : b \in 32..127 \/ b \in 194..244 \/ b = Backslash
    BY PlainClass DEF LeadBytes
  <2> QED
    BY <2>1, <2>2 DEF Backslash, Quote
<1>5. NoChar(o) /\ Here # Quote
  BY <1>1, <1>3, <1>4, OtherIsNoChar
<1> QED
  BY <1>1, <1>2, <1>5, StringFails, FailLexes

\* A byte stands for itself.
LEMMA PlainCharLexes ==
  ASSUME LexInv, PlainChar
  PROVE  Lexed'
<1>1. lexer = "string" /\ Here \in PlainChars /\ Push(<<Here>>, 1, 1)
  BY DEF PlainChar, PlainChars
<1>2. PICK o : o = pos.offset
  OBVIOUS
<1>3. o \in Nat /\ Byte(o) = Here /\ input \in Seq(Bytes)
  BY <1>2, PlacesAre DEF Here
<1>4. OneChar(o, 1, <<Byte(o)>>)
  BY <1>1, <1>3, PlainIsChar
<1>5. Over(PositionOf(o), 1, 1) = PositionOf(o + 1)
  <2>1. Byte(o) \in 11..127 \cup {9} \cup 192..255 /\ Byte(o) # None
    BY <1>1, <1>3, PlainClass
  <2>2. o < Len(input)
    BY <1>3, <2>1, ByteIsThere
  <2> QED
    BY <1>3, <2>1, <2>2, AreBytesPlain, OverOne
<1> QED
  BY <1>1, <1>2, <1>3, <1>4, <1>5, PushLexes

\* Several bytes are a character, or none begins here.
LEMMA Utf8CharLexes ==
  ASSUME LexInv, Utf8Char
  PROVE  Lexed'
<1>1. lexer = "string" /\ Here >= 128
  BY DEF Utf8Char
<1>2. PICK o : o = pos.offset
  OBVIOUS
<1>3. o \in Nat /\ Byte(o) = Here /\ input \in Seq(Bytes)
  BY <1>2, PlacesAre DEF Here
<1>4. PICK n : n = Utf8Length(Here)
  OBVIOUS
<1>5. PICK char : char = Slice(o, o + n)
  OBVIOUS
<1>6. IF n > 0 /\ o + n <= Len(input) /\ IsUtf8Char(char)
      THEN Push(char, n, 1)
      ELSE Fail("InvalidUtf8", pos)
  BY <1>2, <1>4, <1>5 DEF Utf8Char
<1>7. IF n > 0 /\ o + n <= Len(input) /\ IsUtf8Char(char)
      THEN OneChar(o, n, char) /\ n \in 2..4
      ELSE NoChar(o)
  BY <1>1, <1>3, <1>4, <1>5, Utf8IsChar
<1>8. CASE n > 0 /\ o + n <= Len(input) /\ IsUtf8Char(char)
  <2>1. Over(PositionOf(o), n, 1) = PositionOf(o + n)
    BY <1>3, <1>5, <1>7, <1>8, Utf8IsColumn
  <2> QED
    BY <1>1, <1>2, <1>6, <1>7, <1>8, <2>1, PushLexes
<1>9. CASE ~(n > 0 /\ o + n <= Len(input) /\ IsUtf8Char(char))
  <2>1. Here # Quote
    BY <1>1 DEF Quote
  <2> QED
    BY <1>1, <1>2, <1>6, <1>7, <1>9, <2>1, StringFails, FailLexes
<1> QED
  BY <1>8, <1>9

\* An escape of two bytes is a character, or none begins here.
LEMMA SimpleEscapeLexes ==
  ASSUME LexInv, SimpleEscape
  PROVE  Lexed'
<1>1. lexer = "string" /\ Here = Backslash
  BY DEF SimpleEscape
<1>2. PICK o : o = pos.offset
  OBVIOUS
<1>3. o \in Nat /\ Byte(o) = Backslash /\ input \in Seq(Bytes) /\ Len(input) \in Nat
  BY <1>1, <1>2, PlacesAre DEF Here
<1>4. PICK esc : esc = Byte(o + 1)
  OBVIOUS
<1>5. /\ esc # LetterU
      /\ IF esc = None THEN Fail("UnexpectedEof", pos)
         ELSE IF esc \in DOMAIN Escapes THEN Push(<<Escapes[esc]>>, 2, 2)
         ELSE Fail("InvalidEscape", pos)
  BY <1>2, <1>4 DEF SimpleEscape
<1>6. IF esc \in DOMAIN Escapes THEN OneChar(o, 2, <<Escapes[esc]>>) ELSE NoChar(o)
  BY <1>3, <1>4, <1>5, SimpleIsChar
<1>7. None \notin DOMAIN Escapes
  BY DEF Escapes, None
<1>8. CASE esc \in DOMAIN Escapes
  <2>1. 2 \in Nat /\ o + 2 <= Len(input)
    BY <1>6, <1>8 DEF OneChar
  <2>2. \A k \in o..(o + 2 - 1) : k = o \/ k = o + 1
    BY <1>3
  <2>3. \A k \in o..(o + 2 - 1) : Byte(k) \in DOMAIN Escapes \cup {Backslash}
    BY <1>3, <1>4, <1>8, <2>2
  <2>4. \A k \in o..(o + 2 - 1) : Byte(k) \in PlainBytes
    BY <2>3, SimpleIsPlain
  <2>5. Over(PositionOf(o), 2, 2) = PositionOf(o + 2)
    BY <1>3, <2>1, <2>4, OverBytes
  <2>6. Push(<<Escapes[esc]>>, 2, 2)
    BY <1>5, <1>7, <1>8
  <2> QED
    BY <1>1, <1>2, <1>6, <1>8, <2>5, <2>6, PushLexes
<1>9. CASE esc \notin DOMAIN Escapes
  <2>1. Here # Quote
    BY <1>1 DEF Backslash, Quote
  <2>2. ~CanBeCut(0) /\ Counted(pos)
    BY <1>1, <1>2, <1>6, <1>9, <2>1, StringFails
  <2> QED
    BY <1>5, <1>9, <2>2, FailLexes
<1> QED
  BY <1>8, <1>9

\* What read_hex4 finds.
LEMMA Hex4Reads ==
  ASSUME NEW o \in Nat, NEW d, d = Hex4(o)
  PROVE  (d.fault = "None" <=> HexThere(o)) /\ (HexThere(o) => d.code = CodeAt(o))
<1>1. o + 0 = o
  OBVIOUS
<1> QED
  BY <1>1, Hex4Is DEF CodeAt

\* An escape, or two, passed over.
LEMMA EscapesAreColumns ==
  ASSUME input \in Seq(Bytes), NEW o \in Nat, EscapeAt(o)
  PROVE  /\ Over(PositionOf(o), 6, 6) = PositionOf(o + 6)
         /\ EscapeAt(o + 6) => Over(PositionOf(o), 12, 12) = PositionOf(o + 12)
<1>1. o + 6 <= Len(input) /\ 6 \in Nat /\ 12 \in Nat
  BY EscapeInText
<1>2. \A k \in o..(o + 6 - 1) : Byte(k) \in PlainBytes
  <2>1. \A k \in o..(o + 5) : Byte(k) \in PlainBytes
    BY EscapeIsPlain
  <2>2. o + 6 - 1 = o + 5
    OBVIOUS
  <2> QED
    BY <2>1, <2>2
<1>3. ASSUME EscapeAt(o + 6)
      PROVE  o + 12 <= Len(input) /\ \A k \in o..(o + 12 - 1) : Byte(k) \in PlainBytes
  <2>1. PICK m \in Nat : m = o + 6
    OBVIOUS
  <2>2. EscapeAt(m)
    BY <1>3, <2>1
  <2>3. m + 6 <= Len(input) /\ \A k \in m..(m + 5) : Byte(k) \in PlainBytes
    BY <2>2, EscapeInText, EscapeIsPlain
  <2>4. Len(input) \in Nat /\ \A k \in o..(o + 12 - 1) : k \in o..(o + 6 - 1) \/ k \in m..(m + 5)
    BY <2>1
  <2> QED
    BY <1>2, <2>1, <2>3, <2>4
<1>4. Over(PositionOf(o), 6, 6) = PositionOf(o + 6)
  BY <1>1, <1>2, OverBytes
<1>5. ASSUME EscapeAt(o + 6)
      PROVE  Over(PositionOf(o), 12, 12) = PositionOf(o + 12)
  BY <1>1, <1>3, <1>5, OverBytes
<1> QED
  BY <1>4, <1>5

\* The two ranges of surrogates do not meet.
LEMMA SurrogatesApart ==
  ASSUME NEW c \in LowSurrogates
  PROVE  c \notin HighSurrogates
<1>1. c \in Int /\ c >= 56320
  BY DEF LowSurrogates
<1> QED
  BY <1>1 DEF HighSurrogates

\* A \u escape, or a pair of surrogates, is a character, or none begins here.
LEMMA UnicodeEscapeLexes ==
  ASSUME LexInv, UnicodeEscape
  PROVE  Lexed'
<1>1. lexer = "string" /\ Here = Backslash /\ Here # Quote
  BY DEF UnicodeEscape, Backslash, Quote
<1>2. PICK o : o = pos.offset
  OBVIOUS
<1>3. o \in Nat /\ Byte(o) = Backslash /\ Byte(o + 1) = LetterU /\ input \in Seq(Bytes)
  BY <1>1, <1>2, PlacesAre DEF Here, UnicodeEscape
<1>4. PICK high : high = Hex4(o + 2)
  OBVIOUS
<1>5. PICK low : low = Hex4(o + 8)
  OBVIOUS
<1> DEFINE paired == Byte(o + 6) = Backslash /\ Byte(o + 7) = LetterU
           joined == 65536 + (high.code - 55296) * 1024 + (low.code - 56320)
<1>6. IF high.fault # "None" THEN Fail(high.fault, pos)
      ELSE IF high.code \in LowSurrogates THEN Fail("InvalidSurrogatePair", pos)
      ELSE IF high.code \notin HighSurrogates THEN Push(Encode(high.code), 6, 6)
      ELSE IF ~paired THEN Fail("InvalidSurrogatePair", pos)
      ELSE IF low.fault # "None" THEN Fail(low.fault, pos)
      ELSE IF low.code \notin LowSurrogates THEN Fail("InvalidSurrogatePair", pos)
      ELSE Push(Encode(joined), 12, 12)
  BY <1>2, <1>4, <1>5 DEF UnicodeEscape
<1>7. (high.fault = "None" <=> HexThere(o + 2)) /\ (HexThere(o + 2) => high.code = CodeAt(o + 2))
  <2>1. o + 2 \in Nat
    BY <1>3
  <2> QED
    BY <1>4, <2>1, Hex4Reads
<1>8. (low.fault = "None" <=> HexThere(o + 8)) /\ (HexThere(o + 8) => low.code = CodeAt(o + 8))
  <2>1. o + 8 \in Nat
    BY <1>3
  <2> QED
    BY <1>5, <2>1, Hex4Reads
<1>9. EscapeAt(o) <=> HexThere(o + 2)
  BY <1>3 DEF EscapeAt
<1>10. EscapeAt(o + 6) <=> paired /\ HexThere(o + 8)
  <2>1. o + 6 + 1 = o + 7 /\ o + 6 + 2 = o + 8
    BY <1>3
  <2> QED
    BY <2>1 DEF EscapeAt
<1>11. IF HexThere(o + 2) /\ CodeAt(o + 2) \notin Surrogates
       THEN OneChar(o, 6, Encode(CodeAt(o + 2)))
       ELSE IF HexThere(o + 2) /\ CodeAt(o + 2) \in HighSurrogates /\ EscapeAt(o + 6) /\ CodeAt(o + 8) \in LowSurrogates
       THEN OneChar(o, 12, Encode(Paired(CodeAt(o + 2), CodeAt(o + 8))))
       ELSE NoChar(o)
  BY <1>3, UnicodeIsChar
<1>12. \A c : c \in Surrogates <=> c \in HighSurrogates \/ c \in LowSurrogates
  BY DEF Surrogates
<1>13. \A c \in LowSurrogates : c \notin HighSurrogates
  BY SurrogatesApart
<1>14. /\ NoChar(o)
       /\ Fail(high.fault, pos) \/ Fail("InvalidSurrogatePair", pos) \/ Fail(low.fault, pos)
       => Lexed'
  <2> SUFFICES ASSUME Fail(high.fault, pos) \/ Fail("InvalidSurrogatePair", pos) \/ Fail(low.fault, pos), NoChar(o)
               PROVE  Lexed'
    OBVIOUS
  <2>1. ~CanBeCut(0) /\ Counted(pos)
    BY <1>1, <1>2, StringFails
  <2> QED
    BY <2>1, FailLexes
<1>15. CASE HexThere(o + 2) /\ CodeAt(o + 2) \notin Surrogates
  <2>1. PICK char : char = Encode(high.code)
    OBVIOUS
  <2>2. OneChar(o, 6, char) /\ Push(char, 6, 6)
    BY <1>6, <1>7, <1>11, <1>12, <1>15, <2>1
  <2>3. Over(PositionOf(o), 6, 6) = PositionOf(o + 6)
    BY <1>3, <1>9, <1>15, EscapesAreColumns
  <2> QED
    BY <1>1, <1>2, <2>2, <2>3, PushLexes
<1>16. CASE HexThere(o + 2) /\ CodeAt(o + 2) \in HighSurrogates /\ EscapeAt(o + 6) /\ CodeAt(o + 8) \in LowSurrogates
  <2>1. high.code = CodeAt(o + 2) /\ low.code = CodeAt(o + 8) /\ high.fault = "None" /\ low.fault = "None" /\ paired
    BY <1>7, <1>8, <1>10, <1>16
  <2>2. Paired(high.code, low.code) = joined
    <3>1. high.code \in Int /\ low.code \in Int
      BY <1>16, <2>1 DEF HighSurrogates, LowSurrogates
    <3> QED
      BY <3>1 DEF Paired
  <2>3. PICK char : char = Encode(joined)
    OBVIOUS
  <2>4. char = Encode(Paired(CodeAt(o + 2), CodeAt(o + 8)))
    BY <2>1, <2>2, <2>3
  <2>5. Push(char, 12, 12)
    BY <1>6, <1>13, <1>16, <2>1, <2>3
  <2>6. OneChar(o, 12, char)
    BY <1>11, <1>12, <1>16, <2>4
  <2>7. Over(PositionOf(o), 12, 12) = PositionOf(o + 12)
    BY <1>3, <1>9, <1>16, EscapesAreColumns
  <2> QED
    BY <1>1, <1>2, <2>5, <2>6, <2>7, PushLexes
<1>17. CASE /\ ~(HexThere(o + 2) /\ CodeAt(o + 2) \notin Surrogates)
            /\ ~(HexThere(o + 2) /\ CodeAt(o + 2) \in HighSurrogates /\ EscapeAt(o + 6) /\ CodeAt(o + 8) \in LowSurrogates)
  <2>1. NoChar(o)
    BY <1>11, <1>17
  <2> HIDE DEF paired, joined
  <2>2. Fail(high.fault, pos) \/ Fail("InvalidSurrogatePair", pos) \/ Fail(low.fault, pos)
    BY <1>6, <1>7, <1>8, <1>10, <1>12, <1>17
  <2> QED
    BY <1>14, <2>1, <2>2
<1> QED
  BY <1>15, <1>16, <1>17

\* Every step of the tokeniser keeps what it knows.
LEMMA TokeniseLexes ==
  ASSUME LexInv, Tokenise
  PROVE  Lexed'
BY SkipWsLexes, EndOfInputLexes, StructuralLexes, ReadLiteralLexes, UnknownByteLexes, ReadNumberLexes,
   OpenStringLexes, CloseStringLexes, UnterminatedStringLexes, ControlCharLexes, PlainCharLexes,
   Utf8CharLexes, SimpleEscapeLexes, UnicodeEscapeLexes DEF Tokenise, InString

\* All that the parser does to this is to note an error at the place of a token.
LEMMA LexedStays ==
  ASSUME LexInv,
         input' = input, mode' = mode, lexer' = lexer, pos' = pos, opened' = opened, out' = out, tokens' = tokens,
         Counted(error.pos)'
  PROVE  Lexed'
<1>1. PICK b : b = Behind
  OBVIOUS
<1>2. PICK p : p = pos.offset
  OBVIOUS
<1>3. PICK q : q = opened.offset
  OBVIOUS
<1>4. PICK l : l = Len(input)
  OBVIOUS
<1>5. PICK k : k = q + 1
  OBVIOUS
<1>6. PICK text : text = out
  OBVIOUS
<1>7. Behind' = b /\ pos'.offset = p /\ opened'.offset = q /\ Len(input') = l /\ out' = text /\ opened'.offset + 1 = k
  BY <1>1, <1>2, <1>3, <1>4, <1>5, <1>6 DEF Behind
<1>8. Counted(pos)' /\ Counted(opened)'
  BY TextStays DEF LexInv, Lexed
<1>9. \A i \in 1..Len(tokens') : Spelt(i)'
  BY SpeltStays DEF LexInv, Lexed
<1>10. lexer = "scan" => b <= p /\ Blank(b, p) /\ CutTo(p) /\ text = <<>>
  BY <1>1, <1>2, <1>6 DEF LexInv, Lexed
<1>11. lexer = "string" =>
         b <= q /\ Blank(b, q) /\ CutTo(q) /\ q < p /\ Byte(q) = Quote /\ Decoded(k, p, text)
  BY <1>1, <1>2, <1>3, <1>5, <1>6 DEF LexInv, Lexed
<1>12. lexer = "done" /\ mode = "whole" => Blank(b, l)
  BY <1>1, <1>4 DEF LexInv, Lexed
<1>13. lexer = "failed" => ~CanBeCut(0)
  BY DEF LexInv, Lexed
<1>14. /\ lexer = "scan" => Blank(b, p)' /\ CutTo(p)'
       /\ lexer = "string" => Blank(b, q)' /\ CutTo(q)' /\ Byte(q)' = Quote /\ Decoded(k, p, text)'
       /\ lexer = "done" /\ mode = "whole" => Blank(b, l)'
       /\ lexer = "failed" => ~CanBeCut(0)'
  BY <1>10, <1>11, <1>12, <1>13, TextStays
<1> HIDE DEF Behind
<1>15. lexer' = "scan" =>
         Behind' <= pos'.offset /\ Blank(Behind, pos.offset)' /\ CutTo(pos.offset)' /\ out' = <<>>
  BY <1>7, <1>10, <1>14
<1>16. lexer' = "string" =>
         /\ Behind' <= opened'.offset /\ Blank(Behind, opened.offset)' /\ CutTo(opened.offset)'
         /\ opened'.offset < pos'.offset /\ Byte(opened.offset)' = Quote
         /\ Decoded(opened.offset + 1, pos.offset, out)'
  BY <1>7, <1>11, <1>14
<1>17. lexer' = "done" /\ mode' = "whole" => Blank(Behind, Len(input))'
  BY <1>7, <1>14
<1> QED
  BY <1>8, <1>9, <1>14, <1>15, <1>16, <1>17 DEF Lexed

\* So does every step of the parser.
LEMMA ParseLexes ==
  ASSUME LexInv, Parse
  PROVE  Lexed'
<1>1. PICK S : tokens \in Seq(S)
  BY DEF LexInv, CursorInTokens
<1>2. Len(tokens) \in Nat /\ (tokens # <<>> => Len(tokens) \in 1..Len(tokens)) /\ cursor \in Nat /\ cursor + 1 \in Nat
  BY <1>1 DEF LexInv, CursorInTokens
<1>3. \A i \in 1..Len(tokens) : Counted(tokens[i].pos)
  BY DEF LexInv, Lexed, Spelt
<1>4. Counted(START)
  BY FirstPosition DEF Counted, START
<1>5. ASSUME NEW c \in Nat
      PROVE  Counted(PeekPos(c))
  <2>1. c < Len(tokens) => c + 1 \in 1..Len(tokens)
    BY <1>2
  <2> QED
    BY <1>2, <1>3, <1>4, <2>1 DEF PeekPos, Last
<1>6. ASSUME UNCHANGED lexVars
      PROVE  Lexed'
  <2>1. Counted(error.pos)'
    BY <1>6, TextStays DEF lexVars, LexInv, Lexed
  <2> QED
    BY <1>6, <2>1, LexedStays DEF lexVars
<1>7. ASSUME NEW kind, NEW c \in Nat, Reject(kind, PeekPos(c))
      PROVE  Lexed'
  <2>1. PICK p : p = PeekPos(c)
    OBVIOUS
  <2>2. /\ input' = input /\ mode' = mode /\ lexer' = lexer /\ pos' = pos /\ opened' = opened /\ out' = out
        /\ tokens' = tokens /\ error'.pos = p
    BY <1>7, <2>1 DEF Reject
  <2>3. Counted(p)'
    BY <1>5, <2>1, <2>2, TextStays
  <2> QED
    BY <2>2, <2>3, LexedStays
<1>8. ASSUME NEW kind, Reject(kind, PeekPos(cursor)) \/ Reject(kind, PeekPos(cursor + 1))
      PROVE  Lexed'
  BY <1>2, <1>7, <1>8
<1>9. CASE ParseScalar \/ CloseContainer
  BY <1>6, <1>9 DEF ParseScalar, CloseContainer, Return
<1>10. ASSUME NEW kind, OpenContainer(kind)
       PROVE  Lexed'
  BY <1>6, <1>8, <1>10 DEF OpenContainer, Return
<1>11. CASE NoValueHere \/ NoSeparator
  BY <1>8, <1>11 DEF NoValueHere, NoSeparator, RejectToken
<1>12. CASE ParseKey
  BY <1>6, <1>8, <1>12 DEF ParseKey, RejectToken
<1>13. CASE Comma
  BY <1>6, <1>8, <1>13 DEF Comma
<1>14. CASE Finish
  BY <1>6, <1>8, <1>14 DEF Finish
<1> QED
  BY <1>9, <1>10, <1>11, <1>12, <1>13, <1>14 DEF Parse

\* At the beginning there is nothing to know.
LEMMA BeginningLexes ==
  Beginning /\ out = <<>> => LexInv
<1> SUFFICES ASSUME Beginning, out = <<>>
             PROVE  LexInv
  OBVIOUS
<1>1. CursorInTokens /\ PlacesInText
  BY BeginningSound
<1>2. lexer = "scan" /\ pos = START /\ opened = START /\ tokens = <<>> /\ error.pos = START
  BY DEF Beginning, NoError
<1>3. START.offset = 0 /\ Counted(START)
  BY FirstPosition DEF START, Counted
<1>4. Behind = 0 /\ Len(tokens) = 0
  BY <1>2 DEF Behind
<1>5. Blank(0, 0) /\ CutTo(0)
  BY EmptyIsBlank DEF CutTo
<1>6. \A i \in 1..Len(tokens) : Spelt(i)
  BY <1>4
<1>7. Lexed
  BY <1>2, <1>3, <1>4, <1>5, <1>6 DEF Lexed
<1> QED
  BY <1>1, <1>7 DEF LexInv

\* Every step keeps what is known.
LEMMA LexStep == LexInv /\ [Next]_vars => LexInv'
<1> SUFFICES ASSUME LexInv, [Next]_vars
             PROVE  LexInv'
  OBVIOUS
<1>1. CASE Tokenise /\ UNCHANGED parseVars
  <2>1. CursorInTokens' /\ PlacesInText'
    BY <1>1, TokeniseKeepsCursor, BetweenTokensStays, InStringStays DEF LexInv, Tokenise
  <2> QED
    BY <1>1, <2>1, TokeniseLexes DEF LexInv
<1>2. CASE Parse
  <2>1. CursorInTokens' /\ PlacesInText'
    BY <1>2, ParseKeepsCursor, ParseStays DEF LexInv
  <2> QED
    BY <1>2, <2>1, ParseLexes DEF LexInv
<1>3. CASE UNCHANGED vars
  <2>1. UNCHANGED lexVars /\ UNCHANGED parseVars
    BY <1>3 DEF vars
  <2>2. CursorInTokens' /\ PlacesInText'
    BY <2>1 DEF LexInv, CursorInTokens, PlacesInText, Positions, lexVars, parseVars
  <2>3. Counted(error.pos)'
    BY <2>1, TextStays DEF lexVars, LexInv, Lexed
  <2>4. Lexed'
    BY <2>1, <2>3, LexedStays DEF lexVars
  <2> QED
    BY <2>2, <2>4 DEF LexInv
<1> QED
  BY <1>1, <1>2, <1>3 DEF Next

\* A parse begins there.
LEMMA InitLexes == Init => LexInv
<1> SUFFICES ASSUME Init
             PROVE  LexInv
  OBVIOUS
<1>1. PICK text \in Inputs : \E how \in {"whole", "prefix"} : Start(text, how)
  BY DEF Init
<1>2. text \in Seq(Bytes)
  BY InputsAssumption
<1>3. Beginning /\ out = <<>>
  BY <1>1, <1>2 DEF Start, Beginning
<1> QED
  BY <1>3, BeginningLexes

\* White space, as a text.
LEMMA BlankIs ==
  ASSUME input \in Seq(Bytes), NEW a \in 0..Len(input), NEW b \in a..Len(input), Blank(a, b)
  PROVE  ToSet(Slice(a, b)) \subseteq Whitespace
<1>1. PICK n \in Nat : b = a + n
  <2>1. b - a \in Nat /\ b = a + (b - a)
    OBVIOUS
  <2> QED
    BY <2>1
<1>2. a \in Nat /\ a + n <= Len(input)
  BY <1>1
<1> DEFINE s == Slice(a, a + n)
<1>3. s \in Seq(Bytes) /\ Len(s) = n /\ \A i \in 1..n : s[i] = Byte(a + i - 1)
  BY <1>2, SliceOf
<1> HIDE DEF s
<1>4. \A i \in 1..n : s[i] \in Whitespace
  <2> TAKE i \in 1..n
  <2>1. PICK k : k = a + i - 1
    OBVIOUS
  <2>2. k \in a..(b - 1)
    BY <1>1, <1>2, <2>1
  <2> QED
    BY <1>3, <2>1, <2>2 DEF Blank
<1>5. ToSet(s) = {s[i] : i \in 1..n}
  <2>1. DOMAIN s = 1..n
    BY <1>3
  <2> QED
    BY <2>1 DEF ToSet
<1> QED
  BY <1>1, <1>4, <1>5 DEF s

\* What is known says that the tokens spell the input,
LEMMA LexedSpells == LexInv => TokensSpellInput
<1> SUFFICES ASSUME LexInv
             PROVE  TokensSpellInput
  OBVIOUS
<1>1. PICK S : tokens \in Seq(S)
  BY DEF LexInv, CursorInTokens
<1>2. DOMAIN tokens = 1..Len(tokens) /\ Len(tokens) \in Nat
  BY <1>1
<1>3. \A i \in 1..Len(tokens) : Spelt(i)
  BY DEF LexInv, Lexed
<1>4. input \in Seq(Bytes) /\ Len(input) \in Nat /\ Behind \in 0..Len(input)
      /\ \A i \in 1..Len(tokens) : tokens[i].pos.offset \in 0..Len(input) /\ tokens[i].end.offset \in 0..Len(input)
  BY PlacesAre
<1>5. ASSUME NEW i \in 1..Len(tokens)
      PROVE  ToSet(Slice(IF i = 1 THEN 0 ELSE tokens[i - 1].end.offset, tokens[i].pos.offset)) \subseteq Whitespace
  <2>1. PICK a : a = IF i = 1 THEN 0 ELSE tokens[i - 1].end.offset
    OBVIOUS
  <2>2. PICK b : b = tokens[i].pos.offset
    OBVIOUS
  <2>3. a <= b /\ Blank(a, b)
    BY <1>3, <2>1, <2>2 DEF Spelt
  <2>4. a \in 0..Len(input)
    <3>1. i # 1 => i - 1 \in 1..Len(tokens)
      BY <1>2
    <3> QED
      BY <1>4, <2>1, <3>1
  <2>5. b \in a..Len(input)
    BY <1>4, <2>2, <2>3, <2>4
  <2> QED
    BY <1>4, <2>1, <2>2, <2>3, <2>4, <2>5, BlankIs
<1>6. lexer = "done" /\ mode = "whole" => ToSet(Slice(Behind, Len(input))) \subseteq Whitespace
  <2> SUFFICES ASSUME lexer = "done", mode = "whole"
               PROVE  ToSet(Slice(Behind, Len(input))) \subseteq Whitespace
    OBVIOUS
  <2>1. PICK a \in 0..Len(input) : a = Behind
    BY <1>4
  <2>2. Blank(a, Len(input)) /\ Len(input) \in a..Len(input)
    BY <1>4, <2>1 DEF LexInv, Lexed
  <2> QED
    BY <1>4, <2>1, <2>2, BlankIs
<1>7. TokensAreInPlace
  BY <1>2, <1>3, <1>5, <1>6 DEF TokensAreInPlace, Behind, Spelt, Counted
<1>8. \A i \in DOMAIN tokens :
        TokensOf(Slice(tokens[i].pos.offset, tokens[i].end.offset)) = {[kind |-> tokens[i].kind, text |-> tokens[i].text]}
  BY <1>2, <1>3 DEF Spelt
<1> QED
  BY <1>7, <1>8 DEF TokensSpellInput

\* and that a text that is rejected can be cut in no way.
LEMMA LexedRejects == LexInv => LexicalErrorsAreReal
<1> SUFFICES ASSUME LexInv, lexer = "failed"
             PROVE  error.pos.offset \in 0..Len(input) /\ error.pos = PositionOf(error.pos.offset) /\ CutsOf(input) = {}
  BY DEF LexicalErrorsAreReal
<1>1. error.pos.offset \in 0..Len(input) /\ input \in Seq(Bytes)
  BY DEF LexInv, PlacesInText, Positions
<1>2. Counted(error.pos) /\ ~CanBeCut(0)
  BY DEF LexInv, Lexed
<1>3. CutsOf(input) = CutsFrom(input)[1]
  BY <1>1, CutsFromIs
<1>4. CutsFrom(input)[1] = {}
  <2>1. 0 + 1 = 1
    OBVIOUS
  <2> QED
    BY <1>2, <2>1 DEF CanBeCut
<1> QED
  BY <1>1, <1>2, <1>3, <1>4 DEF Counted

\* Of every input, whatever it is: each token stands at the line, column and
\* offset it says, it denotes what the grammar says its text denotes, and only
\* white space lies between two tokens, or behind the last one when tokenise
\* has come to the end. (Tokeniser::next_token, advance)
THEOREM TokensAreReadRight == Spec => []TokensSpellInput
<1>1. Init => LexInv
  BY InitLexes
<1>2. LexInv /\ [Next]_vars => LexInv'
  BY LexStep
<1>3. LexInv => TokensSpellInput
  BY LexedSpells
<1> QED
  BY <1>1, <1>2, <1>3, PTL DEF Spec

\* No input that tokenise rejects can be cut into tokens in any other way, and
\* the error is at a place in it that is counted right.
\* (every error of Tokeniser::next_token, read_string and read_number)
THEOREM NoOtherCut == Spec => []LexicalErrorsAreReal
<1>1. Init => LexInv
  BY InitLexes
<1>2. LexInv /\ [Next]_vars => LexInv'
  BY LexStep
<1>3. LexInv => LexicalErrorsAreReal
  BY LexedRejects
<1> QED
  BY <1>1, <1>2, <1>3, PTL DEF Spec
=============================================================================
