----------------------------- MODULE JsonTokens -----------------------------
(***************************************************************************)
(* RFC 8259 as a reference for Tokeniser: which texts are tokens and what  *)
(* they denote.  Nothing here reads from left to right; texts are cut in   *)
(* every possible way.                                                     *)
(***************************************************************************)
EXTENDS Tokeniser

AreDigits(s) == s # <<>> /\ ToSet(s) \subseteq Digits

IsInt(s) == AreDigits(s) /\ (Head(s) = Zero => Len(s) = 1)
IsFrac(s) == s = <<>> \/ (Head(s) = Dot /\ AreDigits(Tail(s)))
IsExp(s) ==
  \/ s = <<>>
  \/ /\ Head(s) \in Exponents
     /\ \/ AreDigits(Tail(s))
        \/ Len(s) > 2 /\ s[2] \in Signs /\ AreDigits(SubSeq(s, 3, Len(s)))

IsNumber(s) ==
  \E a \in 0..1, b, c \in 0..Len(s) :
    /\ a <= b /\ b <= c
    /\ SubSeq(s, 1, a) \in {<<>>, <<Minus>>}
    /\ IsInt(SubSeq(s, a + 1, b))
    /\ IsFrac(SubSeq(s, b + 1, c))
    /\ IsExp(SubSeq(s, c + 1, Len(s)))

HexCode(s) ==
  4096 * HexValue(s[1]) + 256 * HexValue(s[2]) + 16 * HexValue(s[3]) + HexValue(s[4])

IsHexEscape(s) ==
  Len(s) = 6 /\ s[1] = Backslash /\ s[2] = LetterU /\ ToSet(SubSeq(s, 3, 6)) \subseteq HexDigits

\* What s denotes as one character of a string: one text, or none.
CharOf(s) ==
  CASE Len(s) = 1 /\ s[1] \in 32..127 \ {Quote, Backslash} -> {s}
    [] IsUtf8Char(s) -> {s}
    [] Len(s) = 2 /\ s[1] = Backslash /\ s[2] \in DOMAIN Escapes -> {<<Escapes[s[2]]>>}
    [] IsHexEscape(s) ->
         LET code == HexCode(SubSeq(s, 3, 6))
         IN IF code \in HighSurrogates \cup LowSurrogates THEN {} ELSE {Encode(code)}
    [] Len(s) = 12 /\ IsHexEscape(SubSeq(s, 1, 6)) /\ IsHexEscape(SubSeq(s, 7, 12)) ->
         LET high == HexCode(SubSeq(s, 3, 6))
             low == HexCode(SubSeq(s, 9, 12))
         IN IF high \in HighSurrogates /\ low \in LowSurrogates
            THEN {Encode(65536 + (high - 55296) * 1024 + low - 56320)} ELSE {}
    [] OTHER -> {}

\* How long the characters are that end at e in s.
CharsEndingAt(s, e) ==
  {n \in {1, 2, 3, 4, 6, 12} : n <= e /\ CharOf(SubSeq(s, e - n + 1, e)) # {}}

\* The texts that s can denote between the quotes of a string.
CharsOf(s) ==
  LET upTo[e \in 0..Len(s)] ==
        IF e = 0 THEN {<<>>}
        ELSE UNION {{text \o c : text \in upTo[e - n], c \in CharOf(SubSeq(s, e - n + 1, e))} :
                    n \in CharsEndingAt(s, e)}
  IN upTo[Len(s)]

\* The tokens, without their place, that text s can be.
TokensOf(s) ==
  {[kind |-> Punctuation[b], text |-> <<>>] : b \in {b \in DOMAIN Punctuation : s = <<b>>}}
    \cup {[kind |-> w.kind, text |-> <<>>] : w \in {w \in Literals : s = w.text}}
    \cup (IF IsNumber(s) /\ Double(s) # <<>> THEN {[kind |-> "number", text |-> Double(s)]} ELSE {})
    \cup (IF Len(s) >= 2 /\ Head(s) = Quote /\ Last(s) = Quote
          THEN {[kind |-> "string", text |-> t] : t \in CharsOf(SubSeq(s, 2, Len(s) - 1))} ELSE {})

\* A token of s from b to e; a number that the next one does not touch, as they
\* do in no JSON text.
IsPiece(s, b, e) ==
  /\ TokensOf(SubSeq(s, b, e)) # {}
  /\ IsNumber(SubSeq(s, b, e)) /\ e < Len(s) => s[e + 1] \notin Digits \cup {Minus}

\* The ways to cut s into tokens and white space: where its tokens begin.
CutsOf(s) ==
  LET from[b \in 1..(Len(s) + 1)] ==
        IF b > Len(s) THEN {<<>>}
        ELSE (IF s[b] \in Whitespace THEN from[b + 1] ELSE {})
               \cup UNION {{<<b>> \o cut : cut \in from[e + 1]} : e \in {e \in b..Len(s) : IsPiece(s, b, e)}}
  IN from[1]

\* The line and column of an offset: a character of several bytes is one column.
PositionOf(offset) ==
  LET newlines == {i \in 1..offset : input[i] = Newline}
      begin == Max(newlines \cup {0})
  IN [line |-> Cardinality(newlines) + 1,
      column |-> Cardinality({i \in (begin + 1)..offset : input[i] \notin 128..191}) + 1,
      offset |-> offset]

-----------------------------------------------------------------------------
(* What the tokeniser promises *)

\* Every token stands where its position says, and only white space lies
\* between two of them.
TokensAreInPlace ==
  /\ \A i \in DOMAIN tokens :
       LET t == tokens[i]
           before == IF i = 1 THEN 0 ELSE tokens[i - 1].end.offset
       IN /\ t.pos = PositionOf(t.pos.offset)
          /\ t.end = PositionOf(t.end.offset)
          /\ ToSet(Slice(before, t.pos.offset)) \subseteq Whitespace
  /\ lexer = "done" /\ mode = "whole" =>
       LET after == IF tokens = <<>> THEN 0 ELSE Last(tokens).end.offset
       IN ToSet(Slice(after, Len(input))) \subseteq Whitespace

\* Every token stands where its position says, denotes what the grammar says
\* its text denotes, and only white space lies between two tokens.
\* (Tokeniser::next_token, and Position's line, column and offset)
TokensSpellInput ==
  /\ TokensAreInPlace
  /\ \A i \in DOMAIN tokens :
       LET t == tokens[i]
       IN TokensOf(Slice(t.pos.offset, t.end.offset)) = {[kind |-> t.kind, text |-> t.text]}

\* A text that tokenise rejects cannot be cut into tokens in any other way,
\* and the error is at a place in it.
\* (every error of Tokeniser::next_token, read_string and read_number)
LexicalErrorsAreReal ==
  lexer = "failed" =>
    /\ error.pos.offset \in 0..Len(input)
    /\ error.pos = PositionOf(error.pos.offset)
    /\ CutsOf(input) = {}
=============================================================================
