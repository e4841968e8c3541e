---------------------------- MODULE ParserProofs ----------------------------
(***************************************************************************)
(* Theorems about Parser and ParseCalls: whatever the input and the tokens *)
(* made of it, the nesting is counted on every path and kept within the    *)
(* limit, every place that a call reports lies in the text, what is        *)
(* accepted is the grammar, and what is refused is refused where it leaves *)
(* the grammar.                                                            *)
(***************************************************************************)
EXTENDS ParseCalls, JsonSyntax, WellFoundedInduction, TLAPS

\* The innermost open container is there when a member of it is parsed.
Nested ==
  /\ \E S : stack \in Seq(S)
  /\ parser \in {"next", "key"} => stack # <<>>

IInv == Nested /\ DepthIsNesting

-----------------------------------------------------------------------------
\* A container is opened.
LEMMA PushFacts ==
  ASSUME NEW S, NEW s \in Seq(S), NEW v
  PROVE  /\ <<v>> \o s \in Seq(S \cup {v})
         /\ Len(<<v>> \o s) = Len(s) + 1
         /\ <<v>> \o s # <<>>
<1>1. s \in Seq(S \cup {v}) /\ <<v>> \in Seq(S \cup {v}) /\ Len(<<v>>) = 1 /\ Len(s) \in Nat
  OBVIOUS
<1>2. <<v>> \o s \in Seq(S \cup {v}) /\ Len(<<v>> \o s) = Len(s) + 1
  BY <1>1
<1> QED
  BY <1>2

\* A container is closed.
LEMMA TailFacts ==
  ASSUME NEW S, NEW s \in Seq(S), s # <<>>
  PROVE  Tail(s) \in Seq(S) /\ Len(Tail(s)) = Len(s) - 1 /\ Len(s) \in Nat \ {0}
OBVIOUS

\* The innermost container is changed, and the nesting is not.
LEMMA ReplaceTop ==
  ASSUME NEW S, NEW s \in Seq(S), s # <<>>, NEW v
  PROVE  /\ \E R : <<v>> \o Tail(s) \in Seq(R)
         /\ <<v>> \o Tail(s) # <<>>
         /\ Len(<<v>> \o Tail(s)) = Len(s)
<1>1. Tail(s) \in Seq(S) /\ Len(Tail(s)) = Len(s) - 1 /\ Len(s) \in Nat \ {0}
  BY TailFacts
<1>2. /\ <<v>> \o Tail(s) \in Seq(S \cup {v})
      /\ Len(<<v>> \o Tail(s)) = Len(Tail(s)) + 1
      /\ <<v>> \o Tail(s) # <<>>
  BY <1>1, PushFacts
<1> QED
  BY <1>1, <1>2

\* A complete value leaves as many containers open as it found.
LEMMA ReturnKeeps ==
  ASSUME NEW S, NEW open \in Seq(S), NEW v, NEW c, Return(v, c, open)
  PROVE  /\ \E R : stack' \in Seq(R)
         /\ Len(stack') = Len(open)
         /\ parser' \in {"next", "key"} => stack' # <<>>
<1>1. CASE open = <<>>
  <2>1. stack' = open /\ parser' = "end"
    BY <1>1 DEF Return
  <2> QED
    BY <2>1
<1>2. CASE open # <<>>
  <2>1. stack' = <<[Head(open) EXCEPT !.kids = Append(@, v)]>> \o Tail(open)
    BY <1>2 DEF Return
  <2>2. PICK top : stack' = <<top>> \o Tail(open)
    BY <2>1
  <2> QED
    BY <1>2, <2>2, ReplaceTop
<1> QED
  BY <1>1, <1>2

\* An error leaves the nesting as it is.
LEMMA RejectKeeps ==
  ASSUME IInv, NEW k, NEW p, Reject(k, p)
  PROVE  IInv'
BY DEF Reject, IInv, Nested, DepthIsNesting

-----------------------------------------------------------------------------
(* Steps *)

\* A scalar is complete at once.
LEMMA ParseScalarSound ==
  ASSUME IInv, ParseScalar
  PROVE  IInv'
<1>1. PICK S : stack \in Seq(S)
  BY DEF IInv, Nested
<1>2. PICK v : Return(v, cursor + 1, stack)
  BY DEF ParseScalar
<1>3. depth' = depth
  BY DEF ParseScalar
<1> QED
  BY <1>1, <1>2, <1>3, ReturnKeeps DEF IInv, Nested, DepthIsNesting

\* A container is opened below the limit only, or left at once.
LEMMA OpenContainerSound ==
  ASSUME IInv, NEW kind, OpenContainer(kind)
  PROVE  IInv'
<1>1. PICK S : stack \in Seq(S)
  BY DEF IInv, Nested
<1>2. depth = Len(stack) /\ depth \in 0..Limit /\ Limit \in Nat
  BY LimitAssumption DEF IInv, DepthIsNesting
<1>3. CASE depth >= Limit
  <2>1. Reject("NestingLimitExceeded", PeekPos(cursor))
    BY <1>3 DEF OpenContainer
  <2> QED
    BY <2>1, RejectKeeps
<1>4. CASE depth < Limit /\ Return(Empty(kind), cursor + 2, stack) /\ depth' = depth
  BY <1>1, <1>4, ReturnKeeps DEF IInv, Nested, DepthIsNesting
<1>5. CASE depth < Limit /\ depth' = depth + 1 /\ stack' = <<Empty(kind)>> \o stack
  <2>1. /\ stack' \in Seq(S \cup {Empty(kind)})
        /\ Len(stack') = Len(stack) + 1
        /\ stack' # <<>>
    BY <1>1, <1>5, PushFacts
  <2> QED
    BY <1>2, <1>5, <2>1 DEF IInv, Nested, DepthIsNesting
<1>6. ~(depth >= Limit) => depth < Limit
  BY <1>2
<1> QED
  BY <1>3, <1>4, <1>5, <1>6 DEF OpenContainer

\* A key joins the innermost container.
LEMMA ParseKeySound ==
  ASSUME IInv, ParseKey
  PROVE  IInv'
<1>1. PICK S : stack \in Seq(S)
  BY DEF IInv, Nested
<1>2. stack # <<>>
  BY DEF IInv, Nested, ParseKey, At
<1>3. CASE \E c : RejectToken(c)
  BY <1>3, RejectKeeps DEF RejectToken
<1>4. CASE /\ stack' = <<[Top EXCEPT !.keys = Append(@, tokens[cursor + 1].text)]>> \o Tail(stack)
           /\ UNCHANGED depth
  <2>1. PICK top : stack' = <<top>> \o Tail(stack)
    BY <1>4
  <2>2. (\E R : stack' \in Seq(R)) /\ stack' # <<>> /\ Len(stack') = Len(stack)
    BY <1>1, <1>2, <2>1, ReplaceTop
  <2> QED
    BY <1>4, <2>2 DEF IInv, Nested, DepthIsNesting
<1> QED
  BY <1>3, <1>4 DEF ParseKey

\* A separator changes nothing of the nesting.
LEMMA CommaSound ==
  ASSUME IInv, Comma
  PROVE  IInv'
<1>1. stack # <<>>
  BY DEF IInv, Nested, Comma, At
<1>2. CASE \E k, p : Reject(k, p)
  BY <1>2, RejectKeeps
<1>3. CASE UNCHANGED <<depth, stack>>
  BY <1>1, <1>3 DEF IInv, Nested, DepthIsNesting
<1> QED
  BY <1>2, <1>3 DEF Comma

\* A container is left, and counted so.
LEMMA CloseContainerSound ==
  ASSUME IInv, CloseContainer
  PROVE  IInv'
<1>1. PICK S : stack \in Seq(S)
  BY DEF IInv, Nested
<1>2. stack # <<>>
  BY DEF IInv, Nested, CloseContainer, At
<1>3. Return(Top, cursor + 1, Tail(stack)) /\ depth' = depth - 1
  BY DEF CloseContainer
<1>4. Tail(stack) \in Seq(S) /\ Len(Tail(stack)) = Len(stack) - 1 /\ Len(stack) \in Nat \ {0}
  BY <1>1, <1>2, TailFacts
<1>5. Nested' /\ Len(stack') = Len(stack) - 1
  BY <1>3, <1>4, ReturnKeeps DEF Nested
<1>6. depth' = Len(stack') /\ depth' \in 0..Limit
  BY <1>3, <1>4, <1>5, LimitAssumption DEF IInv, DepthIsNesting
<1> QED
  BY <1>5, <1>6 DEF IInv, DepthIsNesting

\* The end is reached with what was open then.
LEMMA FinishSound ==
  ASSUME IInv, Finish
  PROVE  IInv'
<1>1. CASE \E k, p : Reject(k, p)
  BY <1>1, RejectKeeps
<1>2. CASE parser' = "done" /\ UNCHANGED <<depth, stack>>
  BY <1>2 DEF IInv, Nested, DepthIsNesting
<1> QED
  BY <1>1, <1>2 DEF Finish

\* Every step of tokeniser and parser.
LEMMA StepSound ==
  ASSUME IInv, [Next]_vars
  PROVE  IInv'
<1>1. CASE UNCHANGED <<parser, depth, stack>>
  BY <1>1 DEF IInv, Nested, DepthIsNesting
<1>2. CASE NoValueHere \/ NoSeparator
  BY <1>2, RejectKeeps DEF NoValueHere, NoSeparator, RejectToken
<1>3. UNCHANGED parseVars \/ UNCHANGED vars => UNCHANGED <<parser, depth, stack>>
  BY DEF vars, parseVars
<1> QED
  BY <1>1, <1>2, <1>3, ParseScalarSound, OpenContainerSound, ParseKeySound, CommaSound,
     CloseContainerSound, FinishSound DEF Next, Parse

\* The depth that the recursion counts is the number of containers it is in,
\* whichever way it leaves them, and never more than the limit.
\* (Parser::enter, Parser::leave)
THEOREM NestingIsCounted == Spec => []DepthIsNesting
<1>1. Init => IInv
  <2> SUFFICES ASSUME Init
               PROVE  IInv
    OBVIOUS
  <2>1. parser = "value" /\ depth = 0 /\ stack = <<>>
    BY DEF Init, Start
  <2>2. stack \in Seq({})
    BY <2>1
  <2> QED
    BY <2>1, <2>2, LimitAssumption DEF IInv, Nested, DepthIsNesting
<1>2. IInv /\ [Next]_vars => IInv'
  BY StepSound
<1>3. IInv => DepthIsNesting
  BY DEF IInv
<1> QED
  BY <1>1, <1>2, <1>3, PTL DEF Spec

-----------------------------------------------------------------------------
(* The tokens *)

\* The parser runs on the tokens of the whole input, and not beyond them.
CursorInTokens ==
  /\ \E S : tokens \in Seq(S)
  /\ lexer # "done" => parser = "value" /\ cursor = 0
  /\ cursor \in 0..Len(tokens)
  /\ parser \in {"next", "end", "done"} => cursor >= 1

LastTokenIsThere == Accepted => cursor \in 1..Len(tokens)

\* The tokeniser adds tokens one by one, and stops for good.
LEMMA TokeniseAppends ==
  ASSUME Tokenise
  PROVE  /\ lexer # "done"
         /\ tokens' = tokens \/ \E token : token.kind # "none" /\ tokens' = Append(tokens, token)
<1>1. ASSUME NEW token, Emit(token)
      PROVE  tokens' = Append(tokens, token)
  BY <1>1 DEF Emit
<1>2. ASSUME NEW kind, NEW p, Fail(kind, p)
      PROVE  tokens' = tokens
  BY <1>2 DEF Fail
<1>3. ASSUME NEW char, NEW n, NEW c, Push(char, n, c)
      PROVE  tokens' = tokens
  BY <1>3 DEF Push
<1>4. CASE SkipWs \/ EndOfInput \/ OpenString
  BY <1>4 DEF SkipWs, EndOfInput, OpenString
<1>5. CASE Structural
  <2>1. Token(Punctuation[Here], <<>>, Over(pos, 1, 1)).kind # "none"
    BY <1>5 DEF Structural, Token, Punctuation
  <2> QED
    BY <1>1, <1>5, <2>1 DEF Structural
<1>6. CASE ReadLiteral
  <2>1. PICK word \in Literals :
          \/ \E p : Emit(Token(word.kind, <<>>, p))
          \/ \E kind, p : Fail(kind, p)
    BY <1>6 DEF ReadLiteral
  <2>2. \A p : Token(word.kind, <<>>, p).kind # "none"
    BY DEF Literals, Token
  <2> QED
    BY <1>1, <1>2, <1>6, <2>1, <2>2 DEF ReadLiteral
<1>7. CASE UnknownByte
  BY <1>2, <1>7 DEF UnknownByte
<1>8. CASE ReadNumber
  <2>1. \A text, p : Token("number", text, p).kind # "none"
    BY DEF Token
  <2> QED
    BY <1>1, <1>2, <1>8, <2>1 DEF ReadNumber
<1>9. CASE CloseString
  <2>1. \A text, p : [Token("string", text, p) EXCEPT !.pos = opened].kind # "none"
    BY DEF Token
  <2> QED
    BY <1>1, <1>9, <2>1 DEF CloseString
<1>10. CASE UnterminatedString \/ ControlChar
  BY <1>2, <1>10 DEF UnterminatedString, ControlChar
<1>11. CASE PlainChar
  BY <1>3, <1>11 DEF PlainChar
<1>12. CASE Utf8Char
  BY <1>2, <1>3, <1>12 DEF Utf8Char
<1>13. CASE SimpleEscape
  BY <1>2, <1>3, <1>13 DEF SimpleEscape
<1>14. CASE UnicodeEscape
  BY <1>2, <1>3, <1>14 DEF UnicodeEscape
<1> QED
  BY <1>4, <1>5, <1>6, <1>7, <1>8, <1>9, <1>10, <1>11, <1>12, <1>13, <1>14
     DEF Tokenise, InString

\* While the tokeniser runs the parser has not begun.
LEMMA TokeniseKeepsCursor ==
  ASSUME CursorInTokens, Tokenise, UNCHANGED parseVars
  PROVE  CursorInTokens'
<1>1. parser' = "value" /\ cursor' = 0
  BY TokeniseAppends DEF CursorInTokens, parseVars
<1>2. PICK S : tokens \in Seq(S)
  BY DEF CursorInTokens
<1>3. \E R : tokens' \in Seq(R)
  <2>1. CASE tokens' = tokens
    BY <1>2, <2>1
  <2>2. ASSUME NEW token, tokens' = Append(tokens, token)
        PROVE  tokens' \in Seq(S \cup {token})
    <3>1. tokens \in Seq(S \cup {token})
      BY <1>2
    <3> QED
      BY <2>2, <3>1
  <2> QED
    BY <2>1, <2>2, TokeniseAppends
<1>4. 0 \in 0..Len(tokens')
  BY <1>3
<1> QED
  BY <1>1, <1>3, <1>4 DEF CursorInTokens

\* A token that peek finds is there to be consumed.
LEMMA PeekFinds ==
  ASSUME CursorInTokens, NEW c \in Nat, Peek(c) # "none"
  PROVE  c + 1 \in 1..Len(tokens)
<1>1. Len(tokens) \in Nat /\ c < Len(tokens)
  BY DEF CursorInTokens, Peek
<1> QED
  BY <1>1

\* A step of the parser consumes none, one or two of the tokens it has seen.
LEMMA ParseConsumes ==
  ASSUME CursorInTokens, Parse
  PROVE  /\ lexer = "done" /\ lexer' = "done" /\ tokens' = tokens
         /\ cursor' \in cursor..Len(tokens)
         /\ parser' \in {"next", "end", "done"} => cursor' >= 1
<1>1. cursor \in Nat /\ Len(tokens) \in Nat /\ cursor \in cursor..Len(tokens)
  BY DEF CursorInTokens
<1> DEFINE Consumes ==
      /\ lexer = "done" /\ lexer' = "done" /\ tokens' = tokens
      /\ cursor' \in cursor..Len(tokens)
      /\ parser' \in {"next", "end", "done"} => cursor' >= 1
<1>2. ASSUME NEW k, NEW p, lexer = "done", Reject(k, p)
      PROVE  Consumes
  BY <1>1, <1>2 DEF Reject
<1>3. ASSUME NEW v, NEW c \in (cursor + 1)..Len(tokens), NEW open, lexer = "done", Return(v, c, open)
      PROVE  Consumes
  BY <1>1, <1>3 DEF Return, lexVars
<1>4. ASSUME NEW c \in Nat, Peek(c) # "none"
      PROVE  c + 1 \in 1..Len(tokens)
  BY <1>4, PeekFinds
<1>5. cursor + 1 \in Nat /\ cursor + 2 = (cursor + 1) + 1
  BY <1>1
<1>6. CASE ParseScalar
  <2>1. Peek(cursor) # "none" /\ lexer = "done" /\ \E v : Return(v, cursor + 1, stack)
    BY <1>6 DEF ParseScalar, Scalars, At
  <2>2. cursor + 1 \in (cursor + 1)..Len(tokens)
    BY <1>1, <1>4, <2>1
  <2> QED
    BY <1>3, <2>1, <2>2
<1>7. ASSUME NEW kind, OpenContainer(kind)
      PROVE  Consumes
  <2>1. lexer = "done" /\ Peek(cursor) # "none"
    BY <1>7 DEF OpenContainer, At
  <2>2. cursor + 1 \in (cursor + 1)..Len(tokens)
    BY <1>1, <1>4, <2>1
  <2>3. CASE \E k, p : Reject(k, p)
    BY <1>2, <2>1, <2>3
  <2>4. CASE Peek(cursor + 1) = Closer(kind) /\ Return(Empty(kind), cursor + 2, stack)
    <3>1. Peek(cursor + 1) # "none"
      BY <2>4 DEF Closer
    <3>2. cursor + 2 \in (cursor + 1)..Len(tokens)
      BY <1>1, <1>4, <1>5, <3>1
    <3> QED
      BY <1>3, <2>1, <2>4, <3>2
  <2>5. CASE cursor' = cursor + 1 /\ UNCHANGED lexVars
    BY <1>1, <2>1, <2>2, <2>5 DEF lexVars
  <2> QED
    BY <1>7, <2>3, <2>4, <2>5 DEF OpenContainer
<1>8. CASE NoValueHere \/ NoSeparator
  BY <1>2, <1>8 DEF NoValueHere, NoSeparator, RejectToken, At
<1>9. CASE ParseKey
  <2>1. lexer = "done"
    BY <1>9 DEF ParseKey, At
  <2>2. CASE \E c : RejectToken(c)
    BY <1>2, <2>1, <2>2 DEF RejectToken
  <2>3. CASE Peek(cursor + 1) = ":" /\ cursor' = cursor + 2 /\ UNCHANGED lexVars
    <3>1. cursor + 2 \in 1..Len(tokens)
      BY <1>4, <1>5, <2>3
    <3> QED
      BY <1>1, <2>1, <2>3, <3>1 DEF lexVars
  <2> QED
    BY <1>9, <2>2, <2>3 DEF ParseKey
<1>10. CASE Comma
  <2>1. lexer = "done" /\ Peek(cursor) # "none"
    BY <1>10 DEF Comma, At
  <2>2. CASE \E k, p : Reject(k, p)
    BY <1>2, <2>1, <2>2
  <2>3. CASE cursor' = cursor + 1 /\ UNCHANGED lexVars
    <3>1. cursor + 1 \in 1..Len(tokens)
      BY <1>1, <1>4, <2>1
    <3> QED
      BY <1>1, <2>1, <2>3, <3>1 DEF lexVars
  <2> QED
    BY <1>10, <2>2, <2>3 DEF Comma
<1>11. CASE CloseContainer
  <2>1. /\ lexer = "done" /\ Peek(cursor) # "none"
        /\ Return(Top, cursor + 1, Tail(stack))
    BY <1>11 DEF CloseContainer, At, Closer
  <2>2. cursor + 1 \in (cursor + 1)..Len(tokens)
    BY <1>1, <1>4, <2>1
  <2> QED
    BY <1>3, <2>1, <2>2
<1>12. CASE Finish
  <2>1. lexer = "done" /\ cursor >= 1
    BY <1>12 DEF Finish, At, CursorInTokens
  <2>2. CASE \E k, p : Reject(k, p)
    BY <1>2, <2>1, <2>2
  <2>3. CASE UNCHANGED <<lexVars, cursor>>
    BY <1>1, <2>1, <2>3 DEF lexVars
  <2> QED
    BY <1>12, <2>2, <2>3 DEF Finish
<1> QED
  BY <1>6, <1>7, <1>8, <1>9, <1>10, <1>11, <1>12 DEF Parse

\* The accepted parse has a token to show for it.
LEMMA AcceptedConsumed == CursorInTokens => LastTokenIsThere
<1> SUFFICES ASSUME CursorInTokens, Accepted
             PROVE  cursor \in 1..Len(tokens)
  BY DEF LastTokenIsThere
<1>1. parser = "done" /\ cursor >= 1
  BY DEF CursorInTokens, Accepted
<1>2. cursor \in 0..Len(tokens) /\ Len(tokens) \in Nat
  BY DEF CursorInTokens
<1> QED
  BY <1>1, <1>2

\* The parser leaves the tokens alone and stays among them.
LEMMA ParseKeepsCursor ==
  ASSUME CursorInTokens, Parse
  PROVE  CursorInTokens'
<1>1. /\ lexer = "done" /\ lexer' = "done" /\ tokens' = tokens
      /\ cursor' \in cursor..Len(tokens)
      /\ parser' \in {"next", "end", "done"} => cursor' >= 1
  BY ParseConsumes
<1> QED
  BY <1>1 DEF CursorInTokens

\* An accepted parse has consumed a token at least, and only such as there are:
\* the end of the last one is there to be returned.
\* (parse_prefix's parser.tokens[parser.cursor - 1])
THEOREM ConsumedIsThere == Spec => []LastTokenIsThere
<1>1. Init => CursorInTokens
  <2> SUFFICES ASSUME Init
               PROVE  CursorInTokens
    OBVIOUS
  <2>1. lexer = "scan" /\ parser = "value" /\ cursor = 0 /\ tokens = <<>>
    BY DEF Init, Start
  <2>2. tokens \in Seq({}) /\ Len(tokens) = 0
    BY <2>1
  <2> QED
    BY <2>1, <2>2 DEF CursorInTokens
<1>2. CursorInTokens /\ [Next]_vars => CursorInTokens'
  <2> SUFFICES ASSUME CursorInTokens, [Next]_vars
               PROVE  CursorInTokens'
    OBVIOUS
  <2>1. CASE Tokenise /\ UNCHANGED parseVars
    BY <2>1, TokeniseKeepsCursor
  <2>2. CASE Parse
    BY <2>2, ParseKeepsCursor
  <2>3. CASE UNCHANGED vars
    BY <2>3 DEF CursorInTokens, vars, lexVars, parseVars
  <2> QED
    BY <2>1, <2>2, <2>3 DEF Next
<1>3. CursorInTokens => LastTokenIsThere
  BY AcceptedConsumed
<1> QED
  BY <1>1, <1>2, <1>3, PTL DEF Spec

-----------------------------------------------------------------------------
(* Places in the text *)

Positions == [line : Nat, column : Nat, offset : 0..Len(input)]

\* Where the tokeniser is, and all that it has noted, lies in the text; every
\* token takes up some of it.
PlacesInText ==
  /\ input \in Seq(Bytes)
  /\ pos \in Positions /\ opened \in Positions /\ error.pos \in Positions
  /\ \A i \in 1..Len(tokens) :
       tokens[i].pos \in Positions /\ tokens[i].end \in Positions /\ tokens[i].end.offset >= 1

\* A place from which there is a byte to read is not the end.
LEMMA ByteIsThere ==
  ASSUME input \in Seq(Bytes), NEW o \in Nat, Byte(o) # None
  PROVE  o < Len(input) /\ o + 1 \in 1..Len(input)
<1>1. Len(input) \in Nat
  OBVIOUS
<1> QED
  BY <1>1 DEF Byte

\* Bytes that are there are passed over without leaving the text.
LEMMA OverStays ==
  ASSUME input \in Seq(Bytes), NEW p \in Positions, NEW n \in Nat, NEW c \in Nat,
         p.offset + n <= Len(input)
  PROVE  Over(p, n, c) \in Positions /\ Over(p, n, c).offset = p.offset + n
<1> DEFINE q == [p EXCEPT !.offset = p.offset + n]
<1>1. Len(input) \in Nat /\ p.offset \in Nat /\ p.column \in Nat /\ p.line \in Nat
  BY DEF Positions
<1>2. p.offset + n \in 0..Len(input) /\ p.column + c \in Nat
  BY <1>1
<1>3. q \in Positions /\ q.offset = p.offset + n
  BY <1>2 DEF Positions
<1>4. Over(p, n, c) = [q EXCEPT !.column = p.column + c]
  BY DEF Over, Positions
<1> HIDE DEF q
<1>5. PICK k \in Nat : k = p.column + c
  BY <1>2
<1>6. [q EXCEPT !.column = k] \in Positions /\ [q EXCEPT !.column = k].offset = q.offset
  BY <1>3 DEF Positions
<1> QED
  BY <1>3, <1>4, <1>5, <1>6

\* A set of numbers that is not empty has a least one, which Min finds.
LEMMA LeastOf ==
  ASSUME NEW T \in SUBSET Nat, T # {}
  PROVE  Min(T) \in T /\ \A x \in T : Min(T) <= x
<1> DEFINE R == OpToRel(<, Nat)
<1>1. ASSUME NEW x \in Nat, NEW y \in Nat, y < x
      PROVE  <<y, x>> \in R
  BY <1>1 DEF OpToRel
<1>2. IsWellFoundedOn(R, Nat)
  BY NatLessThanWellFounded
<1> HIDE DEF R
<1>3. PICK x \in T : \A y \in T : <<y, x>> \notin R
  BY <1>2, WFMin
<1>4. \A y \in T : x =< y
  <2> TAKE y \in T
  <2>1. ~(y < x)
    BY <1>1, <1>3
  <2> QED
    BY <2>1
<1> QED
  BY <1>4 DEF Min

\* A set of numbers that has 0 and with each number the next has them all.
LEMMA NatSet ==
  ASSUME NEW S, 0 \in S, \A n \in Nat : n \in S => n + 1 \in S
  PROVE  Nat \subseteq S
<1> SUFFICES ASSUME Nat \ S # {}
             PROVE  FALSE
  OBVIOUS
<1> DEFINE x == Min(Nat \ S)
<1>1. x \in Nat \ S /\ \A y \in Nat \ S : x <= y
  BY LeastOf
<1> HIDE DEF x
<1>2. x # 0 /\ x - 1 \in Nat /\ ~(x <= x - 1)
  BY <1>1
<1>3. x - 1 \in S
  BY <1>1, <1>2
<1> QED
  BY <1>1, <1>2, <1>3

\* A run of digits ends in the text.
LEMMA DigitsEndStays ==
  ASSUME input \in Seq(Bytes), NEW o \in 0..Len(input)
  PROVE  /\ DigitsEnd(o) \in o..Len(input)
         /\ Byte(o) \in Digits => DigitsEnd(o) # o
<1> DEFINE T == {e \in o..Len(input) : Byte(e) \notin Digits}
<1>1. Len(input) \in Nat /\ T \in SUBSET Nat
  OBVIOUS
<1>2. Byte(Len(input)) \notin Digits
  BY <1>1 DEF Byte, None, Digits
<1>3. Len(input) \in T
  BY <1>1, <1>2
<1>4. Min(T) \in T
  BY <1>1, <1>3, LeastOf
<1> QED
  BY <1>1, <1>4 DEF DigitsEnd

\* A number that does not break off ends in the text, behind its start.
LEMMA NumberEndStays ==
  ASSUME input \in Seq(Bytes), NEW o \in Nat, NumberEnd(o) # None
  PROVE  NumberEnd(o) \in (o + 1)..Len(input)
<1>1. Len(input) \in Nat
  OBVIOUS
<1>2. ASSUME NEW b \in Nat, Byte(b) \in Digits
      PROVE  DigitsEnd(b) \in (b + 1)..Len(input)
  <2>1. b \in 0..Len(input)
    BY <1>1, <1>2, ByteIsThere DEF Digits, None
  <2> QED
    BY <1>1, <1>2, <2>1, DigitsEndStays
<1>3. ASSUME NEW b \in Nat, IntEnd(b) # None
      PROVE  IntEnd(b) \in (b + 1)..Len(input)
  <2>1. CASE Byte(b) = Zero
    BY <1>1, <2>1, ByteIsThere DEF IntEnd, Zero, None
  <2>2. CASE Byte(b) # Zero /\ Byte(b) \in Digits
    BY <1>2, <2>2 DEF IntEnd
  <2> QED
    BY <1>3, <2>1, <2>2 DEF IntEnd
<1>4. ASSUME NEW b \in 0..Len(input), FracEnd(b) # None
      PROVE  FracEnd(b) \in b..Len(input)
  <2>1. CASE Byte(b) # Dot
    BY <1>1, <2>1 DEF FracEnd
  <2>2. CASE Byte(b) = Dot /\ Byte(b + 1) \in Digits
    <3>1. DigitsEnd(b + 1) \in ((b + 1) + 1)..Len(input)
      BY <1>2, <2>2
    <3> QED
      BY <1>1, <2>2, <3>1 DEF FracEnd
  <2> QED
    BY <1>4, <2>1, <2>2 DEF FracEnd
<1>5. ASSUME NEW b \in 0..Len(input), ExpEnd(b) # None
      PROVE  ExpEnd(b) \in b..Len(input)
  <2>1. CASE Byte(b) \notin Exponents
    BY <1>1, <2>1 DEF ExpEnd
  <2>2. CASE Byte(b) \in Exponents
    <3>1. PICK first \in Nat : first > b /\ ExpEnd(b) = IF Byte(first) \in Digits THEN DigitsEnd(first) ELSE None
      BY <1>1, <2>2 DEF ExpEnd
    <3>2. Byte(first) \in Digits
      BY <1>5, <3>1
    <3>3. DigitsEnd(first) \in (first + 1)..Len(input)
      BY <1>2, <3>2
    <3> QED
      BY <1>1, <3>1, <3>2, <3>3
  <2> QED
    BY <2>1, <2>2
<1>6. PICK b \in {o, o + 1} : b = o + (IF Byte(o) = Minus THEN 1 ELSE 0)
  OBVIOUS
<1>7. IntEnd(b) # None /\ FracEnd(IntEnd(b)) # None /\ NumberEnd(o) = ExpEnd(FracEnd(IntEnd(b)))
  BY <1>6 DEF NumberEnd
<1>8. IntEnd(b) \in (b + 1)..Len(input) /\ b \in Nat /\ b >= o
  BY <1>3, <1>6, <1>7
<1>9. FracEnd(IntEnd(b)) \in IntEnd(b)..Len(input)
  BY <1>1, <1>4, <1>7, <1>8
<1>10. ExpEnd(FracEnd(IntEnd(b))) \in FracEnd(IntEnd(b))..Len(input)
  <2>1. FracEnd(IntEnd(b)) \in 0..Len(input)
    BY <1>1, <1>8, <1>9
  <2> QED
    BY <1>5, <1>7, <2>1
<1> QED
  BY <1>1, <1>7, <1>8, <1>9, <1>10

\* A slice as long as was asked for lies in the text.
LEMMA SliceIsThere ==
  ASSUME input \in Seq(Bytes), NEW o \in 0..Len(input), NEW n \in Nat \ {0},
         Len(Slice(o, o + n)) = n
  PROVE  o + n <= Len(input)
<1>1. Len(input) \in Nat
  OBVIOUS
<1>2. CASE o + n < Len(input)
  BY <1>1, <1>2
<1>3. CASE ~(o + n < Len(input))
  <2>1. Slice(o, o + n) = SubSeq(input, o + 1, Len(input))
    BY <1>3 DEF Slice
  <2>2. Len(SubSeq(input, o + 1, Len(input))) = Len(input) - o
    BY <1>1
  <2> QED
    BY <1>1, <2>1, <2>2
<1> QED
  BY <1>2, <1>3

-----------------------------------------------------------------------------
(* Steps of the tokeniser *)

\* A token is noted, with places in the text, and the tokeniser goes on at its end.
LEMMA EmitStays ==
  ASSUME CursorInTokens, PlacesInText, NEW token, Emit(token),
         token.pos \in Positions, token.end \in Positions, token.end.offset >= 1
  PROVE  PlacesInText'
<1>1. PICK S : tokens \in Seq(S)
  BY DEF CursorInTokens
<1>2. tokens' = Append(tokens, token) /\ pos' = token.end
  BY DEF Emit
<1>3. input' = input /\ opened' = opened /\ error' = error
  BY DEF Emit
<1>4. Len(tokens) \in Nat /\ Len(tokens') = Len(tokens) + 1
  BY <1>1, <1>2
<1>5. \A i \in 1..Len(tokens') : tokens'[i] = IF i <= Len(tokens) THEN tokens[i] ELSE token
  BY <1>1, <1>2
<1>6. Positions' = Positions
  BY <1>3 DEF Positions
<1>7. \A i \in 1..Len(tokens') :
        tokens'[i].pos \in Positions /\ tokens'[i].end \in Positions /\ tokens'[i].end.offset >= 1
  BY <1>4, <1>5 DEF PlacesInText
<1> QED
  BY <1>2, <1>3, <1>6, <1>7 DEF PlacesInText

\* An error is noted at a place in the text.
LEMMA FailStays ==
  ASSUME PlacesInText, NEW kind, NEW p \in Positions, Fail(kind, p)
  PROVE  PlacesInText'
<1>1. UNCHANGED <<input, pos, opened, tokens>>
  BY DEF Fail
<1>2. error'.pos \in Positions
  BY DEF Fail, PlacesInText
<1> QED
  BY <1>1, <1>2 DEF PlacesInText, Positions

\* A character of a string is passed over.
LEMMA PushStays ==
  ASSUME PlacesInText, NEW char, NEW n \in Nat, NEW c \in Nat, Push(char, n, c),
         pos.offset + n <= Len(input)
  PROVE  PlacesInText'
<1>1. UNCHANGED <<input, opened, tokens, error>> /\ pos' = Over(pos, n, c)
  BY DEF Push
<1>2. pos' \in Positions
  BY <1>1, OverStays DEF PlacesInText
<1> QED
  BY <1>1, <1>2 DEF PlacesInText, Positions

\* A token made of the next n bytes ends where they do.
LEMMA TokenStays ==
  ASSUME CursorInTokens, PlacesInText, NEW kind, NEW text, NEW n \in Nat \ {0},
         pos.offset + n <= Len(input), Emit(Token(kind, text, Over(pos, n, n)))
  PROVE  PlacesInText'
<1>1. pos \in Positions /\ pos.offset \in Nat /\ input \in Seq(Bytes)
  BY DEF PlacesInText, Positions
<1>2. Over(pos, n, n) \in Positions /\ Over(pos, n, n).offset = pos.offset + n
  BY <1>1, OverStays
<1>3. pos.offset + n >= 1
  BY <1>1
<1>4. /\ Token(kind, text, Over(pos, n, n)).pos = pos
      /\ Token(kind, text, Over(pos, n, n)).end = Over(pos, n, n)
  BY DEF Token
<1> QED
  BY <1>1, <1>2, <1>3, <1>4, EmitStays

\* White space, a token, the beginning of a string, or an error instead.
LEMMA BetweenTokensStays ==
  ASSUME CursorInTokens, PlacesInText,
         SkipWs \/ EndOfInput \/ Structural \/ ReadLiteral \/ UnknownByte \/ ReadNumber \/ OpenString
  PROVE  PlacesInText'
<1>1. /\ input \in Seq(Bytes) /\ Len(input) \in Nat
      /\ pos \in Positions /\ pos.offset \in 0..Len(input) /\ pos.line \in Nat /\ pos.column \in Nat
  BY DEF PlacesInText, Positions
<1>2. Here # None => pos.offset + 1 <= Len(input)
  BY <1>1, ByteIsThere DEF Here
<1>3. CASE SkipWs
  <2>1. UNCHANGED <<input, opened, tokens, error>>
    BY <1>3 DEF SkipWs
  <2>2. pos.offset + 1 <= Len(input)
    BY <1>2, <1>3 DEF SkipWs, Whitespace, None
  <2>3. pos' \in Positions
    <3>1. CASE Here = Newline
      BY <1>1, <1>3, <2>2, <3>1 DEF SkipWs, Positions
    <3>2. CASE Here # Newline
      BY <1>1, <1>3, <2>2, <3>2, OverStays DEF SkipWs
    <3> QED
      BY <3>1, <3>2
  <2> QED
    BY <2>1, <2>3 DEF PlacesInText, Positions
<1>4. CASE EndOfInput
  BY <1>4 DEF EndOfInput, PlacesInText, Positions
<1>5. CASE Structural
  <2>1. Here \in {123, 125, 91, 93, 58, 44}
    BY <1>5 DEF Structural, Punctuation
  <2>2. pos.offset + 1 <= Len(input)
    BY <1>2, <2>1 DEF None
  <2>3. 1 \in Nat \ {0} /\ Emit(Token(Punctuation[Here], <<>>, Over(pos, 1, 1)))
    BY <1>5 DEF Structural
  <2> QED
    BY <2>2, <2>3, TokenStays
<1>6. CASE ReadLiteral
  <2>1. PICK word \in Literals :
          \/ /\ Slice(pos.offset, pos.offset + Len(word.text)) = word.text
             /\ Emit(Token(word.kind, <<>>, Over(pos, Len(word.text), Len(word.text))))
          \/ Fail("InvalidLiteral", pos)
    BY <1>6 DEF ReadLiteral
  <2>2. Len(word.text) \in Nat \ {0}
    <3>1. word.text \in {<<116, 114, 117, 101>>, <<102, 97, 108, 115, 101>>, <<110, 117, 108, 108>>}
      BY <2>1 DEF Literals
    <3>2. /\ Len(<<116, 114, 117, 101>>) = 4
          /\ Len(<<102, 97, 108, 115, 101>>) = 5
          /\ Len(<<110, 117, 108, 108>>) = 4
      OBVIOUS
    <3>3. PICK n \in {4, 5} : Len(word.text) = n
      BY <3>1, <3>2
    <3>4. n \in Nat \ {0}
      OBVIOUS
    <3> QED
      BY <3>3, <3>4
  <2>3. CASE Slice(pos.offset, pos.offset + Len(word.text)) = word.text
    BY <1>1, <2>1, <2>2, <2>3, SliceIsThere, TokenStays, FailStays
  <2> QED
    BY <1>1, <2>1, <2>3, FailStays
<1>7. CASE UnknownByte
  BY <1>1, <1>7, FailStays DEF UnknownByte
<1>8. CASE ReadNumber
  <2> DEFINE end == NumberEnd(pos.offset)
             value == Double(Slice(pos.offset, end))
  <2>1. CASE Fail("InvalidNumber", pos) \/ Fail("NumberOutOfRange", pos)
    BY <1>1, <2>1, FailStays
  <2>2. CASE end # None /\ Emit(Token("number", value, Over(pos, end - pos.offset, end - pos.offset)))
    <3>1. end \in (pos.offset + 1)..Len(input)
      BY <1>1, <2>2, NumberEndStays
    <3>2. PICK n \in Nat \ {0} : n = end - pos.offset /\ pos.offset + n <= Len(input)
      BY <1>1, <3>1
    <3> HIDE DEF end, value
    <3> QED
      BY <2>2, <3>2, TokenStays
  <2> QED
    BY <1>8, <2>1, <2>2 DEF ReadNumber
<1>9. CASE OpenString
  <2>1. UNCHANGED <<input, tokens, error>> /\ opened' = pos /\ pos' = Over(pos, 1, 1)
    BY <1>9 DEF OpenString
  <2>2. pos.offset + 1 <= Len(input)
    BY <1>2, <1>9 DEF OpenString, Quote, None
  <2>3. pos' \in Positions
    BY <1>1, <2>1, <2>2, OverStays
  <2> QED
    BY <2>1, <2>3 DEF PlacesInText, Positions
<1> QED
  BY <1>3, <1>4, <1>5, <1>6, <1>7, <1>8, <1>9

\* An escape of four hexadecimal digits is there to its last.
LEMMA Hex4IsThere ==
  ASSUME input \in Seq(Bytes), NEW o \in Nat, Hex4(o).fault = "None"
  PROVE  o + 4 <= Len(input)
<1>1. {k \in 0..3 : Byte(o + k) \notin HexDigits} = {}
  BY DEF Hex4
<1>2. \A k \in 0..3 : Byte(o + k) \in HexDigits
  BY <1>1
<1>3. 3 \in 0..3 /\ o + 3 \in Nat /\ Len(input) \in Nat
  OBVIOUS
<1>4. Byte(o + 3) \in HexDigits
  BY <1>2, <1>3
<1>5. None \notin HexDigits
  BY DEF HexDigits, Digits, None
<1>6. Byte(o + 3) # None
  BY <1>4, <1>5
<1>7. o + 3 < Len(input)
  BY <1>3, <1>6, ByteIsThere
<1> QED
  BY <1>3, <1>7

\* Inside a string.
LEMMA InStringStays ==
  ASSUME CursorInTokens, PlacesInText, InString
  PROVE  PlacesInText'
<1>1. /\ input \in Seq(Bytes) /\ Len(input) \in Nat
      /\ pos \in Positions /\ opened \in Positions /\ pos.offset \in 0..Len(input)
  BY DEF PlacesInText, Positions
<1>2. Here # None => pos.offset + 1 <= Len(input)
  BY <1>1, ByteIsThere DEF Here
<1>3. ASSUME NEW kind, Fail(kind, pos) \/ Fail(kind, opened)
      PROVE  PlacesInText'
  BY <1>1, <1>3, FailStays
<1>4. CASE CloseString
  <2> DEFINE token == [Token("string", out, Over(pos, 1, 1)) EXCEPT !.pos = opened]
  <2>1. token.pos = opened /\ token.end = Over(pos, 1, 1)
    BY DEF Token
  <2>2. pos.offset + 1 <= Len(input)
    BY <1>2, <1>4 DEF CloseString, Quote, None
  <2>3. token.end \in Positions /\ token.end.offset >= 1
    BY <1>1, <2>1, <2>2, OverStays
  <2>4. Emit(token)
    BY <1>4 DEF CloseString
  <2> HIDE DEF token
  <2> QED
    BY <1>1, <2>1, <2>3, <2>4, EmitStays
<1>5. CASE UnterminatedString \/ ControlChar
  BY <1>3, <1>5 DEF UnterminatedString, ControlChar
<1>6. CASE PlainChar
  <2>1. pos.offset + 1 <= Len(input)
    BY <1>2, <1>6 DEF PlainChar, None
  <2> QED
    BY <1>6, <2>1, PushStays DEF PlainChar
<1>7. CASE Utf8Char
  <2> DEFINE n == Utf8Length(Here)
  <2>1. n \in Nat
    BY DEF Utf8Length
  <2>2. \/ pos.offset + n <= Len(input) /\ \E char : Push(char, n, 1)
        \/ Fail("InvalidUtf8", pos)
    BY <1>7 DEF Utf8Char
  <2> HIDE DEF n
  <2> QED
    BY <1>3, <2>1, <2>2, PushStays
<1>8. CASE SimpleEscape
  <2>1. \/ Byte(pos.offset + 1) # None /\ \E char : Push(char, 2, 2)
        \/ \E kind : Fail(kind, pos)
    BY <1>8 DEF SimpleEscape
  <2>2. Byte(pos.offset + 1) # None => pos.offset + 2 <= Len(input)
    BY <1>1, ByteIsThere
  <2> QED
    BY <1>3, <2>1, <2>2, PushStays
<1>9. CASE UnicodeEscape
  <2>1. \/ Hex4(pos.offset + 2).fault = "None" /\ \E char : Push(char, 6, 6)
        \/ Hex4(pos.offset + 8).fault = "None" /\ \E char : Push(char, 12, 12)
        \/ \E kind : Fail(kind, pos)
    BY <1>9 DEF UnicodeEscape
  <2>2. Hex4(pos.offset + 2).fault = "None" => pos.offset + 6 <= Len(input)
    BY <1>1, Hex4IsThere
  <2>3. Hex4(pos.offset + 8).fault = "None" => pos.offset + 12 <= Len(input)
    BY <1>1, Hex4IsThere
  <2> QED
    BY <1>3, <2>1, <2>2, <2>3, PushStays
<1> QED
  BY <1>4, <1>5, <1>6, <1>7, <1>8, <1>9 DEF InString

-----------------------------------------------------------------------------
(* Steps of the parser *)

\* What the parser has to say of a token it says of a place in the text.
LEMMA PeekPosStays ==
  ASSUME CursorInTokens, PlacesInText, NEW c \in Nat
  PROVE  PeekPos(c) \in Positions
<1>1. PICK S : tokens \in Seq(S)
  BY DEF CursorInTokens
<1>2. Len(tokens) \in Nat /\ (tokens # <<>> => Len(tokens) \in 1..Len(tokens))
  BY <1>1
<1>3. START \in Positions
  BY DEF START, Positions, PlacesInText
<1>4. c < Len(tokens) => c + 1 \in 1..Len(tokens)
  BY <1>2
<1> QED
  BY <1>2, <1>3, <1>4 DEF PeekPos, PlacesInText, Last

\* An error of the parser is noted at a place in the text.
LEMMA RejectStays ==
  ASSUME PlacesInText, NEW kind, NEW p \in Positions, Reject(kind, p)
  PROVE  PlacesInText'
<1>1. UNCHANGED <<input, pos, opened, tokens>> /\ error'.pos = p
  BY DEF Reject
<1> QED
  BY <1>1 DEF PlacesInText, Positions

\* The parser notes no places but those of errors.
LEMMA ParseStays ==
  ASSUME CursorInTokens, PlacesInText, Parse
  PROVE  PlacesInText'
<1>1. cursor \in Nat /\ cursor + 1 \in Nat
  BY DEF CursorInTokens
<1>2. ASSUME UNCHANGED lexVars
      PROVE  PlacesInText'
  BY <1>2 DEF lexVars, PlacesInText, Positions
<1>3. ASSUME NEW kind, Reject(kind, PeekPos(cursor)) \/ Reject(kind, PeekPos(cursor + 1))
      PROVE  PlacesInText'
  BY <1>1, <1>3, PeekPosStays, RejectStays
<1>4. CASE ParseScalar \/ CloseContainer
  BY <1>2, <1>4 DEF ParseScalar, CloseContainer, Return
<1>5. ASSUME NEW kind, OpenContainer(kind)
      PROVE  PlacesInText'
  BY <1>2, <1>3, <1>5 DEF OpenContainer, Return
<1>6. CASE NoValueHere \/ NoSeparator
  BY <1>3, <1>6 DEF NoValueHere, NoSeparator, RejectToken
<1>7. CASE ParseKey
  BY <1>2, <1>3, <1>7 DEF ParseKey, RejectToken
<1>8. CASE Comma
  BY <1>2, <1>3, <1>8 DEF Comma
<1>9. CASE Finish
  BY <1>2, <1>3, <1>9 DEF Finish
<1> QED
  BY <1>4, <1>5, <1>6, <1>7, <1>8, <1>9 DEF Parse

-----------------------------------------------------------------------------
(* Calls *)

EntryTypes == [cstr : BOOLEAN, opts : BOOLEAN, strict : BOOLEAN]

\* What a call that runs knows of its text.
CallSound ==
  /\ call.entry \in EntryTypes
  /\ running => /\ call.skip \in Nat /\ call.length = call.skip + Len(input)
                /\ parseEnd = call.found

CallsInv == CursorInTokens /\ PlacesInText /\ CallSound /\ LastErrorTellsFailure

\* How a parse begins: at the first byte behind the mark.
Beginning ==
  /\ input \in Seq(Bytes)
  /\ lexer = "scan" /\ pos = START /\ opened = START /\ tokens = <<>> /\ error = NoError
  /\ parser = "value" /\ cursor = 0

\* At the beginning there are no places but the first.
LEMMA BeginningSound ==
  Beginning => CursorInTokens /\ PlacesInText
<1> SUFFICES ASSUME Beginning
             PROVE  CursorInTokens /\ PlacesInText
  OBVIOUS
<1> USE DEF Beginning
<1>1. tokens \in Seq({}) /\ Len(tokens) = 0
  OBVIOUS
<1>2. CursorInTokens
  BY <1>1 DEF CursorInTokens
<1>3. START \in Positions /\ NoError.pos = START
  BY DEF START, NoError, Positions
<1> QED
  BY <1>1, <1>2, <1>3 DEF PlacesInText

\* What tells the entry points apart are three flags.
LEMMA EntriesTyped == Entries \subseteq EntryTypes
<1>1. \A c, o, s \in BOOLEAN : Entry(c, o, s) \in EntryTypes
  BY DEF Entry, EntryTypes
<1>2. \A entry \in Entries : \E c, o, s \in BOOLEAN : entry = Entry(c, o, s)
  BY DEF Entries, LengthOpts
<1> QED
  BY <1>1, <1>2

\* A call forgets the places of the last one, and says nothing until it returns.
LEMMA CallTextSound ==
  ASSUME NEW entry \in Entries, NEW text \in Seq(Bytes), CallText(entry, text)
  PROVE  CallsInv'
<1> DEFINE skip == BomSkip(text)
<1>1. skip \in Nat /\ skip <= Len(text) /\ Len(text) \in Nat
  BY DEF BomSkip, IsPrefix, BOM
<1>2. /\ input' = SubSeq(text, skip + 1, Len(text))
      /\ call' = [entry |-> entry, skip |-> skip, length |-> Len(text), found |-> parseEnd]
      /\ running' = TRUE /\ parseEnd' = parseEnd
  BY DEF CallText
<1> HIDE DEF skip
<1>3. input' \in Seq(Bytes) /\ Len(input') = Len(text) - skip
  BY <1>1, <1>2
<1>4. CallSound'
  BY <1>1, <1>2, <1>3, EntriesTyped DEF CallSound
<1>5. CursorInTokens' /\ PlacesInText'
  <2>1. Beginning'
    BY <1>3 DEF CallText, Beginning
  <2>2. Beginning' => CursorInTokens' /\ PlacesInText'
    BY BeginningSound, PTL
  <2> QED
    BY <2>1, <2>2
<1>6. LastErrorTellsFailure'
  BY <1>2 DEF LastErrorTellsFailure
<1> QED
  BY <1>4, <1>5, <1>6 DEF CallsInv

\* A NULL text is no error.
LEMMA CallNullSound ==
  ASSUME CallsInv, NEW entry \in Entries, CallNull(entry)
  PROVE  CallsInv'
<1>1. /\ call' = [entry |-> entry, skip |-> 0, length |-> 0, found |-> parseEnd]
      /\ parseEnd' = IF entry.opts /\ entry.cstr THEN None ELSE parseEnd
      /\ lastError' = None /\ outcome' = "null" /\ running' = FALSE
      /\ UNCHANGED vars
  BY DEF CallNull, CallsInv
<1>2. LastErrorTellsFailure'
  BY <1>1 DEF LastErrorTellsFailure
<1>3. CallSound'
  BY <1>1, EntriesTyped DEF CallSound
<1> QED
  BY <1>1, <1>2, <1>3
  DEF CallsInv, CursorInTokens, PlacesInText, Positions, vars, lexVars, parseVars

\* The tokeniser does not write into the text.
LEMMA TokeniseKeepsText ==
  ASSUME Tokenise
  PROVE  input' = input
<1>1. ASSUME NEW token, Emit(token)
      PROVE  input' = input
  BY <1>1 DEF Emit
<1>2. ASSUME NEW kind, NEW p, Fail(kind, p)
      PROVE  input' = input
  BY <1>2 DEF Fail
<1>3. ASSUME NEW char, NEW n, NEW c, Push(char, n, c)
      PROVE  input' = input
  BY <1>3 DEF Push
<1>4. CASE SkipWs \/ EndOfInput \/ OpenString
  BY <1>4 DEF SkipWs, EndOfInput, OpenString
<1>5. CASE Structural \/ CloseString
  BY <1>1, <1>5 DEF Structural, CloseString
<1>6. CASE ReadLiteral \/ ReadNumber
  BY <1>1, <1>2, <1>6 DEF ReadLiteral, ReadNumber
<1>7. CASE UnknownByte \/ UnterminatedString \/ ControlChar
  BY <1>2, <1>7 DEF UnknownByte, UnterminatedString, ControlChar
<1>8. CASE PlainChar \/ Utf8Char
  BY <1>2, <1>3, <1>8 DEF PlainChar, Utf8Char
<1>9. CASE SimpleEscape \/ UnicodeEscape
  BY <1>2, <1>3, <1>9 DEF SimpleEscape, UnicodeEscape
<1> QED
  BY <1>4, <1>5, <1>6, <1>7, <1>8, <1>9 DEF Tokenise, InString

\* The text of the call stays what it was.
LEMMA CallRunsSound ==
  ASSUME CallsInv, CallRuns
  PROVE  CallsInv'
<1>1. CursorInTokens' /\ PlacesInText' /\ input' = input
  <2>1. CASE Tokenise /\ UNCHANGED parseVars
    BY <2>1, TokeniseKeepsText, TokeniseKeepsCursor, BetweenTokensStays, InStringStays
    DEF CallsInv, Tokenise
  <2>2. CASE Parse
    <3>1. input' = input
      BY <2>2 DEF Parse, ParseScalar, CloseContainer, OpenContainer, NoValueHere, NoSeparator,
         RejectToken, ParseKey, Comma, Finish, Return, Reject, lexVars
    <3> QED
      BY <2>2, <3>1, ParseKeepsCursor, ParseStays DEF CallsInv
  <2> QED
    BY <2>1, <2>2 DEF CallRuns
<1>2. running' = TRUE /\ call' = call /\ parseEnd' = parseEnd
  BY DEF CallRuns, callVars, CallsInv, LastErrorTellsFailure
<1>3. running
  BY DEF CallRuns
<1> QED
  BY <1>1, <1>2, <1>3 DEF CallsInv, CallSound, LastErrorTellsFailure

\* The parse end of an accepted text is behind its last token, or its end.
LEMMA ReturnAcceptedSound ==
  ASSUME CallsInv, ReturnAccepted
  PROVE  CallsInv'
<1>1. /\ running /\ Accepted /\ running' = FALSE /\ lastError' = None
      /\ UNCHANGED <<vars, call>> /\ outcome' \in {"tree", "memory"}
  BY DEF ReturnAccepted
<1>2. Consumed \in 1..Len(input) /\ Len(input) \in Nat
  <2>1. cursor \in 1..Len(tokens)
    BY <1>1, AcceptedConsumed DEF CallsInv, LastTokenIsThere
  <2> QED
    BY <2>1 DEF CallsInv, PlacesInText, Positions, Consumed
<1>3. /\ call.entry \in EntryTypes
      /\ call.skip \in Nat /\ call.length = call.skip + Len(input)
      /\ ~call.entry.opts => parseEnd' = call.found
  BY <1>1 DEF CallsInv, CallSound, ReturnAccepted
<1>4. call.entry.opts => parseEnd' \in (call.skip + 1)..call.length
  <2>1. call.entry.opts => parseEnd' \in {call.length, call.skip + Consumed}
    BY DEF ReturnAccepted
  <2> QED
    BY <1>2, <1>3, <2>1
<1>5. LastErrorTellsFailure'
  BY <1>1, <1>3, <1>4 DEF LastErrorTellsFailure
<1> QED
  BY <1>1, <1>3, <1>5
  DEF CallsInv, CallSound, CursorInTokens, PlacesInText, Positions, vars, lexVars, parseVars

\* The error of a rejected text lies in it, or at its end.
LEMMA ReturnErrorSound ==
  ASSUME CallsInv, ReturnError
  PROVE  CallsInv'
<1>1. /\ running /\ running' = FALSE /\ lastError' = ErrorOffset /\ outcome' = "rejected"
      /\ UNCHANGED <<vars, call>>
      /\ parseEnd' = IF call.entry.opts THEN ErrorOffset ELSE parseEnd
  BY DEF ReturnError
<1>2. /\ call.entry \in EntryTypes
      /\ call.skip \in Nat /\ call.length = call.skip + Len(input)
      /\ ~call.entry.opts => parseEnd' = call.found
  BY <1>1 DEF CallsInv, CallSound
<1>3. Len(input) \in Nat /\ error.pos.offset \in 0..Len(input)
  BY DEF CallsInv, PlacesInText, Positions
<1>4. ErrorOffset \in call.skip..call.length /\ ErrorOffset # None
  BY <1>2, <1>3 DEF ErrorOffset, None
<1>5. LastErrorTellsFailure'
  BY <1>1, <1>2, <1>4 DEF LastErrorTellsFailure
<1> QED
  BY <1>1, <1>2, <1>5
  DEF CallsInv, CallSound, CursorInTokens, PlacesInText, Positions, vars, lexVars, parseVars

\* After every call, of any entry point on any text, cJSON_GetErrorPtr is NULL or
\* points into that text, and says whether it was rejected; the parse end lies
\* in it too, or is what the call found.
\* (LAST_ERROR_PTR, error_byte_offset, *return_parse_end)
THEOREM ErrorsPointIntoText == CallsSpec => []LastErrorTellsFailure
<1>1. CallsInit => CallsInv
  <2> SUFFICES ASSUME CallsInit
               PROVE  CallsInv
    OBVIOUS
  <2>1. CursorInTokens /\ PlacesInText
    BY BeginningSound DEF CallsInit, Start, Beginning
  <2>2. CallSound
    BY DEF CallsInit, CallSound, Entry, EntryTypes
  <2>3. LastErrorTellsFailure
    BY DEF CallsInit, LastErrorTellsFailure
  <2> QED
    BY <2>1, <2>2, <2>3 DEF CallsInv
<1>2. CallsInv /\ [CallsNext]_<<vars, callVars>> => CallsInv'
  <2> SUFFICES ASSUME CallsInv, [CallsNext]_<<vars, callVars>>
               PROVE  CallsInv'
    OBVIOUS
  <2>1. CASE UNCHANGED <<vars, callVars>>
    BY <2>1 DEF CallsInv, CallSound, LastErrorTellsFailure, CursorInTokens, PlacesInText, Positions,
       vars, lexVars, parseVars, callVars
  <2> QED
    BY <2>1, CallTextSound, CallNullSound, CallRunsSound, ReturnAcceptedSound, ReturnErrorSound
    DEF CallsNext
<1>3. CallsInv => LastErrorTellsFailure
  BY DEF CallsInv
<1> QED
  BY <1>1, <1>2, <1>3, PTL DEF CallsSpec

-----------------------------------------------------------------------------
(* The values that tokens spell *)

\* A value ends after it begins, and within the tokens.
EndLater(s, values) ==
  \A b \in 0..Len(s) : \A v \in values[b] : v.end \in (b + 1)..Len(s)

IsSeq(s) == \E S : s \in Seq(S)

\* Some elements or members: where they end, their keys and values.
AreMembers(s, b, m) ==
  /\ m = Members(m.end, m.keys, m.kids)
  /\ m.end \in (b + 1)..Len(s)
  /\ IsSeq(m.keys) /\ IsSeq(m.kids)

\* A kind that is found is that of a token there is.
LEMMA KindFinds ==
  ASSUME NEW s, IsSeq(s), NEW b \in Nat, KindAt(s, b) # "none"
  PROVE  b + 1 \in 1..Len(s)
<1>1. Len(s) \in Nat /\ b < Len(s)
  BY DEF IsSeq, KindAt
<1> QED
  BY <1>1

LEMMA OneMember ==
  ASSUME NEW v, NEW k
  PROVE  IsSeq(<<>>) /\ IsSeq(<<k>>) /\ IsSeq(<<v.value>>)
<1>1. <<>> \in Seq({}) /\ <<k>> \in Seq({k}) /\ <<v.value>> \in Seq({v.value})
  OBVIOUS
<1> QED
  BY <1>1 DEF IsSeq

\* An element or member ends after it begins, too.
LEMMA ItemsEnd ==
  ASSUME NEW s, IsSeq(s), NEW values, EndLater(s, values), NEW kind,
         NEW b \in 0..Len(s), NEW m \in ItemsAt(s, values, kind, b)
  PROVE  AreMembers(s, b, m)
<1>1. Len(s) \in Nat
  BY DEF IsSeq
<1>2. ASSUME NEW v, NEW keys, IsSeq(keys), v.end \in (b + 1)..Len(s), m = Members(v.end, keys, <<v.value>>)
      PROVE  AreMembers(s, b, m)
  <2>1. IsSeq(<<v.value>>)
    BY OneMember
  <2>2. m.end = v.end /\ m.keys = keys /\ m.kids = <<v.value>>
    BY <1>2 DEF Members
  <2> QED
    BY <1>2, <2>1, <2>2 DEF AreMembers
<1>3. CASE kind = "array"
  <2>1. PICK v \in values[b] : m = Members(v.end, <<>>, <<v.value>>)
    BY <1>3 DEF ItemsAt
  <2>2. v.end \in (b + 1)..Len(s)
    BY DEF EndLater
  <2> QED
    BY <1>2, <2>1, <2>2, OneMember
<1>4. CASE kind # "array"
  <2>1. KindAt(s, b + 1) = ":" /\ m \in {Members(v.end, <<s[b + 1].text>>, <<v.value>>) : v \in values[b + 2]}
    BY <1>4 DEF ItemsAt
  <2>2. PICK v \in values[b + 2] : m = Members(v.end, <<s[b + 1].text>>, <<v.value>>)
    BY <2>1
  <2>3. b + 2 \in 0..Len(s)
    <3>1. b + 1 \in Nat /\ (b + 1) + 1 = b + 2 /\ KindAt(s, b + 1) # "none"
      BY <1>1, <2>1
    <3> QED
      BY <1>1, <3>1, KindFinds
  <2>4. v.end \in (b + 2 + 1)..Len(s)
    BY <2>3 DEF EndLater
  <2>5. v.end \in (b + 1)..Len(s)
    BY <1>1, <2>3, <2>4
  <2> QED
    BY <1>2, <2>2, <2>5, OneMember
<1> QED
  BY <1>3, <1>4

\* Lists that are not known yet do not matter.
LEMMA ListsFromSame ==
  ASSUME NEW s, IsSeq(s), NEW values, EndLater(s, values), NEW kind, NEW b \in 0..Len(s),
         NEW f, NEW g, \A e \in (b + 1)..Len(s) : f[e] = g[e]
  PROVE  ListsFrom(s, values, kind, f, b) = ListsFrom(s, values, kind, g, b)
<1> DEFINE I == {i \in ItemsAt(s, values, kind, b) : KindAt(s, i.end) = ","}
<1>1. Len(s) \in Nat /\ b \in 0..Len(s)
  BY DEF IsSeq
<1>2. \A i \in I : f[i.end + 1] = g[i.end + 1]
  <2> TAKE i \in I
  <2>1. i.end \in (b + 1)..Len(s) /\ KindAt(s, i.end) # "none"
    BY ItemsEnd DEF AreMembers
  <2> HIDE DEF I
  <2>2. PICK e : e = i.end
    OBVIOUS
  <2>3. e \in Nat /\ e \in (b + 1)..Len(s) /\ KindAt(s, e) # "none"
    BY <1>1, <2>1, <2>2
  <2>4. e + 1 \in 1..Len(s)
    BY <2>3, KindFinds
  <2>5. e + 1 \in (b + 1)..Len(s)
    BY <1>1, <2>3, <2>4
  <2> QED
    BY <2>2, <2>5
<1> HIDE DEF I
<1>3. \A i \in I : GoingOn(f, i) = GoingOn(g, i)
  BY <1>2 DEF GoingOn
<1>4. {GoingOn(f, i) : i \in I} = {GoingOn(g, i) : i \in I}
  BY <1>3
<1> QED
  BY <1>4 DEF ListsFrom, I

\* There are such lists, found from the end of s on.
LEMMA ListsOfIs ==
  ASSUME NEW s, IsSeq(s), NEW values, EndLater(s, values), NEW kind
  PROVE  \A b \in 0..Len(s) : ListsOf(s, values, kind)[b] = ListsFrom(s, values, kind, ListsOf(s, values, kind), b)
<1> DEFINE L == Len(s)
           From(n) == IF n <= L THEN L - n ELSE 0
           Knows(g, n) == \A b \in From(n)..L : g[b] = ListsFrom(s, values, kind, g, b)
           A == {n \in Nat : \E g : Knows(g, n)}
<1>1. L \in Nat
  BY DEF IsSeq
<1> DEFINE none == [b \in 0..L |-> {}]
<1>2. 0 \in A
  <2> DEFINE g == [b \in 0..L |-> ListsFrom(s, values, kind, none, b)]
  <2>1. \A b \in L..L : g[b] = ListsFrom(s, values, kind, g, b)
    <3> TAKE b \in L..L
    <3>1. b \in 0..L /\ \A e \in (b + 1)..L : none[e] = g[e]
      BY <1>1
    <3>2. g[b] = ListsFrom(s, values, kind, none, b)
      BY <3>1
    <3> HIDE DEF g, none
    <3>3. ListsFrom(s, values, kind, none, b) = ListsFrom(s, values, kind, g, b)
      BY <3>1, ListsFromSame
    <3> QED
      BY <3>2, <3>3
  <2>2. From(0) = L
    BY <1>1
  <2>3. Knows(g, 0)
    <3> HIDE DEF g
    <3> QED
      BY <2>1, <2>2
  <2> QED
    BY <2>3
<1> HIDE DEF none
<1>3. ASSUME NEW n \in Nat, n \in A
      PROVE  n + 1 \in A
  <2>1. PICK g : Knows(g, n)
    BY <1>3
  <2>2. CASE n >= L
    <3>1. From(n) = 0 /\ From(n + 1) = 0
      BY <1>1, <2>2
    <3> QED
      BY <2>1, <3>1
  <2>3. CASE n < L
    <3> DEFINE t == L - n - 1
               h == [b \in 0..L |-> IF b = t THEN ListsFrom(s, values, kind, g, t) ELSE g[b]]
    <3>1. t \in 0..L /\ From(n + 1) = t /\ From(n) = t + 1
      BY <1>1, <2>3
    <3> HIDE DEF t
    <3>2. \A b \in t..L : ListsFrom(s, values, kind, h, b) = ListsFrom(s, values, kind, g, b)
      <4> TAKE b \in t..L
      <4>1. b \in 0..L /\ \A e \in (b + 1)..L : h[e] = g[e]
        BY <1>1, <3>1
      <4> HIDE DEF h
      <4> QED
        BY <4>1, ListsFromSame
    <3>3. \A b \in (t + 1)..L : g[b] = ListsFrom(s, values, kind, g, b)
      BY <2>1, <3>1
    <3>4. \A b \in t..L : h[b] = ListsFrom(s, values, kind, g, b)
      <4> TAKE b \in t..L
      <4>1. b \in 0..L
        BY <1>1, <3>1
      <4>2. CASE b = t
        BY <4>1, <4>2
      <4>3. CASE b # t
        BY <1>1, <3>1, <3>3, <4>1, <4>3
      <4> QED
        BY <4>2, <4>3
    <3>5. Knows(h, n + 1)
      <4> HIDE DEF h
      <4> QED
        BY <3>1, <3>2, <3>4
    <3> HIDE DEF h
    <3> QED
      BY <3>5
  <2> QED
    BY <1>1, <2>2, <2>3
<1>4. Nat \subseteq A
  <2> HIDE DEF A
  <2> QED
    BY <1>2, <1>3, NatSet
<1>5. PICK g : Knows(g, L)
  BY <1>1, <1>4
<1> DEFINE f == [b \in 0..L |-> g[b]]
<1>6. f = [b \in 0..L |-> ListsFrom(s, values, kind, f, b)]
  <2>1. \A b \in 0..L : f[b] = ListsFrom(s, values, kind, g, b)
    BY <1>1, <1>5
  <2>2. \A b \in 0..L : ListsFrom(s, values, kind, f, b) = ListsFrom(s, values, kind, g, b)
    <3> TAKE b \in 0..L
    <3>1. \A e \in (b + 1)..L : f[e] = g[e]
      BY <1>1
    <3> HIDE DEF f
    <3> QED
      BY <3>1, ListsFromSame
  <2>3. f = [b \in 0..L |-> ListsFrom(s, values, kind, g, b)]
    BY <2>1
  <2> HIDE DEF f
  <2> QED
    BY <2>2, <2>3
<1> HIDE DEF f
<1> DEFINE F == ListsOf(s, values, kind)
<1>7. F = [b \in 0..L |-> ListsFrom(s, values, kind, F, b)]
  BY <1>6 DEF ListsOf
<1> HIDE DEF F
<1>8. \A b \in 0..L : F[b] = ListsFrom(s, values, kind, F, b)
  BY <1>7
<1> QED
  BY <1>8 DEF F

\* Two sequences of whatever one after the other, and a third.
LEMMA Joining ==
  ASSUME NEW a, IsSeq(a), NEW b, IsSeq(b)
  PROVE  IsSeq(a \o b)
<1>1. PICK A : a \in Seq(A)
  BY DEF IsSeq
<1>2. PICK B : b \in Seq(B)
  BY DEF IsSeq
<1>3. a \in Seq(A \cup B) /\ b \in Seq(A \cup B)
  BY <1>1, <1>2
<1>4. a \o b \in Seq(A \cup B)
  BY <1>3
<1> QED
  BY <1>4 DEF IsSeq

LEMMA JoiningThree ==
  ASSUME NEW a, IsSeq(a), NEW b, IsSeq(b), NEW c, IsSeq(c)
  PROVE  a \o (b \o c) = (a \o b) \o c
<1>1. PICK A : a \in Seq(A)
  BY DEF IsSeq
<1>2. PICK B : b \in Seq(B)
  BY DEF IsSeq
<1>3. PICK C : c \in Seq(C)
  BY DEF IsSeq
<1> DEFINE S == A \cup B \cup C
<1>4. a \in Seq(S) /\ b \in Seq(S) /\ c \in Seq(S)
  BY <1>1, <1>2, <1>3
<1> HIDE DEF S
<1> QED
  BY <1>4

\* What is in a list: one item, or an item, a comma and a list.
BeginsWith(s, lists, l, i) ==
  \/ l = i
  \/ /\ KindAt(s, i.end) = ","
     /\ \E rest \in lists[i.end + 1] : l = Members(rest.end, i.keys \o rest.keys, i.kids \o rest.kids)

LEMMA ListsHave ==
  ASSUME NEW s, IsSeq(s), NEW values, EndLater(s, values), NEW kind, NEW b \in 0..Len(s), NEW l
  PROVE  l \in ListsOf(s, values, kind)[b] <=>
           \E i \in ItemsAt(s, values, kind, b) : BeginsWith(s, ListsOf(s, values, kind), l, i)
<1> DEFINE F == ListsOf(s, values, kind)
           I == ItemsAt(s, values, kind, b)
<1>1. F[b] = ListsFrom(s, values, kind, F, b)
  BY ListsOfIs
<1> HIDE DEF F
<1>2. ListsFrom(s, values, kind, F, b) =
        I \cup UNION {GoingOn(F, item) : item \in {i \in I : KindAt(s, i.end) = ","}}
  BY DEF ListsFrom
<1> HIDE DEF I
<1>3. l \in F[b] <=> l \in I \/ \E i \in I : KindAt(s, i.end) = "," /\ l \in GoingOn(F, i)
  BY <1>1, <1>2
<1>4. \A i : l \in GoingOn(F, i) <=>
        \E rest \in F[i.end + 1] : l = Members(rest.end, i.keys \o rest.keys, i.kids \o rest.kids)
  BY DEF GoingOn
<1>5. l \in F[b] <=>
        \E i \in I : BeginsWith(s, F, l, i)
  BY <1>3, <1>4 DEF BeginsWith
<1> QED
  BY <1>5 DEF F, I

\* A list ends after it begins, and has keys and values.
LEMMA ListsEnd ==
  ASSUME NEW s, IsSeq(s), NEW values, EndLater(s, values), NEW kind
  PROVE  \A b \in 0..Len(s) : \A l \in ListsOf(s, values, kind)[b] : AreMembers(s, b, l)
<1> DEFINE F == ListsOf(s, values, kind)
           A == {n \in Nat : \A b \in 0..Len(s) : Len(s) - b <= n => \A l \in F[b] : AreMembers(s, b, l)}
<1>1. Len(s) \in Nat
  BY DEF IsSeq
<1>2. \A b \in 0..Len(s) : \A l \in F[b] :
        \E i \in ItemsAt(s, values, kind, b) : BeginsWith(s, F, l, i)
  BY ListsHave
<1> HIDE DEF F
<1>3. ASSUME NEW n \in Nat, NEW b \in 0..Len(s), Len(s) - b <= n, NEW l \in F[b],
             \A e \in 0..Len(s) : Len(s) - e < n => \A rest \in F[e] : AreMembers(s, e, rest)
      PROVE  AreMembers(s, b, l)
  <2>1. PICK i \in ItemsAt(s, values, kind, b) :
          \/ l = i
          \/ /\ KindAt(s, i.end) = ","
             /\ \E rest \in F[i.end + 1] : l = Members(rest.end, i.keys \o rest.keys, i.kids \o rest.kids)
    BY <1>2 DEF BeginsWith
  <2>2. AreMembers(s, b, i)
    BY ItemsEnd
  <2>3. CASE l = i
    BY <2>2, <2>3
  <2>4. CASE l # i
    <3>1. PICK e : e = i.end + 1
      OBVIOUS
    <3>2. PICK rest \in F[e] : l = Members(rest.end, i.keys \o rest.keys, i.kids \o rest.kids)
      BY <2>1, <2>4, <3>1
    <3>3. PICK c : c = i.end
      OBVIOUS
    <3>4. /\ b \in 0..Len(s) /\ c \in (b + 1)..Len(s) /\ c \in Nat
          /\ KindAt(s, c) # "none"
      <4>1. i.end \in (b + 1)..Len(s)
        BY <2>2 DEF AreMembers
      <4>2. KindAt(s, i.end) # "none"
        BY <2>1, <2>4
      <4> QED
        BY <1>1, <3>3, <4>1, <4>2
    <3>5. c + 1 \in 1..Len(s)
      BY <3>4, KindFinds
    <3>6. e \in 0..Len(s) /\ e >= b + 2 /\ Len(s) - e < n
      BY <1>1, <1>3, <3>1, <3>3, <3>4, <3>5
    <3>7. AreMembers(s, e, rest)
      BY <1>3, <3>6
    <3>8. /\ l.end = rest.end /\ l.keys = i.keys \o rest.keys /\ l.kids = i.kids \o rest.kids
          /\ l = Members(l.end, l.keys, l.kids)
      BY <3>2 DEF Members
    <3>9. IsSeq(l.keys) /\ IsSeq(l.kids)
      BY <2>2, <3>7, <3>8, Joining DEF AreMembers
    <3>10. rest.end \in (e + 1)..Len(s)
      BY <3>7 DEF AreMembers
    <3>11. l.end \in (b + 1)..Len(s)
      BY <1>1, <3>4, <3>6, <3>8, <3>10
    <3> QED
      BY <3>8, <3>9, <3>11 DEF AreMembers
  <2> QED
    BY <2>3, <2>4
<1>4. 0 \in A
  <2> SUFFICES ASSUME NEW b \in 0..Len(s), Len(s) - b <= 0, NEW l \in F[b]
               PROVE  AreMembers(s, b, l)
    OBVIOUS
  <2>1. \A e \in 0..Len(s) : ~(Len(s) - e < 0)
    BY <1>1
  <2> QED
    BY <1>3, <2>1
<1>5. ASSUME NEW n \in Nat, n \in A
      PROVE  n + 1 \in A
  <2> SUFFICES ASSUME NEW b \in 0..Len(s), Len(s) - b <= n + 1, NEW l \in F[b]
               PROVE  AreMembers(s, b, l)
    OBVIOUS
  <2>1. \A e \in 0..Len(s) : Len(s) - e < n + 1 => Len(s) - e <= n
    BY <1>1
  <2>2. \A e \in 0..Len(s) : Len(s) - e < n + 1 => \A rest \in F[e] : AreMembers(s, e, rest)
    BY <1>5, <2>1
  <2>3. n + 1 \in Nat
    OBVIOUS
  <2> QED
    BY <1>3, <2>2, <2>3
<1>6. Nat \subseteq A
  <2> HIDE DEF A
  <2> QED
    BY <1>4, <1>5, NatSet
<1>7. \A b \in 0..Len(s) : Len(s) - b <= Len(s)
  BY <1>1
<1>8. \A b \in 0..Len(s) : \A l \in F[b] : AreMembers(s, b, l)
  BY <1>1, <1>6, <1>7
<1> QED
  BY <1>8 DEF F

\* There are the values at every depth, found from the scalars on.
LEMMA ValuesOfIs ==
  ASSUME NEW s, NEW most \in Nat
  PROVE  \A d \in 0..most : ValuesOf(s, most)[d] = [b \in 0..Len(s) |-> ValuesAt(s, ValuesOf(s, most), d, b)]
<1> DEFINE Level(f, d) == [b \in 0..Len(s) |-> ValuesAt(s, f, d, b)]
           Knows(g, n) == \A d \in 0..n : g[d] = Level(g, d)
           A == {n \in Nat : \E g : Knows(g, n)}
<1>1. most \in Nat
  OBVIOUS
<1>2. \A f, g, d : (d = 0 \/ f[d - 1] = g[d - 1]) => Level(f, d) = Level(g, d)
  <2> TAKE f, g, d
  <2> HAVE d = 0 \/ f[d - 1] = g[d - 1]
  <2>1. \A b : ValuesAt(s, f, d, b) = ValuesAt(s, g, d, b)
    BY DEF ValuesAt
  <2> QED
    BY <2>1
<1> HIDE DEF Level
<1>3. 0 \in A
  <2> DEFINE none == [d \in 0..0 |-> {}]
             g == [d \in 0..0 |-> Level(none, d)]
  <2>1. g[0] = Level(none, 0)
    OBVIOUS
  <2> HIDE DEF g, none
  <2>2. Level(none, 0) = Level(g, 0)
    BY <1>2
  <2>3. \A d \in 0..0 : g[d] = Level(g, d)
    BY <2>1, <2>2
  <2>4. Knows(g, 0)
    BY <2>3
  <2> QED
    BY <2>4
<1>4. ASSUME NEW n \in Nat, n \in A
      PROVE  n + 1 \in A
  <2>1. PICK g : Knows(g, n)
    BY <1>4
  <2> DEFINE h == [d \in 0..(n + 1) |-> IF d = n + 1 THEN Level(g, d) ELSE g[d]]
  <2>2. \A d \in 0..(n + 1) : h[d] = Level(g, d)
    <3> TAKE d \in 0..(n + 1)
    <3>1. CASE d = n + 1
      BY <3>1
    <3>2. CASE d # n + 1
      <4>1. d \in 0..n
        BY <3>2
      <4> QED
        BY <2>1, <3>2, <4>1
    <3> QED
      BY <3>1, <3>2
  <2>3. \A d \in 0..(n + 1) : d = 0 \/ h[d - 1] = g[d - 1]
    <3> TAKE d \in 0..(n + 1)
    <3>1. d # 0 => d - 1 \in 0..(n + 1) /\ d - 1 # n + 1
      OBVIOUS
    <3> QED
      BY <3>1
  <2> HIDE DEF h
  <2>4. \A d \in 0..(n + 1) : h[d] = Level(h, d)
    BY <1>2, <2>2, <2>3
  <2>5. Knows(h, n + 1)
    BY <2>4
  <2> QED
    BY <2>5
<1>5. Nat \subseteq A
  <2> HIDE DEF A
  <2> QED
    BY <1>3, <1>4, NatSet
<1>6. PICK g : Knows(g, most)
  BY <1>1, <1>5
<1> DEFINE f == [d \in 0..most |-> g[d]]
<1>7. f = [d \in 0..most |-> Level(f, d)]
  <2>1. \A d \in 0..most : f[d] = Level(g, d)
    BY <1>6
  <2>2. \A d \in 0..most : d = 0 \/ f[d - 1] = g[d - 1]
    <3> TAKE d \in 0..most
    <3>1. d # 0 => d - 1 \in 0..most
      BY <1>1
    <3> QED
      BY <3>1
  <2>3. f = [d \in 0..most |-> Level(g, d)]
    BY <2>1
  <2> HIDE DEF f
  <2>4. \A d \in 0..most : Level(f, d) = Level(g, d)
    BY <1>2, <2>2
  <2> QED
    BY <2>3, <2>4
<1> HIDE DEF f
<1> DEFINE F == ValuesOf(s, most)
<1>8. F = [d \in 0..most |-> Level(F, d)]
  BY <1>7 DEF ValuesOf, Level
<1> HIDE DEF F
<1>9. \A d \in 0..most : F[d] = Level(F, d)
  BY <1>8
<1> QED
  BY <1>9 DEF F, Level

\* An array or object ends after it begins.
LEMMA ContainersEnd ==
  ASSUME NEW s, IsSeq(s), NEW values, EndLater(s, values), NEW kind,
         NEW b \in 0..Len(s), NEW v \in ContainersAt(s, values, kind, b)
  PROVE  v.end \in (b + 1)..Len(s)
<1> DEFINE R == {l \in ListsOf(s, values, kind)[b + 1] : KindAt(s, l.end) = Closer(kind)}
           C == {Closed(kind, list) : list \in R}
<1>1. Len(s) \in Nat /\ b \in 0..Len(s) /\ b \in Nat
  BY DEF IsSeq
<1>2. Opener(kind) # "none" /\ Closer(kind) # "none"
  BY DEF Opener, Closer
<1>3. /\ KindAt(s, b) = Opener(kind)
      /\ (KindAt(s, b + 1) = Closer(kind) /\ v = Found(b + 2, Empty(kind))) \/ v \in C
  BY DEF ContainersAt
<1>4. b + 1 \in 1..Len(s) /\ b + 1 \in 0..Len(s) /\ b + 1 \in Nat
  <2>1. b + 1 \in 1..Len(s)
    BY <1>1, <1>2, <1>3, KindFinds
  <2> QED
    BY <1>1, <2>1
<1>5. CASE KindAt(s, b + 1) = Closer(kind) /\ v = Found(b + 2, Empty(kind))
  <2>1. (b + 1) + 1 \in 1..Len(s)
    BY <1>2, <1>4, <1>5, KindFinds
  <2>2. v.end = b + 2
    BY <1>5 DEF Found
  <2> QED
    BY <1>1, <2>1, <2>2
<1>6. CASE v \in C
  <2>1. PICK l \in R : v = Closed(kind, l)
    BY <1>6
  <2>2. PICK e : e = l.end
    OBVIOUS
  <2>3. l \in ListsOf(s, values, kind)[b + 1] /\ KindAt(s, e) = Closer(kind)
    BY <2>2
  <2>4. AreMembers(s, b + 1, l)
    BY <1>4, <2>3, ListsEnd
  <2>5. e \in (b + 1 + 1)..Len(s)
    BY <2>2, <2>4 DEF AreMembers
  <2>6. e \in Nat
    BY <1>1, <2>5
  <2>7. e + 1 \in 1..Len(s)
    BY <1>2, <2>3, <2>6, KindFinds
  <2>8. v.end = e + 1
    BY <2>1, <2>2 DEF Closed, Found
  <2> QED
    BY <1>1, <2>5, <2>7, <2>8
<1> QED
  BY <1>3, <1>5, <1>6

LEMMA ScalarsEnd ==
  ASSUME NEW s, IsSeq(s), NEW b \in 0..Len(s), NEW v \in ScalarsAt(s, b)
  PROVE  v.end \in (b + 1)..Len(s)
<1>1. Len(s) \in Nat /\ b \in 0..Len(s) /\ b \in Nat
  BY DEF IsSeq
<1>2. KindAt(s, b) \in Scalars /\ v.end = b + 1
  BY DEF ScalarsAt, Found
<1>3. KindAt(s, b) # "none"
  BY <1>2 DEF Scalars
<1>4. b + 1 \in 1..Len(s)
  BY <1>1, <1>3, KindFinds
<1> QED
  BY <1>1, <1>2, <1>4

LEMMA ValuesEnd ==
  ASSUME NEW s, NEW most \in Nat, IsSeq(s)
  PROVE  \A d \in 0..most : EndLater(s, ValuesOf(s, most)[d])
<1> DEFINE V == ValuesOf(s, most)
           A == {n \in Nat : n <= most => EndLater(s, V[n])}
<1>1. most \in Nat
  OBVIOUS
<1>2. \A d \in 0..most : V[d] = [b \in 0..Len(s) |-> ValuesAt(s, V, d, b)]
  BY ValuesOfIs
<1> HIDE DEF V
<1>3. ASSUME NEW d \in 0..most, d # 0 => EndLater(s, V[d - 1])
      PROVE  EndLater(s, V[d])
  <2> SUFFICES ASSUME NEW b \in 0..Len(s), NEW v \in V[d][b]
               PROVE  v.end \in (b + 1)..Len(s)
    BY DEF EndLater
  <2>1. v \in ValuesAt(s, V, d, b)
    BY <1>2
  <2>2. CASE v \in ScalarsAt(s, b)
    BY <2>2, ScalarsEnd
  <2>3. CASE d # 0 /\ \E kind : v \in ContainersAt(s, V[d - 1], kind, b)
    <3>1. PICK kind : v \in ContainersAt(s, V[d - 1], kind, b)
      BY <2>3
    <3>2. EndLater(s, V[d - 1])
      BY <1>3, <2>3
    <3> QED
      BY <3>1, <3>2, ContainersEnd
  <2> QED
    BY <2>1, <2>2, <2>3 DEF ValuesAt
<1>4. 0 \in A
  <2>1. 0 \in 0..most
    BY <1>1
  <2> QED
    BY <1>3, <2>1
<1>5. ASSUME NEW n \in Nat, n \in A
      PROVE  n + 1 \in A
  <2> SUFFICES ASSUME n + 1 <= most
               PROVE  EndLater(s, V[n + 1])
    OBVIOUS
  <2>1. n + 1 \in 0..most /\ (n + 1) - 1 = n /\ n <= most
    BY <1>1
  <2>2. EndLater(s, V[(n + 1) - 1])
    BY <1>5, <2>1
  <2> QED
    BY <1>3, <2>1, <2>2
<1>6. Nat \subseteq A
  <2> HIDE DEF A
  <2> QED
    BY <1>4, <1>5, NatSet
<1>7. \A d \in 0..most : EndLater(s, V[d])
  BY <1>1, <1>6
<1> QED
  BY <1>7 DEF V

\* A bracket that opens tells that an array or object comes.
LEMMA ContainerHere ==
  ASSUME NEW s, NEW most \in Nat, NEW d \in 0..most, NEW b \in 0..Len(s),
         NEW kind \in {"array", "object"}, KindAt(s, b) = Opener(kind)
  PROVE  ValuesOf(s, most)[d][b] = IF d = 0 THEN {} ELSE ContainersAt(s, ValuesOf(s, most)[d - 1], kind, b)
<1> DEFINE V == ValuesOf(s, most)
<1>1. V[d][b] = ValuesAt(s, V, d, b)
  <2>1. V[d] = [e \in 0..Len(s) |-> ValuesAt(s, V, d, e)]
    BY ValuesOfIs
  <2> QED
    BY <2>1
<1> HIDE DEF V
<1>2. \A k, values : KindAt(s, b) # Opener(k) => ContainersAt(s, values, k, b) = {}
  BY DEF ContainersAt
<1>3. Opener("array") = "[" /\ Opener("object") = "{"
  BY DEF Opener
<1>4. ScalarsAt(s, b) = {}
  BY <1>3 DEF ScalarsAt, Scalars
<1>5. V[d][b] = IF d = 0 THEN {} ELSE ContainersAt(s, V[d - 1], kind, b)
  <2>1. CASE kind = "array"
    <3>1. \A values : ContainersAt(s, values, "object", b) = {}
      BY <1>2, <1>3, <2>1
    <3> QED
      BY <1>1, <1>4, <2>1, <3>1 DEF ValuesAt
  <2>2. CASE kind = "object"
    <3>1. \A values : ContainersAt(s, values, "array", b) = {}
      BY <1>2, <1>3, <2>2
    <3> QED
      BY <1>1, <1>4, <2>2, <3>1 DEF ValuesAt
  <2> QED
    BY <2>1, <2>2
<1> QED
  BY <1>5 DEF V

\* What the first token of a value tells.
LEMMA ValuesByKind ==
  ASSUME NEW s, NEW most \in Nat, NEW d \in 0..most, NEW b \in 0..Len(s)
  PROVE  /\ KindAt(s, b) \in Scalars =>
              ValuesOf(s, most)[d][b] = {Found(b + 1, Value(s[b + 1].kind, s[b + 1].text, <<>>, <<>>))}
         /\ KindAt(s, b) \notin Scalars \cup {"[", "{"} => ValuesOf(s, most)[d][b] = {}
<1> DEFINE V == ValuesOf(s, most)
<1>1. V[d][b] = ValuesAt(s, V, d, b)
  <2>1. V[d] = [e \in 0..Len(s) |-> ValuesAt(s, V, d, e)]
    BY ValuesOfIs
  <2> QED
    BY <2>1
<1> HIDE DEF V
<1>2. \A kind, values : KindAt(s, b) # Opener(kind) => ContainersAt(s, values, kind, b) = {}
  BY DEF ContainersAt
<1>3. Opener("array") = "[" /\ Opener("object") = "{"
  BY DEF Opener
<1>4. KindAt(s, b) \notin {"[", "{"} => V[d][b] = ScalarsAt(s, b)
  BY <1>1, <1>2, <1>3 DEF ValuesAt
<1>5. KindAt(s, b) \in Scalars =>
        V[d][b] = {Found(b + 1, Value(s[b + 1].kind, s[b + 1].text, <<>>, <<>>))}
  <2> HAVE KindAt(s, b) \in Scalars
  <2>1. KindAt(s, b) \notin {"[", "{"}
    BY DEF Scalars
  <2> QED
    BY <1>4, <2>1 DEF ScalarsAt
<1>6. KindAt(s, b) \notin Scalars \cup {"[", "{"} => V[d][b] = {}
  BY <1>4 DEF ScalarsAt
<1> QED
  BY <1>5, <1>6 DEF V

-----------------------------------------------------------------------------
(* How an open array or object can be completed *)

IsOpen(c) ==
  /\ c.kind \in {"array", "object"}
  /\ c = Value(c.kind, <<>>, c.keys, c.kids)
  /\ IsSeq(c.keys) /\ IsSeq(c.kids)

\* c with some elements or members more.
With(c, m) == Value(c.kind, <<>>, c.keys \o m.keys, c.kids \o m.kids)

\* z is c after the elements or members l and its closing bracket.
EndsWith(s, c, l, z) == KindAt(s, l.end) = Closer(c.kind) /\ z = Found(l.end + 1, With(c, l))

\* c can become z when an element or member comes next at p, or when it has
\* just had one.
Fills(s, values, c, p, z) == \E l \in ListsOf(s, values, c.kind)[p] : EndsWith(s, c, l, z)
Closes(s, values, c, p, z) ==
  \/ KindAt(s, p) = Closer(c.kind) /\ z = Found(p + 1, c)
  \/ KindAt(s, p) = "," /\ Fills(s, values, c, p + 1, z)

LEMMA WithOpen ==
  ASSUME NEW c, IsOpen(c), NEW s, NEW b, NEW m, AreMembers(s, b, m)
  PROVE  IsOpen(With(c, m)) /\ With(c, m).kind = c.kind
<1>1. IsSeq(c.keys \o m.keys) /\ IsSeq(c.kids \o m.kids)
  BY Joining DEF IsOpen, AreMembers
<1> QED
  BY <1>1 DEF IsOpen, With, Value

LEMMA EndsAfterItem ==
  ASSUME NEW c, IsOpen(c), NEW s, NEW b, NEW i, AreMembers(s, b, i),
         NEW e, NEW rest, AreMembers(s, e, rest), NEW z
  PROVE  EndsWith(s, c, Members(rest.end, i.keys \o rest.keys, i.kids \o rest.kids), z)
           <=> EndsWith(s, With(c, i), rest, z)
<1> DEFINE m == Members(rest.end, i.keys \o rest.keys, i.kids \o rest.kids)
<1>1. m.end = rest.end /\ m.keys = i.keys \o rest.keys /\ m.kids = i.kids \o rest.kids
  BY DEF Members
<1> HIDE DEF m
<1>2. /\ IsSeq(c.keys) /\ IsSeq(i.keys) /\ IsSeq(rest.keys)
      /\ IsSeq(c.kids) /\ IsSeq(i.kids) /\ IsSeq(rest.kids)
  BY DEF IsOpen, AreMembers
<1>3. c.keys \o m.keys = (c.keys \o i.keys) \o rest.keys
  <2>1. PICK x, y, w : x = c.keys /\ y = i.keys /\ w = rest.keys
    OBVIOUS
  <2>2. IsSeq(x) /\ IsSeq(y) /\ IsSeq(w)
    BY <1>2, <2>1
  <2>3. x \o (y \o w) = (x \o y) \o w
    BY <2>2, JoiningThree
  <2> QED
    BY <1>1, <2>1, <2>3
<1>4. c.kids \o m.kids = (c.kids \o i.kids) \o rest.kids
  <2>1. PICK x, y, w : x = c.kids /\ y = i.kids /\ w = rest.kids
    OBVIOUS
  <2>2. IsSeq(x) /\ IsSeq(y) /\ IsSeq(w)
    BY <1>2, <2>1
  <2>3. x \o (y \o w) = (x \o y) \o w
    BY <2>2, JoiningThree
  <2> QED
    BY <1>1, <2>1, <2>3
<1>5. With(c, m) = With(With(c, i), rest) /\ With(c, i).kind = c.kind
  BY <1>3, <1>4 DEF With, Value
<1>6. EndsWith(s, c, m, z) <=> EndsWith(s, With(c, i), rest, z)
  BY <1>1, <1>5 DEF EndsWith
<1> QED
  BY <1>6 DEF m

\* An open array or object that wants an item is completed by one, and by what
\* completes it after that.
LEMMA FillsByItem ==
  ASSUME NEW s, IsSeq(s), NEW values, EndLater(s, values), NEW c, IsOpen(c), NEW p \in 0..Len(s), NEW z
  PROVE  Fills(s, values, c, p, z) <=>
           \E i \in ItemsAt(s, values, c.kind, p) : Closes(s, values, With(c, i), i.end, z)
<1> DEFINE F == ListsOf(s, values, c.kind)
           I == ItemsAt(s, values, c.kind, p)
<1>1. Len(s) \in Nat /\ p \in 0..Len(s)
  BY DEF IsSeq
<1>2. \A l : l \in F[p] <=> \E i \in I : BeginsWith(s, F, l, i)
  BY ListsHave
<1>3. \A i \in I : AreMembers(s, p, i)
  BY ItemsEnd
<1>4. \A b \in 0..Len(s) : \A l \in F[b] : AreMembers(s, b, l)
  BY ListsEnd
<1>5. Fills(s, values, c, p, z) <=> \E l \in F[p] : EndsWith(s, c, l, z)
  BY DEF Fills
<1> HIDE DEF I
<1>6. ASSUME NEW i \in I
      PROVE  (\E l : BeginsWith(s, F, l, i) /\ EndsWith(s, c, l, z)) <=> Closes(s, values, With(c, i), i.end, z)
  <2>1. AreMembers(s, p, i)
    BY <1>3
  <2>2. IsOpen(With(c, i)) /\ With(c, i).kind = c.kind
    BY <2>1, WithOpen
  <2>3. EndsWith(s, c, i, z) <=>
          KindAt(s, i.end) = Closer(With(c, i).kind) /\ z = Found(i.end + 1, With(c, i))
    BY <2>2 DEF EndsWith
  <2>4. ASSUME KindAt(s, i.end) = ","
        PROVE  \A rest \in F[i.end + 1] :
                 EndsWith(s, c, Members(rest.end, i.keys \o rest.keys, i.kids \o rest.kids), z)
                   <=> EndsWith(s, With(c, i), rest, z)
    <3>1. PICK e : e = i.end
      OBVIOUS
    <3>2. e \in (p + 1)..Len(s) /\ KindAt(s, e) # "none"
      BY <2>1, <2>4, <3>1 DEF AreMembers
    <3>3. e \in Nat
      BY <1>1, <3>2
    <3>4. e + 1 \in 1..Len(s)
      BY <3>2, <3>3, KindFinds
    <3>5. e + 1 \in 0..Len(s)
      BY <1>1, <3>4
    <3>6. \A rest \in F[e + 1] : AreMembers(s, e + 1, rest)
      BY <1>4, <3>5
    <3> QED
      BY <2>1, <3>1, <3>6, EndsAfterItem
  <2>5. Fills(s, values, With(c, i), i.end + 1, z) <=> \E rest \in F[i.end + 1] : EndsWith(s, With(c, i), rest, z)
    BY <2>2 DEF Fills
  <2> HIDE DEF F
  <2>6. (\E l : BeginsWith(s, F, l, i) /\ EndsWith(s, c, l, z)) <=>
          \/ EndsWith(s, c, i, z)
          \/ /\ KindAt(s, i.end) = ","
             /\ \E rest \in F[i.end + 1] :
                  EndsWith(s, c, Members(rest.end, i.keys \o rest.keys, i.kids \o rest.kids), z)
    BY DEF BeginsWith
  <2> QED
    BY <2>3, <2>4, <2>5, <2>6 DEF Closes
<1> HIDE DEF F
<1>7. Fills(s, values, c, p, z) <=> \E i \in I : \E l : BeginsWith(s, F, l, i) /\ EndsWith(s, c, l, z)
  BY <1>2, <1>5
<1>8. Fills(s, values, c, p, z) <=> \E i \in I : Closes(s, values, With(c, i), i.end, z)
  BY <1>6, <1>7
<1> QED
  BY <1>8 DEF I

\* c with one more value, or key.
WithKid(c, v) == [c EXCEPT !.kids = Append(@, v)]
WithKey(c, k) == [c EXCEPT !.keys = Append(@, k)]

LEMMA OneMore ==
  ASSUME NEW c, IsOpen(c), NEW v, NEW k, NEW e
  PROVE  /\ IsOpen(WithKid(c, v)) /\ IsOpen(WithKey(c, k))
         /\ WithKid(c, v).kind = c.kind /\ WithKey(c, k).kind = c.kind
         /\ With(c, Members(e, <<>>, <<v>>)) = WithKid(c, v)
         /\ With(c, Members(e, <<k>>, <<v>>)) = WithKid(WithKey(c, k), v)
<1>1. PICK K : c.keys \in Seq(K)
  BY DEF IsOpen, IsSeq
<1>2. PICK D : c.kids \in Seq(D)
  BY DEF IsOpen, IsSeq
<1>3. c = [kind |-> c.kind, text |-> <<>>, keys |-> c.keys, kids |-> c.kids]
  BY DEF IsOpen, Value
<1>4. /\ c.keys \in Seq(K \cup {k}) /\ Append(c.keys, k) \in Seq(K \cup {k}) /\ c.keys \o <<k>> = Append(c.keys, k)
      /\ c.keys \o <<>> = c.keys
  BY <1>1
<1>5. /\ c.kids \in Seq(D \cup {v}) /\ Append(c.kids, v) \in Seq(D \cup {v}) /\ c.kids \o <<v>> = Append(c.kids, v)
  BY <1>2
<1>6. IsSeq(Append(c.keys, k)) /\ IsSeq(Append(c.kids, v))
  BY <1>4, <1>5 DEF IsSeq
<1>7. WithKid(c, v) = Value(c.kind, <<>>, c.keys, Append(c.kids, v))
  BY <1>3 DEF WithKid, Value
<1>8. WithKey(c, k) = Value(c.kind, <<>>, Append(c.keys, k), c.kids)
  <2>1. PICK keys : keys = Append(c.keys, k)
    OBVIOUS
  <2>2. WithKey(c, k) = [c EXCEPT !.keys = keys]
    BY <2>1 DEF WithKey
  <2>3. [c EXCEPT !.keys = keys] = Value(c.kind, <<>>, keys, c.kids)
    BY <1>3 DEF Value
  <2> QED
    BY <2>1, <2>2, <2>3
<1>9. WithKid(WithKey(c, k), v) = Value(c.kind, <<>>, Append(c.keys, k), Append(c.kids, v))
  <2>1. PICK w : w = WithKey(c, k)
    OBVIOUS
  <2>2. PICK keys : keys = Append(c.keys, k)
    OBVIOUS
  <2>3. w = [kind |-> c.kind, text |-> <<>>, keys |-> keys, kids |-> c.kids]
    BY <1>8, <2>1, <2>2 DEF Value
  <2>4. PICK kids : kids = Append(c.kids, v)
    OBVIOUS
  <2>5. WithKid(w, v) = Value(c.kind, <<>>, keys, kids)
    <3>1. w.kids = c.kids
      BY <2>3
    <3>2. WithKid(w, v) = [w EXCEPT !.kids = kids]
      BY <2>4, <3>1 DEF WithKid
    <3>3. [w EXCEPT !.kids = kids] = Value(c.kind, <<>>, keys, kids)
      BY <2>3 DEF Value
    <3> QED
      BY <3>2, <3>3
  <2> QED
    BY <2>1, <2>2, <2>4, <2>5
<1>10. IsOpen(WithKid(c, v)) /\ WithKid(c, v).kind = c.kind
  BY <1>6, <1>7 DEF IsOpen, Value
<1>11. IsOpen(WithKey(c, k)) /\ WithKey(c, k).kind = c.kind
  BY <1>6, <1>8 DEF IsOpen, Value
<1>12. With(c, Members(e, <<>>, <<v>>)) = WithKid(c, v)
  BY <1>4, <1>5, <1>7 DEF With, Members, Value
<1>13. With(c, Members(e, <<k>>, <<v>>)) = WithKid(WithKey(c, k), v)
  BY <1>4, <1>5, <1>9 DEF With, Members, Value
<1> QED
  BY <1>10, <1>11, <1>12, <1>13

\* An open array wants a value.
LEMMA FillsArray ==
  ASSUME NEW s, IsSeq(s), NEW values, EndLater(s, values), NEW c, IsOpen(c), c.kind = "array",
         NEW p \in 0..Len(s), NEW z
  PROVE  Fills(s, values, c, p, z) <=>
           \E v \in values[p] : Closes(s, values, WithKid(c, v.value), v.end, z)
<1>1. Fills(s, values, c, p, z) <=>
        \E i \in ItemsAt(s, values, c.kind, p) : Closes(s, values, With(c, i), i.end, z)
  BY FillsByItem
<1>2. ItemsAt(s, values, c.kind, p) = {Members(v.end, <<>>, <<v.value>>) : v \in values[p]}
  BY DEF ItemsAt
<1>3. \A v : With(c, Members(v.end, <<>>, <<v.value>>)) = WithKid(c, v.value)
  BY OneMore
<1>4. \A v : Members(v.end, <<>>, <<v.value>>).end = v.end
  BY DEF Members
<1> QED
  BY <1>1, <1>2, <1>3, <1>4

\* An open object wants a string, a colon and a value.
LEMMA FillsObject ==
  ASSUME NEW s, IsSeq(s), NEW values, EndLater(s, values), NEW c, IsOpen(c), c.kind = "object",
         NEW p \in 0..Len(s), NEW z
  PROVE  Fills(s, values, c, p, z) <=>
           /\ KindAt(s, p) = "string" /\ KindAt(s, p + 1) = ":"
           /\ \E v \in values[p + 2] :
                Closes(s, values, WithKid(WithKey(c, s[p + 1].text), v.value), v.end, z)
<1>1. Fills(s, values, c, p, z) <=>
        \E i \in ItemsAt(s, values, c.kind, p) : Closes(s, values, With(c, i), i.end, z)
  BY FillsByItem
<1> DEFINE k == s[p + 1].text
<1>2. ItemsAt(s, values, c.kind, p) =
        IF KindAt(s, p) = "string" /\ KindAt(s, p + 1) = ":"
        THEN {Members(v.end, <<k>>, <<v.value>>) : v \in values[p + 2]} ELSE {}
  BY DEF ItemsAt
<1> HIDE DEF k
<1>3. \A v : With(c, Members(v.end, <<k>>, <<v.value>>)) = WithKid(WithKey(c, k), v.value)
  <2> TAKE v
  <2>1. PICK e, w : e = v.end /\ w = v.value
    OBVIOUS
  <2>2. With(c, Members(e, <<k>>, <<w>>)) = WithKid(WithKey(c, k), w)
    BY OneMore
  <2> QED
    BY <2>1, <2>2
<1>4. \A v : Members(v.end, <<k>>, <<v.value>>).end = v.end
  BY DEF Members
<1> DEFINE Becomes(i) == Closes(s, values, With(c, i), i.end, z)
           Item(v) == Members(v.end, <<k>>, <<v.value>>)
<1>5. \A v : Becomes(Item(v)) <=> Closes(s, values, WithKid(WithKey(c, k), v.value), v.end, z)
  BY <1>3, <1>4
<1>6. (\E i \in {Item(v) : v \in values[p + 2]} : Becomes(i)) <=> \E v \in values[p + 2] : Becomes(Item(v))
  <2> HIDE DEF Becomes, Item
  <2> QED
    OBVIOUS
<1>7. Fills(s, values, c, p, z) <=>
           /\ KindAt(s, p) = "string" /\ KindAt(s, p + 1) = ":"
           /\ \E v \in values[p + 2] : Closes(s, values, WithKid(WithKey(c, k), v.value), v.end, z)
  <2>1. Fills(s, values, c, p, z) <=>
           /\ KindAt(s, p) = "string" /\ KindAt(s, p + 1) = ":"
           /\ \E i \in {Item(v) : v \in values[p + 2]} : Becomes(i)
    BY <1>1, <1>2
  <2> HIDE DEF Becomes, Item
  <2> QED
    BY <1>5, <1>6, <2>1
<1> QED
  BY <1>7 DEF k

\* The containers that begin at b are those that the opened one can become, or
\* that one itself.
LEMMA ContainersHave ==
  ASSUME NEW s, IsSeq(s), NEW values, EndLater(s, values), NEW kind \in {"array", "object"},
         NEW b \in 0..Len(s), KindAt(s, b) = Opener(kind), NEW z
  PROVE  /\ IsOpen(Empty(kind)) /\ Empty(kind).kind = kind
         /\ b + 1 \in 0..Len(s)
         /\ z \in ContainersAt(s, values, kind, b) <=>
              \/ KindAt(s, b + 1) = Closer(kind) /\ z = Found(b + 2, Empty(kind))
              \/ Fills(s, values, Empty(kind), b + 1, z)
<1> DEFINE F == ListsOf(s, values, kind)
           R == {l \in F[b + 1] : KindAt(s, l.end) = Closer(kind)}
           c == Empty(kind)
<1>1. Len(s) \in Nat /\ b \in 0..Len(s) /\ b \in Nat
  BY DEF IsSeq
<1>2. b + 1 \in 0..Len(s)
  <2>1. Opener(kind) # "none"
    BY DEF Opener
  <2>2. b + 1 \in 1..Len(s)
    BY <1>1, <2>1, KindFinds
  <2> QED
    BY <1>1, <2>2
<1>3. IsOpen(c) /\ c.kind = kind /\ c.keys = <<>> /\ c.kids = <<>>
  BY OneMember DEF IsOpen, Empty, Value
<1> HIDE DEF c
<1>4. \A l \in F[b + 1] : AreMembers(s, b + 1, l)
  BY <1>2, ListsEnd
<1>5. Fills(s, values, c, b + 1, z) <=> \E l \in F[b + 1] : EndsWith(s, c, l, z)
  BY <1>3 DEF Fills
<1> HIDE DEF F
<1>6. ASSUME NEW l \in F[b + 1]
      PROVE  KindAt(s, l.end) = Closer(kind) /\ z = Closed(kind, l) <=> EndsWith(s, c, l, z)
  <2>1. IsSeq(l.keys) /\ IsSeq(l.kids)
    BY <1>4 DEF AreMembers
  <2>2. \A x : IsSeq(x) => <<>> \o x = x
    <3> TAKE x
    <3> HAVE IsSeq(x)
    <3>1. PICK X : x \in Seq(X)
      BY DEF IsSeq
    <3> QED
      BY <3>1
  <2>3. <<>> \o l.keys = l.keys /\ <<>> \o l.kids = l.kids
    BY <2>1, <2>2
  <2>4. With(c, l) = Value(kind, <<>>, l.keys, l.kids)
    BY <1>3, <2>3 DEF With
  <2> QED
    BY <1>3, <2>4 DEF EndsWith, Closed
<1>7. z \in {Closed(kind, list) : list \in R} <=> \E l \in F[b + 1] : EndsWith(s, c, l, z)
  BY <1>6
<1>8. ContainersAt(s, values, kind, b) =
        (IF KindAt(s, b + 1) = Closer(kind) THEN {Found(b + 2, c)} ELSE {}) \cup {Closed(kind, list) : list \in R}
  BY DEF ContainersAt, F, c
<1> HIDE DEF R
<1>9. z \in ContainersAt(s, values, kind, b) <=>
        \/ KindAt(s, b + 1) = Closer(kind) /\ z = Found(b + 2, c)
        \/ z \in {Closed(kind, list) : list \in R}
  BY <1>8
<1>10. z \in ContainersAt(s, values, kind, b) <=>
        \/ KindAt(s, b + 1) = Closer(kind) /\ z = Found(b + 2, c)
        \/ Fills(s, values, c, b + 1, z)
  BY <1>5, <1>7, <1>9
<1> QED
  BY <1>2, <1>3, <1>10 DEF c

\* Where an item is wanted a closing bracket is none, nor is the end.
LEMMA NoItem ==
  ASSUME NEW s, NEW most \in Nat, IsSeq(s), NEW d \in 0..most, NEW c, IsOpen(c),
         NEW p \in 0..Len(s), KindAt(s, p) \in {"none", Closer(c.kind)}, NEW z
  PROVE  ~Fills(s, ValuesOf(s, most)[d], c, p, z)
<1> DEFINE values == ValuesOf(s, most)[d]
<1>1. EndLater(s, values)
  BY ValuesEnd
<1>2. CASE c.kind = "array"
  <2>1. KindAt(s, p) \notin Scalars \cup {"[", "{"}
    BY <1>2 DEF Closer, Scalars
  <2>2. values[p] = {}
    BY <2>1, ValuesByKind
  <2> HIDE DEF values
  <2>3. ~Fills(s, values, c, p, z)
    BY <1>1, <1>2, <2>2, FillsArray
  <2> QED
    BY <2>3 DEF values
<1>3. CASE c.kind = "object"
  <2>1. KindAt(s, p) # "string"
    BY <1>3 DEF Closer
  <2> HIDE DEF values
  <2>2. ~Fills(s, values, c, p, z)
    BY <1>1, <1>3, <2>1, FillsObject
  <2> QED
    BY <2>2 DEF values
<1> QED
  BY <1>2, <1>3 DEF IsOpen

-----------------------------------------------------------------------------
(* How the open containers, one in the other, can be completed *)

\* y can become of the value x within the containers that are open: there is a
\* way up, from each to the next.
Up(s, most, open, x, y) ==
  \E way :
    /\ way[0] = x
    /\ way[Len(open)] = y
    /\ \A i \in 1..Len(open) :
         Closes(s, ValuesOf(s, most)[most - Len(open) + i - 1], WithKid(open[i], way[i - 1].value),
                way[i - 1].end, way[i])

LEMMA UpNone ==
  ASSUME NEW s, NEW most \in Nat, NEW x, NEW y
  PROVE  Up(s, most, <<>>, x, y) <=> x = y
<1>1. ASSUME x = y
      PROVE  Up(s, most, <<>>, x, y)
  <2> DEFINE way == [i \in {0} |-> x]
  <2>1. way[0] = x /\ Len(<<>>) = 0 /\ 1..0 = {}
    OBVIOUS
  <2> QED
    BY <1>1, <2>1 DEF Up
<1>2. Len(<<>>) = 0
  OBVIOUS
<1>3. Up(s, most, <<>>, x, y) => x = y
  BY <1>2 DEF Up
<1> QED
  BY <1>1, <1>3

LEMMA UpStep ==
  ASSUME NEW s, NEW most \in Nat, NEW open, IsSeq(open), open # <<>>, NEW x, NEW y
  PROVE  Up(s, most, open, x, y) <=>
           \E z : /\ Closes(s, ValuesOf(s, most)[most - Len(open)], WithKid(Head(open), x.value), x.end, z)
                  /\ Up(s, most, Tail(open), z, y)
<1> DEFINE V == ValuesOf(s, most)
           n == Len(open)
           rest == Tail(open)
           Step(o, m, way, i) == Closes(s, V[most - m + i - 1], WithKid(o[i], way[i - 1].value), way[i - 1].end, way[i])
<1>1. PICK S : open \in Seq(S)
  BY DEF IsSeq
<1>2. /\ n \in Nat \ {0} /\ Len(rest) = n - 1 /\ Head(open) = open[1]
      /\ \A i \in 1..(n - 1) : rest[i] = open[i + 1]
      /\ most \in Nat
  BY <1>1
<1>3. \A z : Up(s, most, rest, z, y) <=>
        \E way : way[0] = z /\ way[n - 1] = y /\ \A i \in 1..(n - 1) : Step(rest, n - 1, way, i)
  BY <1>2 DEF Up
<1>4. Up(s, most, open, x, y) <=>
        \E way : way[0] = x /\ way[n] = y /\ \A i \in 1..n : Step(open, n, way, i)
  BY DEF Up
<1> HIDE DEF V, rest, n
<1>5. ASSUME NEW way, way[0] = x, way[n] = y, \A i \in 1..n : Step(open, n, way, i)
      PROVE  \E z : Closes(s, V[most - n], WithKid(Head(open), x.value), x.end, z) /\ Up(s, most, rest, z, y)
  <2> DEFINE on == [i \in 0..(n - 1) |-> way[i + 1]]
  <2>1. on[0] = way[1] /\ on[n - 1] = y
    <3>1. 0 \in 0..(n - 1) /\ n - 1 \in 0..(n - 1) /\ (n - 1) + 1 = n /\ 0 + 1 = 1
      BY <1>2
    <3> QED
      BY <1>5, <3>1
  <2>2. ASSUME NEW i \in 1..(n - 1)
        PROVE  Step(rest, n - 1, on, i)
    <3>1. /\ i + 1 \in 1..n /\ (i + 1) - 1 = i /\ i - 1 \in 0..(n - 1) /\ i \in 0..(n - 1) /\ (i - 1) + 1 = i
          /\ most - (n - 1) + i - 1 = most - n + (i + 1) - 1
      BY <1>2
    <3>2. on[i - 1] = way[i] /\ on[i] = way[i + 1] /\ rest[i] = open[i + 1]
      BY <1>2, <3>1
    <3>3. Closes(s, V[most - n + (i + 1) - 1], WithKid(open[i + 1], way[(i + 1) - 1].value), way[(i + 1) - 1].end, way[i + 1])
      BY <1>5, <3>1
    <3> HIDE DEF on
    <3> QED
      BY <3>1, <3>2, <3>3
  <2> HIDE DEF on
  <2>3. Up(s, most, rest, way[1], y)
    BY <1>3, <2>1, <2>2
  <2>4. 1 \in 1..n /\ 1 - 1 = 0 /\ most - n + 1 - 1 = most - n
    BY <1>2
  <2>5. Closes(s, V[most - n], WithKid(Head(open), x.value), x.end, way[1])
    BY <1>2, <1>5, <2>4
  <2> QED
    BY <2>3, <2>5
<1>6. ASSUME NEW z, Closes(s, V[most - n], WithKid(Head(open), x.value), x.end, z), Up(s, most, rest, z, y)
      PROVE  Up(s, most, open, x, y)
  <2>1. PICK on : on[0] = z /\ on[n - 1] = y /\ \A i \in 1..(n - 1) : Step(rest, n - 1, on, i)
    BY <1>3, <1>6
  <2> DEFINE way == [i \in 0..n |-> IF i = 0 THEN x ELSE on[i - 1]]
  <2>2. way[0] = x /\ way[n] = y /\ way[1] = z
    <3>1. 0 \in 0..n /\ n \in 0..n /\ 1 \in 0..n /\ n # 0 /\ 1 - 1 = 0
      BY <1>2
    <3> QED
      BY <2>1, <3>1
  <2>3. ASSUME NEW i \in 1..n
        PROVE  Step(open, n, way, i)
    <3>1. CASE i = 1
      <4>1. i - 1 = 0 /\ most - n + i - 1 = most - n
        BY <1>2, <3>1
      <4> HIDE DEF way
      <4> QED
        BY <1>2, <1>6, <2>2, <3>1, <4>1
    <3>2. CASE i # 1
      <4>1. PICK j : j = i - 1
        OBVIOUS
      <4>2. /\ j \in 1..(n - 1) /\ i = j + 1 /\ j \in 0..n /\ i \in 0..n /\ j # 0 /\ i # 0
            /\ most - (n - 1) + j - 1 = most - n + i - 1
        BY <1>2, <3>2, <4>1
      <4>3. way[j] = on[j - 1] /\ way[i] = on[j] /\ rest[j] = open[i]
        BY <1>2, <4>1, <4>2
      <4>4. Closes(s, V[most - (n - 1) + j - 1], WithKid(rest[j], on[j - 1].value), on[j - 1].end, on[j])
        BY <2>1, <4>2
      <4> HIDE DEF way
      <4> QED
        BY <4>1, <4>2, <4>3, <4>4
    <3> QED
      BY <3>1, <3>2
  <2> HIDE DEF way
  <2> QED
    BY <1>4, <2>2, <2>3
<1>7. Up(s, most, open, x, y) <=>
        \E z : Closes(s, V[most - n], WithKid(Head(open), x.value), x.end, z) /\ Up(s, most, rest, z, y)
  <2>1. Up(s, most, open, x, y) => \E z : Closes(s, V[most - n], WithKid(Head(open), x.value), x.end, z) /\ Up(s, most, rest, z, y)
    <3> HAVE Up(s, most, open, x, y)
    <3>1. PICK way : way[0] = x /\ way[n] = y /\ \A i \in 1..n : Step(open, n, way, i)
      BY <1>4
    <3> HIDE DEF Step
    <3> QED
      BY <1>5, <3>1
  <2> QED
    BY <1>6, <2>1
<1> QED
  BY <1>7 DEF V, n, rest

OpenOnes(open) == IsSeq(open) /\ \A i \in 1..Len(open) : IsOpen(open[i])

\* y is what the parse comes to if the rest of the tokens is right.
Leads(place, s, most, open, c, v, y) ==
  \/ place = "value" /\ \E x \in ValuesOf(s, most)[most - Len(open)][c] : Up(s, most, open, x, y)
  \/ place = "key" /\ \E z : Fills(s, ValuesOf(s, most)[most - Len(open)], Head(open), c, z) /\ Up(s, most, Tail(open), z, y)
  \/ place = "next" /\ \E z : Closes(s, ValuesOf(s, most)[most - Len(open)], Head(open), c, z) /\ Up(s, most, Tail(open), z, y)
  \/ place \in {"end", "done"} /\ y = Found(c, v)

LEMMA OpenHead ==
  ASSUME NEW open, OpenOnes(open), open # <<>>
  PROVE  IsOpen(Head(open)) /\ OpenOnes(Tail(open)) /\ Len(Tail(open)) = Len(open) - 1 /\ Len(open) \in Nat \ {0}
<1>1. PICK S : open \in Seq(S)
  BY DEF OpenOnes, IsSeq
<1>2. /\ Len(open) \in Nat \ {0} /\ Head(open) = open[1] /\ Tail(open) \in Seq(S) /\ Len(Tail(open)) = Len(open) - 1
      /\ \A i \in 1..(Len(open) - 1) : Tail(open)[i] = open[i + 1]
  BY <1>1
<1>3. 1 \in 1..Len(open) /\ \A i \in 1..(Len(open) - 1) : i + 1 \in 1..Len(open)
  BY <1>2
<1>4. IsOpen(Head(open))
  BY <1>2, <1>3 DEF OpenOnes
<1>5. \A i \in 1..Len(Tail(open)) : IsOpen(Tail(open)[i])
  BY <1>2, <1>3 DEF OpenOnes
<1> QED
  BY <1>2, <1>4, <1>5 DEF OpenOnes, IsSeq

\* One more container is opened within the others.
LEMMA OpenPushed ==
  ASSUME NEW open, OpenOnes(open), NEW c, IsOpen(c)
  PROVE  /\ OpenOnes(<<c>> \o open) /\ <<c>> \o open # <<>>
         /\ Head(<<c>> \o open) = c /\ Tail(<<c>> \o open) = open
         /\ Len(<<c>> \o open) = Len(open) + 1
<1>1. PICK S : open \in Seq(S)
  BY DEF OpenOnes, IsSeq
<1> DEFINE R == S \cup {c}
           new == <<c>> \o open
<1>2. open \in Seq(R) /\ <<c>> \in Seq(R) /\ Len(<<c>>) = 1 /\ <<c>>[1] = c
  BY <1>1
<1> HIDE DEF R
<1>3. /\ new \in Seq(R) /\ Len(new) = Len(open) + 1 /\ Len(open) \in Nat
      /\ \A i \in 1..(Len(open) + 1) : new[i] = IF i = 1 THEN c ELSE open[i - 1]
  BY <1>2
<1> HIDE DEF new
<1>4. Len(new) \in Nat \ {0} /\ new # <<>> /\ Head(new) = c
  BY <1>3
<1>5. /\ Tail(new) \in Seq(R) /\ Len(Tail(new)) = Len(open)
      /\ \A i \in 1..Len(open) : Tail(new)[i] = new[i + 1]
  BY <1>3, <1>4
<1>6. \A i \in 1..Len(open) : Tail(new)[i] = open[i]
  <2> TAKE i \in 1..Len(open)
  <2>1. i + 1 \in 1..(Len(open) + 1) /\ i + 1 # 1 /\ (i + 1) - 1 = i
    BY <1>3
  <2> QED
    BY <1>3, <1>5, <2>1
<1>7. Tail(new) = open
  BY <1>2, <1>5, <1>6
<1>8. \A i \in 1..Len(new) : IsOpen(new[i])
  <2> TAKE i \in 1..Len(new)
  <2>1. i # 1 => i - 1 \in 1..Len(open)
    BY <1>3
  <2> QED
    BY <1>3, <2>1 DEF OpenOnes
<1>9. OpenOnes(new)
  BY <1>3, <1>8 DEF OpenOnes, IsSeq
<1> QED
  BY <1>3, <1>4, <1>7, <1>9 DEF new

\* A complete value leads to what it does, in its place or as the result.
LEMMA ReturnLeads ==
  ASSUME NEW s, NEW most \in Nat, NEW open, OpenOnes(open), NEW v, NEW c, Return(v, c, open)
  PROVE  /\ OpenOnes(stack') /\ parser' \in {"next", "end"}
         /\ \A y : Leads(parser', s, most, stack', cursor', result', y) <=> Up(s, most, open, Found(c, v), y)
<1>1. CASE open = <<>>
  <2>1. stack' = <<>> /\ parser' = "end" /\ cursor' = c /\ result' = v
    BY <1>1 DEF Return
  <2>2. \A y : Up(s, most, open, Found(c, v), y) <=> Found(c, v) = y
    BY <1>1, UpNone
  <2> QED
    BY <1>1, <2>1, <2>2 DEF Leads
<1>2. CASE open # <<>>
  <2> DEFINE k == WithKid(Head(open), v)
             new == <<k>> \o Tail(open)
  <2>1. stack' = new /\ parser' = "next" /\ cursor' = c
    BY <1>2 DEF Return, WithKid
  <2>2. IsOpen(Head(open)) /\ OpenOnes(Tail(open)) /\ Len(Tail(open)) = Len(open) - 1 /\ Len(open) \in Nat \ {0}
    BY <1>2, OpenHead
  <2>3. IsOpen(k)
    BY <2>2, OneMore
  <2> HIDE DEF k
  <2>4. OpenOnes(new) /\ Head(new) = k /\ Tail(new) = Tail(open) /\ Len(new) = Len(open)
    <3>1. OpenOnes(new) /\ Head(new) = k /\ Tail(new) = Tail(open) /\ Len(new) = Len(Tail(open)) + 1
      BY <2>2, <2>3, OpenPushed
    <3> QED
      BY <2>2, <3>1
  <2> HIDE DEF new
  <2>5. ASSUME NEW y
        PROVE  Up(s, most, open, Found(c, v), y) <=>
                 \E z : Closes(s, ValuesOf(s, most)[most - Len(open)], k, c, z) /\ Up(s, most, Tail(open), z, y)
    <3>1. PICK x : x = Found(c, v)
      OBVIOUS
    <3>2. x.end = c /\ x.value = v
      BY <3>1 DEF Found
    <3>3. IsSeq(open)
      BY DEF OpenOnes
    <3>4. Up(s, most, open, x, y) <=>
           \E z : /\ Closes(s, ValuesOf(s, most)[most - Len(open)], WithKid(Head(open), x.value), x.end, z)
                  /\ Up(s, most, Tail(open), z, y)
      BY <1>2, <3>3, UpStep
    <3> QED
      BY <3>1, <3>2, <3>4 DEF k
  <2>6. \A y : Leads("next", s, most, new, c, result', y) <=> Up(s, most, open, Found(c, v), y)
    BY <2>4, <2>5 DEF Leads
  <2> QED
    BY <2>1, <2>4, <2>6
<1> QED
  BY <1>1, <1>2

\* A value in an open container leads to what the container does with it in.
LEMMA ValueWithin ==
  ASSUME NEW s, NEW most \in Nat, NEW open, OpenOnes(open), open # <<>>, NEW c, NEW v, NEW y
  PROVE  Leads("value", s, most, open, c, v, y) <=>
           \E x \in ValuesOf(s, most)[most - Len(open)][c] : \E z :
             /\ Closes(s, ValuesOf(s, most)[most - Len(open)], WithKid(Head(open), x.value), x.end, z)
             /\ Up(s, most, Tail(open), z, y)
<1>1. IsSeq(open)
  BY DEF OpenOnes
<1>2. \A x : Up(s, most, open, x, y) <=>
        \E z : /\ Closes(s, ValuesOf(s, most)[most - Len(open)], WithKid(Head(open), x.value), x.end, z)
               /\ Up(s, most, Tail(open), z, y)
  BY <1>1, UpStep
<1>3. Leads("value", s, most, open, c, v, y) <=>
        \E x \in ValuesOf(s, most)[most - Len(open)][c] : Up(s, most, open, x, y)
  BY DEF Leads
<1> QED
  BY <1>2, <1>3

-----------------------------------------------------------------------------
(* How a beginning can be completed *)

\* From place p on s has the brackets that close the open containers.
ClosedFrom(s, open, p) == \A i \in 1..Len(open) : KindAt(s, p + i - 1) = Closer(open[i].kind)

\* They complete a value, and end behind it.
LEMMA BracketsComplete ==
  ASSUME NEW s, NEW most \in Nat, NEW open, OpenOnes(open), NEW p \in Nat, ClosedFrom(s, open, p),
         NEW x, x.end = p
  PROVE  \E y : Up(s, most, open, x, y) /\ y.end = p + Len(open)
<1> DEFINE Done(o, q, w) == \E y : Up(s, most, o, w, y) /\ y.end = q + Len(o)
           A == {n \in Nat : \A o, w : \A q \in Nat :
                   OpenOnes(o) /\ Len(o) = n /\ ClosedFrom(s, o, q) /\ w.end = q => Done(o, q, w)}
<1>1. 0 \in A
  <2> SUFFICES ASSUME NEW o, NEW w, NEW q \in Nat, OpenOnes(o), Len(o) = 0, w.end = q
               PROVE  Done(o, q, w)
    OBVIOUS
  <2>1. PICK S : o \in Seq(S)
    BY DEF OpenOnes, IsSeq
  <2>2. o = <<>>
    BY <2>1
  <2>3. Up(s, most, o, w, w)
    BY <2>2, UpNone
  <2>4. w.end = q + Len(o)
    OBVIOUS
  <2> QED
    BY <2>3, <2>4
<1>2. ASSUME NEW n \in Nat, n \in A
      PROVE  n + 1 \in A
  <2> SUFFICES ASSUME NEW o, NEW w, NEW q \in Nat, OpenOnes(o), Len(o) = n + 1, ClosedFrom(s, o, q), w.end = q
               PROVE  Done(o, q, w)
    OBVIOUS
  <2> DEFINE c == WithKid(Head(o), w.value)
             z == Found(q + 1, c)
             t == Tail(o)
  <2>1. PICK S : o \in Seq(S)
    BY DEF OpenOnes, IsSeq
  <2>2. o # <<>> /\ Head(o) = o[1] /\ \A i \in 1..n : t[i] = o[i + 1]
    BY <2>1
  <2>3. IsOpen(Head(o)) /\ OpenOnes(t) /\ Len(t) = n /\ IsSeq(o)
    BY <2>1, <2>2, OpenHead DEF IsSeq
  <2>4. c.kind = Head(o).kind
    BY <2>3, OneMore
  <2>5. z.end = q + 1
    BY DEF Found
  <2>6. KindAt(s, q) = Closer(c.kind)
    <3>1. 1 \in 1..Len(o) /\ q + 1 - 1 = q
      OBVIOUS
    <3> QED
      BY <2>2, <2>4, <3>1 DEF ClosedFrom
  <2>7. ClosedFrom(s, t, q + 1)
    <3> SUFFICES ASSUME NEW i \in 1..n
                 PROVE  KindAt(s, q + 1 + i - 1) = Closer(t[i].kind)
      BY <2>3 DEF ClosedFrom
    <3>1. i + 1 \in 1..Len(o) /\ q + 1 + i - 1 = q + (i + 1) - 1
      OBVIOUS
    <3> QED
      BY <2>2, <3>1 DEF ClosedFrom
  <2> HIDE DEF t, c
  <2>8. Closes(s, ValuesOf(s, most)[most - Len(o)], c, q, z)
    BY <2>6 DEF Closes
  <2> HIDE DEF z
  <2>9. q + 1 \in Nat
    OBVIOUS
  <2>10. Done(t, q + 1, z)
    BY <1>2, <2>3, <2>5, <2>7, <2>9
  <2>11. PICK y : Up(s, most, t, z, y) /\ y.end = q + 1 + Len(t)
    BY <2>10
  <2>12. Up(s, most, o, w, y)
    BY <2>2, <2>3, <2>8, <2>11, UpStep DEF t, c
  <2>13. y.end = q + Len(o)
    BY <2>3, <2>11
  <2> QED
    BY <2>12, <2>13
<1>3. Nat \subseteq A
  <2> HIDE DEF A
  <2> QED
    BY <1>1, <1>2, NatSet
<1>4. Len(open) \in Nat
  BY DEF OpenOnes, IsSeq
<1>5. Len(open) \in A
  BY <1>3, <1>4
<1> QED
  BY <1>5

\* They complete the innermost container first, whatever has come into it.
Completable(s, most, open, values, c, p) ==
  \E z, y : Closes(s, values, c, p, z) /\ Up(s, most, Tail(open), z, y) /\ y.end = p + Len(open)

LEMMA InnermostCompletes ==
  ASSUME NEW s, NEW most \in Nat, NEW open, OpenOnes(open), open # <<>>, NEW c, c.kind = Head(open).kind,
         NEW p \in Nat, ClosedFrom(s, open, p), NEW values
  PROVE  Completable(s, most, open, values, c, p)
<1> DEFINE z == Found(p + 1, c)
           t == Tail(open)
<1>1. PICK S : open \in Seq(S)
  BY DEF OpenOnes, IsSeq
<1>2. /\ Len(open) \in Nat \ {0} /\ Head(open) = open[1]
      /\ \A i \in 1..(Len(open) - 1) : t[i] = open[i + 1]
  BY <1>1
<1>3. OpenOnes(t) /\ Len(t) = Len(open) - 1
  BY OpenHead
<1>4. KindAt(s, p) = Closer(c.kind)
  <2>1. 1 \in 1..Len(open) /\ p + 1 - 1 = p
    BY <1>2
  <2> QED
    BY <1>2, <2>1 DEF ClosedFrom
<1>5. Closes(s, values, c, p, z)
  BY <1>4 DEF Closes
<1>6. ClosedFrom(s, t, p + 1)
  <2> SUFFICES ASSUME NEW i \in 1..(Len(open) - 1)
               PROVE  KindAt(s, p + 1 + i - 1) = Closer(t[i].kind)
    BY <1>3 DEF ClosedFrom
  <2>1. i + 1 \in 1..Len(open) /\ p + 1 + i - 1 = p + (i + 1) - 1
    BY <1>2
  <2> QED
    BY <1>2, <2>1 DEF ClosedFrom
<1>7. z.end = p + 1 /\ p + 1 \in Nat
  BY DEF Found
<1> HIDE DEF z, t
<1>8. PICK y : Up(s, most, t, z, y) /\ y.end = p + 1 + Len(t)
  <2>1. PICK q : q = p + 1
    OBVIOUS
  <2>2. q \in Nat /\ ClosedFrom(s, t, q) /\ z.end = q
    BY <1>6, <1>7, <2>1
  <2>3. \E y : Up(s, most, t, z, y) /\ y.end = q + Len(t)
    BY <1>3, <2>2, BracketsComplete
  <2> QED
    BY <2>1, <2>3
<1>9. y.end = p + Len(open)
  BY <1>2, <1>3, <1>8
<1> QED
  BY <1>5, <1>8, <1>9 DEF t, Completable

\* Where an item is wanted a null will do, in an object behind a key.
NullAt(s, kind, p, q) ==
  IF kind = "array" THEN KindAt(s, p) = "null" /\ q = p + 1
  ELSE KindAt(s, p) = "string" /\ KindAt(s, p + 1) = ":" /\ KindAt(s, p + 2) = "null" /\ q = p + 3

Takes(s, values, c, p, q) ==
  \E e : IsOpen(e) /\ e.kind = c.kind /\ \A z : Closes(s, values, e, q, z) => Fills(s, values, c, p, z)

LEMMA NullIs ==
  ASSUME NEW s, NEW most \in Nat, NEW d \in 0..most, NEW b \in 0..Len(s), KindAt(s, b) = "null"
  PROVE  ValuesOf(s, most)[d][b] = {Found(b + 1, Value(s[b + 1].kind, s[b + 1].text, <<>>, <<>>))}
<1> DEFINE V == ValuesOf(s, most)
<1>1. V[d][b] = ValuesAt(s, V, d, b)
  <2>1. V[d] = [e \in 0..Len(s) |-> ValuesAt(s, V, d, e)]
    BY ValuesOfIs
  <2> QED
    BY <2>1
<1> HIDE DEF V
<1>2. \A kind, values : ContainersAt(s, values, kind, b) = {}
  BY DEF ContainersAt, Opener
<1>3. V[d][b] = ScalarsAt(s, b)
  BY <1>1, <1>2 DEF ValuesAt
<1> QED
  BY <1>3 DEF ScalarsAt, Scalars, V

LEMMA NullFills ==
  ASSUME NEW s, NEW most \in Nat, IsSeq(s), NEW d \in 0..most, NEW c, IsOpen(c), NEW p \in 0..Len(s),
         NEW q, NullAt(s, c.kind, p, q)
  PROVE  Takes(s, ValuesOf(s, most)[d], c, p, q)
<1> DEFINE W == ValuesOf(s, most)[d]
           Null(b) == Found(b + 1, Value(s[b + 1].kind, s[b + 1].text, <<>>, <<>>))
<1>1. EndLater(s, W) /\ Len(s) \in Nat /\ p \in Nat
  BY ValuesEnd DEF IsSeq
<1>2. \A b \in 0..Len(s) : KindAt(s, b) = "null" => W[b] = {Null(b)}
  <2> SUFFICES ASSUME NEW b \in 0..Len(s), KindAt(s, b) = "null"
               PROVE  W[b] = {Null(b)}
    OBVIOUS
  <2> QED
    BY NullIs
<1>3. \A b : Null(b).end = b + 1
  BY DEF Found
<1> HIDE DEF W, Null
<1>4. CASE c.kind = "array"
  <2> DEFINE e == WithKid(c, Null(p).value)
  <2>1. KindAt(s, p) = "null" /\ q = p + 1
    BY <1>4 DEF NullAt
  <2>2. IsOpen(e) /\ e.kind = c.kind
    BY OneMore
  <2>3. W[p] = {Null(p)} /\ Null(p).end = q
    BY <1>2, <1>3, <2>1
  <2>4. \A z : Closes(s, W, e, q, z) => Fills(s, W, c, p, z)
    BY <1>1, <1>4, <2>3, FillsArray
  <2> QED
    BY <2>2, <2>4 DEF W, Takes
<1>5. CASE c.kind = "object"
  <2> DEFINE k == WithKey(c, s[p + 1].text)
             e == WithKid(k, Null(p + 2).value)
  <2>1. KindAt(s, p) = "string" /\ KindAt(s, p + 1) = ":" /\ KindAt(s, p + 2) = "null" /\ q = p + 3
    BY <1>5 DEF NullAt
  <2>2. IsOpen(k) /\ k.kind = c.kind
    BY OneMore
  <2>3. IsOpen(e) /\ e.kind = c.kind
    <3> HIDE DEF k
    <3> QED
      BY <2>2, OneMore
  <2>4. p + 2 \in 0..Len(s)
    <3>1. p + 2 \in Nat /\ KindAt(s, p + 2) # "none"
      BY <1>1, <2>1
    <3>2. (p + 2) + 1 \in 1..Len(s)
      BY <3>1, KindFinds
    <3> QED
      BY <1>1, <3>2
  <2>5. W[p + 2] = {Null(p + 2)}
    BY <1>2, <2>1, <2>4
  <2>6. Null(p + 2).end = q
    <3>1. Null(p + 2).end = (p + 2) + 1
      BY <1>3
    <3> QED
      BY <1>1, <2>1, <3>1
  <2>7. \A z : Closes(s, W, e, q, z) => Fills(s, W, c, p, z)
    BY <1>1, <1>5, <2>1, <2>5, <2>6, FillsObject
  <2> QED
    BY <2>3, <2>7 DEF W, Takes
<1> QED
  BY <1>4, <1>5 DEF IsOpen

\* A beginning, and what is made to follow it.
Follows(s, b, kinds) ==
  /\ IsSeq(s) /\ Len(s) = Len(b) + Len(kinds) /\ Len(b) \in Nat /\ Len(kinds) \in Nat
  /\ \A i \in 1..Len(b) : s[i] = b[i]
  /\ \A j \in 0..(Len(kinds) - 1) : KindAt(s, Len(b) + j) = kinds[j + 1]

LEMMA FollowedBy ==
  ASSUME NEW b, IsSeq(b), NEW kinds, IsSeq(kinds), NEW s, s = b \o Made(kinds)
  PROVE  Follows(s, b, kinds)
<1>1. PICK B : b \in Seq(B)
  BY DEF IsSeq
<1>2. PICK K : kinds \in Seq(K)
  BY DEF IsSeq
<1> DEFINE T == {[kind |-> k, text |-> <<>>] : k \in K}
           m == Made(kinds)
<1>3. m \in Seq(T) /\ Len(m) = Len(kinds) /\ \A i \in 1..Len(kinds) : m[i].kind = kinds[i]
  <2>1. DOMAIN kinds = 1..Len(kinds) /\ Len(kinds) \in Nat /\ \A i \in 1..Len(kinds) : kinds[i] \in K
    BY <1>2
  <2>2. m = [i \in 1..Len(kinds) |-> [kind |-> kinds[i], text |-> <<>>]]
    BY <2>1 DEF Made
  <2>3. \A i \in 1..Len(kinds) : [kind |-> kinds[i], text |-> <<>>] \in T
    BY <2>1
  <2>4. m \in [1..Len(kinds) -> T]
    <3> HIDE DEF T, m
    <3> QED
      BY <2>2, <2>3
  <2> HIDE DEF T
  <2>5. m \in Seq(T) /\ Len(m) = Len(kinds)
    <3> HIDE DEF m
    <3> QED
      BY <2>1, <2>4
  <2> QED
    BY <2>2, <2>5
<1> DEFINE S == B \cup T
<1>0. s = b \o m
  OBVIOUS
<1> HIDE DEF T, m
<1>4. b \in Seq(S) /\ m \in Seq(S)
  BY <1>1, <1>3
<1> HIDE DEF S
<1>5. /\ s \in Seq(S) /\ Len(s) = Len(b) + Len(kinds) /\ Len(b) \in Nat /\ Len(kinds) \in Nat
      /\ \A i \in 1..Len(b) : s[i] = b[i]
      /\ \A i \in 1..Len(kinds) : s[Len(b) + i] = m[i]
  <2>1. s \in Seq(S) /\ Len(s) = Len(b) + Len(m) /\ Len(b) \in Nat /\ Len(kinds) \in Nat
    BY <1>0, <1>2, <1>4
  <2>2. \A i \in 1..Len(s) : s[i] = IF i <= Len(b) THEN b[i] ELSE m[i - Len(b)]
    BY <1>0, <1>4
  <2>3. \A i \in 1..Len(b) : i \in 1..Len(s) /\ i <= Len(b)
    BY <1>3, <2>1
  <2>4. \A i \in 1..Len(kinds) : Len(b) + i \in 1..Len(s) /\ ~(Len(b) + i <= Len(b)) /\ Len(b) + i - Len(b) = i
    BY <1>3, <2>1
  <2>5. \A i \in 1..Len(b) : s[i] = b[i]
    BY <2>2, <2>3
  <2>6. ASSUME NEW i \in 1..Len(kinds)
        PROVE  s[Len(b) + i] = m[i]
    <3>1. PICK j : j = Len(b) + i
      OBVIOUS
    <3>2. j \in 1..Len(s) /\ ~(j <= Len(b)) /\ j - Len(b) = i
      BY <2>4, <3>1
    <3>3. s[j] = m[i]
      BY <2>2, <3>2
    <3> QED
      BY <3>1, <3>3
  <2>7. Len(s) = Len(b) + Len(kinds)
    BY <1>3, <2>1
  <2> QED
    BY <2>1, <2>5, <2>6, <2>7
<1>6. ASSUME NEW j \in 0..(Len(kinds) - 1)
      PROVE  KindAt(s, Len(b) + j) = kinds[j + 1]
  <2>1. j + 1 \in 1..Len(kinds) /\ Len(b) + j < Len(s) /\ Len(b) + j + 1 = Len(b) + (j + 1)
    BY <1>5
  <2>2. s[Len(b) + j + 1] = m[j + 1]
    BY <1>5, <2>1
  <2> QED
    BY <1>3, <2>1, <2>2 DEF KindAt
<1>7. IsSeq(s)
  BY <1>5 DEF IsSeq
<1>8. \A j \in 0..(Len(kinds) - 1) : KindAt(s, Len(b) + j) = kinds[j + 1]
  BY <1>6
<1> QED
  BY <1>5, <1>7, <1>8 DEF Follows

LEMMA UpToThree ==
  ASSUME NEW S
  PROVE  <<>> \in Seq(S) /\ \A x, y, z \in S : <<x>> \in Seq(S) /\ <<x, y>> \in Seq(S) /\ <<x, y, z>> \in Seq(S)
OBVIOUS

\* What may come before the brackets.
Middles == {<<>>, <<"null">>, <<":", "null">>, <<"string", ":", "null">>, <<"]">>, <<"}">>}

\* What begins with b, goes on with lead and ends with the brackets of what is
\* open is a way to go on from b.
LEMMA WithBrackets ==
  ASSUME NEW b, IsSeq(b), NEW lead \in Middles, NEW open, OpenOnes(open), Len(open) <= Limit
  PROVE  \E s : /\ IsSeq(s) /\ Len(s) = Len(b) + Len(lead) + Len(open)
                /\ \A i \in 1..Len(b) : s[i] = b[i]
                /\ \A j \in 0..(Len(lead) - 1) : KindAt(s, Len(b) + j) = lead[j + 1]
                /\ ClosedFrom(s, open, Len(b) + Len(lead))
                /\ \A most : IsWhole(s, most) => CanGoOn(b, most)
<1> DEFINE n == Len(open)
           closers == [i \in 1..n |-> Closer(open[i].kind)]
           kinds == lead \o closers
           s == b \o Made(kinds)
<1>1. n \in Nat /\ n \in 0..Limit
  BY LimitAssumption DEF OpenOnes, IsSeq
<1>2. closers \in [1..n -> Brackets]
  <2>1. \A i \in 1..n : Closer(open[i].kind) \in Brackets
    BY DEF Closer, Brackets
  <2> QED
    BY <2>1
<1>3. \A i \in 1..n : closers[i] = Closer(open[i].kind)
  OBVIOUS
<1> HIDE DEF closers
<1>4. kinds \in Completions
  BY <1>1, <1>2, CompletionsAssumption DEF Middles
<1>5. lead \in Seq(Kinds) /\ closers \in Seq(Kinds) /\ Len(closers) = n
  <2>1. Brackets \subseteq Kinds
    BY DEF Kinds
  <2>2. closers \in [1..n -> Kinds]
    BY <1>2, <2>1
  <2>3. lead \in Seq(Kinds)
    <3>1. "null" \in Kinds /\ ":" \in Kinds /\ "string" \in Kinds /\ "]" \in Kinds /\ "}" \in Kinds
      BY DEF Kinds, Scalars, Brackets
    <3>2. /\ <<>> \in Seq(Kinds) /\ <<"null">> \in Seq(Kinds) /\ <<"]">> \in Seq(Kinds) /\ <<"}">> \in Seq(Kinds)
          /\ <<":", "null">> \in Seq(Kinds) /\ <<"string", ":", "null">> \in Seq(Kinds)
      BY <3>1, UpToThree
    <3> QED
      BY <3>2 DEF Middles
  <2> QED
    BY <1>1, <2>2, <2>3
<1> HIDE DEF n
<1>6. /\ kinds \in Seq(Kinds) /\ Len(kinds) = Len(lead) + n /\ Len(lead) \in Nat
      /\ \A i \in 1..Len(lead) : kinds[i] = lead[i]
      /\ \A i \in 1..n : kinds[Len(lead) + i] = closers[i]
  <2>1. kinds \in Seq(Kinds) /\ Len(kinds) = Len(lead) + n /\ Len(lead) \in Nat
    BY <1>5
  <2>2. \A i \in 1..Len(kinds) : kinds[i] = IF i <= Len(lead) THEN lead[i] ELSE closers[i - Len(lead)]
    BY <1>5, <2>1
  <2>3. \A i \in 1..Len(lead) : i \in 1..Len(kinds) /\ i <= Len(lead)
    BY <1>1, <2>1
  <2>4. \A i \in 1..n : Len(lead) + i \in 1..Len(kinds) /\ ~(Len(lead) + i <= Len(lead)) /\ Len(lead) + i - Len(lead) = i
    BY <1>1, <2>1
  <2> QED
    BY <2>1, <2>2, <2>3, <2>4
<1> HIDE DEF kinds
<1>7. IsSeq(kinds)
  BY <1>6 DEF IsSeq
<1> HIDE DEF s
<1>8. /\ IsSeq(s) /\ Len(s) = Len(b) + Len(kinds) /\ Len(b) \in Nat
      /\ \A i \in 1..Len(b) : s[i] = b[i]
      /\ \A j \in 0..(Len(kinds) - 1) : KindAt(s, Len(b) + j) = kinds[j + 1]
  <2>1. s = b \o Made(kinds)
    BY DEF s
  <2>2. Follows(s, b, kinds)
    BY <1>7, <2>1, FollowedBy
  <2> QED
    BY <2>2 DEF Follows
<1>9. Len(s) = Len(b) + Len(lead) + n
  BY <1>1, <1>6, <1>8
<1>10. ASSUME NEW j \in 0..(Len(lead) - 1)
       PROVE  KindAt(s, Len(b) + j) = lead[j + 1]
  <2>1. j \in 0..(Len(kinds) - 1) /\ j + 1 \in 1..Len(lead)
    BY <1>1, <1>6
  <2> QED
    BY <1>6, <1>8, <2>1
<1>11. ClosedFrom(s, open, Len(b) + Len(lead))
  <2> SUFFICES ASSUME NEW i \in 1..n
               PROVE  KindAt(s, Len(b) + Len(lead) + i - 1) = Closer(open[i].kind)
    BY DEF ClosedFrom, n
  <2>1. PICK j : j = Len(lead) + i - 1
    OBVIOUS
  <2>2. j \in 0..(Len(kinds) - 1) /\ j + 1 = Len(lead) + i /\ Len(b) + j = Len(b) + Len(lead) + i - 1
    BY <1>1, <1>6, <1>8, <2>1
  <2>3. KindAt(s, Len(b) + j) = kinds[j + 1]
    BY <1>8, <2>2
  <2> QED
    BY <1>3, <1>6, <2>2, <2>3
<1>12. \A most : IsWhole(s, most) => CanGoOn(b, most)
  BY <1>4 DEF CanGoOn, s
<1> QED
  BY <1>8, <1>9, <1>10, <1>11, <1>12 DEF n

-----------------------------------------------------------------------------
(* What the parser has come to *)

\* s begins with the first n tokens.
Agrees(s, n) == IsSeq(s) /\ n <= Len(s) /\ \A i \in 1..n : s[i] = tokens[i]

\* The innermost container has just been opened, because it is not empty.
Fresh ==
  /\ parser \in {"value", "key"} /\ stack # <<>>
  /\ Head(stack).keys = <<>> /\ Head(stack).kids = <<>>

\* Other tokens that might be those before the parser, as far as it has looked.
Fits(s) == Agrees(s, cursor) /\ (Fresh => KindAt(s, cursor) # Closer(Head(stack).kind))

\* What the parse has come to, and what is left of s, make up the values that
\* s begins with.
Ahead(s, most, y) == Leads(parser, s, most, stack, cursor, result, y)
Leading(s, most) == \A y : y \in ValuesOf(s, most)[most][0] <=> Ahead(s, most, y)

\* Before a comma the container could have been closed: by another bracket than
\* the token behind the comma.
BehindComma ==
  cursor # 0 /\ KindAt(tokens, cursor - 1) = "," =>
    /\ parser \in {"value", "key"} /\ stack # <<>>
    /\ KindAt(tokens, cursor) # Closer(Head(stack).kind)
    /\ \A s : Agrees(s, cursor - 1) =>
         \A y : y \in ValuesOf(s, Limit)[Limit][0] <=> Leads("next", s, Limit, stack, cursor - 1, result, y)

Spellings == ValuesOf(tokens, Limit)[Limit][0]

\* The first k tokens are the longest beginning of a value, and e says so.
RefusedAs(k, e) ==
  /\ CanGoOn(SubSeq(tokens, 1, k), Limit)
  /\ k < Len(tokens) => ~CanGoOn(SubSeq(tokens, 1, k + 1), Limit)
  /\ e = ErrorBehind(k)

Completes ==
  /\ OpenOnes(stack)
  /\ parser = "key" => Head(stack).kind = "object"
  /\ lexer # "done" => stack = <<>>
  /\ mode \in {"whole", "prefix"} /\ (mode = "prefix" => lexer # "failed")
  /\ parser = "done" /\ mode = "whole" => cursor = Len(tokens)
  /\ lexer = "done" /\ parser # "failed" =>
       /\ Fits(tokens) /\ BehindComma
       /\ \A s : \A most \in Nat : Fits(s) /\ most >= Limit => Leading(s, most)
  /\ lexer = "done" /\ parser = "failed" =>
       /\ \A y \in Spellings : mode = "whole" /\ y.end # Len(tokens)
       /\ \E k \in 0..Len(tokens) : RefusedAs(k, error)

\* No token is what peek finds at the end.
Named == \A i \in 1..Len(tokens) : tokens[i].kind # "none"

\* What every step of the parser starts from.
Within ==
  /\ Named
  /\ IsSeq(tokens) /\ cursor \in 0..Len(tokens)
  /\ Len(stack) \in 0..Limit /\ depth = Len(stack)
  /\ parser \in {"next", "key"} => stack # <<>>
  /\ Completes

Parsing == Within /\ lexer = "done" /\ parser # "failed"

LEMMA ParsingFacts ==
  ASSUME Parsing
  PROVE  /\ IsSeq(tokens) /\ cursor \in 0..Len(tokens) /\ Len(tokens) \in Nat /\ cursor \in Nat
         /\ Len(stack) \in 0..Limit /\ Len(stack) \in Nat /\ Limit \in Nat /\ depth = Len(stack)
         /\ OpenOnes(stack) /\ mode \in {"whole", "prefix"}
         /\ Fits(tokens) /\ BehindComma /\ lexer = "done"
         /\ \A s : \A most \in Nat : Fits(s) /\ most >= Limit => Leading(s, most)
<1>1. IsSeq(tokens) /\ cursor \in 0..Len(tokens) /\ Len(stack) \in 0..Limit /\ depth = Len(stack) /\ Limit \in Nat
  BY LimitAssumption DEF Parsing, Within
<1>2. Len(tokens) \in Nat
  BY <1>1 DEF IsSeq
<1>3. cursor \in Nat /\ Len(stack) \in Nat
  BY <1>1, <1>2
<1> QED
  BY <1>1, <1>2, <1>3 DEF Parsing, Within, Completes

\* The level of the values that can come next.
LEMMA LevelThere ==
  ASSUME Parsing, NEW s, IsSeq(s), NEW most \in Nat, most >= Limit
  PROVE  /\ most - Len(stack) \in 0..most
         /\ EndLater(s, ValuesOf(s, most)[most - Len(stack)])
<1>1. Len(stack) \in 0..Limit /\ Limit \in Nat
  BY ParsingFacts
<1>2. most - Len(stack) \in 0..most
  BY <1>1
<1> QED
  BY <1>2, ValuesEnd

LEMMA PeekKind == \A c : Peek(c) = KindAt(tokens, c)
BY DEF Peek, KindAt

-----------------------------------------------------------------------------
(* Where tokens agree *)

LEMMA AgreesLess ==
  ASSUME NEW s, NEW n \in Nat, Agrees(s, n), NEW m \in Nat, m <= n
  PROVE  Agrees(s, m)
<1>1. Len(s) \in Nat
  BY DEF Agrees, IsSeq
<1>2. m <= Len(s) /\ \A i \in 1..m : i \in 1..n
  BY <1>1 DEF Agrees
<1> QED
  BY <1>2 DEF Agrees

LEMMA KindsAgree ==
  ASSUME NEW s, NEW n \in Nat, Agrees(s, n), n <= Len(tokens), IsSeq(tokens), NEW b \in Nat, b < n
  PROVE  KindAt(s, b) = KindAt(tokens, b) /\ s[b + 1] = tokens[b + 1] /\ b + 1 <= Len(s)
<1>1. Len(s) \in Nat /\ Len(tokens) \in Nat /\ n <= Len(s)
  BY DEF Agrees, IsSeq
<1>2. b + 1 \in 1..n /\ b < Len(s) /\ b < Len(tokens) /\ b + 1 <= Len(s)
  BY <1>1
<1>3. s[b + 1] = tokens[b + 1]
  BY <1>2 DEF Agrees
<1> QED
  BY <1>2, <1>3 DEF KindAt

LEMMA BegunAgrees ==
  ASSUME IsSeq(tokens), NEW k \in 0..Len(tokens)
  PROVE  LET b == SubSeq(tokens, 1, k)
         IN IsSeq(b) /\ Len(b) = k /\ (\A i \in 1..k : b[i] = tokens[i]) /\ Agrees(b, k) /\ Agrees(tokens, k)
<1> DEFINE b == SubSeq(tokens, 1, k)
<1>1. PICK S : tokens \in Seq(S)
  BY DEF IsSeq
<1>2. k \in Nat /\ k <= Len(tokens) /\ Len(tokens) \in Nat
  BY <1>1
<1>3. b \in Seq(S) /\ Len(b) = k /\ \A i \in 1..k : b[i] = tokens[i]
  BY <1>1, <1>2
<1>4. IsSeq(b)
  BY <1>3 DEF IsSeq
<1> HIDE DEF b
<1>5. Agrees(b, k) /\ Agrees(tokens, k)
  BY <1>2, <1>3, <1>4 DEF Agrees
<1> QED
  BY <1>3, <1>4, <1>5 DEF b

\* What begins with what agrees does so too.
LEMMA LongerAgrees ==
  ASSUME NEW b, NEW n \in Nat, Agrees(b, n), NEW s, IsSeq(s), Len(b) <= Len(s), \A i \in 1..Len(b) : s[i] = b[i]
  PROVE  Agrees(s, n)
<1>1. Len(b) \in Nat /\ Len(s) \in Nat /\ n <= Len(b)
  BY DEF Agrees, IsSeq
<1>2. n <= Len(s) /\ \A i \in 1..n : i \in 1..Len(b)
  BY <1>1
<1> QED
  BY <1>2 DEF Agrees

\* A step that goes on leads where the parse led before.
LEMMA GoesOn ==
  ASSUME Parsing, UNCHANGED lexVars,
         OpenOnes(stack'), parser' # "failed",
         parser' = "key" => Head(stack').kind = "object",
         parser' = "done" /\ mode = "whole" => cursor' = Len(tokens),
         cursor' \in cursor..Len(tokens),
         Fresh => cursor' # cursor,
         Fresh' => KindAt(tokens, cursor') # Closer(Head(stack').kind),
         \A s : \A most \in Nat :
           most >= Limit /\ Agrees(s, cursor') /\ (Fresh' => KindAt(s, cursor') # Closer(Head(stack').kind)) =>
             \A y : Leads(parser', s, most, stack', cursor', result', y) <=> Ahead(s, most, y),
         BehindComma'
  PROVE  Completes'
<1>1. tokens' = tokens /\ lexer' = lexer /\ mode' = mode
  BY DEF lexVars
<1>2. /\ mode \in {"whole", "prefix"} /\ Fits(tokens) /\ lexer = "done"
      /\ \A s : \A most \in Nat : Fits(s) /\ most >= Limit => Leading(s, most)
      /\ IsSeq(tokens) /\ cursor \in 0..Len(tokens) /\ Len(tokens) \in Nat /\ cursor \in Nat
  BY ParsingFacts
<1>3. cursor' \in Nat /\ cursor <= cursor' /\ cursor' <= Len(tokens)
  BY <1>2
<1>4. Agrees(tokens, cursor')
  BY <1>2, <1>3 DEF Agrees
<1>5. Fits(tokens)'
  <2>1. Fits(tokens)' <=> Agrees(tokens, cursor') /\ (Fresh' => KindAt(tokens, cursor') # Closer(Head(stack').kind))
    BY <1>1 DEF Fits, Agrees
  <2> QED
    BY <1>4, <2>1
<1>6. ASSUME NEW s, NEW most \in Nat, Fits(s)', most >= Limit
      PROVE  Leading(s, most)'
  <2>1. Agrees(s, cursor') /\ (Fresh' => KindAt(s, cursor') # Closer(Head(stack').kind))
    BY <1>1, <1>6 DEF Fits, Agrees
  <2>2. Agrees(s, cursor)
    BY <1>2, <1>3, <2>1, AgreesLess
  <2>3. Fits(s)
    <3>1. CASE ~Fresh
      BY <2>2, <3>1 DEF Fits
    <3>2. CASE Fresh
      <4>1. cursor < cursor'
        BY <1>2, <1>3, <3>2
      <4>2. KindAt(s, cursor) = KindAt(tokens, cursor)
        BY <1>2, <1>3, <2>1, <4>1, KindsAgree
      <4> QED
        BY <1>2, <2>2, <4>2 DEF Fits
    <3> QED
      BY <3>1, <3>2
  <2>4. \A y : y \in ValuesOf(s, most)[most][0] <=> Ahead(s, most, y)
    BY <1>2, <1>6, <2>3 DEF Leading
  <2>5. \A y : Leads(parser', s, most, stack', cursor', result', y) <=> Ahead(s, most, y)
    BY <1>6, <2>1
  <2> QED
    BY <2>4, <2>5 DEF Leading, Ahead
<1>7. lexer' = "done" /\ mode' \in {"whole", "prefix"}
  BY <1>1, <1>2
<1>8. parser' = "done" /\ mode' = "whole" => cursor' = Len(tokens')
  BY <1>1
<1> QED
  BY <1>5, <1>6, <1>7, <1>8 DEF Completes

-----------------------------------------------------------------------------
(* What has been consumed can be the beginning of a value *)

LEMMA WholeThen ==
  ASSUME Parsing, NEW s, NEW most \in Nat, most >= Limit, Fits(s), NEW y, Ahead(s, most, y), y.end = Len(s)
  PROVE  IsWhole(s, most)
<1>1. Leading(s, most)
  BY ParsingFacts
<1>2. y \in ValuesOf(s, most)[most][0]
  BY <1>1 DEF Leading
<1> QED
  BY <1>2 DEF IsWhole

\* The brackets that close all containers, wherever the next value may be.
LEMMA ValueThen ==
  ASSUME Parsing, parser = "value", NEW s, Fits(s), NEW most \in Nat, most >= Limit,
         NEW x \in ValuesOf(s, most)[most - Len(stack)][cursor], NEW p \in Nat, x.end = p,
         ClosedFrom(s, stack, p), Len(s) = p + Len(stack)
  PROVE  IsWhole(s, most)
<1>1. OpenOnes(stack)
  BY ParsingFacts
<1>2. PICK y : Up(s, most, stack, x, y) /\ y.end = p + Len(stack)
  BY <1>1, BracketsComplete
<1>3. Ahead(s, most, y)
  BY <1>2 DEF Ahead, Leads
<1> QED
  BY <1>2, <1>3, WholeThen

LEMMA KeyThen ==
  ASSUME Parsing, parser = "key", NEW s, Fits(s), NEW p, p = cursor, NullAt(s, "object", p, p + 3),
         ClosedFrom(s, stack, p + 3), Len(s) = p + 3 + Len(stack)
  PROVE  IsWhole(s, Limit)
<1> DEFINE c == Head(stack)
           W == ValuesOf(s, Limit)[Limit - Len(stack)]
<1>1. /\ OpenOnes(stack) /\ stack # <<>> /\ c.kind = "object" /\ IsSeq(s) /\ p \in Nat /\ Limit \in Nat
      /\ Agrees(s, p) /\ Len(stack) \in 0..Limit
  BY ParsingFacts DEF Parsing, Within, Completes, Fits, Agrees
<1>2. IsOpen(c)
  BY <1>1, OpenHead
<1>3. Limit - Len(stack) \in 0..Limit
  BY <1>1
<1>4. p \in 0..Len(s)
  BY <1>1 DEF Agrees, IsSeq
<1>5. NullAt(s, c.kind, p, p + 3)
  BY <1>1
<1> HIDE DEF c
<1>6. PICK e : IsOpen(e) /\ e.kind = c.kind /\ \A z : Closes(s, W, e, p + 3, z) => Fills(s, W, c, p, z)
  <2>1. Takes(s, W, c, p, p + 3)
    BY <1>1, <1>2, <1>3, <1>4, <1>5, NullFills
  <2> QED
    BY <2>1 DEF Takes
<1> HIDE DEF W
<1>7. PICK z, y : Closes(s, W, e, p + 3, z) /\ Up(s, Limit, Tail(stack), z, y) /\ y.end = p + 3 + Len(stack)
  <2>1. PICK q : q = p + 3
    OBVIOUS
  <2>2. q \in Nat /\ ClosedFrom(s, stack, q) /\ e.kind = Head(stack).kind
    BY <1>1, <1>6, <2>1 DEF c
  <2>3. Completable(s, Limit, stack, W, e, q)
    BY <1>1, <2>2, InnermostCompletes
  <2> QED
    BY <2>1, <2>3 DEF Completable
<1>8. Fills(s, W, c, p, z)
  BY <1>6, <1>7
<1>9. Ahead(s, Limit, y)
  BY <1>7, <1>8 DEF Ahead, Leads, W, c
<1>10. y.end = Len(s) /\ Limit >= Limit
  BY <1>1, <1>7
<1> QED
  BY <1>1, <1>9, <1>10, WholeThen

LEMMA NextThen ==
  ASSUME Parsing, parser = "next", NEW s, Fits(s), ClosedFrom(s, stack, cursor), Len(s) = cursor + Len(stack)
  PROVE  IsWhole(s, Limit)
<1> DEFINE c == Head(stack)
           W == ValuesOf(s, Limit)[Limit - Len(stack)]
<1>1. OpenOnes(stack) /\ stack # <<>> /\ cursor \in Nat /\ Limit \in Nat
  BY ParsingFacts DEF Parsing, Within
<1> HIDE DEF W
<1>2. PICK z, y : Closes(s, W, c, cursor, z) /\ Up(s, Limit, Tail(stack), z, y) /\ y.end = cursor + Len(stack)
  <2>1. Completable(s, Limit, stack, W, c, cursor)
    BY <1>1, InnermostCompletes
  <2> QED
    BY <2>1 DEF Completable
<1>3. Ahead(s, Limit, y)
  BY <1>2 DEF Ahead, Leads, W
<1>4. y.end = Len(s) /\ Limit >= Limit
  BY <1>1, <1>2
<1> QED
  BY <1>1, <1>3, <1>4, WholeThen

CommaAt(s, p) == KindAt(s, p) = ","

LEMMA CommaThen ==
  ASSUME Parsing, parser = "next", NEW s, Fits(s), CommaAt(s, cursor), NEW p \in 0..Len(s), p = cursor + 1,
         NEW q \in Nat, NullAt(s, Top.kind, p, q), ClosedFrom(s, stack, q), Len(s) = q + Len(stack)
  PROVE  IsWhole(s, Limit)
<1> DEFINE c == Head(stack)
           W == ValuesOf(s, Limit)[Limit - Len(stack)]
<1>1. /\ OpenOnes(stack) /\ stack # <<>> /\ IsSeq(s) /\ p \in Nat /\ Limit \in Nat
      /\ Len(stack) \in 0..Limit /\ cursor \in Nat
  <2>1. OpenOnes(stack) /\ Limit \in Nat /\ Len(stack) \in 0..Limit /\ cursor \in Nat
    BY ParsingFacts
  <2>2. stack # <<>> /\ IsSeq(s)
    BY DEF Parsing, Within, Fits, Agrees
  <2>3. p \in Nat
    BY <2>1
  <2> QED
    BY <2>1, <2>2, <2>3
<1>2. IsOpen(c)
  BY <1>1, OpenHead
<1>3. Limit - Len(stack) \in 0..Limit
  BY <1>1
<1>4. Len(stack) \in Nat
  BY <1>1
<1>5. NullAt(s, c.kind, p, q)
  BY DEF Top
<1> HIDE DEF c
<1>6. PICK e : IsOpen(e) /\ e.kind = c.kind /\ \A z : Closes(s, W, e, q, z) => Fills(s, W, c, p, z)
  <2>1. Takes(s, W, c, p, q)
    BY <1>1, <1>2, <1>3, <1>5, NullFills
  <2> QED
    BY <2>1 DEF Takes
<1> HIDE DEF W
<1>7. PICK z, y : Closes(s, W, e, q, z) /\ Up(s, Limit, Tail(stack), z, y) /\ y.end = q + Len(stack)
  <2>1. e.kind = Head(stack).kind
    BY <1>6 DEF c
  <2>2. Completable(s, Limit, stack, W, e, q)
    BY <1>1, <2>1, InnermostCompletes
  <2> QED
    BY <2>2 DEF Completable
<1>8. Closes(s, W, c, cursor, z)
  BY <1>6, <1>7 DEF Closes, CommaAt
<1>9. Ahead(s, Limit, y)
  BY <1>7, <1>8 DEF Ahead, Leads, W, c
<1>10. y.end = Len(s) /\ Limit >= Limit
  BY <1>1, <1>4, <1>7
<1> QED
  BY <1>1, <1>9, <1>10, WholeThen

-----------------------------------------------------------------------------
(* What is refused *)

\* s begins with the first k tokens, and then ends or goes on with a token like
\* the next.
Like(s, k) == Agrees(s, k) /\ KindAt(s, k) \in {"none", KindAt(tokens, k)}

\* No value begins like that.
NoValueLike(k, most) == \A s : Like(s, k) => \A y : ~Ahead(s, most, y)

LEMMA TokensNamed ==
  ASSUME Parsing, NEW b \in Nat
  PROVE  KindAt(tokens, b) = "none" <=> ~(b < Len(tokens))
<1>1. Len(tokens) \in Nat
  BY ParsingFacts
<1>2. b < Len(tokens) => KindAt(tokens, b) # "none"
  <2>1. b < Len(tokens) => b + 1 \in 1..Len(tokens)
    BY <1>1
  <2> QED
    BY <2>1 DEF KindAt, Parsing, Within, Named
<1> QED
  BY <1>2 DEF KindAt

LEMMA LikeFits ==
  ASSUME Parsing, NEW k \in cursor..Len(tokens), NEW s, Like(s, k)
  PROVE  Fits(s)
<1>1. /\ cursor \in Nat /\ Len(tokens) \in Nat /\ IsSeq(tokens) /\ Fits(tokens)
  BY ParsingFacts
<1>2. k \in Nat /\ cursor <= k /\ k <= Len(tokens)
  BY <1>1
<1>3. Agrees(s, cursor)
  BY <1>1, <1>2, AgreesLess DEF Like
<1>4. KindAt(s, cursor) \in {"none", KindAt(tokens, cursor)}
  <2>1. CASE k = cursor
    BY <2>1 DEF Like
  <2>2. CASE k # cursor
    <3>1. cursor < k
      BY <1>1, <1>2, <2>2
    <3>2. KindAt(s, cursor) = KindAt(tokens, cursor)
      BY <1>1, <1>2, <3>1, KindsAgree DEF Like
    <3> QED
      BY <3>2
  <2> QED
    BY <2>1, <2>2
<1>5. \A kind : Closer(kind) # "none"
  BY DEF Closer
<1> QED
  BY <1>1, <1>3, <1>4, <1>5 DEF Fits

\* The tokens themselves are, and the first of them alone.
LEMMA BegunLike ==
  ASSUME Parsing, NEW k \in 0..Len(tokens)
  PROVE  Like(tokens, k) /\ Like(SubSeq(tokens, 1, k), k) /\ Len(SubSeq(tokens, 1, k)) = k
<1> DEFINE b == SubSeq(tokens, 1, k)
<1>1. IsSeq(tokens)
  BY ParsingFacts
<1>2. Len(b) = k /\ Agrees(b, k) /\ Agrees(tokens, k)
  BY <1>1, BegunAgrees
<1>3. k \in Nat
  OBVIOUS
<1> HIDE DEF b
<1>4. KindAt(b, k) = "none"
  BY <1>2, <1>3 DEF KindAt
<1> QED
  BY <1>2, <1>4 DEF Like, b

\* And whatever goes on from the next token.
LEMMA BeyondLike ==
  ASSUME Parsing, NEW k \in 0..Len(tokens), k < Len(tokens), NEW kinds \in Completions,
         NEW s, s = SubSeq(tokens, 1, k + 1) \o Made(kinds)
  PROVE  Like(s, k) /\ k + 1 <= Len(s) /\ Len(s) \in Nat
<1> DEFINE b == SubSeq(tokens, 1, k + 1)
<1>1. IsSeq(tokens) /\ Len(tokens) \in Nat /\ k \in Nat
  BY ParsingFacts
<1>2. k + 1 \in 0..Len(tokens) /\ k + 1 \in Nat /\ k + 1 <= Len(tokens) /\ k < k + 1 /\ k <= k + 1
  BY <1>1
<1>3. IsSeq(b) /\ Len(b) = k + 1 /\ Agrees(b, k + 1)
  BY <1>1, <1>2, BegunAgrees
<1>4. s = b \o Made(kinds)
  OBVIOUS
<1> HIDE DEF b
<1>5. IsSeq(kinds)
  BY CompletionsAssumption DEF IsSeq
<1>6. Follows(s, b, kinds)
  BY <1>3, <1>4, <1>5, FollowedBy
<1>7. IsSeq(s) /\ Len(s) \in Nat /\ Len(b) <= Len(s) /\ \A i \in 1..Len(b) : s[i] = b[i]
  <2>1. Len(s) = Len(b) + Len(kinds) /\ Len(b) \in Nat /\ Len(kinds) \in Nat
    BY <1>6 DEF Follows
  <2>2. Len(s) \in Nat /\ Len(b) <= Len(s)
    BY <2>1
  <2> QED
    BY <1>6, <2>2 DEF Follows
<1>8. Agrees(s, k + 1)
  BY <1>2, <1>3, <1>7, LongerAgrees
<1>9. Agrees(s, k)
  BY <1>1, <1>2, <1>8, AgreesLess
<1>10. KindAt(s, k) = KindAt(tokens, k)
  BY <1>1, <1>2, <1>8, KindsAgree
<1> QED
  BY <1>3, <1>7, <1>9, <1>10 DEF Like

LEMMA LikeIsNone ==
  ASSUME Parsing, NEW k \in cursor..Len(tokens), NEW most \in Nat, most >= Limit, NoValueLike(k, most),
         NEW s, Like(s, k)
  PROVE  ~IsWhole(s, most)
<1>1. Fits(s)
  BY LikeFits
<1>2. Leading(s, most)
  BY <1>1, ParsingFacts
<1> QED
  BY <1>2 DEF NoValueLike, Leading, IsWhole

LEMMA NoWay ==
  ASSUME Parsing, NEW k \in cursor..Len(tokens), NEW most \in Nat, most >= Limit, NoValueLike(k, most)
  PROVE  /\ ~IsWhole(SubSeq(tokens, 1, k), most)
         /\ k < Len(tokens) => ~CanGoOn(SubSeq(tokens, 1, k + 1), most)
<1>1. k \in 0..Len(tokens)
  <2>1. cursor \in Nat /\ Len(tokens) \in Nat
    BY ParsingFacts
  <2> QED
    BY <2>1
<1>2. ~IsWhole(SubSeq(tokens, 1, k), most)
  BY <1>1, BegunLike, LikeIsNone
<1>3. ASSUME k < Len(tokens), NEW kinds \in Completions
      PROVE  ~IsWhole(SubSeq(tokens, 1, k + 1) \o Made(kinds), most)
  <2>1. PICK s : s = SubSeq(tokens, 1, k + 1) \o Made(kinds)
    OBVIOUS
  <2>2. Like(s, k)
    BY <1>1, <1>3, <2>1, BeyondLike
  <2> QED
    BY <2>1, <2>2, LikeIsNone
<1> QED
  BY <1>2, <1>3 DEF CanGoOn

\* A step that refuses a token is right to, when nothing could have come of it.
LEMMA Refuses ==
  ASSUME Parsing, NEW kind, NEW p, Reject(kind, p),
         NEW k \in 0..Len(tokens), RefusedAs(k, [kind |-> kind, pos |-> p]),
         \A y : Ahead(tokens, Limit, y) => mode = "whole" /\ y.end # Len(tokens)
  PROVE  Completes'
<1>1. /\ tokens' = tokens /\ lexer' = lexer /\ mode' = mode /\ stack' = stack /\ parser' = "failed"
      /\ error' = [kind |-> kind, pos |-> p]
  BY DEF Reject
<1>2. /\ OpenOnes(stack) /\ mode \in {"whole", "prefix"} /\ lexer = "done" /\ Fits(tokens) /\ Limit \in Nat
      /\ \A s : \A most \in Nat : Fits(s) /\ most >= Limit => Leading(s, most)
  BY ParsingFacts
<1>3. Leading(tokens, Limit)
  <2>1. Limit >= Limit
    BY <1>2
  <2> QED
    BY <1>2, <2>1
<1>4. Spellings' = Spellings
  BY <1>1 DEF Spellings
<1>5. \A y \in Spellings : mode = "whole" /\ y.end # Len(tokens)
  BY <1>3 DEF Leading, Spellings
<1>6. RefusedAs(k, error)'
  BY <1>1 DEF RefusedAs, ErrorBehind, PeekPos
<1>7. \A y \in Spellings' : mode' = "whole" /\ y.end # Len(tokens')
  BY <1>1, <1>4, <1>5
<1>8. \E j \in 0..Len(tokens') : RefusedAs(j, error)'
  BY <1>1, <1>6
<1> QED
  BY <1>1, <1>2, <1>7, <1>8 DEF Completes

\* A bracket in the place of a comma before it would be wrong as well.
LEMMA BracketForComma ==
  ASSUME Parsing, cursor # 0, CommaAt(tokens, cursor - 1), cursor < Len(tokens),
         KindAt(tokens, cursor) \in Brackets
  PROVE  ~CanGoOn(Append(SubSeq(tokens, 1, cursor - 1), tokens[cursor + 1]), Limit)
<1> DEFINE a == SubSeq(tokens, 1, cursor - 1)
           b == Append(a, tokens[cursor + 1])
<1>1. /\ IsSeq(tokens) /\ Len(tokens) \in Nat /\ cursor \in 0..Len(tokens) /\ cursor \in Nat /\ BehindComma
  BY ParsingFacts
<1>2. cursor - 1 \in 0..Len(tokens) /\ cursor - 1 \in Nat
  BY <1>1
<1>3. IsSeq(a) /\ Len(a) = cursor - 1 /\ \A i \in 1..(cursor - 1) : a[i] = tokens[i]
  BY <1>1, <1>2, BegunAgrees
<1>4. /\ KindAt(tokens, cursor) # Closer(Head(stack).kind)
      /\ \A s : Agrees(s, cursor - 1) =>
           \A y : y \in ValuesOf(s, Limit)[Limit][0] <=> Leads("next", s, Limit, stack, cursor - 1, result, y)
  BY <1>1 DEF BehindComma, CommaAt
<1> HIDE DEF a
<1>5. /\ IsSeq(b) /\ Len(b) = cursor /\ b[cursor] = tokens[cursor + 1]
      /\ \A i \in 1..(cursor - 1) : b[i] = tokens[i]
  <2>1. PICK S : a \in Seq(S)
    BY <1>3 DEF IsSeq
  <2> DEFINE R == S \cup {tokens[cursor + 1]}
  <2>2. a \in Seq(R) /\ tokens[cursor + 1] \in R
    BY <2>1
  <2> HIDE DEF R
  <2>3. b \in Seq(R) /\ Len(b) = Len(a) + 1 /\ b[Len(a) + 1] = tokens[cursor + 1] /\ \A i \in 1..Len(a) : b[i] = a[i]
    BY <2>2
  <2>4. Len(a) + 1 = cursor
    BY <1>1, <1>3
  <2> QED
    BY <1>3, <2>3, <2>4 DEF IsSeq
<1> HIDE DEF b
<1>6. ASSUME NEW kinds \in Completions
      PROVE  ~IsWhole(b \o Made(kinds), Limit)
  <2>1. PICK s : s = b \o Made(kinds)
    OBVIOUS
  <2>2. IsSeq(kinds)
    BY CompletionsAssumption DEF IsSeq
  <2>3. Follows(s, b, kinds)
    BY <1>5, <2>1, <2>2, FollowedBy
  <2>4. /\ IsSeq(s) /\ Len(s) \in Nat /\ cursor <= Len(s) /\ \A i \in 1..cursor : s[i] = b[i]
    <3>1. Len(s) = Len(b) + Len(kinds) /\ Len(b) \in Nat /\ Len(kinds) \in Nat
      BY <2>3 DEF Follows
    <3>2. Len(s) \in Nat /\ cursor <= Len(s)
      BY <1>5, <3>1
    <3> QED
      BY <1>5, <2>3, <3>2 DEF Follows
  <2>5. Agrees(s, cursor - 1)
    <3>1. cursor - 1 <= Len(s) /\ \A i \in 1..(cursor - 1) : i \in 1..cursor
      BY <1>1, <1>2, <2>4
    <3> QED
      BY <1>5, <2>4, <3>1 DEF Agrees
  <2>6. KindAt(s, cursor - 1) = KindAt(tokens, cursor)
    <3>1. cursor \in 1..cursor /\ (cursor - 1) + 1 = cursor /\ cursor - 1 < Len(s)
      BY <1>1, <1>2, <2>4
    <3>2. KindAt(s, cursor - 1) = s[cursor].kind
      BY <3>1 DEF KindAt
    <3>3. KindAt(tokens, cursor) = tokens[cursor + 1].kind
      BY DEF KindAt
    <3> QED
      BY <1>5, <2>4, <3>1, <3>2, <3>3
  <2>7. \A y : ~Leads("next", s, Limit, stack, cursor - 1, result, y)
    <3>1. KindAt(s, cursor - 1) # ","
      BY <2>6 DEF Brackets
    <3> QED
      BY <1>4, <2>6, <3>1 DEF Leads, Closes
  <2> QED
    BY <1>4, <2>1, <2>5, <2>7 DEF IsWhole
<1>7. ~CanGoOn(b, Limit)
  BY <1>6 DEF CanGoOn
<1> QED
  BY <1>7 DEF b, a

\* What every refusal at k says, before it comes to the error.
LEMMA NothingBeyond ==
  ASSUME Parsing, NEW k \in cursor..Len(tokens),
         \A most \in Nat : most >= Limit => NoValueLike(k, most)
  PROVE  /\ k \in 0..Len(tokens) /\ Limit \in Nat
         /\ ~IsWhole(SubSeq(tokens, 1, k), Limit)
         /\ k < Len(tokens) =>
              ~CanGoOn(SubSeq(tokens, 1, k + 1), Limit) /\ ~CanGoOn(SubSeq(tokens, 1, k + 1), Limit + 1)
         /\ \A y : ~Ahead(tokens, Limit, y)
<1>1. k \in 0..Len(tokens) /\ Limit \in Nat /\ Limit + 1 \in Nat /\ Limit >= Limit /\ Limit + 1 >= Limit
  <2>1. cursor \in Nat /\ Len(tokens) \in Nat /\ Limit \in Nat
    BY ParsingFacts
  <2> QED
    BY <2>1
<1>2. NoValueLike(k, Limit) /\ NoValueLike(k, Limit + 1)
  BY <1>1
<1>3. Like(tokens, k)
  BY <1>1, BegunLike
<1> QED
  BY <1>1, <1>2, <1>3, NoWay DEF NoValueLike

\* The wrong token, or the end of the input in its place.
LEMMA RefusesToken ==
  ASSUME Parsing, NEW k \in cursor..Len(tokens), RejectToken(k),
         CanGoOn(SubSeq(tokens, 1, k), Limit),
         \A most \in Nat : most >= Limit => NoValueLike(k, most),
         k = cursor \/ ~CommaAt(tokens, k - 1)
  PROVE  Completes'
<1> DEFINE kind == IF Peek(k) = "none" THEN "UnexpectedEof" ELSE "UnexpectedToken"
           p == PeekPos(k)
<1>1. /\ k \in 0..Len(tokens) /\ k \in Nat /\ Len(tokens) \in Nat
      /\ ~IsWhole(SubSeq(tokens, 1, k), Limit)
      /\ k < Len(tokens) =>
           ~CanGoOn(SubSeq(tokens, 1, k + 1), Limit) /\ ~CanGoOn(SubSeq(tokens, 1, k + 1), Limit + 1)
      /\ \A y : ~Ahead(tokens, Limit, y)
  <2>1. cursor \in Nat /\ Len(tokens) \in Nat
    BY ParsingFacts
  <2>2. k \in Nat
    BY <2>1
  <2> QED
    BY <2>1, <2>2, NothingBeyond
<1>2. [kind |-> kind, pos |-> p] = ErrorBehind(k)
  <2>1. CASE k = Len(tokens)
    <3>1. Peek(k) = "none"
      BY <2>1, <1>1 DEF Peek
    <3> QED
      BY <2>1, <3>1 DEF ErrorBehind
  <2>2. CASE k # Len(tokens)
    <3>1. k < Len(tokens)
      BY <1>1, <2>2
    <3>2. kind = "UnexpectedToken"
      BY <1>1, <3>1, TokensNamed, PeekKind
    <3>3. p = tokens[k + 1].pos
      BY <3>1 DEF PeekPos
    <3>4. k > 0 => k - 1 < Len(tokens) /\ (k - 1) + 1 = k /\ k # 0
      BY <1>1
    <3>5. ~(/\ k > 0 /\ tokens[k].kind = "," /\ tokens[k + 1].kind \in Brackets
            /\ CanGoOn(Append(SubSeq(tokens, 1, k - 1), tokens[k + 1]), Limit))
      <4> SUFFICES ASSUME k > 0, tokens[k].kind = ",", tokens[k + 1].kind \in Brackets
                   PROVE  ~CanGoOn(Append(SubSeq(tokens, 1, k - 1), tokens[k + 1]), Limit)
        OBVIOUS
      <4>1. KindAt(tokens, k) = tokens[k + 1].kind
        BY <3>1 DEF KindAt
      <4>2. k - 1 < Len(tokens) /\ (k - 1) + 1 = k /\ k # 0
        BY <3>4
      <4>3. CommaAt(tokens, k - 1)
        BY <4>2 DEF CommaAt, KindAt
      <4>4. k = cursor
        BY <4>3
      <4> QED
        BY <3>1, <4>1, <4>2, <4>3, <4>4, BracketForComma
    <3> HIDE DEF kind, p
    <3> QED
      BY <1>1, <2>2, <3>1, <3>2, <3>3, <3>5 DEF ErrorBehind
  <2> QED
    BY <2>1, <2>2
<1>3. Reject(kind, p)
  BY DEF RejectToken
<1> HIDE DEF kind, p
<1>4. RefusedAs(k, [kind |-> kind, pos |-> p])
  BY <1>1, <1>2 DEF RefusedAs
<1> QED
  BY <1>1, <1>3, <1>4, Refuses

-----------------------------------------------------------------------------
(* What could have come instead *)

\* s begins with the first k tokens, and goes on with lead and the brackets of
\* what is open.
WayOn(s, k, lead, open) ==
  /\ Agrees(s, k) /\ Len(s) = k + Len(lead) + Len(open)
  /\ \A j \in 0..(Len(lead) - 1) : KindAt(s, k + j) = lead[j + 1]
  /\ ClosedFrom(s, open, k + Len(lead))
  /\ \A most : IsWhole(s, most) => CanGoOn(SubSeq(tokens, 1, k), most)

LEMMA ThereIsAWay ==
  ASSUME Parsing, NEW k \in 0..Len(tokens), NEW lead \in Middles, NEW open, OpenOnes(open), Len(open) <= Limit
  PROVE  \E s : WayOn(s, k, lead, open)
<1> DEFINE b == SubSeq(tokens, 1, k)
<1>1. IsSeq(tokens)
  BY ParsingFacts
<1>2. IsSeq(b) /\ Len(b) = k /\ Agrees(b, k)
  BY <1>1, BegunAgrees
<1>3. k \in Nat
  OBVIOUS
<1> HIDE DEF b
<1>4. PICK s : /\ IsSeq(s) /\ Len(s) = Len(b) + Len(lead) + Len(open)
               /\ \A i \in 1..Len(b) : s[i] = b[i]
               /\ \A j \in 0..(Len(lead) - 1) : KindAt(s, Len(b) + j) = lead[j + 1]
               /\ ClosedFrom(s, open, Len(b) + Len(lead))
               /\ \A most : IsWhole(s, most) => CanGoOn(b, most)
  BY <1>2, WithBrackets
<1>5. Len(b) <= Len(s)
  <2>1. Len(lead) \in Nat
    <3>1. \A x, y, z : Len(<<>>) \in Nat /\ Len(<<x>>) \in Nat /\ Len(<<x, y>>) \in Nat /\ Len(<<x, y, z>>) \in Nat
      OBVIOUS
    <3> QED
      BY <3>1 DEF Middles
  <2>2. Len(open) \in Nat
    BY DEF OpenOnes, IsSeq
  <2> QED
    BY <1>2, <1>3, <1>4, <2>1, <2>2
<1>6. Agrees(s, k)
  BY <1>2, <1>3, <1>4, <1>5, LongerAgrees
<1> QED
  BY <1>2, <1>4, <1>6 DEF WayOn, b

\* Where lead is then.
LEMMA WayOfNone ==
  ASSUME NEW s, NEW k \in Nat, NEW open, OpenOnes(open), WayOn(s, k, <<>>, open)
  PROVE  Len(s) = k + Len(open) /\ ClosedFrom(s, open, k)
<1>1. Len(<<>>) = 0 /\ k + 0 = k
  OBVIOUS
<1> QED
  BY <1>1 DEF WayOn

LEMMA WayOfOne ==
  ASSUME NEW s, NEW k \in Nat, NEW open, NEW x, WayOn(s, k, <<x>>, open)
  PROVE  Len(s) = k + 1 + Len(open) /\ ClosedFrom(s, open, k + 1) /\ KindAt(s, k) = x
<1>1. Len(<<x>>) = 1 /\ 0 \in 0..(1 - 1) /\ k + 0 = k /\ <<x>>[0 + 1] = x
  OBVIOUS
<1> QED
  BY <1>1 DEF WayOn

LEMMA WayOfTwo ==
  ASSUME NEW s, NEW k \in Nat, NEW open, NEW x, NEW y, WayOn(s, k, <<x, y>>, open)
  PROVE  /\ Len(s) = k + 2 + Len(open) /\ ClosedFrom(s, open, k + 2)
         /\ KindAt(s, k) = x /\ KindAt(s, k + 1) = y
<1>1. Len(<<x, y>>) = 2 /\ 0 \in 0..(2 - 1) /\ 1 \in 0..(2 - 1) /\ k + 0 = k
  OBVIOUS
<1>2. <<x, y>>[0 + 1] = x /\ <<x, y>>[1 + 1] = y
  OBVIOUS
<1> QED
  BY <1>1, <1>2 DEF WayOn

LEMMA WayOfThree ==
  ASSUME NEW s, NEW k \in Nat, NEW open, NEW x, NEW y, NEW z, WayOn(s, k, <<x, y, z>>, open)
  PROVE  /\ Len(s) = k + 3 + Len(open) /\ ClosedFrom(s, open, k + 3)
         /\ KindAt(s, k) = x /\ KindAt(s, k + 1) = y /\ KindAt(s, k + 2) = z
<1>1. Len(<<x, y, z>>) = 3 /\ 0 \in 0..(3 - 1) /\ 1 \in 0..(3 - 1) /\ 2 \in 0..(3 - 1) /\ k + 0 = k
  OBVIOUS
<1>2. <<x, y, z>>[0 + 1] = x /\ <<x, y, z>>[1 + 1] = y /\ <<x, y, z>>[2 + 1] = z
  OBVIOUS
<1> QED
  BY <1>1, <1>2 DEF WayOn

\* A value can come.
LEMMA ValueCanCome ==
  ASSUME Parsing, parser = "value"
  PROVE  CanGoOn(SubSeq(tokens, 1, cursor), Limit)
<1>1. /\ OpenOnes(stack) /\ Len(stack) \in Nat /\ Len(stack) \in 0..Limit /\ Limit \in Nat
      /\ cursor \in 0..Len(tokens) /\ cursor \in Nat
  BY ParsingFacts
<1>2. Len(stack) <= Limit /\ Limit >= Limit
  BY <1>1
<1>3. PICK s : WayOn(s, cursor, <<"null">>, stack)
  BY <1>1, <1>2, ThereIsAWay DEF Middles
<1>4. Len(s) = cursor + 1 + Len(stack) /\ ClosedFrom(s, stack, cursor + 1) /\ KindAt(s, cursor) = "null"
  BY <1>1, <1>3, WayOfOne
<1>5. Fits(s) /\ IsSeq(s)
  <2>1. \A kind : Closer(kind) # "null"
    BY DEF Closer
  <2> QED
    BY <1>3, <1>4, <2>1 DEF Fits, WayOn, Agrees
<1> DEFINE x == Found(cursor + 1, Value(s[cursor + 1].kind, s[cursor + 1].text, <<>>, <<>>))
<1>6. x.end = cursor + 1
  BY DEF Found
<1>7. x \in ValuesOf(s, Limit)[Limit - Len(stack)][cursor]
  <2>1. Limit - Len(stack) \in 0..Limit
    BY <1>1
  <2>2. cursor \in 0..Len(s)
    BY <1>1, <1>4
  <2> QED
    BY <1>1, <1>4, <2>1, <2>2, NullIs
<1> HIDE DEF x
<1>8. PICK p : p = cursor + 1
  OBVIOUS
<1>9. p \in Nat /\ x.end = p /\ ClosedFrom(s, stack, p) /\ Len(s) = p + Len(stack)
  BY <1>1, <1>4, <1>6, <1>8
<1>10. IsWhole(s, Limit)
  BY <1>1, <1>2, <1>5, <1>7, <1>9, ValueThen
<1> QED
  BY <1>3, <1>10 DEF WayOn

\* A key can come.
LEMMA KeyCanCome ==
  ASSUME Parsing, parser = "key"
  PROVE  CanGoOn(SubSeq(tokens, 1, cursor), Limit)
<1>1. /\ OpenOnes(stack) /\ Len(stack) \in Nat /\ Len(stack) \in 0..Limit /\ Limit \in Nat
      /\ cursor \in 0..Len(tokens) /\ cursor \in Nat
  BY ParsingFacts
<1>2. Len(stack) <= Limit
  BY <1>1
<1>3. PICK s : WayOn(s, cursor, <<"string", ":", "null">>, stack)
  BY <1>1, <1>2, ThereIsAWay DEF Middles
<1>4. /\ Len(s) = cursor + 3 + Len(stack) /\ ClosedFrom(s, stack, cursor + 3)
      /\ KindAt(s, cursor) = "string" /\ KindAt(s, cursor + 1) = ":" /\ KindAt(s, cursor + 2) = "null"
  BY <1>1, <1>3, WayOfThree
<1>5. Fits(s)
  <2>1. \A kind : Closer(kind) # "string"
    BY DEF Closer
  <2> QED
    BY <1>3, <1>4, <2>1 DEF Fits, WayOn
<1>6. NullAt(s, "object", cursor, cursor + 3)
  BY <1>4 DEF NullAt
<1>7. IsWhole(s, Limit)
  BY <1>4, <1>5, <1>6, KeyThen
<1> QED
  BY <1>3, <1>7 DEF WayOn

\* After a key, a colon can.
LEMMA ColonCanCome ==
  ASSUME Parsing, parser = "key", KindAt(tokens, cursor) = "string"
  PROVE  cursor + 1 \in cursor..Len(tokens) /\ CanGoOn(SubSeq(tokens, 1, cursor + 1), Limit)
<1>1. /\ OpenOnes(stack) /\ Len(stack) \in Nat /\ Len(stack) \in 0..Limit /\ Limit \in Nat
      /\ cursor \in 0..Len(tokens) /\ cursor \in Nat /\ Len(tokens) \in Nat /\ IsSeq(tokens)
  BY ParsingFacts
<1>2. Len(stack) <= Limit
  BY <1>1
<1>0. cursor < Len(tokens)
  BY <1>1, TokensNamed
<1> DEFINE k == cursor + 1
<1>3. k \in 0..Len(tokens) /\ k \in cursor..Len(tokens) /\ k \in Nat /\ k <= Len(tokens) /\ cursor < k /\ cursor <= k
  BY <1>0, <1>1
<1>4. /\ k + 2 = cursor + 3 /\ k + 1 = cursor + 2 /\ k = cursor + 1
  BY <1>1
<1> HIDE DEF k
<1>5. PICK s : WayOn(s, k, <<":", "null">>, stack)
  BY <1>1, <1>2, <1>3, ThereIsAWay DEF Middles
<1>6. /\ Len(s) = k + 2 + Len(stack) /\ ClosedFrom(s, stack, k + 2)
      /\ KindAt(s, k) = ":" /\ KindAt(s, k + 1) = "null"
  BY <1>3, <1>5, WayOfTwo
<1>7. Agrees(s, cursor) /\ KindAt(s, cursor) = "string"
  BY <1>1, <1>3, <1>5, AgreesLess, KindsAgree DEF WayOn
<1>8. Fits(s)
  <2>1. \A kind : Closer(kind) # "string"
    BY DEF Closer
  <2> QED
    BY <1>7, <2>1 DEF Fits
<1>9. NullAt(s, "object", cursor, cursor + 3)
  BY <1>4, <1>6, <1>7 DEF NullAt
<1>10. IsWhole(s, Limit)
  BY <1>4, <1>6, <1>8, <1>9, KeyThen
<1> QED
  BY <1>3, <1>5, <1>10 DEF WayOn, k

\* After a value its container can be closed.
LEMMA CloserCanCome ==
  ASSUME Parsing, parser = "next"
  PROVE  CanGoOn(SubSeq(tokens, 1, cursor), Limit)
<1>1. /\ OpenOnes(stack) /\ Len(stack) \in Nat /\ Len(stack) \in 0..Limit /\ Limit \in Nat
      /\ cursor \in 0..Len(tokens) /\ cursor \in Nat
  BY ParsingFacts
<1>2. Len(stack) <= Limit
  BY <1>1
<1>3. PICK s : WayOn(s, cursor, <<>>, stack)
  BY <1>1, <1>2, ThereIsAWay DEF Middles
<1>4. Len(s) = cursor + Len(stack) /\ ClosedFrom(s, stack, cursor)
  BY <1>1, <1>3, WayOfNone
<1>5. Fits(s)
  BY <1>3 DEF Fits, WayOn, Fresh
<1>6. IsWhole(s, Limit)
  BY <1>4, <1>5, NextThen
<1> QED
  BY <1>3, <1>6 DEF WayOn

\* An empty array or object is a value, unless nothing may be nested.
LEMMA EmptyOneThere ==
  ASSUME NEW s, IsSeq(s), NEW most \in Nat, NEW d \in 0..most, d # 0, NEW kind \in {"array", "object"},
         NEW b \in 0..Len(s), KindAt(s, b) = Opener(kind), KindAt(s, b + 1) = Closer(kind)
  PROVE  Found(b + 2, Empty(kind)) \in ValuesOf(s, most)[d][b]
<1> DEFINE x == Found(b + 2, Empty(kind))
           values == ValuesOf(s, most)[d - 1]
<1>1. d - 1 \in 0..most
  OBVIOUS
<1>2. EndLater(s, values)
  BY <1>1, ValuesEnd
<1>3. ValuesOf(s, most)[d][b] = ContainersAt(s, values, kind, b)
  <2>1. ValuesOf(s, most)[d][b] = IF d = 0 THEN {} ELSE ContainersAt(s, ValuesOf(s, most)[d - 1], kind, b)
    BY ContainerHere
  <2> QED
    BY <2>1
<1> HIDE DEF values
<1>4. x \in ContainersAt(s, values, kind, b) <=>
        \/ KindAt(s, b + 1) = Closer(kind) /\ x = Found(b + 2, Empty(kind))
        \/ Fills(s, values, Empty(kind), b + 1, x)
  <2> HIDE DEF x
  <2> QED
    BY <1>2, ContainersHave
<1> QED
  BY <1>3, <1>4

\* After the bracket that opens a container, the one that closes it could come
\* if the limit were one more.
LEMMA DeeperCanCome ==
  ASSUME Parsing, parser = "value", NEW kind \in {"array", "object"}, KindAt(tokens, cursor) = Opener(kind)
  PROVE  cursor < Len(tokens) /\ CanGoOn(SubSeq(tokens, 1, cursor + 1), Limit + 1)
<1>1. /\ OpenOnes(stack) /\ Len(stack) \in Nat /\ Len(stack) \in 0..Limit /\ Limit \in Nat
      /\ cursor \in 0..Len(tokens) /\ cursor \in Nat /\ Len(tokens) \in Nat /\ IsSeq(tokens) /\ Fits(tokens)
  BY ParsingFacts
<1>2. Len(stack) <= Limit
  BY <1>1
<1>3. cursor < Len(tokens)
  <2>1. Opener(kind) # "none"
    BY DEF Opener
  <2> QED
    BY <1>1, <2>1, TokensNamed
<1> DEFINE k == cursor + 1
           most == Limit + 1
           d == most - Len(stack)
           x == Found(cursor + 2, Empty(kind))
<1>4. k \in 0..Len(tokens) /\ k \in cursor..Len(tokens) /\ k \in Nat /\ k <= Len(tokens) /\ cursor < k /\ cursor <= k
  BY <1>1, <1>3
<1>5. k + 1 = cursor + 2 /\ k = cursor + 1 /\ k + 1 \in Nat
  BY <1>1
<1>6. most \in Nat /\ most >= Limit /\ d \in 0..most /\ d # 0 /\ d - 1 \in 0..most
  BY <1>1
<1>7. Closer(kind) \in Brackets /\ <<Closer(kind)>> \in Middles
  BY DEF Closer, Brackets, Middles
<1> HIDE DEF k
<1>8. PICK s : WayOn(s, k, <<Closer(kind)>>, stack)
  BY <1>1, <1>2, <1>4, <1>7, ThereIsAWay
<1>9. Len(s) = k + 1 + Len(stack) /\ ClosedFrom(s, stack, k + 1) /\ KindAt(s, k) = Closer(kind)
  BY <1>4, <1>8, WayOfOne
<1>10. Agrees(s, cursor) /\ KindAt(s, cursor) = Opener(kind) /\ IsSeq(s)
  <2>1. Agrees(s, k)
    BY <1>8 DEF WayOn
  <2>2. Agrees(s, cursor) /\ KindAt(s, cursor) = KindAt(tokens, cursor)
    BY <1>1, <1>4, <2>1, AgreesLess, KindsAgree
  <2> QED
    BY <2>2 DEF Agrees
<1>11. Fits(s)
  BY <1>1, <1>10 DEF Fits
<1>12. cursor \in 0..Len(s)
  BY <1>1, <1>5, <1>9
<1>13. x \in ValuesOf(s, most)[d][cursor]
  <2>1. KindAt(s, cursor + 1) = Closer(kind)
    BY <1>5, <1>9
  <2> HIDE DEF most, d
  <2> QED
    BY <1>6, <1>10, <1>12, <2>1, EmptyOneThere
<1>14. x.end = cursor + 2
  BY DEF Found
<1> HIDE DEF x
<1>15. PICK p : p = cursor + 2
  OBVIOUS
<1>16. p \in Nat /\ x.end = p /\ ClosedFrom(s, stack, p) /\ Len(s) = p + Len(stack)
  BY <1>1, <1>5, <1>9, <1>14, <1>15
<1>17. IsWhole(s, most)
  <2> HIDE DEF most
  <2> QED
    BY <1>1, <1>6, <1>11, <1>13, <1>16, ValueThen DEF d
<1>18. CanGoOn(SubSeq(tokens, 1, k), most)
  BY <1>8, <1>17 DEF WayOn
<1> QED
  BY <1>3, <1>18 DEF k

\* After a comma an item can come.
LEMMA ItemCanCome ==
  ASSUME Parsing, parser = "next", CommaAt(tokens, cursor)
  PROVE  cursor < Len(tokens) /\ CanGoOn(SubSeq(tokens, 1, cursor + 1), Limit)
<1>1. /\ OpenOnes(stack) /\ Len(stack) \in Nat /\ Len(stack) \in 0..Limit /\ Limit \in Nat
      /\ cursor \in 0..Len(tokens) /\ cursor \in Nat /\ Len(tokens) \in Nat /\ IsSeq(tokens)
  BY ParsingFacts
<1>2. Len(stack) <= Limit /\ stack # <<>>
  BY <1>1 DEF Parsing, Within
<1>3. cursor < Len(tokens)
  BY <1>1, TokensNamed DEF CommaAt
<1> DEFINE k == cursor + 1
<1>4. k \in 0..Len(tokens) /\ k \in Nat /\ k <= Len(tokens) /\ cursor < k /\ cursor <= k /\ k = cursor + 1
  BY <1>1, <1>3
<1> HIDE DEF k
<1>5. ASSUME NEW s, Agrees(s, k)
      PROVE  Fits(s) /\ CommaAt(s, cursor) /\ k \in 0..Len(s)
  <2>1. Agrees(s, cursor) /\ KindAt(s, cursor) = KindAt(tokens, cursor)
    BY <1>1, <1>4, <1>5, AgreesLess, KindsAgree
  <2>2. Len(s) \in Nat /\ k <= Len(s)
    BY <1>5 DEF Agrees, IsSeq
  <2>3. k \in 0..Len(s)
    BY <1>4, <2>2
  <2> QED
    BY <2>1, <2>3 DEF Fits, Fresh, CommaAt
<1>6. CASE Top.kind = "array"
  <2>1. PICK s : WayOn(s, k, <<"null">>, stack)
    BY <1>1, <1>2, <1>4, ThereIsAWay DEF Middles
  <2>2. Len(s) = k + 1 + Len(stack) /\ ClosedFrom(s, stack, k + 1) /\ KindAt(s, k) = "null"
    BY <1>4, <2>1, WayOfOne
  <2>3. NullAt(s, Top.kind, k, k + 1)
    BY <1>6, <2>2 DEF NullAt
  <2>4. Fits(s) /\ CommaAt(s, cursor) /\ k \in 0..Len(s)
    BY <1>5, <2>1 DEF WayOn
  <2>5. PICK q : q = k + 1
    OBVIOUS
  <2>6. q \in Nat
    BY <1>4, <2>5
  <2>7. IsWhole(s, Limit)
    BY <1>4, <2>2, <2>3, <2>4, <2>5, <2>6, CommaThen
  <2> QED
    BY <1>3, <1>4, <2>1, <2>7 DEF WayOn
<1>7. CASE Top.kind # "array"
  <2>1. PICK s : WayOn(s, k, <<"string", ":", "null">>, stack)
    BY <1>1, <1>2, <1>4, ThereIsAWay DEF Middles
  <2>2. /\ Len(s) = k + 3 + Len(stack) /\ ClosedFrom(s, stack, k + 3)
        /\ KindAt(s, k) = "string" /\ KindAt(s, k + 1) = ":" /\ KindAt(s, k + 2) = "null"
    <3>1. k \in Nat
      BY <1>4
    <3> QED
      BY <1>1, <2>1, <3>1, WayOfThree
  <2>3. NullAt(s, Top.kind, k, k + 3)
    BY <1>7, <2>2 DEF NullAt
  <2>4. Fits(s) /\ CommaAt(s, cursor) /\ k \in 0..Len(s)
    BY <1>5, <2>1 DEF WayOn
  <2>5. PICK q : q = k + 3
    OBVIOUS
  <2>6. q \in Nat
    BY <1>4, <2>5
  <2>7. IsWhole(s, Limit)
    <3>1. NullAt(s, Top.kind, k, q) /\ ClosedFrom(s, stack, q) /\ Len(s) = q + Len(stack)
      BY <2>2, <2>3, <2>5
    <3> QED
      BY <1>4, <2>4, <2>6, <3>1, CommaThen
  <2> QED
    BY <1>3, <1>4, <2>1, <2>7 DEF WayOn
<1> QED
  BY <1>6, <1>7

\* Without the comma a closing bracket could.
LEMMA CloserForComma ==
  ASSUME Parsing, parser = "next", cursor + 1 < Len(tokens), KindAt(tokens, cursor + 1) = Closer(Top.kind)
  PROVE  CanGoOn(Append(SubSeq(tokens, 1, cursor), tokens[cursor + 2]), Limit)
<1> DEFINE a == SubSeq(tokens, 1, cursor)
           t == tokens[cursor + 2]
           b == Append(a, t)
<1>1. /\ OpenOnes(stack) /\ Len(stack) \in 0..Limit /\ Limit \in Nat /\ stack # <<>>
      /\ cursor \in 0..Len(tokens) /\ cursor \in Nat /\ Len(tokens) \in Nat /\ IsSeq(tokens)
  <2>1. stack # <<>>
    BY DEF Parsing, Within
  <2> QED
    BY <2>1, ParsingFacts
<1>2. /\ OpenOnes(Tail(stack)) /\ Len(Tail(stack)) = Len(stack) - 1 /\ Len(stack) \in Nat \ {0}
      /\ Len(Tail(stack)) <= Limit /\ Len(Tail(stack)) \in Nat
  <2>1. OpenOnes(Tail(stack)) /\ Len(Tail(stack)) = Len(stack) - 1 /\ Len(stack) \in Nat \ {0}
    BY <1>1, OpenHead
  <2> QED
    BY <1>1, <2>1
<1>3. t.kind = Closer(Head(stack).kind)
  <2>1. cursor + 1 + 1 = cursor + 2
    BY <1>1
  <2> QED
    BY <2>1 DEF KindAt, Top
<1>4. IsSeq(a) /\ Len(a) = cursor /\ \A i \in 1..cursor : a[i] = tokens[i]
  BY <1>1, BegunAgrees
<1> HIDE DEF a, t
<1>5. IsSeq(b) /\ Len(b) = cursor + 1 /\ b[cursor + 1] = t /\ \A i \in 1..cursor : b[i] = tokens[i]
  <2>1. PICK S : a \in Seq(S)
    BY <1>4 DEF IsSeq
  <2> DEFINE R == S \cup {t}
  <2>2. a \in Seq(R) /\ t \in R
    BY <2>1
  <2> HIDE DEF R
  <2>3. b \in Seq(R) /\ Len(b) = Len(a) + 1 /\ b[Len(a) + 1] = t /\ \A i \in 1..Len(a) : b[i] = a[i]
    BY <2>2
  <2> QED
    BY <1>4, <2>3 DEF IsSeq
<1> HIDE DEF b
<1>6. <<>> \in Middles
  BY DEF Middles
<1>7. PICK s : /\ IsSeq(s) /\ Len(s) = Len(b) + Len(<<>>) + Len(Tail(stack))
               /\ \A i \in 1..Len(b) : s[i] = b[i]
               /\ ClosedFrom(s, Tail(stack), Len(b) + Len(<<>>))
               /\ \A most : IsWhole(s, most) => CanGoOn(b, most)
  BY <1>2, <1>5, <1>6, WithBrackets
<1>8. Len(s) = cursor + Len(stack) /\ cursor + 1 <= Len(s) /\ cursor < Len(s) /\ cursor <= Len(s)
  <2>1. Len(<<>>) = 0
    OBVIOUS
  <2> QED
    BY <1>1, <1>2, <1>5, <1>7, <2>1
<1>9. \A i \in 1..(cursor + 1) : s[i] = b[i]
  BY <1>5, <1>7
<1>10. Fits(s)
  <2>1. \A i \in 1..cursor : i \in 1..(cursor + 1)
    BY <1>1
  <2>2. Agrees(s, cursor)
    BY <1>5, <1>7, <1>8, <1>9, <2>1 DEF Agrees
  <2> QED
    BY <2>2 DEF Fits, Fresh
<1>11. KindAt(s, cursor) = Closer(Head(stack).kind)
  <2>1. cursor + 1 \in 1..(cursor + 1)
    BY <1>1
  <2> QED
    BY <1>3, <1>5, <1>8, <1>9, <2>1 DEF KindAt
<1>12. ClosedFrom(s, stack, cursor)
  <2>1. PICK S : stack \in Seq(S)
    BY <1>1 DEF OpenOnes, IsSeq
  <2>2. /\ Head(stack) = stack[1]
        /\ \A i \in 1..Len(stack) : i = 1 \/ (i - 1 \in 1..Len(Tail(stack)) /\ Tail(stack)[i - 1] = stack[i])
    BY <1>1, <1>2, <2>1
  <2>3. ClosedFrom(s, Tail(stack), cursor + 1)
    <3>1. Len(b) + Len(<<>>) = cursor + 1
      BY <1>1, <1>5
    <3> QED
      BY <1>7, <3>1
  <2> SUFFICES ASSUME NEW i \in 1..Len(stack)
               PROVE  KindAt(s, cursor + i - 1) = Closer(stack[i].kind)
    BY DEF ClosedFrom
  <2>4. CASE i = 1
    <3>1. cursor + i - 1 = cursor
      BY <1>1, <2>4
    <3> QED
      BY <1>11, <2>2, <2>4, <3>1
  <2>5. CASE i # 1
    <3>1. PICK j : j = i - 1
      OBVIOUS
    <3>2. j \in 1..Len(Tail(stack)) /\ Tail(stack)[j] = stack[i] /\ cursor + 1 + j - 1 = cursor + i - 1
      BY <1>1, <1>2, <2>2, <2>5, <3>1
    <3>3. KindAt(s, cursor + 1 + j - 1) = Closer(Tail(stack)[j].kind)
      BY <2>3, <3>2 DEF ClosedFrom
    <3> QED
      BY <3>2, <3>3
  <2> QED
    BY <2>4, <2>5
<1>13. IsWhole(s, Limit)
  BY <1>8, <1>10, <1>12, NextThen
<1> QED
  BY <1>7, <1>13 DEF b, a, t

-----------------------------------------------------------------------------
(* The steps of the parser *)

\* What agrees with the tokens that a step consumes.
LEMMA Consumed1 ==
  ASSUME Parsing, KindAt(tokens, cursor) # "none"
  PROVE  /\ cursor \in Nat /\ cursor + 1 \in cursor..Len(tokens) /\ cursor + 1 \in 0..Len(tokens) /\ cursor + 1 # cursor
         /\ cursor + 1 - 1 = cursor
         /\ \A s : Agrees(s, cursor + 1) =>
              /\ IsSeq(s) /\ cursor \in 0..Len(s) /\ cursor + 1 \in 0..Len(s)
              /\ KindAt(s, cursor) = KindAt(tokens, cursor) /\ s[cursor + 1] = tokens[cursor + 1]
<1>1. cursor \in Nat /\ Len(tokens) \in Nat /\ IsSeq(tokens)
  BY ParsingFacts
<1>2. cursor < Len(tokens)
  BY <1>1, TokensNamed
<1> DEFINE k == cursor + 1
<1>3. /\ k \in cursor..Len(tokens) /\ k \in 0..Len(tokens) /\ k # cursor /\ k - 1 = cursor
      /\ k \in Nat /\ k <= Len(tokens) /\ cursor < k
  BY <1>1, <1>2
<1>4. ASSUME NEW s, Agrees(s, k)
      PROVE  /\ IsSeq(s) /\ cursor \in 0..Len(s) /\ k \in 0..Len(s)
             /\ KindAt(s, cursor) = KindAt(tokens, cursor) /\ s[cursor + 1] = tokens[cursor + 1]
  <2> HIDE DEF k
  <2>1. IsSeq(s) /\ Len(s) \in Nat /\ k <= Len(s)
    BY <1>4 DEF Agrees, IsSeq
  <2>2. cursor \in 0..Len(s) /\ k \in 0..Len(s)
    BY <1>1, <1>3, <2>1
  <2>3. KindAt(s, cursor) = KindAt(tokens, cursor) /\ s[cursor + 1] = tokens[cursor + 1]
    BY <1>1, <1>3, <1>4, KindsAgree
  <2> QED
    BY <2>1, <2>2, <2>3
<1> HIDE DEF k
<1> QED
  BY <1>1, <1>3, <1>4 DEF k

LEMMA Consumed2 ==
  ASSUME Parsing, KindAt(tokens, cursor) # "none", KindAt(tokens, cursor + 1) # "none"
  PROVE  /\ cursor \in Nat /\ cursor + 2 \in cursor..Len(tokens) /\ cursor + 2 # cursor /\ cursor + 2 - 1 = cursor + 1
         /\ \A s : Agrees(s, cursor + 2) => Agrees(s, cursor + 1) /\ KindAt(s, cursor + 1) = KindAt(tokens, cursor + 1)
<1>1. cursor \in Nat /\ Len(tokens) \in Nat /\ IsSeq(tokens)
  BY ParsingFacts
<1> DEFINE j == cursor + 1
           k == cursor + 2
<1>2. j \in Nat
  BY <1>1
<1>3. j < Len(tokens)
  <2> HIDE DEF j
  <2>1. KindAt(tokens, j) # "none"
    BY DEF j
  <2> QED
    BY <1>2, <2>1, TokensNamed
<1>4. k \in cursor..Len(tokens) /\ k # cursor /\ k - 1 = j /\ k \in Nat /\ k <= Len(tokens) /\ j < k /\ j <= k
  BY <1>1, <1>3
<1> HIDE DEF j, k
<1>5. \A s : Agrees(s, k) => Agrees(s, j) /\ KindAt(s, j) = KindAt(tokens, j)
  BY <1>1, <1>2, <1>4, AgreesLess, KindsAgree
<1> QED
  BY <1>1, <1>4, <1>5 DEF j, k

\* The token before is no comma.
LEMMA NoCommaBehind ==
  ASSUME tokens' = tokens, NEW k \in Nat, cursor' = k + 1, ~CommaAt(tokens, k)
  PROVE  BehindComma'
<1>1. ~CommaAt(tokens', cursor' - 1)
  OBVIOUS
<1> QED
  BY <1>1 DEF CommaAt, BehindComma

LEMMA ParseScalarLeads ==
  ASSUME Within, ParseScalar
  PROVE  Completes'
<1> DEFINE v == Value(tokens[cursor + 1].kind, tokens[cursor + 1].text, <<>>, <<>>)
<1>1. lexer = "done" /\ parser = "value" /\ KindAt(tokens, cursor) \in Scalars /\ Return(v, cursor + 1, stack)
  BY PeekKind DEF ParseScalar, At
<1>2. Parsing
  BY <1>1 DEF Parsing
<1>3. KindAt(tokens, cursor) # "none" /\ ~CommaAt(tokens, cursor)
  BY <1>1 DEF Scalars, CommaAt
<1>4. /\ cursor + 1 \in cursor..Len(tokens) /\ cursor + 1 # cursor /\ cursor \in Nat
      /\ \A s : Agrees(s, cursor + 1) =>
           /\ IsSeq(s) /\ cursor \in 0..Len(s)
           /\ KindAt(s, cursor) = KindAt(tokens, cursor) /\ s[cursor + 1] = tokens[cursor + 1]
  BY <1>2, <1>3, Consumed1
<1>5. OpenOnes(stack) /\ Limit \in Nat
  BY <1>2, ParsingFacts
<1>6. cursor' = cursor + 1 /\ UNCHANGED lexVars /\ tokens' = tokens
  BY <1>1 DEF Return, lexVars
<1>7. OpenOnes(stack') /\ parser' \in {"next", "end"}
  BY <1>1, <1>5, ReturnLeads
<1>8. ASSUME NEW s, NEW most \in Nat, most >= Limit, Agrees(s, cursor + 1), NEW y
      PROVE  Leads(parser', s, most, stack', cursor', result', y) <=> Ahead(s, most, y)
  <2>1. /\ IsSeq(s) /\ cursor \in 0..Len(s)
        /\ KindAt(s, cursor) \in Scalars /\ s[cursor + 1] = tokens[cursor + 1]
    BY <1>1, <1>4, <1>8
  <2>2. most - Len(stack) \in 0..most
    BY <1>2, <1>8, <2>1, LevelThere
  <2>3. ValuesOf(s, most)[most - Len(stack)][cursor] = {Found(cursor + 1, v)}
    <3>1. PICK d : d = most - Len(stack)
      OBVIOUS
    <3>2. ValuesOf(s, most)[d][cursor] = {Found(cursor + 1, Value(s[cursor + 1].kind, s[cursor + 1].text, <<>>, <<>>))}
      BY <2>1, <2>2, <3>1, ValuesByKind
    <3> QED
      BY <2>1, <3>1, <3>2
  <2> HIDE DEF v
  <2>4. Ahead(s, most, y) <=> Up(s, most, stack, Found(cursor + 1, v), y)
    BY <1>1, <2>3 DEF Ahead, Leads
  <2>5. Leads(parser', s, most, stack', cursor', result', y) <=> Up(s, most, stack, Found(cursor + 1, v), y)
    BY <1>1, <1>5, ReturnLeads
  <2> QED
    BY <2>4, <2>5
<1> HIDE DEF v
<1>9. ~Fresh'
  BY <1>7 DEF Fresh
<1>10. BehindComma'
  BY <1>3, <1>4, <1>6, NoCommaBehind
<1>11. parser' # "failed" /\ parser' # "key" /\ parser' # "done"
  BY <1>7
<1> QED
  BY <1>2, <1>4, <1>6, <1>7, <1>8, <1>9, <1>10, <1>11, GoesOn

LEMMA NoValueLeads ==
  ASSUME Within, NoValueHere
  PROVE  Completes'
<1>1. lexer = "done" /\ parser = "value" /\ KindAt(tokens, cursor) \notin Scalars \cup {"[", "{"} /\ RejectToken(cursor)
  BY PeekKind DEF NoValueHere, At
<1>2. Parsing
  BY <1>1 DEF Parsing
<1>3. cursor \in cursor..Len(tokens) /\ cursor \in Nat
  <2>1. cursor \in 0..Len(tokens) /\ Len(tokens) \in Nat /\ cursor \in Nat
    BY <1>2, ParsingFacts
  <2> QED
    BY <2>1
<1>4. "none" \notin Scalars \cup {"[", "{"}
  BY DEF Scalars
<1>5. ASSUME NEW most \in Nat, most >= Limit, NEW s, Like(s, cursor), NEW y
      PROVE  ~Ahead(s, most, y)
  <2>1. IsSeq(s) /\ cursor <= Len(s)
    BY <1>5 DEF Like, Agrees
  <2>2. cursor \in 0..Len(s)
    BY <1>3, <2>1 DEF IsSeq
  <2>3. KindAt(s, cursor) \notin Scalars \cup {"[", "{"}
    BY <1>1, <1>4, <1>5 DEF Like
  <2>4. most - Len(stack) \in 0..most
    BY <1>2, <1>5, <2>1, LevelThere
  <2>5. ValuesOf(s, most)[most - Len(stack)][cursor] = {}
    BY <2>2, <2>3, <2>4, ValuesByKind
  <2> QED
    BY <1>1, <2>5 DEF Ahead, Leads
<1>6. \A most \in Nat : most >= Limit => NoValueLike(cursor, most)
  BY <1>5 DEF NoValueLike
<1> QED
  BY <1>1, <1>2, <1>3, <1>6, ValueCanCome, RefusesToken

\* A container is refused at the limit.
LEMMA TooDeepLeads ==
  ASSUME Within, NEW kind \in {"array", "object"}, OpenContainer(kind), depth >= Limit
  PROVE  Completes'
<1>1. lexer = "done" /\ parser = "value" /\ KindAt(tokens, cursor) = Opener(kind)
  BY PeekKind DEF OpenContainer, At, Opener
<1>2. Reject("NestingLimitExceeded", PeekPos(cursor))
  BY DEF OpenContainer
<1>3. Parsing
  BY <1>1 DEF Parsing
<1>4. /\ cursor \in 0..Len(tokens) /\ cursor \in Nat /\ Len(tokens) \in Nat /\ cursor \in cursor..Len(tokens)
      /\ Limit \in Nat /\ Limit >= Limit /\ Limit - Len(stack) = 0
  <2>1. /\ cursor \in 0..Len(tokens) /\ cursor \in Nat /\ Len(tokens) \in Nat
        /\ Limit \in Nat /\ Len(stack) \in 0..Limit /\ depth = Len(stack)
    BY <1>3, ParsingFacts
  <2> QED
    BY <2>1
<1>5. ASSUME NEW s, Like(s, cursor), NEW y
      PROVE  ~Ahead(s, Limit, y)
  <2>1. IsSeq(s) /\ cursor <= Len(s)
    BY <1>5 DEF Like, Agrees
  <2>2. cursor \in 0..Len(s)
    BY <1>4, <2>1 DEF IsSeq
  <2>3. 0 \in 0..Limit
    BY <1>4
  <2>4. ValuesOf(s, Limit)[0][cursor] = {}
    <3>1. CASE KindAt(s, cursor) = Opener(kind)
      BY <1>4, <2>2, <2>3, <3>1, ContainerHere
    <3>2. CASE KindAt(s, cursor) = "none"
      <4>1. KindAt(s, cursor) \notin Scalars \cup {"[", "{"}
        BY <3>2 DEF Scalars
      <4> QED
        BY <1>4, <2>2, <2>3, <4>1, ValuesByKind
    <3> QED
      BY <1>1, <1>5, <3>1, <3>2 DEF Like
  <2> QED
    BY <1>1, <1>4, <2>4 DEF Ahead, Leads
<1>6. NoValueLike(cursor, Limit)
  BY <1>5 DEF NoValueLike
<1>7. /\ ~IsWhole(SubSeq(tokens, 1, cursor), Limit)
      /\ cursor < Len(tokens) => ~CanGoOn(SubSeq(tokens, 1, cursor + 1), Limit)
  BY <1>3, <1>4, <1>6, NoWay
<1>8. cursor < Len(tokens) /\ CanGoOn(SubSeq(tokens, 1, cursor + 1), Limit + 1)
  BY <1>1, <1>3, DeeperCanCome
<1>9. CanGoOn(SubSeq(tokens, 1, cursor), Limit)
  BY <1>1, <1>3, ValueCanCome
<1>10. ErrorBehind(cursor) = [kind |-> "NestingLimitExceeded", pos |-> PeekPos(cursor)]
  <2>1. cursor # Len(tokens)
    BY <1>4, <1>8
  <2> QED
    BY <1>7, <1>8, <2>1 DEF ErrorBehind, PeekPos
<1>11. RefusedAs(cursor, [kind |-> "NestingLimitExceeded", pos |-> PeekPos(cursor)])
  BY <1>7, <1>9, <1>10 DEF RefusedAs
<1>12. \A y : ~Ahead(tokens, Limit, y)
  <2>1. Like(tokens, cursor)
    BY <1>3, <1>4, BegunLike
  <2> QED
    BY <1>5, <2>1
<1> QED
  BY <1>2, <1>3, <1>4, <1>11, <1>12, Refuses

\* What has just been opened.
LEMMA EmptyIs ==
  ASSUME NEW kind
  PROVE  Empty(kind).keys = <<>> /\ Empty(kind).kids = <<>> /\ Empty(kind).kind = kind
BY DEF Empty, Value

LEMMA OpenContainerLeads ==
  ASSUME Within, NEW kind \in {"array", "object"}, OpenContainer(kind)
  PROVE  Completes'
<1> DEFINE c == Empty(kind)
<1>1. lexer = "done" /\ parser = "value" /\ KindAt(tokens, cursor) = Opener(kind)
  BY PeekKind DEF OpenContainer, At, Opener
<1>2. Parsing
  BY <1>1 DEF Parsing
<1>3. /\ cursor \in 0..Len(tokens) /\ cursor \in Nat /\ OpenOnes(stack) /\ IsSeq(tokens)
      /\ Len(stack) \in 0..Limit /\ Len(stack) \in Nat /\ depth = Len(stack) /\ Limit \in Nat
  BY <1>2, ParsingFacts
<1>4. KindAt(tokens, cursor) # "none" /\ ~CommaAt(tokens, cursor)
  BY <1>1 DEF Opener, CommaAt
<1>5. /\ cursor + 1 \in cursor..Len(tokens) /\ cursor + 1 # cursor
      /\ \A s : Agrees(s, cursor + 1) =>
           IsSeq(s) /\ cursor \in 0..Len(s) /\ KindAt(s, cursor) = Opener(kind)
  BY <1>1, <1>2, <1>4, Consumed1
<1>6. CASE depth >= Limit
  BY <1>6, TooDeepLeads
<1>7. CASE ~(depth >= Limit)
  <2>1. ASSUME NEW s, NEW most \in Nat, most >= Limit, Agrees(s, cursor + 1)
        PROVE  LET W == ValuesOf(s, most)[most - (Len(stack) + 1)]
               IN /\ EndLater(s, W) /\ IsSeq(s) /\ IsOpen(c) /\ c.kind = kind /\ cursor + 1 \in 0..Len(s)
                  /\ most - (Len(stack) + 1) \in 0..most
                  /\ \A y : Ahead(s, most, y) <=>
                       \E z : /\ \/ KindAt(s, cursor + 1) = Closer(kind) /\ z = Found(cursor + 2, c)
                                 \/ Fills(s, W, c, cursor + 1, z)
                              /\ Up(s, most, stack, z, y)
    <3>1. IsSeq(s) /\ cursor \in 0..Len(s) /\ KindAt(s, cursor) = Opener(kind)
      BY <1>5, <2>1
    <3>2. PICK d : d = most - Len(stack)
      OBVIOUS
    <3>3. d \in 0..most /\ d # 0 /\ d - 1 \in 0..most /\ d - 1 = most - (Len(stack) + 1)
      BY <1>3, <1>7, <2>1, <3>2
    <3> DEFINE W == ValuesOf(s, most)[d - 1]
    <3>4. EndLater(s, W)
      BY <3>1, <3>3, ValuesEnd
    <3>5. ValuesOf(s, most)[d][cursor] = ContainersAt(s, W, kind, cursor)
      <4>1. ValuesOf(s, most)[d][cursor] = IF d = 0 THEN {} ELSE ContainersAt(s, ValuesOf(s, most)[d - 1], kind, cursor)
        BY <3>1, <3>3, ContainerHere
      <4> QED
        BY <3>3, <4>1
    <3> HIDE DEF W, c
    <3>6. /\ IsOpen(c) /\ c.kind = kind /\ cursor + 1 \in 0..Len(s)
          /\ \A z : z \in ContainersAt(s, W, kind, cursor) <=>
                      \/ KindAt(s, cursor + 1) = Closer(kind) /\ z = Found(cursor + 2, c)
                      \/ Fills(s, W, c, cursor + 1, z)
      BY <3>1, <3>4, ContainersHave DEF c
    <3>7. \A y : Ahead(s, most, y) <=> \E z \in ValuesOf(s, most)[d][cursor] : Up(s, most, stack, z, y)
      BY <1>1, <3>2 DEF Ahead, Leads
    <3>8. W = ValuesOf(s, most)[most - (Len(stack) + 1)] /\ most - (Len(stack) + 1) \in 0..most
      BY <3>3 DEF W
    <3> QED
      BY <3>1, <3>4, <3>5, <3>6, <3>7, <3>8
  <2>2. IsOpen(c) /\ c.kind = kind /\ c.keys = <<>> /\ c.kids = <<>>
    <3>1. Limit >= Limit
      BY <1>3
    <3>2. Agrees(tokens, cursor + 1)
      <4>1. cursor + 1 <= Len(tokens)
        BY <1>3, <1>5
      <4> QED
        BY <1>3, <4>1 DEF Agrees
    <3> QED
      BY <1>3, <2>1, <3>1, <3>2, EmptyIs
  <2> HIDE DEF c
  <2>3. CASE KindAt(tokens, cursor + 1) = Closer(kind)
    <3>1. Return(c, cursor + 2, stack)
      BY <1>7, <2>3, PeekKind DEF OpenContainer, c
    <3>2. KindAt(tokens, cursor + 1) # "none" /\ ~CommaAt(tokens, cursor + 1)
      BY <2>3 DEF Closer, CommaAt
    <3>3. /\ cursor + 2 \in cursor..Len(tokens) /\ cursor + 2 # cursor
          /\ \A s : Agrees(s, cursor + 2) => Agrees(s, cursor + 1) /\ KindAt(s, cursor + 1) = Closer(kind)
      BY <1>2, <1>4, <2>3, <3>2, Consumed2
    <3>4. cursor' = cursor + 2 /\ UNCHANGED lexVars /\ tokens' = tokens
      BY <3>1 DEF Return, lexVars
    <3>5. OpenOnes(stack') /\ parser' \in {"next", "end"}
      BY <1>3, <3>1, ReturnLeads
    <3>6. ASSUME NEW s, NEW most \in Nat, most >= Limit, Agrees(s, cursor + 2), NEW y
          PROVE  Leads(parser', s, most, stack', cursor', result', y) <=> Ahead(s, most, y)
      <4>1. Agrees(s, cursor + 1) /\ KindAt(s, cursor + 1) = Closer(kind)
        BY <3>3, <3>6
      <4> DEFINE e == most - (Len(stack) + 1)
                 W == ValuesOf(s, most)[e]
      <4>2. /\ IsSeq(s) /\ cursor + 1 \in 0..Len(s) /\ e \in 0..most
            /\ Ahead(s, most, y) <=>
                 \E z : /\ \/ KindAt(s, cursor + 1) = Closer(kind) /\ z = Found(cursor + 2, c)
                           \/ Fills(s, W, c, cursor + 1, z)
                        /\ Up(s, most, stack, z, y)
        BY <2>1, <3>6, <4>1
      <4>3. \A z : ~Fills(s, W, c, cursor + 1, z)
        <5> HIDE DEF e
        <5> QED
          BY <2>2, <4>1, <4>2, NoItem
      <4>4. Leads(parser', s, most, stack', cursor', result', y) <=> Up(s, most, stack, Found(cursor + 2, c), y)
        BY <1>3, <3>1, ReturnLeads
      <4> HIDE DEF W
      <4> QED
        BY <4>1, <4>2, <4>3, <4>4
    <3>7. ~Fresh' /\ parser' # "failed" /\ parser' # "key" /\ parser' # "done"
      BY <3>5 DEF Fresh
    <3>8. BehindComma'
      <4>1. PICK k : k = cursor + 1
        OBVIOUS
      <4>2. k \in Nat /\ cursor' = k + 1 /\ ~CommaAt(tokens, k)
        BY <1>3, <3>2, <3>4, <4>1
      <4> QED
        BY <3>4, <4>2, NoCommaBehind
    <3> QED
      BY <1>2, <3>3, <3>4, <3>5, <3>6, <3>7, <3>8, GoesOn
  <2>4. CASE KindAt(tokens, cursor + 1) # Closer(kind)
    <3> DEFINE new == <<c>> \o stack
    <3>1. /\ cursor' = cursor + 1 /\ stack' = new /\ parser' = (IF kind = "array" THEN "value" ELSE "key")
          /\ UNCHANGED lexVars /\ tokens' = tokens
      BY <1>7, <2>4, PeekKind DEF OpenContainer, c, lexVars
    <3>2. OpenOnes(new) /\ new # <<>> /\ Head(new) = c /\ Tail(new) = stack /\ Len(new) = Len(stack) + 1
      BY <1>3, <2>2, OpenPushed
    <3> HIDE DEF new
    <3>3. Fresh' /\ Head(stack').kind = kind
      BY <2>2, <3>1, <3>2 DEF Fresh
    <3>4. ASSUME NEW s, NEW most \in Nat, most >= Limit, Agrees(s, cursor + 1), KindAt(s, cursor + 1) # Closer(kind), NEW y
          PROVE  Leads(parser', s, most, stack', cursor', result', y) <=> Ahead(s, most, y)
      <4> DEFINE e == most - (Len(stack) + 1)
                 W == ValuesOf(s, most)[e]
      <4>1. /\ IsSeq(s) /\ EndLater(s, W) /\ cursor + 1 \in 0..Len(s)
            /\ Ahead(s, most, y) <=> \E z : Fills(s, W, c, cursor + 1, z) /\ Up(s, most, stack, z, y)
        BY <2>1, <3>4
      <4>2. ValuesOf(s, most)[most - Len(new)] = W
        BY <3>2
      <4> HIDE DEF e, W
      <4>3. CASE kind = "object"
        <5>1. Leads("key", s, most, new, cursor + 1, result', y) <=>
                \E z : Fills(s, W, c, cursor + 1, z) /\ Up(s, most, stack, z, y)
          BY <3>2, <4>2 DEF Leads
        <5>2. parser' = "key"
          BY <3>1, <4>3
        <5> QED
          BY <3>1, <4>1, <5>1, <5>2
      <4>4. CASE kind = "array"
        <5>1. \A z : Fills(s, W, c, cursor + 1, z) <=>
                \E x \in W[cursor + 1] : Closes(s, W, WithKid(c, x.value), x.end, z)
          BY <2>2, <4>1, <4>4, FillsArray
        <5>2. Leads("value", s, most, new, cursor + 1, result', y) <=>
                \E x \in W[cursor + 1] : \E z :
                  Closes(s, W, WithKid(c, x.value), x.end, z) /\ Up(s, most, stack, z, y)
          <6>1. Leads("value", s, most, new, cursor + 1, result', y) <=>
                  \E x \in ValuesOf(s, most)[most - Len(new)][cursor + 1] : \E z :
                    /\ Closes(s, ValuesOf(s, most)[most - Len(new)], WithKid(Head(new), x.value), x.end, z)
                    /\ Up(s, most, Tail(new), z, y)
            BY <3>2, ValueWithin
          <6> QED
            BY <3>2, <4>2, <6>1
        <5>3. parser' = "value"
          BY <3>1, <4>4
        <5>4. Leads("value", s, most, new, cursor + 1, result', y) <=> Ahead(s, most, y)
          BY <4>1, <5>1, <5>2
        <5> QED
          BY <3>1, <5>3, <5>4
      <4> QED
        BY <4>3, <4>4
    <3>5. BehindComma'
      BY <1>3, <1>4, <3>1, NoCommaBehind
    <3>6. parser' # "failed" /\ parser' # "done" /\ (parser' = "key" => Head(stack').kind = "object")
      BY <3>1, <3>3
    <3>7. OpenOnes(stack')
      BY <3>1, <3>2
    <3>8. \A s : \A most \in Nat :
            most >= Limit /\ Agrees(s, cursor') /\ (Fresh' => KindAt(s, cursor') # Closer(Head(stack').kind)) =>
              \A y : Leads(parser', s, most, stack', cursor', result', y) <=> Ahead(s, most, y)
      BY <3>1, <3>3, <3>4
    <3>9. Fresh' => KindAt(tokens, cursor') # Closer(Head(stack').kind)
      BY <2>4, <3>1, <3>3
    <3> QED
      BY <1>2, <1>5, <3>1, <3>5, <3>6, <3>7, <3>8, <3>9, GoesOn
  <2> QED
    BY <2>3, <2>4
<1> QED
  BY <1>6, <1>7

\* What holds of the innermost container while one is open.
LEMMA TopThere ==
  ASSUME Parsing, stack # <<>>
  PROVE  /\ IsOpen(Top) /\ OpenOnes(stack) /\ OpenOnes(Tail(stack)) /\ Len(Tail(stack)) = Len(stack) - 1
         /\ Len(stack) \in Nat \ {0} /\ Top = Head(stack)
         /\ cursor \in 0..Len(tokens) /\ cursor \in Nat /\ Len(tokens) \in Nat
         /\ cursor \in cursor..Len(tokens) /\ Limit \in Nat /\ Limit >= Limit /\ IsSeq(tokens)
<1>1. /\ OpenOnes(stack) /\ IsSeq(tokens) /\ cursor \in 0..Len(tokens) /\ cursor \in Nat
      /\ Len(tokens) \in Nat /\ Limit \in Nat
  BY ParsingFacts
<1>2. cursor \in cursor..Len(tokens) /\ Limit >= Limit
  BY <1>1
<1> QED
  BY <1>1, <1>2, OpenHead DEF Top

\* A key leads to what follows it, if that is a colon.
LEMMA KeyLeads ==
  ASSUME Parsing, parser = "key", NEW s, IsSeq(s), cursor \in 0..Len(s), NEW most \in Nat, most >= Limit, NEW y
  PROVE  LET W == ValuesOf(s, most)[most - Len(stack)]
             c == WithKey(Top, s[cursor + 1].text)
         IN Ahead(s, most, y) <=>
              /\ KindAt(s, cursor) = "string" /\ KindAt(s, cursor + 1) = ":"
              /\ \E z : /\ \E v \in W[cursor + 2] : Closes(s, W, WithKid(c, v.value), v.end, z)
                        /\ Up(s, most, Tail(stack), z, y)
<1> DEFINE W == ValuesOf(s, most)[most - Len(stack)]
<1>1. stack # <<>> /\ Top.kind = "object"
  BY DEF Parsing, Within, Completes, Top
<1>2. IsOpen(Top) /\ Top = Head(stack)
  BY <1>1, TopThere
<1>3. EndLater(s, W)
  BY LevelThere
<1>4. Ahead(s, most, y) <=> \E z : Fills(s, W, Top, cursor, z) /\ Up(s, most, Tail(stack), z, y)
  BY <1>2 DEF Ahead, Leads
<1> HIDE DEF W
<1>5. \A z : Fills(s, W, Top, cursor, z) <=>
               /\ KindAt(s, cursor) = "string" /\ KindAt(s, cursor + 1) = ":"
               /\ \E v \in W[cursor + 2] :
                    Closes(s, W, WithKid(WithKey(Top, s[cursor + 1].text), v.value), v.end, z)
  BY <1>1, <1>2, <1>3, FillsObject
<1> QED
  BY <1>4, <1>5 DEF W

LEMMA ParseKeyLeads ==
  ASSUME Within, ParseKey
  PROVE  Completes'
<1>1. lexer = "done" /\ parser = "key"
  BY DEF ParseKey, At
<1>2. Parsing /\ stack # <<>> /\ Top.kind = "object"
  BY <1>1 DEF Parsing, Within, Completes, Top
<1>3. /\ IsOpen(Top) /\ OpenOnes(Tail(stack)) /\ Len(Tail(stack)) = Len(stack) - 1 /\ Len(stack) \in Nat \ {0}
      /\ cursor \in 0..Len(tokens) /\ IsSeq(tokens) /\ cursor \in Nat /\ Len(tokens) \in Nat
      /\ cursor \in cursor..Len(tokens)
  BY <1>2, TopThere
<1>4. CASE KindAt(tokens, cursor) # "string"
  <2>1. RejectToken(cursor)
    BY <1>4, PeekKind DEF ParseKey
  <2>2. ASSUME NEW most \in Nat, most >= Limit, NEW s, Like(s, cursor), NEW y
        PROVE  ~Ahead(s, most, y)
    <3>1. IsSeq(s) /\ cursor <= Len(s)
      BY <2>2 DEF Like, Agrees
    <3>2. cursor \in 0..Len(s)
      BY <1>3, <3>1 DEF IsSeq
    <3>3. KindAt(s, cursor) # "string"
      BY <1>4, <2>2 DEF Like
    <3> QED
      BY <1>1, <1>2, <2>2, <3>1, <3>2, <3>3, KeyLeads
  <2>3. \A most \in Nat : most >= Limit => NoValueLike(cursor, most)
    BY <2>2 DEF NoValueLike
  <2> QED
    BY <1>1, <1>2, <1>3, <2>1, <2>3, KeyCanCome, RefusesToken
<1>5. CASE KindAt(tokens, cursor) = "string" /\ KindAt(tokens, cursor + 1) # ":"
  <2> DEFINE k == cursor + 1
  <2>1. RejectToken(k)
    BY <1>5, PeekKind DEF ParseKey
  <2>2. k \in cursor..Len(tokens) /\ CanGoOn(SubSeq(tokens, 1, k), Limit)
    BY <1>1, <1>2, <1>5, ColonCanCome
  <2>3. KindAt(tokens, cursor) # "none" /\ ~CommaAt(tokens, cursor)
    BY <1>5 DEF CommaAt
  <2>4. ASSUME NEW most \in Nat, most >= Limit, NEW s, Like(s, k), NEW y
        PROVE  ~Ahead(s, most, y)
    <3>1. IsSeq(s) /\ cursor \in 0..Len(s)
      BY <1>2, <2>3, <2>4, Consumed1 DEF Like
    <3>2. KindAt(s, k) # ":"
      BY <1>5, <2>4 DEF Like
    <3> QED
      BY <1>1, <1>2, <2>4, <3>1, <3>2, KeyLeads
  <2>5. \A most \in Nat : most >= Limit => NoValueLike(k, most)
    BY <2>4 DEF NoValueLike
  <2>6. ~CommaAt(tokens, k - 1)
    <3>1. k - 1 = cursor
      BY <1>3
    <3> QED
      BY <2>3, <3>1
  <2> HIDE DEF k
  <2> QED
    BY <1>2, <2>1, <2>2, <2>5, <2>6, RefusesToken
<1>6. CASE KindAt(tokens, cursor) = "string" /\ KindAt(tokens, cursor + 1) = ":"
  <2> DEFINE text == tokens[cursor + 1].text
             c == WithKey(Top, text)
             new == <<c>> \o Tail(stack)
  <2>1. stack' = new /\ cursor' = cursor + 2 /\ parser' = "value" /\ UNCHANGED lexVars /\ tokens' = tokens
    BY <1>6, PeekKind DEF ParseKey, WithKey, lexVars
  <2>2. IsOpen(c) /\ c.keys # <<>>
    <3>1. IsOpen(c)
      BY <1>3, OneMore
    <3>2. c.keys # <<>>
      <4>1. PICK S : Top.keys \in Seq(S)
        BY <1>3 DEF IsOpen, IsSeq
      <4>2. c.keys = Append(Top.keys, text)
        BY <1>3 DEF WithKey, IsOpen, Value
      <4> DEFINE R == S \cup {text}
      <4> HIDE DEF text, c
      <4>3. Top.keys \in Seq(R) /\ text \in R
        BY <4>1
      <4> HIDE DEF R
      <4>4. Len(c.keys) = Len(Top.keys) + 1 /\ Len(Top.keys) \in Nat
        BY <4>2, <4>3
      <4>5. Len(<<>>) = 0
        OBVIOUS
      <4> QED
        BY <4>4, <4>5
    <3> QED
      BY <3>1, <3>2
  <2> HIDE DEF c
  <2>3. OpenOnes(new) /\ new # <<>> /\ Head(new) = c /\ Tail(new) = Tail(stack) /\ Len(new) = Len(Tail(stack)) + 1
    BY <1>3, <2>2, OpenPushed
  <2>4. Len(new) = Len(stack)
    BY <1>3, <2>3
  <2> HIDE DEF new
  <2>5. ~Fresh'
    BY <2>1, <2>2, <2>3 DEF Fresh
  <2>6. KindAt(tokens, cursor) # "none" /\ KindAt(tokens, cursor + 1) # "none" /\ ~CommaAt(tokens, cursor + 1)
    BY <1>6 DEF CommaAt
  <2>7. /\ cursor + 2 \in cursor..Len(tokens) /\ cursor + 2 # cursor
        /\ \A s : Agrees(s, cursor + 2) =>
             Agrees(s, cursor + 1) /\ KindAt(s, cursor + 1) = KindAt(tokens, cursor + 1)
    BY <1>2, <2>6, Consumed2
  <2>8. ASSUME NEW s, NEW most \in Nat, most >= Limit, Agrees(s, cursor + 2), NEW y
        PROVE  Leads("value", s, most, new, cursor + 2, result', y) <=> Ahead(s, most, y)
    <3> DEFINE W == ValuesOf(s, most)[most - Len(stack)]
    <3>1. /\ IsSeq(s) /\ cursor \in 0..Len(s)
          /\ KindAt(s, cursor) = "string" /\ KindAt(s, cursor + 1) = ":" /\ s[cursor + 1].text = text
      BY <1>2, <1>6, <2>6, <2>7, <2>8, Consumed1
    <3>2. Ahead(s, most, y) <=>
            \E z : /\ \E v \in W[cursor + 2] : Closes(s, W, WithKid(c, v.value), v.end, z)
                   /\ Up(s, most, Tail(stack), z, y)
      <4>1. Ahead(s, most, y) <=>
              /\ KindAt(s, cursor) = "string" /\ KindAt(s, cursor + 1) = ":"
              /\ \E z : /\ \E v \in W[cursor + 2] :
                             Closes(s, W, WithKid(WithKey(Top, s[cursor + 1].text), v.value), v.end, z)
                        /\ Up(s, most, Tail(stack), z, y)
        BY <1>1, <1>2, <2>8, <3>1, KeyLeads
      <4> HIDE DEF text, W
      <4> QED
        BY <3>1, <4>1 DEF c
    <3>3. Leads("value", s, most, new, cursor + 2, result', y) <=>
            \E x \in ValuesOf(s, most)[most - Len(new)][cursor + 2] : \E z :
              /\ Closes(s, ValuesOf(s, most)[most - Len(new)], WithKid(Head(new), x.value), x.end, z)
              /\ Up(s, most, Tail(new), z, y)
      BY <2>3, ValueWithin
    <3>4. Leads("value", s, most, new, cursor + 2, result', y) <=>
            \E x \in W[cursor + 2] : \E z :
              Closes(s, W, WithKid(c, x.value), x.end, z) /\ Up(s, most, Tail(stack), z, y)
      BY <2>3, <2>4, <3>3
    <3> HIDE DEF W
    <3> QED
      BY <3>2, <3>4
  <2>9. BehindComma'
    <3>1. PICK k : k = cursor + 1
      OBVIOUS
    <3>2. k \in Nat /\ cursor' = k + 1 /\ ~CommaAt(tokens, k)
      BY <1>3, <2>1, <2>6, <3>1
    <3> QED
      BY <2>1, <3>2, NoCommaBehind
  <2>10. OpenOnes(stack') /\ cursor' \in cursor..Len(tokens) /\ cursor' # cursor
    BY <2>1, <2>3, <2>7
  <2>11. \A s : \A most \in Nat :
           most >= Limit /\ Agrees(s, cursor') /\ (Fresh' => KindAt(s, cursor') # Closer(Head(stack').kind)) =>
             \A y : Leads(parser', s, most, stack', cursor', result', y) <=> Ahead(s, most, y)
    BY <2>1, <2>8
  <2> QED
    BY <1>2, <2>1, <2>5, <2>9, <2>10, <2>11, GoesOn
<1> QED
  BY <1>4, <1>5, <1>6

\* After a value in a container the parse leads to what closes that.
LEMMA NextLeads ==
  ASSUME Parsing, parser = "next"
  PROVE  /\ stack # <<>> /\ ~Fresh
         /\ \A s, most, y : Ahead(s, most, y) <=>
                   \E z : Closes(s, ValuesOf(s, most)[most - Len(stack)], Top, cursor, z)
                            /\ Up(s, most, Tail(stack), z, y)
<1>1. stack # <<>> /\ ~Fresh
  BY DEF Parsing, Within, Fresh
<1> QED
  BY <1>1 DEF Ahead, Leads, Top

LEMMA CloseContainerLeads ==
  ASSUME Within, CloseContainer
  PROVE  Completes'
<1>1. lexer = "done" /\ parser = "next" /\ KindAt(tokens, cursor) = Closer(Top.kind) /\ Return(Top, cursor + 1, Tail(stack))
  BY PeekKind DEF CloseContainer, At
<1>2. Parsing
  BY <1>1 DEF Parsing
<1>3. stack # <<>> /\ ~Fresh
  BY <1>1, <1>2, NextLeads
<1>4. OpenOnes(Tail(stack)) /\ cursor \in Nat
  BY <1>2, <1>3, TopThere
<1>5. KindAt(tokens, cursor) # "none" /\ ~CommaAt(tokens, cursor) /\ "," # Closer(Top.kind)
  BY <1>1 DEF Closer, CommaAt
<1>6. /\ cursor + 1 \in cursor..Len(tokens) /\ cursor + 1 # cursor
      /\ \A s : Agrees(s, cursor + 1) => KindAt(s, cursor) = KindAt(tokens, cursor)
  BY <1>2, <1>5, Consumed1
<1>7. cursor' = cursor + 1 /\ UNCHANGED lexVars /\ tokens' = tokens
  BY <1>1 DEF Return, lexVars
<1>8. OpenOnes(stack') /\ parser' \in {"next", "end"}
  BY <1>1, <1>4, ReturnLeads
<1>9. ASSUME NEW s, NEW most \in Nat, most >= Limit, Agrees(s, cursor + 1), NEW y
      PROVE  Leads(parser', s, most, stack', cursor', result', y) <=> Ahead(s, most, y)
  <2>1. KindAt(s, cursor) = Closer(Top.kind)
    BY <1>1, <1>6, <1>9
  <2>2. Ahead(s, most, y) <=>
          \E z : Closes(s, ValuesOf(s, most)[most - Len(stack)], Top, cursor, z) /\ Up(s, most, Tail(stack), z, y)
    BY <1>1, <1>2, NextLeads
  <2>3. Ahead(s, most, y) <=> Up(s, most, Tail(stack), Found(cursor + 1, Top), y)
    BY <1>5, <2>1, <2>2 DEF Closes
  <2>4. Leads(parser', s, most, stack', cursor', result', y) <=> Up(s, most, Tail(stack), Found(cursor + 1, Top), y)
    BY <1>1, <1>4, ReturnLeads
  <2> QED
    BY <2>3, <2>4
<1>10. ~Fresh' /\ parser' # "failed" /\ parser' # "key" /\ parser' # "done"
  BY <1>8 DEF Fresh
<1>11. BehindComma'
  BY <1>4, <1>5, <1>7, NoCommaBehind
<1> QED
  BY <1>2, <1>6, <1>7, <1>8, <1>9, <1>10, <1>11, GoesOn

LEMMA NoSeparatorLeads ==
  ASSUME Within, NoSeparator
  PROVE  Completes'
<1>1. lexer = "done" /\ parser = "next" /\ KindAt(tokens, cursor) \notin {",", Closer(Top.kind)} /\ RejectToken(cursor)
  BY PeekKind DEF NoSeparator, At
<1>2. Parsing
  BY <1>1 DEF Parsing
<1>3. cursor \in cursor..Len(tokens)
  BY <1>1, <1>2, NextLeads, TopThere
<1>4. "none" # "," /\ "none" # Closer(Top.kind)
  BY DEF Closer
<1>5. ASSUME NEW most \in Nat, most >= Limit, NEW s, Like(s, cursor), NEW y
      PROVE  ~Ahead(s, most, y)
  <2>1. KindAt(s, cursor) \notin {",", Closer(Top.kind)}
    BY <1>1, <1>4, <1>5 DEF Like
  <2> QED
    BY <1>1, <1>2, <2>1, NextLeads DEF Closes
<1>6. \A most \in Nat : most >= Limit => NoValueLike(cursor, most)
  BY <1>5 DEF NoValueLike
<1> QED
  BY <1>1, <1>2, <1>3, <1>6, CloserCanCome, RefusesToken

\* What the parse leads to after a comma.
LEMMA CommaLeadsTo ==
  ASSUME Parsing, parser = "next", NEW s, CommaAt(s, cursor)
  PROVE  \A most, y : Ahead(s, most, y) <=>
           \E z : Fills(s, ValuesOf(s, most)[most - Len(stack)], Top, cursor + 1, z) /\ Up(s, most, Tail(stack), z, y)
<1>1. KindAt(s, cursor) = "," /\ "," # Closer(Top.kind)
  BY DEF Closer, CommaAt
<1> QED
  BY <1>1, NextLeads DEF Closes

\* A comma before a closing bracket is refused, in its own place.
LEMMA TrailingCommaLeads ==
  ASSUME Within, Comma, KindAt(tokens, cursor + 1) = Closer(Top.kind)
  PROVE  Completes'
<1> DEFINE k == cursor + 1
           wrong == [kind |-> "UnexpectedToken", pos |-> PeekPos(cursor)]
<1>1. lexer = "done" /\ parser = "next" /\ CommaAt(tokens, cursor) /\ Reject("UnexpectedToken", PeekPos(cursor))
  BY PeekKind DEF Comma, At, CommaAt
<1>2. Parsing
  BY <1>1 DEF Parsing
<1>3. stack # <<>>
  BY <1>1, <1>2, NextLeads
<1>4. /\ IsOpen(Top) /\ cursor \in 0..Len(tokens) /\ cursor \in Nat /\ Len(tokens) \in Nat
      /\ Limit \in Nat /\ Limit >= Limit /\ IsSeq(tokens)
  BY <1>2, <1>3, TopThere
<1>5. KindAt(tokens, cursor) # "none" /\ Closer(Top.kind) # "none" /\ Closer(Top.kind) \in Brackets
  BY <1>1 DEF CommaAt, Closer, Brackets
<1>6. /\ k \in cursor..Len(tokens) /\ k \in 0..Len(tokens) /\ k \in Nat /\ k - 1 = cursor /\ k + 1 = cursor + 2 /\ k > 0
  BY <1>2, <1>4, <1>5, Consumed1
<1>7. k < Len(tokens) /\ k # Len(tokens)
  <2>1. KindAt(tokens, k) # "none"
    BY <1>5
  <2> HIDE DEF k
  <2>2. k < Len(tokens)
    BY <1>2, <1>6, <2>1, TokensNamed
  <2> QED
    BY <1>4, <2>2
<1>8. CanGoOn(SubSeq(tokens, 1, k), Limit)
  BY <1>1, <1>2, ItemCanCome
<1>9. CanGoOn(Append(SubSeq(tokens, 1, k - 1), tokens[k + 1]), Limit)
  <2>1. CanGoOn(Append(SubSeq(tokens, 1, cursor), tokens[cursor + 2]), Limit)
    BY <1>1, <1>2, <1>7, CloserForComma
  <2> HIDE DEF k
  <2> QED
    BY <1>6, <2>1
<1>10. ASSUME NEW most \in Nat, most >= Limit, NEW s, Like(s, k), NEW y
       PROVE  ~Ahead(s, most, y)
  <2>1. IsSeq(s) /\ CommaAt(s, cursor) /\ k \in 0..Len(s)
    BY <1>1, <1>2, <1>5, <1>10, Consumed1 DEF Like, CommaAt
  <2>2. most - Len(stack) \in 0..most
    BY <1>2, <1>10, <2>1, LevelThere
  <2>3. KindAt(s, k) \in {"none", Closer(Top.kind)}
    BY <1>10 DEF Like
  <2>4. \A z : ~Fills(s, ValuesOf(s, most)[most - Len(stack)], Top, k, z)
    <3> HIDE DEF k
    <3>1. PICK d : d = most - Len(stack)
      OBVIOUS
    <3>2. \A z : ~Fills(s, ValuesOf(s, most)[d], Top, k, z)
      BY <1>4, <2>1, <2>2, <2>3, <3>1, NoItem
    <3> QED
      BY <3>1, <3>2
  <2> QED
    BY <1>1, <1>2, <2>1, <2>4, CommaLeadsTo
<1>11. \A most \in Nat : most >= Limit => NoValueLike(k, most)
  BY <1>10 DEF NoValueLike
<1> HIDE DEF k
<1>12. /\ ~IsWhole(SubSeq(tokens, 1, k), Limit)
       /\ ~CanGoOn(SubSeq(tokens, 1, k + 1), Limit) /\ ~CanGoOn(SubSeq(tokens, 1, k + 1), Limit + 1)
       /\ \A y : ~Ahead(tokens, Limit, y)
  BY <1>2, <1>6, <1>7, <1>11, NothingBeyond
<1>13. tokens[k].kind = "," /\ tokens[k + 1].kind \in Brackets /\ PeekPos(cursor) = tokens[k].pos
  <2>1. cursor < Len(tokens) /\ k = cursor + 1
    BY <1>4, <1>6
  <2>2. KindAt(tokens, cursor) = tokens[k].kind /\ PeekPos(cursor) = tokens[k].pos
    BY <2>1 DEF KindAt, PeekPos
  <2>3. KindAt(tokens, k) = tokens[k + 1].kind
    BY <1>7 DEF KindAt
  <2>4. KindAt(tokens, k) \in Brackets
    BY <1>5, <2>1
  <2> QED
    BY <1>1, <2>2, <2>3, <2>4 DEF CommaAt
<1>14. ErrorBehind(k) = wrong
  BY <1>6, <1>7, <1>9, <1>12, <1>13 DEF ErrorBehind
<1>15. RefusedAs(k, wrong)
  <2> HIDE DEF wrong
  <2> QED
    BY <1>8, <1>12, <1>14 DEF RefusedAs
<1> QED
  BY <1>1, <1>2, <1>6, <1>12, <1>15, Refuses

LEMMA CommaLeads ==
  ASSUME Within, Comma
  PROVE  Completes'
<1>1. lexer = "done" /\ parser = "next" /\ CommaAt(tokens, cursor)
  BY PeekKind DEF Comma, At, CommaAt
<1>2. Parsing
  BY <1>1 DEF Parsing
<1>3. stack # <<>> /\ ~Fresh
  BY <1>1, <1>2, NextLeads
<1>4. /\ IsOpen(Top) /\ OpenOnes(stack) /\ Top = Head(stack)
      /\ cursor \in Nat /\ Limit \in Nat /\ Limit >= Limit /\ IsSeq(tokens) /\ Len(tokens) \in Nat
      /\ cursor \in 0..Len(tokens)
  BY <1>2, <1>3, TopThere
<1>5. KindAt(tokens, cursor) # "none"
  BY <1>1 DEF CommaAt
<1>6. /\ cursor + 1 \in cursor..Len(tokens) /\ cursor + 1 # cursor /\ cursor + 1 - 1 = cursor
      /\ \A s : Agrees(s, cursor + 1) =>
           IsSeq(s) /\ cursor + 1 \in 0..Len(s) /\ KindAt(s, cursor) = KindAt(tokens, cursor)
  BY <1>2, <1>5, Consumed1
<1>7. CASE KindAt(tokens, cursor + 1) = Closer(Top.kind)
  BY <1>7, TrailingCommaLeads
<1>8. CASE KindAt(tokens, cursor + 1) # Closer(Top.kind)
  <2>1. /\ cursor' = cursor + 1 /\ parser' = (IF Top.kind = "array" THEN "value" ELSE "key")
        /\ UNCHANGED <<lexVars, stack, result>> /\ tokens' = tokens
    BY <1>8, PeekKind DEF Comma, lexVars
  <2>2. ASSUME NEW s, NEW most \in Nat, most >= Limit, Agrees(s, cursor + 1), NEW y
        PROVE  Leads(parser', s, most, stack, cursor + 1, result, y) <=> Ahead(s, most, y)
    <3> DEFINE W == ValuesOf(s, most)[most - Len(stack)]
    <3>1. IsSeq(s) /\ cursor + 1 \in 0..Len(s) /\ CommaAt(s, cursor)
      BY <1>1, <1>6, <2>2 DEF CommaAt
    <3>2. EndLater(s, W)
      BY <1>2, <2>2, <3>1, LevelThere
    <3>3. Ahead(s, most, y) <=> \E z : Fills(s, W, Top, cursor + 1, z) /\ Up(s, most, Tail(stack), z, y)
      BY <1>1, <1>2, <3>1, CommaLeadsTo
    <3>4. CASE Top.kind = "array"
      <4> HIDE DEF W
      <4>1. \A z : Fills(s, W, Top, cursor + 1, z) <=>
              \E x \in W[cursor + 1] : Closes(s, W, WithKid(Top, x.value), x.end, z)
        BY <1>4, <3>1, <3>2, <3>4, FillsArray
      <4>2. Leads("value", s, most, stack, cursor + 1, result, y) <=>
              \E x \in W[cursor + 1] : \E z :
                Closes(s, W, WithKid(Top, x.value), x.end, z) /\ Up(s, most, Tail(stack), z, y)
        <5>1. Leads("value", s, most, stack, cursor + 1, result, y) <=>
                \E x \in ValuesOf(s, most)[most - Len(stack)][cursor + 1] : \E z :
                  /\ Closes(s, ValuesOf(s, most)[most - Len(stack)], WithKid(Head(stack), x.value), x.end, z)
                  /\ Up(s, most, Tail(stack), z, y)
          BY <1>3, <1>4, ValueWithin
        <5> QED
          BY <1>4, <5>1 DEF W
      <4>3. parser' = "value"
        BY <2>1, <3>4
      <4> QED
        BY <3>3, <4>1, <4>2, <4>3
    <3>5. CASE Top.kind = "object"
      <4>1. parser' = "key"
        BY <2>1, <3>5
      <4> QED
        BY <1>4, <3>3, <4>1 DEF Leads
    <3> QED
      BY <1>4, <3>4, <3>5 DEF IsOpen
  <2>3. parser' \in {"value", "key"} /\ (parser' = "key" => Top.kind = "object") /\ parser' # "failed" /\ parser' # "done"
    BY <1>4, <2>1 DEF IsOpen
  <2>4. KindAt(tokens, cursor') # Closer(Head(stack').kind) /\ Head(stack') = Top /\ OpenOnes(stack')
    BY <1>4, <1>8, <2>1
  <2>5. BehindComma'
    <3>1. ASSUME NEW s, Agrees(s, cursor), NEW y
          PROVE  y \in ValuesOf(s, Limit)[Limit][0] <=> Leads("next", s, Limit, stack, cursor, result, y)
      <4>1. Fits(s)
        BY <1>3, <3>1 DEF Fits
      <4>2. Leading(s, Limit)
        BY <1>2, <1>4, <4>1, ParsingFacts
      <4> QED
        BY <1>1, <4>2 DEF Leading, Ahead
    <3>2. PICK k : k = cursor' - 1
      OBVIOUS
    <3>3. stack' = stack /\ result' = result /\ tokens' = tokens
      BY <2>1
    <3>4. k = cursor
      <4>1. cursor' = cursor + 1
        BY <2>1
      <4>2. cursor \in Nat
        BY <1>4
      <4> QED
        BY <3>2, <4>1, <4>2
    <3>5. /\ parser' \in {"value", "key"} /\ stack' # <<>>
          /\ KindAt(tokens', cursor') # Closer(Head(stack').kind)
      BY <1>3, <2>3, <2>4, <3>3
    <3>6. ASSUME NEW s, Agrees(s, cursor - 1)', NEW y
          PROVE  y \in ValuesOf(s, Limit)[Limit][0] <=> Leads("next", s, Limit, stack', cursor' - 1, result', y)
      <4>1. IsSeq(s) /\ k <= Len(s) /\ \A i \in 1..k : s[i] = tokens[i]
        BY <3>2, <3>3, <3>6 DEF Agrees
      <4>2. Agrees(s, cursor)
        BY <3>4, <4>1 DEF Agrees
      <4>3. y \in ValuesOf(s, Limit)[Limit][0] <=> Leads("next", s, Limit, stack, cursor, result, y)
        BY <3>1, <4>2
      <4> QED
        BY <3>2, <3>3, <3>4, <4>3
    <3> QED
      BY <3>5, <3>6 DEF BehindComma
  <2>6. cursor' \in cursor..Len(tokens) /\ UNCHANGED lexVars
    BY <1>6, <2>1
  <2>7. \A s : \A most \in Nat :
          most >= Limit /\ Agrees(s, cursor') /\ (Fresh' => KindAt(s, cursor') # Closer(Head(stack').kind)) =>
            \A y : Leads(parser', s, most, stack', cursor', result', y) <=> Ahead(s, most, y)
    BY <2>1, <2>2
  <2> QED
    BY <1>2, <1>3, <2>3, <2>4, <2>5, <2>6, <2>7, GoesOn
<1> QED
  BY <1>7, <1>8

LEMMA FinishLeads ==
  ASSUME Within, Finish
  PROVE  Completes'
<1>1. lexer = "done" /\ parser = "end"
  BY DEF Finish, At
<1>2. Parsing
  BY <1>1 DEF Parsing
<1>3. /\ cursor \in 0..Len(tokens) /\ cursor \in Nat /\ Len(tokens) \in Nat /\ OpenOnes(stack) /\ IsSeq(tokens)
      /\ Limit \in Nat /\ Limit >= Limit /\ cursor \in cursor..Len(tokens) /\ 0 <= Limit
  <2>1. /\ cursor \in 0..Len(tokens) /\ cursor \in Nat /\ Len(tokens) \in Nat /\ OpenOnes(stack) /\ IsSeq(tokens)
        /\ Limit \in Nat
    BY <1>2, ParsingFacts
  <2> QED
    BY <2>1
<1>4. \A s, most, y : Ahead(s, most, y) <=> y = Found(cursor, result)
  BY <1>1 DEF Ahead, Leads
<1>5. Found(cursor, result).end = cursor
  BY DEF Found
<1>6. CASE mode = "whole" /\ cursor < Len(tokens)
  <2> DEFINE wrong == [kind |-> "TrailingData", pos |-> PeekPos(cursor)]
  <2>1. Reject("TrailingData", PeekPos(cursor))
    BY <1>6 DEF Finish
  <2>2. \A s : Like(s, cursor) => (IsWhole(s, Limit) <=> cursor = Len(s))
    <3> SUFFICES ASSUME NEW s, Like(s, cursor)
                 PROVE  IsWhole(s, Limit) <=> cursor = Len(s)
      OBVIOUS
    <3>1. Fits(s)
      BY <1>2, <1>3, LikeFits
    <3>2. Leading(s, Limit)
      BY <1>2, <1>3, <3>1, ParsingFacts
    <3>3. \A y : y \in ValuesOf(s, Limit)[Limit][0] <=> y = Found(cursor, result)
      BY <1>4, <3>2 DEF Leading
    <3> QED
      BY <1>5, <3>3 DEF IsWhole
  <2>3. Like(SubSeq(tokens, 1, cursor), cursor) /\ Len(SubSeq(tokens, 1, cursor)) = cursor
    BY <1>2, <1>3, BegunLike
  <2>4. IsWhole(SubSeq(tokens, 1, cursor), Limit)
    BY <2>2, <2>3
  <2>5. CanGoOn(SubSeq(tokens, 1, cursor), Limit)
    <3>1. OpenOnes(<<>>) /\ Len(<<>>) = 0
      <4>1. Len(<<>>) = 0 /\ <<>> \in Seq({})
        OBVIOUS
      <4> QED
        BY <4>1 DEF OpenOnes, IsSeq
    <3>2. PICK s : WayOn(s, cursor, <<>>, <<>>)
      BY <1>2, <1>3, <3>1, ThereIsAWay DEF Middles
    <3>3. Len(s) = cursor
      BY <1>3, <3>1, <3>2, WayOfNone
    <3>4. Like(s, cursor)
      <4>1. KindAt(s, cursor) = "none"
        BY <1>3, <3>3 DEF KindAt
      <4> QED
        BY <3>2, <4>1 DEF Like, WayOn
    <3>5. IsWhole(s, Limit)
      BY <2>2, <3>3, <3>4
    <3> QED
      BY <3>2, <3>5 DEF WayOn
  <2>6. ~CanGoOn(SubSeq(tokens, 1, cursor + 1), Limit)
    <3> SUFFICES ASSUME NEW kinds \in Completions
                 PROVE  ~IsWhole(SubSeq(tokens, 1, cursor + 1) \o Made(kinds), Limit)
      BY DEF CanGoOn
    <3>1. PICK s : s = SubSeq(tokens, 1, cursor + 1) \o Made(kinds)
      OBVIOUS
    <3>2. Like(s, cursor) /\ cursor + 1 <= Len(s) /\ Len(s) \in Nat
      BY <1>2, <1>3, <1>6, <3>1, BeyondLike
    <3>3. cursor # Len(s)
      BY <1>3, <3>2
    <3> QED
      BY <2>2, <3>1, <3>2, <3>3
  <2>7. ErrorBehind(cursor) = wrong
    <3>1. cursor # Len(tokens)
      BY <1>3, <1>6
    <3> QED
      BY <1>6, <2>4, <3>1 DEF ErrorBehind, PeekPos
  <2>8. RefusedAs(cursor, wrong)
    <3> HIDE DEF wrong
    <3> QED
      BY <2>5, <2>6, <2>7 DEF RefusedAs
  <2>9. \A y : Ahead(tokens, Limit, y) => mode = "whole" /\ y.end # Len(tokens)
    BY <1>3, <1>4, <1>5, <1>6
  <2> QED
    BY <1>2, <1>3, <2>1, <2>8, <2>9, Refuses
<1>7. CASE ~(mode = "whole" /\ cursor < Len(tokens))
  <2>1. parser' = "done" /\ UNCHANGED <<lexVars, cursor, stack, result>> /\ tokens' = tokens
    BY <1>7 DEF Finish, lexVars
  <2>2. \A s, most, y : Leads(parser', s, most, stack', cursor', result', y) <=> y = Found(cursor, result)
    BY <2>1 DEF Leads
  <2>3. ~Fresh /\ ~Fresh'
    BY <1>1, <2>1 DEF Fresh
  <2>4. BehindComma'
    <3>1. BehindComma
      BY <1>2, ParsingFacts
    <3>2. ~(cursor # 0 /\ KindAt(tokens, cursor - 1) = ",")
      BY <1>1, <3>1 DEF BehindComma
    <3>3. cursor' = cursor /\ tokens' = tokens
      BY <2>1
    <3> QED
      BY <3>2, <3>3 DEF BehindComma
  <2>5. mode = "whole" => cursor' = Len(tokens)
    BY <1>3, <1>7, <2>1
  <2>6. cursor' \in cursor..Len(tokens) /\ OpenOnes(stack') /\ UNCHANGED lexVars
    BY <1>3, <2>1
  <2>7. \A s : \A most \in Nat :
          most >= Limit /\ Agrees(s, cursor') /\ (Fresh' => KindAt(s, cursor') # Closer(Head(stack').kind)) =>
            \A y : Leads(parser', s, most, stack', cursor', result', y) <=> Ahead(s, most, y)
    BY <1>4, <2>2
  <2> QED
    BY <1>2, <2>1, <2>3, <2>4, <2>5, <2>6, <2>7, GoesOn
<1> QED
  BY <1>6, <1>7

LEMMA ParseLeads ==
  ASSUME Within, Parse
  PROVE  Completes'
BY ParseScalarLeads, OpenContainerLeads, NoValueLeads, ParseKeyLeads, CommaLeads, CloseContainerLeads,
   NoSeparatorLeads, FinishLeads DEF Parse

\* The tokeniser fails only in mode "whole", and does not change the mode.
LEMMA TokeniseFails ==
  ASSUME Tokenise
  PROVE  mode' = mode /\ (mode = "prefix" => lexer' # "failed")
<1> DEFINE Fine == mode' = mode /\ (mode = "prefix" => lexer' # "failed")
<1>1. ASSUME NEW token, Emit(token)
      PROVE  Fine
  BY <1>1 DEF Emit
<1>2. ASSUME NEW kind, NEW p, Fail(kind, p)
      PROVE  Fine
  BY <1>2 DEF Fail
<1>3. ASSUME NEW char, NEW n, NEW c, lexer = "string", Push(char, n, c)
      PROVE  Fine
  BY <1>3 DEF Push
<1>4. CASE SkipWs \/ EndOfInput \/ OpenString
  BY <1>4 DEF SkipWs, EndOfInput, OpenString
<1>5. CASE Structural
  BY <1>1, <1>5 DEF Structural
<1>6. CASE ReadLiteral
  BY <1>1, <1>2, <1>6 DEF ReadLiteral
<1>7. CASE UnknownByte
  BY <1>2, <1>7 DEF UnknownByte
<1>8. CASE ReadNumber
  BY <1>1, <1>2, <1>8 DEF ReadNumber
<1>9. CASE CloseString
  BY <1>1, <1>9 DEF CloseString
<1>10. CASE UnterminatedString \/ ControlChar
  BY <1>2, <1>10 DEF UnterminatedString, ControlChar
<1>11. CASE PlainChar
  BY <1>3, <1>11 DEF PlainChar
<1>12. CASE Utf8Char
  BY <1>2, <1>3, <1>12 DEF Utf8Char
<1>13. CASE SimpleEscape
  BY <1>2, <1>3, <1>13 DEF SimpleEscape
<1>14. CASE UnicodeEscape
  BY <1>2, <1>3, <1>14 DEF UnicodeEscape
<1> QED
  BY <1>4, <1>5, <1>6, <1>7, <1>8, <1>9, <1>10, <1>11, <1>12, <1>13, <1>14
     DEF Tokenise, InString

LEMMA TokeniseNames ==
  ASSUME CursorInTokens, Named, Tokenise
  PROVE  Named'
<1>1. PICK S : tokens \in Seq(S)
  BY DEF CursorInTokens
<1>2. CASE tokens' = tokens
  BY <1>2 DEF Named
<1>3. ASSUME NEW token, token.kind # "none", tokens' = Append(tokens, token)
      PROVE  Named'
  <2> DEFINE R == S \cup {token}
  <2>1. tokens \in Seq(R) /\ token \in R
    BY <1>1
  <2> HIDE DEF R
  <2>2. /\ Len(tokens') = Len(tokens) + 1 /\ Len(tokens) \in Nat
        /\ tokens'[Len(tokens) + 1] = token
        /\ \A i \in 1..Len(tokens) : tokens'[i] = tokens[i]
    BY <1>3, <2>1
  <2>3. \A i \in 1..Len(tokens') : i \in 1..Len(tokens) \/ i = Len(tokens) + 1
    BY <2>2
  <2> QED
    BY <1>3, <2>2, <2>3 DEF Named
<1> QED
  BY <1>2, <1>3, TokeniseAppends

\* When the tokeniser is done the parse has all ways before it.
LEMMA TokeniseLeads ==
  ASSUME CursorInTokens, Completes, Tokenise, UNCHANGED parseVars
  PROVE  Completes'
<1>1. /\ lexer # "done" /\ parser' = "value" /\ cursor' = 0 /\ stack' = <<>> /\ result' = result
  BY TokeniseAppends DEF CursorInTokens, Completes, parseVars
<1>2. mode \in {"whole", "prefix"} /\ mode' = mode /\ (mode = "prefix" => lexer' # "failed")
  BY TokeniseFails DEF Completes
<1>3. OpenOnes(<<>>)
  <2>1. Len(<<>>) = 0 /\ <<>> \in Seq({})
    OBVIOUS
  <2> QED
    BY <2>1 DEF OpenOnes, IsSeq
<1>4. \A most \in Nat : most - Len(<<>>) = most
  OBVIOUS
<1>5. ASSUME NEW s, NEW most \in Nat, NEW y
      PROVE  y \in ValuesOf(s, most)[most][0] <=> Leads("value", s, most, <<>>, 0, result, y)
  BY <1>4, UpNone DEF Leads
<1>6. \A s : \A most \in Nat : Leading(s, most)'
  BY <1>1, <1>5 DEF Leading, Ahead
<1>7. ~Fresh'
  BY <1>1 DEF Fresh
<1>8. Fits(tokens)'
  <2>1. CursorInTokens'
    BY TokeniseKeepsCursor
  <2>2. IsSeq(tokens') /\ 0 <= Len(tokens')
    BY <2>1 DEF CursorInTokens, IsSeq
  <2> QED
    BY <1>1, <1>7, <2>2 DEF Fits, Agrees
<1>9. BehindComma'
  BY <1>1 DEF BehindComma
<1> QED
  BY <1>1, <1>2, <1>3, <1>6, <1>8, <1>9 DEF Completes

-----------------------------------------------------------------------------
\* What a call keeps, from its beginning to its end.
GrammarInv == IInv /\ CursorInTokens /\ Named /\ Completes

LEMMA GrammarKept == Spec => []GrammarInv
<1>1. Init => GrammarInv
  <2> SUFFICES ASSUME Init
               PROVE  GrammarInv
    OBVIOUS
  <2>1. /\ lexer = "scan" /\ parser = "value" /\ cursor = 0 /\ tokens = <<>> /\ depth = 0 /\ stack = <<>>
        /\ mode \in {"whole", "prefix"}
    BY DEF Init, Start
  <2>2. <<>> \in Seq({}) /\ Len(<<>>) = 0
    OBVIOUS
  <2>3. IInv /\ CursorInTokens
    BY <2>1, <2>2, LimitAssumption DEF IInv, Nested, DepthIsNesting, CursorInTokens
  <2>4. OpenOnes(stack)
    BY <2>1, <2>2 DEF OpenOnes, IsSeq
  <2>5. Named
    BY <2>1, <2>2 DEF Named
  <2> QED
    BY <2>1, <2>3, <2>4, <2>5 DEF Completes, GrammarInv
<1>2. GrammarInv /\ [Next]_vars => GrammarInv'
  <2> SUFFICES ASSUME GrammarInv, [Next]_vars
               PROVE  GrammarInv'
    OBVIOUS
  <2>1. IInv'
    BY StepSound DEF GrammarInv
  <2>2. CASE Tokenise /\ UNCHANGED parseVars
    BY <2>1, <2>2, TokeniseKeepsCursor, TokeniseNames, TokeniseLeads DEF GrammarInv
  <2>3. CASE Parse
    <3>1. Within
      BY DEF Within, IInv, Nested, DepthIsNesting, CursorInTokens, IsSeq, GrammarInv
    <3>2. CursorInTokens'
      BY <2>3, ParseKeepsCursor DEF GrammarInv
    <3>3. tokens' = tokens
      BY <2>3, ParseConsumes DEF GrammarInv
    <3>4. Named'
      BY <3>3 DEF Named, GrammarInv
    <3> QED
      BY <2>1, <2>3, <3>1, <3>2, <3>4, ParseLeads DEF GrammarInv
  <2>4. CASE UNCHANGED vars
    <3>1. UNCHANGED <<parser, cursor, depth, stack, result, tokens, lexer, mode, error>>
      BY <2>4 DEF vars, lexVars, parseVars
    <3>2. CursorInTokens' /\ Named'
      BY <3>1 DEF CursorInTokens, Named, GrammarInv
    <3>3. ASSUME NEW s
          PROVE  Agrees(s, cursor)' <=> Agrees(s, cursor)
      BY <3>1 DEF Agrees
    <3>4. Fresh' <=> Fresh
      BY <3>1 DEF Fresh
    <3>5. ASSUME NEW s
          PROVE  Fits(s)' <=> Fits(s)
      BY <3>1, <3>3, <3>4 DEF Fits
    <3>6. Fits(tokens)' <=> Fits(tokens)
      BY <3>1, <3>3, <3>4 DEF Fits, Agrees
    <3>7. ASSUME NEW s, NEW most
          PROVE  Leading(s, most)' <=> Leading(s, most)
      BY <3>1 DEF Leading, Ahead
    <3>8. BehindComma' <=> BehindComma
      BY <3>1 DEF BehindComma, Agrees
    <3>9. Spellings' = Spellings
      BY <3>1 DEF Spellings
    <3>10. ASSUME NEW k
           PROVE  RefusedAs(k, error)' <=> RefusedAs(k, error)
      BY <3>1 DEF RefusedAs, ErrorBehind, PeekPos
    <3>11. /\ OpenOnes(stack)' /\ (parser = "key" => Head(stack).kind = "object")'
           /\ (lexer # "done" => stack = <<>>)' /\ (mode \in {"whole", "prefix"})'
           /\ (mode = "prefix" => lexer # "failed")'
           /\ (parser = "done" /\ mode = "whole" => cursor = Len(tokens))'
      BY <3>1 DEF Completes, GrammarInv
    <3>12. lexer' = "done" /\ parser' # "failed" =>
             /\ Fits(tokens)' /\ BehindComma'
             /\ \A s : \A most \in Nat : Fits(s)' /\ most >= Limit => Leading(s, most)'
      BY <3>1, <3>5, <3>6, <3>7, <3>8 DEF Completes, GrammarInv
    <3>13. lexer' = "done" /\ parser' = "failed" =>
             /\ \A y \in Spellings' : mode' = "whole" /\ y.end # Len(tokens')
             /\ \E k \in 0..Len(tokens') : RefusedAs(k, error)'
      BY <3>1, <3>9, <3>10 DEF Completes, GrammarInv
    <3>14. Completes'
      BY <3>11, <3>12, <3>13 DEF Completes
    <3> QED
      BY <2>1, <3>2, <3>14 DEF GrammarInv
  <2> QED
    BY <2>2, <2>3, <2>4 DEF Next
<1> QED
  BY <1>1, <1>2, PTL DEF Spec

\* parse accepts what the grammar has, and nothing else, nested up to the limit;
\* parse_prefix what begins with it. The value it returns is the only one that
\* the tokens consumed spell.
\* (parse_with_options, parse_prefix, Parser::parse_value)
THEOREM GrammarIsAccepted == Spec => []AcceptsTheGrammar
<1>1. GrammarInv => AcceptsTheGrammar
  <2> SUFFICES ASSUME GrammarInv, Ended
               PROVE  /\ Accepted <=> IF mode = "whole"
                                      THEN lexer = "done" /\ \E v \in Spellings : v.end = Len(tokens)
                                      ELSE Spellings # {}
                      /\ Accepted => Spellings = {Found(cursor, result)}
    BY DEF AcceptsTheGrammar, Spellings
  <2>1. CASE parser = "done"
    <3>1. lexer = "done" /\ Leading(tokens, Limit)
      <4>1. lexer = "done"
        BY <2>1 DEF CursorInTokens, GrammarInv
      <4>2. Limit \in Nat /\ Limit >= Limit
        BY LimitAssumption
      <4> QED
        BY <2>1, <4>1, <4>2 DEF Completes, GrammarInv
    <3>2. \A y : y \in Spellings <=> y = Found(cursor, result)
      BY <2>1, <3>1 DEF Leading, Ahead, Leads, Spellings
    <3>3. Spellings = {Found(cursor, result)}
      BY <3>2
    <3>4. mode = "whole" => Found(cursor, result).end = Len(tokens)
      BY <2>1 DEF Completes, Found, GrammarInv
    <3> QED
      BY <2>1, <3>1, <3>3, <3>4 DEF Accepted
  <2>2. CASE parser = "failed"
    <3>1. lexer = "done"
      BY <2>2 DEF CursorInTokens, GrammarInv
    <3>2. \A y \in Spellings : mode = "whole" /\ y.end # Len(tokens)
      BY <2>2, <3>1 DEF Completes, GrammarInv
    <3> QED
      BY <2>2, <3>2 DEF Accepted
  <2>3. CASE lexer = "failed"
    <3>1. parser = "value" /\ mode = "whole"
      BY <2>3 DEF CursorInTokens, Completes, GrammarInv
    <3> QED
      BY <2>3, <3>1 DEF Accepted
  <2> QED
    BY <2>1, <2>2, <2>3 DEF Ended
<1> QED
  BY <1>1, GrammarKept, PTL

\* The place and the kind of an error of the parser: the first token that no
\* value has where it is, or the comma before a closing bracket, for every text
\* and every limit.
\* (every error of Parser::parse_value, parse_array, parse_object and parse)
THEOREM FirstWrongTokenIsRefused == Spec => []RejectsAtFirstWrongToken
<1>1. GrammarInv => RejectsAtFirstWrongToken
  BY DEF GrammarInv, Completes, RefusedAs, RejectsAtFirstWrongToken
<1> QED
  BY <1>1, GrammarKept, PTL
=============================================================================
