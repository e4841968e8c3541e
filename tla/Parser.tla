------------------------------- MODULE Parser -------------------------------
(***************************************************************************)
(* parse and parse_prefix: the tokeniser runs over the whole input, and    *)
(* then a recursive descent over its tokens, with a stack of the arrays    *)
(* and objects that are open for the recursion.                            *)
(***************************************************************************)
EXTENDS Tokeniser

CONSTANTS
  Limit,   \* ParserOptions::nesting_limit
  Inputs   \* the texts that are parsed

ASSUME LimitAssumption == Limit \in Nat
ASSUME InputsAssumption == Inputs \subseteq Seq(Bytes)

VARIABLES
  parser,  \* "value", "next" after one, "key" before one, "done", "failed"
  cursor,  \* tokens consumed
  depth,
  stack,   \* the open containers, the innermost first
  result

parseVars == <<parser, cursor, depth, stack, result>>
vars == <<lexVars, parseVars>>

Scalars == {"null", "true", "false", "number", "string"}

Peek(c) == IF c < Len(tokens) THEN tokens[c + 1].kind ELSE "none"

PeekPos(c) ==
  IF c < Len(tokens) THEN tokens[c + 1].pos
  ELSE IF tokens # <<>> THEN Last(tokens).pos ELSE START

Top == Head(stack)
Closer(kind) == IF kind = "array" THEN "]" ELSE "}"

\* parse_value runs only when the tokeniser has come to its end.
At(place) == lexer = "done" /\ parser = place

-----------------------------------------------------------------------------
(* Steps *)

Reject(kind, p) ==
  /\ parser' = "failed"
  /\ error' = [kind |-> kind, pos |-> p]
  /\ UNCHANGED <<input, mode, lexer, pos, opened, out, tokens, cursor, depth, stack, result>>

\* Neither end of the input nor the wrong token is what the grammar wants.
RejectToken(c) ==
  Reject(IF Peek(c) = "none" THEN "UnexpectedEof" ELSE "UnexpectedToken", PeekPos(c))

\* v is complete, with c tokens consumed: it joins the innermost of the open
\* containers, or is the result.
Return(v, c, open) ==
  /\ cursor' = c
  /\ IF open = <<>>
     THEN /\ result' = v
          /\ stack' = open
          /\ parser' = "end"
     ELSE /\ stack' = <<[Head(open) EXCEPT !.kids = Append(@, v)]>> \o Tail(open)
          /\ parser' = "next"
          /\ UNCHANGED result
  /\ UNCHANGED lexVars

ParseScalar ==
  /\ At("value")
  /\ Peek(cursor) \in Scalars
  /\ LET token == tokens[cursor + 1]
     IN Return(Value(token.kind, token.text, <<>>, <<>>), cursor + 1, stack)
  /\ UNCHANGED depth

\* (Mutant of OpenContainer: an empty container is not left.)
OpenContainerLeaking(kind) ==
  /\ At("value")
  /\ Peek(cursor) = (IF kind = "array" THEN "[" ELSE "{")
  /\ IF depth >= Limit
     THEN Reject("NestingLimitExceeded", PeekPos(cursor))
     ELSE IF Peek(cursor + 1) = Closer(kind)
     THEN Return(Empty(kind), cursor + 2, stack) /\ depth' = depth + 1
     ELSE /\ depth' = depth + 1
          /\ cursor' = cursor + 1
          /\ stack' = <<Empty(kind)>> \o stack
          /\ parser' = IF kind = "array" THEN "value" ELSE "key"
          /\ UNCHANGED <<lexVars, result>>

\* enter, and leave at once when the container is empty.
OpenContainer(kind) ==
  /\ At("value")
  /\ Peek(cursor) = (IF kind = "array" THEN "[" ELSE "{")
  /\ IF depth >= Limit
     THEN Reject("NestingLimitExceeded", PeekPos(cursor))
     ELSE IF Peek(cursor + 1) = Closer(kind)
     THEN Return(Empty(kind), cursor + 2, stack) /\ UNCHANGED depth
     ELSE /\ depth' = depth + 1
          /\ cursor' = cursor + 1
          /\ stack' = <<Empty(kind)>> \o stack
          /\ parser' = IF kind = "array" THEN "value" ELSE "key"
          /\ UNCHANGED <<lexVars, result>>

NoValueHere ==
  /\ At("value")
  /\ Peek(cursor) \notin Scalars \cup {"[", "{"}
  /\ RejectToken(cursor)

\* A member's key and its colon.
ParseKey ==
  /\ At("key")
  /\ IF Peek(cursor) # "string" THEN RejectToken(cursor)
     ELSE IF Peek(cursor + 1) # ":" THEN RejectToken(cursor + 1)
     ELSE /\ stack' = <<[Top EXCEPT !.keys = Append(@, tokens[cursor + 1].text)]>> \o Tail(stack)
          /\ cursor' = cursor + 2
          /\ parser' = "value"
          /\ UNCHANGED <<lexVars, depth, result>>

\* (Mutant of Comma: a closing bracket may follow a comma.)
CommaTrailing ==
  /\ At("next")
  /\ Peek(cursor) = ","
  /\ cursor' = cursor + 1
  /\ parser' = IF Peek(cursor + 1) = Closer(Top.kind) THEN "next"
               ELSE IF Top.kind = "array" THEN "value" ELSE "key"
  /\ UNCHANGED <<lexVars, depth, stack, result>>

Comma ==
  /\ At("next")
  /\ Peek(cursor) = ","
  /\ IF Peek(cursor + 1) = Closer(Top.kind)
     THEN Reject("UnexpectedToken", PeekPos(cursor))
     ELSE /\ cursor' = cursor + 1
          /\ parser' = IF Top.kind = "array" THEN "value" ELSE "key"
          /\ UNCHANGED <<lexVars, depth, stack, result>>

CloseContainer ==
  /\ At("next")
  /\ Peek(cursor) = Closer(Top.kind)
  /\ depth' = depth - 1
  /\ Return(Top, cursor + 1, Tail(stack))

\* (Mutant of NoSeparator: the place of the token after the wrong one.)
NoSeparatorLate ==
  /\ At("next")
  /\ Peek(cursor) \notin {",", Closer(Top.kind)}
  /\ RejectToken(cursor + 1)

NoSeparator ==
  /\ At("next")
  /\ Peek(cursor) \notin {",", Closer(Top.kind)}
  /\ RejectToken(cursor)

\* parse_with_options wants the whole input consumed, parse_prefix does not.
Finish ==
  /\ At("end")
  /\ IF mode = "whole" /\ cursor < Len(tokens)
     THEN Reject("TrailingData", PeekPos(cursor))
     ELSE parser' = "done" /\ UNCHANGED <<lexVars, cursor, depth, stack, result>>

Parse ==
  ParseScalar \/ OpenContainer("array") \/ OpenContainer("object") \/ NoValueHere
    \/ ParseKey \/ Comma \/ CloseContainer \/ NoSeparator \/ Finish

-----------------------------------------------------------------------------
\* A call: Tokeniser::new, and then a Parser at the first token.
Start(text, how) ==
  /\ input = text
  /\ mode = how
  /\ lexer = "scan" /\ pos = START /\ opened = START /\ out = <<>>
  /\ tokens = <<>> /\ error = NoError
  /\ parser = "value" /\ cursor = 0 /\ depth = 0 /\ stack = <<>> /\ result = NoValue

Accepted == parser = "done"
Ended == lexer = "failed" \/ parser \in {"done", "failed"}

\* The length that parse_prefix returns.
Consumed == tokens[cursor].end.offset

Init == \E text \in Inputs, how \in {"whole", "prefix"} : Start(text, how)
Next == (Tokenise /\ UNCHANGED parseVars) \/ Parse \/ (Ended /\ UNCHANGED vars)
Spec == Init /\ [][Next]_vars

-----------------------------------------------------------------------------
\* The depth that enter and leave count is the number of containers that are
\* open, on every path, and within the limit.
\* (Parser::enter and Parser::leave)
DepthIsNesting ==
  /\ depth = Len(stack)
  /\ depth \in 0..Limit
=============================================================================
