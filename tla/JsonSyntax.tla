----------------------------- MODULE JsonSyntax -----------------------------
(***************************************************************************)
(* RFC 8259 as a reference for Parser: the values that the tokens of a     *)
(* sequence spell, with what they denote.  A place b is the number of      *)
(* tokens before it.  Nothing here reads from left to right, is told when  *)
(* to stop or counts a depth: the values nested at most d deep are sets,   *)
(* made of those nested at most d - 1 deep.                                *)
(***************************************************************************)
EXTENDS Parser

CONSTANT Completions   \* bound: the kinds of tokens that may follow, to complete a value

Brackets == {"]", "}"}
Kinds == Scalars \cup Brackets \cup {"[", "{", ",", ":"}

\* Whatever is open can be closed, with the rest of a member or a value before.
ASSUME CompletionsAssumption ==
  /\ Completions \subseteq Seq(Kinds)
  /\ \A n \in 0..Limit, lead \in {<<>>, <<"null">>, <<":", "null">>, <<"string", ":", "null">>, <<"]">>, <<"}">>} :
       \A closers \in [1..n -> Brackets] : lead \o closers \in Completions

KindAt(s, b) == IF b < Len(s) THEN s[b + 1].kind ELSE "none"
Opener(kind) == IF kind = "array" THEN "[" ELSE "{"

\* A value, or some elements or members, and the place after its last token.
Found(end, value) == [end |-> end, value |-> value]
Members(end, keys, kids) == [end |-> end, keys |-> keys, kids |-> kids]

ScalarsAt(s, b) ==
  IF KindAt(s, b) \in Scalars
  THEN {Found(b + 1, Value(s[b + 1].kind, s[b + 1].text, <<>>, <<>>))} ELSE {}

\* An element of an array, or a member of an object, that begins at b; values
\* has the values by the place where they begin.
ItemsAt(s, values, kind, b) ==
  IF kind = "array" THEN {Members(v.end, <<>>, <<v.value>>) : v \in values[b]}
  ELSE IF KindAt(s, b) = "string" /\ KindAt(s, b + 1) = ":"
  THEN {Members(v.end, <<s[b + 1].text>>, <<v.value>>) : v \in values[b + 2]}
  ELSE {}

\* One or more of them, with commas between, if lists has those further on.
GoingOn(lists, item) ==
  {Members(rest.end, item.keys \o rest.keys, item.kids \o rest.kids) : rest \in lists[item.end + 1]}
ListsFrom(s, values, kind, lists, b) ==
  LET items == ItemsAt(s, values, kind, b)
  IN items \cup UNION {GoingOn(lists, item) : item \in {i \in items : KindAt(s, i.end) = ","}}

ListsOf(s, values, kind) ==
  LET lists[b \in 0..Len(s)] == ListsFrom(s, values, kind, lists, b)
  IN lists

\* An array or object that begins at b, with values in it.
Closed(kind, list) == Found(list.end + 1, Value(kind, <<>>, list.keys, list.kids))
ContainersAt(s, values, kind, b) ==
  IF KindAt(s, b) # Opener(kind) THEN {}
  ELSE (IF KindAt(s, b + 1) = Closer(kind) THEN {Found(b + 2, Empty(kind))} ELSE {})
         \cup {Closed(kind, list) :
                 list \in {l \in ListsOf(s, values, kind)[b + 1] : KindAt(s, l.end) = Closer(kind)}}

\* The values nested at most d deep, if within has those nested less.
ValuesAt(s, within, d, b) ==
  ScalarsAt(s, b)
    \cup (IF d = 0 THEN {}
          ELSE ContainersAt(s, within[d - 1], "array", b) \cup ContainersAt(s, within[d - 1], "object", b))

ValuesOf(s, most) ==
  LET within[d \in 0..most] == [b \in 0..Len(s) |-> ValuesAt(s, within, d, b)]
  IN within

-----------------------------------------------------------------------------
(* How far a sequence of tokens can be the beginning of a value *)

\* All of s is one value.
IsWhole(s, most) == \E v \in ValuesOf(s, most)[most][0] : v.end = Len(s)

Made(kinds) == [i \in DOMAIN kinds |-> [kind |-> kinds[i], text |-> <<>>]]
CanGoOn(s, most) == \E kinds \in Completions : IsWhole(s \o Made(kinds), most)

-----------------------------------------------------------------------------
(* What the parser promises *)

\* parse accepts a text whose tokens are a value nested within the limit, and
\* parse_prefix one whose tokens begin with one; the tokens consumed are those
\* of the value, and spell the result and nothing else.
AcceptsTheGrammar ==
  Ended =>
    LET values == ValuesOf(tokens, Limit)[Limit][0]
    IN /\ Accepted <=> IF mode = "whole" THEN lexer = "done" /\ \E v \in values : v.end = Len(tokens)
                       ELSE values # {}
       /\ Accepted => values = {Found(cursor, result)}

\* The error of a text of which the first k tokens can begin a value, and no more.
ErrorBehind(k) ==
  LET place == tokens[k + 1].pos
      WithoutComma == Append(SubSeq(tokens, 1, k - 1), tokens[k + 1])
  IN IF k = Len(tokens) THEN [kind |-> "UnexpectedEof", pos |-> PeekPos(k)]
     ELSE IF IsWhole(SubSeq(tokens, 1, k), Limit) THEN [kind |-> "TrailingData", pos |-> place]
     ELSE IF CanGoOn(SubSeq(tokens, 1, k + 1), Limit + 1) THEN [kind |-> "NestingLimitExceeded", pos |-> place]
     ELSE IF k > 0 /\ tokens[k].kind = "," /\ tokens[k + 1].kind \in Brackets /\ CanGoOn(WithoutComma, Limit)
     THEN [kind |-> "UnexpectedToken", pos |-> tokens[k].pos]
     ELSE [kind |-> "UnexpectedToken", pos |-> place]

\* An error of the parser is at the first token that no value has in its place,
\* or at the comma before a closing bracket, and says what is wrong with it:
\* neither an earlier token is refused nor a later one reached.
\* (every error of Parser::parse_value, parse_array, parse_object and parse)
RejectsAtFirstWrongToken ==
  lexer = "done" /\ parser = "failed" =>
    \E k \in 0..Len(tokens) :
      /\ CanGoOn(SubSeq(tokens, 1, k), Limit)
      /\ k < Len(tokens) => ~CanGoOn(SubSeq(tokens, 1, k + 1), Limit)
      /\ error = ErrorBehind(k)
=============================================================================
