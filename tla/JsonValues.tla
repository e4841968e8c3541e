----------------------------- MODULE JsonValues -----------------------------
(***************************************************************************)
(* What the library does with values and trees without changing them: the  *)
(* conversions between them, the printers, and cJSON_Compare.              *)
(***************************************************************************)
EXTENDS JsonBytes, SequencesExt

\* What a tree may hold that a value cannot: the kinds "raw" and "invalid",
\* the number NaN, a NULL string, a string that is not UTF-8.
NaN == <<78, 97, 78>>
NullText == <<None>>

\* CStr::to_str succeeds.
RECURSIVE IsUtf8(_)
IsUtf8(s) ==
  s = <<>> \/ LET n == Utf8Length(Head(s))
              IN /\ n \in 1..Len(s)
                 /\ n = 1 \/ IsUtf8Char(SubSeq(s, 1, n))
                 /\ IsUtf8(SubSeq(s, n + 1, Len(s)))

-----------------------------------------------------------------------------
(* Conversions *)

\* value_to_cjson, as far as a reader of the tree can tell.
RECURSIVE ToNode(_)
ToNode(v) ==
  Value(v.kind, CText(v.text), [i \in DOMAIN v.keys |-> CText(v.keys[i])],
        [i \in DOMAIN v.kids |-> ToNode(v.kids[i])])

Readable(s) == s = NullText \/ IsUtf8(s)
OrEmpty(s) == IF s = NullText THEN <<>> ELSE s

\* cjson_to_value: None if anything below is invalid or not UTF-8.
RECURSIVE ToValue(_)
ToValue(n) ==
  LET kids == [i \in DOMAIN n.kids |-> ToValue(n.kids[i])]
      keys == [i \in DOMAIN n.keys |-> OrEmpty(n.keys[i])]
  IN IF \/ n.kind = "invalid"
        \/ n.kind \in {"string", "raw"} /\ ~Readable(n.text)
        \/ \E i \in DOMAIN keys : ~IsUtf8(keys[i])
        \/ \E i \in DOMAIN kids : kids[i] = NoValue
     THEN NoValue
     ELSE Value(IF n.kind = "raw" THEN "string" ELSE n.kind, OrEmpty(n.text), keys, kids)

-----------------------------------------------------------------------------
(* Printers *)

Names ==
  [kind \in {"null", "true", "false"} |->
     CASE kind = "null" -> <<110, 117, 108, 108>>
       [] kind = "true" -> <<116, 114, 117, 101>>
       [] OTHER -> <<102, 97, 108, 115, 101>>]

Repeat(b, n) == [i \in 1..n |-> b]

\* parts with sep between them.
Join(parts, sep) ==
  FlattenSeq([i \in DOMAIN parts |-> (IF i = 1 THEN <<>> ELSE sep) \o parts[i]])

HexDigit(d) == IF d < 10 THEN 48 + d ELSE 87 + d

\* (Mutant of EscapedByte: control characters without a short form as they are.)
EscapedByteRaw(b) ==
  IF \E e \in DOMAIN Escapes : Escapes[e] = b /\ e # Slash
  THEN <<Backslash, CHOOSE e \in DOMAIN Escapes : Escapes[e] = b>>
  ELSE <<b>>

\* write_string, write_escaped: one character.
EscapedByte(b) ==
  IF \E e \in DOMAIN Escapes : Escapes[e] = b /\ e # Slash
  THEN <<Backslash, CHOOSE e \in DOMAIN Escapes : Escapes[e] = b>>
  ELSE IF b \in Controls
  THEN <<Backslash, LetterU, Zero, Zero, HexDigit(b \div 16), HexDigit(b % 16)>>
  ELSE <<b>>

Quoted(s) == <<Quote>> \o FlattenSeq([i \in DOMAIN s |-> EscapedByte(s[i])]) \o <<Quote>>

\* Numbers that are not finite have no text in JSON.
NumberText(s) == IF s = NaN THEN Names["null"] ELSE s

\* serialise: compact, for cJSON_PrintUnformatted.
RECURSIVE Serialise(_)
Serialise(v) ==
  LET Member(i) == Quoted(v.keys[i]) \o <<58>> \o Serialise(v.kids[i])
  IN CASE v.kind = "array" -> <<91>> \o Join([i \in DOMAIN v.kids |-> Serialise(v.kids[i])], <<44>>) \o <<93>>
       [] v.kind = "object" -> <<123>> \o Join([i \in DOMAIN v.kids |-> Member(i)], <<44>>) \o <<125>>
       [] v.kind = "string" -> Quoted(v.text)
       [] v.kind = "number" -> NumberText(v.text)
       [] OTHER -> Names[v.kind]

\* serialise_pretty: two spaces a level, a line for each element and member.
RECURSIVE SerialisePretty(_, _)
SerialisePretty(v, depth) ==
  LET Line(d) == <<Newline>> \o Repeat(32, 2 * d)
      Kid(i) == (IF v.kind = "object" THEN Quoted(v.keys[i]) \o <<58, 32>> ELSE <<>>)
                  \o SerialisePretty(v.kids[i], depth + 1)
      Lines == Line(depth + 1) \o Join([i \in DOMAIN v.kids |-> Kid(i)], <<44>> \o Line(depth + 1)) \o Line(depth)
  IN IF v.kids = <<>> THEN Serialise(v)
     ELSE IF v.kind = "array" THEN <<91>> \o Lines \o <<93>> ELSE <<123>> \o Lines \o <<125>>

\* write_cjson_pretty, for cJSON_Print: it reads the tree itself, prints a raw
\* item as it is, and what it cannot read as an empty string or null.
RECURSIVE WritePretty(_, _)
WritePretty(n, depth) ==
  LET String(s) == IF Readable(s) THEN Quoted(OrEmpty(s)) ELSE Quoted(<<>>)
      Member(i) == Repeat(9, depth + 1) \o String(n.keys[i]) \o <<58, 9>> \o WritePretty(n.kids[i], depth + 1)
  IN CASE n.kind = "array" ->
            <<91>> \o Join([i \in DOMAIN n.kids |-> WritePretty(n.kids[i], depth + 1)], <<44, 32>>) \o <<93>>
       [] n.kind = "object" /\ n.kids = <<>> -> <<123, 125>>
       [] n.kind = "object" /\ n.kids # <<>> ->
            <<123, Newline>> \o Join([i \in DOMAIN n.kids |-> Member(i)], <<44, Newline>>)
              \o <<Newline>> \o Repeat(9, depth) \o <<125>>
       [] n.kind = "string" -> String(n.text)
       [] n.kind = "raw" -> IF Readable(n.text) THEN OrEmpty(n.text) ELSE <<>>
       [] n.kind = "number" -> NumberText(n.text)
       [] OTHER -> IF n.kind = "invalid" THEN Names["null"] ELSE Names[n.kind]

\* print_impl: NullText stands for a NULL return.
Printed(n, format) ==
  IF format THEN WritePretty(n, 0)
  ELSE LET v == ToValue(n) IN IF v = NoValue THEN NullText ELSE Serialise(v)

-----------------------------------------------------------------------------
(* Comparison *)

LowerCase(s) == [i \in DOMAIN s |-> IF s[i] \in 65..90 THEN s[i] + 32 ELSE s[i]]

\* f64 equality: the two zeros are equal, NaN is not even equal to itself.
SameNumber(s, t) ==
  s # NaN /\ (s = t \/ {s, t} = {<<Zero>>, <<Minus, Zero>>})

\* (Mutant of SameSize: y may have more than x.)
SameSizeOrMore(x, y) == Len(x.kids) <= Len(y.kids)

SameSize(x, y) == Len(x.kids) = Len(y.kids)

\* compare_values: each member of x needs one that is equal in y.
RECURSIVE CompareValues(_, _, _)
CompareValues(x, y, sensitive) ==
  LET SameKey(s, t) == IF sensitive THEN s = t ELSE LowerCase(s) = LowerCase(t)
  IN /\ x.kind = y.kind
     /\ SameSize(x, y)
     /\ CASE x.kind = "number" -> SameNumber(x.text, y.text)
          [] x.kind = "array" -> \A i \in DOMAIN x.kids : CompareValues(x.kids[i], y.kids[i], sensitive)
          [] x.kind = "object" ->
               \A i \in DOMAIN x.kids : \E j \in DOMAIN y.kids :
                 SameKey(x.keys[i], y.keys[j]) /\ CompareValues(x.kids[i], y.kids[j], sensitive)
          [] OTHER -> x.text = y.text

\* cJSON_Compare
Compare(a, b, sensitive) ==
  LET x == ToValue(a)
      y == ToValue(b)
  IN x # NoValue /\ y # NoValue /\ CompareValues(x, y, sensitive)
=============================================================================
