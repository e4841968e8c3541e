---------------------------- MODULE JsonGrammar ----------------------------
(***************************************************************************)
(* RFC 8259 as a whole: which texts are JSON documents, by the tokens that *)
(* they can be cut into and the values that those spell.                   *)
(***************************************************************************)
EXTENDS JsonSyntax, JsonTokens

\* The sequences of tokens that s can be read as.
ReadingsOf(s) ==
  LET from[b \in 1..(Len(s) + 1)] ==
        IF b > Len(s) THEN {<<>>}
        ELSE (IF s[b] \in Whitespace THEN from[b + 1] ELSE {})
               \cup UNION {{<<t>> \o rest : t \in TokensOf(SubSeq(s, b, e)), rest \in from[e + 1]} :
                            e \in b..Len(s)}
  IN from[1]

IsDocument(s) == \E reading \in ReadingsOf(s) : IsWhole(reading, Limit)

-----------------------------------------------------------------------------
(* What parse_prefix's doc says *)

\* "Trailing whitespace, garbage, or extra values are allowed and ignored":
\* a text that begins with a JSON document is accepted. (parse_prefix; 0. and
\* 0e are not, because the garbage spoils the only token.)
PrefixIgnoresWhatFollows ==
  mode = "prefix" /\ parser = "failed" =>
    \A n \in 1..Len(input) : ~IsDocument(SubSeq(input, 1, n))
=============================================================================
