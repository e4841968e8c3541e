---------------------------- MODULE MCCJsonText ----------------------------
(* Instances of the text calls for TLC. *)
EXTENDS MCJsonText, CJsonText

\* A string or number, an array, an object with these keys, a literal.
Str(text) == Value("string", text, <<>>, <<>>)
Num(text) == Value("number", text, <<>>, <<>>)
Arr(kids) == Value("array", <<>>, <<>>, kids)
Obj(keys, kids) == Value("object", <<>>, keys, kids)

A == <<97>>
UpperA == <<65>>
Zero0 == Num(<<48>>)

\* Two objects with their members in another order, one with the same keys in
\* another case, a key twice; controls, quotes and a character of two bytes;
\* nested deeper than a parse may; and what no parse makes.
MCTrees ==
  {Obj(<<A, UpperA>>, <<Zero0, Str(A)>>),
   Obj(<<UpperA, A>>, <<Str(A), Zero0>>),
   Obj(<<A, A>>, <<Zero0, Zero0>>),
   Obj(<<A, UpperA>>, <<Zero0, Zero0>>),
   Obj(<<A>>, <<Arr(<<Zero0, Empty("null")>>)>>),
   Str(<<1, 10, 34, 92, 47, 127, 195, 169, 31>>),
   Arr(<<Arr(<<Arr(<<>>)>>)>>),
   Arr(<<Num(NaN), Num(<<45, 48>>), Empty("true")>>),
   Obj(<<NullText, A>>, <<Str(NullText), Value("raw", <<49>>, <<>>, <<>>)>>),
   Obj(<<A>>, <<Str(<<255>>)>>),
   Obj(<<<<195>>>>, <<Empty("invalid")>>)}

\* 0  [1,"a"] x  0 1  {"a":0,"A":[]}  [[[0]]]  [0,  "a\u0000b"  {"a\u0000":"\u0001\n"}
MCStudied ==
  {<<>>, <<32, 48>>, <<91, 49, 44, 34, 97, 34, 93, 32, 120>>, <<48, 32, 49>>, <<48, 0, 49>>,
   <<123, 34, 97, 34, 58, 48, 44, 34, 65, 34, 58, 91, 93, 125>>,
   <<91, 91, 91, 48, 93, 93, 93>>, <<91, 48, 44>>,
   <<34, 97, 92, 117, 48, 48, 48, 48, 98, 34>>,
   <<123, 34, 97, 92, 117, 48, 48, 48, 48, 34, 58, 34, 92, 117, 48, 48, 48, 49, 92, 110, 34, 125>>}
    \cup {BOM \o s : s \in {<<>>, <<91, 48, 93>>, <<91, 93, 93>>}}

\* A good one and a bad one.
MCSeconds == {<<116, 114, 117, 101>>, <<91, 49>>}

\* Of slashes, stars, quotes, backslashes, newlines, spaces and letters.
MCCommented == Texts({<<47>>, <<42>>, <<34>>, <<92>>, <<10>>, <<32>>, <<97>>}, 4)
                 \ Texts({<<10>>, <<32>>, <<97>>}, 4)

MCSlacks == {-1, 0, 1}
=============================================================================
