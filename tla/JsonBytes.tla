----------------------------- MODULE JsonBytes -----------------------------
(***************************************************************************)
(* The bytes that the tokeniser, the printers and Minify tell apart, and   *)
(* UTF-8.  A text is a sequence of bytes, and so is a Rust String.         *)
(***************************************************************************)
EXTENDS Integers, Sequences, FiniteSetsExt

Bytes == 0..255
None == -1   \* what peek() returns at the end of the input

Whitespace == {9, 10, 13, 32}
Newline == 10
Quote == 34
Backslash == 92
Slash == 47
Star == 42
Minus == 45
Dot == 46
Zero == 48
Digits == 48..57
LetterU == 117
Exponents == {69, 101}     \* E e
Signs == {43, 45}          \* + -
Controls == 0..31

\* What follows a backslash, and the character it stands for.
Escapes ==
  [b \in {34, 47, 92, 98, 102, 110, 114, 116} |->
     CASE b = 98 -> 8 [] b = 102 -> 12 [] b = 110 -> 10
       [] b = 114 -> 13 [] b = 116 -> 9 [] OTHER -> b]

HexDigits == Digits \cup 97..102 \cup 65..70
HexValue(b) == IF b \in Digits THEN b - 48 ELSE IF b >= 97 THEN b - 87 ELSE b - 55

HighSurrogates == 55296..56319   \* D800..DBFF
LowSurrogates == 56320..57343    \* DC00..DFFF

\* What a C reader sees of a string: up to the first NUL.
CText(s) == SubSeq(s, 1, Min({i \in DOMAIN s : s[i] = 0} \cup {Len(s) + 1}) - 1)

-----------------------------------------------------------------------------
(* UTF-8 *)

\* How long the character is that starts with byte b; 0 if none does.
Utf8Length(b) ==
  CASE b \in 0..127 -> 1
    [] b \in 194..223 -> 2
    [] b \in 224..239 -> 3
    [] b \in 240..244 -> 4
    [] OTHER -> 0

\* What may follow lead byte b: no overlong form, surrogate, or code point
\* above 10FFFF (core::str::from_utf8).
SecondBytes(b) ==
  CASE b = 224 -> 160..191
    [] b = 237 -> 128..159
    [] b = 240 -> 144..191
    [] b = 244 -> 128..143
    [] OTHER -> 128..191

\* s is one character of more than one byte.
IsUtf8Char(s) ==
  /\ Len(s) \in 2..4
  /\ Len(s) = Utf8Length(s[1])
  /\ s[2] \in SecondBytes(s[1])
  /\ \A i \in 3..Len(s) : s[i] \in 128..191

\* String::push of the character with this code.
Encode(code) ==
  LET Tail6(n) == 128 + ((code \div 64^n) % 64)
  IN CASE code < 128 -> <<code>>
       [] code \in 128..2047 -> <<192 + code \div 64, Tail6(0)>>
       [] code \in 2048..65535 -> <<224 + code \div 4096, Tail6(1), Tail6(0)>>
       [] OTHER -> <<240 + code \div 262144, Tail6(2), Tail6(1), Tail6(0)>>

-----------------------------------------------------------------------------
(* Values *)

\* A value, and a tree as its C reader finds it: the text of a string or
\* number, the kids of an array or object, the keys of an object's.
Value(kind, text, keys, kids) == [kind |-> kind, text |-> text, keys |-> keys, kids |-> kids]
NoValue == Value("none", <<>>, <<>>, <<>>)   \* Option::None, or NULL
Empty(kind) == Value(kind, <<>>, <<>>, <<>>)
=============================================================================
