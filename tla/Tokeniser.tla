----------------------------- MODULE Tokeniser -----------------------------
(***************************************************************************)
(* The tokeniser: one action per token, white space and the characters of  *)
(* a string one by one.  In mode "whole" (tokenise) the first error ends   *)
(* it; in mode "prefix" (tokenise_prefix) the error is swallowed and the   *)
(* tokens so far are all there are.                                        *)
(***************************************************************************)
EXTENDS JsonBytes, SequencesExt

CONSTANT
  Double(_)  \* what a number's text becomes: the text of the nearest f64, as
             \* its Display writes it, or <<>> if that is infinite

VARIABLES
  input,
  mode,    \* "whole", "prefix"
  lexer,   \* "scan" between tokens, "string" inside one, "done", "failed"
  pos,
  opened,  \* the position of the quote of the string being read
  out,     \* what has been decoded of it
  tokens,
  error    \* of the tokeniser, or later of the parser

lexVars == <<input, mode, lexer, pos, opened, out, tokens, error>>

START == [line |-> 1, column |-> 1, offset |-> 0]
NoError == [kind |-> "None", pos |-> START]

Byte(offset) == IF offset < Len(input) THEN input[offset + 1] ELSE None
Here == Byte(pos.offset)

\* The bytes between two offsets, as many as there are.
Slice(from, to) == SubSeq(input, from + 1, IF to < Len(input) THEN to ELSE Len(input))

\* p moved over n bytes that count as c columns.
Over(p, n, c) == [p EXCEPT !.offset = @ + n, !.column = @ + c]

Token(kind, text, end) == [kind |-> kind, text |-> text, pos |-> pos, end |-> end]

-----------------------------------------------------------------------------
(* Steps *)

Emit(token) ==
  /\ tokens' = Append(tokens, token)
  /\ pos' = token.end
  /\ lexer' = "scan"
  /\ out' = <<>>
  /\ UNCHANGED <<input, mode, opened, error>>

Fail(kind, p) ==
  /\ lexer' = IF mode = "prefix" THEN "done" ELSE "failed"
  /\ error' = IF mode = "prefix" THEN error ELSE [kind |-> kind, pos |-> p]
  /\ UNCHANGED <<input, mode, pos, opened, out, tokens>>

SkipWs ==
  /\ lexer = "scan"
  /\ Here \in Whitespace
  /\ pos' = IF Here = Newline
            THEN [line |-> pos.line + 1, column |-> 1, offset |-> pos.offset + 1]
            ELSE Over(pos, 1, 1)
  /\ UNCHANGED <<input, mode, lexer, opened, out, tokens, error>>

EndOfInput ==
  /\ lexer = "scan"
  /\ Here = None
  /\ lexer' = "done"
  /\ UNCHANGED <<input, mode, pos, opened, out, tokens, error>>

Punctuation ==
  [b \in {123, 125, 91, 93, 58, 44} |->
     CASE b = 123 -> "{" [] b = 125 -> "}" [] b = 91 -> "["
       [] b = 93 -> "]" [] b = 58 -> ":" [] OTHER -> ","]

Structural ==
  /\ lexer = "scan"
  /\ Here \in DOMAIN Punctuation
  /\ Emit(Token(Punctuation[Here], <<>>, Over(pos, 1, 1)))

Literals ==
  {[kind |-> "true", text |-> <<116, 114, 117, 101>>],
   [kind |-> "false", text |-> <<102, 97, 108, 115, 101>>],
   [kind |-> "null", text |-> <<110, 117, 108, 108>>]}

ReadLiteral ==
  /\ lexer = "scan"
  /\ \E word \in Literals :
       /\ Here = Head(word.text)
       /\ LET n == Len(word.text)
          IN IF Slice(pos.offset, pos.offset + n) = word.text
             THEN Emit(Token(word.kind, <<>>, Over(pos, n, n)))
             ELSE Fail("InvalidLiteral", pos)

UnknownByte ==
  /\ lexer = "scan"
  /\ Here \notin Whitespace \cup DOMAIN Punctuation \cup Digits \cup {None, Quote, Minus}
  /\ \A word \in Literals : Here # Head(word.text)
  /\ Fail("UnexpectedChar", pos)

-----------------------------------------------------------------------------
(* Numbers *)

\* Where the run of digits that starts at this offset ends.
DigitsEnd(offset) ==
  Min({e \in offset..Len(input) : Byte(e) \notin Digits})

\* Where the integer, fraction and exponent that may start at the offset end;
\* None if what starts there breaks off.
IntEnd(offset) ==
  IF Byte(offset) = Zero THEN offset + 1
  ELSE IF Byte(offset) \in Digits THEN DigitsEnd(offset) ELSE None
FracEnd(offset) ==
  IF Byte(offset) # Dot THEN offset
  ELSE IF Byte(offset + 1) \in Digits THEN DigitsEnd(offset + 1) ELSE None
\* (Mutant of ExpEnd: no sign before an exponent.)
ExpEndUnsigned(offset) ==
  IF Byte(offset) \notin Exponents THEN offset
  ELSE IF Byte(offset + 1) \in Digits THEN DigitsEnd(offset + 1) ELSE None

ExpEnd(offset) ==
  IF Byte(offset) \notin Exponents THEN offset
  ELSE LET first == offset + (IF Byte(offset + 1) \in Signs THEN 2 ELSE 1)
       IN IF Byte(first) \in Digits THEN DigitsEnd(first) ELSE None

NumberEnd(offset) ==
  LET int == IntEnd(offset + (IF Byte(offset) = Minus THEN 1 ELSE 0))
      frac == IF int = None THEN None ELSE FracEnd(int)
  IN IF frac = None THEN None ELSE ExpEnd(frac)

ReadNumber ==
  /\ lexer = "scan"
  /\ Here \in Digits \cup {Minus}
  /\ LET end == NumberEnd(pos.offset)
         n == end - pos.offset
         value == Double(Slice(pos.offset, end))
     IN IF end = None THEN Fail("InvalidNumber", pos)
        ELSE IF value = <<>> THEN Fail("NumberOutOfRange", pos)
        ELSE Emit(Token("number", value, Over(pos, n, n)))

-----------------------------------------------------------------------------
(* Strings *)

OpenString ==
  /\ lexer = "scan"
  /\ Here = Quote
  /\ lexer' = "string"
  /\ opened' = pos
  /\ pos' = Over(pos, 1, 1)
  /\ UNCHANGED <<input, mode, out, tokens, error>>

CloseString ==
  /\ lexer = "string"
  /\ Here = Quote
  /\ Emit([Token("string", out, Over(pos, 1, 1)) EXCEPT !.pos = opened])

\* A character that stands in the text as n bytes and one or more columns.
Push(char, n, c) ==
  /\ out' = out \o char
  /\ pos' = Over(pos, n, c)
  /\ UNCHANGED <<input, mode, lexer, opened, tokens, error>>

\* (Mutant of UnterminatedString: the loop waits for a quote.)
UnterminatedStringWaits ==
  /\ lexer = "string"
  /\ Here = None
  /\ UNCHANGED lexVars

UnterminatedString ==
  /\ lexer = "string"
  /\ Here = None
  /\ Fail("UnexpectedEof", opened)

ControlChar ==
  /\ lexer = "string"
  /\ Here \in Controls
  /\ Fail("UnexpectedChar", pos)

PlainChar ==
  /\ lexer = "string"
  /\ Here \in 32..127 \ {Quote, Backslash}
  /\ Push(<<Here>>, 1, 1)

Utf8Char ==
  /\ lexer = "string"
  /\ Here >= 128
  /\ LET n == Utf8Length(Here)
         char == Slice(pos.offset, pos.offset + n)
     IN IF n > 0 /\ pos.offset + n <= Len(input) /\ IsUtf8Char(char)
        THEN Push(char, n, 1)
        ELSE Fail("InvalidUtf8", pos)

SimpleEscape ==
  /\ lexer = "string"
  /\ Here = Backslash
  /\ Byte(pos.offset + 1) # LetterU
  /\ LET esc == Byte(pos.offset + 1)
     IN IF esc = None THEN Fail("UnexpectedEof", pos)
        ELSE IF esc \in DOMAIN Escapes THEN Push(<<Escapes[esc]>>, 2, 2)
        ELSE Fail("InvalidEscape", pos)

\* read_hex4: the four digits at the offset, or what is wrong with the first
\* byte among them that is none.
Hex4(offset) ==
  LET wrong == {k \in 0..3 : Byte(offset + k) \notin HexDigits}
      V(k) == HexValue(Byte(offset + k))
  IN IF wrong = {}
     THEN [fault |-> "None", code |-> 4096 * V(0) + 256 * V(1) + 16 * V(2) + V(3)]
     ELSE [fault |-> IF Byte(offset + Min(wrong)) = None
                     THEN "UnexpectedEof" ELSE "InvalidUnicodeEscape",
           code |-> 0]

\* (Mutant of UnicodeEscape: any \u escape may follow a high surrogate.)
UnicodeEscapeLax ==
  /\ lexer = "string"
  /\ Here = Backslash
  /\ Byte(pos.offset + 1) = LetterU
  /\ LET high == Hex4(pos.offset + 2)
         low == Hex4(pos.offset + 8)
         joined == (high.code % 1024) * 1024 + (low.code % 1024) + 65536
     IN IF high.fault # "None" THEN Fail(high.fault, pos)
        ELSE IF high.code \in LowSurrogates THEN Fail("InvalidSurrogatePair", pos)
        ELSE IF high.code \notin HighSurrogates THEN Push(Encode(high.code), 6, 6)
        ELSE IF low.fault # "None" THEN Fail(low.fault, pos)
        ELSE Push(Encode(joined), 12, 12)

UnicodeEscape ==
  /\ lexer = "string"
  /\ Here = Backslash
  /\ Byte(pos.offset + 1) = LetterU
  /\ LET high == Hex4(pos.offset + 2)
         low == Hex4(pos.offset + 8)
         paired == Byte(pos.offset + 6) = Backslash /\ Byte(pos.offset + 7) = LetterU
         joined == 65536 + (high.code - 55296) * 1024 + (low.code - 56320)
     IN IF high.fault # "None" THEN Fail(high.fault, pos)
        ELSE IF high.code \in LowSurrogates THEN Fail("InvalidSurrogatePair", pos)
        ELSE IF high.code \notin HighSurrogates THEN Push(Encode(high.code), 6, 6)
        ELSE IF ~paired THEN Fail("InvalidSurrogatePair", pos)
        ELSE IF low.fault # "None" THEN Fail(low.fault, pos)
        ELSE IF low.code \notin LowSurrogates THEN Fail("InvalidSurrogatePair", pos)
        ELSE Push(Encode(joined), 12, 12)

-----------------------------------------------------------------------------
InString ==
  CloseString \/ UnterminatedString \/ ControlChar \/ PlainChar
    \/ Utf8Char \/ SimpleEscape \/ UnicodeEscape

Tokenise ==
  SkipWs \/ EndOfInput \/ Structural \/ ReadLiteral \/ UnknownByte
    \/ ReadNumber \/ OpenString \/ InString
=============================================================================
