----------------------------- MODULE TextBuffer -----------------------------
(***************************************************************************)
(* The caller's buffer and the calls that write into it: the printers,     *)
(* which fill one of their own or one that the caller allocated, and       *)
(* cJSON_Minify.                                                           *)
(***************************************************************************)
EXTENDS Minify

VARIABLES
  room,      \* the size that the buffer was allocated with
  original   \* the text that Minify was last called on, while it is in the buffer

bufferVars == <<minifyVars, room, original>>

\* cJSON_Print and its like: a new buffer, which the text and its NUL fill.
HoldText(text) ==
  /\ place = "idle"
  /\ cell' = Append(text, 0)
  /\ room' = Len(text) + 1
  /\ original' = <<>>
  /\ UNCHANGED <<read, write, place>>

\* (Mutant of Fits: the NUL is not counted.)
FitsText(text, length) == length > 0 /\ Len(text) <= length

Fits(text, length) == length > 0 /\ Len(text) + 1 <= length

\* text and a NUL written over the first bytes of a buffer.
Overwrite(buffer, text) ==
  [i \in 1..Max({Len(buffer), Len(text) + 1}) |->
     IF i <= Len(text) THEN text[i] ELSE IF i = Len(text) + 1 THEN 0 ELSE buffer[i]]

\* cJSON_PrintPreallocated, into a new buffer full of something else. (A call
\* that is refused touches nothing.)
PrintInto(text, length) ==
  /\ place = "idle"
  /\ Fits(text, length)
  /\ cell' = Overwrite([i \in 1..length |-> Star], text)
  /\ room' = length
  /\ original' = <<>>
  /\ UNCHANGED <<read, write, place>>

\* The caller ends its text at a place of its own.
EndTextAt(offset) ==
  /\ place = "idle"
  /\ cell' = [cell EXCEPT ![offset + 1] = 0]
  /\ original' = <<>>
  /\ UNCHANGED <<read, write, place, room>>

StartMinify ==
  /\ place = "idle"
  /\ place' = "text"
  /\ read' = 0
  /\ write' = 0
  /\ original' = CText(cell)
  /\ UNCHANGED <<cell, room>>

RunMinify == MinifyStep /\ UNCHANGED <<room, original>>

-----------------------------------------------------------------------------
BufferInit ==
  /\ \E text \in Seq(Bytes) : cell = Append(text, 0)
  /\ room = Len(cell)
  /\ read = 0 /\ write = 0 /\ place = "idle" /\ original = <<>>

BufferNext ==
  \/ \E text \in Seq(Bytes) : HoldText(text) \/ \E length \in Nat : PrintInto(text, length)
  \/ \E offset \in 0..(Len(cell) - 1) : EndTextAt(offset)
  \/ StartMinify
  \/ RunMinify

BufferSpec == BufferInit /\ [][BufferNext]_bufferVars

-----------------------------------------------------------------------------
\* No call writes past the end of a buffer, and none leaves it without a NUL,
\* on which the next reader counts.
\* (cJSON_PrintPreallocated's check of length, minify_in_place)
TextEndsInBuffer == Len(cell) = room /\ \E i \in DOMAIN cell : cell[i] = 0

\* The quote at e, in the string that begins at b, is escaped: an odd number of
\* backslashes is before it.
IsEscaped(s, b, e) ==
  (e - 1 - Max({i \in b..(e - 1) : s[i] # Backslash})) % 2 = 1

\* Where the string, the comment or the other byte ends that begins at b.
UnitEnd(s, b) ==
  LET Until(ends) == Min(ends \cup {Len(s)})
      Begins(second) == s[b] = Slash /\ b < Len(s) /\ s[b + 1] = second
  IN CASE s[b] = Quote -> Until({e \in (b + 1)..Len(s) : s[e] = Quote /\ ~IsEscaped(s, b, e)})
       [] Begins(Slash) -> Until({e \in (b + 1)..(Len(s) - 1) : s[e + 1] = Newline})
       [] Begins(Star) -> Until({e \in (b + 3)..Len(s) : s[e - 1] = Star /\ s[e] = Slash})
       [] OTHER -> b

\* What is left of it: of a comment nothing, nor of white space.
Unit(s, b) ==
  LET end == UnitEnd(s, b)
  IN IF s[b] \in Whitespace \/ (s[b] = Slash /\ end > b) THEN <<>> ELSE SubSeq(s, b, end)

\* s without its comments, and without white space outside strings.
Stripped(s) ==
  LET from[b \in 1..(Len(s) + 1)] ==
        IF b > Len(s) THEN <<>> ELSE Unit(s, b) \o from[UnitEnd(s, b) + 1]
  IN from[1]

\* Minify leaves the text without comments and blanks, whatever the text was.
\* (minify_in_place)
MinifyStrips == place = "idle" /\ original # <<>> => CText(cell) = Stripped(original)
=============================================================================
