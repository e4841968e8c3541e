------------------------------- MODULE Minify -------------------------------
(***************************************************************************)
(* minify_in_place: one buffer, read and written by two pointers that run  *)
(* through it together.  One step per round of the loops.                  *)
(***************************************************************************)
EXTENDS JsonBytes

VARIABLES
  cell,   \* the caller's buffer, to the NUL at its end
  read,   \* offsets in it
  write,
  place   \* "idle", "text", "string", "line" or "block" comment

minifyVars == <<cell, read, write, place>>

Cell(offset) == cell[offset + 1]

\* (Mutant of Copied: one place too far.)
CopiedAhead(n) == [cell EXCEPT ![write + 2] = Cell(read)]

\* The next n bytes are copied one after the other.
Copied(n) ==
  LET one == [cell EXCEPT ![write + 1] = Cell(read)]
  IN IF n = 1 THEN one ELSE [one EXCEPT ![write + 2] = one[read + 2]]

CopyBytes(n, to) ==
  /\ cell' = Copied(n)
  /\ read' = read + n
  /\ write' = write + n
  /\ place' = to

SkipBytes(n, to) ==
  /\ read' = read + n
  /\ place' = to
  /\ UNCHANGED <<cell, write>>

CommentStarts(second) == Cell(read) = Slash /\ Cell(read + 1) = second

SkipBlank == place = "text" /\ Cell(read) \in Whitespace /\ SkipBytes(1, "text")

QuoteOpens == place = "text" /\ Cell(read) = Quote /\ CopyBytes(1, "string")

\* (Mutant of StringByte: a backslash takes the NUL along.)
StringBytePastEnd ==
  /\ place = "string"
  /\ Cell(read) \notin {0, Quote}
  /\ CopyBytes(IF Cell(read) = Backslash THEN 2 ELSE 1, "string")

\* (Mutant of StringByte: a backslash is copied without what it escapes.)
StringByteAlone ==
  /\ place = "string"
  /\ Cell(read) \notin {0, Quote}
  /\ CopyBytes(1, "string")

\* A backslash takes the next byte along, unless that is the NUL.
StringByte ==
  /\ place = "string"
  /\ Cell(read) \notin {0, Quote}
  /\ CopyBytes(IF Cell(read) = Backslash /\ Cell(read + 1) # 0 THEN 2 ELSE 1, "string")

QuoteCloses == place = "string" /\ Cell(read) = Quote /\ CopyBytes(1, "text")
StringBreaksOff == place = "string" /\ Cell(read) = 0 /\ SkipBytes(0, "text")

LineComment == place = "text" /\ CommentStarts(Slash) /\ SkipBytes(0, "line")
LineGoesOn == place = "line" /\ Cell(read) \notin {0, Newline} /\ SkipBytes(1, "line")
LineEnds == place = "line" /\ Cell(read) \in {0, Newline} /\ SkipBytes(0, "text")

BlockComment == place = "text" /\ CommentStarts(Star) /\ SkipBytes(2, "block")

BlockCloses == Cell(read) = Star /\ Cell(read + 1) = Slash
BlockGoesOn == place = "block" /\ Cell(read) # 0 /\ ~BlockCloses /\ SkipBytes(1, "block")
BlockEnds == place = "block" /\ Cell(read) # 0 /\ BlockCloses /\ SkipBytes(2, "text")
BlockBreaksOff == place = "block" /\ Cell(read) = 0 /\ SkipBytes(0, "text")

OtherByte ==
  /\ place = "text"
  /\ Cell(read) \notin Whitespace \cup {0, Quote}
  /\ Cell(read) = Slash => Cell(read + 1) \notin {Slash, Star}
  /\ CopyBytes(1, "text")

Terminate ==
  /\ place = "text"
  /\ Cell(read) = 0
  /\ cell' = [cell EXCEPT ![write + 1] = 0]
  /\ place' = "idle"
  /\ UNCHANGED <<read, write>>

MinifyStep ==
  SkipBlank \/ QuoteOpens \/ StringByte \/ QuoteCloses \/ StringBreaksOff
    \/ LineComment \/ LineGoesOn \/ LineEnds
    \/ BlockComment \/ BlockGoesOn \/ BlockEnds \/ BlockBreaksOff
    \/ OtherByte \/ Terminate

\* A call, on any buffer with a NUL in it.
MinifyInit ==
  /\ cell \in Seq(Bytes)
  /\ \E i \in DOMAIN cell : cell[i] = 0
  /\ read = 0 /\ write = 0
  /\ place = "text"

MinifySpec == MinifyInit /\ [][MinifyStep]_minifyVars

-----------------------------------------------------------------------------
\* The two pointers stay within the buffer, the writing one never overtakes,
\* and a NUL lies ahead on which every loop stops.
PointersInBuffer ==
  place # "idle" =>
    /\ write \in 0..read
    /\ read \in 0..(Len(cell) - 1)
    /\ \E ahead \in read..(Len(cell) - 1) : Cell(ahead) = 0

\* What has not been read is not written over.
\* (minify_in_place works in place; only the last step writes at the NUL)
UnreadIntact ==
  [][place # "idle" /\ place' # "idle" =>
       \A i \in (read' + 1)..Len(cell) : cell'[i] = cell[i]]_minifyVars
=============================================================================
