---------------------------- MODULE MinifyProofs ----------------------------
(***************************************************************************)
(* Theorems about Minify: on any buffer that holds a NUL, text or not, it  *)
(* stays within the buffer and never writes over what it has still to      *)
(* read.  And about TextBuffer: whatever call writes into it, a buffer is  *)
(* never written beyond, nor left without a NUL; and what Minify leaves in *)
(* it is its text without comments and blanks.                             *)
(***************************************************************************)
EXTENDS TextBuffer, SequenceTheorems, WellFoundedInduction, TLAPS

IInv ==
  /\ cell \in Seq(Bytes)
  /\ read \in Nat /\ write \in 0..read
  /\ \E ahead \in read..(Len(cell) - 1) : Cell(ahead) = 0

\* What a step does to the bytes that are not read yet.
LeavesUnread == \A i \in (read' + 1)..Len(cell) : cell'[i] = cell[i]

Safe == IInv' /\ Len(cell') = Len(cell) /\ (place' # "idle" => LeavesUnread)

-----------------------------------------------------------------------------
\* A NUL ahead is not among n bytes that are none.
LEMMA NulFurtherAhead ==
  ASSUME IInv, NEW n \in {0, 1, 2}, n >= 1 => Cell(read) # 0, n = 2 => Cell(read + 1) # 0
  PROVE  \E ahead \in (read + n)..(Len(cell) - 1) : Cell(ahead) = 0
<1>1. PICK ahead \in read..(Len(cell) - 1) : Cell(ahead) = 0
  BY DEF IInv
<1>2. read \in Nat /\ Len(cell) \in Nat /\ ahead \in Nat
  BY <1>1 DEF IInv
<1>3. n >= 1 => ahead # read
  BY <1>1
<1>4. n = 2 => ahead # read + 1
  BY <1>1
<1>5. ahead \in (read + n)..(Len(cell) - 1)
  BY <1>1, <1>2, <1>3, <1>4
<1> QED
  BY <1>1, <1>5

LEMMA SkipSafe ==
  ASSUME IInv, NEW n \in {0, 1, 2}, NEW to, SkipBytes(n, to),
         n >= 1 => Cell(read) # 0, n = 2 => Cell(read + 1) # 0
  PROVE  Safe
<1>1. PICK ahead \in (read + n)..(Len(cell) - 1) : Cell(ahead) = 0
  BY NulFurtherAhead
<1>2. read' = read + n /\ write' = write /\ cell' = cell
  BY DEF SkipBytes
<1>3. Cell(ahead)' = 0
  BY <1>1, <1>2 DEF Cell
<1>4. read' \in Nat /\ write' \in 0..read'
  BY <1>2 DEF IInv
<1>5. \E a \in read'..(Len(cell') - 1) : cell'[a + 1] = 0
  BY <1>1, <1>2 DEF Cell
<1> QED
  BY <1>2, <1>4, <1>5 DEF IInv, Safe, LeavesUnread, Cell

\* The bytes that are copied go to where the reading pointer has been.
LEMMA CopiedBehind ==
  ASSUME IInv, NEW n \in {1, 2}, read + n \in 0..(Len(cell) - 1)
  PROVE  /\ Copied(n) \in Seq(Bytes)
         /\ Len(Copied(n)) = Len(cell)
         /\ \A i \in (read + n + 1)..Len(cell) : Copied(n)[i] = cell[i]
         /\ \A i \in 1..write : Copied(n)[i] = cell[i]
         /\ \A k \in 1..n : Copied(n)[write + k] = cell[read + k]
<1>1. /\ cell \in Seq(Bytes) /\ Len(cell) \in Nat
      /\ read \in Nat /\ write \in Nat /\ write <= read
  BY DEF IInv
<1>2. read + 1 \in 1..Len(cell) /\ write + 1 \in 1..Len(cell)
  BY <1>1
<1>3. cell[read + 1] \in Bytes
  BY <1>1, <1>2
<1>4. PICK one : one = [cell EXCEPT ![write + 1] = cell[read + 1]]
  OBVIOUS
<1>5. /\ one \in Seq(Bytes)
      /\ Len(one) = Len(cell)
      /\ \A i \in 1..Len(cell) : one[i] = IF i = write + 1 THEN cell[read + 1] ELSE cell[i]
  BY <1>1, <1>2, <1>3, <1>4, ExceptSeq
<1>6. CASE n = 1
  <2>1. Copied(n) = one
    BY <1>4, <1>6 DEF Copied, Cell
  <2>2. \A i \in (read + n + 1)..Len(cell) : one[i] = cell[i]
    BY <1>1, <1>5, <1>6
  <2>3. \A i \in 1..write : one[i] = cell[i]
    BY <1>1, <1>2, <1>5
  <2>4. \A k \in 1..n : one[write + k] = cell[read + k]
    BY <1>1, <1>2, <1>5, <1>6
  <2> QED
    BY <1>5, <2>1, <2>2, <2>3, <2>4
<1>7. CASE n = 2
  <2>1. read + 2 \in 1..Len(one) /\ write + 2 \in 1..Len(one)
    BY <1>1, <1>5, <1>7
  <2>2. one[read + 2] \in Bytes
    BY <1>5, <2>1
  <2>3. PICK two : two = [one EXCEPT ![write + 2] = one[read + 2]]
    OBVIOUS
  <2>4. /\ two \in Seq(Bytes)
        /\ Len(two) = Len(one)
        /\ \A i \in 1..Len(one) : two[i] = IF i = write + 2 THEN one[read + 2] ELSE one[i]
    BY <1>5, <2>1, <2>2, <2>3, ExceptSeq
  <2>5. Copied(n) = two
    BY <1>4, <1>7, <2>3 DEF Copied, Cell
  <2>6. \A i \in (read + n + 1)..Len(cell) : two[i] = cell[i]
    BY <1>1, <1>5, <1>7, <2>4
  <2>7. \A i \in 1..write : two[i] = cell[i]
    BY <1>1, <1>2, <1>5, <2>1, <2>4
  <2>8. two[write + 1] = cell[read + 1]
    BY <1>1, <1>2, <1>5, <2>1, <2>4
  <2>9. two[write + 2] = cell[read + 2]
    BY <1>1, <1>5, <2>1, <2>4
  <2>10. \A k \in 1..n : two[write + k] = cell[read + k]
    <3>1. \A k \in 1..n : k = 1 \/ k = 2
      BY <1>7
    <3> QED
      BY <2>8, <2>9, <3>1
  <2> QED
    BY <1>5, <2>4, <2>5, <2>6, <2>7, <2>10
<1> QED
  BY <1>6, <1>7

LEMMA CopySafe ==
  ASSUME IInv, NEW n \in {1, 2}, NEW to, CopyBytes(n, to),
         Cell(read) # 0, n = 2 => Cell(read + 1) # 0
  PROVE  Safe
<1>1. PICK ahead \in (read + n)..(Len(cell) - 1) : Cell(ahead) = 0
  BY NulFurtherAhead
<1>2. read \in Nat /\ write \in 0..read /\ Len(cell) \in Nat
  BY DEF IInv
<1>3. read + n \in 0..(Len(cell) - 1)
  BY <1>1, <1>2
<1>4. read' = read + n /\ write' = write + n /\ cell' = Copied(n)
  BY DEF CopyBytes
<1>5. /\ cell' \in Seq(Bytes)
      /\ Len(cell') = Len(cell)
      /\ \A i \in (read' + 1)..Len(cell) : cell'[i] = cell[i]
  BY <1>3, <1>4, CopiedBehind
<1>6. read' \in Nat /\ write' \in 0..read'
  BY <1>2, <1>4
<1>7. ahead + 1 \in (read' + 1)..Len(cell)
  BY <1>1, <1>2, <1>4
<1>8. cell'[ahead + 1] = 0
  BY <1>1, <1>5, <1>7 DEF Cell
<1>9. \E a \in read'..(Len(cell') - 1) : cell'[a + 1] = 0
  BY <1>1, <1>4, <1>5, <1>8
<1> QED
  BY <1>5, <1>6, <1>9 DEF IInv, Safe, LeavesUnread, Cell

\* The last step writes its NUL over a byte that was read, or over a NUL.
LEMMA TerminateSafe ==
  ASSUME IInv, Terminate
  PROVE  Safe
<1>1. PICK ahead \in read..(Len(cell) - 1) : Cell(ahead) = 0
  BY DEF IInv
<1>2. /\ cell \in Seq(Bytes) /\ Len(cell) \in Nat
      /\ read \in Nat /\ write \in Nat /\ write <= read /\ ahead \in Nat
  BY <1>1 DEF IInv
<1>3. write + 1 \in 1..Len(cell) /\ ahead + 1 \in 1..Len(cell)
  BY <1>1, <1>2
<1>4. 0 \in Bytes
  BY DEF Bytes
<1>5. cell' = [cell EXCEPT ![write + 1] = 0] /\ read' = read /\ write' = write /\ place' = "idle"
  BY DEF Terminate
<1>6. /\ cell' \in Seq(Bytes)
      /\ Len(cell') = Len(cell)
      /\ \A i \in 1..Len(cell) : cell'[i] = IF i = write + 1 THEN 0 ELSE cell[i]
  BY <1>2, <1>3, <1>4, <1>5, ExceptSeq
<1>7. cell'[ahead + 1] = 0
  BY <1>1, <1>3, <1>6 DEF Cell
<1>8. \E a \in read'..(Len(cell') - 1) : cell'[a + 1] = 0
  BY <1>1, <1>5, <1>6, <1>7
<1> QED
  BY <1>2, <1>5, <1>6, <1>8 DEF IInv, Safe, Cell

\* No step reads a byte beyond a NUL.
LEMMA StepSafe ==
  ASSUME IInv, MinifyStep
  PROVE  Safe
<1>1. 0 \notin Whitespace
  BY DEF Whitespace
<1>2. Quote # 0 /\ Slash # 0 /\ Star # 0 /\ Backslash # 0
  BY DEF Quote, Slash, Star, Backslash
<1>3. CASE SkipBlank
  BY <1>1, <1>3, SkipSafe DEF SkipBlank
<1>4. CASE QuoteOpens \/ QuoteCloses
  BY <1>2, <1>4, CopySafe DEF QuoteOpens, QuoteCloses
<1>5. CASE StringByte
  <2>1. Cell(read) # 0
    BY <1>5 DEF StringByte
  <2>2. CASE Cell(read + 1) # 0 /\ CopyBytes(2, "string")
    BY <2>1, <2>2, CopySafe
  <2>3. CASE CopyBytes(1, "string")
    BY <2>1, <2>3, CopySafe
  <2> QED
    BY <1>5, <2>2, <2>3 DEF StringByte
<1>6. CASE StringBreaksOff \/ LineComment \/ LineEnds \/ BlockBreaksOff
  <2>1. \E to : SkipBytes(0, to)
    BY <1>6 DEF StringBreaksOff, LineComment, LineEnds, BlockBreaksOff
  <2> QED
    BY <2>1, SkipSafe
<1>7. CASE LineGoesOn \/ BlockGoesOn
  <2>1. Cell(read) # 0 /\ \E to : SkipBytes(1, to)
    BY <1>7 DEF LineGoesOn, BlockGoesOn
  <2> QED
    BY <2>1, SkipSafe
<1>8. CASE BlockComment \/ BlockEnds
  <2>1. Cell(read) # 0 /\ Cell(read + 1) # 0 /\ \E to : SkipBytes(2, to)
    BY <1>2, <1>8 DEF BlockComment, BlockEnds, CommentStarts, BlockCloses
  <2> QED
    BY <2>1, SkipSafe
<1>9. CASE OtherByte
  <2>1. Cell(read) # 0 /\ CopyBytes(1, "text")
    BY <1>9 DEF OtherByte
  <2> QED
    BY <2>1, CopySafe
<1>10. CASE Terminate
  BY <1>10, TerminateSafe
<1> QED
  BY <1>3, <1>4, <1>5, <1>6, <1>7, <1>8, <1>9, <1>10 DEF MinifyStep

\* What the loops need is there at the start.
LEMMA InitSound == MinifyInit => IInv
<1> SUFFICES ASSUME MinifyInit
             PROVE  IInv
  OBVIOUS
<1>1. cell \in Seq(Bytes) /\ read = 0 /\ write = 0 /\ Len(cell) \in Nat
  BY DEF MinifyInit
<1>2. PICK i \in 1..Len(cell) : cell[i] = 0
  BY <1>1 DEF MinifyInit
<1>3. i - 1 \in read..(Len(cell) - 1) /\ (i - 1) + 1 = i
  BY <1>1, <1>2
<1>4. Cell(i - 1) = 0
  BY <1>2, <1>3 DEF Cell
<1> QED
  BY <1>1, <1>3, <1>4 DEF IInv

\* It is there for ever.
LEMMA StaysSound == MinifySpec => []IInv
<1>1. IInv /\ [MinifyStep]_minifyVars => IInv'
  <2> SUFFICES ASSUME IInv, [MinifyStep]_minifyVars
               PROVE  IInv'
    OBVIOUS
  <2>1. CASE MinifyStep
    BY <2>1, StepSafe DEF Safe
  <2>2. CASE UNCHANGED minifyVars
    BY <2>2 DEF IInv, Cell, minifyVars
  <2> QED
    BY <2>1, <2>2
<1> QED
  BY <1>1, InitSound, PTL DEF MinifySpec

-----------------------------------------------------------------------------
(* Theorems *)

\* Whatever bytes the buffer holds up to its NUL, unterminated strings and
\* comments included, both pointers stay within it.
\* (minify_in_place's loops, which stop on a NUL only)
THEOREM StaysInBuffer == MinifySpec => []PointersInBuffer
<1>1. ASSUME IInv
      PROVE  PointersInBuffer
  <2>1. read \in Nat /\ Len(cell) \in Nat /\ \E ahead \in read..(Len(cell) - 1) : Cell(ahead) = 0
    BY <1>1 DEF IInv
  <2>2. read \in 0..(Len(cell) - 1)
    BY <2>1
  <2> QED
    BY <1>1, <2>1, <2>2 DEF IInv, PointersInBuffer
<1> QED
  BY <1>1, StaysSound, PTL

\* In place as it works, it reads every byte before it writes there.
\* (minify_in_place, whose two pointers share one buffer)
THEOREM ReadsBeforeWriting == MinifySpec => UnreadIntact
<1>1. ASSUME IInv, MinifyStep, place' # "idle"
      PROVE  \A i \in (read' + 1)..Len(cell) : cell'[i] = cell[i]
  BY <1>1, StepSafe DEF Safe, LeavesUnread
<1>2. IInv /\ [MinifyStep]_minifyVars =>
        [place # "idle" /\ place' # "idle" =>
           \A i \in (read' + 1)..Len(cell) : cell'[i] = cell[i]]_minifyVars
  BY <1>1
<1> QED
  BY <1>2, StaysSound, PTL DEF MinifySpec, UnreadIntact

-----------------------------------------------------------------------------
(* Whole buffers *)

BufferSound ==
  /\ cell \in Seq(Bytes)
  /\ TextEndsInBuffer
  /\ place # "idle" => IInv

\* A NUL put at a place of the buffer is in it, and nothing else is moved.
LEMMA EndTextSound ==
  ASSUME BufferSound, NEW offset \in 0..(Len(cell) - 1), EndTextAt(offset)
  PROVE  BufferSound'
<1>1. cell \in Seq(Bytes) /\ Len(cell) \in Nat /\ offset + 1 \in 1..Len(cell)
  BY DEF BufferSound
<1>2. cell' = [cell EXCEPT ![offset + 1] = 0] /\ room' = room /\ place' = "idle"
  BY DEF EndTextAt
<1>3. 0 \in Bytes
  BY DEF Bytes
<1>4. /\ cell' \in Seq(Bytes)
      /\ Len(cell') = Len(cell)
      /\ cell'[offset + 1] = 0
  BY <1>1, <1>2, <1>3, ExceptSeq
<1>5. offset + 1 \in DOMAIN cell'
  BY <1>1, <1>4
<1> QED
  BY <1>2, <1>4, <1>5 DEF BufferSound, TextEndsInBuffer

\* A new buffer is as large as its text and the NUL.
LEMMA HoldTextSound ==
  ASSUME BufferSound, NEW text \in Seq(Bytes), HoldText(text)
  PROVE  BufferSound'
<1>1. cell' = Append(text, 0) /\ room' = Len(text) + 1 /\ place' = "idle"
  BY DEF HoldText
<1>2. 0 \in Bytes
  BY DEF Bytes
<1>3. /\ cell' \in Seq(Bytes)
      /\ Len(cell') = Len(text) + 1
      /\ cell'[Len(text) + 1] = 0
      /\ Len(text) + 1 \in DOMAIN cell'
  BY <1>1, <1>2
<1> QED
  BY <1>1, <1>3 DEF BufferSound, TextEndsInBuffer

\* The larger of two numbers, of which one is known to be.
LEMMA MaxOfTwo ==
  ASSUME NEW a \in Nat, NEW b \in Nat, b <= a
  PROVE  Max({a, b}) = a
<1>1. a \in {a, b} /\ \A y \in {a, b} : a >= y
  OBVIOUS
<1>2. \A x \in {a, b} : (\A y \in {a, b} : x >= y) => x = a
  OBVIOUS
<1> QED
  BY <1>1, <1>2 DEF Max

\* A text that fits fills a part of the buffer that was offered.
LEMMA PrintIntoSound ==
  ASSUME BufferSound, NEW text \in Seq(Bytes), NEW length \in Nat, PrintInto(text, length)
  PROVE  BufferSound'
<1> DEFINE offered == [i \in 1..length |-> Star]
<1>1. cell' = Overwrite(offered, text) /\ room' = length /\ place' = "idle"
  BY DEF PrintInto
<1>2. Len(text) \in Nat /\ Len(text) + 1 <= length
  BY DEF PrintInto, Fits
<1>3. offered \in Seq(Bytes) /\ Len(offered) = length
  BY DEF Star, Bytes
<1>4. Max({Len(offered), Len(text) + 1}) = length
  BY <1>2, <1>3, MaxOfTwo
<1>5. cell' = [i \in 1..length |-> IF i <= Len(text) THEN text[i]
                                   ELSE IF i = Len(text) + 1 THEN 0 ELSE Star]
  BY <1>1, <1>4 DEF Overwrite
<1>6. \A i \in 1..length : cell'[i] \in Bytes
  <2>1. \A i \in 1..Len(text) : text[i] \in Bytes
    OBVIOUS
  <2>2. 0 \in Bytes /\ Star \in Bytes
    BY DEF Bytes, Star
  <2>3. ASSUME NEW i \in 1..length
        PROVE  cell'[i] \in Bytes
    <3>1. cell'[i] = IF i <= Len(text) THEN text[i] ELSE IF i = Len(text) + 1 THEN 0 ELSE Star
      BY <1>5, <2>3
    <3>2. i <= Len(text) => i \in 1..Len(text)
      BY <1>2, <2>3
    <3> QED
      BY <2>1, <2>2, <3>1, <3>2
  <2> QED
    BY <2>3
<1>7. cell' \in Seq(Bytes) /\ Len(cell') = length
  BY <1>5, <1>6
<1>8. Len(text) + 1 \in DOMAIN cell' /\ cell'[Len(text) + 1] = 0
  BY <1>2, <1>5
<1> QED
  BY <1>1, <1>7, <1>8 DEF BufferSound, TextEndsInBuffer

\* cJSON_Minify begins on a text that ends, as the loops need it.
LEMMA StartMinifySound ==
  ASSUME BufferSound, StartMinify
  PROVE  BufferSound'
<1>1. cell' = cell /\ room' = room /\ read' = 0 /\ write' = 0 /\ place' = "text"
  BY DEF StartMinify
<1>2. MinifyInit'
  BY <1>1 DEF MinifyInit, BufferSound, TextEndsInBuffer
<1>3. MinifyInit' => IInv'
  BY InitSound, PTL
<1> QED
  BY <1>1, <1>2, <1>3 DEF BufferSound, TextEndsInBuffer

\* A step of Minify leaves the buffer as large as it is, and a NUL ahead.
LEMMA RunMinifySound ==
  ASSUME BufferSound, RunMinify
  PROVE  BufferSound'
<1>1. place # "idle"
  BY DEF RunMinify, MinifyStep, SkipBlank, QuoteOpens, StringByte, QuoteCloses, StringBreaksOff,
     LineComment, LineGoesOn, LineEnds, BlockComment, BlockGoesOn, BlockEnds, BlockBreaksOff,
     OtherByte, Terminate
<1>2. IInv' /\ Len(cell') = Len(cell) /\ room' = room
  BY <1>1, StepSafe DEF BufferSound, RunMinify, Safe
<1>3. PICK ahead \in read'..(Len(cell') - 1) : Cell(ahead)' = 0
  BY <1>2 DEF IInv
<1>4. read' \in Nat /\ cell' \in Seq(Bytes) /\ Len(cell') \in Nat
  BY <1>2 DEF IInv
<1>5. ahead + 1 \in DOMAIN cell' /\ cell'[ahead + 1] = 0
  BY <1>3, <1>4 DEF Cell
<1> QED
  BY <1>2, <1>4, <1>5 DEF BufferSound, TextEndsInBuffer

LEMMA BufferInitSound == BufferInit => BufferSound
<1> SUFFICES ASSUME BufferInit
             PROVE  BufferSound
  OBVIOUS
<1>1. PICK text \in Seq(Bytes) : cell = Append(text, 0)
  BY DEF BufferInit
<1>2. 0 \in Bytes
  BY DEF Bytes
<1>3. cell \in Seq(Bytes) /\ Len(text) + 1 \in DOMAIN cell /\ cell[Len(text) + 1] = 0
  BY <1>1, <1>2
<1> QED
  BY <1>3 DEF BufferInit, BufferSound, TextEndsInBuffer

LEMMA BufferStaysSound == BufferSound /\ [BufferNext]_bufferVars => BufferSound'
<1> SUFFICES ASSUME BufferSound, [BufferNext]_bufferVars
             PROVE  BufferSound'
  OBVIOUS
<1>1. CASE UNCHANGED bufferVars
  BY <1>1 DEF bufferVars, minifyVars, BufferSound, TextEndsInBuffer, IInv, Cell
<1> QED
  BY <1>1, HoldTextSound, PrintIntoSound, EndTextSound, StartMinifySound, RunMinifySound
  DEF BufferNext

\* Whatever is printed into a buffer, minified or cut there, and however large
\* the buffer that the caller offers, nothing is written beyond it, and its
\* text ends in it.
\* (cJSON_PrintPreallocated's check of length, minify_in_place)
THEOREM NothingWrittenBeyond == BufferSpec => []TextEndsInBuffer
<1>1. BufferSound => TextEndsInBuffer
  BY DEF BufferSound
<1> QED
  BY <1>1, BufferInitSound, BufferStaysSound, PTL DEF BufferSpec

-----------------------------------------------------------------------------
(* Least numbers *)

\* A set of numbers that is not empty has a least one, which Min finds.
LEMMA LeastOf ==
  ASSUME NEW T \in SUBSET Nat, T # {}
  PROVE  Min(T) \in T /\ \A x \in T : Min(T) <= x
<1> DEFINE R == OpToRel(<, Nat)
<1>1. ASSUME NEW x \in Nat, NEW y \in Nat, y < x
      PROVE  <<y, x>> \in R
  BY <1>1 DEF OpToRel
<1>2. IsWellFoundedOn(R, Nat)
  BY NatLessThanWellFounded
<1> HIDE DEF R
<1>3. PICK x \in T : \A y \in T : <<y, x>> \notin R
  BY <1>2, WFMin
<1>4. \A y \in T : x =< y
  <2> TAKE y \in T
  <2>1. ~(y < x)
    BY <1>1, <1>3
  <2> QED
    BY <2>1
<1> QED
  BY <1>4 DEF Min

\* The first of these places, if it is one.
LEMMA FirstIs ==
  ASSUME NEW L \in Nat, NEW T \in SUBSET (1..L), NEW e \in T, \A x \in T : e <= x
  PROVE  Min(T \cup {L}) = e
<1>1. e \in T \cup {L} /\ \A x \in T \cup {L} : e <= x
  OBVIOUS
<1>2. \A y \in T \cup {L} : (\A x \in T \cup {L} : y <= x) => y = e
  <2> SUFFICES ASSUME NEW y \in T \cup {L}, \A x \in T \cup {L} : y <= x
               PROVE  y = e
    OBVIOUS
  <2>1. y <= e /\ e <= y /\ y \in Nat /\ e \in Nat
    BY <1>1
  <2> QED
    BY <2>1
<1> QED
  BY <1>1, <1>2 DEF Min

\* A set of numbers that has 0 and with each number the next has them all.
LEMMA NatSet ==
  ASSUME NEW S, 0 \in S, \A n \in Nat : n \in S => n + 1 \in S
  PROVE  Nat \subseteq S
<1> SUFFICES ASSUME Nat \ S # {}
             PROVE  FALSE
  OBVIOUS
<1> DEFINE x == Min(Nat \ S)
<1>1. x \in Nat \ S /\ \A y \in Nat \ S : x <= y
  BY LeastOf
<1> HIDE DEF x
<1>2. x # 0 /\ x - 1 \in Nat /\ ~(x <= x - 1)
  BY <1>1
<1>3. x - 1 \in S
  BY <1>1, <1>2
<1> QED
  BY <1>1, <1>2, <1>3

-----------------------------------------------------------------------------
(* The text without comments and blanks *)

\* Where a string ends that begins at b, and comments of both kinds.
StringEnds(s, b) == {e \in (b + 1)..Len(s) : s[e] = Quote /\ ~IsEscaped(s, b, e)}
LineEndings(s, b) == {e \in (b + 1)..(Len(s) - 1) : s[e + 1] = Newline}
BlockEndings(s, b) == {e \in (b + 3)..Len(s) : s[e - 1] = Star /\ s[e] = Slash}

BeginsLine(s, b) == s[b] = Slash /\ b < Len(s) /\ s[b + 1] = Slash
BeginsBlock(s, b) == s[b] = Slash /\ b < Len(s) /\ s[b + 1] = Star

\* Each byte begins one kind of unit.
LEMMA UnitEndIs ==
  ASSUME NEW s, NEW b
  PROVE  /\ s[b] = Quote => UnitEnd(s, b) = Min(StringEnds(s, b) \cup {Len(s)})
         /\ BeginsLine(s, b) => UnitEnd(s, b) = Min(LineEndings(s, b) \cup {Len(s)})
         /\ BeginsBlock(s, b) => UnitEnd(s, b) = Min(BlockEndings(s, b) \cup {Len(s)})
         /\ s[b] # Quote /\ ~BeginsLine(s, b) /\ ~BeginsBlock(s, b) => UnitEnd(s, b) = b
  BY DEF UnitEnd, StringEnds, LineEndings, BlockEndings, BeginsLine, BeginsBlock, Quote, Slash, Star

\* A unit ends in the text and not before it begins.
LEMMA UnitEndStays ==
  ASSUME NEW s \in Seq(Bytes), NEW b \in 1..Len(s)
  PROVE  UnitEnd(s, b) \in b..Len(s)
<1>1. Len(s) \in Nat /\ b \in Nat /\ Len(s) \in b..Len(s) /\ b \in b..Len(s)
  OBVIOUS
<1>2. ASSUME NEW T \in SUBSET (b..Len(s))
      PROVE  Min(T \cup {Len(s)}) \in b..Len(s)
  <2>1. T \cup {Len(s)} \in SUBSET Nat /\ T \cup {Len(s)} # {}
    <3>1. \A x \in b..Len(s) : x \in Nat
      BY <1>1
    <3> QED
      BY <1>1, <3>1
  <2>2. Min(T \cup {Len(s)}) \in T \cup {Len(s)}
    BY <2>1, LeastOf
  <2> QED
    BY <1>1, <2>2
<1>3. /\ StringEnds(s, b) \in SUBSET (b..Len(s))
      /\ LineEndings(s, b) \in SUBSET (b..Len(s))
      /\ BlockEndings(s, b) \in SUBSET (b..Len(s))
  BY <1>1 DEF StringEnds, LineEndings, BlockEndings
<1>4. /\ Min(StringEnds(s, b) \cup {Len(s)}) \in b..Len(s)
      /\ Min(LineEndings(s, b) \cup {Len(s)}) \in b..Len(s)
      /\ Min(BlockEndings(s, b) \cup {Len(s)}) \in b..Len(s)
  BY <1>2, <1>3
<1>5. \/ s[b] = Quote \/ BeginsLine(s, b) \/ BeginsBlock(s, b)
      \/ s[b] # Quote /\ ~BeginsLine(s, b) /\ ~BeginsBlock(s, b)
  OBVIOUS
<1> QED
  BY <1>1, <1>4, <1>5, UnitEndIs

LEMMA UnitIsText ==
  ASSUME NEW s \in Seq(Bytes), NEW b \in 1..Len(s)
  PROVE  Unit(s, b) \in Seq(Bytes)
<1>1. UnitEnd(s, b) \in b..Len(s) /\ Len(s) \in Nat
  BY UnitEndStays
<1>2. \A i \in b..UnitEnd(s, b) : s[i] \in Bytes
  BY <1>1
<1>3. SubSeq(s, b, UnitEnd(s, b)) \in Seq(Bytes)
  BY <1>1, <1>2, SubSeqProperties
<1> QED
  BY <1>3 DEF Unit

\* What is left of s from b on, if f knows that of the places after it.
After(s, f, b) == IF b > Len(s) THEN <<>> ELSE Unit(s, b) \o f[UnitEnd(s, b) + 1]
IsFrom(s, f) == f = [b \in 1..(Len(s) + 1) |-> After(s, f, b)]
From(s) == CHOOSE f : IsFrom(s, f)

\* There is such a function, found from the end of s on.
LEMMA FromSteps ==
  ASSUME NEW s \in Seq(Bytes)
  PROVE  /\ From(s)[1] = Stripped(s)
         /\ From(s)[Len(s) + 1] = <<>>
         /\ \A b \in 1..(Len(s) + 1) : From(s)[b] \in Seq(Bytes)
         /\ \A b \in 1..Len(s) : From(s)[b] = Unit(s, b) \o From(s)[UnitEnd(s, b) + 1]
<1> DEFINE L == Len(s)
           Top(n) == IF n <= L THEN L + 1 - n ELSE 1
           Knows(g, n) == \A b \in Top(n)..(L + 1) : g[b] \in Seq(Bytes) /\ g[b] = After(s, g, b)
           A == {n \in Nat : \E g : Knows(g, n)}
<1>1. L \in Nat
  OBVIOUS
<1>2. 0 \in A
  <2>1. Knows([b \in 1..(L + 1) |-> <<>>], 0)
    <3>1. Top(0)..(L + 1) = {L + 1}
      BY <1>1
    <3> QED
      BY <1>1, <3>1 DEF After
  <2> QED
    BY <2>1
<1>3. ASSUME NEW n \in Nat, n \in A
      PROVE  n + 1 \in A
  <2>1. PICK g : Knows(g, n)
    BY <1>3
  <2>2. CASE n >= L
    BY <1>1, <2>1, <2>2
  <2>3. CASE n < L
    <3> DEFINE t == L - n
               h == [b \in 1..(L + 1) |-> IF b = t THEN After(s, g, t) ELSE g[b]]
    <3>1. t \in 1..L /\ Top(n + 1) = t /\ Top(n) = t + 1
      BY <1>1, <2>3
    <3> HIDE DEF t
    <3>2. \A b \in t..L : UnitEnd(s, b) + 1 \in (t + 1)..(L + 1) /\ UnitEnd(s, b) + 1 # t
      <4> TAKE b \in t..L
      <4>1. UnitEnd(s, b) \in b..L
        BY <3>1, UnitEndStays
      <4> QED
        BY <1>1, <3>1, <4>1
    <3>3. \A b \in t..(L + 1) : After(s, h, b) = After(s, g, b)
      BY <1>1, <3>1, <3>2 DEF After
    <3>4. \A b \in (t + 1)..(L + 1) : g[b] \in Seq(Bytes) /\ g[b] = After(s, g, b) /\ b # t
      BY <1>1, <2>1, <3>1
    <3>5. After(s, g, t) \in Seq(Bytes)
      <4>1. After(s, g, t) = Unit(s, t) \o g[UnitEnd(s, t) + 1]
        BY <1>1, <3>1 DEF After
      <4>2. g[UnitEnd(s, t) + 1] \in Seq(Bytes)
        BY <1>1, <3>1, <3>2, <3>4
      <4> QED
        BY <3>1, <4>1, <4>2, UnitIsText
    <3>6. \A b \in t..(L + 1) : h[b] = After(s, g, b) /\ h[b] \in Seq(Bytes)
      <4> TAKE b \in t..(L + 1)
      <4>1. b \in 1..(L + 1)
        BY <1>1, <3>1
      <4>2. CASE b = t
        BY <3>5, <4>1, <4>2
      <4>3. CASE b # t
        BY <1>1, <3>1, <3>4, <4>1, <4>3
      <4> QED
        BY <4>2, <4>3
    <3>7. Knows(h, n + 1)
      <4> HIDE DEF h
      <4> QED
        BY <3>1, <3>3, <3>6
    <3> HIDE DEF h
    <3> QED
      BY <3>7
  <2> QED
    BY <1>1, <2>2, <2>3
<1>4. Nat \subseteq A
  <2> HIDE DEF A
  <2> QED
    BY <1>2, <1>3, NatSet
<1>5. PICK g : Knows(g, L)
  BY <1>1, <1>4
<1> DEFINE f == [b \in 1..(L + 1) |-> g[b]]
<1>6. IsFrom(s, f)
  <2>1. \A b \in 1..(L + 1) : f[b] = After(s, g, b)
    BY <1>1, <1>5
  <2>2. \A b \in 1..L : UnitEnd(s, b) + 1 \in 1..(L + 1)
    <3> TAKE b \in 1..L
    <3>1. UnitEnd(s, b) \in b..L
      BY UnitEndStays
    <3> QED
      BY <1>1, <3>1
  <2>3. \A b \in 1..(L + 1) : After(s, f, b) = After(s, g, b)
    BY <1>1, <2>2 DEF After
  <2> QED
    BY <2>1, <2>3 DEF IsFrom
<1> HIDE DEF f
<1>7. IsFrom(s, From(s))
  BY <1>6 DEF From
<1>8. From(s)[1] = Stripped(s)
  <2>1. Stripped(s) = (CHOOSE q : q = [b \in 1..(L + 1) |->
                         IF b > L THEN <<>> ELSE Unit(s, b) \o q[UnitEnd(s, b) + 1]])[1]
    BY DEF Stripped
  <2>2. From(s) = CHOOSE q : q = [b \in 1..(L + 1) |->
                    IF b > L THEN <<>> ELSE Unit(s, b) \o q[UnitEnd(s, b) + 1]]
    BY DEF From, IsFrom, After
  <2> QED
    BY <2>1, <2>2
<1> DEFINE F == From(s)
<1>9. \A b \in 1..(L + 1) : F[b] = After(s, F, b)
  BY <1>7 DEF IsFrom
<1> HIDE DEF F
<1>10. F[L + 1] = <<>>
  <2>1. L + 1 \in 1..(L + 1) /\ L + 1 > L
    BY <1>1
  <2>2. F[L + 1] = After(s, F, L + 1)
    BY <1>9, <2>1
  <2> QED
    BY <2>1, <2>2 DEF After
<1>11. \A b \in 1..L : F[b] = Unit(s, b) \o F[UnitEnd(s, b) + 1]
  <2> TAKE b \in 1..L
  <2>1. b \in 1..(L + 1) /\ ~(b > L)
    BY <1>1
  <2>2. F[b] = After(s, F, b)
    BY <1>9, <2>1
  <2> QED
    BY <2>1, <2>2 DEF After
<1>12. \A b \in 1..(L + 1) : F[b] \in Seq(Bytes)
  <2> DEFINE B == {n \in Nat : \A b \in Top(n)..(L + 1) : F[b] \in Seq(Bytes)}
  <2>1. 0 \in B
    <3>1. Top(0)..(L + 1) = {L + 1}
      BY <1>1
    <3>2. <<>> \in Seq(Bytes)
      OBVIOUS
    <3>3. \A b \in Top(0)..(L + 1) : F[b] \in Seq(Bytes)
      <4> HIDE DEF Top
      <4> QED
        BY <1>10, <3>1, <3>2
    <3> QED
      BY <3>3
  <2>2. ASSUME NEW n \in Nat, n \in B
        PROVE  n + 1 \in B
    <3> SUFFICES ASSUME NEW b \in Top(n + 1)..(L + 1), b \notin Top(n)..(L + 1)
                 PROVE  F[b] \in Seq(Bytes)
      BY <2>2
    <3>1. b \in 1..L /\ \A e \in (b + 1)..(L + 1) : e \in Top(n)..(L + 1)
      <4>1. n < L /\ Top(n) = L + 1 - n /\ Top(n + 1) = L - n
        BY <1>1
      <4>2. b = L - n
        BY <1>1, <4>1
      <4> QED
        BY <1>1, <4>1, <4>2
    <3>2. UnitEnd(s, b) \in b..L
      BY <3>1, UnitEndStays
    <3>3. F[UnitEnd(s, b) + 1] \in Seq(Bytes)
      BY <1>1, <2>2, <3>1, <3>2
    <3>4. F[b] = Unit(s, b) \o F[UnitEnd(s, b) + 1] /\ Unit(s, b) \in Seq(Bytes)
      BY <1>11, <3>1, UnitIsText
    <3>5. \A p, q \in Seq(Bytes) : p \o q \in Seq(Bytes)
      BY ConcatProperties
    <3> HIDE DEF Top
    <3> QED
      BY <3>3, <3>4, <3>5
  <2>3. Nat \subseteq B
    <3> HIDE DEF B
    <3> QED
      BY <2>1, <2>2, NatSet
  <2>4. L \in B /\ Top(L) = 1
    BY <1>1, <2>3
  <2> QED
    BY <2>4
<1> QED
  BY <1>8, <1>10, <1>11, <1>12 DEF F

-----------------------------------------------------------------------------
(* What is still to be copied *)

\* The last byte before e, in the string that begins at b, that is no backslash;
\* an even number of them follows it.
Back(s, b, e) == Max({i \in b..(e - 1) : s[i] # Backslash})
Even(s, b, e) == Back(s, b, e) \in Int /\ (e - 1 - Back(s, b, e)) % 2 = 0

\* The r bytes of s that were read end within the string that begins at b.
InString(s, b, r) ==
  /\ b \in 1..r /\ s[b] = Quote
  /\ \A e \in (b + 1)..r : e \notin StringEnds(s, b)
  /\ Even(s, b, r + 1) \/ r = Len(s)

InLine(s, b, r) ==
  /\ b \in 1..(r + 1) /\ BeginsLine(s, b)
  /\ \A i \in (b + 2)..r : s[i] # Newline

InBlock(s, b, r) ==
  /\ b \in 1..(r - 1) /\ BeginsBlock(s, b)
  /\ \A e \in (b + 3)..(r + 1) : e \notin BlockEndings(s, b)

\* What is left of s after b's unit.
Behind(s, b) == From(s)[UnitEnd(s, b) + 1]

\* What Minify has still to write when it has read r bytes of s and is at p.
Owes(s, r, p, rest) ==
  \/ p = "text" /\ rest = From(s)[r + 1]
  \/ /\ p = "string"
     /\ \E b \in 1..Len(s) :
          InString(s, b, r) /\ rest = SubSeq(s, r + 1, UnitEnd(s, b)) \o Behind(s, b)
  \/ p = "line" /\ \E b \in 1..Len(s) : InLine(s, b, r) /\ rest = Behind(s, b)
  \/ p = "block" /\ \E b \in 1..Len(s) : InBlock(s, b, r) /\ rest = Behind(s, b)

\* It reads n bytes and goes to p, and writes them too if kept.
Goes(s, r, n, p, kept, rest) ==
  \E after \in Seq(Bytes) :
    /\ rest = (IF kept THEN SubSeq(s, r + 1, r + n) ELSE <<>>) \o after
    /\ Owes(s, r + n, p, after)

\* So it does from p on, wherever its unit began.
Leads(s, r, n, p, q, kept) ==
  \A rest \in Seq(Bytes) : Owes(s, r, p, rest) => Goes(s, r, n, q, kept, rest)

-----------------------------------------------------------------------------
(* Between units *)

LEMMA BehindIsText ==
  ASSUME NEW s \in Seq(Bytes), NEW b \in 1..Len(s)
  PROVE  Behind(s, b) \in Seq(Bytes)
<1>1. UnitEnd(s, b) \in b..Len(s) /\ Len(s) \in Nat
  BY UnitEndStays
<1>2. UnitEnd(s, b) + 1 \in 1..(Len(s) + 1)
  BY <1>1
<1> QED
  BY <1>2, FromSteps DEF Behind

\* Nothing is copied.
LEMMA GoesWithout ==
  ASSUME NEW s, NEW r, NEW n, NEW p, NEW rest \in Seq(Bytes), Owes(s, r + n, p, rest)
  PROVE  Goes(s, r, n, p, FALSE, rest)
<1>1. rest = <<>> \o rest
  BY ConcatEmptySeq
<1> QED
  BY <1>1 DEF Goes

\* A blank, or any other byte.
LEMMA OtherGoes ==
  ASSUME NEW s \in Seq(Bytes), NEW r \in 0..(Len(s) - 1),
         s[r + 1] # Quote, ~BeginsLine(s, r + 1), ~BeginsBlock(s, r + 1)
  PROVE  Goes(s, r, 1, "text", s[r + 1] \notin Whitespace, From(s)[r + 1])
<1> DEFINE b == r + 1
           after == From(s)[b + 1]
<1>1. Len(s) \in Nat /\ b \in 1..Len(s) /\ b + 1 \in 1..(Len(s) + 1)
  OBVIOUS
<1>2. UnitEnd(s, b) = b
  BY UnitEndIs
<1>3. after \in Seq(Bytes) /\ From(s)[b] = Unit(s, b) \o after
  BY <1>1, <1>2, FromSteps
<1>4. Unit(s, b) = IF s[b] \notin Whitespace THEN SubSeq(s, b, b) ELSE <<>>
  BY <1>1, <1>2 DEF Unit
<1>5. Owes(s, r + 1, "text", after)
  BY DEF Owes
<1> QED
  BY <1>3, <1>4, <1>5 DEF Goes

\* A string begins.
LEMMA QuoteOpensGoes ==
  ASSUME NEW s \in Seq(Bytes), NEW r \in 0..(Len(s) - 1), s[r + 1] = Quote
  PROVE  Goes(s, r, 1, "string", TRUE, From(s)[r + 1])
<1> DEFINE b == r + 1
           u == UnitEnd(s, b)
           after == SubSeq(s, b + 1, u) \o Behind(s, b)
<1>1. Len(s) \in Nat /\ b \in 1..Len(s) /\ u \in b..Len(s)
  BY UnitEndStays
<1>2. Unit(s, b) = SubSeq(s, b, u)
  <2>1. s[b] \notin Whitespace /\ s[b] # Slash
    BY DEF Quote, Whitespace, Slash
  <2> QED
    BY <2>1 DEF Unit
<1>3. From(s)[b] = SubSeq(s, b, u) \o Behind(s, b)
  BY <1>1, <1>2, FromSteps DEF Behind
<1>4. SubSeq(s, b, b) \o SubSeq(s, b + 1, u) = SubSeq(s, b, u)
  BY <1>1, ConcatAdjacentSubSeq
<1>5. /\ SubSeq(s, b, b) \in Seq(Bytes) /\ SubSeq(s, b + 1, u) \in Seq(Bytes)
      /\ Behind(s, b) \in Seq(Bytes)
  <2>1. /\ \A i \in b..b : s[i] \in Bytes
        /\ \A i \in (b + 1)..u : s[i] \in Bytes
    BY <1>1
  <2>2. b \in Int /\ b + 1 \in Int /\ u \in Int
    BY <1>1
  <2> HIDE DEF b, u
  <2> QED
    BY <1>1, <2>1, <2>2, SubSeqProperties, BehindIsText
<1>6. From(s)[b] = SubSeq(s, b, b) \o after /\ after \in Seq(Bytes)
  <2> DEFINE one == SubSeq(s, b, b)
             more == SubSeq(s, b + 1, u)
             behind == Behind(s, b)
  <2>1. one \in Seq(Bytes) /\ more \in Seq(Bytes) /\ behind \in Seq(Bytes)
    BY <1>5
  <2>2. From(s)[b] = (one \o more) \o behind
    BY <1>3, <1>4
  <2> HIDE DEF one, more, behind
  <2>3. (one \o more) \o behind = one \o (more \o behind)
    BY <2>1, ConcatAssociative
  <2>4. more \o behind \in Seq(Bytes)
    BY <2>1, ConcatProperties
  <2> QED
    BY <2>2, <2>3, <2>4 DEF one, more, behind
<1>7. InString(s, b, b)
  <2>1. {i \in b..((b + 1) - 1) : s[i] # Backslash} = {b}
    BY <1>1 DEF Quote, Backslash
  <2>2. Back(s, b, b + 1) = b
    <3>1. \A x \in {b} : (\A y \in {b} : x >= y) <=> x = b
      BY <1>1
    <3> HIDE DEF b
    <3> QED
      BY <2>1, <3>1 DEF Back, Max
  <2>3. Even(s, b, b + 1)
    <3>1. b \in Int /\ (b + 1 - 1 - b) % 2 = 0
      BY <1>1
    <3> HIDE DEF b
    <3> QED
      BY <2>2, <3>1 DEF Even
  <2>4. (b + 1)..b = {}
    BY <1>1
  <2> QED
    BY <1>1, <2>3, <2>4 DEF InString
<1>8. Owes(s, r + 1, "string", after)
  BY <1>1, <1>7 DEF Owes
<1> QED
  BY <1>6, <1>8 DEF Goes

\* A comment begins.
LEMMA LineCommentGoes ==
  ASSUME NEW s \in Seq(Bytes), NEW r \in 0..(Len(s) - 1), BeginsLine(s, r + 1)
  PROVE  Goes(s, r, 0, "line", FALSE, From(s)[r + 1])
<1> DEFINE b == r + 1
<1>1. Len(s) \in Nat /\ b \in 1..Len(s) /\ UnitEnd(s, b) \in b..Len(s) /\ b < Len(s)
  BY UnitEndStays DEF BeginsLine
<1>2. UnitEnd(s, b) = Min(LineEndings(s, b) \cup {Len(s)})
  BY UnitEndIs
<1>3. UnitEnd(s, b) # b
  <2>1. LineEndings(s, b) \cup {Len(s)} \in SUBSET Nat
    BY <1>1 DEF LineEndings
  <2>2. UnitEnd(s, b) \in LineEndings(s, b) \cup {Len(s)}
    BY <1>2, <2>1, LeastOf
  <2> QED
    BY <1>1, <2>2 DEF LineEndings
<1>4. Unit(s, b) = <<>>
  BY <1>1, <1>3 DEF Unit, BeginsLine
<1>5. From(s)[b] = Behind(s, b) /\ Behind(s, b) \in Seq(Bytes)
  <2>1. From(s)[b] = <<>> \o Behind(s, b) /\ Behind(s, b) \in Seq(Bytes)
    BY <1>1, <1>4, FromSteps, BehindIsText DEF Behind
  <2> QED
    BY <2>1, ConcatEmptySeq
<1>6. InLine(s, b, r + 0)
  BY <1>1 DEF InLine
<1>7. Owes(s, r + 0, "line", Behind(s, b))
  BY <1>1, <1>6 DEF Owes
<1> QED
  BY <1>5, <1>7, GoesWithout

LEMMA BlockCommentGoes ==
  ASSUME NEW s \in Seq(Bytes), NEW r \in 0..(Len(s) - 1), BeginsBlock(s, r + 1)
  PROVE  Goes(s, r, 2, "block", FALSE, From(s)[r + 1])
<1> DEFINE b == r + 1
<1>1. Len(s) \in Nat /\ b \in 1..Len(s) /\ UnitEnd(s, b) \in b..Len(s) /\ b < Len(s)
  BY UnitEndStays DEF BeginsBlock
<1>2. UnitEnd(s, b) = Min(BlockEndings(s, b) \cup {Len(s)})
  BY UnitEndIs
<1>3. UnitEnd(s, b) # b
  <2>1. BlockEndings(s, b) \cup {Len(s)} \in SUBSET Nat
    BY <1>1 DEF BlockEndings
  <2>2. UnitEnd(s, b) \in BlockEndings(s, b) \cup {Len(s)}
    BY <1>2, <2>1, LeastOf
  <2> QED
    BY <1>1, <2>2 DEF BlockEndings
<1>4. Unit(s, b) = <<>>
  BY <1>1, <1>3 DEF Unit, BeginsBlock
<1>5. From(s)[b] = Behind(s, b) /\ Behind(s, b) \in Seq(Bytes)
  <2>1. From(s)[b] = <<>> \o Behind(s, b) /\ Behind(s, b) \in Seq(Bytes)
    BY <1>1, <1>4, FromSteps, BehindIsText DEF Behind
  <2> QED
    BY <2>1, ConcatEmptySeq
<1>6. InBlock(s, b, r + 2)
  BY <1>1 DEF InBlock
<1>7. Owes(s, r + 2, "block", Behind(s, b))
  BY <1>1, <1>6 DEF Owes
<1> QED
  BY <1>5, <1>7, GoesWithout

-----------------------------------------------------------------------------
(* Inside a string *)

\* Where the string ends that r bytes into s has not ended yet.
LEMMA StringEndIs ==
  ASSUME NEW s \in Seq(Bytes), NEW b \in 1..Len(s), NEW r \in 0..Len(s), InString(s, b, r)
  PROVE  /\ UnitEnd(s, b) \in r..Len(s)
         /\ r = Len(s) => UnitEnd(s, b) = r
         /\ r + 1 \in StringEnds(s, b) => UnitEnd(s, b) = r + 1
         /\ r < Len(s) => UnitEnd(s, b) \in (r + 1)..Len(s)
<1> DEFINE T == StringEnds(s, b)
<1>1. Len(s) \in Nat /\ r \in Nat /\ b <= r /\ s[b] = Quote
  BY DEF InString
<1>2. UnitEnd(s, b) = Min(T \cup {Len(s)})
  BY <1>1, UnitEndIs
<1>3. T \in SUBSET (1..Len(s)) /\ T \cup {Len(s)} \in SUBSET Nat
  BY <1>1 DEF StringEnds
<1>4. \A x \in T : r + 1 <= x
  BY <1>1 DEF InString, StringEnds
<1> HIDE DEF T
<1>5. Min(T \cup {Len(s)}) \in T \cup {Len(s)}
  BY <1>3, LeastOf
<1>6. r + 1 \in T => Min(T \cup {Len(s)}) = r + 1
  BY <1>1, <1>3, <1>4, FirstIs
<1>7. r = Len(s) => T = {}
  BY <1>1, <1>3, <1>4
<1>8. /\ UnitEnd(s, b) \in r..Len(s)
      /\ r = Len(s) => UnitEnd(s, b) = r
      /\ r < Len(s) => UnitEnd(s, b) \in (r + 1)..Len(s)
  BY <1>1, <1>2, <1>3, <1>4, <1>5, <1>7
<1> QED
  BY <1>2, <1>6, <1>8 DEF T

\* One byte further on.
LEMMA BackGoesOn ==
  ASSUME NEW s, NEW b \in Nat, NEW e \in Nat, b <= e
  PROVE  /\ s[e] # Backslash => Back(s, b, e + 1) = e
         /\ s[e] = Backslash => Back(s, b, e + 1) = Back(s, b, e)
<1> DEFINE S(n) == {i \in b..(n - 1) : s[i] # Backslash}
<1>1. ASSUME s[e] # Backslash
      PROVE  Back(s, b, e + 1) = e
  <2>1. e \in S(e + 1) /\ \A x \in S(e + 1) : x \in Int /\ x <= e
    BY <1>1
  <2>2. \A y \in S(e + 1) : (\A x \in S(e + 1) : y >= x) <=> y = e
    BY <2>1
  <2>3. Back(s, b, e + 1) = Max(S(e + 1))
    BY DEF Back
  <2> HIDE DEF S
  <2> QED
    BY <2>1, <2>2, <2>3 DEF Max
<1>2. ASSUME s[e] = Backslash
      PROVE  Back(s, b, e + 1) = Back(s, b, e)
  <2>1. S(e + 1) = S(e)
    BY <1>2
  <2>2. Back(s, b, e + 1) = Max(S(e + 1)) /\ Back(s, b, e) = Max(S(e))
    BY DEF Back
  <2> HIDE DEF S
  <2> QED
    BY <2>1, <2>2
<1> QED
  BY <1>1, <1>2

LEMMA EscapedIs ==
  ASSUME NEW s, NEW b, NEW e
  PROVE  IsEscaped(s, b, e) <=> (e - 1 - Back(s, b, e)) % 2 = 1
BY DEF IsEscaped, Back

\* So an even number of backslashes is one odd, and then even again.
LEMMA EvenGoesOn ==
  ASSUME NEW s, NEW b \in Nat, NEW e \in Nat, b < e, Even(s, b, e)
  PROVE  /\ ~IsEscaped(s, b, e)
         /\ s[e] # Backslash => Even(s, b, e + 1)
         /\ s[e] = Backslash => IsEscaped(s, b, e + 1) /\ Even(s, b, e + 2)
<1>1. Back(s, b, e) \in Int /\ (e - 1 - Back(s, b, e)) % 2 = 0
  BY DEF Even
<1>2. IsEscaped(s, b, e) <=> (e - 1 - Back(s, b, e)) % 2 = 1
  BY EscapedIs
<1>3. ~IsEscaped(s, b, e)
  BY <1>1, <1>2
<1>4. ASSUME s[e] # Backslash
      PROVE  Even(s, b, e + 1)
  <2>1. Back(s, b, e + 1) = e
    BY <1>4, BackGoesOn
  <2> QED
    BY <2>1 DEF Even
<1>5. ASSUME s[e] = Backslash
      PROVE  IsEscaped(s, b, e + 1) /\ Even(s, b, e + 2)
  <2>1. Back(s, b, e + 1) = Back(s, b, e)
    BY <1>5, BackGoesOn
  <2>2. (e - Back(s, b, e)) % 2 = 1
    BY <1>1
  <2>3. IsEscaped(s, b, e + 1)
    <3>1. PICK x \in Nat : x = e + 1
      OBVIOUS
    <3>2. IsEscaped(s, b, x) <=> (x - 1 - Back(s, b, x)) % 2 = 1
      BY EscapedIs
    <3>3. x - 1 = e /\ Back(s, b, x) = Back(s, b, e)
      BY <2>1, <3>1
    <3> QED
      BY <2>2, <3>1, <3>2, <3>3
  <2>4. e + 1 \in Nat /\ b <= e + 1 /\ (e + 1) + 1 = e + 2
    OBVIOUS
  <2>5. Back(s, b, e + 2) = e + 1 \/ Back(s, b, e + 2) = Back(s, b, e)
    <3>1. Back(s, b, (e + 1) + 1) = e + 1 \/ Back(s, b, (e + 1) + 1) = Back(s, b, e + 1)
      BY <2>4, BackGoesOn
    <3> QED
      BY <2>1, <2>4, <3>1
  <2>6. (e + 2 - 1 - (e + 1)) % 2 = 0 /\ (e + 2 - 1 - Back(s, b, e)) % 2 = 0 /\ e + 1 \in Int
    BY <1>1
  <2>7. Even(s, b, e + 2)
    BY <1>1, <2>5, <2>6 DEF Even
  <2> QED
    BY <2>3, <2>7
<1> QED
  BY <1>3, <1>4, <1>5

\* Two pieces of s in a row are one.
LEMMA PiecesJoin ==
  ASSUME NEW s \in Seq(Bytes), NEW r \in 0..Len(s), NEW n \in Nat, NEW u \in (r + n)..Len(s),
         NEW behind \in Seq(Bytes)
  PROVE  /\ SubSeq(s, r + 1, u) \o behind
              = SubSeq(s, r + 1, r + n) \o (SubSeq(s, r + n + 1, u) \o behind)
         /\ SubSeq(s, r + n + 1, u) \o behind \in Seq(Bytes)
<1> DEFINE one == SubSeq(s, r + 1, r + n)
           more == SubSeq(s, r + n + 1, u)
           all == SubSeq(s, r + 1, u)
<1>1. Len(s) \in Nat /\ r \in Nat /\ u \in Nat /\ r + n <= u /\ u <= Len(s)
  OBVIOUS
<1>2. one \o more = all
  <2>1. r + 1 \in 1..(Len(s) + 1) /\ r + n \in ((r + 1) - 1)..Len(s) /\ u \in (r + n)..Len(s)
    BY <1>1
  <2> QED
    BY <2>1, ConcatAdjacentSubSeq
<1>3. one \in Seq(Bytes) /\ more \in Seq(Bytes)
  <2>1. /\ \A i \in (r + 1)..(r + n) : s[i] \in Bytes
        /\ \A i \in (r + n + 1)..u : s[i] \in Bytes
    BY <1>1
  <2>2. r + 1 \in Int /\ r + n \in Int /\ r + n + 1 \in Int /\ u \in Int
    BY <1>1
  <2>3. one \in Seq(Bytes)
    BY <2>1, <2>2, SubSeqProperties
  <2>4. more \in Seq(Bytes)
    BY <2>1, <2>2, SubSeqProperties
  <2> QED
    BY <2>3, <2>4
<1> HIDE DEF one, more, all
<1>4. (one \o more) \o behind = one \o (more \o behind)
  BY <1>3, ConcatAssociative
<1>5. more \o behind \in Seq(Bytes)
  BY <1>3, ConcatProperties
<1> QED
  BY <1>2, <1>4, <1>5 DEF one, more, all

\* n bytes further on in a string, none of which ends it.
LEMMA StringGoes ==
  ASSUME NEW s \in Seq(Bytes), NEW b \in 1..Len(s), NEW r \in 0..Len(s), NEW n \in {1, 2},
         InString(s, b, r), InString(s, b, r + n), r + n <= Len(s)
  PROVE  Goes(s, r, n, "string", TRUE, SubSeq(s, r + 1, UnitEnd(s, b)) \o Behind(s, b))
<1> DEFINE u == UnitEnd(s, b)
           after == SubSeq(s, r + n + 1, u) \o Behind(s, b)
<1>1. Len(s) \in Nat /\ r + n \in 0..Len(s) /\ n \in Nat
  OBVIOUS
<1>2. u \in (r + n)..Len(s) /\ Behind(s, b) \in Seq(Bytes)
  BY <1>1, StringEndIs, BehindIsText
<1>3. /\ SubSeq(s, r + 1, u) \o Behind(s, b) = SubSeq(s, r + 1, r + n) \o after
      /\ after \in Seq(Bytes)
  <2> HIDE DEF u
  <2> QED
    BY <1>1, <1>2, PiecesJoin
<1>4. Owes(s, r + n, "string", after)
  BY DEF Owes
<1> QED
  BY <1>3, <1>4 DEF Goes

\* A byte of a string, and what a backslash takes along.
LEMMA StringByteGoes ==
  ASSUME NEW s \in Seq(Bytes), NEW b \in 1..Len(s), NEW r \in 0..(Len(s) - 1),
         InString(s, b, r), s[r + 1] # Quote, NEW n \in {1, 2}, r + n <= Len(s),
         n = 2 <=> s[r + 1] = Backslash /\ r + 1 < Len(s)
  PROVE  Goes(s, r, n, "string", TRUE, SubSeq(s, r + 1, UnitEnd(s, b)) \o Behind(s, b))
<1>1. /\ Len(s) \in Nat /\ r \in Nat /\ b \in Nat /\ b <= r /\ b < r + 1 /\ s[b] = Quote
      /\ \A e \in (b + 1)..r : e \notin StringEnds(s, b)
  BY DEF InString
<1>2. Even(s, b, r + 1) /\ r + 1 \in Nat
  BY <1>1 DEF InString
<1>3. r + 1 \notin StringEnds(s, b)
  BY DEF StringEnds
<1>4. s[r + 1] # Backslash => Even(s, b, (r + 1) + 1)
  BY <1>1, <1>2, EvenGoesOn
<1>5. s[r + 1] = Backslash => IsEscaped(s, b, (r + 1) + 1) /\ Even(s, b, (r + 1) + 2)
  BY <1>1, <1>2, EvenGoesOn
<1>6. b \in 1..(r + n) /\ r \in 0..Len(s)
  BY <1>1
<1>7. CASE n = 1
  <2>1. \A e \in (b + 1)..(r + 1) : e \notin StringEnds(s, b)
    <3> TAKE e \in (b + 1)..(r + 1)
    <3>1. e = r + 1 \/ e \in (b + 1)..r
      BY <1>1
    <3> QED
      BY <1>1, <1>3, <3>1
  <2>2. Even(s, b, (r + 1) + 1) \/ r + 1 = Len(s)
    BY <1>1, <1>4, <1>7
  <2>3. InString(s, b, r + n)
    BY <1>1, <1>6, <1>7, <2>1, <2>2 DEF InString
  <2> QED
    BY <1>6, <2>3, StringGoes
<1>8. CASE n = 2
  <2>1. s[r + 1] = Backslash
    BY <1>8
  <2>2. r + 2 \notin StringEnds(s, b)
    BY <1>1, <1>5, <2>1 DEF StringEnds
  <2>3. \A e \in (b + 1)..(r + 2) : e \notin StringEnds(s, b)
    <3> TAKE e \in (b + 1)..(r + 2)
    <3>1. e = r + 1 \/ e = r + 2 \/ e \in (b + 1)..r
      BY <1>1
    <3> QED
      BY <1>1, <1>3, <2>2, <3>1
  <2>4. Even(s, b, (r + 2) + 1)
    <3>1. (r + 1) + 2 = (r + 2) + 1
      BY <1>1
    <3> QED
      BY <1>5, <2>1, <3>1
  <2>5. InString(s, b, r + n)
    BY <1>1, <1>6, <1>8, <2>3, <2>4 DEF InString
  <2> QED
    BY <1>6, <2>5, StringGoes
<1> QED
  BY <1>7, <1>8

\* The quote that ends a string.
LEMMA QuoteClosesGoes ==
  ASSUME NEW s \in Seq(Bytes), NEW b \in 1..Len(s), NEW r \in 0..(Len(s) - 1),
         InString(s, b, r), s[r + 1] = Quote
  PROVE  Goes(s, r, 1, "text", TRUE, SubSeq(s, r + 1, UnitEnd(s, b)) \o Behind(s, b))
<1>1. Len(s) \in Nat /\ r \in Nat /\ b \in Nat /\ b < r + 1 /\ Even(s, b, r + 1)
  BY DEF InString
<1>2. ~IsEscaped(s, b, r + 1)
  BY <1>1, EvenGoesOn
<1>3. r + 1 \in StringEnds(s, b)
  BY <1>1, <1>2 DEF StringEnds
<1>4. UnitEnd(s, b) = r + 1
  BY <1>1, <1>3, StringEndIs
<1>5. Owes(s, r + 1, "text", Behind(s, b))
  BY <1>4 DEF Owes, Behind
<1>6. Behind(s, b) \in Seq(Bytes)
  BY BehindIsText
<1> QED
  BY <1>4, <1>5, <1>6 DEF Goes

\* A text that ends in a string.
LEMMA StringBreaksOffGoes ==
  ASSUME NEW s \in Seq(Bytes), NEW b \in 1..Len(s), InString(s, b, Len(s))
  PROVE  LET rest == SubSeq(s, Len(s) + 1, UnitEnd(s, b)) \o Behind(s, b)
         IN Goes(s, Len(s), 0, "text", FALSE, rest)
<1> DEFINE L == Len(s)
           rest == SubSeq(s, L + 1, UnitEnd(s, b)) \o Behind(s, b)
<1>1. L \in Nat /\ L \in 0..L /\ L + 0 = L
  OBVIOUS
<1>2. UnitEnd(s, b) = L
  BY <1>1, StringEndIs
<1>3. Behind(s, b) \in Seq(Bytes) /\ Behind(s, b) = From(s)[L + 1]
  BY <1>2, BehindIsText DEF Behind
<1>4. SubSeq(s, L + 1, L) = <<>>
  BY <1>1, SubSeqEmpty
<1>5. rest = Behind(s, b)
  BY <1>2, <1>3, <1>4, ConcatEmptySeq
<1>6. Owes(s, L + 0, "text", rest) /\ rest \in Seq(Bytes)
  BY <1>1, <1>3, <1>5 DEF Owes
<1> HIDE DEF L, rest
<1>7. Goes(s, L, 0, "text", FALSE, rest)
  BY <1>6, GoesWithout
<1> QED
  BY <1>7 DEF L, rest

-----------------------------------------------------------------------------
(* Inside a comment *)

\* The text goes on behind a comment of which nothing is left.
LEMMA EndsGoes ==
  ASSUME NEW s \in Seq(Bytes), NEW b \in 1..Len(s), NEW r \in Nat, NEW n \in Nat,
         UnitEnd(s, b) = r + n
  PROVE  Goes(s, r, n, "text", FALSE, Behind(s, b))
<1>1. Owes(s, r + n, "text", Behind(s, b))
  BY DEF Owes, Behind
<1> QED
  BY <1>1, BehindIsText, GoesWithout

LEMMA LineGoes ==
  ASSUME NEW s \in Seq(Bytes), NEW b \in 1..Len(s), NEW r \in 0..(Len(s) - 1),
         InLine(s, b, r), s[r + 1] # Newline
  PROVE  Goes(s, r, 1, "line", FALSE, Behind(s, b))
<1>1. InLine(s, b, r + 1)
  BY DEF InLine
<1>2. Owes(s, r + 1, "line", Behind(s, b))
  BY <1>1 DEF Owes
<1> QED
  BY <1>2, BehindIsText, GoesWithout

\* It goes to the end of its line, or of the text.
LEMMA LineEndsGoes ==
  ASSUME NEW s \in Seq(Bytes), NEW b \in 1..Len(s), NEW r \in 0..Len(s),
         InLine(s, b, r), r = Len(s) \/ s[r + 1] = Newline
  PROVE  Goes(s, r, 0, "text", FALSE, Behind(s, b))
<1> DEFINE T == LineEndings(s, b)
<1>1. /\ Len(s) \in Nat /\ r \in Nat /\ r + 0 = r /\ b \in Nat /\ b <= r + 1 /\ b < Len(s)
      /\ s[b] = Slash /\ s[b + 1] = Slash /\ Slash # Newline
      /\ \A i \in (b + 2)..r : s[i] # Newline
  BY DEF InLine, BeginsLine, Slash, Newline
<1>2. UnitEnd(s, b) = Min(T \cup {Len(s)})
  BY UnitEndIs DEF InLine
<1>3. T \in SUBSET (1..Len(s)) /\ \A x \in T : r <= x /\ x < Len(s)
  <2>1. \A x \in T : x \in (b + 1)..(Len(s) - 1) /\ s[x + 1] = Newline
    BY DEF LineEndings
  <2>2. \A x \in T : x + 1 \notin (b + 2)..r
    BY <1>1, <2>1
  <2> QED
    BY <1>1, <2>1, <2>2
<1>4. CASE r = Len(s)
  <2>1. \A y \in {Len(s)} : \A x \in {Len(s)} : y <= x
    BY <1>1
  <2>2. T = {}
    BY <1>1, <1>3, <1>4
  <2>3. UnitEnd(s, b) = Min({Len(s)})
    <3> HIDE DEF T
    <3> QED
      BY <1>2, <2>2
  <2>4. UnitEnd(s, b) = r + 0
    BY <1>1, <1>4, <2>1, <2>3 DEF Min
  <2> HIDE DEF T
  <2> QED
    BY <1>1, <2>4, EndsGoes
<1>5. CASE r < Len(s) /\ s[r + 1] = Newline
  <2>1. r # b /\ r + 1 # b
    BY <1>1, <1>5
  <2>2. r \in T
    BY <1>1, <1>5, <2>1 DEF LineEndings
  <2> HIDE DEF T
  <2>3. UnitEnd(s, b) = r + 0
    BY <1>1, <1>2, <1>3, <2>2, FirstIs
  <2> QED
    BY <1>1, <2>3, EndsGoes
<1>6. r = Len(s) \/ (r < Len(s) /\ s[r + 1] = Newline)
  BY <1>1
<1> QED
  BY <1>4, <1>5, <1>6

LEMMA BlockGoes ==
  ASSUME NEW s \in Seq(Bytes), NEW b \in 1..Len(s), NEW r \in 0..(Len(s) - 1),
         InBlock(s, b, r), ~(s[r + 1] = Star /\ r + 2 <= Len(s) /\ s[r + 2] = Slash)
  PROVE  Goes(s, r, 1, "block", FALSE, Behind(s, b))
<1>1. /\ Len(s) \in Nat /\ r \in Nat /\ b \in 1..(r - 1) /\ BeginsBlock(s, b)
      /\ \A e \in (b + 3)..(r + 1) : e \notin BlockEndings(s, b)
  BY DEF InBlock
<1>2. r + 2 \notin BlockEndings(s, b)
  BY <1>1 DEF BlockEndings
<1>3. \A e \in (b + 3)..((r + 1) + 1) : e \notin BlockEndings(s, b)
  <2> TAKE e \in (b + 3)..((r + 1) + 1)
  <2>1. e = r + 2 \/ e \in (b + 3)..(r + 1)
    BY <1>1
  <2> QED
    BY <1>1, <1>2, <2>1
<1>4. b \in 1..((r + 1) - 1)
  BY <1>1
<1>5. InBlock(s, b, r + 1)
  BY <1>1, <1>3, <1>4 DEF InBlock
<1>6. Owes(s, r + 1, "block", Behind(s, b))
  BY <1>5 DEF Owes
<1> QED
  BY <1>6, BehindIsText, GoesWithout

LEMMA BlockEndsGoes ==
  ASSUME NEW s \in Seq(Bytes), NEW b \in 1..Len(s), NEW r \in 0..(Len(s) - 2),
         InBlock(s, b, r), s[r + 1] = Star, s[r + 2] = Slash
  PROVE  Goes(s, r, 2, "text", FALSE, Behind(s, b))
<1> DEFINE T == BlockEndings(s, b)
<1>1. /\ Len(s) \in Nat /\ r \in Nat /\ b \in 1..(r - 1)
      /\ \A e \in (b + 3)..(r + 1) : e \notin T
  BY DEF InBlock
<1>2. UnitEnd(s, b) = Min(T \cup {Len(s)})
  BY UnitEndIs DEF InBlock
<1>3. T \in SUBSET (1..Len(s)) /\ \A x \in T : r + 2 <= x
  <2>1. \A x \in T : x \in (b + 3)..Len(s)
    BY DEF BlockEndings
  <2> HIDE DEF T
  <2>2. \A x \in T : x \notin (b + 3)..(r + 1)
    BY <1>1
  <2> QED
    BY <1>1, <2>1, <2>2
<1>4. r + 2 \in T
  BY <1>1 DEF BlockEndings
<1> HIDE DEF T
<1>5. UnitEnd(s, b) = r + 2
  BY <1>1, <1>2, <1>3, <1>4, FirstIs
<1> QED
  BY <1>1, <1>5, EndsGoes

LEMMA BlockBreaksOffGoes ==
  ASSUME NEW s \in Seq(Bytes), NEW b \in 1..Len(s), InBlock(s, b, Len(s))
  PROVE  Goes(s, Len(s), 0, "text", FALSE, Behind(s, b))
<1> DEFINE L == Len(s)
<1>1. L \in Nat /\ L + 0 = L
  OBVIOUS
<1>2. UnitEnd(s, b) = Min(BlockEndings(s, b) \cup {L})
  BY UnitEndIs DEF InBlock
<1>3. BlockEndings(s, b) = {}
  BY <1>1 DEF InBlock, BlockEndings
<1>4. UnitEnd(s, b) = Min({L})
  BY <1>2, <1>3
<1>5. UnitEnd(s, b) = L + 0
  <2>1. \A y \in {L} : \A x \in {L} : y <= x
    BY <1>1
  <2> HIDE DEF L
  <2> QED
    BY <1>1, <1>4, <2>1 DEF Min
<1> HIDE DEF L
<1>6. Goes(s, L, 0, "text", FALSE, Behind(s, b))
  BY <1>1, <1>5, EndsGoes
<1> QED
  BY <1>6 DEF L

-----------------------------------------------------------------------------
(* Reading and writing *)

\* r bytes of s are read and w written; the rest of s is still in the buffer
\* c, and of what is to be left of s there is still to write what Minify owes.
MidwayIn(s, c, r, w, p) ==
  /\ s \in Seq(Bytes) /\ \A i \in 1..Len(s) : s[i] # 0
  /\ r \in 0..Len(s) /\ Len(s) < Len(c)
  /\ \A i \in (r + 1)..Len(s) : c[i] = s[i]
  /\ c[Len(s) + 1] = 0
  /\ \A i \in 1..w : c[i] # 0
  /\ \E rest \in Seq(Bytes) : Stripped(s) = SubSeq(c, 1, w) \o rest /\ Owes(s, r, p, rest)

Midway == MidwayIn(original, cell, read, write, place)

\* What Minify reads is the text that it was called on, and the NUL behind it.
LEMMA ReadsOriginal ==
  ASSUME IInv, Midway
  PROVE  /\ original \in Seq(Bytes) /\ Len(original) \in Nat /\ read \in 0..Len(original)
         /\ read = Len(original) => Cell(read) = 0
         /\ read < Len(original) => Cell(read) = original[read + 1] /\ Cell(read) # 0
         /\ read + 1 = Len(original) => Cell(read + 1) = 0
         /\ read + 1 < Len(original) => Cell(read + 1) = original[read + 2] /\ Cell(read + 1) # 0
<1>1. /\ original \in Seq(Bytes) /\ Len(original) \in Nat /\ read \in 0..Len(original)
      /\ \A i \in 1..Len(original) : original[i] # 0
      /\ \A i \in (read + 1)..Len(original) : cell[i] = original[i]
      /\ cell[Len(original) + 1] = 0
  BY DEF Midway, MidwayIn
<1>2. /\ read < Len(original) => /\ read + 1 \in (read + 1)..Len(original)
                                 /\ read + 1 \in 1..Len(original)
      /\ read + 1 < Len(original) => /\ read + 2 \in (read + 1)..Len(original)
                                     /\ read + 2 \in 1..Len(original)
      /\ read \in Nat /\ (read + 1) + 1 = read + 2
  BY <1>1
<1>3. Cell(read) = cell[read + 1] /\ Cell(read + 1) = cell[read + 2]
  BY <1>2 DEF Cell
<1> QED
  BY <1>1, <1>2, <1>3

\* d is c with n bytes of s, those behind the first r, behind the first w.
Extends(c, d, w, s, r, n) ==
  /\ c \in Seq(Bytes) /\ d \in Seq(Bytes) /\ s \in Seq(Bytes)
  /\ w \in Nat /\ n \in Nat /\ r \in Nat
  /\ w + n <= Len(c) /\ Len(d) = Len(c) /\ r + n <= Len(s)
  /\ \A i \in 1..w : d[i] = c[i]
  /\ \A k \in 1..n : d[w + k] = s[r + k]

\* Then so it is in front of them.
Front(c, d, w, s, r, n) == SubSeq(d, 1, w + n) = SubSeq(c, 1, w) \o SubSeq(s, r + 1, r + n)

LEMMA PieceWritten ==
  ASSUME NEW c, NEW d, NEW w, NEW s, NEW r, NEW n, Extends(c, d, w, s, r, n)
  PROVE  Front(c, d, w, s, r, n)
<1> DEFINE old == SubSeq(c, 1, w)
           new == SubSeq(s, r + 1, r + n)
           all == SubSeq(d, 1, w + n)
<1>1. /\ Len(c) \in Nat /\ Len(s) \in Nat /\ w \in Nat /\ n \in Nat /\ r \in Nat
      /\ r + n \in Int /\ r + 1 \in Int /\ w + n \in Int
  BY DEF Extends
<1>2. /\ \A i \in 1..w : c[i] \in Bytes
      /\ \A i \in (r + 1)..(r + n) : s[i] \in Bytes
      /\ \A i \in 1..(w + n) : d[i] \in Bytes
  BY DEF Extends
<1>3. /\ \A i \in 1..w : d[i] = c[i]
      /\ \A k \in 1..n : d[w + k] = s[r + k]
  BY DEF Extends
<1>4. old \in Seq(Bytes) /\ Len(old) = w /\ \A i \in 1..w : old[i] = c[i]
  <2>1. /\ old \in Seq(Bytes) /\ Len(old) = IF 1 <= w THEN w - 1 + 1 ELSE 0
        /\ \A i \in 1..(w - 1 + 1) : old[i] = c[1 + i - 1]
    BY <1>1, <1>2, SubSeqProperties
  <2> HIDE DEF old
  <2> QED
    BY <1>1, <2>1
<1>5. new \in Seq(Bytes) /\ Len(new) = n /\ \A k \in 1..n : new[k] = s[r + k]
  <2>1. /\ new \in Seq(Bytes)
        /\ Len(new) = IF r + 1 <= r + n THEN (r + n) - (r + 1) + 1 ELSE 0
        /\ \A i \in 1..((r + n) - (r + 1) + 1) : new[i] = s[(r + 1) + i - 1]
    BY <1>1, <1>2, SubSeqProperties
  <2> HIDE DEF new
  <2>2. (r + n) - (r + 1) + 1 = n
    BY <1>1
  <2>3. Len(new) = n
    BY <1>1, <2>1
  <2>4. ASSUME NEW k \in 1..n
        PROVE  new[k] = s[r + k]
    <3>1. (r + 1) + k - 1 = r + k
      BY <1>1
    <3> QED
      BY <2>1, <2>2, <3>1
  <2> QED
    BY <2>1, <2>3, <2>4
<1>6. all \in Seq(Bytes) /\ Len(all) = w + n /\ \A i \in 1..(w + n) : all[i] = d[i]
  <2>1. /\ all \in Seq(Bytes) /\ Len(all) = IF 1 <= w + n THEN (w + n) - 1 + 1 ELSE 0
        /\ \A i \in 1..((w + n) - 1 + 1) : all[i] = d[1 + i - 1]
    BY <1>1, <1>2, SubSeqProperties
  <2> HIDE DEF all
  <2> QED
    BY <1>1, <2>1
<1> HIDE DEF old, new, all
<1>7. /\ old \o new \in Seq(Bytes)
      /\ Len(old \o new) = Len(old) + Len(new)
      /\ \A i \in 1..(Len(old) + Len(new)) :
           (old \o new)[i] = IF i <= Len(old) THEN old[i] ELSE new[i - Len(old)]
  <2>1. old \in Seq(Bytes) /\ new \in Seq(Bytes)
    BY <1>4, <1>5
  <2> QED
    BY <2>1, ConcatProperties
<1>8. ASSUME NEW i \in 1..(w + n)
      PROVE  all[i] = (old \o new)[i]
  <2>1. all[i] = d[i] /\ (old \o new)[i] = IF i <= w THEN old[i] ELSE new[i - w]
    BY <1>4, <1>5, <1>6, <1>7
  <2>2. CASE i <= w
    <3>1. i \in 1..w
      BY <1>1, <2>2
    <3> QED
      BY <1>3, <1>4, <2>1, <2>2, <3>1
  <2>3. CASE ~(i <= w)
    <3>1. i - w \in 1..n /\ w + (i - w) = i
      BY <1>1, <2>3
    <3>2. new[i - w] = s[r + (i - w)] /\ d[w + (i - w)] = s[r + (i - w)]
      BY <1>3, <1>5, <3>1
    <3>3. d[i] = s[r + (i - w)]
      BY <3>1, <3>2
    <3> QED
      BY <2>1, <2>3, <3>2, <3>3
  <2> QED
    BY <2>2, <2>3
<1>9. all = old \o new
  <2>1. all \in Seq(Bytes) /\ old \o new \in Seq(Bytes) /\ Len(all) = Len(old \o new)
        /\ \A i \in 1..Len(all) : all[i] = (old \o new)[i]
    BY <1>4, <1>5, <1>6, <1>7, <1>8
  <2> QED
    BY <2>1, SeqEqual
<1> QED
  BY <1>9 DEF Front, old, new, all

LEMMA TextsJoin == \A x, y, z \in Seq(Bytes) : (x \o y) \o z = x \o (y \o z)
BY ConcatAssociative

\* n bytes of s are read on the way from p to q, and written to d if kept.
LEMMA GoesOn ==
  ASSUME NEW s, NEW c \in Seq(Bytes), NEW d \in Seq(Bytes), NEW r \in Nat, NEW w \in 0..r,
         NEW p, NEW q, NEW n \in {0, 1, 2}, NEW kept \in BOOLEAN,
         MidwayIn(s, c, r, w, p), r + n <= Len(s), Len(d) = Len(c),
         \A i \in 1..w : d[i] = c[i], kept => \A k \in 1..n : d[w + k] = c[r + k],
         \A i \in (r + n + 1)..Len(c) : d[i] = c[i],
         Leads(s, r, n, p, q, kept)
  PROVE  MidwayIn(s, d, r + n, IF kept THEN w + n ELSE w, q)
<1> DEFINE v == IF kept THEN w + n ELSE w
           piece == IF kept THEN SubSeq(s, r + 1, r + n) ELSE <<>>
           old == SubSeq(c, 1, w)
<1>1. /\ s \in Seq(Bytes) /\ Len(s) \in Nat /\ Len(c) \in Nat /\ Len(s) < Len(c) /\ n \in Nat
      /\ w \in Nat /\ w <= r /\ r + n \in 0..Len(s) /\ v \in Nat /\ w + n <= Len(c)
      /\ \A i \in 1..Len(s) : s[i] # 0
      /\ \A i \in (r + 1)..Len(s) : c[i] = s[i]
      /\ c[Len(s) + 1] = 0
      /\ \A i \in 1..w : c[i] # 0
  BY DEF MidwayIn
<1>2. PICK rest \in Seq(Bytes) : Stripped(s) = old \o rest /\ Owes(s, r, p, rest)
  BY DEF MidwayIn
<1>3. PICK after \in Seq(Bytes) : rest = piece \o after /\ Owes(s, r + n, q, after)
  BY <1>2 DEF Goes, Leads
<1>4. kept => \A k \in 1..n : d[w + k] = s[r + k] /\ s[r + k] # 0
  <2> SUFFICES ASSUME kept, NEW k \in 1..n
               PROVE  d[w + k] = s[r + k] /\ s[r + k] # 0
    OBVIOUS
  <2>1. d[w + k] = c[r + k] /\ r + k \in (r + 1)..Len(s) /\ r + k \in 1..Len(s)
    BY <1>1
  <2> QED
    BY <1>1, <2>1
<1>5. SubSeq(d, 1, v) = old \o piece
  <2>1. CASE kept
    <3>1. Extends(c, d, w, s, r, n)
      BY <1>1, <1>4, <2>1 DEF Extends
    <3>2. Front(c, d, w, s, r, n)
      BY <3>1, PieceWritten
    <3> QED
      BY <2>1, <3>2 DEF Front
  <2>2. CASE ~kept
    <3>1. Extends(c, d, w, s, r, 0)
      BY <1>1 DEF Extends
    <3>2. Front(c, d, w, s, r, 0)
      BY <3>1, PieceWritten
    <3>3. SubSeq(s, r + 1, r) = <<>> /\ w + 0 = w /\ r + 0 = r
      BY <1>1, SubSeqEmpty
    <3> QED
      BY <2>2, <3>2, <3>3 DEF Front
  <2> QED
    BY <2>1, <2>2
<1>6. Stripped(s) = SubSeq(d, 1, v) \o after
  <2>1. old \in Seq(Bytes)
    <3>1. \A i \in 1..w : c[i] \in Bytes
      BY <1>1
    <3> QED
      BY <1>1, <3>1, SubSeqProperties
  <2>2. piece \in Seq(Bytes)
    <3>1. \A i \in (r + 1)..(r + n) : s[i] \in Bytes
      BY <1>1
    <3>2. SubSeq(s, r + 1, r + n) \in Seq(Bytes)
      BY <1>1, <3>1, SubSeqProperties
    <3>3. <<>> \in Seq(Bytes)
      OBVIOUS
    <3> QED
      BY <3>2, <3>3
  <2> HIDE DEF old, piece
  <2>3. (old \o piece) \o after = old \o (piece \o after)
    BY <1>3, <2>1, <2>2, TextsJoin
  <2> QED
    BY <1>2, <1>3, <1>5, <2>3
<1>7. \A i \in 1..v : d[i] # 0
  <2> TAKE i \in 1..v
  <2>1. CASE i <= w
    BY <1>1, <2>1
  <2>2. CASE i > w
    <3>1. kept /\ i - w \in 1..n /\ w + (i - w) = i
      BY <1>1, <2>2
    <3> QED
      BY <1>4, <3>1
  <2> QED
    BY <1>1, <2>1, <2>2
<1>8. \A i \in (r + n + 1)..Len(s) : d[i] = s[i]
  BY <1>1
<1>9. d[Len(s) + 1] = 0
  <2>1. Len(s) + 1 \in (r + n + 1)..Len(c)
    BY <1>1
  <2> QED
    BY <1>1, <2>1
<1> HIDE DEF v
<1>10. MidwayIn(s, d, r + n, v, q)
  BY <1>1, <1>3, <1>6, <1>7, <1>8, <1>9 DEF MidwayIn
<1> QED
  BY <1>10 DEF v

-----------------------------------------------------------------------------
(* Steps *)

LEMMA SkipMidway ==
  ASSUME IInv, Midway, NEW n \in {0, 1, 2}, NEW to, SkipBytes(n, to), original' = original,
         read + n <= Len(original), Leads(original, read, n, place, to, FALSE)
  PROVE  Midway'
<1>1. cell \in Seq(Bytes) /\ read \in Nat /\ write \in 0..read
  BY DEF IInv
<1>2. MidwayIn(original, cell, read, write, place)
  BY DEF Midway
<1>3. MidwayIn(original, cell, read + n, IF FALSE THEN write + n ELSE write, to)
  BY <1>1, <1>2, GoesOn
<1> QED
  BY <1>3 DEF Midway, SkipBytes

LEMMA CopyMidway ==
  ASSUME IInv, Midway, NEW n \in {1, 2}, NEW to, CopyBytes(n, to), original' = original,
         read + n <= Len(original), Leads(original, read, n, place, to, TRUE)
  PROVE  Midway'
<1>1. /\ cell \in Seq(Bytes) /\ read \in Nat /\ write \in 0..read
      /\ n \in {0, 1, 2} /\ Len(cell) \in Nat
  BY DEF IInv
<1>2. MidwayIn(original, cell, read, write, place)
  BY DEF Midway
<1>3. read + n \in 0..(Len(cell) - 1)
  <2>1. Len(original) \in Nat /\ Len(original) < Len(cell)
    BY <1>2 DEF MidwayIn
  <2> QED
    BY <1>1, <2>1
<1>4. /\ Copied(n) \in Seq(Bytes)
      /\ Len(Copied(n)) = Len(cell)
      /\ \A i \in (read + n + 1)..Len(cell) : Copied(n)[i] = cell[i]
      /\ \A i \in 1..write : Copied(n)[i] = cell[i]
      /\ \A k \in 1..n : Copied(n)[write + k] = cell[read + k]
  BY <1>3, CopiedBehind
<1>5. PICK d : d = Copied(n)
  OBVIOUS
<1>6. MidwayIn(original, d, read + n, IF TRUE THEN write + n ELSE write, to)
  BY <1>1, <1>2, <1>4, <1>5, GoesOn
<1> QED
  BY <1>5, <1>6 DEF Midway, CopyBytes

\* Between units.
LEMMA TextLeads ==
  ASSUME NEW s \in Seq(Bytes), NEW r \in 0..(Len(s) - 1)
  PROVE  /\ s[r + 1] = Quote => Leads(s, r, 1, "text", "string", TRUE)
         /\ BeginsLine(s, r + 1) => Leads(s, r, 0, "text", "line", FALSE)
         /\ BeginsBlock(s, r + 1) => Leads(s, r, 2, "text", "block", FALSE)
         /\ s[r + 1] # Quote /\ ~BeginsLine(s, r + 1) /\ ~BeginsBlock(s, r + 1)
              => Leads(s, r, 1, "text", "text", s[r + 1] \notin Whitespace)
<1>1. \A rest : Owes(s, r, "text", rest) => rest = From(s)[r + 1]
  BY DEF Owes
<1>2. s[r + 1] = Quote => Leads(s, r, 1, "text", "string", TRUE)
  BY <1>1, QuoteOpensGoes DEF Leads
<1>3. BeginsLine(s, r + 1) => Leads(s, r, 0, "text", "line", FALSE)
  BY <1>1, LineCommentGoes DEF Leads
<1>4. BeginsBlock(s, r + 1) => Leads(s, r, 2, "text", "block", FALSE)
  BY <1>1, BlockCommentGoes DEF Leads
<1>5. s[r + 1] # Quote /\ ~BeginsLine(s, r + 1) /\ ~BeginsBlock(s, r + 1)
        => Leads(s, r, 1, "text", "text", s[r + 1] \notin Whitespace)
  BY <1>1, OtherGoes DEF Leads
<1> QED
  BY <1>2, <1>3, <1>4, <1>5

\* In a string.
LEMMA StringLeads ==
  ASSUME NEW s \in Seq(Bytes), NEW r \in 0..(Len(s) - 1)
  PROVE  /\ s[r + 1] = Quote => Leads(s, r, 1, "string", "text", TRUE)
         /\ \A n \in {1, 2} :
              s[r + 1] # Quote /\ r + n <= Len(s)
                  /\ (n = 2 <=> s[r + 1] = Backslash /\ r + 1 < Len(s))
                => Leads(s, r, n, "string", "string", TRUE)
<1>1. \A rest : Owes(s, r, "string", rest) =>
        \E b \in 1..Len(s) :
          InString(s, b, r) /\ rest = SubSeq(s, r + 1, UnitEnd(s, b)) \o Behind(s, b)
  BY DEF Owes
<1>2. ASSUME s[r + 1] = Quote
      PROVE  Leads(s, r, 1, "string", "text", TRUE)
  BY <1>1, <1>2, QuoteClosesGoes DEF Leads
<1>3. ASSUME NEW n \in {1, 2}, s[r + 1] # Quote, r + n <= Len(s),
             n = 2 <=> s[r + 1] = Backslash /\ r + 1 < Len(s)
      PROVE  Leads(s, r, n, "string", "string", TRUE)
  <2> SUFFICES ASSUME NEW rest \in Seq(Bytes), Owes(s, r, "string", rest)
               PROVE  Goes(s, r, n, "string", TRUE, rest)
    BY DEF Leads
  <2>1. PICK b \in 1..Len(s) :
          InString(s, b, r) /\ rest = SubSeq(s, r + 1, UnitEnd(s, b)) \o Behind(s, b)
    BY <1>1
  <2>2. Goes(s, r, n, "string", TRUE, SubSeq(s, r + 1, UnitEnd(s, b)) \o Behind(s, b))
    BY <1>3, <2>1, StringByteGoes
  <2> QED
    BY <2>1, <2>2
<1> QED
  BY <1>2, <1>3

\* In a comment.
LEMMA LineLeads ==
  ASSUME NEW s \in Seq(Bytes), NEW r \in 0..Len(s)
  PROVE  /\ r < Len(s) /\ s[r + 1] # Newline => Leads(s, r, 1, "line", "line", FALSE)
         /\ r = Len(s) \/ s[r + 1] = Newline => Leads(s, r, 0, "line", "text", FALSE)
<1>1. \A rest : Owes(s, r, "line", rest) =>
        \E b \in 1..Len(s) : InLine(s, b, r) /\ rest = Behind(s, b)
  BY DEF Owes
<1>2. ASSUME r < Len(s), s[r + 1] # Newline
      PROVE  Leads(s, r, 1, "line", "line", FALSE)
  <2>1. r \in 0..(Len(s) - 1)
    BY <1>2
  <2> QED
    BY <1>1, <1>2, <2>1, LineGoes DEF Leads
<1>3. ASSUME r = Len(s) \/ s[r + 1] = Newline
      PROVE  Leads(s, r, 0, "line", "text", FALSE)
  BY <1>1, <1>3, LineEndsGoes DEF Leads
<1> QED
  BY <1>2, <1>3

LEMMA BlockLeads ==
  ASSUME NEW s \in Seq(Bytes), NEW r \in 0..(Len(s) - 1)
  PROVE  /\ ~(s[r + 1] = Star /\ r + 2 <= Len(s) /\ s[r + 2] = Slash)
              => Leads(s, r, 1, "block", "block", FALSE)
         /\ s[r + 1] = Star /\ r + 2 <= Len(s) /\ s[r + 2] = Slash
              => Leads(s, r, 2, "block", "text", FALSE)
<1>1. \A rest : Owes(s, r, "block", rest) =>
        \E b \in 1..Len(s) : InBlock(s, b, r) /\ rest = Behind(s, b)
  BY DEF Owes
<1>2. ASSUME ~(s[r + 1] = Star /\ r + 2 <= Len(s) /\ s[r + 2] = Slash)
      PROVE  Leads(s, r, 1, "block", "block", FALSE)
  BY <1>1, <1>2, BlockGoes DEF Leads
<1>3. ASSUME s[r + 1] = Star, r + 2 <= Len(s), s[r + 2] = Slash
      PROVE  Leads(s, r, 2, "block", "text", FALSE)
  <2>1. r \in 0..(Len(s) - 2)
    BY <1>3
  <2> QED
    BY <1>1, <1>3, <2>1, BlockEndsGoes DEF Leads
<1> QED
  BY <1>2, <1>3

\* At the end of the text.
LEMMA EndLeads ==
  ASSUME NEW s \in Seq(Bytes)
  PROVE  /\ Leads(s, Len(s), 0, "string", "text", FALSE)
         /\ Leads(s, Len(s), 0, "block", "text", FALSE)
<1> DEFINE L == Len(s)
<1>1. ASSUME NEW rest \in Seq(Bytes), Owes(s, L, "string", rest)
      PROVE  Goes(s, L, 0, "text", FALSE, rest)
  <2>1. PICK b \in 1..Len(s) :
          InString(s, b, L) /\ rest = SubSeq(s, L + 1, UnitEnd(s, b)) \o Behind(s, b)
    BY <1>1 DEF Owes
  <2> QED
    BY <2>1, StringBreaksOffGoes
<1>2. ASSUME NEW rest \in Seq(Bytes), Owes(s, L, "block", rest)
      PROVE  Goes(s, L, 0, "text", FALSE, rest)
  <2>1. PICK b \in 1..Len(s) : InBlock(s, b, L) /\ rest = Behind(s, b)
    BY <1>2 DEF Owes
  <2> QED
    BY <2>1, BlockBreaksOffGoes
<1> QED
  BY <1>1, <1>2 DEF Leads

\* What the actions read, of the text that they read.
LEMMA ReadsByte ==
  ASSUME IInv, Midway, Cell(read) # 0
  PROVE  /\ original \in Seq(Bytes) /\ read \in 0..(Len(original) - 1)
         /\ Cell(read) = original[read + 1]
         /\ read + 2 <= Len(original) <=> Cell(read + 1) # 0
         /\ read + 2 <= Len(original) => Cell(read + 1) = original[read + 2]
         /\ CommentStarts(Slash) <=> BeginsLine(original, read + 1)
         /\ CommentStarts(Star) <=> BeginsBlock(original, read + 1)
         /\ BlockCloses <=> /\ original[read + 1] = Star
                            /\ read + 2 <= Len(original)
                            /\ original[read + 2] = Slash
<1>1. /\ original \in Seq(Bytes) /\ Len(original) \in Nat /\ read \in 0..Len(original)
      /\ read # Len(original) /\ Cell(read) = original[read + 1]
      /\ read + 1 = Len(original) => Cell(read + 1) = 0
      /\ read + 1 < Len(original) => Cell(read + 1) = original[read + 2] /\ Cell(read + 1) # 0
  BY ReadsOriginal
<1>2. read \in 0..(Len(original) - 1) /\ (read + 1) + 1 = read + 2
  BY <1>1
<1>3. /\ read + 2 <= Len(original) <=> Cell(read + 1) # 0
      /\ read + 2 <= Len(original) => Cell(read + 1) = original[read + 2]
      /\ read + 2 <= Len(original) <=> read + 1 < Len(original)
  BY <1>1
<1>4. Slash # 0 /\ Star # 0
  BY DEF Slash, Star
<1>5. /\ CommentStarts(Slash) <=> BeginsLine(original, read + 1)
      /\ CommentStarts(Star) <=> BeginsBlock(original, read + 1)
      /\ BlockCloses <=> /\ original[read + 1] = Star
                         /\ read + 2 <= Len(original)
                         /\ original[read + 2] = Slash
  BY <1>1, <1>2, <1>3, <1>4 DEF CommentStarts, BeginsLine, BeginsBlock, BlockCloses
<1> QED
  BY <1>1, <1>2, <1>3, <1>5

LEMMA ReadsEnd ==
  ASSUME IInv, Midway, Cell(read) = 0
  PROVE  original \in Seq(Bytes) /\ Len(original) \in Nat /\ read = Len(original)
<1>1. /\ original \in Seq(Bytes) /\ Len(original) \in Nat /\ read \in 0..Len(original)
      /\ read < Len(original) => Cell(read) # 0
  BY ReadsOriginal
<1> QED
  BY <1>1

\* Every step but the last leaves what is still to be written with the rest of the text.
LEMMA StepMidway ==
  ASSUME IInv, Midway, MinifyStep, ~Terminate, original' = original
  PROVE  Midway'
<1> DEFINE s == original
           r == read
<1>1. 0 \notin Whitespace /\ Quote \notin Whitespace /\ Slash \notin Whitespace
  BY DEF Whitespace, Quote, Slash
<1>2. Quote # 0 /\ Slash # 0 /\ Star # 0 /\ Backslash # 0 /\ Quote # Slash /\ Newline # 0
  BY DEF Quote, Slash, Star, Backslash, Newline
<1>3. CASE SkipBlank
  <2>1. Cell(read) \in Whitespace /\ Cell(read) # 0 /\ place = "text" /\ SkipBytes(1, "text")
    BY <1>1, <1>3 DEF SkipBlank
  <2>2. s \in Seq(Bytes) /\ r \in 0..(Len(s) - 1) /\ s[r + 1] \in Whitespace
    BY <2>1, ReadsByte
  <2>3. s[r + 1] # Quote /\ ~BeginsLine(s, r + 1) /\ ~BeginsBlock(s, r + 1)
    BY <1>1, <2>2 DEF BeginsLine, BeginsBlock
  <2>4. Leads(s, r, 1, "text", "text", FALSE)
    <3>1. (s[r + 1] \notin Whitespace) = FALSE
      BY <2>2
    <3>2. Leads(s, r, 1, "text", "text", s[r + 1] \notin Whitespace)
      BY <2>2, <2>3, TextLeads
    <3> QED
      BY <3>1, <3>2
  <2>5. read + 1 <= Len(original)
    BY <2>2
  <2> QED
    BY <2>1, <2>4, <2>5, SkipMidway
<1>4. CASE QuoteOpens
  <2>1. Cell(read) = Quote /\ Cell(read) # 0 /\ place = "text" /\ CopyBytes(1, "string")
    BY <1>2, <1>4 DEF QuoteOpens
  <2>2. s \in Seq(Bytes) /\ r \in 0..(Len(s) - 1) /\ s[r + 1] = Quote
    BY <2>1, ReadsByte
  <2>3. Leads(s, r, 1, "text", "string", TRUE)
    BY <2>2, TextLeads
  <2>4. read + 1 <= Len(original)
    BY <2>2
  <2> QED
    BY <2>1, <2>3, <2>4, CopyMidway
<1>5. CASE StringByte
  <2> DEFINE n == IF Cell(read) = Backslash /\ Cell(read + 1) # 0 THEN 2 ELSE 1
  <2>1. Cell(read) # Quote /\ Cell(read) # 0 /\ place = "string" /\ CopyBytes(n, "string")
    BY <1>5 DEF StringByte
  <2>2. /\ s \in Seq(Bytes) /\ r \in 0..(Len(s) - 1) /\ s[r + 1] # Quote
        /\ Cell(read) = s[r + 1] /\ (r + 2 <= Len(s) <=> Cell(read + 1) # 0)
    BY <2>1, ReadsByte
  <2>3. /\ n \in {1, 2} /\ r + n <= Len(s)
        /\ n = 2 <=> (s[r + 1] = Backslash /\ r + 1 < Len(s))
    BY <2>2
  <2> HIDE DEF n
  <2>4. Leads(s, r, n, "string", "string", TRUE)
    <3>1. PICK k \in {1, 2} : k = n
      BY <2>3
    <3>2. /\ s[r + 1] # Quote /\ r + k <= Len(s)
          /\ k = 2 <=> (s[r + 1] = Backslash /\ r + 1 < Len(s))
      BY <2>2, <2>3, <3>1
    <3>3. Leads(s, r, k, "string", "string", TRUE)
      BY <2>2, <3>1, <3>2, StringLeads
    <3> QED
      BY <3>1, <3>3
  <2>5. PICK k \in {1, 2} : k = n
    BY <2>3
  <2>6. Leads(original, read, k, place, "string", TRUE) /\ CopyBytes(k, "string")
        /\ read + k <= Len(original)
    BY <2>1, <2>3, <2>4, <2>5
  <2> QED
    BY <2>6, CopyMidway
<1>6. CASE QuoteCloses
  <2>1. Cell(read) = Quote /\ Cell(read) # 0 /\ place = "string" /\ CopyBytes(1, "text")
    BY <1>2, <1>6 DEF QuoteCloses
  <2>2. s \in Seq(Bytes) /\ r \in 0..(Len(s) - 1) /\ s[r + 1] = Quote
    BY <2>1, ReadsByte
  <2>3. Leads(s, r, 1, "string", "text", TRUE)
    BY <2>2, StringLeads
  <2>4. read + 1 <= Len(original)
    BY <2>2
  <2> QED
    BY <2>1, <2>3, <2>4, CopyMidway
<1>7. CASE StringBreaksOff \/ BlockBreaksOff
  <2>1. Cell(read) = 0 /\ place \in {"string", "block"} /\ SkipBytes(0, "text")
    BY <1>7 DEF StringBreaksOff, BlockBreaksOff
  <2>2. s \in Seq(Bytes) /\ Len(s) \in Nat /\ r = Len(s)
    BY <2>1, ReadsEnd
  <2>3. Leads(s, r, 0, place, "text", FALSE)
    BY <2>1, <2>2, EndLeads
  <2>4. read + 0 <= Len(original)
    BY <2>2
  <2> QED
    BY <2>1, <2>3, <2>4, SkipMidway
<1>8. CASE LineComment
  <2>1. CommentStarts(Slash) /\ Cell(read) # 0 /\ place = "text" /\ SkipBytes(0, "line")
    BY <1>2, <1>8 DEF LineComment, CommentStarts
  <2>2. s \in Seq(Bytes) /\ r \in 0..(Len(s) - 1) /\ BeginsLine(s, r + 1)
    BY <2>1, ReadsByte
  <2>3. Leads(s, r, 0, "text", "line", FALSE)
    BY <2>2, TextLeads
  <2>4. read + 0 <= Len(original)
    BY <2>2
  <2> QED
    BY <2>1, <2>3, <2>4, SkipMidway
<1>9. CASE BlockComment
  <2>1. CommentStarts(Star) /\ Cell(read) # 0 /\ place = "text" /\ SkipBytes(2, "block")
    BY <1>2, <1>9 DEF BlockComment, CommentStarts
  <2>2. s \in Seq(Bytes) /\ r \in 0..(Len(s) - 1) /\ BeginsBlock(s, r + 1)
    BY <2>1, ReadsByte
  <2>3. Leads(s, r, 2, "text", "block", FALSE)
    BY <2>2, TextLeads
  <2>4. read + 2 <= Len(original)
    BY <2>2 DEF BeginsBlock
  <2> QED
    BY <2>1, <2>3, <2>4, SkipMidway
<1>10. CASE LineGoesOn
  <2>1. Cell(read) # Newline /\ Cell(read) # 0 /\ place = "line" /\ SkipBytes(1, "line")
    BY <1>10 DEF LineGoesOn
  <2>2. s \in Seq(Bytes) /\ r \in 0..(Len(s) - 1) /\ s[r + 1] # Newline
    BY <2>1, ReadsByte
  <2>3. r \in 0..Len(s) /\ r < Len(s) /\ read + 1 <= Len(original)
    BY <2>2
  <2>4. Leads(s, r, 1, "line", "line", FALSE)
    BY <2>2, <2>3, LineLeads
  <2> QED
    BY <2>1, <2>3, <2>4, SkipMidway
<1>11. CASE LineEnds
  <2>1. Cell(read) \in {0, Newline} /\ place = "line" /\ SkipBytes(0, "text")
    BY <1>11 DEF LineEnds
  <2>2. s \in Seq(Bytes) /\ r \in 0..Len(s) /\ (r = Len(s) \/ s[r + 1] = Newline)
    <3>1. CASE Cell(read) = 0
      BY <3>1, ReadsEnd
    <3>2. CASE Cell(read) # 0
      BY <2>1, <3>2, ReadsByte
    <3> QED
      BY <3>1, <3>2
  <2>3. Leads(s, r, 0, "line", "text", FALSE)
    BY <2>2, LineLeads
  <2>4. read + 0 <= Len(original)
    BY <2>2
  <2> QED
    BY <2>1, <2>3, <2>4, SkipMidway
<1>12. CASE BlockGoesOn
  <2>1. Cell(read) # 0 /\ ~BlockCloses /\ place = "block" /\ SkipBytes(1, "block")
    BY <1>12 DEF BlockGoesOn
  <2>2. /\ s \in Seq(Bytes) /\ r \in 0..(Len(s) - 1)
        /\ ~(s[r + 1] = Star /\ r + 2 <= Len(s) /\ s[r + 2] = Slash)
    BY <2>1, ReadsByte
  <2>3. Leads(s, r, 1, "block", "block", FALSE)
    BY <2>2, BlockLeads
  <2>4. read + 1 <= Len(original)
    BY <2>2
  <2> QED
    BY <2>1, <2>3, <2>4, SkipMidway
<1>13. CASE BlockEnds
  <2>1. Cell(read) # 0 /\ BlockCloses /\ place = "block" /\ SkipBytes(2, "text")
    BY <1>13 DEF BlockEnds
  <2>2. /\ s \in Seq(Bytes) /\ r \in 0..(Len(s) - 1)
        /\ s[r + 1] = Star /\ r + 2 <= Len(s) /\ s[r + 2] = Slash
    BY <2>1, ReadsByte
  <2>3. Leads(s, r, 2, "block", "text", FALSE)
    BY <2>2, BlockLeads
  <2> QED
    BY <2>1, <2>2, <2>3, SkipMidway
<1>14. CASE OtherByte
  <2>1. /\ Cell(read) \notin Whitespace /\ Cell(read) # 0 /\ Cell(read) # Quote
        /\ ~CommentStarts(Slash) /\ ~CommentStarts(Star)
        /\ place = "text" /\ CopyBytes(1, "text")
    BY <1>14 DEF OtherByte, CommentStarts
  <2>2. /\ s \in Seq(Bytes) /\ r \in 0..(Len(s) - 1)
        /\ s[r + 1] \notin Whitespace /\ s[r + 1] # Quote
        /\ ~BeginsLine(s, r + 1) /\ ~BeginsBlock(s, r + 1)
    BY <2>1, ReadsByte
  <2>3. Leads(s, r, 1, "text", "text", TRUE)
    <3>1. (s[r + 1] \notin Whitespace) = TRUE
      BY <2>2
    <3>2. Leads(s, r, 1, "text", "text", s[r + 1] \notin Whitespace)
      BY <2>2, TextLeads
    <3> QED
      BY <3>1, <3>2
  <2>4. read + 1 <= Len(original)
    BY <2>2
  <2> QED
    BY <2>1, <2>3, <2>4, CopyMidway
<1> QED
  BY <1>3, <1>4, <1>5, <1>6, <1>7, <1>8, <1>9, <1>10, <1>11, <1>12, <1>13, <1>14 DEF MinifyStep

-----------------------------------------------------------------------------
(* First and last *)

\* The text of a buffer ends at its first NUL.
LEMMA CTextIs ==
  ASSUME NEW c \in Seq(Bytes), NEW e \in 1..Len(c), c[e] = 0, \A i \in 1..(e - 1) : c[i] # 0
  PROVE  CText(c) = SubSeq(c, 1, e - 1)
<1> DEFINE T == {i \in DOMAIN c : c[i] = 0}
<1>1. Len(c) \in Nat /\ DOMAIN c = 1..Len(c) /\ Len(c) + 1 \in Nat
  OBVIOUS
<1>2. T \in SUBSET (1..(Len(c) + 1)) /\ e \in T
  BY <1>1
<1>3. \A x \in T : e <= x
  <2> TAKE x \in T
  <2>1. x \in 1..Len(c) /\ x \notin 1..(e - 1)
    BY <1>1
  <2> QED
    BY <2>1
<1> HIDE DEF T
<1>4. Min(T \cup {Len(c) + 1}) = e
  BY <1>1, <1>2, <1>3, FirstIs
<1> QED
  BY <1>4 DEF CText, T

LEMMA StartMidway ==
  ASSUME BufferSound, StartMinify
  PROVE  Midway'
<1> DEFINE T == {i \in 1..Len(cell) : cell[i] = 0}
           e == Min(T)
           s == CText(cell)
<1>1. cell \in Seq(Bytes) /\ Len(cell) \in Nat /\ T # {}
  BY DEF BufferSound, TextEndsInBuffer
<1>2. e \in T /\ \A x \in T : e <= x
  <2>1. T \in SUBSET Nat
    BY <1>1
  <2> HIDE DEF T
  <2> QED
    BY <1>1, <2>1, LeastOf
<1> HIDE DEF e
<1>3. e \in 1..Len(cell) /\ cell[e] = 0 /\ \A i \in 1..(e - 1) : cell[i] # 0
  <2>1. e \in 1..Len(cell) /\ cell[e] = 0
    BY <1>2
  <2>2. ASSUME NEW i \in 1..(e - 1), cell[i] = 0
        PROVE  FALSE
    <3>1. i \in T
      BY <1>1, <2>1, <2>2
    <3> QED
      BY <1>2, <2>1, <3>1
  <2> QED
    BY <2>1, <2>2
<1> HIDE DEF T
<1>4. s = SubSeq(cell, 1, e - 1)
  BY <1>1, <1>3, CTextIs
<1>5. s \in Seq(Bytes) /\ Len(s) = e - 1 /\ \A i \in 1..(e - 1) : s[i] = cell[i]
  <2>1. \A i \in 1..(e - 1) : cell[i] \in Bytes
    BY <1>1, <1>3
  <2>2. e - 1 \in Int /\ (e - 1) - 1 + 1 = e - 1
    BY <1>3
  <2>3. /\ s \in Seq(Bytes)
        /\ Len(s) = IF 1 <= e - 1 THEN (e - 1) - 1 + 1 ELSE 0
        /\ \A i \in 1..((e - 1) - 1 + 1) : s[i] = cell[1 + i - 1]
    BY <1>4, <2>1, <2>2, SubSeqProperties
  <2> HIDE DEF s
  <2> QED
    BY <1>3, <2>2, <2>3
<1> HIDE DEF s
<1>6. /\ Len(s) \in Nat /\ 0 \in 0..Len(s) /\ Len(s) < Len(cell) /\ cell[Len(s) + 1] = 0
      /\ \A i \in 1..Len(s) : s[i] # 0
      /\ \A i \in (0 + 1)..Len(s) : cell[i] = s[i]
      /\ \A i \in 1..0 : cell[i] # 0
  BY <1>1, <1>3, <1>5
<1>7. /\ Stripped(s) \in Seq(Bytes)
      /\ Stripped(s) = SubSeq(cell, 1, 0) \o Stripped(s)
      /\ Owes(s, 0, "text", Stripped(s))
  <2>1. 1 \in 1..(Len(s) + 1)
    BY <1>6
  <2>2. Stripped(s) = From(s)[1] /\ Stripped(s) \in Seq(Bytes)
    BY <1>5, <2>1, FromSteps
  <2>3. SubSeq(cell, 1, 0) = <<>>
    BY SubSeqEmpty
  <2>4. Stripped(s) = <<>> \o Stripped(s)
    BY <2>2, ConcatEmptySeq
  <2>5. Owes(s, 0, "text", Stripped(s))
    BY <2>2 DEF Owes
  <2> QED
    BY <2>2, <2>3, <2>4, <2>5
<1>8. MidwayIn(s, cell, 0, 0, "text")
  BY <1>5, <1>6, <1>7 DEF MidwayIn
<1> QED
  BY <1>8 DEF Midway, StartMinify, s

\* When all of the text is read, nothing is left to be written.
LEMMA TerminateStrips ==
  ASSUME IInv, Midway, Terminate, original' = original
  PROVE  MinifyStrips'
<1> DEFINE s == original
           e == write + 1
           c == cell'
<1>1. /\ cell \in Seq(Bytes) /\ Len(cell) \in Nat /\ read \in Nat /\ write \in Nat /\ write <= read
      /\ Cell(read) = 0 /\ place = "text"
      /\ cell' = [cell EXCEPT ![write + 1] = 0]
  BY DEF IInv, Terminate
<1>2. s \in Seq(Bytes) /\ Len(s) \in Nat /\ read = Len(s)
  BY <1>1, ReadsEnd
<1>3. /\ Len(s) < Len(cell) /\ \A i \in 1..write : cell[i] # 0
      /\ \E rest \in Seq(Bytes) :
           Stripped(s) = SubSeq(cell, 1, write) \o rest /\ Owes(s, read, place, rest)
  BY DEF Midway, MidwayIn
<1>4. PICK rest \in Seq(Bytes) :
        Stripped(s) = SubSeq(cell, 1, write) \o rest /\ Owes(s, read, place, rest)
  BY <1>3
<1>5. rest = From(s)[read + 1]
  BY <1>1, <1>4 DEF Owes
<1>6. rest = <<>>
  BY <1>2, <1>5, FromSteps
<1>7. \A i \in 1..write : cell[i] \in Bytes
  BY <1>1, <1>2, <1>3
<1>8. SubSeq(cell, 1, write) \in Seq(Bytes)
  BY <1>1, <1>7, SubSeqProperties
<1>9. Stripped(s) = SubSeq(cell, 1, write)
  <2>1. SubSeq(cell, 1, write) \o <<>> = SubSeq(cell, 1, write)
    BY <1>8, ConcatEmptySeq
  <2> QED
    BY <1>4, <1>6, <2>1
<1>10. e \in 1..Len(cell) /\ 0 \in Bytes
  BY <1>1, <1>2, <1>3 DEF Bytes
<1>11. /\ c \in Seq(Bytes) /\ Len(c) = Len(cell)
       /\ \A i \in 1..Len(cell) : c[i] = IF i = e THEN 0 ELSE cell[i]
  BY <1>1, <1>10, ExceptSeq
<1>12. e \in 1..Len(c) /\ c[e] = 0 /\ \A i \in 1..(e - 1) : c[i] = cell[i] /\ c[i] # 0
  BY <1>1, <1>3, <1>10, <1>11
<1> HIDE DEF c
<1>13. CText(c) = SubSeq(c, 1, e - 1)
  <2>1. \A i \in 1..(e - 1) : c[i] # 0
    BY <1>12
  <2>2. PICK d \in Seq(Bytes) : d = c
    BY <1>11
  <2>3. PICK x \in 1..Len(d) : x = e
    BY <1>12, <2>2
  <2>4. d[x] = 0 /\ \A i \in 1..(x - 1) : d[i] # 0
    BY <1>12, <2>1, <2>2, <2>3
  <2>5. CText(d) = SubSeq(d, 1, x - 1)
    BY <2>2, <2>3, <2>4, CTextIs
  <2> QED
    BY <2>2, <2>3, <2>5
<1>14. SubSeq(c, 1, write) = SubSeq(cell, 1, write)
  <2>1. \A i \in 1..write : c[i] = cell[i] /\ c[i] \in Bytes
    BY <1>1, <1>7, <1>12
  <2>2. /\ SubSeq(c, 1, write) \in Seq(Bytes)
        /\ Len(SubSeq(c, 1, write)) = IF 1 <= write THEN write - 1 + 1 ELSE 0
        /\ \A i \in 1..(write - 1 + 1) : SubSeq(c, 1, write)[i] = c[1 + i - 1]
    BY <1>1, <2>1, SubSeqProperties
  <2>3. /\ SubSeq(cell, 1, write) \in Seq(Bytes)
        /\ Len(SubSeq(cell, 1, write)) = IF 1 <= write THEN write - 1 + 1 ELSE 0
        /\ \A i \in 1..(write - 1 + 1) : SubSeq(cell, 1, write)[i] = cell[1 + i - 1]
    BY <1>1, <1>7, SubSeqProperties
  <2> DEFINE new == SubSeq(c, 1, write)
             old == SubSeq(cell, 1, write)
  <2>4. /\ new \in Seq(Bytes) /\ old \in Seq(Bytes)
        /\ Len(new) = IF 1 <= write THEN write - 1 + 1 ELSE 0
        /\ Len(old) = IF 1 <= write THEN write - 1 + 1 ELSE 0
        /\ \A i \in 1..(write - 1 + 1) : new[i] = c[1 + i - 1] /\ old[i] = cell[1 + i - 1]
    BY <2>2, <2>3
  <2> HIDE DEF new, old
  <2>5. /\ Len(new) = Len(old)
        /\ \A i \in 1..Len(new) : i \in 1..write /\ i \in 1..(write - 1 + 1) /\ 1 + i - 1 = i
    BY <1>1, <2>4
  <2>6. \A i \in 1..Len(new) : new[i] = old[i]
    BY <2>1, <2>4, <2>5
  <2>7. new = old
    BY <2>4, <2>5, <2>6, SeqEqual
  <2> QED
    BY <2>7 DEF new, old
<1>15. e - 1 = write
  BY <1>1
<1>16. CText(c) = Stripped(s)
  BY <1>9, <1>13, <1>14, <1>15
<1> QED
  BY <1>16 DEF MinifyStrips, c

-----------------------------------------------------------------------------
StrippedSoFar == BufferSound /\ (place # "idle" => Midway) /\ MinifyStrips

\* Whatever text Minify is called on, unterminated strings and comments
\* included, it leaves that text without comments and without the blanks
\* outside strings.
\* (minify_in_place)
THEOREM StripsCommentsAndBlanks == BufferSpec => []MinifyStrips
<1>1. BufferInit => StrippedSoFar
  BY BufferInitSound DEF BufferInit, StrippedSoFar, MinifyStrips
<1>2. StrippedSoFar /\ [BufferNext]_bufferVars => StrippedSoFar'
  <2> SUFFICES ASSUME StrippedSoFar, [BufferNext]_bufferVars
               PROVE  StrippedSoFar'
    OBVIOUS
  <2>1. BufferSound /\ BufferSound' /\ (place # "idle" => Midway) /\ MinifyStrips
    BY BufferStaysSound DEF StrippedSoFar
  <2>2. CASE UNCHANGED bufferVars
    BY <2>1, <2>2 DEF bufferVars, minifyVars, StrippedSoFar, Midway, MinifyStrips
  <2>3. CASE place' = "idle" /\ original' = <<>>
    BY <2>1, <2>3 DEF StrippedSoFar, MinifyStrips
  <2>4. CASE StartMinify
    <3>1. Midway' /\ place' = "text"
      BY <2>1, <2>4, StartMidway DEF StartMinify
    <3> QED
      BY <2>1, <3>1 DEF StrippedSoFar, MinifyStrips
  <2>5. CASE RunMinify
    <3>1. place # "idle" /\ MinifyStep /\ original' = original
      BY <2>5 DEF RunMinify, MinifyStep, SkipBlank, QuoteOpens, StringByte, QuoteCloses,
         StringBreaksOff, LineComment, LineGoesOn, LineEnds, BlockComment, BlockGoesOn, BlockEnds,
         BlockBreaksOff, OtherByte, Terminate
    <3>2. IInv /\ Midway
      BY <2>1, <3>1 DEF BufferSound
    <3>3. CASE Terminate
      <4>1. place' = "idle" /\ MinifyStrips'
        BY <3>1, <3>2, <3>3, TerminateStrips DEF Terminate
      <4> QED
        BY <2>1, <4>1 DEF StrippedSoFar
    <3>4. CASE ~Terminate
      <4>1. Midway'
        BY <3>1, <3>2, <3>4, StepMidway
      <4>2. place' # "idle"
        BY <3>1, <3>4 DEF MinifyStep, SkipBlank, QuoteOpens, StringByte, QuoteCloses,
           StringBreaksOff, LineComment, LineGoesOn, LineEnds, BlockComment, BlockGoesOn, BlockEnds,
           BlockBreaksOff, OtherByte, CopyBytes, SkipBytes
      <4> QED
        BY <2>1, <4>1, <4>2 DEF StrippedSoFar, MinifyStrips
    <3> QED
      BY <3>3, <3>4
  <2>6. CASE \/ \E text \in Seq(Bytes) :
                  HoldText(text) \/ \E length \in Nat : PrintInto(text, length)
             \/ \E offset \in 0..(Len(cell) - 1) : EndTextAt(offset)
    <3>1. place' = "idle" /\ original' = <<>>
      BY <2>6 DEF HoldText, PrintInto, EndTextAt
    <3> QED
      BY <2>3, <3>1
  <2> QED
    BY <2>2, <2>4, <2>5, <2>6 DEF BufferNext
<1>3. StrippedSoFar => MinifyStrips
  BY DEF StrippedSoFar
<1> QED
  BY <1>1, <1>2, <1>3, PTL DEF BufferSpec
=============================================================================
