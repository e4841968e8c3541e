------------------------ MODULE CJsonDocumentsProofs ------------------------
(***************************************************************************)
(* CJsonBuild implements JsonDocuments, for any values, addresses and      *)
(* texts, any depth of the recursion, and whichever allocations fail.      *)
(*                                                                         *)
(* A document is a function of the nodes that is defined by its own values *)
(* at the kids.  That no node is among its own descendants (Grounded)      *)
(* makes it one; that is part of the invariant.  The other part says of    *)
(* each frame of the recursion that the kids its node has so far are the   *)
(* documents that it was asked for, in their order.                        *)
(***************************************************************************)
EXTENDS CJsonBuildDocuments, CJsonBuildProofs

-----------------------------------------------------------------------------
(* Positions *)

Positions == Seq(Nat)

\* r leads through p.
Starts(r, p) == Len(p) <= Len(r) /\ SubSeq(r, 1, Len(p)) = p

\* What is behind p.
Rest(r, p) == SubSeq(r, Len(p) + 1, Len(r))

\* A position that is p and then q.
LEMMA Extended ==
  ASSUME NEW p \in Positions, NEW q \in Positions
  PROVE  p \o q \in Positions /\ Starts(p \o q, p) /\ Rest(p \o q, p) = q
  <1> DEFINE r == p \o q
  <1>1. /\ r \in Positions /\ Len(r) = Len(p) + Len(q) /\ Len(p) \in Nat /\ Len(q) \in Nat
        /\ \A i \in 1 .. Len(p) + Len(q) : r[i] = IF i <= Len(p) THEN p[i] ELSE q[i - Len(p)]
    BY ConcatProperties DEF Positions
  <1> HIDE DEF r
  <1>2. \A i \in 1 .. Len(p) : r[i] = p[i] /\ r[i] \in Nat
    BY <1>1 DEF Positions
  <1>3. /\ SubSeq(r, 1, Len(p)) \in Positions /\ Len(SubSeq(r, 1, Len(p))) = Len(p)
        /\ \A i \in 1 .. Len(p) : SubSeq(r, 1, Len(p))[i] = r[i]
    <2>1. 1 \in Int /\ Len(p) \in Int /\ \A i \in 1 .. Len(p) : r[i] \in Nat
      BY <1>1, <1>2
    <2>2. /\ SubSeq(r, 1, Len(p)) \in Seq(Nat)
          /\ Len(SubSeq(r, 1, Len(p))) = IF 1 <= Len(p) THEN Len(p) - 1 + 1 ELSE 0
          /\ \A i \in 1 .. Len(p) - 1 + 1 : SubSeq(r, 1, Len(p))[i] = r[1 + i - 1]
      BY <2>1, SubSeqProperties
    <2> QED BY <1>1, <2>2 DEF Positions
  <1>4. SubSeq(r, 1, Len(p)) = p
    BY <1>2, <1>3, SeqEqual DEF Positions
  <1>5. /\ Rest(r, p) \in Positions /\ Len(Rest(r, p)) = Len(q)
        /\ \A i \in 1 .. Len(q) : Rest(r, p)[i] = q[i]
    <2>1. Len(p) + 1 \in Int /\ Len(r) \in Int /\ \A i \in Len(p) + 1 .. Len(r) : r[i] \in Nat
      BY <1>1 DEF Positions
    <2>2. /\ Rest(r, p) \in Seq(Nat)
          /\ Len(Rest(r, p)) = IF Len(p) + 1 <= Len(r) THEN Len(r) - (Len(p) + 1) + 1 ELSE 0
          /\ \A i \in 1 .. Len(r) - (Len(p) + 1) + 1 : Rest(r, p)[i] = r[Len(p) + 1 + i - 1]
      BY <2>1, SubSeqProperties DEF Rest
    <2>3. \A i \in 1 .. Len(q) : /\ i \in 1 .. Len(r) - (Len(p) + 1) + 1
                                 /\ Len(p) + 1 + i - 1 = Len(p) + i
                                 /\ r[Len(p) + i] = q[i]
      <3> TAKE i \in 1 .. Len(q)
      <3>1. Len(p) + i \in 1 .. Len(p) + Len(q) /\ ~(Len(p) + i <= Len(p)) /\ (Len(p) + i) - Len(p) = i
        BY <1>1
      <3> QED BY <1>1, <3>1
    <2>4. Len(Rest(r, p)) = Len(q)
      BY <1>1, <2>2
    <2>5. \A i \in 1 .. Len(q) : Rest(r, p)[i] = q[i]
      BY <2>2, <2>3
    <2> QED BY <2>2, <2>4, <2>5 DEF Positions
  <1>6. Rest(r, p) = q
    BY <1>5, SeqEqual DEF Positions
  <1> QED BY <1>1, <1>4, <1>6 DEF Starts, r

\* A position that leads through p is p and the rest.
LEMMA Split ==
  ASSUME NEW r \in Positions, NEW p \in Positions, Starts(r, p)
  PROVE  Rest(r, p) \in Positions /\ r = p \o Rest(r, p)
  <1>1. Len(p) \in Nat /\ Len(r) \in Nat /\ Len(p) <= Len(r) /\ SubSeq(r, 1, Len(p)) = p
    BY DEF Starts, Positions
  <1>2. \A i \in Len(p) + 1 .. Len(r) : r[i] \in Nat
    BY <1>1 DEF Positions
  <1>3. Rest(r, p) \in Positions
    <2>1. Len(p) + 1 \in Int /\ Len(r) \in Int
      BY <1>1
    <2> QED BY <1>2, <2>1, SubSeqProperties DEF Rest, Positions
  <1>4. SubSeq(r, 1, Len(p)) \o SubSeq(r, Len(p) + 1, Len(r)) = SubSeq(r, 1, Len(r))
    <2>1. 1 \in 1 .. Len(r) + 1 /\ Len(p) \in 1 - 1 .. Len(r) /\ Len(r) \in Len(p) .. Len(r)
      BY <1>1
    <2> QED BY <2>1, ConcatAdjacentSubSeq DEF Positions
  <1>5. SubSeq(r, 1, Len(r)) = r
    BY SubSeqFull DEF Positions
  <1> QED BY <1>1, <1>3, <1>4, <1>5 DEF Rest

\* A position in the i-th kid.
LEMMA KidPosition ==
  ASSUME NEW i \in Nat, NEW q \in Positions
  PROVE  /\ <<i>> \in Positions /\ <<i>> \o q \in Positions
         /\ <<i>> \o q # <<>> /\ Head(<<i>> \o q) = i
  <1>1. <<i>> \in Positions /\ Len(<<i>>) = 1 /\ <<i>>[1] = i
    BY DEF Positions
  <1>2. /\ <<i>> \o q \in Positions /\ Len(<<i>> \o q) = 1 + Len(q) /\ Len(q) \in Nat
        /\ \A k \in 1 .. 1 + Len(q) : (<<i>> \o q)[k] = IF k <= 1 THEN <<i>>[k] ELSE q[k - 1]
    BY <1>1, ConcatProperties DEF Positions
  <1>3. (<<i>> \o q)[1] = i
    BY <1>1, <1>2
  <1> QED BY <1>1, <1>2, <1>3 DEF Positions

-----------------------------------------------------------------------------
(* Documents *)

\* The entries of d are positions with labels, and d itself is at <<>>.
IsDoc(d) ==
  /\ \E l : <<<<>>, l>> \in d
  /\ \A e \in d : e = <<e[1], e[2]>> /\ e[1] \in Positions

\* A sequence of documents.
AreDocs(docs) ==
  /\ \E n \in Nat : DOMAIN docs = 1 .. n
  /\ \A i \in DOMAIN docs : IsDoc(docs[i])

\* What is in a part.
LEMMA PartEntry ==
  ASSUME NEW d, IsDoc(d), NEW p \in Positions
  PROVE  /\ \A e \in Part(d, p) : e = <<e[1], e[2]>> /\ e[1] \in Positions
         /\ \A q, l : <<q, l>> \in Part(d, p) <=> q \in Positions /\ <<p \o q, l>> \in d
  <1>1. Part(d, p) = {<<Rest(e[1], p), e[2]>> : e \in {f \in d : Starts(f[1], p)}}
    BY DEF Part, Below, Rest, Starts
  <1>2. ASSUME NEW e \in Part(d, p)
        PROVE  \E f \in d : /\ Starts(f[1], p) /\ e = <<Rest(f[1], p), f[2]>>
                            /\ f = <<f[1], f[2]>> /\ f[1] \in Positions
    BY <1>1 DEF IsDoc
  <1>3. ASSUME NEW e \in Part(d, p)
        PROVE  e = <<e[1], e[2]>> /\ e[1] \in Positions
    <2>1. PICK f \in d : /\ Starts(f[1], p) /\ e = <<Rest(f[1], p), f[2]>>
                         /\ f = <<f[1], f[2]>> /\ f[1] \in Positions
      BY <1>2
    <2>2. Rest(f[1], p) \in Positions
      BY <2>1, Split
    <2>3. e[1] = Rest(f[1], p) /\ e[2] = f[2]
      BY <2>1
    <2> QED BY <2>1, <2>2, <2>3
  <1>4. ASSUME NEW q, NEW l, <<q, l>> \in Part(d, p)
        PROVE  q \in Positions /\ <<p \o q, l>> \in d
    <2>1. PICK f \in d : /\ Starts(f[1], p) /\ <<q, l>> = <<Rest(f[1], p), f[2]>>
                         /\ f = <<f[1], f[2]>> /\ f[1] \in Positions
      BY <1>2, <1>4
    <2>2. q = Rest(f[1], p) /\ l = f[2]
      BY <2>1
    <2>3. Rest(f[1], p) \in Positions /\ f[1] = p \o Rest(f[1], p)
      BY <2>1, Split
    <2> QED BY <2>1, <2>2, <2>3
  <1>5. ASSUME NEW q \in Positions, NEW l, <<p \o q, l>> \in d
        PROVE  <<q, l>> \in Part(d, p)
    <2> DEFINE f == <<p \o q, l>>
    <2>1. f \in d /\ f[1] = p \o q /\ f[2] = l
      BY <1>5
    <2>2. Starts(p \o q, p) /\ Rest(p \o q, p) = q
      BY Extended
    <2> HIDE DEF f
    <2>3. <<Rest(f[1], p), f[2]>> \in Part(d, p)
      BY <1>1, <2>1, <2>2
    <2> QED BY <2>1, <2>2, <2>3
  <1> QED BY <1>3, <1>4, <1>5

\* Two sets of entries with the same entries are the same.
LEMMA SameEntries ==
  ASSUME NEW c, NEW d, \A e \in c : e = <<e[1], e[2]>>, \A e \in d : e = <<e[1], e[2]>>,
         \A q, l : <<q, l>> \in c <=> <<q, l>> \in d
  PROVE  c = d
  <1>1. \A e : e \in c => e \in d
    <2> TAKE e
    <2> HAVE e \in c
    <2>1. e = <<e[1], e[2]>>
      OBVIOUS
    <2>2. <<e[1], e[2]>> \in d
      BY <2>1
    <2> QED BY <2>1, <2>2
  <1>2. \A e : e \in d => e \in c
    <2> TAKE e
    <2> HAVE e \in d
    <2>1. e = <<e[1], e[2]>>
      OBVIOUS
    <2>2. <<e[1], e[2]>> \in c
      BY <2>1
    <2> QED BY <2>1, <2>2
  <1> QED BY <1>1, <1>2

\* A part that is there is a document, and its parts are parts.
LEMMA PartIsDoc ==
  ASSUME NEW d, IsDoc(d), NEW e \in d
  PROVE  e[1] \in Positions /\ IsDoc(Part(d, e[1]))
  <1>1. e = <<e[1], e[2]>> /\ e[1] \in Positions /\ <<>> \in Positions
    BY DEF IsDoc, Positions
  <1>2. e[1] \o <<>> = e[1]
    BY <1>1, ConcatEmptySeq DEF Positions
  <1>3. <<<<>>, e[2]>> \in Part(d, e[1])
    <2>1. <<<<>>, e[2]>> \in Part(d, e[1]) <=> <<>> \in Positions /\ <<e[1] \o <<>>, e[2]>> \in d
      BY <1>1, PartEntry
    <2>2. <<e[1] \o <<>>, e[2]>> \in d
      BY <1>1, <1>2
    <2> QED BY <1>1, <2>1, <2>2
  <1> QED BY <1>1, <1>3, PartEntry DEF IsDoc

LEMMA PartOfPart ==
  ASSUME NEW d, IsDoc(d), NEW e \in d, NEW f \in Part(d, e[1])
  PROVE  Part(Part(d, e[1]), f[1]) \in Parts(d)
  <1> DEFINE p == e[1]
             q == f[1]
             c == Part(d, p)
  <1>1. p \in Positions /\ IsDoc(c) /\ f \in c
    BY PartIsDoc
  <1>2. q \in Positions /\ f = <<q, f[2]>>
    BY <1>1 DEF IsDoc
  <1> HIDE DEF p
  <1>3. <<p \o q, f[2]>> \in d
    BY <1>1, <1>2, PartEntry
  <1>4. p \o q \in Positions
    BY <1>1, <1>2, ConcatProperties DEF Positions
  <1>5. \A r, l : <<r, l>> \in Part(c, q) <=> r \in Positions /\ <<q \o r, l>> \in c
    BY <1>1, <1>2, PartEntry
  <1>6. \A r, l : <<r, l>> \in c <=> r \in Positions /\ <<p \o r, l>> \in d
    BY <1>1, PartEntry
  <1>7. \A r, l : <<r, l>> \in Part(d, p \o q) <=> r \in Positions /\ <<(p \o q) \o r, l>> \in d
    BY <1>4, PartEntry
  <1> HIDE DEF q, c
  <1>8. \A r \in Positions : q \o r \in Positions /\ (p \o q) \o r = p \o (q \o r)
    <2> TAKE r \in Positions
    <2>1. q \o r \in Positions
      BY <1>2, ConcatProperties DEF Positions
    <2>2. (p \o q) \o r = p \o (q \o r)
      BY <1>1, <1>2, ConcatAssociative DEF Positions
    <2> QED BY <2>1, <2>2
  <1>9. \A r, l : <<r, l>> \in Part(c, q) <=> <<r, l>> \in Part(d, p \o q)
    BY <1>5, <1>6, <1>7, <1>8
  <1>10. /\ \A x \in Part(c, q) : x = <<x[1], x[2]>>
         /\ \A x \in Part(d, p \o q) : x = <<x[1], x[2]>>
    BY <1>1, <1>2, <1>4, PartEntry
  <1>11. Part(c, q) = Part(d, p \o q)
    BY <1>9, <1>10, SameEntries
  <1>12. Part(d, p \o q) \in Parts(d)
    <2> DEFINE y == <<p \o q, f[2]>>
    <2>1. y \in d /\ y[1] = p \o q
      BY <1>3
    <2> HIDE DEF y
    <2> QED BY <2>1 DEF Parts
  <1> QED BY <1>11, <1>12 DEF c, q, p

\* A document is a part of itself.
LEMMA WholeIsPart ==
  ASSUME NEW d, IsDoc(d)
  PROVE  d \in Parts(d) /\ Part(d, <<>>) = d
  <1>1. <<>> \in Positions /\ \A r \in Positions : <<>> \o r = r
    BY ConcatEmptySeq DEF Positions
  <1>2. Part(d, <<>>) = d
    <2>1. \A q, l : <<q, l>> \in Part(d, <<>>) <=> q \in Positions /\ <<<<>> \o q, l>> \in d
      BY <1>1, PartEntry
    <2>2. \A x \in Part(d, <<>>) : x = <<x[1], x[2]>>
      BY <1>1, PartEntry
    <2>3. \A q, l : <<q, l>> \in d => q \in Positions
      <3> TAKE q, l
      <3> HAVE <<q, l>> \in d
      <3>1. <<q, l>>[1] \in Positions
        BY DEF IsDoc
      <3> QED BY <3>1
    <2>4. \A q, l : <<q, l>> \in Part(d, <<>>) <=> <<q, l>> \in d
      <3> TAKE q, l
      <3>1. <<q, l>> \in Part(d, <<>>) <=> q \in Positions /\ <<<<>> \o q, l>> \in d
        BY <2>1
      <3>2. CASE q \in Positions
        <4>1. <<>> \o q = q
          BY <1>1, <3>2
        <4> QED BY <3>1, <3>2, <4>1
      <3>3. CASE q \notin Positions
        BY <3>1, <3>3, <2>3
      <3> QED BY <3>2, <3>3
    <2>5. \A x \in d : x = <<x[1], x[2]>>
      BY DEF IsDoc
    <2> QED BY <2>2, <2>4, <2>5, SameEntries
  <1>3. PICK l : <<<<>>, l>> \in d
    BY DEF IsDoc
  <1> DEFINE y == <<<<>>, l>>
  <1>4. y \in d /\ y[1] = <<>>
    BY <1>3
  <1> HIDE DEF y
  <1> QED BY <1>2, <1>4 DEF Parts

\* What is in a document with kids.
LEMMA JoinEntry ==
  ASSUME NEW l, NEW docs, AreDocs(docs)
  PROVE  /\ \A e \in Join(l, docs) : e = <<e[1], e[2]>> /\ e[1] \in Positions
         /\ <<<<>>, l>> \in Join(l, docs)
         /\ \A q, m : <<q, m>> \in Join(l, docs) <=>
                        \/ q = <<>> /\ m = l
                        \/ \E i \in DOMAIN docs, r \in Positions :
                             q = <<i>> \o r /\ <<r, m>> \in docs[i]
  <1> DEFINE J == Join(l, docs)
             B(i) == {<<<<i>> \o e[1], e[2]>> : e \in docs[i]}
  <1>0. J = {<<<<>>, l>>} \cup UNION {B(i) : i \in DOMAIN docs}
    BY DEF Join
  <1>a. \A i \in DOMAIN docs : i \in Nat /\ \A e \in docs[i] : e = <<e[1], e[2]>> /\ e[1] \in Positions
    BY DEF AreDocs, IsDoc
  <1> HIDE DEF J
  <1>1. ASSUME NEW e \in J
        PROVE  \/ e = <<<<>>, l>>
               \/ \E i \in DOMAIN docs, r \in Positions : \E m : e = <<<<i>> \o r, m>> /\ <<r, m>> \in docs[i]
    <2>1. CASE e \in {<<<<>>, l>>}
      BY <2>1
    <2>2. CASE e \notin {<<<<>>, l>>}
      <3>1. PICK i \in DOMAIN docs : e \in B(i)
        BY <1>0, <2>2
      <3>2. PICK f \in docs[i] : e = <<<<i>> \o f[1], f[2]>>
        BY <3>1
      <3>3. f = <<f[1], f[2]>> /\ f[1] \in Positions
        BY <1>a, <3>2
      <3>4. <<f[1], f[2]>> \in docs[i]
        BY <3>3
      <3> QED BY <3>2, <3>3, <3>4
    <2> QED BY <2>1, <2>2
  <1>2. ASSUME NEW e \in J
        PROVE  e = <<e[1], e[2]>> /\ e[1] \in Positions
    <2>1. CASE e = <<<<>>, l>>
      BY <2>1 DEF Positions
    <2>2. CASE \E i \in DOMAIN docs, r \in Positions : \E m : e = <<<<i>> \o r, m>> /\ <<r, m>> \in docs[i]
      <3>1. PICK i \in DOMAIN docs, r \in Positions : \E m : e = <<<<i>> \o r, m>>
        BY <2>2
      <3>2. <<i>> \o r \in Positions
        BY <1>a, KidPosition
      <3>3. e[1] = <<i>> \o r /\ e = <<e[1], e[2]>>
        BY <3>1
      <3> QED BY <3>1, <3>2, <3>3
    <2> QED BY <1>1, <2>1, <2>2
  <1>3. ASSUME NEW q, NEW m, <<q, m>> \in J
        PROVE  \/ q = <<>> /\ m = l
               \/ \E i \in DOMAIN docs, r \in Positions : q = <<i>> \o r /\ <<r, m>> \in docs[i]
    <2>1. \/ <<q, m>> = <<<<>>, l>>
          \/ \E i \in DOMAIN docs, r \in Positions : \E n : <<q, m>> = <<<<i>> \o r, n>> /\ <<r, n>> \in docs[i]
      BY <1>1, <1>3
    <2>2. CASE <<q, m>> = <<<<>>, l>>
      BY <2>2
    <2>3. CASE <<q, m>> # <<<<>>, l>>
      <3>1. PICK i \in DOMAIN docs, r \in Positions :
              \E n : <<q, m>> = <<<<i>> \o r, n>> /\ <<r, n>> \in docs[i]
        BY <2>1, <2>3
      <3>2. q = <<i>> \o r /\ <<r, m>> \in docs[i]
        BY <3>1
      <3> QED BY <3>1, <3>2
    <2> QED BY <2>2, <2>3
  <1>4. <<<<>>, l>> \in J
    BY <1>0
  <1>5. ASSUME NEW i \in DOMAIN docs, NEW r \in Positions, NEW m, <<r, m>> \in docs[i]
        PROVE  <<<<i>> \o r, m>> \in J
    <2> DEFINE e == <<r, m>>
    <2>1. e \in docs[i] /\ e[1] = r /\ e[2] = m
      BY <1>5
    <2> HIDE DEF e
    <2>2. <<<<i>> \o e[1], e[2]>> \in B(i)
      BY <2>1
    <2>3. <<<<i>> \o e[1], e[2]>> \in J
      BY <1>0, <2>2
    <2> QED BY <2>1, <2>3
  <1>6. \A q, m : <<q, m>> \in J <=>
                    \/ q = <<>> /\ m = l
                    \/ \E i \in DOMAIN docs, r \in Positions : q = <<i>> \o r /\ <<r, m>> \in docs[i]
    BY <1>3, <1>4, <1>5
  <1> QED BY <1>2, <1>4, <1>6 DEF J

LEMMA JoinIsDoc ==
  ASSUME NEW l, NEW docs, AreDocs(docs)
  PROVE  IsDoc(Join(l, docs))
  BY JoinEntry DEF IsDoc

\* The i-th part of a document is its i-th kid.
LEMMA PartOfJoin ==
  ASSUME NEW l, NEW docs, AreDocs(docs), NEW i \in DOMAIN docs
  PROVE  /\ Part(Join(l, docs), <<i>>) = docs[i]
         /\ \E m : <<<<i>>, m>> \in Join(l, docs)
  <1> DEFINE J == Join(l, docs)
  <1>1. /\ IsDoc(J) /\ IsDoc(docs[i]) /\ i \in Nat
        /\ \A j \in DOMAIN docs : j \in Nat
    BY JoinIsDoc DEF AreDocs
  <1>2. <<i>> \in Positions
    BY <1>1, KidPosition DEF Positions
  <1>3. \A q, m : <<q, m>> \in J <=>
                    \/ q = <<>> /\ m = l
                    \/ \E j \in DOMAIN docs, r \in Positions : q = <<j>> \o r /\ <<r, m>> \in docs[j]
    BY JoinEntry
  <1> HIDE DEF J
  <1>4. ASSUME NEW q \in Positions, NEW m
        PROVE  <<<<i>> \o q, m>> \in J <=> <<q, m>> \in docs[i]
    <2>1. ASSUME <<<<i>> \o q, m>> \in J
          PROVE  <<q, m>> \in docs[i]
      <3>1. <<i>> \o q # <<>> /\ Head(<<i>> \o q) = i /\ Rest(<<i>> \o q, <<i>>) = q
        BY <1>1, <1>2, KidPosition, Extended
      <3>2. PICK j \in DOMAIN docs, r \in Positions : <<i>> \o q = <<j>> \o r /\ <<r, m>> \in docs[j]
        BY <1>3, <2>1, <3>1
      <3>3. Head(<<j>> \o r) = j /\ <<j>> \in Positions
        BY <1>1, <3>2, KidPosition
      <3>4. j = i
        BY <3>1, <3>2, <3>3
      <3>5. Rest(<<j>> \o r, <<j>>) = r
        BY <3>3, Extended
      <3> QED BY <3>1, <3>2, <3>4, <3>5
    <2>2. ASSUME <<q, m>> \in docs[i]
          PROVE  <<<<i>> \o q, m>> \in J
      BY <1>3, <2>2
    <2> QED BY <2>1, <2>2
  <1>5. \A q, m : <<q, m>> \in Part(J, <<i>>) <=> q \in Positions /\ <<<<i>> \o q, m>> \in J
    BY <1>1, <1>2, PartEntry
  <1>6. \A q, m : <<q, m>> \in docs[i] => q \in Positions
    <2> TAKE q, m
    <2> HAVE <<q, m>> \in docs[i]
    <2>1. <<q, m>>[1] \in Positions
      BY <1>1 DEF IsDoc
    <2> QED BY <2>1
  <1>7. \A q, m : <<q, m>> \in Part(J, <<i>>) <=> <<q, m>> \in docs[i]
    BY <1>4, <1>5, <1>6
  <1>8. (\A e \in Part(J, <<i>>) : e = <<e[1], e[2]>>) /\ (\A e \in docs[i] : e = <<e[1], e[2]>>)
    BY <1>1, <1>2, PartEntry DEF IsDoc
  <1>9. Part(J, <<i>>) = docs[i]
    BY <1>7, <1>8, SameEntries
  <1>10. PICK m : <<<<>>, m>> \in docs[i]
    BY <1>1 DEF IsDoc
  <1>11. <<>> \in Positions /\ <<i>> \o <<>> = <<i>>
    BY <1>2, ConcatEmptySeq DEF Positions
  <1>12. <<<<i>> \o <<>>, m>> \in J
    BY <1>4, <1>10, <1>11
  <1> QED BY <1>9, <1>11, <1>12 DEF J

\* The members of a document are its kids.
LEMMA MembersOfJoin ==
  ASSUME NEW l, NEW docs, AreDocs(docs)
  PROVE  Members(Join(l, docs)) = [i \in DOMAIN docs |-> docs[i]]
  <1> DEFINE J == Join(l, docs)
             H == {Head(e[1]) : e \in {f \in J : f[1] # <<>>}}
  <1>3. Members(J) = [i \in H |-> Part(J, <<i>>)]
    BY DEF Members
  <1> HIDE DEF H
  <1>1. \A i \in DOMAIN docs : i \in Nat /\ Part(J, <<i>>) = docs[i] /\ \E m : <<<<i>>, m>> \in J
    <2> TAKE i \in DOMAIN docs
    <2>1. i \in Nat
      BY DEF AreDocs
    <2> QED BY <2>1, PartOfJoin
  <1>2. /\ \A e \in J : e = <<e[1], e[2]>>
        /\ \A q, m : <<q, m>> \in J =>
             \/ q = <<>> /\ m = l
             \/ \E j \in DOMAIN docs, r \in Positions : q = <<j>> \o r /\ <<r, m>> \in docs[j]
    <2>1. \A e \in J : e = <<e[1], e[2]>>
      BY JoinEntry
    <2>2. \A q, m : <<q, m>> \in J <=>
             \/ q = <<>> /\ m = l
             \/ \E j \in DOMAIN docs, r \in Positions : q = <<j>> \o r /\ <<r, m>> \in docs[j]
      BY JoinEntry
    <2> QED BY <2>1, <2>2
  <1> HIDE DEF J
  <1>4. ASSUME NEW i \in DOMAIN docs
        PROVE  i \in H
    <2>1. PICK m : <<<<i>>, m>> \in J
      BY <1>1
    <2> DEFINE e == <<<<i>>, m>>
    <2>2. e \in J /\ e[1] = <<i>> /\ <<i>> # <<>> /\ Head(<<i>>) = i
      BY <2>1
    <2> HIDE DEF e
    <2> QED BY <2>2 DEF H
  <1>5. ASSUME NEW i \in H
        PROVE  i \in DOMAIN docs
    <2>1. PICK e \in J : e[1] # <<>> /\ i = Head(e[1])
      BY DEF H
    <2>2. <<e[1], e[2]>> \in J
      BY <1>2, <2>1
    <2>3. PICK j \in DOMAIN docs, r \in Positions : e[1] = <<j>> \o r
      BY <1>2, <2>1, <2>2
    <2>4. Head(<<j>> \o r) = j
      BY <1>1, <2>3, KidPosition
    <2> QED BY <2>1, <2>3, <2>4
  <1>6. H = DOMAIN docs
    BY <1>4, <1>5
  <1> QED BY <1>1, <1>3, <1>6 DEF J

\* The kids of what is in a document are in it too.
LEMMA KidsOfParts ==
  ASSUME NEW d, IsDoc(d), NEW l, NEW docs, AreDocs(docs), Join(l, docs) \in Parts(d),
         NEW i \in DOMAIN docs
  PROVE  docs[i] \in Parts(d)
  <1>1. PICK e \in d : Join(l, docs) = Part(d, e[1])
    BY DEF Parts
  <1>2. PICK m : <<<<i>>, m>> \in Join(l, docs)
    BY PartOfJoin
  <1> DEFINE f == <<<<i>>, m>>
  <1>3. f \in Part(d, e[1]) /\ f[1] = <<i>>
    BY <1>1, <1>2
  <1> HIDE DEF f
  <1>4. Part(Part(d, e[1]), f[1]) \in Parts(d)
    BY <1>3, PartOfPart
  <1>5. Part(Join(l, docs), <<i>>) = docs[i]
    BY PartOfJoin
  <1> QED BY <1>1, <1>3, <1>4, <1>5

-----------------------------------------------------------------------------
(* Documents of nodes *)

\* kids gives each node of its domain a sequence of such nodes, and no node is
\* among its own descendants.
IsForest(kids) == kids \in [DOMAIN kids -> Seq(DOMAIN kids)] /\ Grounded(kids)

\* Nodes whose kids are in A too.
KidClosed(kids, A) == \A n \in A : \A i \in DOMAIN kids[n] : kids[n][i] \in A

\* f reads the documents of the nodes of A.
Reader(label, kids, A, f) ==
  /\ A \subseteq DOMAIN kids /\ KidClosed(kids, A)
  /\ \A n \in A : f[n] = Join(label[n], Along(f, kids[n]))

\* Two functions that are the same on a sequence are the same along it.
LEMMA SameAlong ==
  ASSUME NEW f, NEW g, NEW s, \A i \in DOMAIN s : f[s[i]] = g[s[i]]
  PROVE  Along(f, s) = Along(g, s)
  BY DEF Along

\* A node of S none of whose kids is in S.
LEMMA Lowest ==
  ASSUME NEW kids, IsForest(kids), NEW S, S \subseteq DOMAIN kids, S # {}
  PROVE  \E n \in S : \A i \in DOMAIN kids[n] : kids[n][i] \notin S
  BY DEF IsForest, Grounded

\* Two readers, of labels and kids that are the same where both read, agree.
LEMMA ReadersAgree ==
  ASSUME NEW label, NEW kids, IsForest(kids), NEW A, NEW f, Reader(label, kids, A, f),
         NEW label2, NEW kids2, NEW B, NEW g, Reader(label2, kids2, B, g),
         NEW C, C \subseteq A \cap B, KidClosed(kids, C),
         \A n \in C : label2[n] = label[n] /\ kids2[n] = kids[n],
         NEW n \in C
  PROVE  f[n] = g[n]
  <1> DEFINE S == {m \in C : f[m] # g[m]}
  <1>1. SUFFICES ASSUME S # {} PROVE FALSE
    OBVIOUS
  <1>2. S \subseteq DOMAIN kids
    BY DEF Reader
  <1>3. PICK m \in S : \A i \in DOMAIN kids[m] : kids[m][i] \notin S
    BY <1>1, <1>2, Lowest
  <1>4. \A i \in DOMAIN kids[m] : f[kids[m][i]] = g[kids[m][i]]
    BY <1>3 DEF KidClosed
  <1>5. Along(f, kids[m]) = Along(g, kids[m])
    BY <1>4, SameAlong
  <1>6. m \in C /\ f[m] # g[m]
    BY <1>3
  <1>7. f[m] = Join(label[m], Along(f, kids[m])) /\ g[m] = Join(label2[m], Along(g, kids2[m]))
    BY <1>6 DEF Reader
  <1>8. label2[m] = label[m] /\ kids2[m] = kids[m]
    BY <1>6
  <1> QED BY <1>5, <1>6, <1>7, <1>8

\* What some reader reads in n.
Doc(label, kids, n) == (CHOOSE f : \E A : Reader(label, kids, A, f) /\ n \in A)[n]

\* Every node has a reader: no lowest one is without.
LEMMA ReaderExists ==
  ASSUME NEW label, NEW kids, IsForest(kids)
  PROVE  \E f : f = [n \in DOMAIN kids |-> Join(label[n], Along(f, kids[n]))]
  <1> DEFINE D == DOMAIN kids
             Read(n) == \E f : \E A : Reader(label, kids, A, f) /\ n \in A
             G == {n \in D : Read(n)}
             F == [n \in D |-> Doc(label, kids, n)]
  <1>1. ASSUME NEW n \in G, NEW A, NEW f, Reader(label, kids, A, f), n \in A
        PROVE  F[n] = f[n]
    <2> DEFINE c == CHOOSE x : \E B : Reader(label, kids, B, x) /\ n \in B
    <2>1. \E B : Reader(label, kids, B, c) /\ n \in B
      <3>1. \E x : \E B : Reader(label, kids, B, x) /\ n \in B
        BY <1>1
      <3> QED BY <3>1
    <2>2. F[n] = c[n]
      BY DEF Doc
    <2> HIDE DEF c
    <2>3. PICK B : Reader(label, kids, B, c) /\ n \in B
      BY <2>1
    <2>4. KidClosed(kids, A \cap B)
      <3>1. KidClosed(kids, A) /\ KidClosed(kids, B)
        BY <1>1, <2>3 DEF Reader
      <3> QED BY <3>1 DEF KidClosed
    <2>5. n \in A \cap B
      BY <1>1, <2>3
    <2>6. f[n] = c[n]
      <3> DEFINE C == A \cap B
      <3>1. C \subseteq A \cap B /\ KidClosed(kids, C) /\ n \in C
        BY <2>4, <2>5
      <3> HIDE DEF C
      <3> QED BY <1>1, <2>3, <3>1, ReadersAgree
    <2> QED BY <2>2, <2>6
  <1> HIDE DEF F
  <1>2. ASSUME NEW n \in G
        PROVE  /\ \A i \in DOMAIN kids[n] : kids[n][i] \in G
               /\ F[n] = Join(label[n], Along(F, kids[n]))
    <2>1. PICK f, A : Reader(label, kids, A, f) /\ n \in A
      OBVIOUS
    <2>2. \A i \in DOMAIN kids[n] : kids[n][i] \in A /\ A \subseteq D
      BY <2>1 DEF Reader, KidClosed
    <2>3. \A i \in DOMAIN kids[n] : kids[n][i] \in G
      BY <2>1, <2>2
    <2>4. \A i \in DOMAIN kids[n] : F[kids[n][i]] = f[kids[n][i]]
      BY <1>1, <2>1, <2>2, <2>3
    <2>5. Along(F, kids[n]) = Along(f, kids[n])
      BY <2>4, SameAlong
    <2>6. F[n] = f[n]
      BY <1>1, <2>1
    <2>7. f[n] = Join(label[n], Along(f, kids[n]))
      BY <2>1 DEF Reader
    <2> QED BY <2>3, <2>5, <2>6, <2>7
  <1>3. ASSUME NEW n \in D \ G, \A i \in DOMAIN kids[n] : kids[n][i] \notin D \ G
        PROVE  FALSE
    <2> DEFINE A == G \cup {n}
               f == [m \in A |-> IF m \in G THEN F[m] ELSE Join(label[n], Along(F, kids[n]))]
    <2>1. \A i \in DOMAIN kids[n] : kids[n][i] \in G
      <3>1. \A i \in DOMAIN kids[n] : kids[n][i] \in D
        BY <1>3 DEF IsForest
      <3> QED BY <1>3, <3>1
    <2>2. KidClosed(kids, A) /\ A \subseteq D /\ n \in A
      BY <1>2, <1>3, <2>1 DEF KidClosed
    <2>3. \A m \in G : f[m] = F[m]
      OBVIOUS
    <2>4. f[n] = Join(label[n], Along(F, kids[n]))
      BY <1>3
    <2> HIDE DEF f
    <2>5. ASSUME NEW m \in A
          PROVE  f[m] = Join(label[m], Along(f, kids[m]))
      <3>1. \A i \in DOMAIN kids[m] : kids[m][i] \in G
        BY <1>2, <2>1
      <3>2. Along(f, kids[m]) = Along(F, kids[m])
        BY <2>3, <3>1, SameAlong
      <3>3. f[m] = Join(label[m], Along(F, kids[m]))
        <4>1. CASE m \in G
          BY <1>2, <2>3, <4>1
        <4>2. CASE m \notin G
          BY <2>4, <4>2
        <4> QED BY <4>1, <4>2
      <3> QED BY <3>2, <3>3
    <2>6. Reader(label, kids, A, f)
      BY <2>2, <2>5 DEF Reader
    <2> QED BY <1>3, <2>2, <2>6
  <1>4. D \ G = {}
    <2>1. SUFFICES ASSUME D \ G # {} PROVE FALSE
      OBVIOUS
    <2>2. \E n \in D \ G : \A i \in DOMAIN kids[n] : kids[n][i] \notin D \ G
      <3> DEFINE S == D \ G
      <3>1. S \subseteq DOMAIN kids /\ S # {}
        BY <2>1
      <3> HIDE DEF S
      <3>2. \E n \in S : \A i \in DOMAIN kids[n] : kids[n][i] \notin S
        BY <3>1, Lowest
      <3> QED BY <3>2 DEF S
    <2> QED BY <1>3, <2>2
  <1>5. \A n \in D : F[n] = Join(label[n], Along(F, kids[n]))
    BY <1>2, <1>4
  <1>6. F = [n \in D |-> F[n]]
    BY DEF F
  <1>7. F = [n \in D |-> Join(label[n], Along(F, kids[n]))]
    BY <1>5, <1>6
  <1> QED BY <1>7

\* Grow says of itself what its definition says.
LEMMA GrowReads ==
  ASSUME NEW label, NEW kids, IsForest(kids)
  PROVE  Reader(label, kids, DOMAIN kids, Grow(label, kids))
  <1> DEFINE d == Grow(label, kids)
             Grown(f) == f = [n \in DOMAIN kids |-> Join(label[n], Along(f, kids[n]))]
  <1>1. d = CHOOSE f : Grown(f)
    BY DEF Grow
  <1>a. \E f : Grown(f)
    BY ReaderExists
  <1>b. Grown(d)
    <2> HIDE DEF d, Grown
    <2> QED BY <1>1, <1>a
  <1>2. d = [n \in DOMAIN kids |-> Join(label[n], Along(d, kids[n]))]
    BY <1>b
  <1> HIDE DEF d, Grown
  <1>3. \A n \in DOMAIN kids : d[n] = Join(label[n], Along(d, kids[n]))
    BY <1>2
  <1>4. KidClosed(kids, DOMAIN kids)
    BY DEF KidClosed, IsForest
  <1> QED BY <1>3, <1>4 DEF Reader, d

\* What Grow gives are documents.
LEMMA GrowIsDocs ==
  ASSUME NEW label, NEW kids, IsForest(kids), NEW n \in DOMAIN kids
  PROVE  IsDoc(Grow(label, kids)[n]) /\ AreDocs(Along(Grow(label, kids), kids[n]))
  <1> DEFINE d == Grow(label, kids)
             S == {m \in DOMAIN kids : ~IsDoc(d[m])}
  <1>1. \A m \in DOMAIN kids : d[m] = Join(label[m], Along(d, kids[m]))
    BY GrowReads DEF Reader
  <1>2. \A m \in DOMAIN kids : /\ \E k \in Nat : DOMAIN kids[m] = 1 .. k
                               /\ \A i \in DOMAIN kids[m] : kids[m][i] \in DOMAIN kids
    <2> TAKE m \in DOMAIN kids
    <2>1. kids[m] \in Seq(DOMAIN kids)
      BY DEF IsForest
    <2>2. Len(kids[m]) \in Nat /\ DOMAIN kids[m] = 1 .. Len(kids[m])
      BY <2>1
    <2>3. \A i \in DOMAIN kids[m] : kids[m][i] \in DOMAIN kids
      BY <2>1
    <2> QED BY <2>2, <2>3
  <1> HIDE DEF d
  <1>3. ASSUME NEW m \in DOMAIN kids, \A i \in DOMAIN kids[m] : kids[m][i] \notin S
        PROVE  AreDocs(Along(d, kids[m]))
    <2>1. \A i \in DOMAIN kids[m] : IsDoc(d[kids[m][i]])
      BY <1>2, <1>3
    <2> QED BY <1>2, <2>1 DEF AreDocs, Along
  <1>4. S = {}
    <2>1. SUFFICES ASSUME S # {} PROVE FALSE
      OBVIOUS
    <2>2. PICK m \in S : \A i \in DOMAIN kids[m] : kids[m][i] \notin S
      BY <2>1, Lowest
    <2>3. IsDoc(d[m])
      BY <1>1, <1>3, <2>2, JoinIsDoc
    <2> QED BY <2>2, <2>3
  <1> QED BY <1>3, <1>4 DEF d

\* Where labels and kids are the same, down to the last descendant, so are the
\* documents.
LEMMA GrowIsLocal ==
  ASSUME NEW label, NEW kids, IsForest(kids), NEW label2, NEW kids2, IsForest(kids2),
         NEW C, C \subseteq DOMAIN kids \cap DOMAIN kids2, KidClosed(kids, C),
         \A n \in C : label2[n] = label[n] /\ kids2[n] = kids[n],
         NEW n \in C
  PROVE  Grow(label2, kids2)[n] = Grow(label, kids)[n]
  <1>1. /\ Reader(label, kids, DOMAIN kids, Grow(label, kids))
        /\ Reader(label2, kids2, DOMAIN kids2, Grow(label2, kids2))
    BY GrowReads
  <1> QED BY <1>1, ReadersAgree

\* One node that is nobody's kid gets other kids: still no node is among its own
\* descendants.
LEMMA GroundedAfterOne ==
  ASSUME NEW kids, Grounded(kids), NEW kids2, DOMAIN kids2 = DOMAIN kids, NEW p,
         \A n \in DOMAIN kids \ {p} : kids2[n] = kids[n],
         \A n \in DOMAIN kids : \A i \in DOMAIN kids[n] : kids[n][i] # p,
         p \in DOMAIN kids => \A i \in DOMAIN kids2[p] : kids2[p][i] # p
  PROVE  Grounded(kids2)
  <1> SUFFICES ASSUME NEW S \in SUBSET DOMAIN kids2, S # {}
               PROVE  \E n \in S : \A i \in DOMAIN kids2[n] : kids2[n][i] \notin S
    BY DEF Grounded
  <1>1. CASE S \ {p} = {}
    <2>1. S = {p}
      BY <1>1
    <2> QED BY <2>1
  <1>2. CASE S \ {p} # {}
    <2>1. PICK n \in S \ {p} : \A i \in DOMAIN kids[n] : kids[n][i] \notin S \ {p}
      BY <1>2 DEF Grounded
    <2>2. \A i \in DOMAIN kids2[n] : kids2[n][i] \notin S
      BY <2>1
    <2> QED BY <2>1, <2>2
  <1> QED BY <1>1, <1>2

\* Nodes lose their kids: the same.
LEMMA GroundedAfterLoss ==
  ASSUME NEW kids, Grounded(kids), NEW kids2, DOMAIN kids2 = DOMAIN kids,
         \A n \in DOMAIN kids : kids2[n] \in {kids[n], <<>>}
  PROVE  Grounded(kids2)
  <1> SUFFICES ASSUME NEW S \in SUBSET DOMAIN kids2, S # {}
               PROVE  \E n \in S : \A i \in DOMAIN kids2[n] : kids2[n][i] \notin S
    BY DEF Grounded
  <1>1. PICK n \in S : \A i \in DOMAIN kids[n] : kids[n][i] \notin S
    BY DEF Grounded
  <1> QED BY <1>1

-----------------------------------------------------------------------------
(* The documents of a heap *)

\* A sound heap without a node among its own descendants, not even along the
\* child pointers of references.
Readers(h, R) == Whole(h, R) /\ Grounded(KidsIn(h))

\* What DocsIn says of itself.
LEMMA HeapReads ==
  ASSUME NEW h, NEW R, Readers(h, R)
  PROVE  /\ IsForest(KidsIn(h)) /\ DOMAIN KidsIn(h) = Nodes
         /\ \A n \in Nodes : KidsIn(h)[n] = KidSeq(h, n) /\ KidSeq(h, n) \in Seq(Nodes)
         /\ \A n \in Nodes : DocsIn(h)[n] = Join(Label(h, n), Along(DocsIn(h), KidSeq(h, n)))
         /\ \A n \in Nodes : IsDoc(DocsIn(h)[n]) /\ AreDocs(Along(DocsIn(h), KidSeq(h, n)))
  <1> DEFINE K == KidsIn(h)
             L == [n \in Nodes |-> Label(h, n)]
  <1>1. DOMAIN K = Nodes /\ \A n \in Nodes : K[n] = KidSeq(h, n)
    BY DEF KidsIn
  <1>2. \A n \in Nodes : KidSeq(h, n) \in Seq(Nodes)
    BY KidList DEF Readers
  <1>3. K = [n \in Nodes |-> K[n]]
    BY DEF KidsIn
  <1>4. Grounded(K) /\ DocsIn(h) = Grow(L, K) /\ \A n \in Nodes : L[n] = Label(h, n)
    BY DEF Readers, DocsIn
  <1> HIDE DEF K, L
  <1>5. K \in [DOMAIN K -> Seq(DOMAIN K)]
    BY <1>1, <1>2, <1>3
  <1>6. IsForest(K)
    BY <1>4, <1>5 DEF IsForest
  <1>7. Reader(L, K, DOMAIN K, Grow(L, K))
    BY <1>6, GrowReads
  <1>8. \A n \in Nodes : DocsIn(h)[n] = Join(Label(h, n), Along(DocsIn(h), KidSeq(h, n)))
    BY <1>1, <1>4, <1>7 DEF Reader
  <1>9. ASSUME NEW n \in Nodes
        PROVE  IsDoc(DocsIn(h)[n]) /\ AreDocs(Along(DocsIn(h), KidSeq(h, n)))
    <2>1. IsDoc(Grow(L, K)[n]) /\ AreDocs(Along(Grow(L, K), K[n]))
      BY <1>1, <1>6, GrowIsDocs
    <2> QED BY <1>1, <1>4, <2>1
  <1> QED BY <1>1, <1>2, <1>6, <1>8, <1>9 DEF K

\* n itself reads the same in h and in g.
Alike(h, g, n) == Label(g, n) = Label(h, n) /\ KidSeq(g, n) = KidSeq(h, n)

\* The nodes of C, among which are their kids, are the same documents.
SameDocs(h, g, C) ==
  /\ C \subseteq Nodes
  /\ \A n \in C : /\ Alike(h, g, n) /\ DocsIn(g)[n] = DocsIn(h)[n]
                  /\ \A i \in DOMAIN KidSeq(h, n) : KidSeq(h, n)[i] \in C

\* Nodes that are alike, and all that is below them, are the same documents.
LEMMA DocsStay ==
  ASSUME NEW h, NEW R, Readers(h, R), NEW g, NEW Q, Readers(g, Q), NEW C \in SUBSET Nodes,
         \A n \in C : Alike(h, g, n) /\ \A i \in DOMAIN KidSeq(h, n) : KidSeq(h, n)[i] \in C
  PROVE  SameDocs(h, g, C)
  <1> DEFINE L == [n \in Nodes |-> Label(h, n)]
             M == [n \in Nodes |-> Label(g, n)]
             K == KidsIn(h)
             J == KidsIn(g)
  <1>1. /\ IsForest(K) /\ DOMAIN K = Nodes /\ \A n \in Nodes : K[n] = KidSeq(h, n)
        /\ IsForest(J) /\ DOMAIN J = Nodes /\ \A n \in Nodes : J[n] = KidSeq(g, n)
    BY HeapReads
  <1>2. DocsIn(h) = Grow(L, K) /\ DocsIn(g) = Grow(M, J)
    BY DEF DocsIn
  <1>3. \A n \in C : M[n] = L[n]
    BY DEF Alike
  <1> HIDE DEF L, M, K, J
  <1>4. /\ C \subseteq DOMAIN K \cap DOMAIN J /\ KidClosed(K, C)
        /\ \A n \in C : M[n] = L[n] /\ J[n] = K[n]
    BY <1>1, <1>3 DEF Alike, KidClosed
  <1>5. \A n \in C : Grow(M, J)[n] = Grow(L, K)[n]
    <2> TAKE n \in C
    <2> QED BY <1>1, <1>4, GrowIsLocal
  <1> QED BY <1>2, <1>5 DEF SameDocs

\* What is on a list is live.
LEMMA ListedAreLive ==
  ASSUME NEW h, NEW R, Whole(h, R), NEW q \in Nodes, NEW i \in DOMAIN KidSeq(h, q)
  PROVE  KidSeq(h, q)[i] \in Kids(h, q) /\ KidSeq(h, q)[i] \in Live(h) /\ q \in Live(h)
  <1> DEFINE s == KidSeq(h, q)
  <1>1. s \in Seq(Nodes) /\ Met(s) = Kids(h, q)
    BY KidList
  <1>2. i \in 1 .. Len(s)
    BY <1>1
  <1>3. s[i] \in Kids(h, q)
    BY <1>1, <1>2 DEF Met
  <1>4. h.child[q] # NULL /\ h.child[q] \in Live(h) /\ q \in Live(h)
    <2>1. h.child[q] # NULL
      BY <1>3 DEF Kids
    <2> QED BY <2>1 DEF Whole, Sound, TypeOKIn, Links, LinksLiveIn
  <1>5. ListClosed(h, Live(h)) /\ Live(h) \subseteq Nodes
    BY DEF ListClosed, Live, Whole, Sound, Links, LinksLiveIn
  <1>6. Kids(h, q) \subseteq Live(h)
    BY <1>4, <1>5, SiblingsLeast DEF Kids
  <1> QED BY <1>3, <1>4, <1>6

\* p is on no list.
Unlisted(h, p) == \A q \in Nodes : \A i \in DOMAIN KidSeq(h, q) : KidSeq(h, q)[i] # p

\* A root that no reference points to is on none.
LEMMA RootUnlisted ==
  ASSUME NEW h, NEW R, Whole(h, R), NEW p \in R, \A w \in h.refs : h.child[w] # p
  PROVE  Unlisted(h, p)
  <1>1. /\ h.prev[p] = NULL /\ NULL \notin Live(h) /\ LinksLiveIn(h) /\ DoublyLinkedIn(h) /\ p \in Live(h)
        /\ \A q \in Live(h) \ h.refs : h.child[q] # p
        /\ Live(h) \subseteq Nodes
    BY HeapAssumption DEF Whole, Sound, Links, OwnersIn, Live, TypeOKIn
  <1>2. ListClosed(h, Live(h) \ {p})
    BY <1>1 DEF ListClosed, LinksLiveIn, DoublyLinkedIn
  <1> SUFFICES ASSUME NEW q \in Nodes, NEW i \in DOMAIN KidSeq(h, q)
               PROVE  KidSeq(h, q)[i] # p
    BY DEF Unlisted
  <1>3. KidSeq(h, q)[i] \in Kids(h, q) /\ q \in Live(h)
    BY ListedAreLive
  <1>4. h.child[q] \in Live(h) \ {p}
    BY <1>1, <1>3 DEF Kids, LinksLiveIn
  <1>5. Kids(h, q) \subseteq Live(h) \ {p}
    BY <1>1, <1>2, <1>4, SiblingsLeast DEF Kids
  <1> QED BY <1>3, <1>5

\* Only p, which is on no list, reads otherwise in g: all else is the same
\* documents, and still no node is among its own descendants.
LEMMA OneTouched ==
  ASSUME NEW h, NEW R, Readers(h, R), NEW g, NEW Q, Whole(g, Q), NEW p \in Nodes,
         Unlisted(h, p), \A i \in DOMAIN KidSeq(g, p) : KidSeq(g, p)[i] # p,
         \A m \in Nodes \ {p} : Alike(h, g, m)
  PROVE  Readers(g, Q) /\ SameDocs(h, g, Nodes \ {p})
  <1> DEFINE K == KidsIn(h)
             J == KidsIn(g)
  <1>1. /\ DOMAIN K = Nodes /\ \A n \in Nodes : K[n] = KidSeq(h, n)
        /\ DOMAIN J = Nodes /\ \A n \in Nodes : J[n] = KidSeq(g, n)
    BY DEF KidsIn
  <1>2. Grounded(K)
    BY DEF Readers
  <1> HIDE DEF K, J
  <1>3. Grounded(J)
    <2>1. \A n \in DOMAIN K \ {p} : J[n] = K[n]
      BY <1>1 DEF Alike
    <2>2. \A n \in DOMAIN K : \A i \in DOMAIN K[n] : K[n][i] # p
      BY <1>1 DEF Unlisted
    <2>3. \A i \in DOMAIN J[p] : J[p][i] # p
      BY <1>1
    <2> QED BY <1>1, <1>2, <2>1, <2>2, <2>3, GroundedAfterOne
  <1>4. Readers(g, Q)
    BY <1>3 DEF Readers, J
  <1>5. \A n \in Nodes \ {p} : \A i \in DOMAIN KidSeq(h, n) : KidSeq(h, n)[i] \in Nodes \ {p}
    <2> TAKE n \in Nodes \ {p}
    <2> TAKE i \in DOMAIN KidSeq(h, n)
    <2>1. KidSeq(h, n)[i] \in Live(h)
      BY ListedAreLive DEF Readers
    <2> QED BY <2>1 DEF Unlisted, Live
  <1>6. SameDocs(h, g, Nodes \ {p})
    <2> DEFINE C == Nodes \ {p}
    <2>1. C \in SUBSET Nodes
      OBVIOUS
    <2>2. \A n \in C : Alike(h, g, n) /\ \A i \in DOMAIN KidSeq(h, n) : KidSeq(h, n)[i] \in C
      BY <1>5
    <2> HIDE DEF C
    <2>3. SameDocs(h, g, C)
      BY <1>4, <2>1, <2>2, DocsStay
    <2> QED BY <2>3 DEF C
  <1> QED BY <1>4, <1>6

-----------------------------------------------------------------------------
(* What the steps of a build do to the documents *)

\* What is written to a free buffer is read by nobody.
LEMMA FreshBufferUnread ==
  ASSUME NEW h, NEW R, Sound(h, R), Strung(h, {}), NEW b \in Bufs \ LiveBufs(h), NEW g, NEW s,
         g.text = [h.text EXCEPT ![b] = s], NEW m \in Nodes
  PROVE  /\ Deref(g, h.string[m]) = Deref(h, h.string[m])
         /\ Deref(g, h.valuestring[m]) = Deref(h, h.valuestring[m])
  <1>1. {h.valuestring[m], h.string[m]} \subseteq Texts \cup LiveBufs(h) \cup {NULL}
    <2>1. CASE m \in Live(h)
      BY <2>1, StrungLives DEF StringsLiveIn, Pointers
    <2>2. CASE m \notin Live(h)
      BY <2>2 DEF Sound, TypeOKIn
    <2> QED BY <2>1, <2>2
  <1>2. h \in Heap
    BY DEF Sound, TypeOKIn
  <1>3. \A p \in Texts \cup LiveBufs(h) \cup {NULL} : Deref(g, p) = Deref(h, p)
    BY <1>2, HeapAssumption DEF Deref, LiveBufs, Heap
  <1> QED BY <1>1, <1>3

\* alloc_node: a leaf besides what there was.
LEMMA NewNodeReads ==
  ASSUME NEW h, NEW R, Readers(h, R), Strung(h, {}), NEW n \in Nodes \ Live(h), NEW t \in Types
  PROVE  LET g == NewNode(h, n, t)
         IN /\ Readers(g, R \cup {n}) /\ SameDocs(h, g, Nodes \ {n})
            /\ KidSeq(g, n) = <<>> /\ g.type[n] = t
  <1> DEFINE g == NewNode(h, n, t)
  <1>1. /\ h \in Heap /\ Sound(h, R) /\ Reached(h, R) /\ Whole(h, R)
    BY DEF Readers, Whole, Sound, TypeOKIn
  <1>2. GrownBy(h, g, n, t, R)
    BY <1>1, NewNodeIsPrivate
  <1>3. /\ g.next = h.next /\ g.child = h.child /\ g.text = h.text
        /\ g.string = h.string /\ g.valuestring = h.valuestring
        /\ \A m \in Nodes \ {n} : g.type[m] = h.type[m]
    BY <1>1 DEF Heap, NewNode
  <1> HIDE DEF g
  <1>4. Whole(g, R \cup {n}) /\ g.type[n] = t /\ g.child[n] = NULL
    BY <1>2 DEF GrownBy, Whole
  <1>5. \A m \in Nodes \ {n} : Label(g, m) = Label(h, m)
    BY <1>3 DEF Label, Deref
  <1>6. \A m \in Nodes : KidSeq(g, m) = KidSeq(h, m)
    <2> TAKE m \in Nodes
    <2> QED BY <1>1, <1>3, <1>4, KidSeqStays
  <1>7. KidSeq(g, n) = <<>>
    BY <1>4, NoKids
  <1>8. Unlisted(h, n)
    BY <1>1, ListedAreLive DEF Unlisted
  <1>9. Readers(g, R \cup {n}) /\ SameDocs(h, g, Nodes \ {n})
    <2>1. \A m \in Nodes \ {n} : Alike(h, g, m)
      BY <1>5, <1>6 DEF Alike
    <2>2. \A i \in DOMAIN KidSeq(g, n) : KidSeq(g, n)[i] # n
      BY <1>7
    <2> QED BY <1>4, <1>8, <2>1, <2>2, OneTouched
  <1> QED BY <1>4, <1>7, <1>9 DEF g

\* A private root is on no list.
LEMMA PrivateUnlisted ==
  ASSUME NEW h, NEW R, Whole(h, R), NEW p \in R, Private(h, p)
  PROVE  Unlisted(h, p) /\ p \in Nodes /\ p \in Live(h) /\ p \notin h.refs
  <1>1. p \in Subtree(h, p) /\ p \in Live(h)
    BY SubtreeClosedOff DEF Whole, Sound, TypeOKIn
  <1>2. Unlisted(h, p)
    BY <1>1, RootUnlisted DEF Private
  <1> QED BY <1>1, <1>2 DEF Private, Live

\* The value of a private root is set.
LEMMA PutTextReads ==
  ASSUME NEW h, NEW R, Readers(h, R), Strung(h, {}), NEW n \in R, Private(h, n),
         h.type[n] \in Strings, h.valuestring[n] = NULL,
         NEW b \in Bufs \ LiveBufs(h), NEW s \in Texts
  PROVE  LET g == PutText(h, n, s, b)
         IN /\ Readers(g, R) /\ SameDocs(h, g, Nodes \ {n}) /\ KidSeq(g, n) = KidSeq(h, n)
            /\ Deref(g, g.valuestring[n]) = s /\ Deref(g, g.string[n]) = Deref(h, h.string[n])
            /\ g.type = h.type
  <1> DEFINE g == PutText(h, n, s, b)
  <1>1. h \in Heap /\ Sound(h, R) /\ Reached(h, R) /\ Whole(h, R) /\ s # NULL
    BY HeapAssumption DEF Readers, Whole, Sound, TypeOKIn
  <1>2. /\ Sound(g, R) /\ Strung(g, {}) /\ Reached(g, R)
        /\ SameBut(h, g, {n}) /\ Subtree(g, n) = Subtree(h, n) /\ Private(g, n)
        /\ g.type = h.type /\ g.string = h.string /\ g.child = h.child /\ g.next = h.next
        /\ g.consts = h.consts /\ Live(g) = Live(h)
    BY <1>1, TextIsPrivate
  <1>3. /\ g.text = [h.text EXCEPT ![b] = s] /\ g.valuestring = [h.valuestring EXCEPT ![n] = b]
    BY <1>1 DEF PutText, NewText, Heap
  <1> HIDE DEF g
  <1>4. n \in Nodes /\ Unlisted(h, n) /\ Whole(g, R)
    BY <1>1, <1>2, PrivateUnlisted DEF Whole
  <1>5. \A m \in Nodes : /\ Deref(g, h.string[m]) = Deref(h, h.string[m])
                         /\ Deref(g, h.valuestring[m]) = Deref(h, h.valuestring[m])
    BY <1>1, <1>3, FreshBufferUnread
  <1>6. \A m \in Nodes \ {n} : g.valuestring[m] = h.valuestring[m]
    BY <1>1, <1>3 DEF Heap
  <1>7. \A m \in Nodes : KidSeq(g, m) = KidSeq(h, m)
    <2> TAKE m \in Nodes
    <2> QED BY <1>1, <1>2, <1>4, KidSeqStays
  <1>8. Deref(g, g.valuestring[n]) = s
    BY <1>1, <1>3, <1>4 DEF Heap, Deref
  <1>9. Readers(g, R) /\ SameDocs(h, g, Nodes \ {n})
    <2>1. \A m \in Nodes \ {n} : Alike(h, g, m)
      BY <1>2, <1>5, <1>6, <1>7 DEF Alike, Label
    <2>2. \A i \in DOMAIN KidSeq(g, n) : KidSeq(g, n)[i] # n
      BY <1>4, <1>7 DEF Unlisted
    <2> QED BY <1>4, <2>1, <2>2, OneTouched
  <1> QED BY <1>2, <1>4, <1>5, <1>7, <1>8, <1>9 DEF g

\* So is its key.
LEMMA PutKeyReads ==
  ASSUME NEW h, NEW R, Readers(h, R), Strung(h, {}), NEW n \in R, Private(h, n),
         n \notin h.consts, h.string[n] = NULL,
         NEW b \in Bufs \ LiveBufs(h), NEW s \in Texts
  PROVE  LET g == PutKey(h, n, s, b)
         IN /\ Readers(g, R) /\ SameDocs(h, g, Nodes \ {n}) /\ KidSeq(g, n) = KidSeq(h, n)
            /\ Deref(g, g.string[n]) = s
            /\ Deref(g, g.valuestring[n]) = Deref(h, h.valuestring[n])
            /\ g.type = h.type
  <1> DEFINE g == PutKey(h, n, s, b)
  <1>1. h \in Heap /\ Sound(h, R) /\ Reached(h, R) /\ Whole(h, R) /\ s # NULL
    BY HeapAssumption DEF Readers, Whole, Sound, TypeOKIn
  <1>2. /\ Sound(g, R) /\ Strung(g, {}) /\ Reached(g, R)
        /\ SameBut(h, g, {n}) /\ Subtree(g, n) = Subtree(h, n) /\ Private(g, n)
        /\ g.type = h.type /\ g.child = h.child /\ g.next = h.next
        /\ g.consts = h.consts /\ Live(g) = Live(h)
    BY <1>1, KeyIsPrivate
  <1>3. /\ g.text = [h.text EXCEPT ![b] = s] /\ g.string = [h.string EXCEPT ![n] = b]
        /\ g.valuestring = h.valuestring
    BY <1>1 DEF PutKey, NewText, Heap
  <1> HIDE DEF g
  <1>4. n \in Nodes /\ Unlisted(h, n) /\ Whole(g, R)
    BY <1>1, <1>2, PrivateUnlisted DEF Whole
  <1>5. \A m \in Nodes : /\ Deref(g, h.string[m]) = Deref(h, h.string[m])
                         /\ Deref(g, h.valuestring[m]) = Deref(h, h.valuestring[m])
    BY <1>1, <1>3, FreshBufferUnread
  <1>6. \A m \in Nodes \ {n} : g.string[m] = h.string[m]
    BY <1>1, <1>3 DEF Heap
  <1>7. \A m \in Nodes : KidSeq(g, m) = KidSeq(h, m)
    <2> TAKE m \in Nodes
    <2> QED BY <1>1, <1>2, <1>4, KidSeqStays
  <1>8. Deref(g, g.string[n]) = s
    BY <1>1, <1>3, <1>4 DEF Heap, Deref
  <1>9. Readers(g, R) /\ SameDocs(h, g, Nodes \ {n})
    <2>1. \A m \in Nodes \ {n} : Alike(h, g, m)
      BY <1>2, <1>3, <1>5, <1>6, <1>7 DEF Alike, Label
    <2>2. \A i \in DOMAIN KidSeq(g, n) : KidSeq(g, n)[i] # n
      BY <1>4, <1>7 DEF Unlisted
    <2> QED BY <1>4, <2>1, <2>2, OneTouched
  <1> QED BY <1>2, <1>3, <1>4, <1>5, <1>7, <1>8, <1>9 DEF g

\* What other nodes list is not below a private root.
LEMMA ListsBeside ==
  ASSUME NEW h, NEW R, Whole(h, R), NEW x \in R, MayFree(h, x), NEW q \in Nodes \ Subtree(h, x)
  PROVE  Kids(h, q) \cap Subtree(h, x) = {}
  <1> DEFINE gone == Subtree(h, x)
             S == Live(h) \ gone
  <1>1. /\ gone \subseteq Live(h) /\ Live(h) \subseteq Nodes
        /\ \A m \in Live(h) \ gone : /\ h.next[m] \notin gone
                                     /\ m \notin h.refs => h.child[m] \notin gone
    BY SubtreeClosedOff DEF Whole, Live
  <1>2. /\ \A m \in Live(h) : h.next[m] \in Live(h) \cup {NULL} /\ h.child[m] \in Live(h) \cup {NULL}
        /\ \A m \in Nodes \ Live(h) : h.child[m] = NULL
    BY DEF Whole, Sound, Links, LinksLiveIn, TypeOKIn
  <1>3. \A w \in h.refs \ gone : h.child[w] \notin gone
    BY DEF MayFree
  <1> HIDE DEF gone
  <1>4. ListClosed(h, S)
    BY <1>1, <1>2 DEF ListClosed
  <1>5. CASE h.child[q] = NULL
    BY <1>5 DEF Kids
  <1>6. CASE h.child[q] # NULL
    <2>1. q \in Live(h) \ gone
      BY <1>2, <1>6 DEF gone
    <2>2. h.child[q] \in S
      BY <1>1, <1>2, <1>3, <1>6, <2>1
    <2>3. S \subseteq Nodes
      BY <1>1
    <2> HIDE DEF S
    <2>4. Kids(h, q) \subseteq S
      BY <1>4, <1>6, <2>2, <2>3, SiblingsLeast DEF Kids
    <2> QED BY <2>4 DEF S, gone
  <1> QED BY <1>5, <1>6

\* attach_child: the kids of p grow by x, and nothing else is read otherwise.
LEMMA AttachReads ==
  ASSUME NEW h, NEW R, Readers(h, R), Strung(h, {}), NEW p \in R, NEW x \in R, x # p,
         Private(h, p), Private(h, x), h.type[p] \in Containers
  PROVE  LET g == AttachChild(h, p, x)
         IN /\ Readers(g, R \ {x}) /\ SameDocs(h, g, Nodes \ {p})
            /\ Label(g, p) = Label(h, p) /\ KidSeq(g, p) = Append(KidSeq(h, p), x)
            /\ KidSeq(h, p) \in Seq(Nodes) /\ x \in Nodes
  <1> DEFINE g == AttachChild(h, p, x)
  <1>1. h \in Heap /\ Sound(h, R) /\ Reached(h, R) /\ Whole(h, R)
    BY DEF Readers, Whole, Sound, TypeOKIn
  <1>2. p \in Live(h) \ h.refs /\ p \in Nodes /\ x \in Nodes /\ Unlisted(h, p)
    BY <1>1, PrivateUnlisted
  <1>3. p \notin Subtree(h, x)
    <2>1. Subtree(h, x) \cap R = {x}
      BY <1>1, SubtreeClosedOff
    <2> QED BY <2>1
  <1>4. /\ KidSeq(g, p) = Append(KidSeq(h, p), x)
        /\ \A q \in Nodes \ {p} : g.child[q] = h.child[q]
        /\ \A m \in Nodes \ Kids(h, p) : g.next[m] = h.next[m]
    BY <1>1, <1>2, <1>3, AttachedKids
  <1>5. /\ g.type = h.type /\ g.valuestring = h.valuestring /\ g.string = h.string
    BY <1>1, AttachGrows
  <1>6. g.text = h.text
    BY <1>1 DEF AttachChild, Heap
  <1>7. Whole(g, R \ {x})
    BY <1>1, <1>2, <1>3, AttachChildSound, AttachChildReached DEF Whole
  <1> HIDE DEF g
  <1>8. \A m \in Nodes : Label(g, m) = Label(h, m)
    BY <1>5, <1>6 DEF Label, Deref
  <1>9. Kids(h, p) \subseteq Subtree(h, p)
    BY <1>1, <1>2, KidsInTree
  <1>10. \A q \in Nodes \ {p} : Kids(h, q) \cap Kids(h, p) = {}
    <2> TAKE q \in Nodes \ {p}
    <2>1. CASE q \notin Subtree(h, p)
      <3>1. MayFree(h, p)
        BY PrivateMayFree
      <3> QED BY <1>1, <1>9, <2>1, <3>1, ListsBeside
    <2>2. CASE q \in Subtree(h, p)
      <3>1. q \in Live(h) \ h.refs
        BY <1>1, <2>2, SubtreeClosedOff DEF Private
      <3> QED BY <1>1, <1>2, <3>1, KidsApart
    <2> QED BY <2>1, <2>2
  <1>11. \A q \in Nodes \ {p} : KidSeq(g, q) = KidSeq(h, q)
    <2> TAKE q \in Nodes \ {p}
    <2>1. \A m \in Kids(h, q) : g.next[m] = h.next[m]
      <3>1. Kids(h, q) \subseteq Nodes
        BY DEF Kids, Siblings, Meet
      <3> QED BY <1>4, <1>10, <3>1
    <2> QED BY <1>1, <1>4, <1>7, <2>1, KidSeqStays
  <1>12. KidSeq(h, p) \in Seq(Nodes)
    BY <1>1, <1>2, KidList
  <1>13. \A i \in DOMAIN KidSeq(g, p) : KidSeq(g, p)[i] # p
    <2> DEFINE s == KidSeq(h, p)
    <2>1. \A i \in DOMAIN s : s[i] # p
      BY <1>2 DEF Unlisted
    <2>2. s \in Seq(Nodes)
      BY <1>12
    <2> HIDE DEF s
    <2>3. \A i \in DOMAIN Append(s, x) : Append(s, x)[i] # p
      BY <1>2, <2>1, <2>2
    <2> QED BY <1>4, <2>3 DEF s
  <1>14. Readers(g, R \ {x}) /\ SameDocs(h, g, Nodes \ {p})
    <2>1. \A m \in Nodes \ {p} : Alike(h, g, m)
      BY <1>8, <1>11 DEF Alike
    <2> QED BY <1>2, <1>7, <1>13, <2>1, OneTouched
  <1> QED BY <1>2, <1>4, <1>8, <1>12, <1>14 DEF g

\* free_cjson: what is not freed reads the same.
LEMMA FreeReads ==
  ASSUME NEW h, NEW R, Readers(h, R), Strung(h, {}), NEW x \in R, MayFree(h, x)
  PROVE  LET g == FreeTree(h, x)
         IN /\ Readers(g, R \ {x}) /\ SameDocs(h, g, Nodes \ Subtree(h, x))
            /\ g.refs = h.refs \ Subtree(h, x)
  <1> DEFINE g == FreeTree(h, x)
             gone == Subtree(h, x)
  <1>1. h \in Heap /\ Sound(h, R) /\ Reached(h, R) /\ Whole(h, R)
    BY DEF Readers, Whole, Sound, TypeOKIn
  <1>2. Whole(g, R \ {x})
    BY <1>1, FreeTreeSound, FreeTreeReached DEF Whole, MayFree
  <1>3. /\ \A m \in Nodes \ gone : /\ g.next[m] = h.next[m] /\ g.child[m] = h.child[m]
                                   /\ g.type[m] = h.type[m]
        /\ \A m \in gone : g.child[m] = NULL
        /\ g.refs = h.refs \ gone /\ gone \subseteq Nodes
    <2>1. gone \subseteq Nodes
      BY <1>1, SubtreeClosedOff DEF Live
    <2> QED BY <1>1, <2>1 DEF FreeTree, Blank, Heap
  <1>4. \A m \in Nodes \ gone : /\ Deref(g, g.string[m]) = Deref(h, h.string[m])
                                /\ Deref(g, g.valuestring[m]) = Deref(h, h.valuestring[m])
    BY <1>1, FreeTreeReads
  <1>5. \A q \in Nodes \ gone : Kids(h, q) \cap gone = {} /\ Kids(h, q) \subseteq Nodes
    BY <1>1, ListsBeside DEF Kids, Siblings, Meet
  <1> HIDE DEF g, gone
  <1>6. \A q \in Nodes \ gone : Alike(h, g, q)
    <2> TAKE q \in Nodes \ gone
    <2>1. KidSeq(g, q) = KidSeq(h, q)
      <3>1. \A m \in Kids(h, q) : g.next[m] = h.next[m]
        BY <1>3, <1>5
      <3> QED BY <1>1, <1>2, <1>3, <3>1, KidSeqStays
    <2> QED BY <1>3, <1>4, <2>1 DEF Alike, Label
  <1>7. \A q \in gone : KidSeq(g, q) = <<>>
    BY <1>2, <1>3, NoKids
  <1>8. Readers(g, R \ {x})
    <2> DEFINE K == KidsIn(h)
               J == KidsIn(g)
    <2>1. /\ DOMAIN K = Nodes /\ \A n \in Nodes : K[n] = KidSeq(h, n)
          /\ DOMAIN J = Nodes /\ \A n \in Nodes : J[n] = KidSeq(g, n)
      BY DEF KidsIn
    <2>2. Grounded(K)
      BY DEF Readers
    <2> HIDE DEF K, J
    <2>3. \A n \in DOMAIN K : J[n] \in {K[n], <<>>}
      BY <1>6, <1>7, <2>1 DEF Alike
    <2>4. Grounded(J)
      BY <2>1, <2>2, <2>3, GroundedAfterLoss
    <2> QED BY <1>2, <2>4 DEF Readers, J
  <1>9. SameDocs(h, g, Nodes \ gone)
    <2> DEFINE C == Nodes \ gone
    <2>1. C \in SUBSET Nodes
      OBVIOUS
    <2>2. \A n \in C : Alike(h, g, n) /\ \A i \in DOMAIN KidSeq(h, n) : KidSeq(h, n)[i] \in C
      <3> TAKE n \in C
      <3>1. \A i \in DOMAIN KidSeq(h, n) : KidSeq(h, n)[i] \in Kids(h, n)
        BY <1>1, ListedAreLive
      <3> QED BY <1>5, <1>6, <3>1
    <2> HIDE DEF C
    <2>3. SameDocs(h, g, C)
      BY <1>8, <2>1, <2>2, DocsStay
    <2> QED BY <2>3 DEF C
  <1> QED BY <1>3, <1>8, <1>9 DEF g, gone

-----------------------------------------------------------------------------
(* JsonDocuments' words *)

\* JsonDocuments sees trees as JsonTrees does.
LEMMA SameWords ==
  /\ \A d : Documents!Parts(d) = Parts(d) /\ Documents!Members(d) = Members(d)
  /\ \A l, docs : Documents!Join(l, docs) = Join(l, docs)
  <1>1. \A d, p : Documents!Below(d, p) = Below(d, p)
    BY DEF Documents!Below, Below
  <1>2. \A d, p : Documents!Part(d, p) = Part(d, p)
    BY <1>1 DEF Documents!Part, Part
  <1>3. \A d : Documents!Parts(d) = Parts(d)
    BY <1>2 DEF Documents!Parts, Parts
  <1>4. \A d : Documents!Members(d) = Members(d)
    BY <1>2 DEF Documents!Members, Members
  <1>5. \A l, docs : Documents!Join(l, docs) = Join(l, docs)
    BY DEF Documents!Join, Join
  <1> QED BY <1>3, <1>4, <1>5

Plainly(d) == Documents!Plain(d)
PlainLabel(l) == Documents!PlainLabel(l)

\* What is in a plain document.
LEMMA PlainEntry ==
  ASSUME NEW d, IsDoc(d)
  PROVE  /\ IsDoc(Plainly(d))
         /\ \A q, m : <<q, m>> \in Plainly(d) <=> \E l : <<q, l>> \in d /\ m = PlainLabel(l)
  <1> DEFINE P == Plainly(d)
  <1>1. P = {<<e[1], PlainLabel(e[2])>> : e \in d}
    BY DEF Plainly, PlainLabel, Documents!Plain
  <1>2. \A e \in d : e = <<e[1], e[2]>> /\ e[1] \in Positions
    BY DEF IsDoc
  <1> HIDE DEF P
  <1>3. ASSUME NEW x \in P
        PROVE  x = <<x[1], x[2]>> /\ x[1] \in Positions
    <2>1. PICK e \in d : x = <<e[1], PlainLabel(e[2])>>
      BY <1>1
    <2>2. x[1] = e[1] /\ x[2] = PlainLabel(e[2])
      BY <2>1
    <2> QED BY <1>2, <2>1, <2>2
  <1>4. ASSUME NEW q, NEW m, <<q, m>> \in P
        PROVE  \E l : <<q, l>> \in d /\ m = PlainLabel(l)
    <2>1. PICK e \in d : <<q, m>> = <<e[1], PlainLabel(e[2])>>
      BY <1>1, <1>4
    <2>2. q = e[1] /\ m = PlainLabel(e[2]) /\ <<e[1], e[2]>> \in d
      BY <1>2, <2>1
    <2> QED BY <2>2
  <1>5. ASSUME NEW q, NEW l, <<q, l>> \in d
        PROVE  <<q, PlainLabel(l)>> \in P
    <2> DEFINE e == <<q, l>>
    <2>1. e \in d /\ e[1] = q /\ e[2] = l
      BY <1>5
    <2> HIDE DEF e
    <2>2. <<e[1], PlainLabel(e[2])>> \in P
      BY <1>1, <2>1
    <2> QED BY <2>1, <2>2
  <1>6. IsDoc(P)
    <2>1. PICK l : <<<<>>, l>> \in d
      BY DEF IsDoc
    <2>2. <<<<>>, PlainLabel(l)>> \in P
      BY <1>5, <2>1
    <2> QED BY <1>3, <2>2 DEF IsDoc
  <1>7. \A q, m : <<q, m>> \in P <=> \E l : <<q, l>> \in d /\ m = PlainLabel(l)
    BY <1>4, <1>5
  <1> QED BY <1>6, <1>7 DEF P

\* What is in a document with the label l and the kids docs.
Listed(d, l, docs) ==
  \A q, m : <<q, m>> \in d <=>
              \/ q = <<>> /\ m = l
              \/ \E i \in DOMAIN docs, r \in Positions : q = <<i>> \o r /\ <<r, m>> \in docs[i]

LEMMA JoinListed ==
  ASSUME NEW l, NEW docs, AreDocs(docs)
  PROVE  Listed(Join(l, docs), l, docs)
  <1> DEFINE J == Join(l, docs)
  <1>1. \A q, m : <<q, m>> \in J <=>
                    \/ q = <<>> /\ m = l
                    \/ \E i \in DOMAIN docs, r \in Positions : q = <<i>> \o r /\ <<r, m>> \in docs[i]
    BY JoinEntry
  <1> HIDE DEF J
  <1>2. Listed(J, l, docs)
    BY <1>1 DEF Listed
  <1> QED BY <1>2 DEF J

\* The plain copy of a document has the plain copies of its kids.
LEMMA PlainJoin ==
  ASSUME NEW l, NEW docs, AreDocs(docs), NEW plain, DOMAIN plain = DOMAIN docs,
         \A i \in DOMAIN docs : plain[i] = Plainly(docs[i])
  PROVE  Plainly(Join(l, docs)) = Join(PlainLabel(l), plain)
  <1> DEFINE J == Join(l, docs)
             P == Join(PlainLabel(l), plain)
  <1>1. \A i \in DOMAIN docs : IsDoc(docs[i]) /\ i \in Nat
    BY DEF AreDocs
  <1>2. AreDocs(plain)
    <2>1. \A i \in DOMAIN plain : IsDoc(plain[i])
      BY <1>1, PlainEntry
    <2> QED BY <2>1 DEF AreDocs
  <1>3. IsDoc(J) /\ IsDoc(P)
    BY <1>2, JoinIsDoc
  <1>4. \A q, m : <<q, m>> \in J <=>
                    \/ q = <<>> /\ m = l
                    \/ \E i \in DOMAIN docs, r \in Positions : q = <<i>> \o r /\ <<r, m>> \in docs[i]
    <2>1. Listed(J, l, docs)
      BY JoinListed
    <2> HIDE DEF J
    <2> QED BY <2>1 DEF Listed
  <1>5. \A q, m : <<q, m>> \in P <=>
                    \/ q = <<>> /\ m = PlainLabel(l)
                    \/ \E i \in DOMAIN docs, r \in Positions : q = <<i>> \o r /\ <<r, m>> \in plain[i]
    <2>1. Listed(P, PlainLabel(l), plain)
      BY <1>2, JoinListed
    <2> HIDE DEF P
    <2> QED BY <2>1 DEF Listed
  <1> HIDE DEF J, P
  <1>6. IsDoc(Plainly(J)) /\ \A q, m : <<q, m>> \in Plainly(J) <=> \E k : <<q, k>> \in J /\ m = PlainLabel(k)
    BY <1>3, PlainEntry
  <1>7. \A i \in DOMAIN docs : \A r, m : <<r, m>> \in plain[i] <=> \E k : <<r, k>> \in docs[i] /\ m = PlainLabel(k)
    <2> TAKE i \in DOMAIN docs
    <2> DEFINE d == docs[i]
    <2>1. IsDoc(d) /\ plain[i] = Plainly(d)
      BY <1>1
    <2> HIDE DEF d
    <2>2. \A q, m : <<q, m>> \in Plainly(d) <=> \E k : <<q, k>> \in d /\ m = PlainLabel(k)
      BY <2>1, PlainEntry
    <2> QED BY <2>1, <2>2 DEF d
  <1>8. \A q, m : <<q, m>> \in Plainly(J) <=> <<q, m>> \in P
    <2> TAKE q, m
    <2>1. ASSUME <<q, m>> \in Plainly(J)
          PROVE  <<q, m>> \in P
      <3>1. PICK k : <<q, k>> \in J /\ m = PlainLabel(k)
        BY <1>6, <2>1
      <3>2. CASE q = <<>> /\ k = l
        BY <1>5, <3>1, <3>2
      <3>3. CASE \E i \in DOMAIN docs, r \in Positions : q = <<i>> \o r /\ <<r, k>> \in docs[i]
        <4>1. PICK i \in DOMAIN docs, r \in Positions : q = <<i>> \o r /\ <<r, k>> \in docs[i]
          BY <3>3
        <4>2. <<r, m>> \in plain[i]
          BY <1>7, <3>1, <4>1
        <4> QED BY <1>5, <4>1, <4>2
      <3> QED BY <1>4, <3>1, <3>2, <3>3
    <2>2. ASSUME <<q, m>> \in P
          PROVE  <<q, m>> \in Plainly(J)
      <3>1. CASE q = <<>> /\ m = PlainLabel(l)
        <4>1. <<q, l>> \in J
          BY <1>4, <3>1
        <4> QED BY <1>6, <3>1, <4>1
      <3>2. CASE \E i \in DOMAIN docs, r \in Positions : q = <<i>> \o r /\ <<r, m>> \in plain[i]
        <4>1. PICK i \in DOMAIN docs, r \in Positions : q = <<i>> \o r /\ <<r, m>> \in plain[i]
          BY <3>2
        <4>2. PICK k : <<r, k>> \in docs[i] /\ m = PlainLabel(k)
          BY <1>7, <4>1
        <4>3. <<q, k>> \in J
          BY <1>4, <4>1, <4>2
        <4> QED BY <1>6, <4>2, <4>3
      <3> QED BY <1>5, <2>2, <3>1, <3>2
    <2> QED BY <2>1, <2>2
  <1>9. Plainly(J) = P
    <2>1. (\A e \in Plainly(J) : e = <<e[1], e[2]>>) /\ (\A e \in P : e = <<e[1], e[2]>>)
      BY <1>3, <1>6 DEF IsDoc
    <2> QED BY <1>8, <2>1, SameEntries
  <1> QED BY <1>9 DEF J, P

\* Documents with the same label and the same kids are the same.
LEMMA SameJoin ==
  ASSUME NEW l, NEW docs, NEW docs2, DOMAIN docs2 = DOMAIN docs,
         \A i \in DOMAIN docs : docs2[i] = docs[i]
  PROVE  Join(l, docs2) = Join(l, docs)
  <1> DEFINE B(i) == {<<<<i>> \o e[1], e[2]>> : e \in docs[i]}
             C(i) == {<<<<i>> \o e[1], e[2]>> : e \in docs2[i]}
  <1>1. \A i \in DOMAIN docs : B(i) = C(i)
    OBVIOUS
  <1>2. /\ Join(l, docs) = {<<<<>>, l>>} \cup UNION {B(i) : i \in DOMAIN docs}
        /\ Join(l, docs2) = {<<<<>>, l>>} \cup UNION {C(i) : i \in DOMAIN docs}
    BY DEF Join
  <1> HIDE DEF B, C
  <1>3. {B(i) : i \in DOMAIN docs} = {C(i) : i \in DOMAIN docs}
    BY <1>1
  <1> QED BY <1>2, <1>3

-----------------------------------------------------------------------------
(* What the caller holds *)

\* What is in the tree of a root is x or a kid in it, and a part of its document.
LEMMA TreesAreParts ==
  ASSUME NEW h, NEW R, Readers(h, R), NEW x \in R, NEW m \in Subtree(h, x)
  PROVE  LET d == DocsIn(h)[x]
         IN /\ DocsIn(h)[m] \in Parts(d)
            /\ \/ m = x
               \/ \E p \in Nodes : /\ DocsIn(h)[p] \in Parts(d)
                                   /\ \E i \in 1 .. Len(KidSeq(h, p)) : m = KidSeq(h, p)[i]
  <1> DEFINE doc == DocsIn(h)
             d == doc[x]
             Kid(n) == \E p \in Nodes : /\ doc[p] \in Parts(d)
                                        /\ \E i \in 1 .. Len(KidSeq(h, p)) : n = KidSeq(h, p)[i]
             Q == {n \in Nodes : doc[n] \in Parts(d) /\ (n = x \/ Kid(n))}
  <1>1. /\ h \in Heap /\ Whole(h, R) /\ x \in Nodes
    BY DEF Readers, Whole, Sound, TypeOKIn, Live
  <1>2. /\ \A n \in Nodes : /\ KidSeq(h, n) \in Seq(Nodes)
                            /\ doc[n] = Join(Label(h, n), Along(doc, KidSeq(h, n)))
                            /\ IsDoc(doc[n]) /\ AreDocs(Along(doc, KidSeq(h, n)))
    BY HeapReads
  <1>3. \A n \in Nodes : Chain(h, h.child[n], KidSeq(h, n))
    BY <1>1, KidList
  <1>a. \A p \in Nodes :
          /\ Len(KidSeq(h, p)) \in Nat
          /\ \A i \in 1 .. Len(KidSeq(h, p)) :
               h.next[KidSeq(h, p)[i]] = IF i = Len(KidSeq(h, p)) THEN NULL ELSE KidSeq(h, p)[i + 1]
    <2> TAKE p \in Nodes
    <2> DEFINE s == KidSeq(h, p)
    <2>1. Chain(h, h.child[p], s)
      BY <1>3
    <2> HIDE DEF s
    <2>2. Len(s) \in Nat /\ \A i \in 1 .. Len(s) : h.next[s[i]] = IF i = Len(s) THEN NULL ELSE s[i + 1]
      BY <2>1 DEF Chain
    <2> QED BY <2>2 DEF s
  <1> HIDE DEF doc, d
  <1>4. IsDoc(d) /\ d \in Parts(d)
    BY <1>1, <1>2, WholeIsPart DEF d
  <1>5. ASSUME NEW p \in Nodes, doc[p] \in Parts(d), NEW i \in 1 .. Len(KidSeq(h, p))
        PROVE  KidSeq(h, p)[i] \in Q
    <2> DEFINE s == KidSeq(h, p)
    <2>1. s \in Seq(Nodes) /\ i \in DOMAIN s /\ s[i] \in Nodes
      BY <1>2
    <2>2. DOMAIN Along(doc, s) = DOMAIN s /\ Along(doc, s)[i] = doc[s[i]]
      BY <2>1 DEF Along
    <2>3. Join(Label(h, p), Along(doc, s)) \in Parts(d) /\ AreDocs(Along(doc, s))
      BY <1>2, <1>5
    <2>4. doc[s[i]] \in Parts(d)
      BY <1>4, <2>1, <2>2, <2>3, KidsOfParts
    <2>5. Kid(s[i])
      BY <1>5
    <2> QED BY <2>1, <2>4, <2>5
  <1>6. x \in Q
    BY <1>1, <1>4 DEF d
  <1>7. \A n \in Q : h.child[n] = NULL \/ h.child[n] \in Q
    <2> TAKE n \in Q
    <2>1. n \in Nodes /\ doc[n] \in Parts(d)
      OBVIOUS
    <2>2. KidSeq(h, n) = <<>> => h.child[n] = NULL
      BY <1>3, <2>1 DEF Chain
    <2>3. KidSeq(h, n) # <<>> => 1 \in 1 .. Len(KidSeq(h, n)) /\ h.child[n] = KidSeq(h, n)[1]
      BY <1>2, <1>3, <2>1 DEF Chain
    <2> QED BY <1>5, <2>1, <2>2, <2>3
  <1>8. \A n \in Q \ {x} : h.next[n] = NULL \/ h.next[n] \in Q
    <2> TAKE n \in Q \ {x}
    <2>0. n \in Q /\ n # x
      <3> HIDE DEF Q
      <3> QED OBVIOUS
    <2>1. PICK p \in Nodes : /\ doc[p] \in Parts(d)
                             /\ \E i \in 1 .. Len(KidSeq(h, p)) : n = KidSeq(h, p)[i]
      <3>1. Kid(n)
        <4> HIDE DEF Kid
        <4> QED BY <2>0
      <3> QED BY <3>1
    <2>2. PICK i \in 1 .. Len(KidSeq(h, p)) : n = KidSeq(h, p)[i]
      BY <2>1
    <2>3. /\ h.next[n] = IF i = Len(KidSeq(h, p)) THEN NULL ELSE KidSeq(h, p)[i + 1]
          /\ Len(KidSeq(h, p)) \in Nat
      <3> HIDE DEF Q, Kid
      <3> QED BY <1>a, <2>1, <2>2
    <2>4. CASE i = Len(KidSeq(h, p))
      BY <2>3, <2>4
    <2>5. CASE i # Len(KidSeq(h, p))
      <3>1. i + 1 \in 1 .. Len(KidSeq(h, p))
        BY <2>2, <2>3, <2>5
      <3> QED BY <1>5, <2>1, <2>3, <2>5, <3>1
    <2> QED BY <2>4, <2>5
  <1>9. Subtree(h, x) \subseteq Q
    <2>1. Q \subseteq Nodes
      OBVIOUS
    <2> HIDE DEF Q
    <2>2. TreeClosed(h, x, Q)
      BY <1>7, <1>8 DEF TreeClosed
    <2> QED BY <1>6, <2>1, <2>2, SubtreeLeast
  <1>10. m \in Q
    BY <1>9
  <1> QED BY <1>10 DEF d, doc

-----------------------------------------------------------------------------
(* What a frame has built so far, as documents *)

\* The kids that f has to build, and the document of the i-th.
Size(h, f) == IF f.how = "copy" THEN Len(KidSeq(h, f.source)) ELSE Len(f.source.kids)
Asked(h, f, i) ==
  IF f.how = "copy" THEN Plainly(DocsIn(h)[KidSeq(h, f.source)[i]]) ELSE DocsOf[f.source.kids[i]]

\* Where f.at is when k kids are done.
AtKid(h, f, k) ==
  IF f.how # "copy" THEN k + 1
  ELSE IF k < Len(KidSeq(h, f.source)) THEN KidSeq(h, f.source)[k + 1] ELSE NULL

\* The kids so far are the documents asked for, in their order.
Grown(h, f) ==
  LET mine == KidSeq(h, f.node)
  IN /\ Len(mine) <= Size(h, f)
     /\ f.at = AtKid(h, f, Len(mine))
     /\ \A i \in 1 .. Len(mine) :
          /\ DocsIn(h)[mine[i]] = Asked(h, f, i)
          /\ f.how = "array" => f.source.kids[i].text \in Utf8 \cup {NULL}

\* The label that f's node is to get; append_children puts a member's key.
Wish(h, f) ==
  IF f.how = "copy" THEN PlainLabel(Label(h, f.source))
  ELSE [key |-> f.source.key, kind |-> f.source.kind, text |-> f.source.text]
OwnKey(h, f) == IF f.how = "copy" THEN Wish(h, f).key ELSE NULL

\* What a frame at the label p has built.
Shown(h, p, f) ==
  /\ p = "alloc" => f.at = AtKid(h, f, 0)
  /\ f.node # NULL =>
       /\ Grown(h, f)
       /\ p # "text" => Deref(h, h.valuestring[f.node]) = Wish(h, f).text
       /\ p \notin {"text", "key"} => Deref(h, h.string[f.node]) = OwnKey(h, f)
       /\ p = "return" => Len(KidSeq(h, f.node)) = Size(h, f)

\* The frames r wait for a kid.
Tells(h, r) == \A i \in 1 .. Len(r) : Shown(h, "kids", r[i])

\* What f asks the frame above to build; what the caller asks the lowest one.
Wanted(f) == IF f.how = "copy" THEN f.at ELSE f.source.kids[f.at]
First(f) == (f.how = "value" => f.source \in Docs) /\ (f.how = "array" => f.source \in Arrays)

\* Each frame builds what the one below asks for.
Asking(f, r) ==
  /\ IF r = <<>> THEN First(f) ELSE f.source = Wanted(r[1])
  /\ \A i \in 1 .. Len(r) : IF i = Len(r) THEN First(r[i]) ELSE r[i].source = Wanted(r[i + 1])

LEMMA AskPush ==
  ASSUME NEW s \in Seq(Frames), s # <<>>, Asking(Head(s), Tail(s)), NEW k, k.source = Wanted(Head(s))
  PROVE  Asking(k, s)
  <1> DEFINE r == Tail(s)
  <1>a. /\ r \in Seq(Frames) /\ Len(s) \in Nat /\ Len(s) >= 1 /\ Len(r) = Len(s) - 1 /\ Head(s) = s[1]
        /\ \A i \in 2 .. Len(s) : s[i] = r[i - 1] /\ i - 1 \in 1 .. Len(r)
    OBVIOUS
  <1> HIDE DEF r
  <1>b. r = <<>> <=> Len(r) = 0
    BY <1>a
  <1>2. ASSUME NEW i \in 1 .. Len(s)
        PROVE  IF i = Len(s) THEN First(s[i]) ELSE s[i].source = Wanted(s[i + 1])
    <2>1. CASE i = 1
      <3>1. CASE Len(s) = 1
        BY <1>a, <1>b, <2>1, <3>1 DEF Asking, r
      <3>2. CASE Len(s) # 1
        <4>1. s[2] = r[1] /\ r # <<>>
          BY <1>a, <1>b, <3>2
        <4>2. s[1].source = Wanted(r[1])
          BY <1>a, <1>b, <4>1 DEF Asking, r
        <4> QED BY <1>a, <1>b, <2>1, <3>2, <4>1, <4>2
      <3> QED BY <3>1, <3>2
    <2>2. CASE i # 1
      <3>1. /\ i - 1 \in 1 .. Len(r) /\ s[i] = r[i - 1] /\ (i = Len(s) <=> i - 1 = Len(r))
            /\ i # Len(s) => s[i + 1] = r[i]
        BY <1>a, <1>b, <2>2
      <3>2. IF i - 1 = Len(r) THEN First(r[i - 1]) ELSE r[i - 1].source = Wanted(r[(i - 1) + 1])
        BY <3>1 DEF Asking, r
      <3>3. (i - 1) + 1 = i
        OBVIOUS
      <3> QED BY <3>1, <3>2, <3>3
    <2> QED BY <2>1, <2>2
  <1> QED BY <1>a, <1>b, <1>2 DEF Asking

LEMMA AskPop ==
  ASSUME NEW r \in Seq(Frames), r # <<>>, NEW f, Asking(f, r)
  PROVE  Asking(Head(r), Tail(r)) /\ f.source = Wanted(Head(r))
  <1> DEFINE q == Tail(r)
  <1>a. /\ q \in Seq(Frames) /\ Len(r) \in Nat /\ Len(r) >= 1 /\ Len(q) = Len(r) - 1 /\ Head(r) = r[1]
        /\ \A i \in 1 .. Len(q) : q[i] = r[i + 1] /\ i + 1 \in 1 .. Len(r)
    OBVIOUS
  <1> HIDE DEF q
  <1>b. q = <<>> <=> Len(q) = 0
    BY <1>a
  <1>2. \A i \in 1 .. Len(r) : IF i = Len(r) THEN First(r[i]) ELSE r[i].source = Wanted(r[i + 1])
    BY DEF Asking
  <1>3. IF q = <<>> THEN First(r[1]) ELSE r[1].source = Wanted(q[1])
    <2>1. CASE q = <<>>
      <3>1. Len(r) = 1
        BY <1>a, <1>b, <2>1
      <3> QED BY <1>2, <2>1, <3>1
    <2>2. CASE q # <<>>
      <3>1. Len(r) # 1 /\ 1 \in 1 .. Len(q) /\ 1 \in 1 .. Len(r)
        BY <1>a, <1>b, <2>2
      <3>2. r[1].source = Wanted(r[1 + 1]) /\ q[1] = r[1 + 1]
        BY <1>a, <1>b, <1>2, <3>1
      <3> QED BY <2>2, <3>2
    <2> QED BY <2>1, <2>2
  <1>4. ASSUME NEW i \in 1 .. Len(q)
        PROVE  IF i = Len(q) THEN First(q[i]) ELSE q[i].source = Wanted(q[i + 1])
    <2>1. i + 1 \in 1 .. Len(r) /\ (i = Len(q) <=> i + 1 = Len(r)) /\ q[i] = r[i + 1]
      BY <1>a, <1>b
    <2>2. i # Len(q) => q[i + 1] = r[(i + 1) + 1]
      BY <1>a, <1>b
    <2>3. IF i + 1 = Len(r) THEN First(r[i + 1]) ELSE r[i + 1].source = Wanted(r[(i + 1) + 1])
      BY <1>2, <2>1
    <2> QED BY <2>1, <2>2, <2>3
  <1> QED BY <1>a, <1>b, <1>3, <1>4 DEF Asking, q

\* A frame shows what it did while its source is the same document, and its kids
\* are.
LEMMA GrownStays ==
  ASSUME NEW h, NEW g, NEW C, SameDocs(h, g, C), NEW f, f.node \in Nodes, Grown(h, f),
         KidSeq(g, f.node) = KidSeq(h, f.node), KidSeq(h, f.node) \in Seq(Nodes),
         \A i \in DOMAIN KidSeq(h, f.node) : KidSeq(h, f.node)[i] \in C,
         f.how = "copy" => f.source \in C /\ KidSeq(h, f.source) \in Seq(Nodes)
  PROVE  Grown(g, f) /\ Wish(g, f) = Wish(h, f) /\ Size(g, f) = Size(h, f)
  <1> DEFINE mine == KidSeq(h, f.node)
  <1>1. DOMAIN mine = 1 .. Len(mine) /\ Len(mine) \in Nat
    OBVIOUS
  <1>2. \A i \in 1 .. Len(mine) : DocsIn(g)[mine[i]] = DocsIn(h)[mine[i]]
    BY <1>1 DEF SameDocs
  <1>3. f.how = "copy" => /\ KidSeq(g, f.source) = KidSeq(h, f.source)
                          /\ Label(g, f.source) = Label(h, f.source)
    BY DEF SameDocs, Alike
  <1>4. Size(g, f) = Size(h, f) /\ AtKid(g, f, Len(mine)) = AtKid(h, f, Len(mine)) /\ Wish(g, f) = Wish(h, f)
    BY <1>3 DEF Size, AtKid, Wish
  <1>5. \A i \in 1 .. Len(mine) : Asked(g, f, i) = Asked(h, f, i)
    <2> TAKE i \in 1 .. Len(mine)
    <2>1. CASE f.how = "copy"
      <3> DEFINE its == KidSeq(h, f.source)
      <3>1. i \in DOMAIN its
        <4>1. Len(mine) <= Len(its) /\ its \in Seq(Nodes)
          BY <2>1 DEF Grown, Size
        <4> HIDE DEF its, mine
        <4> QED BY <1>1, <4>1
      <3>2. its[i] \in C
        BY <2>1, <3>1 DEF SameDocs
      <3>3. DocsIn(g)[its[i]] = DocsIn(h)[its[i]]
        BY <3>2 DEF SameDocs
      <3> QED BY <1>3, <2>1, <3>3 DEF Asked
    <2>2. CASE f.how # "copy"
      BY <2>2 DEF Asked
    <2> QED BY <2>1, <2>2
  <1>6. Grown(g, f)
    BY <1>2, <1>4, <1>5 DEF Grown
  <1> QED BY <1>4, <1>6

LEMMA ShownStays ==
  ASSUME NEW h, NEW R, Whole(h, R), NEW g, NEW C, SameDocs(h, g, C), NEW f,
         f.node \in C \cup {NULL}, f.how = "copy" => f.source \in C, NEW p, Shown(h, p, f)
  PROVE  Shown(g, p, f)
  <1>1. C \subseteq Nodes /\ NULL \notin Nodes /\ \A n \in Nodes : KidSeq(h, n) \in Seq(Nodes)
    BY HeapAssumption, KidList DEF SameDocs
  <1>2. f.how = "copy" => KidSeq(g, f.source) = KidSeq(h, f.source)
    BY DEF SameDocs, Alike
  <1>3. p = "alloc" => f.at = AtKid(g, f, 0)
    BY <1>2 DEF Shown, AtKid
  <1>4. ASSUME f.node # NULL
        PROVE  /\ Grown(g, f)
               /\ p # "text" => Deref(g, g.valuestring[f.node]) = Wish(g, f).text
               /\ p \notin {"text", "key"} => Deref(g, g.string[f.node]) = OwnKey(g, f)
               /\ p = "return" => Len(KidSeq(g, f.node)) = Size(g, f)
    <2>1. /\ f.node \in C /\ f.node \in Nodes
          /\ KidSeq(g, f.node) = KidSeq(h, f.node) /\ Label(g, f.node) = Label(h, f.node)
          /\ \A i \in DOMAIN KidSeq(h, f.node) : KidSeq(h, f.node)[i] \in C
      BY <1>1, <1>4 DEF SameDocs, Alike
    <2>2. Grown(g, f) /\ Wish(g, f) = Wish(h, f) /\ Size(g, f) = Size(h, f)
      BY <1>1, <1>4, <2>1, GrownStays DEF Shown
    <2>3. /\ Deref(g, g.valuestring[f.node]) = Deref(h, h.valuestring[f.node])
          /\ Deref(g, g.string[f.node]) = Deref(h, h.string[f.node])
      <3>1. Label(g, f.node).text = Label(h, f.node).text /\ Label(g, f.node).key = Label(h, f.node).key
        BY <2>1
      <3> QED BY <3>1 DEF Label
    <2> QED BY <1>4, <2>1, <2>2, <2>3 DEF Shown, OwnKey
  <1> QED BY <1>3, <1>4 DEF Shown

\* What the frame on top has in its tree, nobody else holds or copies.
LEMMA BesideTop ==
  ASSUME NEW h, NEW o, NEW f, NEW r, Intact(h, o, f, r), f.node # NULL
  PROVE  LET A == Subtree(h, f.node)
         IN /\ o \subseteq Nodes \ A
            /\ \A i \in 1 .. Len(r) : r[i].node \in Nodes \ A /\ (r[i].how = "copy" => r[i].source \in Nodes \ A)
            /\ f.how = "copy" => f.source \in Nodes \ A
            /\ f.node \in A /\ f.node \in RootsOf(o, f, r) /\ Private(h, f.node)
            /\ A \cap h.refs = {}
  <1> DEFINE n == f.node
             R == RootsOf(o, f, r)
             A == Subtree(h, n)
  <1>1. /\ n \in R /\ n \notin o /\ n \notin InHand(r) /\ Sound(h, R) /\ Private(h, n)
        /\ Reads(h, f) /\ Outside(h, f, n) /\ o \subseteq R
        /\ \A i \in 1 .. Len(r) : Reads(h, r[i]) /\ Outside(h, r[i], n)
    BY DEF Intact, RootsOf, On, InHand, Builds, Waiting
  <1>2. A \cap R = {n} /\ n \in A /\ R \subseteq Nodes
    BY <1>1, SubtreeClosedOff DEF Sound, TypeOKIn, Live
  <1>3. \A i \in 1 .. Len(r) : r[i].node \in R /\ r[i].node # n
    BY <1>1 DEF InHand, RootsOf
  <1>4. \A i \in 1 .. Len(r) : r[i].how = "copy" => r[i].source \in Nodes \ A
    BY <1>1 DEF Reads, Outside, Live, Intact
  <1>5. f.how = "copy" => f.source \in Nodes \ A
    BY <1>1 DEF Reads, Outside, Live
  <1>6. A \cap h.refs = {}
    BY <1>1 DEF Private
  <1> HIDE DEF A, R
  <1> QED BY <1>1, <1>2, <1>3, <1>4, <1>5, <1>6 DEF A, R

\* Frames below the top show what they did.
LEMMA TellsStay ==
  ASSUME NEW h, NEW R, Whole(h, R), NEW g, NEW C, SameDocs(h, g, C), NEW r, Tells(h, r),
         \A i \in 1 .. Len(r) : r[i].node \in C /\ (r[i].how = "copy" => r[i].source \in C)
  PROVE  Tells(g, r)
  <1> SUFFICES ASSUME NEW i \in 1 .. Len(r)
               PROVE  Shown(g, "kids", r[i])
    BY DEF Tells
  <1>1. Shown(h, "kids", r[i]) /\ r[i].node \in C \cup {NULL} /\ (r[i].how = "copy" => r[i].source \in C)
    BY DEF Tells
  <1> QED BY <1>1, ShownStays

-----------------------------------------------------------------------------
(* Finished documents *)

\* What DocsOf says of itself.
LEMMA ValuesRead ==
  ASSUME NEW d \in Values
  PROVE  /\ DocsOf[d] = Join([key |-> d.key, kind |-> d.kind, text |-> d.text], Along(DocsOf, d.kids))
         /\ d.kids \in Seq(Values) /\ AreDocs(Along(DocsOf, d.kids))
  <1> DEFINE L == [v \in Values |-> [key |-> v.key, kind |-> v.kind, text |-> v.text]]
  <1>1. DOMAIN KidsOf = Values /\ KidsOf = [v \in Values |-> v.kids]
    BY DEF KidsOf
  <1>2. \A v \in Values : v.kids \in Seq(Values) /\ KidsOf[v] = v.kids
    BY ValuesAssumption DEF KidsOf
  <1>3. IsForest(KidsOf)
    <2>1. KidsOf \in [Values -> Seq(Values)]
      BY <1>1, <1>2
    <2> QED BY <1>1, <2>1, ValuesGrounded DEF IsForest
  <1>4. DocsOf = Grow(L, KidsOf) /\ L[d] = [key |-> d.key, kind |-> d.kind, text |-> d.text]
    BY DEF DocsOf
  <1> HIDE DEF L
  <1>5. Reader(L, KidsOf, DOMAIN KidsOf, Grow(L, KidsOf)) /\ AreDocs(Along(Grow(L, KidsOf), KidsOf[d]))
    BY <1>1, <1>3, GrowReads, GrowIsDocs
  <1>6. DocsOf[d] = Join(L[d], Along(DocsOf, KidsOf[d]))
    BY <1>1, <1>4, <1>5 DEF Reader
  <1> QED BY <1>2, <1>4, <1>5, <1>6

\* A node with the label and the kids of a value is the document of that value.
LEMMA BuiltFromValue ==
  ASSUME NEW h, NEW R, Readers(h, R), NEW n \in Nodes, NEW v \in Values,
         Label(h, n) = [key |-> v.key, kind |-> v.kind, text |-> v.text],
         Len(KidSeq(h, n)) = Len(v.kids),
         \A i \in 1 .. Len(v.kids) : DocsIn(h)[KidSeq(h, n)[i]] = DocsOf[v.kids[i]]
  PROVE  DocsIn(h)[n] = DocsOf[v]
  <1> DEFINE mine == KidSeq(h, n)
             docs == Along(DocsOf, v.kids)
             docs2 == Along(DocsIn(h), mine)
  <1>1. DocsIn(h)[n] = Join(Label(h, n), docs2) /\ mine \in Seq(Nodes)
    BY HeapReads
  <1>2. DocsOf[v] = Join(Label(h, n), docs) /\ v.kids \in Seq(Values)
    BY ValuesRead
  <1>3. DOMAIN mine = 1 .. Len(v.kids) /\ DOMAIN v.kids = 1 .. Len(v.kids)
    BY <1>1, <1>2
  <1>4. DOMAIN docs2 = DOMAIN docs /\ \A i \in DOMAIN docs : docs2[i] = docs[i]
    BY <1>3 DEF Along
  <1> HIDE DEF docs, docs2
  <1> QED BY <1>1, <1>2, <1>4, SameJoin

\* A node with the plain label and the plain kids of another is its plain copy.
LEMMA BuiltFromNode ==
  ASSUME NEW h, NEW R, Readers(h, R), NEW n \in Nodes, NEW s \in Nodes,
         Label(h, n) = PlainLabel(Label(h, s)),
         Len(KidSeq(h, n)) = Len(KidSeq(h, s)),
         \A i \in 1 .. Len(KidSeq(h, s)) : DocsIn(h)[KidSeq(h, n)[i]] = Plainly(DocsIn(h)[KidSeq(h, s)[i]])
  PROVE  DocsIn(h)[n] = Plainly(DocsIn(h)[s])
  <1> DEFINE mine == KidSeq(h, n)
             its == KidSeq(h, s)
             docs == Along(DocsIn(h), its)
             plain == Along(DocsIn(h), mine)
  <1>1. /\ DocsIn(h)[n] = Join(Label(h, n), plain) /\ mine \in Seq(Nodes)
        /\ DocsIn(h)[s] = Join(Label(h, s), docs) /\ its \in Seq(Nodes) /\ AreDocs(docs)
    BY HeapReads
  <1>2. DOMAIN mine = 1 .. Len(its) /\ DOMAIN its = 1 .. Len(its)
    BY <1>1
  <1>3. DOMAIN plain = DOMAIN docs /\ \A i \in DOMAIN docs : plain[i] = Plainly(docs[i])
    BY <1>2 DEF Along
  <1> HIDE DEF docs, plain
  <1>4. Plainly(Join(Label(h, s), docs)) = Join(PlainLabel(Label(h, s)), plain)
    BY <1>1, <1>3, PlainJoin
  <1> QED BY <1>1, <1>4

-----------------------------------------------------------------------------
(* The invariant: each frame has built what it was asked for, as far as it got *)

DocOK(h, s, p) ==
  s # <<>> => Shown(h, p, Head(s)) /\ Asking(Head(s), Tail(s)) /\ Tells(h, Tail(s))

DocInv == BuildInv /\ Grounded(KidsIn(heap)) /\ DocOK(heap, stack, pc)

\* The caller reads in g what it did in h.
Quiet(h, g, o) ==
  \A x \in o : DocsIn(g)[x] = DocsIn(h)[x] /\ (x \in g.refs <=> x \in h.refs)

\* What a step of the library owes.
Tidy == Grounded(KidsIn(heap')) /\ DocOK(heap', stack', pc') /\ Quiet(heap, heap', owned)

\* The heap of a build can be read.
LEMMA IntactReads ==
  ASSUME NEW h, NEW o, NEW f, NEW r, Intact(h, o, f, r), Grounded(KidsIn(h))
  PROVE  Readers(h, RootsOf(o, f, r)) /\ Strung(h, {}) /\ Whole(h, RootsOf(o, f, r))
  BY DEF Readers, Whole, Intact

\* What the frames and the caller have, and what they copy, is live.
LEMMA FramesLive ==
  ASSUME NEW h, NEW o, NEW f, NEW r, Intact(h, o, f, r)
  PROVE  /\ Live(h) \subseteq Nodes /\ o \subseteq Live(h)
         /\ f.node \in Live(h) \cup {NULL} /\ (f.how = "copy" => f.source \in Live(h))
         /\ \A i \in 1 .. Len(r) : r[i].node \in Live(h) /\ (r[i].how = "copy" => r[i].source \in Live(h))
  <1> DEFINE R == RootsOf(o, f, r)
  <1>1. R \subseteq Live(h) /\ Reads(h, f) /\ \A i \in 1 .. Len(r) : Reads(h, r[i])
    BY DEF Intact, Sound, TypeOKIn, On, Waiting
  <1>2. o \subseteq R /\ f.node \in R \cup {NULL} /\ \A i \in 1 .. Len(r) : r[i].node \in R
    BY DEF RootsOf, InHand
  <1> HIDE DEF R
  <1> QED BY <1>1, <1>2 DEF Reads, Live

\* The frames of a call under way.
LEMMA DocWorking ==
  ASSUME DocInv, pc # "idle"
  PROVE  /\ BuildInv /\ Intact(heap, owned, Top, Tail(stack)) /\ At(heap, pc, Top)
         /\ Top \in Frames /\ Tail(stack) \in Seq(Frames) /\ stack \in Seq(Frames) /\ stack # <<>>
         /\ Grounded(KidsIn(heap)) /\ Readers(heap, RootsOf(owned, Top, Tail(stack))) /\ Strung(heap, {})
         /\ Shown(heap, pc, Top) /\ Asking(Top, Tail(stack)) /\ Tells(heap, Tail(stack))
  <1>1. BuildInv /\ Grounded(KidsIn(heap))
    BY DEF DocInv
  <1>2. /\ Intact(heap, owned, Top, Tail(stack)) /\ At(heap, pc, Top)
        /\ Top \in Frames /\ Tail(stack) \in Seq(Frames) /\ stack \in Seq(Frames) /\ stack # <<>>
    BY <1>1, Working
  <1>3. Readers(heap, RootsOf(owned, Top, Tail(stack))) /\ Strung(heap, {})
    BY <1>1, <1>2, IntactReads
  <1>4. Shown(heap, pc, Top) /\ Asking(Top, Tail(stack)) /\ Tells(heap, Tail(stack))
    BY <1>2 DEF DocInv, DocOK, Top
  <1> QED BY <1>1, <1>2, <1>3, <1>4

\* With k on the frames q a call is under way.
LEMMA DocGoing ==
  ASSUME NEW h, NEW p, NEW k \in Frames, NEW q \in Seq(Frames), Shown(h, p, k), Asking(k, q), Tells(h, q)
  PROVE  DocOK(h, <<k>> \o q, p)
  <1> DEFINE s == <<k>> \o q
  <1>1. Head(s) = k /\ Tail(s) = q
    OBVIOUS
  <1> HIDE DEF s
  <1>2. DocOK(h, s, p)
    BY <1>1 DEF DocOK
  <1> QED BY <1>2 DEF s

\* A frame asks what it did while its function and its source are the same.
LEMMA AskSame ==
  ASSUME NEW f, NEW k, NEW r, Asking(f, r), k.how = f.how, k.source = f.source
  PROVE  Asking(k, r)
  BY DEF Asking, First

\* The frame below goes on.
LEMMA TellsPop ==
  ASSUME NEW h, NEW r \in Seq(Frames), r # <<>>, Tells(h, r)
  PROVE  Shown(h, "kids", Head(r)) /\ Tells(h, Tail(r)) /\ Tail(r) \in Seq(Frames) /\ Head(r) \in Frames
  <1> DEFINE q == Tail(r)
  <1>1. /\ q \in Seq(Frames) /\ Len(r) \in Nat /\ 1 \in 1 .. Len(r) /\ Head(r) = r[1] /\ r[1] \in Frames
        /\ \A i \in 1 .. Len(q) : q[i] = r[i + 1] /\ i + 1 \in 1 .. Len(r)
    OBVIOUS
  <1> HIDE DEF q
  <1>2. Shown(h, "kids", r[1]) /\ Tells(h, q)
    BY <1>1 DEF Tells
  <1> QED BY <1>1, <1>2 DEF q

\* The recursion goes deeper.
LEMMA TellsPush ==
  ASSUME NEW h, NEW s \in Seq(Frames), s # <<>>, Shown(h, "kids", Head(s)), Tells(h, Tail(s))
  PROVE  Tells(h, s)
  <1> DEFINE r == Tail(s)
  <1>1. /\ Head(s) = s[1]
        /\ \A i \in 1 .. Len(s) : i = 1 \/ (s[i] = r[i - 1] /\ i - 1 \in 1 .. Len(r))
    OBVIOUS
  <1> HIDE DEF r
  <1>2. Tells(h, r)
    BY DEF r
  <1> QED BY <1>1, <1>2 DEF Tells

\* What the caller holds is among the documents that stay.
LEMMA QuietIf ==
  ASSUME NEW h, NEW g, NEW C, SameDocs(h, g, C), NEW o \in SUBSET C, g.refs = h.refs
  PROVE  Quiet(h, g, o)
  BY DEF SameDocs, Quiet

\* Documents that stay through two steps.
LEMMA DocsStayTwice ==
  ASSUME NEW h, NEW e, NEW g, NEW C, NEW D, SameDocs(h, e, C), SameDocs(e, g, D)
  PROVE  SameDocs(h, g, C \cap D)
  <1>1. ASSUME NEW n \in C \cap D
        PROVE  /\ Alike(h, g, n) /\ DocsIn(g)[n] = DocsIn(h)[n]
               /\ \A i \in DOMAIN KidSeq(h, n) : KidSeq(h, n)[i] \in C \cap D
    BY DEF SameDocs, Alike
  <1> QED BY <1>1 DEF SameDocs

\* The first kid, and the next one of a kid.
LEMMA KidsInOrder ==
  ASSUME NEW h, NEW R, Whole(h, R), NEW n \in Nodes
  PROVE  LET s == KidSeq(h, n)
         IN /\ s \in Seq(Nodes) /\ Len(s) \in Nat
            /\ h.child[n] = IF 0 < Len(s) THEN s[1] ELSE NULL
            /\ \A i \in 1 .. Len(s) : h.next[s[i]] = IF i < Len(s) THEN s[i + 1] ELSE NULL
  <1> DEFINE s == KidSeq(h, n)
  <1>1. Chain(h, h.child[n], s) /\ s \in Seq(Nodes)
    BY KidList
  <1> HIDE DEF s
  <1>2. Len(s) \in Nat /\ (s = <<>> <=> Len(s) = 0)
    BY <1>1
  <1>3. \A i \in 1 .. Len(s) : h.next[s[i]] = IF i = Len(s) THEN NULL ELSE s[i + 1]
    BY <1>1 DEF Chain
  <1>4. h.child[n] = IF 0 < Len(s) THEN s[1] ELSE NULL
    BY <1>1, <1>2 DEF Chain
  <1>5. \A i \in 1 .. Len(s) : h.next[s[i]] = IF i < Len(s) THEN s[i + 1] ELSE NULL
    BY <1>2, <1>3
  <1> QED BY <1>1, <1>2, <1>4, <1>5 DEF s

\* A kid in a heap with the new text or the new kid is none but the frame's own:
\* only the node of the frame on top reads otherwise.
LEMMA TopWritten ==
  ASSUME NEW h, NEW o, NEW f, NEW r, Intact(h, o, f, r), Grounded(KidsIn(h)), f.node # NULL,
         NEW g, SameDocs(h, g, Nodes \ {f.node}), g.refs = h.refs, Tells(h, r)
  PROVE  /\ Tells(g, r) /\ Quiet(h, g, o) /\ Unlisted(h, f.node) /\ f.node \in Nodes
         /\ f.how = "copy" => f.source \in Nodes \ {f.node}
  <1> DEFINE n == f.node
             R == RootsOf(o, f, r)
             C == Nodes \ {n}
  <1>1. Readers(h, R) /\ Whole(h, R)
    BY IntactReads
  <1>2. LET A == Subtree(h, n)
        IN /\ o \subseteq Nodes \ A
           /\ \A i \in 1 .. Len(r) : r[i].node \in Nodes \ A /\ (r[i].how = "copy" => r[i].source \in Nodes \ A)
           /\ f.how = "copy" => f.source \in Nodes \ A
           /\ n \in A /\ n \in R /\ Private(h, n)
           /\ A \cap h.refs = {}
    BY BesideTop
  <1>3. o \in SUBSET C /\ (\A i \in 1 .. Len(r) : r[i].node \in C /\ (r[i].how = "copy" => r[i].source \in C))
        /\ (f.how = "copy" => f.source \in C)
    BY <1>2
  <1>4. Unlisted(h, n) /\ n \in Nodes
    BY <1>1, <1>2, PrivateUnlisted
  <1> HIDE DEF R, C
  <1>5. SameDocs(h, g, C)
    BY DEF C
  <1>6. Tells(g, r)
    BY <1>1, <1>3, <1>5, TellsStay
  <1>7. Quiet(h, g, o)
    BY <1>3, <1>5, QuietIf
  <1> QED BY <1>3, <1>4, <1>6, <1>7 DEF C

\* The frame on top gives up what it has built.
LEMMA TopFreed ==
  ASSUME NEW h, NEW o, NEW f, NEW r, Intact(h, o, f, r), Grounded(KidsIn(h)), f.node # NULL, Tells(h, r)
  PROVE  LET g == FreeTree(h, f.node)
         IN Grounded(KidsIn(g)) /\ Tells(g, r) /\ Quiet(h, g, o)
  <1> DEFINE n == f.node
             R == RootsOf(o, f, r)
             A == Subtree(h, n)
             C == Nodes \ A
             g == FreeTree(h, n)
  <1>1. Readers(h, R) /\ Strung(h, {}) /\ Whole(h, R)
    BY IntactReads
  <1>2. /\ o \subseteq C
        /\ \A i \in 1 .. Len(r) : r[i].node \in C /\ (r[i].how = "copy" => r[i].source \in C)
        /\ n \in R /\ Private(h, n) /\ A \cap h.refs = {}
    BY BesideTop
  <1>3. MayFree(h, n)
    BY <1>2, PrivateMayFree
  <1>4. Readers(g, R \ {n}) /\ SameDocs(h, g, C) /\ g.refs = h.refs \ A
    BY <1>1, <1>2, <1>3, FreeReads
  <1>5. g.refs = h.refs
    BY <1>2, <1>4
  <1> HIDE DEF R, C, A, g
  <1>6. Tells(g, r)
    BY <1>1, <1>2, <1>4, TellsStay
  <1>7. Quiet(h, g, o)
    BY <1>2, <1>4, <1>5, QuietIf
  <1> QED BY <1>4, <1>6, <1>7 DEF Readers, g

-----------------------------------------------------------------------------
(* The steps that leave the caller's documents alone *)

\* The first kid to build.
LEMMA FirstKid ==
  ASSUME NEW h, NEW R, Whole(h, R), NEW f, f.how = "copy" => f.source \in Nodes
  PROVE  AtKid(h, f, 0) = IF f.how = "copy" THEN h.child[f.source] ELSE 1
  <1>1. CASE f.how = "copy"
    <2> DEFINE s == KidSeq(h, f.source)
    <2>1. h.child[f.source] = IF 0 < Len(s) THEN s[1] ELSE NULL
      BY <1>1, KidsInOrder
    <2>2. 0 + 1 = 1
      OBVIOUS
    <2> QED BY <1>1, <2>1, <2>2 DEF AtKid
  <1>2. CASE f.how # "copy"
    BY <1>2 DEF AtKid
  <1> QED BY <1>1, <1>2

\* alloc_node gives the frame a leaf.
LEMMA AllocNodeTidy ==
  ASSUME DocInv, AllocNode
  PROVE  Tidy
  <1> DEFINE r == Tail(stack)
             R == RootsOf(owned, Top, r)
  <1>1. pc = "alloc" /\ pc # "idle" /\ pc' = "text"
    BY DEF AllocNode, Goto
  <1>2. /\ Intact(heap, owned, Top, r) /\ Top \in Frames /\ r \in Seq(Frames)
        /\ Readers(heap, R) /\ Strung(heap, {})
        /\ Shown(heap, "alloc", Top) /\ Asking(Top, r) /\ Tells(heap, r)
    BY <1>1, DocWorking
  <1>3. PICK n \in Pick(FreeNodes) : /\ heap' = NewNode(heap, n, Kind(Top))
                                     /\ stack' = <<[Top EXCEPT !.node = n]>> \o r
    BY DEF AllocNode, SetTop
  <1>4. n \in Nodes \ Live(heap) /\ n # NULL
    BY PickedNode, HeapAssumption
  <1>5. Kind(Top) \in Types
    <2>1. Reads(heap, Top) /\ heap \in Heap
      BY <1>2 DEF Intact, On, Sound, TypeOKIn
    <2>2. CASE Top.how = "copy"
      BY <2>1, <2>2 DEF Reads, Live, Heap, Kind
    <2>3. CASE Top.how # "copy"
      BY <2>1, <2>3, ValuesAssumption DEF Reads, Kind
    <2> QED BY <2>2, <2>3
  <1> DEFINE k == [Top EXCEPT !.node = n]
             g == NewNode(heap, n, Kind(Top))
             C == Nodes \ {n}
  <1>6. Readers(g, R \cup {n}) /\ SameDocs(heap, g, C) /\ KidSeq(g, n) = <<>>
    BY <1>2, <1>4, <1>5, NewNodeReads
  <1>7. g.refs = heap.refs
    <2>1. heap \in Heap
      BY <1>2 DEF Intact, Sound, TypeOKIn
    <2> QED BY <2>1 DEF NewNode, Heap
  <1>8. /\ k \in Frames /\ k.node = n /\ k.how = Top.how /\ k.source = Top.source /\ k.at = Top.at
    BY <1>2, <1>4 DEF Frames
  <1>9. /\ owned \in SUBSET C /\ (Top.how = "copy" => Top.source \in C)
        /\ \A i \in 1 .. Len(r) : r[i].node \in C /\ (r[i].how = "copy" => r[i].source \in C)
    <2>1. /\ Live(heap) \subseteq Nodes /\ owned \subseteq Live(heap)
          /\ Top.how = "copy" => Top.source \in Live(heap)
          /\ \A i \in 1 .. Len(r) : /\ r[i].node \in Live(heap)
                                    /\ r[i].how = "copy" => r[i].source \in Live(heap)
      BY <1>2, FramesLive
    <2>2. Live(heap) \subseteq C
      BY <1>4, <2>1
    <2> HIDE DEF C, r
    <2>3. owned \in SUBSET C
      BY <2>1, <2>2
    <2>4. Top.how = "copy" => Top.source \in C
      BY <2>1, <2>2
    <2>5. \A i \in 1 .. Len(r) : r[i].node \in C /\ (r[i].how = "copy" => r[i].source \in C)
      BY <2>1, <2>2
    <2> QED BY <2>3, <2>4, <2>5
  <1> HIDE DEF r, R, g, k, C
  <1>10. Tells(g, r) /\ Quiet(heap, g, owned)
    BY <1>2, <1>6, <1>7, <1>9, TellsStay, QuietIf DEF Readers
  <1>11. Shown(g, "text", k)
    <2>1. Top.at = AtKid(heap, Top, 0)
      BY <1>2 DEF Shown
    <2>2. AtKid(g, k, 0) = AtKid(heap, Top, 0) /\ Size(g, k) = Size(heap, Top)
      BY <1>6, <1>8, <1>9 DEF AtKid, Size, SameDocs, Alike
    <2>3. Size(g, k) \in Nat
      <3>1. CASE k.how = "copy"
        <4>1. k.source \in Nodes
          BY <1>8, <1>9, <3>1 DEF C
        <4>2. KidSeq(g, k.source) \in Seq(Nodes)
          BY <1>6, <4>1, HeapReads
        <4> QED BY <3>1, <4>2 DEF Size
      <3>2. CASE k.how # "copy"
        <4>1. Reads(heap, Top)
          BY <1>2 DEF Intact, On
        <4>2. k.source \in Values
          BY <1>8, <3>2, <4>1 DEF Reads
        <4>3. k.source.kids \in Seq(Values)
          BY <4>2, ValuesAssumption
        <4> QED BY <3>2, <4>3 DEF Size
      <3> QED BY <3>1, <3>2
    <2>4. Grown(g, k)
      BY <1>6, <1>8, <2>1, <2>2, <2>3 DEF Grown
    <2> QED BY <2>4 DEF Shown
  <1>12. Asking(k, r)
    BY <1>2, <1>8, AskSame
  <1>13. DocOK(g, <<k>> \o r, "text")
    BY <1>2, <1>8, <1>10, <1>11, <1>12, DocGoing
  <1>14. heap' = g /\ stack' = <<k>> \o r
    BY <1>3 DEF g, k
  <1> QED BY <1>1, <1>6, <1>10, <1>13, <1>14 DEF Tidy, Readers

\* A step of the frame on top alone.
LEMMA TopTidy ==
  ASSUME NEW k \in Frames, Tail(stack) \in Seq(Frames), stack' = <<k>> \o Tail(stack),
         Shown(heap', pc', k), Asking(k, Tail(stack)), Tells(heap', Tail(stack)),
         Grounded(KidsIn(heap')), Quiet(heap, heap', owned)
  PROVE  Tidy
  BY DocGoing DEF Tidy

\* A frame without a node shows nothing.
LEMMA NothingShown ==
  ASSUME NEW h, NEW f, f.node = NULL
  PROVE  Shown(h, "return", f)
  BY DEF Shown

\* alloc_node fails.
LEMMA AllocNodeFailsTidy ==
  ASSUME DocInv, AllocNodeFails
  PROVE  Tidy
  <1> DEFINE k == [Top EXCEPT !.node = NULL]
  <1>1. /\ pc = "alloc" /\ pc # "idle" /\ pc' = "return" /\ UNCHANGED heap
        /\ stack' = <<k>> \o Tail(stack)
    BY DEF AllocNodeFails, Fail, SetTop, Goto
  <1>2. /\ Top \in Frames /\ Tail(stack) \in Seq(Frames) /\ Asking(Top, Tail(stack))
        /\ Tells(heap, Tail(stack)) /\ Grounded(KidsIn(heap))
    BY <1>1, DocWorking
  <1>3. k \in Frames /\ k.node = NULL /\ k.how = Top.how /\ k.source = Top.source
    BY <1>2 DEF Frames
  <1> HIDE DEF k
  <1>4. Shown(heap, "return", k) /\ Asking(k, Tail(stack))
    BY <1>2, <1>3, NothingShown, AskSame
  <1>5. Quiet(heap, heap, owned)
    BY DEF Quiet
  <1> QED BY <1>1, <1>2, <1>3, <1>4, <1>5, TopTidy

\* What the frame has built so far is freed; it fails.
LEMMA FreeAndFailTidy ==
  ASSUME DocInv, pc \in {"text", "key", "kids"}, heap' = FreeTree(heap, Top.node), Fail
  PROVE  Tidy
  <1> DEFINE k == [Top EXCEPT !.node = NULL]
  <1>1. pc # "idle" /\ pc' = "return" /\ stack' = <<k>> \o Tail(stack)
    BY DEF Fail, SetTop, Goto
  <1>2. /\ Top \in Frames /\ Tail(stack) \in Seq(Frames) /\ Asking(Top, Tail(stack))
        /\ Tells(heap, Tail(stack)) /\ Grounded(KidsIn(heap))
        /\ Intact(heap, owned, Top, Tail(stack)) /\ Top.node # NULL
    BY <1>1, DocWorking DEF At
  <1>3. k \in Frames /\ k.node = NULL /\ k.how = Top.how /\ k.source = Top.source
    BY <1>2 DEF Frames
  <1> HIDE DEF k
  <1>4. Shown(heap', "return", k) /\ Asking(k, Tail(stack))
    BY <1>2, <1>3, NothingShown, AskSame
  <1>5. Grounded(KidsIn(heap')) /\ Tells(heap', Tail(stack)) /\ Quiet(heap, heap', owned)
    BY <1>2, TopFreed
  <1> QED BY <1>1, <1>2, <1>3, <1>4, <1>5, TopTidy

\* What duplicate reads of a string is what a copy of it has.
LEMMA ReadsPlain ==
  ASSUME NEW f, f = Top
  PROVE  TextOf(f) = Wish(heap, f).text /\ KeyFirst(f) = OwnKey(heap, f)
  <1>1. \A p : Readable(p) = Documents!PlainText(Deref(heap, p))
    <2>1. ASSUME NEW p
          PROVE  Readable(p) = Documents!PlainText(Deref(heap, p))
      <3>1. CASE p = NULL
        <4>1. Deref(heap, NULL) = NULL /\ NULL \notin Utf8
          BY HeapAssumption DEF Deref
        <4> QED BY <3>1, <4>1 DEF Readable, Copied, Documents!PlainText
      <3>2. CASE p # NULL
        BY <3>2 DEF Readable, Copied, Documents!PlainText
      <3> QED BY <3>1, <3>2
    <2> QED BY <2>1
  <1>2. CASE f.how = "copy"
    BY <1>1, <1>2 DEF TextOf, KeyFirst, Wish, OwnKey, PlainLabel, Documents!PlainLabel, Label
  <1>3. CASE f.how # "copy"
    BY <1>3 DEF TextOf, KeyFirst, Wish, OwnKey
  <1> QED BY <1>2, <1>3

\* No string is copied: there is none.
LEMMA NoString == \A h : Deref(h, NULL) = NULL
  BY HeapAssumption DEF Deref

\* The frame on top writes to its node alone, and the kids of that stay.
LEMMA TopGrownStays ==
  ASSUME NEW h, NEW o, NEW f, NEW r, Intact(h, o, f, r), Grounded(KidsIn(h)), f.node # NULL,
         NEW g, SameDocs(h, g, Nodes \ {f.node}), g.refs = h.refs, Tells(h, r),
         KidSeq(g, f.node) = KidSeq(h, f.node), Grown(h, f)
  PROVE  Grown(g, f) /\ Wish(g, f) = Wish(h, f) /\ Size(g, f) = Size(h, f)
  <1> DEFINE n == f.node
             C == Nodes \ {n}
             s == KidSeq(h, n)
  <1>1. Unlisted(h, n) /\ n \in Nodes /\ (f.how = "copy" => f.source \in C)
    BY TopWritten
  <1>2. \A m \in Nodes : KidSeq(h, m) \in Seq(Nodes)
    BY IntactReads, HeapReads
  <1>3. \A i \in DOMAIN s : s[i] \in C
    <2>1. s \in Seq(Nodes) /\ \A i \in DOMAIN s : s[i] # n
      BY <1>1, <1>2 DEF Unlisted
    <2> HIDE DEF s
    <2> QED BY <2>1
  <1>4. s \in Seq(Nodes) /\ (f.how = "copy" => KidSeq(h, f.source) \in Seq(Nodes))
    BY <1>1, <1>2
  <1> HIDE DEF C
  <1>5. SameDocs(h, g, C)
    BY DEF C
  <1> QED BY <1>1, <1>3, <1>4, <1>5, GrownStays

\* The value is copied: the node has the text that it is to have.
LEMMA CopyTextTidy ==
  ASSUME DocInv, CopyText
  PROVE  Tidy
  <1> DEFINE n == Top.node
             r == Tail(stack)
             s == TextOf(Top)
             R == RootsOf(owned, Top, r)
  <1>1. pc = "text" /\ pc # "idle" /\ pc' = "key" /\ UNCHANGED stack
    BY DEF CopyText, Goto
  <1>2. /\ Intact(heap, owned, Top, r) /\ Top \in Frames /\ r \in Seq(Frames)
        /\ Readers(heap, R) /\ Strung(heap, {}) /\ Grounded(KidsIn(heap))
        /\ Shown(heap, "text", Top) /\ Asking(Top, r) /\ Tells(heap, r)
        /\ n # NULL /\ heap.valuestring[n] = NULL /\ stack \in Seq(Frames) /\ stack # <<>>
    BY <1>1, DocWorking DEF At
  <1>3. PICK b \in Room(s) : heap' = PutText(heap, n, s, b)
    BY DEF CopyText
  <1>4. Grown(heap, Top) /\ s = Wish(heap, Top).text
    BY <1>2, ReadsPlain DEF Shown
  <1>5. n \in R /\ Private(heap, n)
    BY <1>2 DEF Intact, On, Builds, RootsOf
  <1>6. /\ Grounded(KidsIn(heap')) /\ Tells(heap', r) /\ Quiet(heap, heap', owned)
        /\ Grown(heap', Top) /\ Deref(heap', heap'.valuestring[n]) = Wish(heap', Top).text
    <2>1. CASE s = NULL
      <3>1. heap' = heap
        BY <1>3, <2>1 DEF PutText
      <3>2. Deref(heap, heap.valuestring[n]) = s
        BY <1>2, <2>1, NoString
      <3> QED BY <1>2, <1>4, <3>1, <3>2 DEF Quiet
    <2>2. CASE s # NULL
      <3>1. b \in Bufs \ LiveBufs(heap)
        BY <2>2, PickedBuf
      <3>2. s \in Texts /\ heap.type[n] \in Strings
        BY <1>2, <2>2, TextsAreTexts
      <3> DEFINE g == PutText(heap, n, s, b)
      <3>3. /\ Readers(g, R) /\ SameDocs(heap, g, Nodes \ {n}) /\ KidSeq(g, n) = KidSeq(heap, n)
            /\ Deref(g, g.valuestring[n]) = s
        <4> HIDE DEF R, n, s
        <4> QED BY <1>2, <1>5, <3>1, <3>2, PutTextReads
      <3>4. g.refs = heap.refs
        <4>1. heap \in Heap
          BY <1>2 DEF Intact, Sound, TypeOKIn
        <4> QED BY <4>1 DEF PutText, NewText, Heap
      <3> HIDE DEF g
      <3>5. Tells(g, r) /\ Quiet(heap, g, owned)
        BY <1>2, <3>3, <3>4, TopWritten
      <3>6. Grown(g, Top) /\ Wish(g, Top) = Wish(heap, Top)
        BY <1>2, <1>4, <3>3, <3>4, TopGrownStays
      <3>7. heap' = g
        BY <1>3 DEF g
      <3> QED BY <1>4, <3>3, <3>5, <3>6, <3>7 DEF Readers
    <2> QED BY <2>1, <2>2
  <1>7. Shown(heap', pc', Top)
    BY <1>1, <1>6 DEF Shown
  <1>8. stack' = <<Top>> \o r
    BY <1>1, <1>2 DEF Top
  <1> QED BY <1>1, <1>2, <1>6, <1>7, <1>8, TopTidy

\* duplicate copies the key.
LEMMA CopyKeyTidy ==
  ASSUME DocInv, CopyKey
  PROVE  Tidy
  <1> DEFINE n == Top.node
             r == Tail(stack)
             s == KeyFirst(Top)
             R == RootsOf(owned, Top, r)
  <1>1. pc = "key" /\ pc # "idle" /\ pc' = "kids" /\ UNCHANGED stack
    BY DEF CopyKey, Goto
  <1>2. /\ Intact(heap, owned, Top, r) /\ Top \in Frames /\ r \in Seq(Frames)
        /\ Readers(heap, R) /\ Strung(heap, {}) /\ Grounded(KidsIn(heap))
        /\ Shown(heap, "key", Top) /\ Asking(Top, r) /\ Tells(heap, r)
        /\ n # NULL /\ heap.string[n] = NULL /\ stack \in Seq(Frames) /\ stack # <<>>
    BY <1>1, DocWorking DEF At
  <1>3. PICK b \in Room(s) : heap' = PutKey(heap, n, s, b)
    BY DEF CopyKey
  <1>4. /\ Grown(heap, Top) /\ s = OwnKey(heap, Top)
        /\ Deref(heap, heap.valuestring[n]) = Wish(heap, Top).text
    BY <1>2, ReadsPlain DEF Shown
  <1>5. n \in R /\ Private(heap, n) /\ n \notin heap.consts
    BY <1>2 DEF Intact, On, Builds, RootsOf
  <1>6. /\ Grounded(KidsIn(heap')) /\ Tells(heap', r) /\ Quiet(heap, heap', owned)
        /\ Grown(heap', Top) /\ Deref(heap', heap'.valuestring[n]) = Wish(heap', Top).text
        /\ Deref(heap', heap'.string[n]) = OwnKey(heap', Top)
    <2>1. CASE s = NULL
      <3>1. heap' = heap
        BY <1>3, <2>1 DEF PutKey
      <3>2. Deref(heap, heap.string[n]) = s
        BY <1>2, <2>1, NoString
      <3> QED BY <1>2, <1>4, <3>1, <3>2 DEF Quiet
    <2>2. CASE s # NULL
      <3>1. b \in Bufs \ LiveBufs(heap)
        BY <2>2, PickedBuf
      <3>2. s \in Texts
        BY <1>2, <2>2, TextsAreTexts
      <3> DEFINE g == PutKey(heap, n, s, b)
      <3>3. /\ Readers(g, R) /\ SameDocs(heap, g, Nodes \ {n}) /\ KidSeq(g, n) = KidSeq(heap, n)
            /\ Deref(g, g.string[n]) = s
            /\ Deref(g, g.valuestring[n]) = Deref(heap, heap.valuestring[n])
        <4> HIDE DEF R, n, s
        <4> QED BY <1>2, <1>5, <3>1, <3>2, PutKeyReads
      <3>4. g.refs = heap.refs
        <4>1. heap \in Heap
          BY <1>2 DEF Intact, Sound, TypeOKIn
        <4> QED BY <4>1 DEF PutKey, NewText, Heap
      <3> HIDE DEF g
      <3>5. Tells(g, r) /\ Quiet(heap, g, owned)
        BY <1>2, <3>3, <3>4, TopWritten
      <3>6. Grown(g, Top) /\ Wish(g, Top) = Wish(heap, Top)
        BY <1>2, <1>4, <3>3, <3>4, TopGrownStays
      <3>7. heap' = g
        BY <1>3 DEF g
      <3> QED BY <1>4, <3>3, <3>5, <3>6, <3>7 DEF Readers, OwnKey
    <2> QED BY <2>1, <2>2
  <1>7. Shown(heap', pc', Top)
    BY <1>1, <1>6 DEF Shown
  <1>8. stack' = <<Top>> \o r
    BY <1>1, <1>2 DEF Top
  <1> QED BY <1>1, <1>2, <1>6, <1>7, <1>8, TopTidy

\* The recursive call asks for the document of the next kid.
LEMMA DescendTidy ==
  ASSUME DocInv, Descend
  PROVE  Tidy
  <1> DEFINE k == Frame(Top.how, NextKid(Top))
             r == Tail(stack)
             R == RootsOf(owned, Top, r)
  <1>1. /\ pc = "kids" /\ pc # "idle" /\ pc' = "alloc" /\ UNCHANGED <<heap, owned>>
        /\ Top.how # "array" /\ NextKid(Top) # NULL /\ stack' = <<k>> \o stack
    BY DEF Descend, Goto
  <1>2. /\ Intact(heap, owned, Top, r) /\ Top \in Frames /\ r \in Seq(Frames)
        /\ Readers(heap, R) /\ Grounded(KidsIn(heap)) /\ BuildInv
        /\ Shown(heap, "kids", Top) /\ Asking(Top, r) /\ Tells(heap, r)
        /\ stack \in Seq(Frames) /\ stack # <<>>
    BY <1>1, DocWorking
  <1>3. /\ k.node = NULL /\ k.how = Top.how /\ k.source = NextKid(Top)
        /\ k.at = IF k.how = "copy" THEN heap.child[k.source] ELSE 1
    BY DEF Frame
  <1>4. k \in Frames
    <2>1. BuildInv'
      BY <1>1, <1>2, DescendBuilds
    <2>2. stack' \in Seq(Frames)
      BY <2>1 DEF BuildInv, BuildOK
    <2> HIDE DEF k
    <2>3. k = Head(stack') /\ stack' # <<>>
      BY <1>1, <1>2
    <2> QED BY <2>2, <2>3
  <1>5. NextKid(Top) = Wanted(Top)
    BY <1>1 DEF NextKid, Wanted
  <1> HIDE DEF k
  <1>6. Asking(k, stack)
    BY <1>2, <1>3, <1>5, AskPush DEF Top
  <1>7. Tells(heap, stack)
    BY <1>2, TellsPush DEF Top
  <1>8. Shown(heap, "alloc", k)
    <2>1. k.how = "copy" => k.source \in Nodes
      <3>1. Top.how = "copy" => Top.at \in Live(heap) \cup {NULL}
        BY <1>2 DEF Intact, On, Reads
      <3> QED BY <1>1, <1>3, <3>1 DEF NextKid, Live
    <2>2. k.at = AtKid(heap, k, 0)
      BY <1>2, <1>3, <2>1, FirstKid DEF Readers
    <2> QED BY <1>3, <2>2 DEF Shown
  <1>9. DocOK(heap, <<k>> \o stack, "alloc")
    BY <1>2, <1>4, <1>6, <1>7, <1>8, DocGoing
  <1> QED BY <1>1, <1>2, <1>9 DEF Tidy, Quiet

\* Where the frame is in its kids, and whether it has them all.
LEMMA AtNextKid ==
  ASSUME NEW h, NEW R, Whole(h, R), NEW f, Reads(h, f), Grown(h, f), f.node \in Nodes
  PROVE  LET n == Len(KidSeq(h, f.node))
         IN /\ n \in Nat /\ Size(h, f) \in Nat
            /\ f.how = "copy" => f.source \in Nodes /\ (n < Size(h, f) <=> f.at # NULL)
                                 /\ (f.at # NULL => f.at = KidSeq(h, f.source)[n + 1])
            /\ f.how # "copy" => f.source \in Values /\ f.at = n + 1
  <1> DEFINE n == Len(KidSeq(h, f.node))
  <1>1. n \in Nat /\ n <= Size(h, f) /\ f.at = AtKid(h, f, n)
    <2>1. KidSeq(h, f.node) \in Seq(Nodes)
      BY KidsInOrder
    <2> QED BY <2>1 DEF Grown
  <1> HIDE DEF n
  <1>2. CASE f.how = "copy"
    <2> DEFINE s == KidSeq(h, f.source)
    <2>1. f.source \in Nodes
      BY <1>2 DEF Reads, Live
    <2>2. s \in Seq(Nodes) /\ Len(s) \in Nat /\ Size(h, f) = Len(s)
      BY <1>2, <2>1, KidsInOrder DEF Size
    <2>3. f.at = IF n < Len(s) THEN s[n + 1] ELSE NULL
      BY <1>1, <1>2 DEF AtKid
    <2> HIDE DEF s
    <2>4. n < Len(s) => s[n + 1] \in Nodes /\ s[n + 1] # NULL
      <3>1. n < Len(s) => n + 1 \in 1 .. Len(s)
        BY <1>1, <2>2
      <3> QED BY <2>2, <3>1, HeapAssumption
    <2> QED BY <1>1, <1>2, <2>1, <2>2, <2>3, <2>4 DEF n, s
  <1>3. CASE f.how # "copy"
    <2>1. f.source \in Values /\ f.at = n + 1
      BY <1>1, <1>3 DEF Reads, AtKid
    <2>2. f.source.kids \in Seq(Values)
      BY <2>1, ValuesAssumption
    <2> QED BY <1>1, <1>3, <2>1, <2>2 DEF Size, n
  <1> QED BY <1>2, <1>3

\* All kids are there.
LEMMA NoMoreKidsTidy ==
  ASSUME DocInv, NoMoreKids
  PROVE  Tidy
  <1> DEFINE r == Tail(stack)
             R == RootsOf(owned, Top, r)
             n == Len(KidSeq(heap, Top.node))
  <1>1. /\ pc = "kids" /\ pc # "idle" /\ pc' = "return" /\ UNCHANGED <<heap, stack>> /\ NextKid(Top) = NULL
    BY DEF NoMoreKids, Goto
  <1>2. /\ Intact(heap, owned, Top, r) /\ Top \in Frames /\ r \in Seq(Frames)
        /\ Readers(heap, R) /\ Grounded(KidsIn(heap))
        /\ Shown(heap, "kids", Top) /\ Asking(Top, r) /\ Tells(heap, r)
        /\ stack \in Seq(Frames) /\ stack # <<>> /\ Top.node # NULL
    BY <1>1, DocWorking DEF At
  <1>3. Grown(heap, Top) /\ Reads(heap, Top) /\ Top.node \in Nodes /\ Whole(heap, R)
    BY <1>2 DEF Shown, Intact, On, Frames, Readers
  <1>4. /\ n \in Nat /\ Size(heap, Top) \in Nat /\ n <= Size(heap, Top)
        /\ Top.how = "copy" => (n < Size(heap, Top) <=> Top.at # NULL)
        /\ Top.how # "copy" => Top.source \in Values /\ Top.at = n + 1
    BY <1>3, AtNextKid DEF Grown
  <1>5. n = Size(heap, Top)
    <2> HIDE DEF n
    <2>1. CASE Top.how = "copy"
      BY <1>1, <1>4, <2>1 DEF NextKid
    <2>2. CASE Top.how # "copy"
      <3> DEFINE kids == Top.source.kids
      <3>1. kids \in Seq(Values) /\ NULL \notin Values
        BY <1>4, <2>2, ValuesAssumption
      <3>2. Size(heap, Top) = Len(kids)
        BY <2>2 DEF Size
      <3>3. IF Top.at <= Len(kids) THEN kids[Top.at] = NULL ELSE TRUE
        BY <1>1, <2>2 DEF NextKid
      <3> HIDE DEF kids
      <3>4. ASSUME n < Len(kids)
            PROVE  FALSE
        <4>1. n + 1 \in 1 .. Len(kids)
          BY <1>4, <3>1, <3>4
        <4>2. kids[n + 1] \in Values
          BY <3>1, <4>1
        <4>3. n + 1 <= Len(kids)
          BY <4>1
        <4> QED BY <1>4, <2>2, <3>1, <3>3, <4>2, <4>3
      <3> QED BY <1>4, <3>1, <3>2, <3>4
    <2> QED BY <2>1, <2>2
  <1>6. Shown(heap', pc', Top)
    BY <1>1, <1>2, <1>5 DEF Shown
  <1>7. stack' = <<Top>> \o r
    BY <1>1, <1>2 DEF Top
  <1>8. Quiet(heap, heap', owned)
    BY <1>1 DEF Quiet
  <1> QED BY <1>1, <1>2, <1>6, <1>7, <1>8, TopTidy

-----------------------------------------------------------------------------
(* A kid is linked *)

\* The frame f links the document that it asked for, and goes on as k.
LEMMA GrownByKid ==
  ASSUME NEW h, NEW g, NEW C, SameDocs(h, g, C), NEW f, f.node \in Nodes, Grown(h, f),
         KidSeq(h, f.node) \in Seq(Nodes),
         \A i \in DOMAIN KidSeq(h, f.node) : KidSeq(h, f.node)[i] \in C,
         f.how = "copy" => f.source \in C /\ KidSeq(h, f.source) \in Seq(Nodes),
         NEW x, KidSeq(g, f.node) = Append(KidSeq(h, f.node), x),
         NEW m, m = Len(KidSeq(h, f.node)) + 1, m <= Size(h, f), DocsIn(g)[x] = Asked(h, f, m),
         f.how = "array" => f.source.kids[m].text \in Utf8 \cup {NULL},
         NEW k, k.how = f.how, k.source = f.source, k.node = f.node, k.at = AtKid(h, f, m)
  PROVE  Grown(g, k) /\ Wish(g, k) = Wish(h, f)
  <1> DEFINE mine == KidSeq(h, f.node)
             more == KidSeq(g, f.node)
  <1>1. /\ DOMAIN mine = 1 .. Len(mine) /\ Len(mine) \in Nat /\ Len(more) = m /\ m = Len(mine) + 1
        /\ \A i \in 1 .. Len(mine) : more[i] = mine[i] /\ mine[i] \in C
        /\ more[m] = x
    BY AppendProperties
  <1>2. \A i \in 1 .. Len(mine) : DocsIn(g)[more[i]] = Asked(h, f, i)
    BY <1>1 DEF SameDocs, Grown
  <1>3. f.how = "copy" => /\ KidSeq(g, f.source) = KidSeq(h, f.source)
                          /\ Label(g, f.source) = Label(h, f.source)
    BY DEF SameDocs, Alike
  <1>4. Size(g, k) = Size(h, f) /\ k.at = AtKid(g, k, m) /\ Wish(g, k) = Wish(h, f)
    BY <1>3 DEF Size, AtKid, Wish
  <1>5. \A i \in 1 .. m : Asked(g, k, i) = Asked(h, f, i)
    <2> TAKE i \in 1 .. m
    <2>1. CASE f.how = "copy"
      <3> DEFINE its == KidSeq(h, f.source)
      <3>1. i \in DOMAIN its
        <4>1. m <= Len(its) /\ its \in Seq(Nodes) /\ m \in Nat
          BY <1>1, <2>1 DEF Size
        <4> HIDE DEF its, mine
        <4> QED BY <4>1
      <3>2. its[i] \in C
        BY <2>1, <3>1 DEF SameDocs
      <3>3. DocsIn(g)[its[i]] = DocsIn(h)[its[i]]
        BY <3>2 DEF SameDocs
      <3> QED BY <1>3, <2>1, <3>3 DEF Asked
    <2>2. CASE f.how # "copy"
      BY <2>2 DEF Asked
    <2> QED BY <2>1, <2>2
  <1> HIDE DEF more
  <1>6. ASSUME NEW i \in 1 .. m
        PROVE  /\ DocsIn(g)[more[i]] = Asked(g, k, i)
               /\ k.how = "array" => k.source.kids[i].text \in Utf8 \cup {NULL}
    <2>1. CASE i = m
      BY <1>1, <1>5, <2>1
    <2>2. CASE i # m
      <3> HIDE DEF mine
      <3>1. i \in 1 .. Len(mine)
        BY <1>1, <2>2
      <3>2. f.how = "array" => f.source.kids[i].text \in Utf8 \cup {NULL}
        BY <3>1 DEF Grown, mine
      <3> QED BY <1>2, <1>5, <3>1, <3>2
    <2> QED BY <2>1, <2>2
  <1>7. Grown(g, k)
    BY <1>1, <1>4, <1>6 DEF Grown, more
  <1> QED BY <1>4, <1>7

\* attach_child, or append_children, links the kid that the frame on top has asked
\* for.
LEMMA KidJoins ==
  ASSUME NEW h, NEW o, NEW x, NEW f, NEW r, Taken(h, o, x, f, r), Grounded(KidsIn(h)),
         f.node # NULL, h.type[f.node] \in Containers, Tells(h, r), Shown(h, "kids", f),
         NEW m, m = Len(KidSeq(h, f.node)) + 1, m <= Size(h, f), DocsIn(h)[x] = Asked(h, f, m),
         f.how = "array" => f.source.kids[m].text \in Utf8 \cup {NULL},
         NEW k, k.how = f.how, k.source = f.source, k.node = f.node, k.at = AtKid(h, f, m)
  PROVE  LET g == AttachChild(h, f.node, x)
         IN Grounded(KidsIn(g)) /\ Tells(g, r) /\ Quiet(h, g, o) /\ Shown(g, "kids", k)
  <1> DEFINE p == f.node
             u == o \cup {x}
             R == RootsOf(u, f, r)
             g == AttachChild(h, p, x)
             C == Nodes \ {p}
  <1>1. Intact(h, u, f, r) /\ Private(h, x)
    BY DEF Taken
  <1>2. Readers(h, R) /\ Strung(h, {}) /\ Whole(h, R)
    BY <1>1, IntactReads
  <1>3. p \in R /\ x \in R /\ x # p /\ Private(h, p) /\ h.type[p] \in Containers
    BY <1>1 DEF Intact, RootsOf, On, Builds
  <1>4. /\ Readers(g, R \ {x}) /\ SameDocs(h, g, C)
        /\ Label(g, p) = Label(h, p) /\ KidSeq(g, p) = Append(KidSeq(h, p), x)
        /\ KidSeq(h, p) \in Seq(Nodes) /\ x \in Nodes
    <2> HIDE DEF R, p
    <2> QED BY <1>1, <1>2, <1>3, AttachReads
  <1>5. g.refs = h.refs
    BY <1>2 DEF Whole, Sound, TypeOKIn, AttachChild, Heap
  <1> HIDE DEF g, u
  <1>6. /\ Tells(g, r) /\ Quiet(h, g, u) /\ Unlisted(h, p) /\ p \in Nodes
        /\ f.how = "copy" => f.source \in C
    BY <1>1, <1>4, <1>5, TopWritten
  <1>7. Quiet(h, g, o) /\ DocsIn(g)[x] = DocsIn(h)[x]
    BY <1>6 DEF Quiet, u
  <1>8. \A i \in DOMAIN KidSeq(h, p) : KidSeq(h, p)[i] \in C
    <2> DEFINE s == KidSeq(h, p)
    <2>1. s \in Seq(Nodes) /\ \A i \in DOMAIN s : s[i] # p
      BY <1>4, <1>6 DEF Unlisted
    <2> HIDE DEF s
    <2>2. \A i \in DOMAIN s : s[i] \in C
      BY <2>1
    <2> QED BY <2>2 DEF s
  <1>9. f.how = "copy" => f.source \in C /\ KidSeq(h, f.source) \in Seq(Nodes)
    BY <1>2, <1>6, HeapReads
  <1>10. Grown(h, f)
    BY DEF Shown
  <1> HIDE DEF C
  <1>11. Grown(g, k) /\ Wish(g, k) = Wish(h, f)
    BY <1>4, <1>6, <1>7, <1>8, <1>9, <1>10, GrownByKid
  <1>12. Shown(g, "kids", k)
    <2>1. /\ Deref(h, h.valuestring[p]) = Wish(h, f).text
          /\ Deref(h, h.string[p]) = OwnKey(h, f)
      BY DEF Shown
    <2>2. /\ Deref(g, g.valuestring[p]) = Deref(h, h.valuestring[p])
          /\ Deref(g, g.string[p]) = Deref(h, h.string[p])
      <3>1. Label(g, p).text = Label(h, p).text /\ Label(g, p).key = Label(h, p).key
        BY <1>4
      <3> QED BY <3>1 DEF Label
    <2> QED BY <1>11, <2>1, <2>2 DEF Shown, OwnKey
  <1> QED BY <1>4, <1>6, <1>7, <1>12 DEF Readers, g

\* The frame of a kid is popped.
LEMMA CallerTidy ==
  ASSUME NEW k \in Frames, Tail(Tail(stack)) \in Seq(Frames), PopTo(k),
         Shown(heap', pc', k), Asking(k, Tail(Tail(stack))), Tells(heap', Tail(Tail(stack))),
         Grounded(KidsIn(heap')), Quiet(heap, heap', owned)
  PROVE  Tidy
  BY DocGoing DEF Tidy, PopTo

\* What the frame below asks for, once it is on top again.
LEMMA CallerWorking ==
  ASSUME DocInv, pc # "idle", Tail(stack) # <<>>
  PROVE  /\ Shown(heap, "kids", Caller) /\ Tells(heap, Tail(Tail(stack)))
         /\ Tail(Tail(stack)) \in Seq(Frames) /\ Caller \in Frames
         /\ Asking(Caller, Tail(Tail(stack))) /\ Top.source = Wanted(Caller)
         /\ Caller.how = Top.how /\ Caller.how # "array" /\ Caller.node # NULL /\ Waits(Caller)
         /\ Reads(heap, Caller)
  <1> DEFINE r == Tail(stack)
             q == Tail(r)
             c == Head(r)
  <1>1. /\ Intact(heap, owned, Top, r) /\ r \in Seq(Frames) /\ Tells(heap, r) /\ Asking(Top, r)
    BY DocWorking
  <1>2. 1 \in 1 .. Len(r) /\ c = r[1]
    BY <1>1
  <1>3. Waits(c) /\ c.how = Top.how /\ Reads(heap, c)
    BY <1>1, <1>2 DEF Intact, On, Waiting
  <1> HIDE DEF r
  <1>4. Shown(heap, "kids", c) /\ Tells(heap, q) /\ q \in Seq(Frames) /\ c \in Frames
    BY <1>1, TellsPop DEF r
  <1>5. Asking(c, q) /\ Top.source = Wanted(c)
    BY <1>1, AskPop DEF r
  <1>6. c.node # NULL /\ c.how # "array"
    BY <1>3 DEF Waits
  <1> QED BY <1>3, <1>4, <1>5, <1>6 DEF Caller, r

\* The kid could not be built: neither can this.
LEMMA PassFailureTidy ==
  ASSUME DocInv, PassFailure
  PROVE  Tidy
  <1> DEFINE r == Tail(stack)
             q == Tail(r)
             k == [Caller EXCEPT !.node = NULL]
  <1>1. /\ pc = "return" /\ pc # "idle" /\ pc' = "return"
        /\ r # <<>> /\ Top.node = NULL /\ heap' = FreeTree(heap, Caller.node) /\ PopTo(k)
    BY DEF PassFailure, Goto
  <1>2. Intact(heap, owned, Top, r) /\ Grounded(KidsIn(heap))
    BY <1>1, DocWorking
  <1>3. /\ Tells(heap, q) /\ q \in Seq(Frames) /\ Caller \in Frames /\ Asking(Caller, q) /\ Caller.node # NULL
    BY <1>1, CallerWorking
  <1>4. Intact(heap, owned, Caller, q)
    BY <1>1, <1>2, PopNothing DEF Caller
  <1>5. k \in Frames /\ k.node = NULL /\ k.how = Caller.how /\ k.source = Caller.source
    BY <1>3 DEF Frames
  <1> HIDE DEF k, r
  <1>6. Shown(heap', "return", k) /\ Asking(k, q)
    BY <1>3, <1>5, NothingShown, AskSame
  <1>7. Grounded(KidsIn(heap')) /\ Tells(heap', q) /\ Quiet(heap, heap', owned)
    BY <1>1, <1>2, <1>3, <1>4, TopFreed
  <1> QED BY <1>1, <1>3, <1>5, <1>6, <1>7, CallerTidy DEF r

\* The kid is freed for want of a key, and its parent.
LEMMA MemberKeyFailsTidy ==
  ASSUME DocInv, MemberKeyFails
  PROVE  Tidy
  <1> DEFINE r == Tail(stack)
             q == Tail(r)
             f == [Top EXCEPT !.node = NULL]
             k == [Caller EXCEPT !.node = NULL]
             g == FreeTree(heap, Top.node)
  <1>1. /\ pc = "return" /\ pc # "idle" /\ pc' = "return"
        /\ r # <<>> /\ Top.node # NULL /\ heap' = FreeTree(g, Caller.node) /\ PopTo(k)
    BY DEF MemberKeyFails, Goto, Returning
  <1>2. /\ Intact(heap, owned, Top, r) /\ Grounded(KidsIn(heap)) /\ Top \in Frames /\ Tells(heap, r)
        /\ r \in Seq(Frames)
    BY <1>1, DocWorking
  <1>3. q \in Seq(Frames) /\ Caller \in Frames /\ Asking(Caller, q) /\ Caller.node # NULL
    BY <1>1, CallerWorking
  <1>4. Intact(g, owned, f, r) /\ f.node = NULL
    BY <1>1, <1>2, FreeBuilt DEF Frames
  <1>5. Grounded(KidsIn(g)) /\ Tells(g, r) /\ Quiet(heap, g, owned)
    BY <1>1, <1>2, TopFreed
  <1> HIDE DEF g, f
  <1>6. Intact(g, owned, Caller, q)
    BY <1>1, <1>4, PopNothing DEF Caller
  <1>7. k \in Frames /\ k.node = NULL /\ k.how = Caller.how /\ k.source = Caller.source
    BY <1>3 DEF Frames
  <1> HIDE DEF k
  <1>8. Shown(heap', "return", k) /\ Asking(k, q)
    BY <1>3, <1>7, NothingShown, AskSame
  <1>9. Tells(g, q)
    BY <1>1, <1>2, <1>5, TellsPop
  <1>10. Grounded(KidsIn(heap')) /\ Tells(heap', q) /\ Quiet(g, heap', owned)
    <2> HIDE DEF r
    <2> QED BY <1>1, <1>3, <1>5, <1>6, <1>9, TopFreed
  <1>11. Quiet(heap, heap', owned)
    BY <1>5, <1>10 DEF Quiet
  <1> QED BY <1>1, <1>3, <1>7, <1>8, <1>10, <1>11, CallerTidy

\* A finished copy.
LEMMA FinishedCopy ==
  ASSUME NEW h, NEW R, Readers(h, R), NEW f, f.how = "copy", Reads(h, f), Builds(h, f),
         f.node \in Nodes, f.node # NULL, Shown(h, "return", f)
  PROVE  DocsIn(h)[f.node] = Plainly(DocsIn(h)[f.source])
  <1> DEFINE n == f.node
             mine == KidSeq(h, n)
             its == KidSeq(h, f.source)
  <1>1. f.source \in Nodes /\ h.type[n] = h.type[f.source]
    BY DEF Reads, Builds, Live
  <1>2. /\ Grown(h, f) /\ Deref(h, h.valuestring[n]) = Wish(h, f).text
        /\ Deref(h, h.string[n]) = OwnKey(h, f) /\ Len(mine) = Len(its)
    BY DEF Shown, Size
  <1>3. Label(h, n) = PlainLabel(Label(h, f.source))
    BY <1>1, <1>2 DEF Label, Wish, OwnKey, PlainLabel, Documents!PlainLabel
  <1>4. \A i \in 1 .. Len(its) : DocsIn(h)[mine[i]] = Plainly(DocsIn(h)[its[i]])
    BY <1>2 DEF Grown, Asked
  <1> QED BY <1>1, <1>2, <1>3, <1>4, BuiltFromNode

\* A finished value, once it has its key.
LEMMA FinishedValue ==
  ASSUME NEW h, NEW R, Readers(h, R), NEW f, f.how # "copy", f.source \in Values,
         f.node \in Nodes, Grown(h, f), Len(KidSeq(h, f.node)) = Size(h, f),
         Label(h, f.node) = [key |-> f.source.key, kind |-> f.source.kind, text |-> f.source.text]
  PROVE  DocsIn(h)[f.node] = DocsOf[f.source]
  <1> DEFINE mine == KidSeq(h, f.node)
  <1>1. Len(mine) = Len(f.source.kids)
    BY DEF Size
  <1>2. \A i \in 1 .. Len(f.source.kids) : DocsIn(h)[mine[i]] = DocsOf[f.source.kids[i]]
    BY <1>1 DEF Grown, Asked
  <1> QED BY <1>1, <1>2, BuiltFromValue

\* duplicate hangs the finished copy of a kid into the copy of its parent.
LEMMA AttachCopyTidy ==
  ASSUME DocInv, AttachCopy
  PROVE  Tidy
  <1> DEFINE x == Top.node
             r == Tail(stack)
             c == Caller
             q == Tail(Tail(stack))
             k == [Caller EXCEPT !.at = heap.next[@]]
             R == RootsOf(owned, Top, r)
             s == KidSeq(heap, c.source)
             n == Len(KidSeq(heap, c.node))
  <1>1. /\ pc = "return" /\ pc # "idle" /\ pc' = "kids"
        /\ Top.how = "copy" /\ r # <<>> /\ x # NULL
        /\ heap' = AttachChild(heap, c.node, x) /\ PopTo(k)
    BY DEF AttachCopy, Goto, Returning
  <1>2. /\ Intact(heap, owned, Top, r) /\ Top \in Frames /\ r \in Seq(Frames)
        /\ Readers(heap, R) /\ Grounded(KidsIn(heap)) /\ Shown(heap, "return", Top)
    BY <1>1, DocWorking
  <1>3. Taken(heap, owned, x, c, q)
    BY <1>1, <1>2, PopKid DEF Caller
  <1>4. /\ Shown(heap, "kids", c) /\ Tells(heap, q) /\ q \in Seq(Frames) /\ c \in Frames
        /\ Asking(c, q) /\ Top.source = Wanted(c) /\ c.how = "copy" /\ c.node # NULL /\ Waits(c)
        /\ Reads(heap, c)
    BY <1>1, CallerWorking
  <1>5. DocsIn(heap)[x] = Plainly(DocsIn(heap)[c.at])
    <2>1. Reads(heap, Top) /\ Builds(heap, Top) /\ x \in Nodes
      BY <1>1, <1>2 DEF Intact, On, Frames
    <2>2. Top.source = c.at
      BY <1>4 DEF Wanted
    <2> HIDE DEF R
    <2> QED BY <1>1, <1>2, <2>1, <2>2, FinishedCopy
  <1>6. Grown(heap, c) /\ c.node \in Nodes /\ Whole(heap, R)
    BY <1>2, <1>4 DEF Shown, Frames, Readers
  <1>7. n \in Nat /\ c.source \in Nodes /\ n < Size(heap, c) /\ c.at = s[n + 1] /\ Size(heap, c) \in Nat
    <2>1. c.at # NULL
      BY <1>4 DEF Waits
    <2> HIDE DEF R, c
    <2> QED BY <1>4, <1>6, <2>1, AtNextKid
  <1>8. Size(heap, c) = Len(s)
    BY <1>4 DEF Size
  <1>9. heap.next[c.at] = IF n + 1 < Len(s) THEN s[n + 1 + 1] ELSE NULL
    <2>1. n + 1 \in 1 .. Len(s)
      BY <1>7, <1>8
    <2>2. \A i \in 1 .. Len(s) : heap.next[s[i]] = IF i < Len(s) THEN s[i + 1] ELSE NULL
      BY <1>6, <1>7, KidsInOrder
    <2> HIDE DEF s, n
    <2> QED BY <1>7, <2>1, <2>2
  <1>10. k \in Frames /\ k.how = c.how /\ k.source = c.source /\ k.node = c.node /\ k.at = heap.next[c.at]
    <2>1. heap.next[c.at] \in Nodes \cup {NULL}
      <3>1. c.at \in Nodes /\ heap \in Heap
        BY <1>2, <1>4 DEF Reads, Waits, Live, Intact, Sound, TypeOKIn
      <3> QED BY <3>1 DEF Heap
    <2> QED BY <1>4, <2>1 DEF Frames
  <1>11. k.at = AtKid(heap, c, n + 1)
    BY <1>4, <1>9, <1>10 DEF AtKid
  <1>12. DocsIn(heap)[x] = Asked(heap, c, n + 1)
    BY <1>4, <1>5, <1>7 DEF Asked
  <1>13. heap.type[c.node] \in Containers
    <2>1. Builds(heap, c)
      BY <1>3 DEF Taken, Intact, On
    <2> QED BY <1>4, <2>1 DEF Builds, Reads, Waits
  <1>14. n + 1 <= Size(heap, c) /\ c.how # "array"
    <2> HIDE DEF n
    <2> QED BY <1>4, <1>7
  <1> HIDE DEF c, q, k, x
  <1>15. Grounded(KidsIn(heap')) /\ Tells(heap', q) /\ Quiet(heap, heap', owned) /\ Shown(heap', "kids", k)
    BY <1>1, <1>2, <1>3, <1>4, <1>10, <1>11, <1>12, <1>13, <1>14, KidJoins
  <1>16. Asking(k, q)
    BY <1>4, <1>10, AskSame
  <1> QED BY <1>1, <1>4, <1>10, <1>15, <1>16, CallerTidy DEF q

\* append_children names a finished kid, which is then what the frame below asked
\* for, and links it.
LEMMA LinkMemberTidy ==
  ASSUME DocInv, LinkMember
  PROVE  Tidy
  <1> DEFINE x == Top.node
             r == Tail(stack)
             c == Caller
             q == Tail(Tail(stack))
             key == Top.source.key
             k == [Caller EXCEPT !.at = @ + 1, !.prev = x]
             R == RootsOf(owned, Top, r)
             n == Len(KidSeq(heap, c.node))
  <1>1. /\ pc = "return" /\ pc # "idle" /\ pc' = "kids"
        /\ Top.how = "value" /\ r # <<>> /\ x # NULL /\ PopTo(k)
    BY DEF LinkMember, Goto, Returning
  <1>2. /\ Intact(heap, owned, Top, r) /\ Top \in Frames /\ r \in Seq(Frames) /\ BuildInv
        /\ Readers(heap, R) /\ Strung(heap, {}) /\ Grounded(KidsIn(heap)) /\ Shown(heap, "return", Top)
        /\ Tells(heap, r)
    BY <1>1, DocWorking
  <1>3. /\ Shown(heap, "kids", c) /\ Tells(heap, q) /\ q \in Seq(Frames) /\ c \in Frames
        /\ Asking(c, q) /\ Top.source = Wanted(c) /\ c.how = "value" /\ c.node # NULL
        /\ Reads(heap, c)
    BY <1>1, CallerWorking
  <1>4. /\ Top.source \in Values /\ heap.string[x] = NULL /\ x \notin heap.consts
        /\ c.source \in Values /\ c.at \in 1 .. Len(c.source.kids)
    BY <1>2, MemberLinked
  <1>5. PICK b \in Room(key) : Linked(b)
    BY <1>2, MemberLinked
  <1> DEFINE g == PutKey(heap, x, key, b)
  <1>6. /\ key # NULL => b \in Bufs \ LiveBufs(heap)
        /\ Taken(heap, owned, x, c, q) /\ Taken(g, owned, x, c, q)
        /\ g.type[c.node] \in Containers
        /\ heap' = AttachChild(g, c.node, x)
    BY <1>5 DEF Linked
  <1>7. x \in R /\ Private(heap, x) /\ x \in Nodes /\ heap.type[x] = Top.source.kind /\ heap \in Heap
    BY <1>1, <1>2 DEF Intact, On, Builds, RootsOf, Frames, Sound, TypeOKIn
  <1>8. /\ Readers(g, R) /\ SameDocs(heap, g, Nodes \ {x}) /\ KidSeq(g, x) = KidSeq(heap, x)
        /\ Deref(g, g.string[x]) = key
        /\ Deref(g, g.valuestring[x]) = Deref(heap, heap.valuestring[x])
        /\ g.type = heap.type /\ g.refs = heap.refs
    <2>1. CASE key = NULL
      <3>1. g = heap
        BY <2>1 DEF PutKey
      <3>2. \A m \in Nodes : KidSeq(heap, m) \in Seq(Nodes)
        BY <1>2, HeapReads
      <3>3. Unlisted(heap, x)
        BY <1>2, <1>7, PrivateUnlisted DEF Readers
      <3>4. \A m \in Nodes \ {x} : \A i \in DOMAIN KidSeq(heap, m) : KidSeq(heap, m)[i] \in Nodes \ {x}
        <4> TAKE m \in Nodes \ {x}
        <4> DEFINE s == KidSeq(heap, m)
        <4>1. s \in Seq(Nodes) /\ \A i \in DOMAIN s : s[i] # x
          BY <3>2, <3>3 DEF Unlisted
        <4> HIDE DEF s
        <4>2. \A i \in DOMAIN s : s[i] \in Nodes \ {x}
          BY <4>1
        <4> QED BY <4>2 DEF s
      <3>5. SameDocs(heap, heap, Nodes \ {x})
        BY <3>4 DEF SameDocs, Alike
      <3>6. Deref(heap, heap.string[x]) = key
        BY <1>4, <2>1, NoString
      <3> HIDE DEF g
      <3> QED BY <1>2, <3>1, <3>5, <3>6
    <2>2. CASE key # NULL
      <3>1. b \in Bufs \ LiveBufs(heap) /\ key \in Texts
        BY <1>4, <1>6, <2>2, ValuesAssumption
      <3>2. g.refs = heap.refs
        BY <1>7 DEF PutKey, NewText, Heap
      <3> HIDE DEF R, x, key
      <3> QED BY <1>2, <1>4, <1>7, <3>1, <3>2, PutKeyReads
    <2> QED BY <2>1, <2>2
  <1> HIDE DEF g
  <1>9. DocsIn(g)[x] = DocsOf[Top.source]
    <2>1. Grown(heap, Top) /\ Len(KidSeq(heap, x)) = Size(heap, Top)
          /\ Deref(heap, heap.valuestring[x]) = Top.source.text
      BY <1>1, <1>2 DEF Shown, Wish
    <2>2. Grown(g, Top) /\ Size(g, Top) = Size(heap, Top)
      BY <1>1, <1>2, <1>8, <2>1, TopGrownStays
    <2>3. Label(g, x) = [key |-> Top.source.key, kind |-> Top.source.kind, text |-> Top.source.text]
      BY <1>7, <1>8, <2>1 DEF Label
    <2> HIDE DEF R
    <2> QED BY <1>1, <1>4, <1>7, <1>8, <2>1, <2>2, <2>3, FinishedValue
  <1>10. Tells(g, q) /\ Shown(g, "kids", c) /\ Quiet(heap, g, owned)
    <2>1. Tells(g, r) /\ Quiet(heap, g, owned)
      BY <1>1, <1>2, <1>8, TopWritten
    <2> HIDE DEF r
    <2>2. Tells(g, Tail(r)) /\ Shown(g, "kids", Head(r))
      BY <1>1, <1>2, <2>1, TellsPop
    <2> QED BY <2>1, <2>2 DEF r, Caller
  <1>11. Grounded(KidsIn(g))
    BY <1>8 DEF Readers
  <1> DEFINE m == Len(KidSeq(g, c.node)) + 1
  <1>12. m = c.at /\ m <= Size(g, c)
    <2>1. Grown(g, c) /\ c.node \in Nodes /\ Whole(g, R) /\ Reads(g, c)
      BY <1>3, <1>6, <1>8, <1>10 DEF Shown, Frames, Readers, Taken, Intact, On
    <2>2. c.at = m
      <3> HIDE DEF R, c
      <3> QED BY <1>3, <2>1, AtNextKid
    <2>3. Size(g, c) = Len(c.source.kids) /\ c.source.kids \in Seq(Values)
      BY <1>3, <1>4, ValuesAssumption DEF Size
    <2> QED BY <1>4, <2>2, <2>3
  <1>13. k \in Frames /\ k.how = c.how /\ k.source = c.source /\ k.node = c.node /\ k.at = c.at + 1
    <2>1. c.at \in Nat /\ c.at + 1 \in Nat /\ x \in Nodes
      BY <1>4, <1>7
    <2> QED BY <1>3, <2>1 DEF Frames
  <1>14. k.at = AtKid(g, c, m) /\ DocsIn(g)[x] = Asked(g, c, m) /\ c.how # "array"
    <2>1. Top.source = c.source.kids[c.at]
      BY <1>3 DEF Wanted
    <2> HIDE DEF m, k
    <2> QED BY <1>3, <1>9, <1>12, <1>13, <2>1 DEF AtKid, Asked
  <1>a. m = Len(KidSeq(g, c.node)) + 1
    OBVIOUS
  <1> HIDE DEF c, q, k, x, m
  <1>15. Grounded(KidsIn(heap')) /\ Tells(heap', q) /\ Quiet(g, heap', owned) /\ Shown(heap', "kids", k)
    BY <1>3, <1>6, <1>a, <1>10, <1>11, <1>12, <1>13, <1>14, KidJoins
  <1>16. Asking(k, q) /\ Quiet(heap, heap', owned)
    BY <1>3, <1>10, <1>13, <1>15, AskSame DEF Quiet
  <1> QED BY <1>1, <1>3, <1>13, <1>15, <1>16, CallerTidy DEF q

\* An array constructor's frame waits for nobody and is asked for by the caller.
LEMMA ArrayAlone ==
  ASSUME NEW h, NEW o, NEW f, NEW r, Intact(h, o, f, r), f.how = "array", Asking(f, r)
  PROVE  r = <<>> /\ f.source \in Arrays
  <1>1. r \in Seq(Frames) /\ \A i \in 1 .. Len(r) : r[i].how = "array" /\ Waits(r[i])
    BY DEF Intact, On, Waiting
  <1>2. \A i \in 1 .. Len(r) : FALSE
    BY <1>1 DEF Waits
  <1>3. r = <<>>
    <2>1. Len(r) \in Nat /\ (r = <<>> <=> Len(r) = 0)
      BY <1>1
    <2> QED BY <1>2, <2>1
  <1> QED BY <1>3 DEF Asking, First

\* An array constructor hangs in the next element.
LEMMA AppendElementTidy ==
  ASSUME DocInv, AppendElement
  PROVE  Tidy
  <1> DEFINE p == Top.node
             r == Tail(stack)
             k == [Top EXCEPT !.at = @ + 1]
             R == RootsOf(owned, Top, r)
             v == Element
  <1>1. /\ pc = "kids" /\ pc # "idle" /\ pc' = "kids" /\ Top.how = "array" /\ stack' = <<k>> \o r
        /\ v.text \in Utf8 \cup {NULL}
    BY DEF AppendElement, Goto, SetTop
  <1>2. /\ BuildInv /\ Intact(heap, owned, Top, r) /\ Top \in Frames /\ r \in Seq(Frames) /\ p # NULL
        /\ Readers(heap, R) /\ Strung(heap, {}) /\ Grounded(KidsIn(heap))
        /\ Shown(heap, "kids", Top) /\ Asking(Top, r) /\ Tells(heap, r)
    BY <1>1, DocWorking DEF At
  <1>3. /\ Top.source \in Values /\ Top.at \in 1 .. Len(Top.source.kids)
        /\ v = Top.source.kids[Top.at] /\ v \in Values
    BY <1>2, ElementAppended
  <1>4. PICK n \in Nodes, b \in Room(v.text) : Appended(n, b)
    BY <1>2, ElementAppended
  <1>5. Top.source \in Arrays /\ r = <<>>
    <2> HIDE DEF r, R, k, v
    <2> QED BY <1>1, <1>2, ArrayAlone
  <1>6. v.key = NULL /\ v.kids = <<>> /\ v.kind \in Types /\ v.text \in Texts \cup {NULL}
        /\ (v.text # NULL => v.kind \in Strings) /\ Top.source.kids \in Seq(Values)
    <2>1. Top.source.kids \in Seq(Values)
      BY <1>3, ValuesAssumption
    <2>2. Top.at \in DOMAIN Top.source.kids
      BY <1>3, <2>1
    <2>3. v.key = NULL /\ v.kids = <<>>
      BY <1>3, <1>5, <2>2, DocsAssumption
    <2>4. v.kind \in Types /\ v.text \in Texts \cup {NULL} /\ (v.text # NULL => v.kind \in Strings)
      BY <1>3, ValuesAssumption
    <2> QED BY <2>1, <2>3, <2>4
  <1> DEFINE e == NewNode(heap, n, v.kind)
             g == PutText(e, n, v.text, b)
             C == Nodes \ {n}
             Q == RootsOf(owned \cup {n}, Top, r)
  <1>7. /\ n \in Nodes \ Live(heap) /\ (v.text # NULL => b \in Bufs \ LiveBufs(e))
        /\ Taken(e, owned, n, Top, r) /\ Taken(g, owned, n, Top, r)
        /\ e.valuestring[n] = NULL /\ g.type[p] \in Containers
        /\ heap' = AttachChild(g, p, n)
    BY <1>4 DEF Appended
  <1>8. /\ Readers(e, R \cup {n}) /\ SameDocs(heap, e, C) /\ KidSeq(e, n) = <<>> /\ e.type[n] = v.kind
    <2>1. Readers(heap, R) /\ Strung(heap, {}) /\ n \in Nodes \ Live(heap) /\ v.kind \in Types
      BY <1>2, <1>6, <1>7
    <2> HIDE DEF R, v, r, p, k, g, Q
    <2> QED BY <2>1, NewNodeReads
  <1>9. e.string[n] = NULL /\ e.refs = heap.refs
    <2>1. Sound(heap, R) /\ heap \in Heap
      BY <1>2 DEF Readers, Whole, Sound, TypeOKIn
    <2>2. Allocates(heap, e, n, v.kind)
      BY DEF Allocates
    <2> HIDE DEF R
    <2>3. e.refs = heap.refs
      BY <2>1 DEF NewNode, Heap
    <2> HIDE DEF e, v
    <2>4. e.string[n] = NULL
      BY <1>2, <1>6, <1>7, <2>1, <2>2, NewNodeStrung
    <2> QED BY <2>3, <2>4
  <1> HIDE DEF e
  <1>10. Intact(e, owned \cup {n}, Top, r) /\ Private(e, n) /\ n \in Q
    BY <1>7 DEF Taken, RootsOf
  <1>11. /\ SameDocs(e, g, C) /\ KidSeq(g, n) = <<>> /\ g.refs = heap.refs /\ Grounded(KidsIn(g))
         /\ Deref(g, g.valuestring[n]) = v.text /\ Deref(g, g.string[n]) = NULL /\ g.type[n] = v.kind
    <2>1. Readers(e, Q) /\ Strung(e, {}) /\ e \in Heap
      <3>1. Grounded(KidsIn(e))
        BY <1>8 DEF Readers
      <3>2. Readers(e, Q) /\ Strung(e, {})
        BY <1>10, <3>1, IntactReads
      <3> QED BY <3>2 DEF Readers, Whole, Sound, TypeOKIn
    <2>2. CASE v.text = NULL
      <3>1. g = e
        BY <2>2 DEF PutText
      <3>2. SameDocs(e, e, C)
        BY <1>8 DEF SameDocs, Alike
      <3> HIDE DEF g
      <3> QED BY <1>7, <1>8, <1>9, <2>1, <2>2, <3>1, <3>2, NoString DEF Readers
    <2>3. CASE v.text # NULL
      <3>1. g.refs = heap.refs
        BY <1>9, <2>1, <2>3 DEF PutText, NewText, Heap
      <3>2. b \in Bufs \ LiveBufs(e) /\ v.text \in Texts /\ e.type[n] \in Strings
        BY <1>6, <1>7, <1>8, <2>3
      <3>5. g = PutText(e, n, v.text, b)
        OBVIOUS
      <3> HIDE DEF C, Q, R, v, g
      <3>3. /\ Readers(g, Q) /\ SameDocs(e, g, Nodes \ {n}) /\ KidSeq(g, n) = KidSeq(e, n)
            /\ Deref(g, g.valuestring[n]) = v.text /\ Deref(g, g.string[n]) = Deref(e, e.string[n])
            /\ g.type = e.type
        BY <1>7, <1>10, <2>1, <3>2, <3>5, PutTextReads
      <3>4. Deref(e, e.string[n]) = NULL
        BY <1>9, NoString
      <3> QED BY <1>8, <3>1, <3>3, <3>4 DEF C, Readers
    <2> QED BY <2>2, <2>3
  <1> HIDE DEF g
  <1>12. SameDocs(heap, g, C)
    <2>1. SameDocs(heap, g, C \cap C)
      BY <1>8, <1>11, DocsStayTwice
    <2> QED BY <2>1
  <1>13. Intact(g, owned \cup {n}, Top, r) /\ Readers(g, Q) /\ Whole(g, Q)
    <2>1. Intact(g, owned \cup {n}, Top, r)
      BY <1>7 DEF Taken
    <2> QED BY <1>11, <2>1, IntactReads
  <1>14. DocsIn(g)[n] = DocsOf[v]
    <2>1. Label(g, n) = [key |-> v.key, kind |-> v.kind, text |-> v.text]
      BY <1>6, <1>11 DEF Label
    <2>2. Len(KidSeq(g, n)) = Len(v.kids) /\ Len(v.kids) = 0
      BY <1>6, <1>11
    <2>3. \A i \in 1 .. Len(v.kids) : DocsIn(g)[KidSeq(g, n)[i]] = DocsOf[v.kids[i]]
      BY <2>2
    <2> HIDE DEF Q, v
    <2> QED BY <1>3, <1>7, <1>13, <2>1, <2>2, <2>3, BuiltFromValue DEF v
  <1>15. p \in C /\ owned \in SUBSET C /\ p \in Nodes
    <2>1. p \in Live(heap) /\ owned \subseteq Live(heap) /\ Live(heap) \subseteq Nodes
      BY <1>2, FramesLive
    <2> QED BY <1>7, <2>1
  <1>16. Shown(g, "kids", Top) /\ Quiet(heap, g, owned)
    <2>1. Whole(heap, R)
      BY <1>2 DEF Readers
    <2>2. Top.how # "copy"
      BY <1>1
    <2> HIDE DEF C, R
    <2>3. Shown(g, "kids", Top)
      BY <1>2, <1>12, <1>15, <2>1, <2>2, ShownStays
    <2>4. Quiet(heap, g, owned)
      BY <1>11, <1>12, <1>15, QuietIf
    <2> QED BY <2>3, <2>4
  <1>17. Tells(g, r)
    <2>1. r = <<>>
      BY <1>5
    <2> HIDE DEF r
    <2>2. 1 .. Len(r) = {}
      BY <2>1
    <2> QED BY <2>2 DEF Tells
  <1> DEFINE m == Len(KidSeq(g, p)) + 1
  <1>18. m = Top.at /\ m <= Size(g, Top)
    <2>1. Grown(g, Top) /\ Reads(g, Top)
      BY <1>2, <1>13, <1>16 DEF Shown, Intact, On
    <2>2. Top.at = m
      <3> HIDE DEF Q
      <3> QED BY <1>1, <1>13, <1>15, <2>1, AtNextKid
    <2>3. Size(g, Top) = Len(Top.source.kids)
      BY <1>1 DEF Size
    <2> QED BY <1>3, <1>6, <2>2, <2>3
  <1>19. k \in Frames /\ k.how = Top.how /\ k.source = Top.source /\ k.node = p /\ k.at = Top.at + 1
    <2>1. Top.at \in Nat /\ Top.at + 1 \in Nat
      BY <1>3
    <2> QED BY <1>2, <2>1 DEF Frames
  <1>20. /\ k.at = AtKid(g, Top, m) /\ DocsIn(g)[n] = Asked(g, Top, m)
         /\ Top.source.kids[m].text \in Utf8 \cup {NULL}
    <2> HIDE DEF m, k
    <2> QED BY <1>1, <1>3, <1>14, <1>18, <1>19 DEF AtKid, Asked
  <1>a. m = Len(KidSeq(g, p)) + 1
    OBVIOUS
  <1> HIDE DEF k, m
  <1>21. Grounded(KidsIn(heap')) /\ Tells(heap', r) /\ Quiet(g, heap', owned) /\ Shown(heap', "kids", k)
    <2> HIDE DEF r
    <2> QED BY <1>2, <1>7, <1>11, <1>a, <1>16, <1>17, <1>18, <1>19, <1>20, KidJoins
  <1>22. Asking(k, r) /\ Quiet(heap, heap', owned)
    BY <1>2, <1>16, <1>19, <1>21, AskSame DEF Quiet
  <1> QED BY <1>1, <1>2, <1>19, <1>21, <1>22, TopTidy

\* A failure among the elements of an array, or in a copy of a string.
LEMMA FailuresTidy ==
  ASSUME DocInv, AppendFails \/ CopyFails
  PROVE  Tidy
  BY FreeAndFailTidy DEF AppendFails, CopyFails

\* The call ends.
LEMMA ReturnTidy ==
  ASSUME DocInv, ReturnToCaller
  PROVE  Tidy
  <1>1. Grounded(KidsIn(heap)) /\ heap' = heap /\ stack' = <<>>
    BY DEF DocInv, ReturnToCaller
  <1> QED BY <1>1 DEF Tidy, DocOK, Quiet

\* No step of the library changes a document that the caller holds, and each
\* leaves in the frames the documents that they were asked for so far.
LEMMA LibraryTidy ==
  ASSUME DocInv, LibraryStep
  PROVE  Tidy
  BY AllocNodeTidy, AllocNodeFailsTidy, CopyTextTidy, CopyKeyTidy, FailuresTidy, DescendTidy,
     NoMoreKidsTidy, AppendElementTidy, LinkMemberTidy, MemberKeyFailsTidy, AttachCopyTidy,
     PassFailureTidy, ReturnTidy DEF LibraryStep

-----------------------------------------------------------------------------
(* The steps of the caller *)

\* Between two calls there are the caller's trees alone.
LEMMA Between ==
  ASSUME DocInv, pc = "idle"
  PROVE  /\ Readers(heap, owned) /\ Whole(heap, owned) /\ Sound(heap, owned) /\ heap \in Heap
         /\ Strung(heap, {}) /\ stack = <<>> /\ owned \subseteq Live(heap) /\ Live(heap) \subseteq Nodes
  BY DEF DocInv, BuildInv, BuildOK, Readers, Whole, Sound, TypeOKIn, Live

\* A call begins with nothing built.
LEMMA CallTidy ==
  ASSUME DocInv, NEW how \in {"value", "copy", "array"}, NEW source, Call(how, source),
         IF how = "copy" THEN source \in Live(heap) ELSE source \in Values,
         how = "value" => source \in Docs, how = "array" => source \in Arrays
  PROVE  Grounded(KidsIn(heap')) /\ DocOK(heap', stack', pc')
  <1> DEFINE k == Frame(how, source)
  <1>1. pc = "idle" /\ pc' = "alloc" /\ heap' = heap /\ stack' = <<k>>
    BY DEF Call
  <1>2. /\ Readers(heap, owned) /\ Whole(heap, owned) /\ heap \in Heap /\ Live(heap) \subseteq Nodes
    BY <1>1, Between
  <1>3. /\ k \in Frames /\ k.how = how /\ k.source = source /\ k.node = NULL
        /\ k.at = IF how = "copy" THEN heap.child[source] ELSE 1
    BY <1>2 DEF Frame, Frames, Live, Heap
  <1> HIDE DEF k
  <1>4. Shown(heap, "alloc", k)
    <2>1. k.at = AtKid(heap, k, 0)
      BY <1>2, <1>3, FirstKid
    <2> QED BY <1>3, <2>1 DEF Shown
  <1>5. Asking(k, <<>>) /\ Tells(heap, <<>>) /\ <<>> \in Seq(Frames)
    <2>1. 1 .. Len(<<>>) = {}
      OBVIOUS
    <2>2. First(k)
      BY <1>3 DEF First
    <2> QED BY <2>1, <2>2 DEF Asking, Tells
  <1>6. <<k>> \o <<>> = <<k>>
    OBVIOUS
  <1>7. DocOK(heap, <<k>>, "alloc")
    BY <1>3, <1>4, <1>5, <1>6, DocGoing
  <1> QED BY <1>1, <1>2, <1>7 DEF Readers

\* A node that shows a string, or the list that starts with c.
ShowsString(g, n) ==
  \E s \in Texts : g = [NewReference(heap, n, "String") EXCEPT !.valuestring[n] = s]
ShowsList(g, n) ==
  \E c \in Live(heap) : g = [NewReference(heap, n, "Array") EXCEPT !.child[n] = c]

\* A reference is a new node besides what there was.
LEMMA ReferenceReads ==
  ASSUME DocInv, NEW n \in Pick(FreeNodes), NEW g, Hand(g, n), ShowsString(g, n) \/ ShowsList(g, n)
  PROVE  /\ Readers(g, owned \cup {n}) /\ SameDocs(heap, g, Nodes \ {n})
         /\ g.refs = heap.refs \cup {n} /\ n \in Nodes \ Live(heap)
         /\ Strung(g, {}) /\ Deref(g, g.string[n]) = NULL
         /\ ShowsString(g, n) => g.type[n] = "String" /\ g.child[n] = NULL
         /\ ShowsList(g, n) => g.type[n] = "Array" /\ g.valuestring[n] = NULL
         /\ g.next = heap.next /\ Unlisted(g, n)
  <1> DEFINE Q == owned \cup {n}
  <1>1. /\ pc = "idle" /\ heap' = g /\ owned' = Q /\ stack' = stack /\ CreateReference
    BY DEF Hand, CreateReference, ShowsString, ShowsList
  <1>2. /\ Readers(heap, owned) /\ Whole(heap, owned) /\ heap \in Heap /\ stack = <<>>
        /\ LinksLiveIn(heap) /\ heap.refs \subseteq Nodes /\ n \in Nodes \ Live(heap) /\ n # NULL
    BY <1>1, Between, PickedNode, HeapAssumption DEF Whole, Sound, Links, Heap
  <1>3. Whole(g, Q) /\ Strung(g, {})
    <2>1. BuildInv'
      BY <1>1, CreateReferenceBuilds DEF DocInv
    <2> QED BY <1>1, <1>2, <2>1 DEF BuildInv, BuildOK, Whole
  <1>4. /\ heap.string[n] = NULL /\ heap.valuestring[n] = NULL /\ heap.child[n] = NULL
    BY <1>2 DEF Whole, Sound, TypeOKIn
  <1>5. /\ g.next = heap.next /\ g.string = heap.string /\ g.text = heap.text
        /\ g.refs = heap.refs \cup {n}
        /\ \A m \in Nodes \ {n} : /\ g.type[m] = heap.type[m] /\ g.child[m] = heap.child[m]
                                  /\ g.valuestring[m] = heap.valuestring[m]
        /\ g.child[n] \in Live(heap) \cup {NULL}
        /\ ShowsString(g, n) => g.type[n] = "String" /\ g.child[n] = NULL
        /\ ShowsList(g, n) => g.type[n] = "Array" /\ g.valuestring[n] = NULL
    <2>1. CASE ShowsString(g, n)
      <3>1. PICK s \in Texts : g = [NewReference(heap, n, "String") EXCEPT !.valuestring[n] = s]
        BY <2>1 DEF ShowsString
      <3>2. g.type[n] = "String" /\ g.child = heap.child
        BY <1>2, <3>1 DEF NewReference, Heap
      <3>3. ~ ShowsList(g, n)
        <4>1. ASSUME NEW c \in Live(heap), g = [NewReference(heap, n, "Array") EXCEPT !.child[n] = c]
              PROVE  g.type[n] = "Array"
          BY <1>2, <4>1 DEF NewReference, Heap
        <4> QED BY <3>2, <4>1 DEF ShowsList
      <3>4. /\ g.next = heap.next /\ g.string = heap.string /\ g.text = heap.text
            /\ g.refs = heap.refs \cup {n}
        BY <1>2, <3>1 DEF NewReference, Heap
      <3>5. \A m \in Nodes \ {n} : g.type[m] = heap.type[m] /\ g.valuestring[m] = heap.valuestring[m]
        BY <1>2, <3>1 DEF NewReference, Heap
      <3> QED BY <1>4, <3>2, <3>3, <3>4, <3>5
    <2>2. CASE ShowsList(g, n)
      <3>1. PICK c \in Live(heap) : g = [NewReference(heap, n, "Array") EXCEPT !.child[n] = c]
        BY <2>2 DEF ShowsList
      <3>2. g.type[n] = "Array" /\ g.valuestring = heap.valuestring /\ g.child[n] = c
        BY <1>2, <3>1 DEF NewReference, Heap
      <3>3. ~ ShowsString(g, n)
        <4>1. ASSUME NEW s \in Texts, g = [NewReference(heap, n, "String") EXCEPT !.valuestring[n] = s]
              PROVE  g.type[n] = "String"
          BY <1>2, <4>1 DEF NewReference, Heap
        <4> QED BY <3>2, <4>1 DEF ShowsString
      <3>4. /\ g.next = heap.next /\ g.string = heap.string /\ g.text = heap.text
            /\ g.refs = heap.refs \cup {n}
        BY <1>2, <3>1 DEF NewReference, Heap
      <3>5. \A m \in Nodes \ {n} : g.type[m] = heap.type[m] /\ g.child[m] = heap.child[m]
        BY <1>2, <3>1 DEF NewReference, Heap
      <3> QED BY <1>4, <3>2, <3>3, <3>4, <3>5
    <2> QED BY <2>1, <2>2
  <1>6. \A m \in Nodes \ {n} : Label(g, m) = Label(heap, m)
    BY <1>5 DEF Label, Deref
  <1>7. \A m \in Nodes \ {n} : KidSeq(g, m) = KidSeq(heap, m)
    <2> TAKE m \in Nodes \ {n}
    <2> HIDE DEF Q
    <2> QED BY <1>2, <1>3, <1>5, KidSeqStays
  <1>8. Unlisted(heap, n)
    BY <1>2, ListedAreLive DEF Unlisted
  <1>9. Unlisted(g, n)
    <2>1. \A w \in g.refs : g.child[w] # n
      <3> SUFFICES ASSUME NEW w \in g.refs PROVE g.child[w] # n
        OBVIOUS
      <3>1. CASE w = n
        BY <1>2, <1>5, <3>1
      <3>2. CASE w # n
        <4>1. w \in heap.refs /\ w \in Live(heap)
          BY <1>2, <1>5, <3>2 DEF Whole, Sound, TypeOKIn
        <4>2. heap.child[w] \in Live(heap) \cup {NULL}
          BY <1>2, <4>1 DEF LinksLiveIn
        <4> QED BY <1>2, <1>5, <3>2, <4>1, <4>2
      <3> QED BY <3>1, <3>2
    <2>2. n \in Q
      OBVIOUS
    <2> HIDE DEF Q
    <2> QED BY <1>3, <2>1, <2>2, RootUnlisted
  <1>10. Readers(g, Q) /\ SameDocs(heap, g, Nodes \ {n})
    <2>1. \A m \in Nodes \ {n} : Alike(heap, g, m)
      BY <1>6, <1>7 DEF Alike
    <2>2. \A i \in DOMAIN KidSeq(g, n) : KidSeq(g, n)[i] # n
      BY <1>2, <1>9 DEF Unlisted
    <2> HIDE DEF Q
    <2> QED BY <1>2, <1>3, <1>8, <2>1, <2>2, OneTouched
  <1>11. Deref(g, g.string[n]) = NULL
    BY <1>4, <1>5, NoString
  <1> QED BY <1>2, <1>3, <1>5, <1>9, <1>10, <1>11

LEMMA CreateReferenceHands ==
  ASSUME CreateReference
  PROVE  \E n \in Pick(FreeNodes) : Hand(heap', n) /\ (ShowsString(heap', n) \/ ShowsList(heap', n))
  <1>1. PICK n \in Pick(FreeNodes) :
          \/ \E s \in Texts : Hand([NewReference(heap, n, "String") EXCEPT !.valuestring[n] = s], n)
          \/ \E c \in Live(heap) : Hand([NewReference(heap, n, "Array") EXCEPT !.child[n] = c], n)
    BY DEF CreateReference
  <1>2. CASE \E s \in Texts : Hand([NewReference(heap, n, "String") EXCEPT !.valuestring[n] = s], n)
    <2>1. PICK s \in Texts : Hand([NewReference(heap, n, "String") EXCEPT !.valuestring[n] = s], n)
      BY <1>2
    <2>2. heap' = [NewReference(heap, n, "String") EXCEPT !.valuestring[n] = s]
      BY <2>1 DEF Hand
    <2> QED BY <2>1, <2>2 DEF ShowsString, Hand
  <1>3. CASE \E c \in Live(heap) : Hand([NewReference(heap, n, "Array") EXCEPT !.child[n] = c], n)
    <2>1. PICK c \in Live(heap) : Hand([NewReference(heap, n, "Array") EXCEPT !.child[n] = c], n)
      BY <1>3
    <2>2. heap' = [NewReference(heap, n, "Array") EXCEPT !.child[n] = c]
      BY <2>1 DEF Hand
    <2> QED BY <2>1, <2>2 DEF ShowsList, Hand
  <1> QED BY <1>1, <1>2, <1>3

\* cJSON_Delete.
LEMMA DeleteReads ==
  ASSUME DocInv, NEW x \in owned, Delete(x)
  PROVE  /\ Readers(heap', owned \ {x}) /\ SameDocs(heap, heap', Nodes \ Subtree(heap, x))
         /\ heap'.refs = heap.refs \ Subtree(heap, x) /\ stack' = <<>>
         /\ owned \ {x} \subseteq Nodes \ Subtree(heap, x)
  <1>1. pc = "idle" /\ MayFree(heap, x) /\ heap' = FreeTree(heap, x) /\ stack' = stack
    BY DEF Delete
  <1>2. Readers(heap, owned) /\ Strung(heap, {}) /\ stack = <<>> /\ Sound(heap, owned)
        /\ owned \subseteq Nodes
    BY <1>1, Between
  <1>3. Subtree(heap, x) \cap owned = {x}
    BY <1>2, SubtreeClosedOff
  <1>4. /\ Readers(heap', owned \ {x}) /\ SameDocs(heap, heap', Nodes \ Subtree(heap, x))
        /\ heap'.refs = heap.refs \ Subtree(heap, x)
    BY <1>1, <1>2, FreeReads
  <1> QED BY <1>1, <1>2, <1>3, <1>4

\* What every step of the caller owes.
LEMMA CallerStepTidy ==
  ASSUME DocInv, CallerStep
  PROVE  Grounded(KidsIn(heap')) /\ DocOK(heap', stack', pc')
  <1>1. CASE Parse
    BY <1>1, CallTidy, DocsAssumption DEF Parse
  <1>2. CASE CreateArray
    BY <1>2, CallTidy, DocsAssumption DEF CreateArray
  <1>3. CASE Duplicate
    BY <1>3, CallTidy DEF Duplicate
  <1>4. CASE CreateReference
    <2>1. PICK n \in Pick(FreeNodes) :
            Hand(heap', n) /\ (ShowsString(heap', n) \/ ShowsList(heap', n))
      BY <1>4, CreateReferenceHands
    <2>2. Readers(heap', owned \cup {n})
      BY <2>1, ReferenceReads
    <2>3. stack' = <<>>
      BY <2>1, Between DEF Hand
    <2> QED BY <2>2, <2>3 DEF Readers, DocOK
  <1>5. CASE \E x \in owned : Delete(x)
    BY <1>5, DeleteReads DEF Readers, DocOK
  <1> QED BY <1>1, <1>2, <1>3, <1>4, <1>5 DEF CallerStep

-----------------------------------------------------------------------------
(* The invariant *)

LEMMA InitDoc == Init => DocInv
  <1> SUFFICES ASSUME Init PROVE DocInv
    OBVIOUS
  <1>1. BuildInv
    BY InitBuilds
  <1>2. stack = <<>> /\ \A n \in Nodes : heap.child[n] = NULL
    BY DEF Init, EmptyHeap
  <1>3. Whole(heap, owned)
    BY <1>1, <1>2 DEF BuildInv, BuildOK, Whole
  <1> DEFINE K == KidsIn(heap)
  <1>4. DOMAIN K = Nodes /\ \A n \in Nodes : K[n] = <<>>
    BY <1>2, <1>3, NoKids DEF KidsIn
  <1> HIDE DEF K
  <1>5. Grounded(K)
    <2> SUFFICES ASSUME NEW S \in SUBSET DOMAIN K, S # {}
                 PROVE  \E n \in S : \A i \in DOMAIN K[n] : K[n][i] \notin S
      BY DEF Grounded
    <2>1. PICK n \in S : TRUE
      OBVIOUS
    <2>2. DOMAIN K[n] = {}
      BY <1>4
    <2> QED BY <2>2
  <1> QED BY <1>1, <1>2, <1>5 DEF DocInv, DocOK, K

LEMMA StepDoc ==
  ASSUME DocInv, [Next]_vars
  PROVE  DocInv'
  <1>1. BuildInv'
    BY StepBuilds DEF DocInv
  <1>2. Grounded(KidsIn(heap')) /\ DocOK(heap', stack', pc')
    <2>1. CASE CallerStep
      BY <2>1, CallerStepTidy
    <2>2. CASE LibraryStep
      BY <2>2, LibraryTidy DEF Tidy
    <2>3. CASE UNCHANGED vars
      BY <2>3 DEF vars, DocInv
    <2> QED BY <2>1, <2>2, <2>3 DEF Next
  <1> QED BY <1>1, <1>2 DEF DocInv

\* At every step of every build, whichever allocations fail, no node is among its
\* own descendants, and each frame of the recursion holds the first kids of the
\* document that it was asked for, whole, in order and under their keys.
THEOREM FramesHoldWhatWasAsked == Spec => []DocInv
  <1> QED BY InitDoc, StepDoc, PTL DEF Spec

-----------------------------------------------------------------------------
(* The steps as those of JsonDocuments *)

\* What the caller holds.
Now(h, o) == [x \in o |-> [doc |-> DocsIn(h)[x], lent |-> x \in h.refs]]

LEMMA HeldIsOwned ==
  /\ Documents!Held = owned
  /\ Documents!AllParts = UNION {Parts(DocsIn(heap)[x]) : x \in owned}
  <1>1. Documents!Held = owned
    BY DEF Documents!Held
  <1>2. Documents!AllParts = UNION {Documents!Parts(DocsIn(heap)[x]) : x \in owned}
    BY <1>1 DEF Documents!AllParts
  <1> QED BY <1>1, <1>2, SameWords

\* A document is a part of itself.
LEMMA HeldIsPart ==
  ASSUME NEW R, Readers(heap, R), owned \subseteq R, NEW x \in owned, NEW m \in Subtree(heap, x)
  PROVE  /\ DocsIn(heap)[m] \in Documents!AllParts
         /\ \/ m = x
            \/ \E p \in Nodes : /\ DocsIn(heap)[p] \in Documents!AllParts
                                /\ \E i \in 1 .. Len(KidSeq(heap, p)) : m = KidSeq(heap, p)[i]
  <1> DEFINE P == Parts(DocsIn(heap)[x])
  <1>1. P \subseteq Documents!AllParts
    BY HeldIsOwned
  <1>2. /\ DocsIn(heap)[m] \in P
        /\ \/ m = x
           \/ \E p \in Nodes : /\ DocsIn(heap)[p] \in P
                               /\ \E i \in 1 .. Len(KidSeq(heap, p)) : m = KidSeq(heap, p)[i]
    BY TreesAreParts
  <1> HIDE DEF P
  <1> QED BY <1>1, <1>2

\* The caller holds what is in S from now on, and nothing of it has changed.
Keeping(a, b, S) == DOMAIN b = S /\ \A y \in S \cap DOMAIN a : b[y] = a[y]

\* It gets one of D.
Getting(a, b, n, D, lent) == Keeping(a, b, DOMAIN a \cup {n}) /\ b[n] \in [doc : D, lent : {lent}]

LEMMA KeepingIf ==
  ASSUME NEW S, owned' = S, Quiet(heap, heap', S \cap owned)
  PROVE  Keeping(Now(heap, owned), Now(heap', owned'), S)
  <1> DEFINE a == Now(heap, owned)
             b == Now(heap', owned')
  <1>1. DOMAIN b = S
    BY DEF Now
  <1>2. \A y \in S \cap owned : b[y] = a[y]
    BY DEF Now, Quiet
  <1>3. DOMAIN a = owned
    BY DEF Now
  <1> QED BY <1>1, <1>2, <1>3 DEF Keeping

\* A new document is handed out.
LEMMA GettingIf ==
  ASSUME NEW n \in Nodes \ owned, NEW D, NEW lent \in BOOLEAN, owned' = owned \cup {n},
         Quiet(heap, heap', owned), DocsIn(heap')[n] \in D, (n \in heap'.refs) = lent
  PROVE  Getting(Now(heap, owned), Now(heap', owned'), n, D, lent)
  <1> DEFINE S == owned \cup {n}
  <1>1. DOMAIN Now(heap, owned) = owned
    BY DEF Now
  <1>2. S \cap owned = owned
    OBVIOUS
  <1> HIDE DEF S
  <1>3. Keeping(Now(heap, owned), Now(heap', owned'), S)
    BY <1>2, KeepingIf DEF S
  <1>4. Now(heap', owned')[n] \in [doc : D, lent : {lent}]
    BY DEF Now
  <1> QED BY <1>1, <1>3, <1>4 DEF Getting, S

\* Nothing happens to what the caller holds.
LEMMA Stutters ==
  ASSUME owned' = owned, Quiet(heap, heap', owned)
  PROVE  Now(heap', owned') = Now(heap, owned)
  BY DEF Now, Quiet

LEMMA CallStutters ==
  ASSUME Parse \/ CreateArray \/ Duplicate
  PROVE  Now(heap', owned') = Now(heap, owned)
  BY DEF Parse, CreateArray, Duplicate, Call

LEMMA BuildingStutters ==
  ASSUME DocInv, LibraryStep, ~ ReturnToCaller
  PROVE  Now(heap', owned') = Now(heap, owned)
  <1>1. Quiet(heap, heap', owned)
    BY LibraryTidy DEF Tidy
  <1>2. owned' = owned
    BY DEF LibraryStep, AllocNode, AllocNodeFails, CopyText, CopyKey, CopyFails, Descend, NoMoreKids,
           AppendElement, AppendFails, LinkMember, MemberKeyFails, AttachCopy, PassFailure, Goto, Fail
  <1> QED BY <1>1, <1>2, Stutters

\* cJSON_Delete gives up one document.
LEMMA DeleteDrops ==
  ASSUME DocInv, NEW x \in owned, Delete(x)
  PROVE  Documents!Next
  <1> DEFINE C == Nodes \ Subtree(heap, x)
  <1>1. /\ SameDocs(heap, heap', C) /\ heap'.refs = heap.refs \ Subtree(heap, x)
        /\ owned \ {x} \subseteq C /\ owned' = owned \ {x}
    BY DeleteReads DEF Delete
  <1>2. Quiet(heap, heap', (owned \ {x}) \cap owned)
    BY <1>1 DEF Quiet, SameDocs
  <1> DEFINE S == owned \ {x}
  <1>3. Keeping(Now(heap, owned), Now(heap', owned'), S)
    <2> HIDE DEF S
    <2> QED BY <1>1, <1>2, KeepingIf DEF S
  <1>4. Documents!Drop(x)
    BY <1>3, HeldIsOwned DEF Documents!Drop, Documents!Holds, Documents!Held, Keeping, Now
  <1> QED BY <1>4, HeldIsOwned DEF Documents!Next

-----------------------------------------------------------------------------
(* A call returns *)

\* A text that can be copied, and a label of such texts.
LEMMA PlainStays ==
  ASSUME NEW t \in Types, NEW s \in Utf8 \cup {NULL}
  PROVE  LET l == [key |-> NULL, kind |-> t, text |-> s] IN PlainLabel(l) = l
  BY DEF PlainLabel, Documents!PlainLabel, Documents!PlainText

\* What the array constructors build is plain.
LEMMA ArrayIsPlain ==
  ASSUME NEW a \in Arrays, \A i \in 1 .. Len(a.kids) : a.kids[i].text \in Utf8 \cup {NULL}
  PROVE  Plainly(DocsOf[a]) = DocsOf[a]
  <1> DEFINE docs == Along(DocsOf, a.kids)
             l == [key |-> NULL, kind |-> "Array", text |-> NULL]
  <1>1. a \in Values /\ a.key = NULL /\ a.kind = "Array" /\ a.text = NULL
    BY DocsAssumption, ValuesAssumption DEF Strings
  <1>2. DocsOf[a] = Join(l, docs) /\ a.kids \in Seq(Values) /\ AreDocs(docs)
    BY <1>1, ValuesRead
  <1>3. PlainLabel(l) = l
    BY PlainStays DEF Types
  <1>4. ASSUME NEW i \in DOMAIN docs
        PROVE  docs[i] = Plainly(docs[i])
    <2> DEFINE v == a.kids[i]
               m == [key |-> v.key, kind |-> v.kind, text |-> v.text]
               none == Along(DocsOf, v.kids)
    <2>1. i \in DOMAIN a.kids /\ i \in 1 .. Len(a.kids) /\ docs[i] = DocsOf[v]
      BY <1>2 DEF Along
    <2>2. v \in Values /\ v.key = NULL /\ v.kids = <<>> /\ v.text \in Utf8 \cup {NULL} /\ v.kind \in Types
      BY <1>2, <2>1, DocsAssumption, ValuesAssumption
    <2>3. DocsOf[v] = Join(m, none) /\ AreDocs(none)
      BY <2>2, ValuesRead
    <2>4. PlainLabel(m) = m
      BY <2>2, PlainStays
    <2>5. \A j \in DOMAIN none : none[j] = Plainly(none[j])
      BY <2>2 DEF Along
    <2> HIDE DEF m, none, v
    <2>6. Plainly(Join(m, none)) = Join(PlainLabel(m), none)
      BY <2>3, <2>5, PlainJoin
    <2> QED BY <2>1, <2>3, <2>4, <2>6
  <1> HIDE DEF docs, l
  <1>5. Plainly(Join(l, docs)) = Join(PlainLabel(l), docs)
    BY <1>2, <1>4, PlainJoin
  <1> QED BY <1>2, <1>3, <1>5

\* What the outermost frame has built, once it returns.
LEMMA Finished ==
  ASSUME DocInv, ReturnToCaller, Top.node # NULL
  PROVE  LET n == Top.node
         IN /\ n \in Nodes \ owned /\ n \notin heap.refs
            /\ \/ DocsIn(heap)[n] \in {d \in {DocsOf[v] : v \in Docs \cup Arrays} : Plainly(d) = d}
               \/ DocsIn(heap)[n] \in {Plainly(d) : d \in Documents!AllParts}
  <1> DEFINE n == Top.node
             R == RootsOf(owned, Top, <<>>)
  <1>1. pc = "return" /\ pc # "idle" /\ Tail(stack) = <<>>
    BY DEF ReturnToCaller
  <1>2. /\ Intact(heap, owned, Top, <<>>) /\ Top \in Frames /\ Readers(heap, R)
        /\ Shown(heap, "return", Top) /\ Asking(Top, <<>>)
    BY <1>1, DocWorking
  <1>3. /\ Reads(heap, Top) /\ Builds(heap, Top) /\ n \notin owned /\ n \in Nodes /\ First(Top)
        /\ Outside(heap, Top, n)
    BY <1>2 DEF Intact, On, Frames, Asking
  <1>4. R = owned \cup {n} /\ Whole(heap, R) /\ Private(heap, n)
    BY <1>2, <1>3 DEF RootsOf, InHand, Builds, Readers
  <1>5. n \notin heap.refs
    BY <1>4, PrivateUnlisted
  <1>6. CASE Top.how = "copy"
    <2> HIDE DEF R
    <2>1. DocsIn(heap)[n] = Plainly(DocsIn(heap)[Top.source])
      BY <1>2, <1>3, <1>6, FinishedCopy
    <2>2. Top.source \in Live(heap) /\ Top.source \notin Subtree(heap, n)
      BY <1>3, <1>6 DEF Reads, Outside
    <2>3. PICK x \in R : Top.source \in Subtree(heap, x)
      BY <1>4, <2>2, ReachedIsInTrees DEF Whole
    <2>4. x \in owned /\ owned \subseteq R
      BY <1>4, <2>2, <2>3
    <2>5. DocsIn(heap)[Top.source] \in Documents!AllParts
      BY <1>2, <2>3, <2>4, HeldIsPart
    <2> QED BY <1>3, <1>5, <2>1, <2>5
  <1>7. CASE Top.how # "copy"
    <2> DEFINE v == Top.source
    <2>1. /\ v \in Values /\ v \in Docs \cup Arrays /\ (Top.how = "value" => v \in Docs)
          /\ (Top.how = "array" => v \in Arrays) /\ Top.how \in {"value", "array"}
      BY <1>2, <1>3, <1>7 DEF Reads, First, Frames
    <2>2. v.key = NULL
      BY <2>1, DocsAssumption
    <2>3. /\ Grown(heap, Top) /\ Len(KidSeq(heap, n)) = Size(heap, Top)
          /\ Deref(heap, heap.valuestring[n]) = v.text /\ Deref(heap, heap.string[n]) = NULL
          /\ heap.type[n] = v.kind
      BY <1>2, <1>3, <1>7 DEF Shown, Wish, OwnKey, Builds
    <2>4. Label(heap, n) = [key |-> v.key, kind |-> v.kind, text |-> v.text]
      BY <2>2, <2>3 DEF Label
    <2>5. DocsIn(heap)[n] = DocsOf[v]
      <3> HIDE DEF R
      <3> QED BY <1>2, <1>3, <1>7, <2>1, <2>3, <2>4, FinishedValue
    <2>6. Plainly(DocsOf[v]) = DocsOf[v]
      <3>1. CASE Top.how = "value"
        BY <2>1, <3>1, ParsedAssumption DEF Plainly
      <3>2. CASE Top.how = "array"
        <4>1. Len(KidSeq(heap, n)) = Len(v.kids)
          BY <1>7, <2>3 DEF Size
        <4>2. \A i \in 1 .. Len(v.kids) : v.kids[i].text \in Utf8 \cup {NULL}
          BY <2>3, <3>2, <4>1 DEF Grown
        <4> QED BY <2>1, <3>2, <4>2, ArrayIsPlain
      <3> QED BY <2>1, <3>1, <3>2
    <2> HIDE DEF v
    <2> QED BY <1>3, <1>5, <2>1, <2>5, <2>6
  <1> QED BY <1>6, <1>7

\* A call returns the whole document, or nothing.
LEMMA ReturnMaps ==
  ASSUME DocInv, ReturnToCaller
  PROVE  Documents!Next \/ Now(heap', owned') = Now(heap, owned)
  <1>0. PICK n : n = Top.node
    OBVIOUS
  <1>1. heap' = heap /\ owned' = owned \cup ({n} \ {NULL})
    BY <1>0 DEF ReturnToCaller
  <1>2. Quiet(heap, heap', owned)
    BY <1>1 DEF Quiet
  <1>3. CASE n = NULL
    BY <1>1, <1>2, <1>3, Stutters
  <1>4. CASE n # NULL
    <2>1. /\ n \in Nodes \ owned /\ n \notin heap.refs
          /\ \/ DocsIn(heap)[n] \in {d \in {DocsOf[v] : v \in Docs \cup Arrays} : Plainly(d) = d}
             \/ DocsIn(heap)[n] \in {Plainly(d) : d \in Documents!AllParts}
      BY <1>0, <1>4, Finished
    <2>2. owned' = owned \cup {n} /\ (n \in heap'.refs) = FALSE
      BY <1>1, <1>4, <2>1
    <2>3. CASE DocsIn(heap)[n] \in {d \in {DocsOf[v] : v \in Docs \cup Arrays} : Plainly(d) = d}
      <3> DEFINE D == {d \in {DocsOf[v] : v \in Docs \cup Arrays} : Plainly(d) = d}
      <3>1. Getting(Now(heap, owned), Now(heap', owned'), n, D, FALSE)
        BY <1>1, <1>2, <2>1, <2>2, <2>3, GettingIf
      <3>2. Documents!Build(n)
        BY <3>1 DEF Documents!Build, Documents!Take, Documents!Holds, Documents!Held, Getting, Keeping, Now, Plainly
      <3> QED BY <2>1, <3>2, HeldIsOwned DEF Documents!Next
    <2>4. CASE DocsIn(heap)[n] \in {Plainly(d) : d \in Documents!AllParts}
      <3> DEFINE D == {Plainly(d) : d \in Documents!AllParts}
      <3>1. Getting(Now(heap, owned), Now(heap', owned'), n, D, FALSE)
        BY <1>1, <1>2, <2>1, <2>2, <2>4, GettingIf
      <3>2. Documents!Copy(n)
        BY <3>1 DEF Documents!Copy, Documents!Take, Documents!Holds, Documents!Held, Getting, Keeping, Now, Plainly
      <3> QED BY <2>1, <3>2, HeldIsOwned DEF Documents!Next
    <2> QED BY <2>1, <2>3, <2>4
  <1> QED BY <1>3, <1>4

-----------------------------------------------------------------------------
(* A reference is made *)

\* What follows a kid in the document of its parent is the documents of what
\* follows it in the list.
LEMMA SuffixOfAlong ==
  ASSUME NEW doc, NEW s \in Seq(Nodes), NEW i \in 1 .. Len(s)
  PROVE  LET a == Along(doc, s) IN SubSeq(a, i, Len(a)) = Along(doc, SubSeq(s, i, Len(s)))
  <1> DEFINE T == {doc[n] : n \in Nodes}
             a == Along(doc, s)
             t == SubSeq(s, i, Len(s))
             b == Along(doc, t)
             u == SubSeq(a, i, Len(a))
  <1>1. DOMAIN s = 1 .. Len(s) /\ Len(s) \in Nat /\ \A j \in 1 .. Len(s) : s[j] \in Nodes
    OBVIOUS
  <1>2. /\ t \in Seq(Nodes) /\ Len(t) = Len(s) - i + 1 /\ DOMAIN t = 1 .. Len(t)
        /\ \A j \in 1 .. Len(t) : t[j] = s[i + j - 1] /\ i + j - 1 \in 1 .. Len(s)
    BY <1>1
  <1>3. a \in Seq(T) /\ Len(a) = Len(s) /\ \A j \in 1 .. Len(s) : a[j] = doc[s[j]]
    BY <1>1 DEF Along
  <1> HIDE DEF a, t, T
  <1>4. b \in Seq(T) /\ Len(b) = Len(t) /\ \A j \in 1 .. Len(t) : b[j] = doc[t[j]]
    <2>1. \A j \in 1 .. Len(t) : t[j] \in Nodes
      BY <1>1, <1>2
    <2> QED BY <1>2, <2>1 DEF Along, T
  <1> HIDE DEF b
  <1>5. u \in Seq(T) /\ Len(u) = Len(t) /\ \A j \in 1 .. Len(t) : u[j] = a[i + j - 1]
    BY <1>1, <1>2, <1>3
  <1> HIDE DEF u
  <1>6. ASSUME NEW j \in 1 .. Len(t)
        PROVE  u[j] = b[j]
    <2>1. u[j] = a[i + j - 1] /\ b[j] = doc[t[j]]
      BY <1>4, <1>5
    <2>2. t[j] = s[i + j - 1] /\ i + j - 1 \in 1 .. Len(s)
      BY <1>2
    <2>3. a[i + j - 1] = doc[s[i + j - 1]]
      BY <1>3, <2>2
    <2> QED BY <2>1, <2>2, <2>3
  <1>7. u = b
    BY <1>4, <1>5, <1>6
  <1> QED BY <1>7 DEF u, b, a, t

\* What a list shows is a view of what the caller holds.
LEMMA ListIsView ==
  ASSUME Readers(heap, owned), NEW c \in Live(heap), NEW s, Chain(heap, c, s)
  PROVE  Along(DocsIn(heap), s) \in Documents!Views
  <1> DEFINE doc == DocsIn(heap)
  <1>1. Whole(heap, owned) /\ Sound(heap, owned) /\ Reached(heap, owned)
    BY DEF Readers, Whole
  <1>2. PICK x \in owned : c \in Subtree(heap, x)
    BY <1>1, ReachedIsInTrees
  <1>3. \/ c = x
        \/ \E p \in Nodes : /\ doc[p] \in Documents!AllParts
                            /\ \E i \in 1 .. Len(KidSeq(heap, p)) : c = KidSeq(heap, p)[i]
    BY <1>2, HeldIsPart
  <1>4. CASE c = x
    <2>1. x \in Nodes /\ heap.next[x] = NULL
      BY <1>1, <1>2, <1>4 DEF Sound, TypeOKIn, Links, OneOwnerIn, OwnersIn, Live
    <2>2. Chain(heap, x, <<x>>)
      BY <2>1 DEF Chain
    <2>3. s = <<x>>
      BY <1>4, <2>2, ChainUnique
    <2>4. Along(doc, s) = <<doc[x]>>
      BY <2>3 DEF Along
    <2> QED BY <2>4, HeldIsOwned DEF Documents!Views
  <1>5. CASE \E p \in Nodes : /\ doc[p] \in Documents!AllParts
                              /\ \E i \in 1 .. Len(KidSeq(heap, p)) : c = KidSeq(heap, p)[i]
    <2>1. PICK p \in Nodes : /\ doc[p] \in Documents!AllParts
                             /\ \E i \in 1 .. Len(KidSeq(heap, p)) : c = KidSeq(heap, p)[i]
      BY <1>5
    <2> DEFINE t == KidSeq(heap, p)
               a == Along(doc, t)
    <2>2. PICK i \in 1 .. Len(t) : c = t[i]
      BY <2>1
    <2>3. Chain(heap, heap.child[p], t) /\ t \in Seq(Nodes)
      BY <1>1, KidList
    <2>4. s = SubSeq(t, i, Len(t))
      <3> HIDE DEF t
      <3>1. Chain(heap, c, SubSeq(t, i, Len(t)))
        BY <2>2, <2>3, ChainSuffix
      <3> QED BY <3>1, ChainUnique
    <2>5. Along(doc, s) = SubSeq(a, i, Len(a))
      <3> HIDE DEF t
      <3> QED BY <2>3, <2>4, SuffixOfAlong
    <2>6. Documents!Members(doc[p]) = a
      <3>1. doc[p] = Join(Label(heap, p), a) /\ AreDocs(a)
        BY HeapReads
      <3>2. Members(doc[p]) = [j \in DOMAIN a |-> a[j]]
        BY <3>1, MembersOfJoin
      <3>3. [j \in DOMAIN a |-> a[j]] = a
        BY DEF Along
      <3> QED BY <3>2, <3>3, SameWords
    <2>7. i \in DOMAIN a
      BY <2>3 DEF Along
    <2> HIDE DEF a, doc
    <2> DEFINE S(d) == {SubSeq(Documents!Members(d), j, Len(Documents!Members(d))) : j \in DOMAIN Documents!Members(d)}
    <2>8. Along(doc, s) \in S(doc[p])
      BY <2>5, <2>6, <2>7
    <2> HIDE DEF S
    <2>9. Along(doc, s) \in UNION {S(d) : d \in Documents!AllParts}
      BY <2>1, <2>8
    <2> QED BY <2>9 DEF Documents!Views, S, doc
  <1> QED BY <1>3, <1>4, <1>5

\* A string reference shows its string.
LEMMA StringShown ==
  ASSUME DocInv, NEW n \in Pick(FreeNodes), NEW g, Hand(g, n),
         NEW s \in Texts, g = [NewReference(heap, n, "String") EXCEPT !.valuestring[n] = s]
  PROVE  DocsIn(g)[n] = Documents!StringView(s)
  <1> DEFINE Q == owned \cup {n}
             l == [key |-> NULL, kind |-> "String", text |-> s]
             docs == Along(DocsIn(g), KidSeq(g, n))
  <1>1. ShowsString(g, n)
    BY DEF ShowsString
  <1>2. /\ Readers(g, Q) /\ n \in Nodes /\ Deref(g, g.string[n]) = NULL /\ g.type[n] = "String"
        /\ g.child[n] = NULL
    BY <1>1, ReferenceReads
  <1>3. Deref(g, g.valuestring[n]) = s
    <2>1. pc = "idle"
      BY DEF Hand
    <2>2. g.valuestring[n] = s
      BY <1>2, <2>1, Between DEF NewReference, Heap
    <2> QED BY <2>2, HeapAssumption DEF Deref
  <1>4. Label(g, n) = l
    BY <1>2, <1>3 DEF Label
  <1>5. KidSeq(g, n) = <<>>
    <2> HIDE DEF Q
    <2> QED BY <1>2, NoKids DEF Readers
  <1>6. DocsIn(g)[n] = Join(l, docs)
    <2> HIDE DEF Q
    <2> QED BY <1>2, <1>4, HeapReads
  <1>7. DOMAIN docs = {} /\ DOMAIN <<>> = {}
    BY <1>5 DEF Along
  <1> HIDE DEF docs, l
  <1>8. Join(l, docs) = Join(l, <<>>)
    BY <1>7, SameJoin
  <1> QED BY <1>6, <1>8, SameWords DEF Documents!StringView, l

\* A container reference shows a view.
LEMMA ListShown ==
  ASSUME DocInv, NEW n \in Pick(FreeNodes), NEW g, Hand(g, n),
         NEW c \in Live(heap), g = [NewReference(heap, n, "Array") EXCEPT !.child[n] = c]
  PROVE  \E view \in Documents!Views : DocsIn(g)[n] = Documents!ArrayView(view)
  <1> DEFINE Q == owned \cup {n}
             l == [key |-> NULL, kind |-> "Array", text |-> NULL]
             s == KidSeq(g, n)
             docs == Along(DocsIn(g), s)
             view == Along(DocsIn(heap), s)
  <1>1. ShowsList(g, n)
    BY DEF ShowsList
  <1>2. /\ Readers(g, Q) /\ n \in Nodes /\ Deref(g, g.string[n]) = NULL /\ g.type[n] = "Array"
        /\ g.valuestring[n] = NULL /\ g.next = heap.next /\ SameDocs(heap, g, Nodes \ {n})
        /\ Unlisted(g, n)
    BY <1>1, ReferenceReads
  <1>3. Readers(heap, owned) /\ heap \in Heap /\ g.child[n] = c
    <2>1. pc = "idle"
      BY DEF Hand
    <2>2. Readers(heap, owned) /\ heap \in Heap
      BY <2>1, Between
    <2> QED BY <1>2, <2>2 DEF NewReference, Heap
  <1>4. Label(g, n) = l
    BY <1>2, NoString DEF Label
  <1>5. Chain(g, c, s) /\ s \in Seq(Nodes)
    <2> HIDE DEF Q
    <2> QED BY <1>2, <1>3, KidList DEF Readers
  <1>6. Chain(heap, c, s)
    BY <1>2, <1>5 DEF Chain
  <1>7. view \in Documents!Views
    <2> HIDE DEF s
    <2> QED BY <1>3, <1>6, ListIsView
  <1>8. DocsIn(g)[n] = Join(l, docs)
    <2> HIDE DEF Q
    <2> QED BY <1>2, <1>4, HeapReads
  <1>9. \A i \in DOMAIN s : DocsIn(g)[s[i]] = DocsIn(heap)[s[i]]
    <2>1. \A i \in DOMAIN s : s[i] # n
      BY <1>2 DEF Unlisted
    <2> HIDE DEF s
    <2>2. \A i \in DOMAIN s : s[i] \in Nodes \ {n}
      BY <1>5, <2>1
    <2> QED BY <1>2, <2>2 DEF SameDocs
  <1>10. DOMAIN docs = DOMAIN view /\ \A i \in DOMAIN view : docs[i] = view[i]
    BY <1>9 DEF Along
  <1> HIDE DEF docs, view, l
  <1>11. Join(l, docs) = Join(l, view)
    BY <1>10, SameJoin
  <1>12. Documents!ArrayView(view) = Join(l, view)
    BY SameWords DEF Documents!ArrayView, l
  <1> QED BY <1>7, <1>8, <1>11, <1>12

\* Making a reference borrows from a document.
LEMMA ReferenceBorrows ==
  ASSUME DocInv, CreateReference
  PROVE  Documents!Next
  <1>1. PICK n \in Pick(FreeNodes) :
          Hand(heap', n) /\ (ShowsString(heap', n) \/ ShowsList(heap', n))
    BY CreateReferenceHands
  <1>2. /\ SameDocs(heap, heap', Nodes \ {n}) /\ heap'.refs = heap.refs \cup {n}
        /\ n \in Nodes \ Live(heap)
    BY <1>1, ReferenceReads
  <1>3. owned' = owned \cup {n} /\ owned \subseteq Live(heap) /\ Live(heap) \subseteq Nodes
    BY <1>1, Between DEF Hand
  <1>4. n \in Nodes \ owned /\ (n \in heap'.refs) = TRUE
    BY <1>2, <1>3
  <1>5. Quiet(heap, heap', owned)
    <2>1. \A x \in owned : x \in Nodes \ {n}
      BY <1>2, <1>3
    <2> QED BY <1>2, <2>1 DEF Quiet, SameDocs
  <1>6. CASE ShowsString(heap', n)
    <2> DEFINE D == {Documents!StringView(s) : s \in Texts}
    <2>1. DocsIn(heap')[n] \in D
      <3>1. PICK s \in Texts : heap' = [NewReference(heap, n, "String") EXCEPT !.valuestring[n] = s]
        BY <1>6 DEF ShowsString
      <3>2. DocsIn(heap')[n] = Documents!StringView(s)
        BY <1>1, <3>1, StringShown
      <3> QED BY <3>2
    <2>2. Getting(Now(heap, owned), Now(heap', owned'), n, D, TRUE)
      <3> HIDE DEF D
      <3> QED BY <1>3, <1>4, <1>5, <2>1, GettingIf
    <2>3. Documents!Borrow(n)
      BY <2>2 DEF Documents!Borrow, Documents!Take, Documents!Holds, Documents!Held, Getting, Keeping, Now
    <2> QED BY <1>4, <2>3, HeldIsOwned DEF Documents!Next
  <1>7. CASE ShowsList(heap', n)
    <2> DEFINE D == {Documents!ArrayView(view) : view \in Documents!Views}
    <2>1. DocsIn(heap')[n] \in D
      <3>1. PICK c \in Live(heap) : heap' = [NewReference(heap, n, "Array") EXCEPT !.child[n] = c]
        BY <1>7 DEF ShowsList
      <3>2. \E view \in Documents!Views : DocsIn(heap')[n] = Documents!ArrayView(view)
        BY <1>1, <3>1, ListShown
      <3> QED BY <3>2
    <2>2. Getting(Now(heap, owned), Now(heap', owned'), n, D, TRUE)
      <3> HIDE DEF D
      <3> QED BY <1>3, <1>4, <1>5, <2>1, GettingIf
    <2>3. Documents!Borrow(n)
      BY <2>2 DEF Documents!Borrow, Documents!Take, Documents!Holds, Documents!Held, Getting, Keeping, Now
    <2> QED BY <1>4, <2>3, HeldIsOwned DEF Documents!Next
  <1> QED BY <1>1, <1>6, <1>7

-----------------------------------------------------------------------------
(* The refinement *)

LEMMA InitHeld == Init => Documents!Init
  <1> SUFFICES ASSUME Init PROVE Documents!Init
    OBVIOUS
  <1>1. owned = {}
    BY DEF Init
  <1> QED BY <1>1 DEF Documents!Init

LEMMA StepHeld ==
  ASSUME DocInv, [Next]_vars
  PROVE  Documents!Next \/ Now(heap', owned') = Now(heap, owned)
  <1>1. CASE CallerStep
    BY <1>1, CallStutters, ReferenceBorrows, DeleteDrops DEF CallerStep
  <1>2. CASE LibraryStep
    BY <1>2, ReturnMaps, BuildingStutters
  <1>3. CASE UNCHANGED vars
    BY <1>3 DEF vars
  <1> QED BY <1>1, <1>2, <1>3 DEF Next

\* Whatever the caller parses, puts together, copies, borrows and deletes, and
\* whichever allocations fail on the way, a build hands over the whole document
\* that was asked for, kids in order under their keys, or nothing, a copy is that
\* of a part of what the caller held, and no document in its hands changes.
THEOREM BuildsHandOverDocuments == Spec => ImplementsDocuments
  <1>1. Init => DocInv /\ Documents!Init
    BY InitDoc, InitHeld
  <1>2. DocInv /\ [Next]_vars => DocInv' /\ (Documents!Next \/ Now(heap, owned)' = Now(heap, owned))
    <2> SUFFICES ASSUME DocInv, [Next]_vars
                 PROVE  DocInv' /\ (Documents!Next \/ Now(heap', owned') = Now(heap, owned))
      OBVIOUS
    <2> QED BY StepDoc, StepHeld
  <1>3. DocInv /\ [Next]_vars
          => DocInv' /\ [Documents!Next]_[x \in owned |-> [doc |-> DocsIn(heap)[x], lent |-> x \in heap.refs]]
    BY <1>2 DEF Now
  <1> QED BY <1>1, <1>3, PTL DEF Spec, ImplementsDocuments, Documents!Spec
=============================================================================
