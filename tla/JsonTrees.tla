----------------------------- MODULE JsonTrees -----------------------------
(***************************************************************************)
(* Documents as trees.  A document is the set of its entries: the position *)
(* of each value in it, with the label of that value.  The position of the *)
(* document itself is <<>>, and what is at q in its i-th kid is at         *)
(* <<i>> \o q.  No definition here recurs over the depth of a document     *)
(* but Grow, which is a function of the nodes.                             *)
(***************************************************************************)
EXTENDS Sequences, Naturals

\* The document with this label and these documents as its kids.
Join(label, docs) ==
  {<<<<>>, label>>}
    \cup UNION {{<<<<i>> \o e[1], e[2]>> : e \in docs[i]} : i \in DOMAIN docs}

\* What stands at p in d, and all that is in d.
Below(d, p) == {e \in d : Len(p) <= Len(e[1]) /\ SubSeq(e[1], 1, Len(p)) = p}
Part(d, p) == {<<SubSeq(e[1], Len(p) + 1, Len(e[1])), e[2]>> : e \in Below(d, p)}
Parts(d) == {Part(d, e[1]) : e \in d}

Members(d) == [i \in {Head(e[1]) : e \in {f \in d : f[1] # <<>>}} |-> Part(d, <<i>>)]

\* The documents of nodes with these labels and these sequences of kids.
Along(f, s) == [i \in DOMAIN s |-> f[s[i]]]
Grow(label, kids) ==
  LET doc[n \in DOMAIN kids] == Join(label[n], Along(doc, kids[n]))
  IN doc

\* No node is among its own descendants: of any nodes one has no kid among them.
Grounded(kids) ==
  \A S \in SUBSET DOMAIN kids :
    S # {} => \E n \in S : \A i \in DOMAIN kids[n] : kids[n][i] \notin S
=============================================================================
