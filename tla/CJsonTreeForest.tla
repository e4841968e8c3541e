--------------------------- MODULE CJsonTreeForest ---------------------------
(***************************************************************************)
(* The pointer structure of CJsonTree implements JsonForest: the sequence  *)
(* of a container is what a walk along child and next meets, the texts are *)
(* what the char pointers read, and the roots are the nodes the caller has *)
(* to delete.  A reference owns no kids: its list is another node's.       *)
(***************************************************************************)
EXTENDS CJsonTree

\* The sequences, the member names and the values of a heap.
Lists(h) == [n \in Nodes |-> IF n \in h.refs THEN <<>> ELSE KidSeq(h, n)]
Keys(h) == [n \in Nodes |-> Deref(h, h.string[n])]
Vals(h) == [n \in Nodes |-> Deref(h, h.valuestring[n])]

Forest == INSTANCE JsonForest WITH
  Items <- Nodes,
  Kinds <- Types,
  roots <- owned,
  kind <- heap.type,
  kids <- Lists(heap),
  key <- Keys(heap),
  val <- Vals(heap)

\* Every call does to the pointers what it promises to do to the sequences and
\* texts: no other list changes, siblings keep their order, the kid added,
\* inserted, detached or replaced is at its place, a deleted tree goes whole
\* and alone, a key or value is copied before its old buffer is freed.
ImplementsForest == Forest!Spec

\* cJSON_InsertItemInArray puts the item at the index it was given, or at the
\* end, as a walk from the head counts.
InsertLandsAtIndex ==
  [][\A r \in owned \ owned' : \A p \in Places(r), which \in Indices :
       LET at == ChildAt(heap, p, which)
       IN IF at = NULL
          THEN InsertItemPastEnd(p, which, r)
               => ChildAt(heap', p, Cardinality(Kids(heap, p))) = r
          ELSE InsertItemInArray(p, which, r, at) => ChildAt(heap', p, which) = r]_vars
=============================================================================
