------------------------- MODULE CJsonBuildDocuments -------------------------
(***************************************************************************)
(* CJsonBuild implements JsonDocuments: what the caller holds is what a    *)
(* reader of its trees finds, along child and next and behind the char     *)
(* pointers.                                                               *)
(***************************************************************************)
EXTENDS CJsonBuild, JsonTrees

\* What a reader finds in a node, and in the nodes below it.
Label(h, n) ==
  [key |-> Deref(h, h.string[n]), kind |-> h.type[n], text |-> Deref(h, h.valuestring[n])]
KidsIn(h) == [n \in Nodes |-> KidSeq(h, n)]
DocsIn(h) == Grow([n \in Nodes |-> Label(h, n)], KidsIn(h))

\* The documents that the values stand for.
KidsOf == [d \in Values |-> d.kids]
DocsOf == Grow([d \in Values |-> [key |-> d.key, kind |-> d.kind, text |-> d.text]], KidsOf)

Documents == INSTANCE JsonDocuments WITH
  Handles <- Nodes,
  Inputs <- {DocsOf[d] : d \in Docs \cup Arrays},
  held <- [x \in owned |-> [doc |-> DocsIn(heap)[x], lent |-> x \in heap.refs]]

\* A Value owns the values inside it, and so is in none of them.
ASSUME ValuesGrounded == Grounded(KidsOf)

\* What the parser returns is in Rust's Strings, which are UTF-8.
ASSUME ParsedAssumption == \A d \in Docs : Documents!Plain(DocsOf[d]) = DocsOf[d]

\* A build gives the caller the whole document, kids in order under their keys,
\* or nothing at all, and no tree that it holds changes, whichever allocations
\* fail.
ImplementsDocuments == Documents!Spec
=============================================================================
