----------------------------- MODULE CJsonBuild -----------------------------
(***************************************************************************)
(* The calls that build a whole tree: value_to_cjson, which turns what the *)
(* parser returns into nodes, cJSON_Duplicate(item, 1), and the array      *)
(* constructors.  One step per allocation, and malloc may fail at each; a  *)
(* stack of frames stands for the recursion.                               *)
(*                                                                         *)
(* The node of a frame is on no list until the frame below links it, so    *)
(* what a failure has to free is spread over the frames.                   *)
(***************************************************************************)
EXTENDS CJsonNodes

CONSTANTS
  Values,    \* the values, and the values inside them: [key, kind, text, kids],
             \* where text is that of a string and kids the sequence of elements
             \* or members
  Docs,      \* those that the parser returns
  Arrays,    \* those that the array constructors are asked for
  Pick(_),   \* the free addresses of a set that malloc may return
  MaxTrees,  \* bounds: the trees, and the references, that the caller holds
  MaxViews

ASSUME PickAssumption == \A S \in (SUBSET Nodes) \cup (SUBSET Bufs) : Pick(S) \subseteq S

\* Only strings have a text, and only arrays and objects kids.
ASSUME ValuesAssumption ==
  /\ NULL \notin Values
  /\ \A d \in Values :
       /\ d.key \in Texts \cup {NULL}
       /\ d.kind \in Types
       /\ d.text \in Texts \cup {NULL}
       /\ d.text # NULL => d.kind \in Strings
       /\ d.kids \in Seq(Values)
       /\ d.kids # <<>> => d.kind \in Containers
\* The array constructors make arrays of numbers or of strings.
ASSUME DocsAssumption ==
  /\ Docs \cup Arrays \subseteq Values
  /\ \A d \in Docs \cup Arrays : d.key = NULL
  /\ \A d \in Arrays :
       /\ d.kind = "Array"
       /\ \A i \in DOMAIN d.kids : d.kids[i].key = NULL /\ d.kids[i].kids = <<>>

VARIABLES
  heap,
  owned,   \* the trees the caller holds
  stack,   \* the calls of the recursion, the innermost first
  pc

vars == <<heap, owned, stack, pc>>

FreeNodes == Nodes \ Live(heap)
FreeBufs == Bufs \ LiveBufs(heap)

\* Where alloc_cstr puts a copy of s, if there is one to make.
Room(s) == IF s = NULL THEN {NULL} ELSE Pick(FreeBufs)

-----------------------------------------------------------------------------
(* Frames *)

\* how: the function; source: a document, or the item to duplicate; node: what
\* has been built; at: the next kid, by its number or as a pointer; prev: the
\* last kid that append_children linked.
Frame(how, source) ==
  [how |-> how, source |-> source, node |-> NULL, prev |-> NULL,
   at |-> IF how = "copy" THEN heap.child[source] ELSE 1]

Top == Head(stack)
Caller == Head(Tail(stack))

Kind(f) == IF f.how = "copy" THEN heap.type[f.source] ELSE f.source.kind

\* (Mutant of Readable: the copied string need not be UTF-8.)
ReadableUnchecked(p) == IF p = NULL THEN NULL ELSE Deref(heap, p)

\* What duplicate reads of a string: NULL if it is not UTF-8.
Readable(p) == IF Copied(heap, p) THEN Deref(heap, p) ELSE NULL

TextOf(f) == IF f.how = "copy" THEN Readable(heap.valuestring[f.source]) ELSE f.source.text

\* duplicate copies the key into its own node; value_to_cjson leaves it to
\* append_children.
KeyFirst(f) == IF f.how = "copy" THEN Readable(heap.string[f.source]) ELSE NULL

NextKid(f) ==
  IF f.how = "copy" THEN f.at
  ELSE IF f.at <= Len(f.source.kids) THEN f.source.kids[f.at] ELSE NULL

\* s is copied to b for the value, or for the key, of n.
PutText(h, n, s, b) ==
  IF s = NULL THEN h ELSE [NewText(h, b, s) EXCEPT !.valuestring[n] = b]
PutKey(h, n, s, b) ==
  IF s = NULL THEN h ELSE [NewText(h, b, s) EXCEPT !.string[n] = b]

-----------------------------------------------------------------------------
(* The caller *)

Init == heap = EmptyHeap /\ owned = {} /\ stack = <<>> /\ pc = "idle"

Call(how, source) ==
  /\ pc = "idle"
  /\ Cardinality(owned \ heap.refs) < MaxTrees
  /\ stack' = <<Frame(how, source)>>
  /\ pc' = "alloc"
  /\ UNCHANGED <<heap, owned>>

\* cJSON_Parse and the like, once the text is parsed.
Parse == \E d \in Docs : Call("value", d)

\* cJSON_CreateIntArray, FloatArray, DoubleArray, StringArray.
CreateArray == \E a \in Arrays : Call("array", a)

\* cJSON_Duplicate(item, 1).
Duplicate == \E item \in Live(heap) : Call("copy", item)

Hand(h, n) ==
  /\ pc = "idle"
  /\ Cardinality(heap.refs) < MaxViews
  /\ heap' = h
  /\ owned' = owned \cup {n}
  /\ UNCHANGED <<stack, pc>>

\* cJSON_CreateStringReference, and cJSON_CreateArrayReference of any node.
CreateReference ==
  \E n \in Pick(FreeNodes) :
    \/ \E s \in Texts : Hand([NewReference(heap, n, "String") EXCEPT !.valuestring[n] = s], n)
    \/ \E c \in Live(heap) : Hand([NewReference(heap, n, "Array") EXCEPT !.child[n] = c], n)

Delete(x) ==
  /\ pc = "idle"
  /\ MayFree(heap, x)
  /\ heap' = FreeTree(heap, x)
  /\ owned' = owned \ {x}
  /\ UNCHANGED <<stack, pc>>

-----------------------------------------------------------------------------
(* Building *)

Goto(label) == pc' = label /\ UNCHANGED owned

SetTop(f) == stack' = <<f>> \o Tail(stack)
Fail == SetTop([Top EXCEPT !.node = NULL]) /\ Goto("return")

\* The frame below goes on as f.
PopTo(f) == stack' = <<f>> \o Tail(Tail(stack))

\* (Mutant of AllocNode: duplicate copies the struct with its child pointer.)
AllocNodeByMemcpy ==
  /\ pc = "alloc"
  /\ \E n \in Pick(FreeNodes) :
       /\ heap' = IF Top.how = "copy"
                  THEN [NewNode(heap, n, Kind(Top)) EXCEPT !.child[n] = heap.child[Top.source]]
                  ELSE NewNode(heap, n, Kind(Top))
       /\ SetTop([Top EXCEPT !.node = n])
  /\ Goto("text")

AllocNode ==
  /\ pc = "alloc"
  /\ \E n \in Pick(FreeNodes) :
       /\ heap' = NewNode(heap, n, Kind(Top))
       /\ SetTop([Top EXCEPT !.node = n])
  /\ Goto("text")

AllocNodeFails ==
  /\ pc = "alloc"
  /\ Fail
  /\ UNCHANGED heap

\* (Mutant of CopyText: the copy shares the value of its item.)
CopyTextSharing ==
  /\ pc = "text"
  /\ heap' = IF Top.how = "copy"
             THEN [heap EXCEPT !.valuestring[Top.node] = heap.valuestring[Top.source]]
             ELSE heap
  /\ Goto("key")
  /\ UNCHANGED stack

CopyText ==
  /\ pc = "text"
  /\ \E b \in Room(TextOf(Top)) : heap' = PutText(heap, Top.node, TextOf(Top), b)
  /\ Goto("key")
  /\ UNCHANGED stack

\* (Mutant of CopyKey: the copy shares the key of its item.)
CopyKeySharing ==
  /\ pc = "key"
  /\ heap' = IF Top.how = "copy"
             THEN [heap EXCEPT !.string[Top.node] = heap.string[Top.source]]
             ELSE heap
  /\ Goto("kids")
  /\ UNCHANGED stack

CopyKey ==
  /\ pc = "key"
  /\ \E b \in Room(KeyFirst(Top)) : heap' = PutKey(heap, Top.node, KeyFirst(Top), b)
  /\ Goto("kids")
  /\ UNCHANGED stack

CopyFails ==
  /\ \/ pc = "text" /\ TextOf(Top) # NULL
     \/ pc = "key" /\ KeyFirst(Top) # NULL
  /\ heap' = FreeTree(heap, Top.node)
  /\ Fail

Descend ==
  /\ pc = "kids"
  /\ Top.how # "array"
  /\ NextKid(Top) # NULL
  /\ stack' = <<Frame(Top.how, NextKid(Top))>> \o stack
  /\ Goto("alloc")
  /\ UNCHANGED heap

NoMoreKids ==
  /\ pc = "kids"
  /\ NextKid(Top) = NULL
  /\ Goto("return")
  /\ UNCHANGED <<heap, stack>>

-----------------------------------------------------------------------------
(* The kids of an array constructor *)

Element == NextKid(Top)

\* new_node or create_string_like, then attach_child.
AppendElement ==
  /\ pc = "kids"
  /\ Top.how = "array"
  /\ Element # NULL
  /\ Element.text \in Utf8 \cup {NULL}
  /\ \E n \in Pick(FreeNodes), b \in Room(Element.text) :
       heap' = AttachChild(PutText(NewNode(heap, n, Element.kind), n, Element.text, b), Top.node, n)
  /\ SetTop([Top EXCEPT !.at = @ + 1])
  /\ Goto("kids")

\* An allocation fails, or the string is not UTF-8.
AppendFails ==
  /\ pc = "kids"
  /\ Top.how = "array"
  /\ Element # NULL
  /\ heap' = FreeTree(heap, Top.node)
  /\ Fail

-----------------------------------------------------------------------------
(* Back in the frame below, with its kid in Top.node *)

Returning(how) == pc = "return" /\ Tail(stack) # <<>> /\ Top.node # NULL /\ Top.how = how

\* (Mutant of LinkMember: the kid does not learn its left neighbour.)
LinkForward ==
  /\ Returning("value")
  /\ \E b \in Room(Top.source.key) :
     LET kid == Top.node
         last == Caller.prev
         keyed == PutKey(heap, kid, Top.source.key, b)
     IN /\ heap' = IF last = NULL
                   THEN [keyed EXCEPT !.child[Caller.node] = kid]
                   ELSE [keyed EXCEPT !.next[last] = kid]
        /\ PopTo([Caller EXCEPT !.at = @ + 1, !.prev = kid])
  /\ Goto("kids")

\* (Mutant of LinkMember: the kid is not remembered as the last.)
LinkForgettingLast ==
  /\ Returning("value")
  /\ \E b \in Room(Top.source.key) :
       /\ heap' = [PutKey(heap, Top.node, Top.source.key, b) EXCEPT !.child[Caller.node] = Top.node]
       /\ PopTo([Caller EXCEPT !.at = @ + 1])
  /\ Goto("kids")

\* (Mutant of LinkMember: the kid is put in front.)
LinkInFront ==
  /\ Returning("value")
  /\ LET head == heap.child[Caller.node]
         kid == Top.node
         pushed == [heap EXCEPT !.child[Caller.node] = kid,
                                !.next[kid] = head,
                                !.prev = [n \in Nodes |-> IF n = head THEN kid ELSE @[n]]]
     IN \E b \in Room(Top.source.key) :
          /\ heap' = PutKey(pushed, kid, Top.source.key, b)
          /\ PopTo([Caller EXCEPT !.at = @ + 1])
  /\ Goto("kids")

\* The rest of append_children's round.
LinkMember ==
  /\ Returning("value")
  /\ \E b \in Room(Top.source.key) :
     LET kid == Top.node
         last == Caller.prev
         keyed == PutKey([heap EXCEPT !.prev[kid] = last], kid, Top.source.key, b)
     IN /\ heap' = IF last = NULL
                   THEN [keyed EXCEPT !.child[Caller.node] = kid]
                   ELSE [keyed EXCEPT !.next[last] = kid]
        /\ PopTo([Caller EXCEPT !.at = @ + 1, !.prev = kid])
  /\ Goto("kids")

\* (Mutant of MemberKeyFails: the kid's node is freed without its value.)
MemberKeyFailsFreeingNode ==
  /\ Returning("value")
  /\ Top.source.key # NULL
  /\ heap' = FreeTree([heap EXCEPT !.type[Top.node] = NULL, !.valuestring[Top.node] = NULL], Caller.node)
  /\ PopTo([Caller EXCEPT !.node = NULL])
  /\ Goto("return")

\* append_children frees the kid, value_to_cjson what it hangs in so far.
MemberKeyFails ==
  /\ Returning("value")
  /\ Top.source.key # NULL
  /\ heap' = FreeTree(FreeTree(heap, Top.node), Caller.node)
  /\ PopTo([Caller EXCEPT !.node = NULL])
  /\ Goto("return")

AttachCopy ==
  /\ Returning("copy")
  /\ heap' = AttachChild(heap, Caller.node, Top.node)
  /\ PopTo([Caller EXCEPT !.at = heap.next[@]])
  /\ Goto("kids")

\* (Mutant of PassFailure: the freed node is returned.)
PassFailureWithNode ==
  /\ pc = "return"
  /\ Tail(stack) # <<>>
  /\ Top.node = NULL
  /\ heap' = FreeTree(heap, Caller.node)
  /\ PopTo(Caller)
  /\ Goto("return")

\* (Mutant of PassFailure: the kids built so far are not freed.)
PassFailureFreeingNode ==
  /\ pc = "return"
  /\ Tail(stack) # <<>>
  /\ Top.node = NULL
  /\ heap' = FreeNodeOnly(heap, Caller.node)
  /\ PopTo([Caller EXCEPT !.node = NULL])
  /\ Goto("return")

\* (Mutant of PassFailure: the kid is tried again.)
PassFailureRetrying ==
  /\ pc = "return"
  /\ Tail(stack) # <<>>
  /\ Top.node = NULL
  /\ PopTo(Caller)
  /\ Goto("kids")
  /\ UNCHANGED heap

\* The kid could not be built: neither can this.
PassFailure ==
  /\ pc = "return"
  /\ Tail(stack) # <<>>
  /\ Top.node = NULL
  /\ heap' = FreeTree(heap, Caller.node)
  /\ PopTo([Caller EXCEPT !.node = NULL])
  /\ Goto("return")

ReturnToCaller ==
  /\ pc = "return"
  /\ Tail(stack) = <<>>
  /\ owned' = owned \cup ({Top.node} \ {NULL})
  /\ stack' = <<>>
  /\ pc' = "idle"
  /\ UNCHANGED heap

-----------------------------------------------------------------------------
CallerStep ==
  \/ Parse \/ CreateArray \/ Duplicate \/ CreateReference
  \/ \E x \in owned : Delete(x)

LibraryStep ==
  /\ pc # "idle"
  /\ \/ AllocNode \/ AllocNodeFails \/ CopyText \/ CopyKey \/ CopyFails
     \/ Descend \/ NoMoreKids \/ AppendElement \/ AppendFails
     \/ LinkMember \/ MemberKeyFails \/ AttachCopy \/ PassFailure
     \/ ReturnToCaller

Next == CallerStep \/ LibraryStep

\* A call that has been made runs to its end; the caller owes nothing.
Spec == Init /\ [][Next]_vars /\ WF_vars(LibraryStep)
-----------------------------------------------------------------------------
(* Properties *)

Building == {stack[i].node : i \in DOMAIN stack} \ {NULL}

\* Who frees what: the caller its trees, each frame the node it has in hand.
Roots == owned \cup Building

\* The heap is well formed at every step of a build, and every frame below the
\* innermost has a node.
TypeOK ==
  /\ TypeOKIn(heap, Roots)
  /\ pc \in {"idle", "alloc", "text", "key", "kids", "return"}
  /\ pc = "idle" <=> stack = <<>>
  /\ \A i \in DOMAIN stack :
       /\ stack[i].how \in {"value", "copy", "array"}
       /\ stack[i].node \in Nodes \cup {NULL}
       /\ stack[i].node = NULL => i = 1 /\ pc \in {"alloc", "return"}

\* No failure leaves a pointer to something that it freed: the partial tree,
\* the caller's other trees and the references into them stay readable.
NoDangling == LinksLiveIn(heap) /\ StringsLiveIn(heap)

\* The lists of a partial tree are as sound as those of a finished one, since
\* free_cjson may have to walk them at any step.
DoublyLinked == DoublyLinkedIn(heap)

\* Nothing that one frame would free is freed by another, nor by the caller: a
\* kid that is not linked yet is its own frame's, one that is linked its
\* parent's, and a copy shares no node with its item.
OneOwner == OneOwnerIn(heap, Roots)

\* Keys and values are copies held once, from their allocation on.
StringsOwnedOnce == StringsOwnedOnceIn(heap)

\* "Returns null on allocation failure": then nothing of the build is left.  At
\* each step the trees of the caller and of the frames are all that there is.
NoLeak == Live(heap) \subseteq UNION {Subtree(heap, x) : x \in Roots}

\* A call that builds ends, however deep and wherever malloc fails.
BuildEnds == pc # "idle" ~> pc = "idle"
=============================================================================
