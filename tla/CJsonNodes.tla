----------------------------- MODULE CJsonNodes -----------------------------
(***************************************************************************)
(* The cJSON tree as C sees it: node structs linked by raw pointers, and   *)
(* malloc'd string buffers.  A heap is a record with one function per      *)
(* struct field; this module holds the helpers of convert.rs and lib.rs    *)
(* that read a heap or return a changed one.  CJsonTree makes them the     *)
(* steps of the public API.                                                *)
(*                                                                         *)
(* A cell that malloc has not handed out has type NULL and all its fields  *)
(* NULL, so that alloc_node's memset costs nothing and what a stale        *)
(* pointer would read is never mistaken for a live node.                   *)
(***************************************************************************)
EXTENDS Naturals, FiniteSets, Sequences

CONSTANTS
  Nodes,   \* addresses malloc may return for a struct cJSON
  Bufs,    \* addresses malloc may return for a string
  Texts,   \* the strings; a member used as a pointer is a static string of
           \* the caller with that content
  Utf8,    \* the texts that CStr::to_str accepts
  Folded,  \* Folded[s]: s with its ASCII letters in lower case
  NULL

ASSUME FiniteNodes == IsFiniteSet(Nodes)

ASSUME HeapAssumption ==
  /\ Utf8 \subseteq Texts
  /\ Folded \in [Texts -> Texts]
  /\ NULL \notin Nodes \cup Bufs \cup Texts
  /\ Bufs \cap Texts = {}

-----------------------------------------------------------------------------
(* struct cJSON *)

\* The low byte of type_.  "Leaf" stands for null, true, false and number:
\* nodes that hold neither children nor a string.
Types == {"Leaf", "String", "Raw", "Array", "Object"}
Containers == {"Array", "Object"}
Strings == {"String", "Raw"}

ASSUME NullIsNoType == NULL \notin Types

\* type: the low byte, NULL for a free cell; refs, consts: the nodes whose
\* type_ has CJSON_IS_REFERENCE, CJSON_STRING_IS_CONST; text: the content of
\* a buffer, NULL for a free one.
Heap ==
  [type : [Nodes -> Types \cup {NULL}],
   refs : SUBSET Nodes,
   consts : SUBSET Nodes,
   next : [Nodes -> Nodes \cup {NULL}],
   prev : [Nodes -> Nodes \cup {NULL}],
   child : [Nodes -> Nodes \cup {NULL}],
   valuestring : [Nodes -> Bufs \cup Texts \cup {NULL}],
   string : [Nodes -> Bufs \cup Texts \cup {NULL}],
   text : [Bufs -> Texts \cup {NULL}]]

EmptyHeap ==
  [type |-> [n \in Nodes |-> NULL],
   refs |-> {},
   consts |-> {},
   next |-> [n \in Nodes |-> NULL],
   prev |-> [n \in Nodes |-> NULL],
   child |-> [n \in Nodes |-> NULL],
   valuestring |-> [n \in Nodes |-> NULL],
   string |-> [n \in Nodes |-> NULL],
   text |-> [b \in Bufs |-> NULL]]

Live(h) == {n \in Nodes : h.type[n] # NULL}
LiveBufs(h) == {b \in Bufs : h.text[b] # NULL}
Pointers(h) == Texts \cup LiveBufs(h)

\* The bytes behind a char pointer.
Deref(h, p) == IF p \in Bufs THEN h.text[p] ELSE p

-----------------------------------------------------------------------------
(* Walks *)

\* The nodes that all the sets share.
Meet(sets) == {y \in Nodes : \A S \in sets : y \in S}

\* x and what follows it in its list.
ListClosed(h, S) == \A m \in S : h.next[m] = NULL \/ h.next[m] \in S
Siblings(h, x) == Meet({S \in SUBSET Nodes : x \in S /\ ListClosed(h, S)})

\* What free_cjson(x) frees: it visits the children of a node unless it is a
\* reference, and the siblings of every node but x itself.
TreeClosed(h, x, S) ==
  \A m \in S :
    /\ m \in h.refs \/ h.child[m] = NULL \/ h.child[m] \in S
    /\ m = x \/ h.next[m] = NULL \/ h.next[m] \in S
Subtree(h, x) == Meet({S \in SUBSET Nodes : x \in S /\ TreeClosed(h, x, S)})

Kids(h, p) == IF h.child[p] = NULL THEN {} ELSE Siblings(h, h.child[p])

\* The walk of child_at_index and get_object_item_impl: the i-th kid, counted
\* from 0, or NULL past the end.
ChildAt(h, p, i) ==
  LET walk[k \in Nat] ==
        IF k = 0 THEN h.child[p]
        ELSE IF walk[k - 1] = NULL THEN NULL ELSE h.next[walk[k - 1]]
  IN walk[i]

\* The kids of p in the order of the walk.
KidSeq(h, p) ==
  LET from[n \in Nodes \cup {NULL}] == IF n = NULL THEN <<>> ELSE <<n>> \o from[h.next[n]]
  IN from[h.child[p]]

\* A member's key equals key: both must be UTF-8; cs says whether case counts.
KeyMatches(h, n, key, cs) ==
  /\ h.string[n] # NULL
  /\ {Deref(h, h.string[n]), key} \subseteq Utf8
  /\ IF cs THEN Deref(h, h.string[n]) = key ELSE Folded[Deref(h, h.string[n])] = Folded[key]

\* n is what get_object_item_impl returns: the first kid whose key matches.
IsObjectItem(h, o, key, cs, n) ==
  \E i \in 0 .. Cardinality(Nodes) :
    /\ ChildAt(h, o, i) = n
    /\ KeyMatches(h, n, key, cs)
    /\ \A j \in 0 .. i - 1 : ~KeyMatches(h, ChildAt(h, o, j), key, cs)

-----------------------------------------------------------------------------
(* Allocation *)

NewNode(h, n, t) == [h EXCEPT !.type[n] = t]
NewReference(h, n, t) == [h EXCEPT !.type[n] = t, !.refs = @ \cup {n}]

NewText(h, b, s) == [h EXCEPT !.text[b] = s]

Blank(f, S) == [x \in DOMAIN f |-> IF x \in S THEN NULL ELSE f[x]]

\* hook_free of a string pointer.
FreeText(h, p) == [h EXCEPT !.text = Blank(@, {p})]

\* A key is freed unless its node is flagged CJSON_STRING_IS_CONST.
FreeKey(h, n) == IF n \in h.consts THEN h ELSE FreeText(h, h.string[n])

\* (Mutant of OwnStrings: free_cjson frees the value of a reference too.)
OwnStringsOfReferences(h, S) ==
  {h.valuestring[n] : n \in S} \cup {h.string[n] : n \in S \ h.consts}

\* The strings that the nodes of S free: values of nodes that are not
\* references, keys that are not const.
OwnStrings(h, S) ==
  {h.valuestring[n] : n \in S \ h.refs} \cup {h.string[n] : n \in S \ h.consts}

\* (Mutant of FreeTree: the children are not walked.)
FreeNodeOnly(h, x) ==
  [type |-> Blank(h.type, {x}),
   refs |-> h.refs \ {x},
   consts |-> h.consts \ {x},
   next |-> Blank(h.next, {x}),
   prev |-> Blank(h.prev, {x}),
   child |-> Blank(h.child, {x}),
   valuestring |-> Blank(h.valuestring, {x}),
   string |-> Blank(h.string, {x}),
   text |-> Blank(h.text, OwnStrings(h, {x}))]

FreeTree(h, x) ==
  LET gone == Subtree(h, x)
  IN [type |-> Blank(h.type, gone),
      refs |-> h.refs \ gone,
      consts |-> h.consts \ gone,
      next |-> Blank(h.next, gone),
      prev |-> Blank(h.prev, gone),
      child |-> Blank(h.child, gone),
      valuestring |-> Blank(h.valuestring, gone),
      string |-> Blank(h.string, gone),
      text |-> Blank(h.text, OwnStrings(h, gone))]

\* What the caller owes before it frees x in h: that pulls nothing from under a
\* reference that stays.
MayFree(h, x) ==
  LET gone == Subtree(h, x)
  IN \A w \in h.refs \ gone :
       /\ h.child[w] \notin gone
       /\ h.valuestring[w] = NULL \/ h.valuestring[w] \notin OwnStrings(h, gone)

\* create_string_like.
StringItem(h, t, s, n, b) ==
  [NewNode(NewText(h, b, s), n, t) EXCEPT !.valuestring[n] = b]

-----------------------------------------------------------------------------
(* Linking *)

LastKid(h, x) == CHOOSE t \in Siblings(h, x) : h.next[t] = NULL

\* (Mutant of AttachChild: the new child becomes the head of the list.)
AttachAtHead(h, p, n) ==
  LET head == h.child[p]
  IN [h EXCEPT !.child[p] = n,
               !.next[n] = head,
               !.prev = [m \in Nodes |-> IF m = n THEN NULL ELSE IF m = head THEN n ELSE @[m]]]

AttachChild(h, p, n) ==
  IF h.child[p] = NULL
  THEN [h EXCEPT !.child[p] = n, !.prev[n] = NULL, !.next[n] = NULL]
  ELSE LET last == LastKid(h, h.child[p])
       IN [h EXCEPT !.next = [@ EXCEPT ![last] = n, ![n] = NULL], !.prev[n] = last]

\* (Mutant of AttachNamedChild: the old key is freed before the name is read.)
AttachNamedFreeFirst(h, p, name, n, b) ==
  LET freed == FreeKey(h, n)
      keyed == [NewText(freed, b, Deref(freed, name)) EXCEPT !.consts = @ \ {n}, !.string[n] = b]
  IN AttachChild(keyed, p, n)

\* attach_named_child: the key is copied to b before the old key is freed, so
\* name may be the item's own key.
AttachNamedChild(h, p, name, n, b) ==
  LET copied == NewText(h, b, Deref(h, name))
      keyed == [FreeKey(copied, n) EXCEPT !.consts = @ \ {n}, !.string[n] = b]
  IN AttachChild(keyed, p, n)

\* (Mutant of Detach: the item keeps its next pointer.)
DetachKeepingNext(h, p, n) ==
  LET before == h.prev[n]
      after == h.next[n]
  IN [h EXCEPT
        !.next = [m \in Nodes |-> IF m = before THEN after ELSE @[m]],
        !.prev = [m \in Nodes |-> IF m = n THEN NULL ELSE IF m = after THEN before ELSE @[m]],
        !.child = IF before = NULL THEN [@ EXCEPT ![p] = after] ELSE @]

Detach(h, p, n) ==
  LET before == h.prev[n]
      after == h.next[n]
  IN [h EXCEPT
        !.next = [m \in Nodes |-> IF m = n THEN NULL ELSE IF m = before THEN after ELSE @[m]],
        !.prev = [m \in Nodes |-> IF m = n THEN NULL ELSE IF m = after THEN before ELSE @[m]],
        !.child = IF before = NULL THEN [@ EXCEPT ![p] = after] ELSE @]

\* (Mutant of SpliceBefore: the old kid's prev is not updated.)
SpliceOneWay(h, p, at, n) ==
  LET before == h.prev[at]
  IN [h EXCEPT
        !.prev[n] = before,
        !.next = [m \in Nodes |-> IF m = n THEN at ELSE IF m = before THEN n ELSE @[m]],
        !.child = IF before = NULL THEN [@ EXCEPT ![p] = n] ELSE @]

\* (Mutant of SpliceBefore: the item lands behind the kid at the index.)
SpliceAfter(h, p, at, n) ==
  LET after == h.next[at]
  IN [h EXCEPT
        !.next = [@ EXCEPT ![at] = n, ![n] = after],
        !.prev = [m \in Nodes |-> IF m = n THEN at ELSE IF m = after THEN n ELSE @[m]]]

\* cJSON_InsertItemInArray's splice of n before the kid at.
SpliceBefore(h, p, at, n) ==
  LET before == h.prev[at]
  IN [h EXCEPT
        !.prev = [@ EXCEPT ![n] = before, ![at] = n],
        !.next = [m \in Nodes |-> IF m = n THEN at ELSE IF m = before THEN n ELSE @[m]],
        !.child = IF before = NULL THEN [@ EXCEPT ![p] = n] ELSE @]

\* replace_via_pointer up to the final free_cjson(n): r takes n's place, and
\* n's key if it has none of its own.  The key's const flag stays with n.
TakePlace(h, p, n, r) ==
  LET before == h.prev[n]
      after == h.next[n]
      movesKey == h.string[n] # NULL /\ h.string[r] = NULL
  IN [h EXCEPT
        !.prev = [m \in Nodes |-> IF m = n THEN NULL ELSE IF m = r THEN before ELSE IF m = after THEN r ELSE @[m]],
        !.next = [m \in Nodes |-> IF m = n THEN NULL ELSE IF m = r THEN after ELSE IF m = before THEN r ELSE @[m]],
        !.child = IF before = NULL THEN [@ EXCEPT ![p] = r] ELSE @,
        !.string = IF movesKey THEN [@ EXCEPT ![r] = h.string[n], ![n] = NULL] ELSE @]

\* wrap_as_reference: r shares item's value and children.
WrapAsReference(h, r, item) ==
  [NewReference(h, r, h.type[item]) EXCEPT
     !.valuestring[r] = h.valuestring[item],
     !.child[r] = h.child[item]]

\* duplicate(item, false): a copy of the node alone, without its flags.  A
\* string that is not UTF-8 is left out.  bv and bk hold the copied strings.
Copied(h, p) == p # NULL /\ Deref(h, p) \in Utf8
CopyNode(h, n, item, bv, bk) ==
  LET node == NewNode(h, n, h.type[item])
      valued == IF Copied(h, h.valuestring[item])
                THEN [NewText(node, bv, Deref(h, h.valuestring[item])) EXCEPT !.valuestring[n] = bv]
                ELSE node
  IN IF Copied(h, h.string[item])
     THEN [NewText(valued, bk, Deref(h, h.string[item])) EXCEPT !.string[n] = bk]
     ELSE valued

-----------------------------------------------------------------------------
(* What a heap h is when the nodes of R are all that its users hold *)

TypeOKIn(h, R) ==
  /\ h \in Heap
  /\ R \cup h.refs \cup h.consts \subseteq Live(h)
  /\ \A n \in Nodes \ Live(h) :
       /\ h.next[n] = NULL /\ h.prev[n] = NULL /\ h.child[n] = NULL
       /\ h.valuestring[n] = NULL /\ h.string[n] = NULL
  /\ \A n \in Nodes : h.child[n] # NULL => h.type[n] \in Containers
  /\ \A n \in Nodes : h.valuestring[n] # NULL => h.type[n] \in Strings

LinksLiveIn(h) ==
  \A n \in Live(h) : {h.next[n], h.prev[n], h.child[n]} \subseteq Live(h) \cup {NULL}
StringsLiveIn(h) ==
  \A n \in Live(h) : {h.valuestring[n], h.string[n]} \subseteq Pointers(h) \cup {NULL}

DoublyLinkedIn(h) ==
  \A m, n \in Live(h) : h.next[m] = n <=> h.prev[n] = m

Parents(h, n) == {p \in Live(h) \ h.refs : h.child[p] = n}
OneOwnerIn(h, R) ==
  \A n \in Live(h) :
    IF n \in R
    THEN Parents(h, n) = {} /\ h.prev[n] = NULL /\ h.next[n] = NULL
    ELSE IF h.prev[n] = NULL
    THEN \E p \in Live(h) : Parents(h, n) = {p}
    ELSE Parents(h, n) = {}

ValueOf(h, n) == IF n \in h.refs THEN NULL ELSE h.valuestring[n]
KeyOf(h, n) == IF n \in h.consts THEN NULL ELSE h.string[n]
StringsOwnedOnceIn(h) ==
  /\ \A n \in Live(h) : {ValueOf(h, n), KeyOf(h, n)} \subseteq LiveBufs(h) \cup {NULL}
  /\ \A b \in LiveBufs(h) :
       Cardinality({n \in Live(h) : ValueOf(h, n) = b})
         + Cardinality({n \in Live(h) : KeyOf(h, n) = b}) = 1
=============================================================================
