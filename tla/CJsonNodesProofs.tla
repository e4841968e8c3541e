-------------------------- MODULE CJsonNodesProofs --------------------------
(***************************************************************************)
(* What the helpers of CJsonNodes keep, for any number of nodes, buffers   *)
(* and texts: a heap whose lists are doubly linked, whose links lead to    *)
(* live nodes and whose nodes have one owner each, Sound(h, R), is changed *)
(* into another such heap, with the roots that the helper should leave.    *)
(* Besides: no node is out of reach of the roots, and trees whose links do *)
(* not meet can be changed one without the other.                          *)
(*                                                                         *)
(* Then who owns the string buffers: what each helper does to them, and    *)
(* what is left when it is done, each buffer held once and no pointer into *)
(* a freed one, Strung(h, L).  Between two helpers of one call a buffer    *)
(* may have no holder yet: L is the set of those.                          *)
(*                                                                         *)
(* The last part is about lists as sequences: KidSeq is a recursive        *)
(* function, and that it walks a list to its end is proved from the least  *)
(* number that is a counterexample.                                        *)
(***************************************************************************)
EXTENDS CJsonNodes, FiniteSetTheorems, SequenceTheorems, WellFoundedInduction, TLAPS

-----------------------------------------------------------------------------
(* A sound heap h whose roots are R *)

\* The owners of OneOwnerIn one at a time: a root is alone; a child pointer of
\* a node that owns its children leads to the head of a list, and no two of
\* them to the same; a head that is no root has such a pointer to it.
OwnersIn(h, R) ==
  /\ \A n \in R : h.prev[n] = NULL /\ h.next[n] = NULL
  /\ \A p \in Live(h) \ h.refs : h.child[p] # NULL => h.child[p] \notin R
  /\ \A p \in Live(h) \ h.refs : h.child[p] # NULL => h.prev[h.child[p]] = NULL
  /\ \A p, q \in Live(h) \ h.refs : h.child[p] = h.child[q] /\ h.child[p] # NULL => p = q
  /\ \A n \in Live(h) \ R : h.prev[n] = NULL => \E p \in Live(h) \ h.refs : h.child[p] = n

Links(h, R) == LinksLiveIn(h) /\ DoublyLinkedIn(h) /\ OwnersIn(h, R)

Sound(h, R) == TypeOKIn(h, R) /\ Links(h, R)

\* The owners one at a time are the owner of OneOwner.
LEMMA SoundHasOneOwner ==
  ASSUME NEW h, NEW R, Sound(h, R)
  PROVE  OneOwnerIn(h, R)
  <1> SUFFICES ASSUME NEW n \in Live(h)
               PROVE  IF n \in R
                      THEN Parents(h, n) = {} /\ h.prev[n] = NULL /\ h.next[n] = NULL
                      ELSE IF h.prev[n] = NULL
                      THEN \E p \in Live(h) : Parents(h, n) = {p}
                      ELSE Parents(h, n) = {}
    BY DEF OneOwnerIn
  <1>1. n # NULL
    BY HeapAssumption DEF Live
  <1>2. CASE n \in R
    BY <1>1, <1>2 DEF Sound, Links, OwnersIn, Parents
  <1>3. CASE n \notin R /\ h.prev[n] = NULL
    <2>1. PICK p \in Live(h) \ h.refs : h.child[p] = n
      BY <1>3 DEF Sound, Links, OwnersIn
    <2>2. Parents(h, n) = {p}
      BY <1>1, <2>1 DEF Sound, Links, OwnersIn, Parents
    <2> QED BY <1>3, <2>2
  <1>4. CASE n \notin R /\ h.prev[n] # NULL
    BY <1>1, <1>4 DEF Sound, Links, OwnersIn, Parents
  <1> QED BY <1>2, <1>3, <1>4

-----------------------------------------------------------------------------
(* Walks *)

\* A node is among its siblings.
LEMMA SiblingsHasHead ==
  ASSUME NEW h, NEW x \in Nodes
  PROVE  x \in Siblings(h, x) /\ Siblings(h, x) \subseteq Nodes
  BY DEF Siblings, Meet

\* The siblings of x are within every set of nodes that holds x and the
\* successors of its members.
LEMMA SiblingsLeast ==
  ASSUME NEW h, NEW x, NEW S, S \subseteq Nodes, x \in S, ListClosed(h, S)
  PROVE  Siblings(h, x) \subseteq S
  BY DEF Siblings, Meet

\* They contain the successors of their own members.
LEMMA SiblingsClosed ==
  ASSUME NEW h, NEW x, h \in Heap, NEW m \in Siblings(h, x), h.next[m] # NULL
  PROVE  h.next[m] \in Siblings(h, x)
  <1>1. m \in Nodes BY DEF Siblings, Meet
  <1>2. h.next[m] \in Nodes BY <1>1 DEF Heap
  <1>3. ASSUME NEW S \in {T \in SUBSET Nodes : x \in T /\ ListClosed(h, T)}
        PROVE  h.next[m] \in S
    BY <1>3 DEF Siblings, Meet, ListClosed
  <1> QED BY <1>2, <1>3 DEF Siblings, Meet

\* free_cjson(x) frees x, and only nodes.
LEMMA SubtreeHasRoot ==
  ASSUME NEW h, NEW x \in Nodes
  PROVE  x \in Subtree(h, x) /\ Subtree(h, x) \subseteq Nodes
  BY DEF Subtree, Meet

\* free_cjson(x) stays within every set of nodes that holds x and what it
\* reaches from the members.
LEMMA SubtreeLeast ==
  ASSUME NEW h, NEW x, NEW S, S \subseteq Nodes, x \in S, TreeClosed(h, x, S)
  PROVE  Subtree(h, x) \subseteq S
  BY DEF Subtree, Meet

\* It frees the children and the siblings of what it frees.
LEMMA SubtreeClosed ==
  ASSUME NEW h, NEW x, h \in Heap, NEW m \in Subtree(h, x)
  PROVE  /\ m \in h.refs \/ h.child[m] = NULL \/ h.child[m] \in Subtree(h, x)
         /\ m = x \/ h.next[m] = NULL \/ h.next[m] \in Subtree(h, x)
  <1>1. m \in Nodes BY DEF Subtree, Meet
  <1>2. ASSUME NEW S \in {T \in SUBSET Nodes : x \in T /\ TreeClosed(h, x, T)}
        PROVE  /\ m \in h.refs \/ h.child[m] = NULL \/ h.child[m] \in S
               /\ m = x \/ h.next[m] = NULL \/ h.next[m] \in S
    BY <1>2 DEF Subtree, Meet, TreeClosed
  <1>3. m \notin h.refs /\ h.child[m] # NULL => h.child[m] \in Subtree(h, x)
    BY <1>1, <1>2 DEF Subtree, Meet, Heap
  <1>4. m # x /\ h.next[m] # NULL => h.next[m] \in Subtree(h, x)
    BY <1>1, <1>2 DEF Subtree, Meet, Heap
  <1> QED BY <1>3, <1>4

\* free_cjson reaches every node but the one it starts at from another node it
\* frees: its left neighbour, or the node whose children it heads.
LEMMA SubtreeReachedFromWithin ==
  ASSUME NEW h, NEW x \in Nodes, h \in Heap, NEW y \in Subtree(h, x), y # x
  PROVE  \E m \in Subtree(h, x) :
           \/ m \notin h.refs /\ h.child[m] = y
           \/ m # x /\ h.next[m] = y
  <1> DEFINE S == Subtree(h, x) \ {y}
  <1> SUFFICES ASSUME \A m \in Subtree(h, x) :
                        /\ m \in h.refs \/ h.child[m] # y
                        /\ m = x \/ h.next[m] # y
               PROVE  FALSE
    OBVIOUS
  <1>1. S \subseteq Nodes /\ x \in S
    BY SubtreeHasRoot
  <1>2. TreeClosed(h, x, S)
    BY SubtreeClosed DEF TreeClosed
  <1>3. Subtree(h, x) \subseteq S
    BY <1>1, <1>2, SubtreeLeast
  <1> QED BY <1>3

\* A node without children of its own is freed alone.
LEMMA SubtreeOfLeaf ==
  ASSUME NEW h, NEW x \in Nodes, x \in h.refs \/ h.child[x] = NULL
  PROVE  Subtree(h, x) = {x}
  <1>1. TreeClosed(h, x, {x}) BY DEF TreeClosed
  <1> QED BY <1>1, SubtreeLeast, SubtreeHasRoot

\* The kids of a node that owns them are live, none is a root or its own
\* neighbour, and only the first has no left neighbour.
LEMMA KidsAreKids ==
  ASSUME NEW h, NEW R, Sound(h, R), NEW p \in Live(h) \ h.refs, NEW x \in Kids(h, p)
  PROVE  /\ x \in Live(h) \ R
         /\ h.prev[x] = NULL => h.child[p] = x
         /\ h.child[p] # NULL
         /\ h.next[x] # x
  <1> DEFINE S == {m \in Live(h) :
                    m \notin R /\ (h.prev[m] = NULL => h.child[p] = m) /\ h.next[m] # m}
  <1>1. h.child[p] # NULL /\ x \in Siblings(h, h.child[p])
    BY DEF Kids
  <1>2. h.child[p] \in S
    BY <1>1, HeapAssumption DEF Sound, Links, LinksLiveIn, DoublyLinkedIn, OwnersIn, Live
  <1>3. ListClosed(h, S)
    BY HeapAssumption DEF Sound, Links, LinksLiveIn, DoublyLinkedIn, OwnersIn, ListClosed, Live
  <1>4. Siblings(h, h.child[p]) \subseteq S
    BY <1>2, <1>3, SiblingsLeast DEF Live
  <1> QED BY <1>1, <1>4

\* The walk of attach_child ends, at a kid with no successor: otherwise next
\* would map the kids one to one into the kids that are not the head.
LEMMA TailIsLastKid ==
  ASSUME NEW h, NEW R, Sound(h, R), NEW p \in Live(h) \ h.refs, h.child[p] # NULL
  PROVE  LET t == LastKid(h, h.child[p]) IN t \in Kids(h, p) /\ h.next[t] = NULL
  <1> DEFINE K == Siblings(h, h.child[p])
  <1> SUFFICES ASSUME \A t \in K : h.next[t] # NULL
               PROVE  FALSE
    BY DEF LastKid, Kids
  <1>1. h \in Heap /\ h.child[p] \in Nodes /\ h.child[p] \in K /\ K \subseteq Live(h)
    <2>1. h \in Heap /\ h.child[p] \in Nodes
      BY DEF Sound, TypeOKIn, Heap, Live
    <2>2. K \subseteq Live(h)
      BY KidsAreKids DEF Kids
    <2> QED BY <2>1, <2>2, SiblingsHasHead
  <1>2. \A m \in K : h.next[m] \in K
    BY <1>1, SiblingsClosed
  <1>3. \A m, n \in K : h.next[m] = h.next[n] => m = n
    BY <1>1, <1>2 DEF Sound, Links, DoublyLinkedIn
  <1>4. \A m \in K : h.next[m] # h.child[p]
    BY <1>1, HeapAssumption DEF Sound, Links, DoublyLinkedIn, OwnersIn, Live
  <1> DEFINE f == [m \in K |-> h.next[m]]
  <1> HIDE DEF K
  <1>5. f \in Injection(K, K)
    BY <1>2, <1>3 DEF Injection, IsInjective
  <1>6. IsFiniteSet(K)
    BY <1>1, FiniteNodes, FS_Subset DEF Live
  <1>7. f \in Surjection(K, K)
    BY <1>5, <1>6, FS_Injection
  <1>8. PICK m \in K : f[m] = h.child[p]
    BY <1>1, <1>7 DEF Surjection
  <1> QED BY <1>4, <1>8

-----------------------------------------------------------------------------
(* What each helper of convert.rs keeps *)

\* A change of strings and their flags alone leaves the links as they were.
LEMMA StringsLeaveLinks ==
  ASSUME NEW h, NEW g, NEW R, Links(h, R),
         g.type = h.type, g.refs = h.refs,
         g.next = h.next, g.prev = h.prev, g.child = h.child
  PROVE  Links(g, R)
  BY DEF Links, LinksLiveIn, DoublyLinkedIn, OwnersIn, Live

\* g is h with a new root n that nothing points to and that owns no children.
Adds(h, g, n, R) ==
  /\ Sound(g, R \cup {n})
  /\ n \notin Live(h) /\ Live(g) = Live(h) \cup {n}
  /\ \A m \in Live(h) : g.type[m] = h.type[m]
  /\ g.refs \ {n} = h.refs
  /\ n \in g.refs \/ g.child[n] = NULL
  /\ \A m \in Nodes : g.child[m] # n
  /\ \A m \in Live(h) : g.next[m] = h.next[m]
  /\ \A m \in Live(h) \ h.refs : g.child[m] = h.child[m]

\* g is h with a blank node n of type t, flagged as a reference or not.
Allocates(h, g, n, t) == g = NewNode(h, n, t) \/ g = NewReference(h, n, t)

\* A fresh node is a root.
LEMMA NewNodeAdds ==
  ASSUME NEW h, NEW R, Sound(h, R), NEW n \in Nodes \ Live(h), NEW t \in Types,
         NEW g, Allocates(h, g, n, t)
  PROVE  Adds(h, g, n, R) /\ g.type[n] = t /\ g.child = h.child
  <1>1. /\ h \in Heap
        /\ g \in Heap
        /\ g.type = [h.type EXCEPT ![n] = t]
        /\ g.refs = h.refs \/ g.refs = h.refs \cup {n}
        /\ g.next = h.next /\ g.prev = h.prev /\ g.child = h.child /\ g.consts = h.consts
        /\ g.valuestring = h.valuestring /\ g.string = h.string
    <2>1. h \in Heap
      BY DEF Sound, TypeOKIn
    <2>2. CASE g = NewNode(h, n, t)
      BY <2>1, <2>2 DEF Heap, NewNode
    <2>3. CASE g = NewReference(h, n, t)
      BY <2>1, <2>3 DEF Heap, NewReference
    <2> QED BY <2>2, <2>3 DEF Allocates
  <1>2. /\ Live(g) = Live(h) \cup {n} /\ g.type[n] = t
        /\ \A m \in Live(h) : g.type[m] = h.type[m]
    BY <1>1, NullIsNoType DEF Heap, Live
  <1>3. /\ h.next[n] = NULL /\ h.prev[n] = NULL /\ h.child[n] = NULL
        /\ h.valuestring[n] = NULL /\ h.string[n] = NULL
    BY DEF Sound, TypeOKIn
  <1>4. TypeOKIn(g, R \cup {n})
    BY <1>1, <1>2, <1>3 DEF Sound, TypeOKIn, Heap
  <1>5. LinksLiveIn(g)
    BY <1>1, <1>2, <1>3 DEF Sound, Links, LinksLiveIn
  <1>6. DoublyLinkedIn(g)
    BY <1>1, <1>2, <1>3, HeapAssumption DEF Sound, Links, LinksLiveIn, DoublyLinkedIn, Live
  <1>7. OwnersIn(g, R \cup {n})
    BY <1>1, <1>2, <1>3, HeapAssumption DEF Sound, TypeOKIn, Links, LinksLiveIn, OwnersIn, Live
  <1>8. Sound(g, R \cup {n})
    BY <1>4, <1>5, <1>6, <1>7 DEF Sound, Links
  <1>9. \A m \in Nodes : h.child[m] # n
    BY HeapAssumption DEF Sound, TypeOKIn, Links, LinksLiveIn
  <1>10. h.refs \subseteq Live(h)
    BY DEF Sound, TypeOKIn
  <1> QED BY <1>1, <1>2, <1>3, <1>8, <1>9, <1>10 DEF Adds

\* g is as sound as h, and has the same nodes, of the same types and flags, in
\* the same lists; only references may have turned to other children.
Keeps(h, g, R) ==
  /\ Sound(g, R) /\ Live(g) = Live(h) /\ g.type = h.type /\ g.refs = h.refs
  /\ g.next = h.next
  /\ \A m \in Live(h) \ h.refs : g.child[m] = h.child[m]

\* Strings may change at will, as long as only strings have a value and only
\* live nodes a key or a flag.
LEMMA StringsSound ==
  ASSUME NEW h, NEW g, NEW R, Sound(h, R), g \in Heap,
         g.type = h.type, g.refs = h.refs,
         g.next = h.next, g.prev = h.prev, g.child = h.child,
         g.consts \subseteq Live(h),
         \A n \in Nodes : g.valuestring[n] # NULL => h.type[n] \in Strings,
         \A n \in Nodes \ Live(h) : g.string[n] = NULL
  PROVE  Keeps(h, g, R)
  <1>1. Live(g) = Live(h)
    BY DEF Live
  <1>2. Links(g, R)
    BY StringsLeaveLinks DEF Sound
  <1>3. TypeOKIn(g, R)
    BY <1>1, NullIsNoType DEF Sound, TypeOKIn, Live, Strings, Types
  <1> QED BY <1>1, <1>2, <1>3 DEF Sound, Keeps

\* Writing a string buffer leaves the nodes alone.
LEMMA NewTextSound ==
  ASSUME NEW h, NEW R, Sound(h, R), NEW b \in Bufs, NEW s \in Texts \cup {NULL}
  PROVE  Keeps(h, NewText(h, b, s), R) /\ NewText(h, b, s).child = h.child
  <1> DEFINE g == NewText(h, b, s)
  <1>1. h \in Heap BY DEF Sound, TypeOKIn
  <1>2. g \in Heap BY <1>1 DEF NewText, Heap
  <1>3. /\ g.type = h.type /\ g.refs = h.refs /\ g.consts = h.consts
        /\ g.next = h.next /\ g.prev = h.prev /\ g.child = h.child
        /\ g.valuestring = h.valuestring /\ g.string = h.string
    BY <1>1 DEF NewText, Heap
  <1> HIDE DEF g
  <1>4. Keeps(h, g, R)
    BY <1>2, <1>3, StringsSound DEF Sound, TypeOKIn
  <1> QED BY <1>3, <1>4 DEF g

\* Freeing a string leaves the nodes alone.
LEMMA FreeTextSound ==
  ASSUME NEW h, NEW R, Sound(h, R), NEW p
  PROVE  Keeps(h, FreeText(h, p), R)
  <1> DEFINE g == FreeText(h, p)
  <1>1. h \in Heap BY DEF Sound, TypeOKIn
  <1>2. g \in Heap BY <1>1 DEF FreeText, Blank, Heap
  <1>3. /\ g.type = h.type /\ g.refs = h.refs /\ g.consts = h.consts
        /\ g.next = h.next /\ g.prev = h.prev /\ g.child = h.child
        /\ g.valuestring = h.valuestring /\ g.string = h.string
    BY <1>1 DEF FreeText, Heap
  <1> HIDE DEF g
  <1>4. Keeps(h, g, R)
    BY <1>2, <1>3, StringsSound DEF Sound, TypeOKIn
  <1> QED BY <1>4 DEF g

\* A live node takes a key, flagged const or not.
LEMMA SetKeySound ==
  ASSUME NEW h, NEW R, Sound(h, R), NEW n \in Live(h), NEW C \in SUBSET Live(h),
         NEW k \in Bufs \cup Texts \cup {NULL}
  PROVE  Keeps(h, [h EXCEPT !.consts = C, !.string[n] = k], R)
  <1> DEFINE g == [h EXCEPT !.consts = C, !.string[n] = k]
  <1>1. h \in Heap /\ n \in Nodes /\ C \in SUBSET Nodes
    BY DEF Sound, TypeOKIn, Live
  <1>2. g \in Heap
    BY <1>1 DEF Heap
  <1>3. /\ g.type = h.type /\ g.refs = h.refs /\ g.consts = C
        /\ g.next = h.next /\ g.prev = h.prev /\ g.child = h.child
        /\ g.valuestring = h.valuestring /\ g.string = [h.string EXCEPT ![n] = k]
    BY <1>1 DEF Heap
  <1> HIDE DEF g
  <1>4. /\ \A m \in Nodes : g.valuestring[m] # NULL => h.type[m] \in Strings
        /\ \A m \in Nodes \ Live(h) : g.string[m] = NULL
    BY <1>1, <1>3 DEF Sound, TypeOKIn, Heap
  <1>5. Keeps(h, g, R)
    BY <1>2, <1>3, <1>4, StringsSound
  <1> QED BY <1>3, <1>5 DEF g

\* A key is dropped and another put in its place.
LEMMA RekeySound ==
  ASSUME NEW h, NEW R, Sound(h, R), NEW n \in Live(h), NEW C \in SUBSET Live(h),
         NEW k \in Bufs \cup Texts \cup {NULL}
  PROVE  Keeps(h, [FreeKey(h, n) EXCEPT !.consts = C, !.string[n] = k], R)
  <1> DEFINE f == FreeKey(h, n)
  <1>1. Keeps(h, f, R)
    BY FreeTextSound DEF FreeKey, Keeps
  <1> HIDE DEF f
  <1> DEFINE g == [f EXCEPT !.consts = C, !.string[n] = k]
  <1>0. Sound(f, R) /\ n \in Live(f) /\ C \in SUBSET Live(f)
    BY <1>1 DEF Keeps
  <1>2. Keeps(f, g, R)
    BY <1>0, SetKeySound, Zenon
  <1> HIDE DEF g
  <1>3. Keeps(h, g, R)
    BY <1>1, <1>2 DEF Keeps
  <1> QED BY <1>3 DEF f, g

\* A string or raw node takes a value.
LEMMA SetValueSound ==
  ASSUME NEW h, NEW R, Sound(h, R), NEW n \in Live(h), NEW v \in Bufs \cup Texts \cup {NULL},
         v # NULL => h.type[n] \in Strings
  PROVE  /\ Keeps(h, [h EXCEPT !.valuestring[n] = v], R)
         /\ [h EXCEPT !.valuestring[n] = v].child = h.child
  <1> DEFINE g == [h EXCEPT !.valuestring[n] = v]
  <1>1. h \in Heap /\ n \in Nodes BY DEF Sound, TypeOKIn, Live
  <1>2. g \in Heap BY <1>1 DEF Heap
  <1>3. /\ g.type = h.type /\ g.refs = h.refs /\ g.consts = h.consts
        /\ g.next = h.next /\ g.prev = h.prev /\ g.child = h.child
        /\ g.valuestring = [h.valuestring EXCEPT ![n] = v] /\ g.string = h.string
    BY <1>1 DEF Heap
  <1> HIDE DEF g
  <1>4. /\ h.consts \subseteq Live(h)
        /\ \A m \in Nodes : g.valuestring[m] # NULL => h.type[m] \in Strings
        /\ \A m \in Nodes \ Live(h) : g.string[m] = NULL
    BY <1>1, <1>3 DEF Sound, TypeOKIn, Heap
  <1>5. Keeps(h, g, R)
    BY <1>2, <1>3, <1>4, StringsSound
  <1> QED BY <1>3, <1>5 DEF g

\* A reference may point at any live node.
LEMMA PointReferenceSound ==
  ASSUME NEW h, NEW R, Sound(h, R), NEW n \in h.refs, NEW c \in Live(h) \cup {NULL},
         c # NULL => h.type[n] \in Containers
  PROVE  /\ Keeps(h, [h EXCEPT !.child[n] = c], R)
         /\ [h EXCEPT !.child[n] = c].child = [h.child EXCEPT ![n] = c]
  <1> DEFINE g == [h EXCEPT !.child[n] = c]
  <1>1. h \in Heap /\ n \in Live(h) BY DEF Sound, TypeOKIn
  <1>2. /\ g \in Heap
        /\ g.type = h.type /\ g.refs = h.refs /\ g.consts = h.consts
        /\ g.next = h.next /\ g.prev = h.prev /\ g.child = [h.child EXCEPT ![n] = c]
        /\ g.valuestring = h.valuestring /\ g.string = h.string
    BY <1>1 DEF Heap, Live
  <1>3. Live(g) = Live(h) BY <1>2 DEF Live
  <1> HIDE DEF g
  <1>4. TypeOKIn(g, R)
    BY <1>1, <1>2, <1>3 DEF Sound, TypeOKIn, Heap, Live
  <1>5. Links(g, R)
    BY <1>1, <1>2, <1>3 DEF Sound, Links, LinksLiveIn, DoublyLinkedIn, OwnersIn, Heap, Live
  <1> QED BY <1>2, <1>3, <1>4, <1>5 DEF Sound, Keeps, g

\* A root hung at the end of a list stops being a root.
LEMMA AttachChildSound ==
  ASSUME NEW h, NEW R, Sound(h, R), NEW p \in Live(h) \ h.refs, h.type[p] \in Containers,
         NEW x \in R, x # p
  PROVE  Sound(AttachChild(h, p, x), R \ {x})
  <1> DEFINE g == AttachChild(h, p, x)
             t == LastKid(h, h.child[p])
  <1>1. /\ h \in Heap /\ p \in Nodes /\ x \in Nodes /\ x \in Live(h)
        /\ h.prev[x] = NULL /\ h.next[x] = NULL
    BY DEF Sound, TypeOKIn, Links, OwnersIn, Live
  <1>2. CASE h.child[p] = NULL
    <2>1. /\ g \in Heap
          /\ g.type = h.type /\ g.refs = h.refs /\ g.consts = h.consts
          /\ g.next = h.next /\ g.prev = h.prev /\ g.child = [h.child EXCEPT ![p] = x]
          /\ g.valuestring = h.valuestring /\ g.string = h.string
      BY <1>1, <1>2 DEF AttachChild, Heap
    <2>2. Live(g) = Live(h) BY <2>1 DEF Live
    <2> HIDE DEF g
    <2>3. TypeOKIn(g, R \ {x})
      BY <1>1, <2>1, <2>2 DEF Sound, TypeOKIn, Heap
    <2>4. LinksLiveIn(g) /\ DoublyLinkedIn(g)
      BY <1>1, <2>1, <2>2 DEF Sound, Links, LinksLiveIn, DoublyLinkedIn, Heap
    <2>5. OwnersIn(g, R \ {x})
      BY <1>1, <1>2, <2>1, <2>2, HeapAssumption DEF Sound, TypeOKIn, Links, OwnersIn, Heap, Live
    <2> QED BY <2>3, <2>4, <2>5 DEF Sound, Links, g
  <1>3. CASE h.child[p] # NULL
    <2>0. t \in Live(h) \ R /\ h.next[t] = NULL
      BY <1>3, TailIsLastKid, KidsAreKids
    <2>1. /\ g \in Heap
          /\ g.type = h.type /\ g.refs = h.refs /\ g.consts = h.consts
          /\ g.next = [h.next EXCEPT ![t] = x]
          /\ g.prev = [h.prev EXCEPT ![x] = t]
          /\ g.child = h.child
          /\ g.valuestring = h.valuestring /\ g.string = h.string
      <3> HIDE DEF t
      <3>1. t \in Nodes /\ t # x BY <2>0 DEF Live
      <3>2. [h.next EXCEPT ![t] = x, ![x] = NULL] = [h.next EXCEPT ![t] = x]
        BY <1>1, <3>1 DEF Heap
      <3>3. g = [h EXCEPT !.next = [h.next EXCEPT ![t] = x, ![x] = NULL], !.prev[x] = t]
        BY <1>3 DEF AttachChild, t
      <3>4. [h.next EXCEPT ![t] = x] \in [Nodes -> Nodes \cup {NULL}]
            /\ [h.prev EXCEPT ![x] = t] \in [Nodes -> Nodes \cup {NULL}]
        BY <1>1, <3>1 DEF Heap
      <3> HIDE DEF g
      <3> QED BY <1>1, <3>2, <3>3, <3>4 DEF Heap
    <2>2. Live(g) = Live(h) BY <2>1 DEF Live
    <2> HIDE DEF g, t
    <2>3. TypeOKIn(g, R \ {x})
      BY <1>1, <2>0, <2>1, <2>2 DEF Sound, TypeOKIn, Heap
    <2>4. LinksLiveIn(g)
      BY <1>1, <2>0, <2>1, <2>2 DEF Sound, Links, LinksLiveIn, Heap, Live
    <2>5. DoublyLinkedIn(g)
      BY <1>1, <2>0, <2>1, <2>2, HeapAssumption DEF Sound, Links, DoublyLinkedIn, OwnersIn, Heap, Live
    <2>6. OwnersIn(g, R \ {x})
      BY <1>1, <1>3, <2>0, <2>1, <2>2, HeapAssumption DEF Sound, TypeOKIn, Links, OwnersIn, Heap, Live
    <2> QED BY <2>3, <2>4, <2>5, <2>6 DEF Sound, Links, g
  <1> QED BY <1>2, <1>3

\* A kid cut out of its list becomes a root.
LEMMA DetachSound ==
  ASSUME NEW h, NEW R, Sound(h, R), NEW p \in Live(h) \ h.refs, NEW x \in Kids(h, p)
  PROVE  Sound(Detach(h, p, x), R \cup {x}) /\ Live(Detach(h, p, x)) = Live(h)
  <1> DEFINE g == Detach(h, p, x)
             b == h.prev[x]
             a == h.next[x]
  <1>1. /\ x \in Live(h) \ R /\ a # x
        /\ b = NULL => h.child[p] = x
        /\ h.child[p] # NULL
    BY KidsAreKids
  <1>2. /\ h \in Heap /\ p \in Nodes /\ x \in Nodes
        /\ a \in Live(h) \cup {NULL} /\ b \in Live(h) \cup {NULL}
        /\ h.type[p] \in Containers
    BY <1>1 DEF Sound, TypeOKIn, Links, LinksLiveIn, Live
  <1>3. /\ g \in Heap
        /\ g.type = h.type /\ g.refs = h.refs /\ g.consts = h.consts
        /\ g.next = [m \in Nodes |-> IF m = x THEN NULL ELSE IF m = b THEN a ELSE h.next[m]]
        /\ g.prev = [m \in Nodes |-> IF m = x THEN NULL ELSE IF m = a THEN b ELSE h.prev[m]]
        /\ g.child = IF b = NULL THEN [h.child EXCEPT ![p] = a] ELSE h.child
        /\ g.valuestring = h.valuestring /\ g.string = h.string
    BY <1>2 DEF Detach, Heap, Live
  <1>4. Live(g) = Live(h) BY <1>3 DEF Live
  <1> HIDE DEF g
  <1>5. TypeOKIn(g, R \cup {x})
    BY <1>1, <1>2, <1>3, <1>4, HeapAssumption DEF Sound, TypeOKIn, Heap, Live
  <1>6. LinksLiveIn(g)
    BY <1>1, <1>2, <1>3, <1>4 DEF Sound, Links, LinksLiveIn, Heap, Live
  <1>7. DoublyLinkedIn(g)
    BY <1>1, <1>2, <1>3, <1>4, HeapAssumption DEF Sound, Links, DoublyLinkedIn, LinksLiveIn, Heap, Live
  <1>8. OwnersIn(g, R \cup {x})
    BY <1>1, <1>2, <1>3, <1>4, HeapAssumption DEF Sound, TypeOKIn, Links, DoublyLinkedIn, OwnersIn, Heap, Live
  <1> QED BY <1>4, <1>5, <1>6, <1>7, <1>8 DEF Sound, Links, g

\* A root inserted before a kid stops being a root.
LEMMA SpliceBeforeSound ==
  ASSUME NEW h, NEW R, Sound(h, R), NEW p \in Live(h) \ h.refs, NEW at \in Kids(h, p),
         NEW x \in R
  PROVE  Sound(SpliceBefore(h, p, at, x), R \ {x})
  <1> DEFINE g == SpliceBefore(h, p, at, x)
             b == h.prev[at]
  <1>1. /\ at \in Live(h) \ R
        /\ b = NULL => h.child[p] = at
        /\ h.child[p] # NULL
    BY KidsAreKids
  <1>2. /\ h \in Heap /\ p \in Nodes /\ at \in Nodes /\ x \in Nodes /\ x \in Live(h) /\ x # at
        /\ h.prev[x] = NULL /\ h.next[x] = NULL
        /\ b \in Live(h) \cup {NULL} /\ b # x
        /\ h.type[p] \in Containers
    BY <1>1, HeapAssumption
    DEF Sound, TypeOKIn, Links, LinksLiveIn, DoublyLinkedIn, OwnersIn, Live
  <1>3. /\ g \in Heap
        /\ g.type = h.type /\ g.refs = h.refs /\ g.consts = h.consts
        /\ g.next = [m \in Nodes |-> IF m = x THEN at ELSE IF m = b THEN x ELSE h.next[m]]
        /\ g.prev = [h.prev EXCEPT ![x] = b, ![at] = x]
        /\ g.child = IF b = NULL THEN [h.child EXCEPT ![p] = x] ELSE h.child
        /\ g.valuestring = h.valuestring /\ g.string = h.string
    BY <1>2 DEF SpliceBefore, Heap, Live
  <1>4. Live(g) = Live(h) BY <1>3 DEF Live
  <1> HIDE DEF g
  <1>5. TypeOKIn(g, R \ {x})
    BY <1>1, <1>2, <1>3, <1>4, HeapAssumption DEF Sound, TypeOKIn, Heap, Live
  <1>6. LinksLiveIn(g)
    BY <1>1, <1>2, <1>3, <1>4 DEF Sound, Links, LinksLiveIn, Heap, Live
  <1>7. DoublyLinkedIn(g)
    BY <1>1, <1>2, <1>3, <1>4, HeapAssumption
    DEF Sound, Links, DoublyLinkedIn, LinksLiveIn, Heap, Live
  <1>8. OwnersIn(g, R \ {x})
    BY <1>1, <1>2, <1>3, <1>4, HeapAssumption
    DEF Sound, TypeOKIn, Links, DoublyLinkedIn, OwnersIn, Heap, Live
  <1> QED BY <1>5, <1>6, <1>7, <1>8 DEF Sound, Links, g

\* A root r and a kid x change places: x becomes the root.
LEMMA TakePlaceSound ==
  ASSUME NEW h, NEW R, Sound(h, R), NEW p \in Live(h) \ h.refs, NEW x \in Kids(h, p),
         NEW r \in R
  PROVE  Sound(TakePlace(h, p, x, r), (R \ {r}) \cup {x})
  <1> DEFINE g == TakePlace(h, p, x, r)
             b == h.prev[x]
             a == h.next[x]
             S == (R \ {r}) \cup {x}
  <1>1. /\ x \in Live(h) \ R /\ a # x
        /\ b = NULL => h.child[p] = x
        /\ h.child[p] # NULL
    BY KidsAreKids
  <1>2. /\ h \in Heap /\ p \in Nodes /\ x \in Nodes /\ r \in Nodes /\ r \in Live(h) /\ r # x
        /\ h.prev[r] = NULL /\ h.next[r] = NULL
        /\ a \in Live(h) \cup {NULL} /\ a # r
        /\ b \in Live(h) \cup {NULL} /\ b # r /\ b # x
        /\ h.type[p] \in Containers
    BY <1>1, HeapAssumption
    DEF Sound, TypeOKIn, Links, LinksLiveIn, DoublyLinkedIn, OwnersIn, Live
  <1>3. /\ g \in Heap
        /\ g.type = h.type /\ g.refs = h.refs /\ g.consts = h.consts
        /\ g.next = [m \in Nodes |-> IF m = x THEN NULL ELSE IF m = r THEN a
                                    ELSE IF m = b THEN r ELSE h.next[m]]
        /\ g.prev = [m \in Nodes |-> IF m = x THEN NULL ELSE IF m = r THEN b
                                    ELSE IF m = a THEN r ELSE h.prev[m]]
        /\ g.child = IF b = NULL THEN [h.child EXCEPT ![p] = r] ELSE h.child
        /\ g.valuestring = h.valuestring
        /\ \A m \in Nodes \ {x, r} : g.string[m] = h.string[m]
    BY <1>2 DEF TakePlace, Heap, Live
  <1>4. Live(g) = Live(h) BY <1>3 DEF Live
  <1> HIDE DEF g
  <1>5. TypeOKIn(g, S)
    BY <1>1, <1>2, <1>3, <1>4, HeapAssumption DEF Sound, TypeOKIn, Heap, Live
  <1>6. LinksLiveIn(g)
    BY <1>1, <1>2, <1>3, <1>4 DEF Sound, Links, LinksLiveIn, Heap, Live
  <1>7. DoublyLinkedIn(g)
    BY <1>1, <1>2, <1>3, <1>4, HeapAssumption
    DEF Sound, Links, DoublyLinkedIn, LinksLiveIn, Heap, Live
  <1>8. OwnersIn(g, S)
    BY <1>1, <1>2, <1>3, <1>4, HeapAssumption
    DEF Sound, TypeOKIn, Links, DoublyLinkedIn, OwnersIn, Heap, Live
  <1> QED BY <1>5, <1>6, <1>7, <1>8 DEF Sound, Links, g

\* The nodes that free_cjson(x) frees are closed off: x apart, nothing that
\* stays links to one, unless a reference does.
LEMMA SubtreeClosedOff ==
  ASSUME NEW h, NEW R, Sound(h, R), NEW x \in R
  PROVE  LET gone == Subtree(h, x)
         IN /\ x \in gone /\ gone \subseteq Live(h) /\ gone \cap R = {x}
            /\ \A m \in Live(h) \ gone :
                 /\ h.next[m] \notin gone
                 /\ h.prev[m] \notin gone
                 /\ m \notin h.refs => h.child[m] \notin gone
            /\ \A m \in gone \ h.refs : h.child[m] # NULL => h.child[m] \in gone
  <1> DEFINE gone == Subtree(h, x)
  <1>1. /\ h \in Heap /\ x \in Nodes /\ x \in Live(h) /\ Live(h) \subseteq Nodes
        /\ h.prev[x] = NULL /\ h.next[x] = NULL
    BY DEF Sound, TypeOKIn, Links, OwnersIn, Live
  <1>2. TreeClosed(h, x, Live(h))
    BY DEF TreeClosed, Sound, Links, LinksLiveIn
  <1>3. x \in gone /\ gone \subseteq Live(h)
    BY <1>1, <1>2, SubtreeHasRoot, SubtreeLeast
  <1>4. ASSUME NEW y \in gone, y # x
        PROVE  \E m \in gone : \/ m \notin h.refs /\ h.child[m] = y
                               \/ m # x /\ h.next[m] = y
    BY <1>1, <1>4, SubtreeReachedFromWithin
  <1>5. ASSUME NEW m \in gone
        PROVE  /\ m \in h.refs \/ h.child[m] = NULL \/ h.child[m] \in gone
               /\ m = x \/ h.next[m] = NULL \/ h.next[m] \in gone
    BY <1>1, SubtreeClosed
  <1> HIDE DEF gone
  <1>6. gone \cap R = {x}
    BY <1>1, <1>3, <1>4, HeapAssumption DEF Sound, Links, DoublyLinkedIn, OwnersIn, Live
  <1>7. ASSUME NEW m \in Live(h) \ gone
        PROVE  /\ h.next[m] \notin gone
               /\ h.prev[m] \notin gone
               /\ m \notin h.refs => h.child[m] \notin gone
    <2>1. h.next[m] \notin gone
      BY <1>1, <1>3, <1>4, HeapAssumption DEF Sound, Links, DoublyLinkedIn, OwnersIn, Live
    <2>2. h.prev[m] \notin gone
      BY <1>1, <1>3, <1>5, HeapAssumption DEF Sound, Links, DoublyLinkedIn, Live
    <2>3. m \notin h.refs => h.child[m] \notin gone
      BY <1>1, <1>3, <1>4, HeapAssumption DEF Sound, Links, DoublyLinkedIn, OwnersIn, Live
    <2> QED BY <2>1, <2>2, <2>3
  <1> QED BY <1>3, <1>5, <1>6, <1>7 DEF gone

\* free_cjson of a root that no reference looks into.
LEMMA FreeTreeSound ==
  ASSUME NEW h, NEW R, Sound(h, R), NEW x \in R,
         \A w \in h.refs \ Subtree(h, x) : h.child[w] \notin Subtree(h, x)
  PROVE  Sound(FreeTree(h, x), R \ {x})
  <1> DEFINE g == FreeTree(h, x)
             gone == Subtree(h, x)
  <1>1. /\ x \in gone /\ gone \subseteq Live(h) /\ gone \cap R = {x}
        /\ \A m \in Live(h) \ gone :
             /\ h.next[m] \notin gone
             /\ h.prev[m] \notin gone
             /\ h.child[m] \notin gone
        /\ \A m \in gone \ h.refs : h.child[m] # NULL => h.child[m] \in gone
    BY SubtreeClosedOff
  <1>2. /\ h \in Heap /\ gone \subseteq Nodes
    BY <1>1 DEF Sound, TypeOKIn, Live
  <1> HIDE DEF gone
  <1>3. /\ g \in Heap
        /\ g.type = Blank(h.type, gone) /\ g.refs = h.refs \ gone /\ g.consts = h.consts \ gone
        /\ g.next = Blank(h.next, gone) /\ g.prev = Blank(h.prev, gone)
        /\ g.child = Blank(h.child, gone)
        /\ g.valuestring = Blank(h.valuestring, gone) /\ g.string = Blank(h.string, gone)
    BY <1>2 DEF FreeTree, Blank, Heap, gone
  <1>4. Live(g) = Live(h) \ gone BY <1>2, <1>3 DEF Live, Blank, Heap
  <1> HIDE DEF g
  <1>5. TypeOKIn(g, R \ {x})
    BY <1>1, <1>2, <1>3, <1>4 DEF Sound, TypeOKIn, Blank, Heap, Live
  <1>6. LinksLiveIn(g)
    BY <1>1, <1>2, <1>3, <1>4 DEF Sound, Links, LinksLiveIn, Blank, Heap, Live
  <1>7. DoublyLinkedIn(g)
    BY <1>1, <1>2, <1>3, <1>4 DEF Sound, Links, DoublyLinkedIn, Blank, Heap, Live
  <1>8. OwnersIn(g, R \ {x})
    <2>1. \A m \in Live(g) : /\ m \in Live(h) /\ m \notin gone
                             /\ m \in g.refs <=> m \in h.refs
                             /\ g.next[m] = h.next[m] /\ g.prev[m] = h.prev[m]
                             /\ g.child[m] = h.child[m]
      BY <1>2, <1>3, <1>4 DEF Blank, Heap, Live
    <2>2. R \ {x} \subseteq Live(g) /\ Live(g) \ (R \ {x}) \subseteq Live(h) \ R
      BY <1>1, <1>4 DEF Sound, TypeOKIn
    <2>3. \A p \in Live(g) \ g.refs : g.child[p] # NULL => g.child[p] \in Live(g)
      BY <1>1, <1>4, <2>1 DEF Sound, Links, LinksLiveIn
    <2>4. ASSUME NEW n \in Live(g) \ (R \ {x}), g.prev[n] = NULL
          PROVE  \E p \in Live(g) \ g.refs : g.child[p] = n
      <3>1. PICK p \in Live(h) \ h.refs : h.child[p] = n
        BY <2>1, <2>2, <2>4 DEF Sound, Links, OwnersIn
      <3>2. n # NULL /\ n \notin gone
        BY <2>1, HeapAssumption DEF Live
      <3>3. p \notin gone
        BY <1>1, <3>1, <3>2
      <3> QED BY <1>4, <2>1, <3>1, <3>3
    <2> QED BY <2>1, <2>2, <2>3, <2>4 DEF Sound, Links, OwnersIn
  <1> QED BY <1>5, <1>6, <1>7, <1>8 DEF Sound, Links, g

-----------------------------------------------------------------------------
(* Fresh nodes *)

\* What keeps the heap sound and its child pointers keeps n fresh.
LEMMA AddsThenKeeps ==
  ASSUME NEW h, NEW g, NEW k, NEW n, NEW R,
         Adds(h, g, n, R), Keeps(g, k, R \cup {n}), k.child = g.child
  PROVE  Adds(h, k, n, R) /\ k.type = g.type /\ k.refs = g.refs
  BY DEF Adds, Keeps

\* A fresh string item.
LEMMA StringItemAdds ==
  ASSUME NEW h, NEW R, Sound(h, R), NEW n \in Nodes \ Live(h), NEW t \in Strings,
         NEW s \in Texts, NEW b \in Bufs
  PROVE  Adds(h, StringItem(h, t, s, n, b), n, R)
  <1> DEFINE c == NewText(h, b, s)
             g == NewNode(c, n, t)
             k == [g EXCEPT !.valuestring[n] = b]
  <1>1. Keeps(h, c, R) /\ c.child = h.child
    BY NewTextSound
  <1> HIDE DEF c
  <1>2. Adds(c, g, n, R) /\ g.type[n] = t
    <2>1. Sound(c, R) /\ n \in Nodes \ Live(c) /\ t \in Types
      BY <1>1 DEF Keeps, Strings, Types
    <2> QED BY <2>1, NewNodeAdds DEF Allocates
  <1> HIDE DEF g
  <1>3. Keeps(g, k, R \cup {n}) /\ k.child = g.child
    BY <1>2, SetValueSound DEF Adds
  <1> HIDE DEF k
  <1>4. Adds(c, k, n, R)
    BY <1>2, <1>3, AddsThenKeeps
  <1>5. Adds(h, k, n, R)
    BY <1>1, <1>4 DEF Adds, Keeps
  <1> QED BY <1>5 DEF StringItem, c, g, k

\* A wrapper that shares a live node's value and children.
LEMMA WrapAdds ==
  ASSUME NEW h, NEW R, Sound(h, R), NEW r \in Nodes \ Live(h), NEW item \in Live(h)
  PROVE  Adds(h, WrapAsReference(h, r, item), r, R)
  <1> DEFINE g == NewReference(h, r, h.type[item])
             v == [g EXCEPT !.valuestring[r] = h.valuestring[item]]
             k == [v EXCEPT !.child[r] = h.child[item]]
  <1>1. /\ h \in Heap /\ item \in Nodes /\ h.type[item] \in Types
        /\ h.valuestring[item] \in Bufs \cup Texts \cup {NULL}
        /\ h.valuestring[item] # NULL => h.type[item] \in Strings
        /\ h.child[item] \in Live(h) \cup {NULL}
        /\ h.child[item] # NULL => h.type[item] \in Containers
    BY DEF Sound, TypeOKIn, Heap, Links, LinksLiveIn, Live
  <1>2. Adds(h, g, r, R) /\ g.type[r] = h.type[item]
    BY <1>1, NewNodeAdds DEF Allocates
  <1>a. r \in g.refs
    BY <1>1 DEF NewReference, Heap
  <1> HIDE DEF g
  <1>3. Keeps(g, v, R \cup {r}) /\ v.child = g.child
    BY <1>1, <1>2, SetValueSound DEF Adds
  <1> HIDE DEF v
  <1>4. Adds(h, v, r, R) /\ v.type = g.type /\ v.refs = g.refs
    BY <1>2, <1>3, AddsThenKeeps
  <1>5. Keeps(v, k, R \cup {r}) /\ k.child = [v.child EXCEPT ![r] = h.child[item]]
    BY <1>1, <1>2, <1>a, <1>4, PointReferenceSound DEF Adds
  <1> HIDE DEF k
  <1>6. Live(k) = Live(v) /\ k.type = v.type /\ k.refs = v.refs /\ Sound(k, R \cup {r})
    BY <1>5 DEF Keeps
  <1>7. v \in Heap /\ r \notin Live(h) /\ r # NULL
    BY <1>4, HeapAssumption DEF Adds, Sound, TypeOKIn
  <1>8. \A m \in Nodes : k.child[m] # r
    BY <1>1, <1>4, <1>5, <1>7 DEF Adds, Heap
  <1>9. /\ \A m \in Live(h) : k.next[m] = h.next[m]
        /\ \A m \in Live(h) \ h.refs : k.child[m] = h.child[m]
    <2>1. k.next = v.next /\ v.child \in [Nodes -> Nodes \cup {NULL}]
      BY <1>5, <1>7 DEF Keeps, Heap
    <2>2. \A m \in Live(h) : k.child[m] = v.child[m]
      BY <1>5, <1>7, <2>1 DEF Live
    <2> QED BY <1>4, <2>1, <2>2 DEF Adds
  <1>10. Adds(h, k, r, R)
    BY <1>2, <1>a, <1>4, <1>6, <1>8, <1>9 DEF Adds
  <1> QED BY <1>10 DEF WrapAsReference, g, v, k

\* The copy of a node.
LEMMA CopyAdds ==
  ASSUME NEW h, NEW R, Sound(h, R), NEW n \in Nodes \ Live(h), NEW item \in Live(h),
         NEW bv \in Bufs \cup {NULL}, NEW bk \in Bufs \cup {NULL},
         bv = NULL <=> ~Copied(h, h.valuestring[item]),
         bk = NULL <=> ~Copied(h, h.string[item])
  PROVE  Adds(h, CopyNode(h, n, item, bv, bk), n, R)
  <1> DEFINE node == NewNode(h, n, h.type[item])
             value == Deref(h, h.valuestring[item])
             wide == NewText(node, bv, value)
             valued == IF Copied(h, h.valuestring[item])
                       THEN [wide EXCEPT !.valuestring[n] = bv]
                       ELSE node
             name == Deref(h, h.string[item])
             wider == NewText(valued, bk, name)
             keyed == [wider EXCEPT !.string[n] = bk]
  <1>1. /\ h.type[item] \in Types
        /\ h.valuestring[item] # NULL => h.type[item] \in Strings
    BY DEF Sound, TypeOKIn, Heap, Live
  <1>2. Adds(h, node, n, R) /\ node.type[n] = h.type[item]
    BY <1>1, NewNodeAdds DEF Allocates
  <1> HIDE DEF node
  <1>3. Adds(h, valued, n, R)
    <2>1. CASE ~Copied(h, h.valuestring[item])
      BY <1>2, <2>1
    <2>2. CASE Copied(h, h.valuestring[item])
      <3>1. bv \in Bufs /\ value \in Texts /\ h.type[item] \in Strings
        BY <1>1, <2>2, HeapAssumption DEF Copied
      <3> HIDE DEF value
      <3>2. Keeps(node, wide, R \cup {n}) /\ wide.child = node.child
        BY <1>2, <3>1, NewTextSound DEF Adds
      <3> HIDE DEF wide
      <3>3. Adds(h, wide, n, R) /\ wide.type = node.type
        BY <1>2, <3>2, AddsThenKeeps
      <3> DEFINE g == [wide EXCEPT !.valuestring[n] = bv]
      <3>4. Keeps(wide, g, R \cup {n}) /\ g.child = wide.child
        BY <1>2, <3>1, <3>3, SetValueSound DEF Adds
      <3> HIDE DEF g
      <3>5. Adds(h, g, n, R)
        BY <3>3, <3>4, AddsThenKeeps
      <3> QED BY <2>2, <3>5 DEF g
    <2> QED BY <2>1, <2>2
  <1> HIDE DEF valued
  <1>4. CASE ~Copied(h, h.string[item])
    BY <1>3, <1>4 DEF CopyNode, valued, node
  <1>5. CASE Copied(h, h.string[item])
    <2>1. bk \in Bufs /\ name \in Texts
      BY <1>5, HeapAssumption DEF Copied
    <2> HIDE DEF name
    <2>2. Keeps(valued, wider, R \cup {n}) /\ wider.child = valued.child
      BY <1>3, <2>1, NewTextSound DEF Adds
    <2> HIDE DEF wider
    <2>3. Adds(h, wider, n, R)
      BY <1>3, <2>2, AddsThenKeeps
    <2> DEFINE C == wider.consts
               g == [wider EXCEPT !.consts = C, !.string[n] = bk]
    <2>4. /\ n \in Live(wider) /\ C \in SUBSET Live(wider)
          /\ Sound(wider, R \cup {n}) /\ wider \in Heap
          /\ bk \in Bufs \cup Texts \cup {NULL}
      BY <2>1, <2>3 DEF Adds, Sound, TypeOKIn
    <2>5. g = keyed /\ g.child = wider.child
      BY <2>4 DEF Heap
    <2> HIDE DEF C
    <2>6. Keeps(wider, g, R \cup {n})
      BY <2>4, SetKeySound, Zenon
    <2> HIDE DEF g, keyed
    <2>7. Adds(h, keyed, n, R)
      BY <2>3, <2>5, <2>6, AddsThenKeeps
    <2> QED BY <1>5, <2>7 DEF CopyNode, keyed, wider, name, valued, node
  <1> QED BY <1>4, <1>5

\* A fresh node is freed again without a trace.
LEMMA FreeFreshSound ==
  ASSUME NEW h, NEW g, NEW R, NEW n \in Nodes, Adds(h, g, n, R), R \subseteq Live(h)
  PROVE  Sound(FreeTree(g, n), R)
  <1>1. Subtree(g, n) = {n}
    BY SubtreeOfLeaf DEF Adds
  <1>2. Sound(g, R \cup {n}) /\ (R \cup {n}) \ {n} = R
    BY DEF Adds
  <1>3. \A w \in g.refs \ Subtree(g, n) : g.child[w] \notin Subtree(g, n)
    BY <1>1, <1>2 DEF Adds, Sound, TypeOKIn, Heap
  <1> HIDE DEF Sound
  <1>4. Sound(FreeTree(g, n), (R \cup {n}) \ {n})
    BY <1>2, <1>3, FreeTreeSound
  <1> QED BY <1>2, <1>4

\* A root hung into an object under a copy of a name.
LEMMA AttachNamedSound ==
  ASSUME NEW h, NEW R, Sound(h, R), NEW p \in Live(h) \ h.refs, h.type[p] \in Containers,
         NEW x \in R, x # p, NEW name, Deref(h, name) \in Texts, NEW b \in Bufs
  PROVE  Sound(AttachNamedChild(h, p, name, x, b), R \ {x})
  <1> DEFINE c == NewText(h, b, Deref(h, name))
             C == FreeKey(c, x).consts \ {x}
             k == [FreeKey(c, x) EXCEPT !.consts = C, !.string[x] = b]
  <1>1. Keeps(h, c, R)
    BY NewTextSound
  <1> HIDE DEF c
  <1>2. Sound(c, R) /\ x \in Live(c)
    BY <1>1 DEF Keeps, Sound, TypeOKIn
  <1>3. C \in SUBSET Live(c)
    BY <1>2, FreeTextSound DEF FreeKey, Keeps, Sound, TypeOKIn
  <1> HIDE DEF C
  <1>4. Keeps(c, k, R)
    BY <1>2, <1>3, RekeySound, Zenon
  <1> HIDE DEF k
  <1>5. Sound(AttachChild(k, p, x), R \ {x})
    BY <1>1, <1>4, AttachChildSound DEF Keeps
  <1> QED BY <1>5 DEF AttachNamedChild, k, C, c

-----------------------------------------------------------------------------
(* Every node is reached from a root *)

\* S holds what free_cjson reaches from its members, siblings included.
WalkClosed(h, S) ==
  \A m \in S :
    /\ m \in h.refs \/ h.child[m] = NULL \/ h.child[m] \in S
    /\ h.next[m] = NULL \/ h.next[m] \in S

\* Deleting the roots frees every node.
Reached(h, R) ==
  \A S \in SUBSET Nodes : R \subseteq S /\ WalkClosed(h, S) => Live(h) \subseteq S

\* The trees of the roots are all that there is: what NoLeak says.
LEMMA ReachedIsInTrees ==
  ASSUME NEW h, NEW R, Sound(h, R), Reached(h, R)
  PROVE  Live(h) \subseteq UNION {Subtree(h, x) : x \in R}
  <1> DEFINE S == UNION {Subtree(h, x) : x \in R}
  <1>1. h \in Heap /\ R \subseteq Nodes
    BY DEF Sound, TypeOKIn, Live
  <1>2. S \in SUBSET Nodes /\ R \subseteq S
    BY <1>1, SubtreeHasRoot
  <1>3. WalkClosed(h, S)
    <2> SUFFICES ASSUME NEW x \in R, NEW m \in Subtree(h, x)
                 PROVE  /\ m \in h.refs \/ h.child[m] = NULL \/ h.child[m] \in S
                        /\ h.next[m] = NULL \/ h.next[m] \in S
      BY DEF WalkClosed
    <2>1. /\ m \in h.refs \/ h.child[m] = NULL \/ h.child[m] \in Subtree(h, x)
          /\ m = x \/ h.next[m] = NULL \/ h.next[m] \in Subtree(h, x)
      BY <1>1, SubtreeClosed
    <2>2. h.next[x] = NULL
      BY DEF Sound, Links, OwnersIn
    <2> QED BY <2>1, <2>2
  <1> QED BY <1>2, <1>3 DEF Reached

\* A change that leaves the lists as they were.
LEMMA KeepsReached ==
  ASSUME NEW h, NEW R, Sound(h, R), Reached(h, R), NEW g, Keeps(h, g, R)
  PROVE  Reached(g, R)
  <1> SUFFICES ASSUME NEW S \in SUBSET Nodes, R \subseteq S, WalkClosed(g, S)
               PROVE  Live(g) \subseteq S
    BY DEF Reached
  <1> DEFINE T == S \cap Live(h)
  <1>1. R \subseteq T /\ T \in SUBSET Nodes
    BY DEF Sound, TypeOKIn
  <1>2. WalkClosed(h, T)
    BY DEF WalkClosed, Keeps, Sound, Links, LinksLiveIn
  <1>3. Live(h) \subseteq T
    BY <1>1, <1>2 DEF Reached
  <1> QED BY <1>3 DEF Keeps

\* A fresh root.
LEMMA AddsReached ==
  ASSUME NEW h, NEW R, Sound(h, R), Reached(h, R), NEW n, NEW g, Adds(h, g, n, R)
  PROVE  Reached(g, R \cup {n})
  <1> SUFFICES ASSUME NEW S \in SUBSET Nodes, R \cup {n} \subseteq S, WalkClosed(g, S)
               PROVE  Live(g) \subseteq S
    BY DEF Reached
  <1> DEFINE T == S \cap Live(h)
  <1>1. R \subseteq T /\ T \in SUBSET Nodes
    BY DEF Sound, TypeOKIn
  <1>2. WalkClosed(h, T)
    BY DEF WalkClosed, Adds, Sound, Links, LinksLiveIn
  <1>3. Live(h) \subseteq T
    BY <1>1, <1>2 DEF Reached
  <1> QED BY <1>3 DEF Adds

\* free_cjson of a root.
LEMMA FreeTreeReached ==
  ASSUME NEW h, NEW R, Sound(h, R), Reached(h, R), NEW x \in R
  PROVE  Reached(FreeTree(h, x), R \ {x})
  <1> DEFINE g == FreeTree(h, x)
             gone == Subtree(h, x)
  <1>1. /\ h \in Heap /\ x \in gone /\ gone \subseteq Nodes /\ h.next[x] = NULL
        /\ \A m \in gone : /\ m \in h.refs \/ h.child[m] = NULL \/ h.child[m] \in gone
                           /\ m = x \/ h.next[m] = NULL \/ h.next[m] \in gone
    BY SubtreeHasRoot, SubtreeClosed DEF Sound, TypeOKIn, Links, OwnersIn, Live
  <1> HIDE DEF gone
  <1>2. /\ g.refs = h.refs \ gone /\ Live(g) = Live(h) \ gone
        /\ \A m \in Nodes \ gone : g.next[m] = h.next[m] /\ g.child[m] = h.child[m]
    BY <1>1 DEF FreeTree, Blank, Heap, Live, gone
  <1> HIDE DEF g
  <1>3. ASSUME NEW S \in SUBSET Nodes, R \ {x} \subseteq S, WalkClosed(g, S)
        PROVE  Live(g) \subseteq S
    <2>1. WalkClosed(h, S \cup gone)
      BY <1>1, <1>2, <1>3 DEF WalkClosed
    <2>2. R \subseteq S \cup gone /\ S \cup gone \in SUBSET Nodes
      BY <1>1, <1>3
    <2>3. Live(h) \subseteq S \cup gone
      BY <2>1, <2>2 DEF Reached
    <2> QED BY <1>2, <2>3
  <1> QED BY <1>3 DEF Reached, g

\* A kid cut out of its list: what came after it now hangs on what came before.
LEMMA DetachReached ==
  ASSUME NEW h, NEW R, Sound(h, R), Reached(h, R), NEW p \in Live(h) \ h.refs, NEW x \in Kids(h, p)
  PROVE  Reached(Detach(h, p, x), R \cup {x})
  <1> DEFINE g == Detach(h, p, x)
             b == h.prev[x]
             a == h.next[x]
  <1>1. /\ x \in Live(h) \ R /\ a # x
        /\ b = NULL => h.child[p] = x
        /\ h.child[p] # NULL
    BY KidsAreKids
  <1>2. /\ h \in Heap /\ p \in Nodes /\ x \in Nodes /\ R \subseteq Live(h) /\ x # NULL
        /\ a \in Live(h) \cup {NULL} /\ b \in Live(h) \cup {NULL} /\ NULL \notin Nodes
    BY <1>1, HeapAssumption DEF Sound, TypeOKIn, Links, LinksLiveIn, Live
  <1>3. /\ g.type = h.type /\ g.refs = h.refs
        /\ g.next = [m \in Nodes |-> IF m = x THEN NULL ELSE IF m = b THEN a ELSE h.next[m]]
        /\ g.child = IF b = NULL THEN [h.child EXCEPT ![p] = a] ELSE h.child
    BY <1>2 DEF Detach, Heap, Live
  <1>4. Live(g) = Live(h) BY <1>3 DEF Live
  <1> HIDE DEF g
  <1>5. ASSUME NEW S \in SUBSET Nodes, R \cup {x} \subseteq S, WalkClosed(g, S)
        PROVE  Live(g) \subseteq S
    <2> DEFINE T == S \cap Live(h)
    <2>0. R \subseteq T /\ x \in T /\ T \in SUBSET Nodes
      BY <1>1, <1>2, <1>5
    <2>1. CASE a = NULL \/ a \in S
      <3>1. ASSUME NEW m \in T
            PROVE  /\ m \in h.refs \/ h.child[m] = NULL \/ h.child[m] \in T
                   /\ h.next[m] = NULL \/ h.next[m] \in T
        <4>1. /\ m \in Live(h) /\ m \in S /\ m \in Nodes
              /\ h.next[m] \in Live(h) \cup {NULL} /\ h.child[m] \in Live(h) \cup {NULL}
          BY DEF Sound, Links, LinksLiveIn, Live
        <4>2. m = x \/ m = b \/ g.next[m] = h.next[m]
          BY <1>3, <4>1
        <4>3. m = b => h.next[m] = x
          BY <1>1, <1>2, <4>1 DEF Sound, Links, DoublyLinkedIn
        <4>4. h.next[m] = NULL \/ h.next[m] \in T
          BY <1>2, <1>3, <1>5, <2>0, <2>1, <4>1, <4>2, <4>3 DEF WalkClosed
        <4>5. (m = p /\ h.child[m] = x) \/ g.child[m] = h.child[m]
          BY <1>1, <1>2, <1>3, <4>1 DEF Heap
        <4>6. m \in h.refs \/ h.child[m] = NULL \/ h.child[m] \in T
          BY <1>3, <1>5, <2>0, <4>1, <4>5 DEF WalkClosed
        <4> QED BY <4>4, <4>6
      <3>2. WalkClosed(h, T)
        BY <3>1 DEF WalkClosed
      <3> QED BY <1>4, <2>0, <3>2 DEF Reached
    <2>2. CASE a # NULL /\ a \notin S
      <3> DEFINE U == T \ {x}
      <3>1. ASSUME NEW m \in U
            PROVE  /\ m \in h.refs \/ h.child[m] = NULL \/ h.child[m] \in U
                   /\ h.next[m] = NULL \/ h.next[m] \in U
        <4>1. m \in Live(h) /\ m \in S /\ m \in Nodes /\ m # x
          BY <3>1 DEF Live
        <4>2. b # NULL => m # b
          BY <1>2, <1>3, <1>5, <2>2, <4>1 DEF WalkClosed
        <4>3. h.next[m] # x
          BY <1>1, <1>2, <4>1, <4>2 DEF Sound, Links, DoublyLinkedIn
        <4>4. h.next[m] = NULL \/ h.next[m] \in U
          <5>1. g.next[m] = h.next[m]
            BY <1>2, <1>3, <4>1, <4>2
          <5>2. h.next[m] \in Live(h) \cup {NULL}
            BY <4>1 DEF Sound, Links, LinksLiveIn
          <5> QED BY <1>5, <4>1, <4>3, <5>1, <5>2 DEF WalkClosed
        <4>5. ASSUME m \notin h.refs, h.child[m] # NULL
              PROVE  h.child[m] \in U
          <5>1. h.child[m] \in Live(h)
            BY <4>1, <4>5 DEF Sound, Links, LinksLiveIn
          <5>2. b = NULL => m # p
            BY <1>2, <1>3, <1>5, <2>2, <4>1, <4>5 DEF WalkClosed, Heap
          <5>3. h.child[m] # x
            <6>1. h.child[m] = x => b = NULL
              BY <4>1, <4>5 DEF Sound, Links, OwnersIn
            <6> QED BY <1>1, <1>2, <4>1, <4>5, <5>2, <6>1 DEF Sound, Links, OwnersIn
          <5>4. g.child[m] = h.child[m]
            BY <1>2, <1>3, <4>1, <5>2 DEF Heap
          <5> QED BY <1>3, <1>5, <4>1, <4>5, <5>1, <5>3, <5>4 DEF WalkClosed
        <4> QED BY <4>4, <4>5
      <3>2. WalkClosed(h, U)
        BY <3>1 DEF WalkClosed
      <3>3. R \subseteq U /\ U \in SUBSET Nodes
        BY <1>1, <2>0
      <3>4. Live(h) \subseteq U
        BY <3>2, <3>3 DEF Reached
      <3> QED BY <1>1, <3>4
    <2> QED BY <2>1, <2>2
  <1> QED BY <1>5 DEF Reached, g

\* The walk along a list passes the left neighbour of each kid but the first.
LEMMA WalkPassesNeighbour ==
  ASSUME NEW h, NEW R, Sound(h, R), NEW p \in Live(h) \ h.refs, NEW x \in Kids(h, p),
         h.prev[x] # NULL, NEW S \in SUBSET Live(h), h.child[p] \in S,
         \A m \in S : h.next[m] \in S \cup {x, NULL}
  PROVE  h.prev[x] \in S
  <1> SUFFICES ASSUME h.prev[x] \notin S
               PROVE  FALSE
    OBVIOUS
  <1>1. x \in Live(h) /\ h.child[p] # NULL /\ x \in Siblings(h, h.child[p])
    BY KidsAreKids DEF Kids
  <1>2. h.child[p] # x
    BY <1>1 DEF Sound, Links, OwnersIn
  <1>3. \A m \in S \ {x} : h.next[m] = NULL \/ h.next[m] \in S \ {x}
    <2> TAKE m \in S \ {x}
    <2>1. h.next[m] # x
      BY <1>1 DEF Sound, Links, DoublyLinkedIn
    <2> QED BY <2>1
  <1>4. ListClosed(h, S \ {x})
    BY <1>3 DEF ListClosed
  <1>5. Siblings(h, h.child[p]) \subseteq S \ {x}
    BY <1>2, <1>4, SiblingsLeast DEF Live
  <1> QED BY <1>1, <1>5

\* A tree hung onto p, outside it, is reached if p is.
LEMMA GraftedOn ==
  ASSUME NEW h, NEW R, Sound(h, R), Reached(h, R), NEW r \in R,
         NEW p \in Live(h) \ Subtree(h, r), NEW S \in SUBSET Live(h), R \ {r} \subseteq S,
         WalkClosed(h, S), p \in S => r \in S
  PROVE  Live(h) \subseteq S
  <1> DEFINE A == Subtree(h, r)
  <1>1. /\ h \in Heap /\ r \in Nodes /\ r \in A /\ A \subseteq Nodes /\ h.next[r] = NULL
        /\ S \subseteq Nodes
    BY SubtreeHasRoot DEF Sound, TypeOKIn, Links, OwnersIn, Live
  <1>2. ASSUME NEW m \in A
        PROVE  /\ m \in h.refs \/ h.child[m] = NULL \/ h.child[m] \in A
               /\ h.next[m] = NULL \/ h.next[m] \in A
    BY <1>1, SubtreeClosed
  <1>3. r \in S => A \subseteq S
    <2>1. TreeClosed(h, r, S)
      BY DEF WalkClosed, TreeClosed
    <2> QED BY <1>1, <2>1, SubtreeLeast
  <1> HIDE DEF A
  <1>4. WalkClosed(h, S \cup A)
    BY <1>2 DEF WalkClosed
  <1>5. R \subseteq S \cup A /\ S \cup A \in SUBSET Nodes
    BY <1>1
  <1>6. Live(h) \subseteq S \cup A
    BY <1>4, <1>5 DEF Reached
  <1> QED BY <1>3, <1>6 DEF A

\* A root hung at the end of a list outside its own tree.
LEMMA AttachChildReached ==
  ASSUME NEW h, NEW R, Sound(h, R), Reached(h, R), NEW p \in Live(h) \ h.refs, NEW x \in R,
         p \notin Subtree(h, x)
  PROVE  Reached(AttachChild(h, p, x), R \ {x})
  <1> DEFINE g == AttachChild(h, p, x)
             t == LastKid(h, h.child[p])
  <1>1. /\ h \in Heap /\ p \in Nodes /\ x \in Nodes /\ x # NULL /\ NULL \notin Nodes
        /\ R \subseteq Live(h)
        /\ h.prev[x] = NULL /\ h.next[x] = NULL
        /\ \A m \in Live(h) : /\ h.next[m] \in Live(h) \cup {NULL}
                              /\ h.child[m] \in Live(h) \cup {NULL}
    BY HeapAssumption DEF Sound, TypeOKIn, Links, LinksLiveIn, OwnersIn, Live
  <1>2. h.child[p] # NULL => t \in Live(h) /\ h.next[t] = NULL /\ t \in Siblings(h, h.child[p])
    BY TailIsLastKid, KidsAreKids DEF Kids
  <1>3. /\ g.type = h.type /\ g.refs = h.refs
        /\ h.child[p] = NULL => g.next = h.next /\ g.child = [h.child EXCEPT ![p] = x]
        /\ h.child[p] # NULL => g.next = [h.next EXCEPT ![t] = x] /\ g.child = h.child
    <2>1. CASE h.child[p] = NULL
      BY <1>1, <2>1 DEF AttachChild, Heap
    <2>2. CASE h.child[p] # NULL
      <3> HIDE DEF t
      <3>1. /\ g.type = h.type /\ g.refs = h.refs /\ g.child = h.child
            /\ g.next = [h.next EXCEPT ![t] = x, ![x] = NULL]
        BY <1>1, <2>2 DEF AttachChild, Heap, t
      <3>2. t \in Nodes /\ (t = x \/ t # x)
        BY <1>2, <2>2 DEF Live
      <3>3. t # x
        <4>1. t \in Live(h) \ R
          BY <2>2, TailIsLastKid, KidsAreKids DEF t
        <4> QED BY <4>1
      <3>4. [h.next EXCEPT ![t] = x, ![x] = NULL] = [h.next EXCEPT ![t] = x]
        BY <1>1, <3>2, <3>3 DEF Heap
      <3> QED BY <2>2, <3>1, <3>4
    <2> QED BY <2>1, <2>2
  <1>4. Live(g) = Live(h) BY <1>3 DEF Live
  <1> HIDE DEF g
  <1>5. ASSUME NEW S \in SUBSET Nodes, R \ {x} \subseteq S, WalkClosed(g, S)
        PROVE  Live(g) \subseteq S
    <2> DEFINE T == S \cap Live(h)
    <2> HIDE DEF t
    <2>1. ASSUME NEW m \in T
          PROVE  /\ m \in h.refs \/ h.child[m] = NULL \/ h.child[m] \in T
                 /\ h.next[m] = NULL \/ h.next[m] \in T
      <3>1. m \in Live(h) /\ m \in S /\ m \in Nodes
        BY DEF Live
      <3>2. h.next[m] = NULL \/ g.next[m] = h.next[m]
        BY <1>1, <1>2, <1>3, <3>1 DEF Heap, Live
      <3>3. h.child[m] = NULL \/ g.child[m] = h.child[m]
        BY <1>1, <1>3, <3>1 DEF Heap
      <3> QED BY <1>1, <1>3, <1>5, <3>1, <3>2, <3>3 DEF WalkClosed
    <2>2. WalkClosed(h, T)
      BY <2>1 DEF WalkClosed
    <2>3. ASSUME p \in T
          PROVE  x \in T
      <3>1. CASE h.child[p] = NULL
        <4>1. g.child[p] = x
          BY <1>1, <1>3, <3>1 DEF Heap
        <4> QED BY <1>1, <1>3, <1>5, <2>3, <4>1 DEF WalkClosed
      <3>2. CASE h.child[p] # NULL
        <4>1. h.child[p] \in T
          BY <2>1, <2>3, <3>2
        <4>2. ListClosed(h, T)
          BY <2>1 DEF ListClosed
        <4>3. t \in T
          BY <1>2, <3>2, <4>1, <4>2, SiblingsLeast
        <4>4. g.next[t] = x
          BY <1>1, <1>2, <1>3, <3>2 DEF Heap, Live
        <4> QED BY <1>1, <1>5, <4>3, <4>4 DEF WalkClosed
      <3> QED BY <3>1, <3>2
    <2>4. R \ {x} \subseteq T /\ T \in SUBSET Live(h)
      BY <1>1, <1>5
    <2> HIDE DEF T
    <2>5. Live(h) \subseteq T
      BY <2>2, <2>3, <2>4, GraftedOn
    <2> QED BY <1>4, <2>5 DEF T
  <1> QED BY <1>5 DEF Reached, g

\* A root inserted before a kid of a list outside its own tree.
LEMMA SpliceBeforeReached ==
  ASSUME NEW h, NEW R, Sound(h, R), Reached(h, R), NEW p \in Live(h) \ h.refs,
         NEW at \in Kids(h, p), NEW x \in R, p \notin Subtree(h, x)
  PROVE  Reached(SpliceBefore(h, p, at, x), R \ {x})
  <1> DEFINE g == SpliceBefore(h, p, at, x)
             b == h.prev[at]
  <1>1. /\ at \in Live(h) \ R
        /\ b = NULL => h.child[p] = at
        /\ h.child[p] # NULL
    BY KidsAreKids
  <1>2. /\ h \in Heap /\ p \in Nodes /\ x \in Nodes /\ x # NULL /\ NULL \notin Nodes
        /\ R \subseteq Live(h) /\ h.next[x] = NULL
        /\ b \in Live(h) \cup {NULL} /\ b # x /\ (b # NULL => h.next[b] = at)
        /\ \A m \in Live(h) : /\ h.next[m] \in Live(h) \cup {NULL}
                              /\ h.child[m] \in Live(h) \cup {NULL}
    BY <1>1, HeapAssumption
    DEF Sound, TypeOKIn, Links, LinksLiveIn, DoublyLinkedIn, OwnersIn, Live
  <1>3. /\ g.type = h.type /\ g.refs = h.refs
        /\ g.next = [m \in Nodes |-> IF m = x THEN at ELSE IF m = b THEN x ELSE h.next[m]]
        /\ g.child = IF b = NULL THEN [h.child EXCEPT ![p] = x] ELSE h.child
    BY <1>2 DEF SpliceBefore, Heap, Live
  <1>4. Live(g) = Live(h) BY <1>3 DEF Live
  <1> HIDE DEF g
  <1>5. ASSUME NEW S \in SUBSET Nodes, R \ {x} \subseteq S, WalkClosed(g, S)
        PROVE  Live(g) \subseteq S
    <2> DEFINE T == S \cap Live(h)
    <2>0. R \ {x} \subseteq T /\ T \in SUBSET Live(h) /\ (x \in S => x \in T)
      BY <1>2, <1>5
    <2>a. x \in S => at \in T
      BY <1>1, <1>2, <1>3, <1>5 DEF WalkClosed, Live
    <2>1. ASSUME NEW m \in T
          PROVE  /\ m \in h.refs \/ h.child[m] = NULL \/ h.child[m] \in T
                 /\ h.next[m] = NULL \/ h.next[m] \in T
      <3>1. m \in Live(h) /\ m \in S /\ m \in Nodes
        BY DEF Live
      <3>2. CASE m = b
        <4>1. g.next[m] = x
          BY <1>2, <1>3, <3>1, <3>2
        <4>2. h.next[m] \in T
          BY <1>2, <1>5, <2>a, <3>1, <3>2, <4>1 DEF WalkClosed
        <4>3. g.child[m] = h.child[m]
          BY <1>2, <1>3, <3>1, <3>2
        <4> QED BY <1>2, <1>3, <1>5, <3>1, <4>2, <4>3 DEF WalkClosed
      <3>3. CASE m # b
        <4>1. h.next[m] = NULL \/ g.next[m] = h.next[m]
          BY <1>2, <1>3, <3>1, <3>3
        <4>2. h.next[m] = NULL \/ h.next[m] \in T
          BY <1>2, <1>5, <3>1, <4>1 DEF WalkClosed
        <4>3. g.child[m] = h.child[m] \/ (g.child[m] = x /\ h.child[m] = at)
          BY <1>1, <1>2, <1>3, <3>1 DEF Heap
        <4>4. m \in h.refs \/ h.child[m] = NULL \/ h.child[m] \in T
          BY <1>2, <1>3, <1>5, <2>a, <3>1, <4>3 DEF WalkClosed
        <4> QED BY <4>2, <4>4
      <3> QED BY <3>2, <3>3
    <2>2. WalkClosed(h, T)
      BY <2>1 DEF WalkClosed
    <2>3. ASSUME p \in T
          PROVE  x \in T
      <3>1. CASE b = NULL
        <4>1. g.child[p] = x
          BY <1>2, <1>3, <3>1 DEF Heap
        <4> QED BY <1>2, <1>3, <1>5, <2>0, <2>3, <4>1 DEF WalkClosed
      <3>2. CASE b # NULL
        <4>1. h.child[p] \in T
          BY <1>1, <2>1, <2>3
        <4>2. \A m \in T : h.next[m] \in T \cup {at, NULL}
          BY <2>1
        <4> HIDE DEF T
        <4>3. b \in T
          BY <2>0, <3>2, <4>1, <4>2, WalkPassesNeighbour
        <4>4. b \in S /\ b \in Nodes /\ g.next[b] = x
          BY <1>2, <1>3, <3>2, <4>3 DEF T, Live
        <4> QED BY <1>2, <1>5, <2>0, <4>4 DEF WalkClosed
      <3> QED BY <3>1, <3>2
    <2> HIDE DEF T
    <2>4. Live(h) \subseteq T
      BY <2>0, <2>2, <2>3, GraftedOn
    <2> QED BY <1>4, <2>4 DEF T
  <1> QED BY <1>5 DEF Reached, g

\* The kid before which a root is inserted stays a kid.
LEMMA SpliceKeepsKid ==
  ASSUME NEW h, NEW R, Sound(h, R), NEW p \in Live(h) \ h.refs, NEW at \in Kids(h, p), NEW x \in R
  PROVE  at \in Kids(SpliceBefore(h, p, at, x), p)
  <1> DEFINE g == SpliceBefore(h, p, at, x)
             b == h.prev[at]
             head == h.child[p]
  <1>1. /\ at \in Live(h) \ R /\ head # NULL /\ at \in Siblings(h, head)
        /\ b = NULL => head = at
    BY KidsAreKids DEF Kids
  <1>2. /\ h \in Heap /\ p \in Nodes /\ x \in Nodes /\ x # NULL /\ NULL \notin Nodes
        /\ h.next[x] = NULL /\ at \in Nodes /\ head \in Nodes
        /\ b \in Live(h) \cup {NULL} /\ b # x
    BY <1>1, HeapAssumption
    DEF Sound, TypeOKIn, Links, LinksLiveIn, DoublyLinkedIn, OwnersIn, Live
  <1>3. /\ g.next = [m \in Nodes |-> IF m = x THEN at ELSE IF m = b THEN x ELSE h.next[m]]
        /\ g.child = IF b = NULL THEN [h.child EXCEPT ![p] = x] ELSE h.child
        /\ g \in Heap
    <2>1. Sound(g, R \ {x})
      BY SpliceBeforeSound
    <2> QED BY <1>2, <2>1 DEF SpliceBefore, Heap, Live, Sound, TypeOKIn
  <1> HIDE DEF g
  <1>4. CASE b = NULL
    <2>1. g.child[p] = x /\ g.next[x] = at
      BY <1>2, <1>3, <1>4 DEF Heap
    <2>2. at \in Siblings(g, x)
      BY <1>2, <1>3, <2>1, SiblingsHasHead, SiblingsClosed
    <2> QED BY <1>2, <2>1, <2>2 DEF Kids, g
  <1>5. CASE b # NULL
    <2> DEFINE K == Siblings(g, head)
    <2>1. g.child[p] = head /\ head \in K /\ K \subseteq Nodes
      BY <1>2, <1>3, <1>5, SiblingsHasHead
    <2>2. \A m \in K : g.next[m] # NULL => g.next[m] \in K
      BY <1>3, SiblingsClosed
    <2> HIDE DEF K
    <2>3. b \in K => at \in K
      <3>1. g.next[x] = at /\ at # NULL
        BY <1>2, <1>3
      <3>2. b \in K => g.next[b] = x
        BY <1>2, <1>3, <2>1
      <3> QED BY <1>2, <2>2, <3>1, <3>2
    <2>4. ASSUME b \notin K
          PROVE  at \in K
      <3>1. ListClosed(h, K)
        BY <1>2, <1>3, <2>1, <2>2, <2>4 DEF ListClosed
      <3> QED BY <1>1, <2>1, <3>1, SiblingsLeast
    <2> QED BY <1>1, <2>1, <2>3, <2>4 DEF Kids, K, g
  <1> QED BY <1>4, <1>5

\* What is reached depends on the lists alone.
LEMMA SameListsReached ==
  ASSUME NEW h, NEW g, NEW R, Reached(h, R),
         g.type = h.type, g.refs = h.refs, g.next = h.next, g.child = h.child
  PROVE  Reached(g, R)
  BY DEF Reached, WalkClosed, Live

\* A root takes the place of a kid: it is put before it, and the kid cut out.
LEMMA TakePlaceReached ==
  ASSUME NEW h, NEW R, Sound(h, R), Reached(h, R), NEW p \in Live(h) \ h.refs,
         NEW x \in Kids(h, p), NEW r \in R, p \notin Subtree(h, r)
  PROVE  Reached(TakePlace(h, p, x, r), (R \ {r}) \cup {x})
  <1> DEFINE g == TakePlace(h, p, x, r)
             s == SpliceBefore(h, p, x, r)
             d == Detach(s, p, x)
             b == h.prev[x]
             a == h.next[x]
  <1>1. Sound(s, R \ {r}) /\ Reached(s, R \ {r}) /\ x \in Kids(s, p)
    BY SpliceBeforeSound, SpliceBeforeReached, SpliceKeepsKid
  <1>2. /\ h \in Heap /\ p \in Nodes /\ x \in Nodes /\ r \in Nodes /\ r # x
        /\ a # r /\ b # r /\ a # x /\ b # x /\ r # NULL /\ NULL \notin Nodes
        /\ x \in Live(h)
    <2>1. x \in Live(h) \ R /\ a # x
      BY KidsAreKids
    <2>2. /\ h \in Heap /\ p \in Nodes /\ r \in Live(h) /\ r \in Nodes /\ x \in Nodes
          /\ h.prev[r] = NULL /\ h.next[r] = NULL /\ NULL \notin Nodes
      BY <2>1, HeapAssumption DEF Sound, TypeOKIn, Links, OwnersIn, Live
    <2>3. a # r /\ b # r /\ b # x
      BY <2>1, <2>2 DEF Sound, Links, DoublyLinkedIn
    <2> QED BY <2>1, <2>2, <2>3
  <1>3. /\ s.type = h.type /\ s.refs = h.refs
        /\ s.next = [m \in Nodes |-> IF m = r THEN x ELSE IF m = b THEN r ELSE h.next[m]]
        /\ s.prev = [h.prev EXCEPT ![r] = b, ![x] = r]
        /\ s.child = IF b = NULL THEN [h.child EXCEPT ![p] = r] ELSE h.child
        /\ s \in Heap /\ p \in Live(s) \ s.refs
    <2>1. s \in Heap
      BY <1>1 DEF Sound, TypeOKIn
    <2> QED BY <1>2, <2>1 DEF SpliceBefore, Heap, Live
  <1> HIDE DEF s
  <1>4. s.prev[x] = r /\ s.next[x] = a
    BY <1>2, <1>3 DEF Heap
  <1>5. /\ d.type = s.type /\ d.refs = s.refs /\ d.child = s.child
        /\ d.next = [m \in Nodes |-> IF m = x THEN NULL ELSE IF m = r THEN a ELSE s.next[m]]
    BY <1>2, <1>3, <1>4 DEF Detach, Heap
  <1>6. Reached(d, (R \ {r}) \cup {x})
    BY <1>1, <1>3, DetachReached
  <1> HIDE DEF d
  <1>7. /\ g.type = h.type /\ g.refs = h.refs
        /\ g.next = [m \in Nodes |-> IF m = x THEN NULL ELSE IF m = r THEN a
                                    ELSE IF m = b THEN r ELSE h.next[m]]
        /\ g.child = IF b = NULL THEN [h.child EXCEPT ![p] = r] ELSE h.child
    BY <1>2 DEF TakePlace, Heap
  <1> HIDE DEF g
  <1>8. g.type = d.type /\ g.refs = d.refs /\ g.next = d.next /\ g.child = d.child
    BY <1>2, <1>3, <1>5, <1>7
  <1> QED BY <1>6, <1>8, SameListsReached DEF g

\* What free_cjson frees depends on the lists alone.
LEMMA SameListsSameSubtree ==
  ASSUME NEW h, NEW g, NEW x, g.refs = h.refs, g.next = h.next, g.child = h.child
  PROVE  Subtree(g, x) = Subtree(h, x)
  BY DEF Subtree, TreeClosed

\* A root hung into an object outside its own tree under a copy of a name.
LEMMA AttachNamedReached ==
  ASSUME NEW h, NEW R, Sound(h, R), Reached(h, R), NEW p \in Live(h) \ h.refs,
         NEW x \in R, p \notin Subtree(h, x), NEW name, Deref(h, name) \in Texts, NEW b \in Bufs
  PROVE  Reached(AttachNamedChild(h, p, name, x, b), R \ {x})
  <1> DEFINE c == NewText(h, b, Deref(h, name))
             f == FreeKey(c, x)
             C == f.consts \ {x}
             k == [f EXCEPT !.consts = C, !.string[x] = b]
  <1>1. Keeps(h, c, R) /\ c.child = h.child
    BY NewTextSound
  <1> HIDE DEF c
  <1>2. Sound(c, R) /\ x \in Live(c) /\ c \in Heap
    BY <1>1 DEF Keeps, Sound, TypeOKIn
  <1>3. C \in SUBSET Live(c)
    BY <1>2, FreeTextSound DEF FreeKey, Keeps, Sound, TypeOKIn
  <1>a. f \in Heap /\ f.child = c.child
    BY <1>2 DEF FreeKey, FreeText, Blank, Heap
  <1> HIDE DEF f
  <1>4. k.child = f.child
    BY <1>a DEF Heap
  <1> HIDE DEF C
  <1>5. Keeps(c, k, R)
    <2>1. b \in Bufs \cup Texts \cup {NULL}
      OBVIOUS
    <2>2. Keeps(c, [FreeKey(c, x) EXCEPT !.consts = C, !.string[x] = b], R)
      BY <1>2, <1>3, <2>1, RekeySound, Zenon
    <2> QED BY <2>2 DEF f
  <1> HIDE DEF k
  <1>6. Keeps(h, k, R) /\ k.child = h.child
    BY <1>1, <1>a, <1>4, <1>5 DEF Keeps
  <1>7. Reached(k, R)
    BY <1>6, KeepsReached
  <1>8. Subtree(k, x) = Subtree(h, x)
    BY <1>6, SameListsSameSubtree DEF Keeps
  <1>9. Reached(AttachChild(k, p, x), R \ {x})
    BY <1>6, <1>7, <1>8, AttachChildReached DEF Keeps
  <1> QED BY <1>9 DEF AttachNamedChild, k, C, f, c

\* A fresh node that is freed again takes nothing along.
LEMMA FreeFreshReached ==
  ASSUME NEW h, NEW g, NEW R, NEW n \in Nodes, Sound(h, R), Reached(h, R), Adds(h, g, n, R)
  PROVE  Reached(FreeTree(g, n), R)
  <1>1. Sound(g, R \cup {n}) /\ Reached(g, R \cup {n})
    BY AddsReached DEF Adds
  <1>a. (R \cup {n}) \ {n} = R
    BY DEF Adds, Sound, TypeOKIn
  <1>2. Reached(FreeTree(g, n), (R \cup {n}) \ {n})
    BY <1>1, FreeTreeReached
  <1> QED BY <1>a, <1>2

-----------------------------------------------------------------------------
(* Trees beside one another *)

\* Two roots share no node.
LEMMA TreesApart ==
  ASSUME NEW h, NEW R, Sound(h, R), NEW x \in R, NEW y \in R, x # y
  PROVE  Subtree(h, x) \cap Subtree(h, y) = {}
  <1> DEFINE A == Subtree(h, x)
             B == Subtree(h, y)
  <1>1. /\ x \in A /\ A \subseteq Live(h) /\ A \cap R = {x}
        /\ y \in B /\ B \subseteq Live(h) /\ B \cap R = {y}
        /\ \A m \in Live(h) \ B : /\ h.next[m] \notin B
                                  /\ m \notin h.refs => h.child[m] \notin B
    BY SubtreeClosedOff
  <1>2. \A m \in A : /\ m \in h.refs \/ h.child[m] = NULL \/ h.child[m] \in A
                     /\ m = x \/ h.next[m] = NULL \/ h.next[m] \in A
    BY <1>1, SubtreeClosed DEF Sound, TypeOKIn
  <1> HIDE DEF A, B
  <1>3. x \in A \ B /\ A \ B \in SUBSET Nodes
    BY <1>1 DEF Live
  <1>4. TreeClosed(h, x, A \ B)
    BY <1>1, <1>2 DEF TreeClosed
  <1>5. A \subseteq A \ B
    BY <1>3, <1>4, SubtreeLeast DEF A
  <1> QED BY <1>5 DEF A, B

\* A kid that is not the first follows another.
LEMMA KidFollowsKid ==
  ASSUME NEW h, NEW R, Sound(h, R), NEW p \in Live(h) \ h.refs, NEW x \in Kids(h, p),
         x # h.child[p]
  PROVE  \E m \in Kids(h, p) : h.next[m] = x
  <1> DEFINE K == Kids(h, p)
  <1> SUFFICES ASSUME \A m \in K : h.next[m] # x
               PROVE  FALSE
    OBVIOUS
  <1>1. h.child[p] # NULL /\ K = Siblings(h, h.child[p]) /\ K \subseteq Live(h)
    BY KidsAreKids DEF Kids
  <1>2. h.child[p] \in K /\ \A m \in K : h.next[m] = NULL \/ h.next[m] \in K
    <2>1. h.child[p] \in Nodes /\ h \in Heap
      BY <1>1 DEF Sound, TypeOKIn, Heap, Live
    <2> QED BY <1>1, <2>1, SiblingsHasHead, SiblingsClosed DEF Live
  <1> HIDE DEF K
  <1>3. ListClosed(h, K \ {x}) /\ h.child[p] \in K \ {x} /\ K \ {x} \in SUBSET Nodes
    BY <1>1, <1>2 DEF ListClosed, Live
  <1>4. K \subseteq K \ {x}
    BY <1>1, <1>3, SiblingsLeast
  <1> QED BY <1>4 DEF K

\* A list has one end, which is where attach_child's walk stops: otherwise next
\* would map the kids onto themselves with two of them left over.
LEMMA TailIsUnique ==
  ASSUME NEW h, NEW R, Sound(h, R), NEW p \in Live(h) \ h.refs,
         NEW t \in Kids(h, p), h.next[t] = NULL
  PROVE  t = LastKid(h, h.child[p])
  <1> DEFINE K == Kids(h, p)
             u == LastKid(h, h.child[p])
             f == [m \in K |-> IF h.next[m] = NULL THEN h.child[p] ELSE h.next[m]]
  <1>1. h.child[p] # NULL /\ K = Siblings(h, h.child[p]) /\ K \subseteq Live(h) /\ h.child[p] \in Nodes
    <2>1. h.child[p] # NULL /\ K \subseteq Live(h)
      BY KidsAreKids
    <2> QED BY <2>1 DEF Kids, Sound, TypeOKIn, Heap, Live
  <1>2. u \in K /\ h.next[u] = NULL
    BY <1>1, TailIsLastKid
  <1>3. h.child[p] \in K /\ \A m \in K : h.next[m] = NULL \/ h.next[m] \in K
    BY <1>1, SiblingsHasHead, SiblingsClosed DEF Sound, TypeOKIn
  <1>4. \A x \in K : x # h.child[p] => \E m \in K : h.next[m] = x
    BY KidFollowsKid
  <1>5. t \in K
    OBVIOUS
  <1> HIDE DEF K, u
  <1>6. f \in [K -> K]
    BY <1>3
  <1>7. ASSUME NEW x \in K
        PROVE  \E m \in K : f[m] = x
    <2>1. CASE x = h.child[p]
      BY <1>5, <2>1
    <2>2. CASE x # h.child[p]
      <3>1. PICK m \in K : h.next[m] = x
        BY <1>4, <2>2
      <3>2. x # NULL
        BY <1>1, HeapAssumption DEF Live
      <3> QED BY <3>1, <3>2
    <2> QED BY <2>1, <2>2
  <1>8. f[t] = h.child[p] /\ f[u] = h.child[p]
    BY <1>2, <1>5
  <1> HIDE DEF f
  <1>9. f \in Surjection(K, K)
    BY <1>6, <1>7 DEF Surjection
  <1>10. IsFiniteSet(K)
    BY <1>1, FiniteNodes, FS_Subset DEF Live
  <1>11. f \in Injection(K, K)
    BY <1>9, <1>10, FS_Surjection
  <1>12. t = u
    BY <1>2, <1>5, <1>8, <1>11 DEF Injection, IsInjective
  <1> QED BY <1>12 DEF u

\* g is h apart from the nodes of T, none of which is a reference.
SameBut(h, g, T) ==
  /\ g.refs = h.refs /\ h.refs \cap T = {}
  /\ \A m \in Live(h) \ T :
       /\ m \in Live(g) /\ (m \in g.consts <=> m \in h.consts)
       /\ g.type[m] = h.type[m] /\ g.next[m] = h.next[m] /\ g.child[m] = h.child[m]
       /\ g.valuestring[m] = h.valuestring[m] /\ g.string[m] = h.string[m]

\* A root whose tree is left alone keeps its tree, its strings and its kids.
LEMMA SameTree ==
  ASSUME NEW h, NEW g, g \in Heap, NEW R, Sound(h, R), NEW T, SameBut(h, g, T), NEW n \in R,
         Subtree(h, n) \cap T = {}
  PROVE  /\ Subtree(g, n) = Subtree(h, n)
         /\ OwnStrings(g, Subtree(g, n)) = OwnStrings(h, Subtree(h, n))
         /\ n \notin h.refs => Kids(h, n) \subseteq Kids(g, n)
  <1> DEFINE A == Subtree(h, n)
             B == Subtree(g, n)
  <1>1. /\ n \in A /\ A \subseteq Live(h) /\ n \in Nodes /\ h.next[n] = NULL /\ h \in Heap
    BY SubtreeClosedOff DEF Sound, TypeOKIn, Links, OwnersIn, Live
  <1>2. \A m \in A : /\ m \in h.refs \/ h.child[m] = NULL \/ h.child[m] \in A
                     /\ m = n \/ h.next[m] = NULL \/ h.next[m] \in A
    BY <1>1, SubtreeClosed
  <1>3. n \in B /\ B \subseteq Nodes
    BY <1>1, SubtreeHasRoot
  <1>4. \A m \in B : /\ m \in g.refs \/ g.child[m] = NULL \/ g.child[m] \in B
                     /\ m = n \/ g.next[m] = NULL \/ g.next[m] \in B
    BY <1>1, SubtreeClosed
  <1>5. /\ g.refs = h.refs
        /\ \A m \in A : /\ (m \in g.consts <=> m \in h.consts)
                        /\ g.next[m] = h.next[m] /\ g.child[m] = h.child[m]
                        /\ g.valuestring[m] = h.valuestring[m] /\ g.string[m] = h.string[m]
    BY <1>1 DEF SameBut
  <1> HIDE DEF A, B
  <1>6. TreeClosed(g, n, A) /\ TreeClosed(h, n, A \cap B)
    BY <1>2, <1>4, <1>5 DEF TreeClosed
  <1>7. A \in SUBSET Nodes /\ A \cap B \in SUBSET Nodes /\ n \in A \cap B
    BY <1>1, <1>3 DEF Live
  <1>8. B \subseteq A /\ A \subseteq A \cap B
    <2>1. B \subseteq A
      BY <1>1, <1>6, <1>7, SubtreeLeast DEF B
    <2>2. A \subseteq A \cap B
      BY <1>1, <1>6, <1>7, SubtreeLeast DEF A
    <2> QED BY <2>1, <2>2
  <1>9. A = B
    BY <1>8
  <1>10. OwnStrings(g, A) = OwnStrings(h, A)
    BY <1>5 DEF OwnStrings
  <1>11. ASSUME n \notin h.refs
         PROVE  Kids(h, n) \subseteq Kids(g, n)
    <2>1. CASE h.child[n] = NULL
      BY <2>1 DEF Kids
    <2>2. CASE h.child[n] # NULL
      <3> DEFINE c == h.child[n]
                 K == Siblings(g, c)
      <3>1. c \in A /\ c \in Nodes /\ g.child[n] = c
        BY <1>1, <1>2, <1>5, <1>11, <2>2 DEF Live
      <3>2. c \in K /\ \A m \in K : g.next[m] = NULL \/ g.next[m] \in K
        BY <3>1, SiblingsHasHead, SiblingsClosed
      <3> HIDE DEF K
      <3>3. ListClosed(h, A \cap K)
        BY <1>1, <1>2, <1>5, <3>2 DEF ListClosed
      <3>4. c \in A \cap K /\ A \cap K \in SUBSET Nodes
        BY <1>7, <3>1, <3>2
      <3>5. Siblings(h, c) \subseteq A \cap K
        BY <3>1, <3>3, <3>4, SiblingsLeast
      <3> QED BY <2>2, <3>1, <3>5 DEF Kids, K
    <2> QED BY <2>1, <2>2
  <1> QED BY <1>9, <1>10, <1>11 DEF A, B

-----------------------------------------------------------------------------
(* The strings of a heap h whose buffers L nobody holds yet *)

\* The values of nodes that are not references and the keys that are not const
\* hold every live buffer but those of L, none twice, and nothing else.
HeldIn(h, L) ==
  /\ L \subseteq LiveBufs(h)
  /\ \A n \in Live(h) : ValueOf(h, n) \in (LiveBufs(h) \ L) \cup {NULL}
  /\ \A n \in Live(h) : KeyOf(h, n) \in (LiveBufs(h) \ L) \cup {NULL}
  /\ \A m, n \in Live(h) : ValueOf(h, m) = ValueOf(h, n) /\ ValueOf(h, m) # NULL => m = n
  /\ \A m, n \in Live(h) : KeyOf(h, m) = KeyOf(h, n) /\ KeyOf(h, m) # NULL => m = n
  /\ \A m, n \in Live(h) : ValueOf(h, m) = KeyOf(h, n) => ValueOf(h, m) = NULL
  /\ \A b \in LiveBufs(h) \ L : \E n \in Live(h) : b = ValueOf(h, n) \/ b = KeyOf(h, n)

\* A const key is a string of the caller's; a reference's value is one, or the
\* value of a node that owns it.
BorrowedIn(h) ==
  /\ \A n \in h.consts : h.string[n] \in Texts
  /\ \A w \in h.refs :
       \/ h.valuestring[w] \in Texts \cup {NULL}
       \/ \E n \in Live(h) \ h.refs : h.valuestring[n] = h.valuestring[w]

Strung(h, L) == HeldIn(h, L) /\ BorrowedIn(h)

\* In a heap where every buffer has its holder, no buffer is freed twice or
\* never, and no node, reference or not, holds a pointer to a freed one.
LEMMA StrungOwnsOnce ==
  ASSUME NEW h, Strung(h, {})
  PROVE  StringsOwnedOnceIn(h)
  <1>1. ASSUME NEW n \in Live(h)
        PROVE  {ValueOf(h, n), KeyOf(h, n)} \subseteq LiveBufs(h) \cup {NULL}
    BY DEF Strung, HeldIn
  <1>2. ASSUME NEW b \in LiveBufs(h)
        PROVE  Cardinality({n \in Live(h) : ValueOf(h, n) = b})
                 + Cardinality({n \in Live(h) : KeyOf(h, n) = b}) = 1
    <2>1. PICK n \in Live(h) : b = ValueOf(h, n) \/ b = KeyOf(h, n)
      BY DEF Strung, HeldIn
    <2>2. b # NULL
      BY HeapAssumption DEF LiveBufs
    <2>3. Cardinality({n}) = 1 /\ Cardinality({}) = 0
      BY FS_Singleton, FS_EmptySet
    <2>4. CASE b = ValueOf(h, n)
      <3>1. {m \in Live(h) : ValueOf(h, m) = b} = {n}
        BY <2>2, <2>4 DEF Strung, HeldIn
      <3>2. {m \in Live(h) : KeyOf(h, m) = b} = {}
        BY <2>2, <2>4 DEF Strung, HeldIn
      <3> QED BY <2>3, <3>1, <3>2
    <2>5. CASE b = KeyOf(h, n)
      <3>1. {m \in Live(h) : KeyOf(h, m) = b} = {n}
        BY <2>2, <2>5 DEF Strung, HeldIn
      <3>2. {m \in Live(h) : ValueOf(h, m) = b} = {}
        BY <2>2, <2>5 DEF Strung, HeldIn
      <3> QED BY <2>3, <3>1, <3>2
    <2> QED BY <2>1, <2>4, <2>5
  <1> QED BY <1>1, <1>2 DEF StringsOwnedOnceIn

\* No pointer of a live node leads into a freed buffer.
LEMMA StrungLives ==
  ASSUME NEW h, Strung(h, {})
  PROVE  StringsLiveIn(h)
  <1>1. ASSUME NEW n \in Live(h) \ h.refs
        PROVE  h.valuestring[n] \in Pointers(h) \cup {NULL}
    BY DEF Strung, HeldIn, ValueOf, Pointers
  <1>2. ASSUME NEW n \in h.refs
        PROVE  h.valuestring[n] \in Pointers(h) \cup {NULL}
    BY <1>1 DEF Strung, BorrowedIn, Pointers
  <1>3. ASSUME NEW n \in Live(h)
        PROVE  h.string[n] \in Pointers(h) \cup {NULL}
    BY DEF Strung, HeldIn, BorrowedIn, KeyOf, Pointers
  <1> QED BY <1>1, <1>2, <1>3 DEF StringsLiveIn

-----------------------------------------------------------------------------
(* What each helper does to the strings *)

\* Linking and unlinking leaves them alone.
LEMMA LinksLeaveStrings ==
  ASSUME NEW h, NEW g, NEW L, Strung(h, L),
         g.type = h.type, g.refs = h.refs, g.consts = h.consts,
         g.valuestring = h.valuestring, g.string = h.string, g.text = h.text
  PROVE  Strung(g, L)
  <1>1. Live(g) = Live(h) /\ LiveBufs(g) = LiveBufs(h)
    BY DEF Live, LiveBufs
  <1>2. \A n : ValueOf(g, n) = ValueOf(h, n) /\ KeyOf(g, n) = KeyOf(h, n)
    BY DEF ValueOf, KeyOf
  <1>3. HeldIn(g, L)
    BY <1>1, <1>2 DEF Strung, HeldIn
  <1>4. BorrowedIn(g)
    BY <1>1 DEF Strung, BorrowedIn
  <1> QED BY <1>3, <1>4 DEF Strung

\* A fresh node holds no string.
LEMMA NewNodeStrung ==
  ASSUME NEW h, NEW R, Sound(h, R), NEW L, Strung(h, L),
         NEW n \in Nodes \ Live(h), NEW t \in Types, NEW g, Allocates(h, g, n, t)
  PROVE  /\ Strung(g, L) /\ g.text = h.text
         /\ n \notin g.consts /\ g.valuestring[n] = NULL /\ g.string[n] = NULL
         /\ g.valuestring = h.valuestring /\ g.string = h.string
  <1>1. /\ h \in Heap /\ n \notin h.consts /\ n \notin h.refs
        /\ h.valuestring[n] = NULL /\ h.string[n] = NULL
        /\ h.refs \subseteq Live(h)
    BY DEF Sound, TypeOKIn
  <1>2. /\ g.type = [h.type EXCEPT ![n] = t]
        /\ g.refs = (IF g = NewReference(h, n, t) THEN h.refs \cup {n} ELSE h.refs)
        /\ g.consts = h.consts /\ g.text = h.text
        /\ g.valuestring = h.valuestring /\ g.string = h.string
    <2>1. CASE g = NewReference(h, n, t)
      BY <1>1, <2>1 DEF Heap, NewReference
    <2>2. CASE g # NewReference(h, n, t)
      BY <1>1, <2>2 DEF Heap, NewNode, Allocates
    <2> QED BY <2>1, <2>2
  <1>3. Live(g) = Live(h) \cup {n} /\ LiveBufs(g) = LiveBufs(h)
    BY <1>1, <1>2, NullIsNoType DEF Heap, Live, LiveBufs
  <1>4. /\ \A m \in Live(h) : ValueOf(g, m) = ValueOf(h, m) /\ KeyOf(g, m) = KeyOf(h, m)
        /\ ValueOf(g, n) = NULL /\ KeyOf(g, n) = NULL
    BY <1>1, <1>2 DEF ValueOf, KeyOf
  <1>5. HeldIn(g, L)
    BY <1>3, <1>4, HeapAssumption DEF Strung, HeldIn
  <1>6. BorrowedIn(g)
    BY <1>1, <1>2, <1>3 DEF Strung, BorrowedIn
  <1> QED BY <1>1, <1>2, <1>5, <1>6 DEF Strung

\* A fresh buffer waits for its holder.
LEMMA NewTextStrung ==
  ASSUME NEW h, NEW R, Sound(h, R), NEW L, Strung(h, L),
         NEW b \in Bufs \ LiveBufs(h), NEW s \in Texts
  PROVE  LET g == NewText(h, b, s)
         IN /\ Strung(g, L \cup {b}) /\ LiveBufs(g) = LiveBufs(h) \cup {b}
            /\ g.refs = h.refs /\ g.consts = h.consts
            /\ g.valuestring = h.valuestring /\ g.string = h.string
  <1> DEFINE g == NewText(h, b, s)
  <1>1. h \in Heap BY DEF Sound, TypeOKIn
  <1>2. /\ g.type = h.type /\ g.refs = h.refs /\ g.consts = h.consts
        /\ g.valuestring = h.valuestring /\ g.string = h.string
        /\ g.text = [h.text EXCEPT ![b] = s]
    BY <1>1 DEF NewText, Heap
  <1>3. Live(g) = Live(h) /\ LiveBufs(g) = LiveBufs(h) \cup {b}
    BY <1>1, <1>2, HeapAssumption DEF Live, LiveBufs, Heap
  <1> HIDE DEF g
  <1>4. \A n : ValueOf(g, n) = ValueOf(h, n) /\ KeyOf(g, n) = KeyOf(h, n)
    BY <1>2 DEF ValueOf, KeyOf
  <1>5. HeldIn(g, L \cup {b})
    BY <1>3, <1>4 DEF Strung, HeldIn
  <1>6. BorrowedIn(g)
    BY <1>2, <1>3 DEF Strung, BorrowedIn
  <1> QED BY <1>2, <1>3, <1>5, <1>6 DEF Strung, g

\* A node that owns its value, and has none yet, takes a buffer for it.
LEMMA TakeValueStrung ==
  ASSUME NEW h, NEW R, Sound(h, R), NEW L, Strung(h, L),
         NEW n \in Live(h) \ h.refs, h.valuestring[n] = NULL, NEW b \in L
  PROVE  LET g == [h EXCEPT !.valuestring[n] = b]
         IN /\ Strung(g, L \ {b}) /\ LiveBufs(g) = LiveBufs(h)
            /\ g.refs = h.refs /\ g.consts = h.consts /\ g.string = h.string /\ g.text = h.text
  <1> DEFINE g == [h EXCEPT !.valuestring[n] = b]
  <1>1. h \in Heap /\ b \in LiveBufs(h) /\ b # NULL /\ n \in Nodes /\ h.refs \subseteq Live(h)
    BY HeapAssumption DEF Sound, TypeOKIn, Strung, HeldIn, LiveBufs, Live
  <1>2. /\ g.type = h.type /\ g.refs = h.refs /\ g.consts = h.consts
        /\ g.valuestring = [h.valuestring EXCEPT ![n] = b]
        /\ g.string = h.string /\ g.text = h.text
    BY <1>1 DEF Heap
  <1>3. Live(g) = Live(h) /\ LiveBufs(g) = LiveBufs(h)
    BY <1>2 DEF Live, LiveBufs
  <1> HIDE DEF g
  <1>4. /\ \A m \in Live(h) : KeyOf(g, m) = KeyOf(h, m) /\ (m # n => ValueOf(g, m) = ValueOf(h, m))
        /\ ValueOf(h, n) = NULL /\ ValueOf(g, n) = b
    BY <1>1, <1>2 DEF ValueOf, KeyOf, Heap, Live
  <1>5. HeldIn(g, L \ {b})
    <2>1. \A m \in Live(h) : ValueOf(h, m) # b /\ KeyOf(h, m) # b
      BY <1>1 DEF Strung, HeldIn
    <2>2. \A m \in Live(g) : /\ ValueOf(g, m) \in (LiveBufs(g) \ (L \ {b})) \cup {NULL}
                            /\ KeyOf(g, m) \in (LiveBufs(g) \ (L \ {b})) \cup {NULL}
      BY <1>1, <1>3, <1>4 DEF Strung, HeldIn
    <2>3. \A m, k \in Live(g) : ValueOf(g, m) = ValueOf(g, k) /\ ValueOf(g, m) # NULL => m = k
      BY <1>3, <1>4, <2>1 DEF Strung, HeldIn
    <2>4. \A m, k \in Live(g) : KeyOf(g, m) = KeyOf(g, k) /\ KeyOf(g, m) # NULL => m = k
      BY <1>3, <1>4 DEF Strung, HeldIn
    <2>5. \A m, k \in Live(g) : ValueOf(g, m) = KeyOf(g, k) => ValueOf(g, m) = NULL
      BY <1>3, <1>4, <2>1 DEF Strung, HeldIn
    <2>6. \A c \in LiveBufs(g) \ (L \ {b}) : \E m \in Live(g) : c = ValueOf(g, m) \/ c = KeyOf(g, m)
      <3> TAKE c \in LiveBufs(g) \ (L \ {b})
      <3>1. CASE c = b
        BY <1>3, <1>4, <3>1
      <3>2. CASE c # b
        <4>1. PICK m \in Live(h) : c = ValueOf(h, m) \/ c = KeyOf(h, m)
          BY <1>3, <3>2 DEF Strung, HeldIn
        <4>2. c # NULL
          BY HeapAssumption DEF LiveBufs
        <4> QED BY <1>3, <1>4, <4>1, <4>2
      <3> QED BY <3>1, <3>2
    <2> QED BY <1>3, <2>2, <2>3, <2>4, <2>5, <2>6 DEF Strung, HeldIn
  <1>6. BorrowedIn(g)
    <2>1. \A m \in Live(h) : m # n => g.valuestring[m] = h.valuestring[m]
      BY <1>1, <1>2 DEF Heap, Live
    <2>2. ASSUME NEW w \in h.refs, NEW m \in Live(h) \ h.refs, h.valuestring[m] = h.valuestring[w]
          PROVE  h.valuestring[w] = NULL \/ g.valuestring[m] = g.valuestring[w]
      BY <1>1, <2>1, <2>2
    <2> QED BY <1>1, <1>2, <1>3, <2>1, <2>2 DEF Strung, BorrowedIn
  <1> QED BY <1>2, <1>3, <1>5, <1>6 DEF Strung, g

\* A node that owns its key, and has none yet, takes a buffer for it.
LEMMA TakeKeyStrung ==
  ASSUME NEW h, NEW R, Sound(h, R), NEW L, Strung(h, L),
         NEW n \in Live(h) \ h.consts, h.string[n] = NULL, NEW b \in L
  PROVE  LET g == [h EXCEPT !.string[n] = b]
         IN /\ Strung(g, L \ {b}) /\ LiveBufs(g) = LiveBufs(h)
            /\ g.refs = h.refs /\ g.consts = h.consts
            /\ g.valuestring = h.valuestring /\ g.text = h.text
  <1> DEFINE g == [h EXCEPT !.string[n] = b]
  <1>1. h \in Heap /\ b \in LiveBufs(h) /\ b # NULL /\ n \in Nodes /\ h.consts \subseteq Live(h)
    BY HeapAssumption DEF Sound, TypeOKIn, Strung, HeldIn, LiveBufs, Live
  <1>2. /\ g.type = h.type /\ g.refs = h.refs /\ g.consts = h.consts
        /\ g.string = [h.string EXCEPT ![n] = b]
        /\ g.valuestring = h.valuestring /\ g.text = h.text
    BY <1>1 DEF Heap
  <1>3. Live(g) = Live(h) /\ LiveBufs(g) = LiveBufs(h)
    BY <1>2 DEF Live, LiveBufs
  <1> HIDE DEF g
  <1>4. /\ \A m \in Live(h) : ValueOf(g, m) = ValueOf(h, m) /\ (m # n => KeyOf(g, m) = KeyOf(h, m))
        /\ KeyOf(h, n) = NULL /\ KeyOf(g, n) = b
    BY <1>1, <1>2 DEF ValueOf, KeyOf, Heap, Live
  <1>5. HeldIn(g, L \ {b})
    <2>1. \A m \in Live(h) : ValueOf(h, m) # b /\ KeyOf(h, m) # b
      BY <1>1 DEF Strung, HeldIn
    <2>2. \A m \in Live(g) : /\ ValueOf(g, m) \in (LiveBufs(g) \ (L \ {b})) \cup {NULL}
                            /\ KeyOf(g, m) \in (LiveBufs(g) \ (L \ {b})) \cup {NULL}
      BY <1>1, <1>3, <1>4 DEF Strung, HeldIn
    <2>3. \A m, k \in Live(g) : ValueOf(g, m) = ValueOf(g, k) /\ ValueOf(g, m) # NULL => m = k
      BY <1>3, <1>4 DEF Strung, HeldIn
    <2>4. \A m, k \in Live(g) : KeyOf(g, m) = KeyOf(g, k) /\ KeyOf(g, m) # NULL => m = k
      BY <1>3, <1>4, <2>1 DEF Strung, HeldIn
    <2>5. \A m, k \in Live(g) : ValueOf(g, m) = KeyOf(g, k) => ValueOf(g, m) = NULL
      BY <1>3, <1>4, <2>1 DEF Strung, HeldIn
    <2>6. \A c \in LiveBufs(g) \ (L \ {b}) : \E m \in Live(g) : c = ValueOf(g, m) \/ c = KeyOf(g, m)
      <3> TAKE c \in LiveBufs(g) \ (L \ {b})
      <3>1. CASE c = b
        BY <1>3, <1>4, <3>1
      <3>2. CASE c # b
        <4>1. PICK m \in Live(h) : c = ValueOf(h, m) \/ c = KeyOf(h, m)
          BY <1>3, <3>2 DEF Strung, HeldIn
        <4>2. c # NULL
          BY HeapAssumption DEF LiveBufs
        <4> QED BY <1>3, <1>4, <4>1, <4>2
      <3> QED BY <3>1, <3>2
    <2> QED BY <1>3, <2>2, <2>3, <2>4, <2>5, <2>6 DEF Strung, HeldIn
  <1>6. BorrowedIn(g)
    BY <1>1, <1>2, <1>3 DEF Strung, BorrowedIn, Heap, Live
  <1> QED BY <1>2, <1>3, <1>5, <1>6 DEF Strung, g

\* A reference takes a string of the caller's, or the value of another node.
LEMMA ReferToValueStrung ==
  ASSUME NEW h, NEW R, Sound(h, R), NEW L, Strung(h, L), NEW w \in h.refs,
         NEW v, v \in Texts \cup {NULL} \/ \E n \in Live(h) : h.valuestring[n] = v
  PROVE  Strung([h EXCEPT !.valuestring[w] = v], L)
  <1> DEFINE g == [h EXCEPT !.valuestring[w] = v]
  <1>1. h \in Heap /\ w \in Nodes /\ h.refs \subseteq Live(h)
    BY DEF Sound, TypeOKIn, Live
  <1>2. /\ g.type = h.type /\ g.refs = h.refs /\ g.consts = h.consts
        /\ g.valuestring = [h.valuestring EXCEPT ![w] = v]
        /\ g.string = h.string /\ g.text = h.text
    BY <1>1 DEF Heap
  <1>3. Live(g) = Live(h) /\ LiveBufs(g) = LiveBufs(h)
    BY <1>2 DEF Live, LiveBufs
  <1> HIDE DEF g
  <1>4. \A m \in Live(h) : KeyOf(g, m) = KeyOf(h, m) /\ ValueOf(g, m) = ValueOf(h, m)
    BY <1>1, <1>2 DEF ValueOf, KeyOf, Heap, Live
  <1>5. HeldIn(g, L)
    BY <1>3, <1>4 DEF Strung, HeldIn
  <1>6. v \in Texts \cup {NULL} \/ \E n \in Live(h) \ h.refs : h.valuestring[n] = v
    BY DEF Strung, BorrowedIn
  <1>7. BorrowedIn(g)
    BY <1>1, <1>2, <1>3, <1>6 DEF Strung, BorrowedIn, Heap, Live
  <1> QED BY <1>5, <1>7 DEF Strung, g

\* What FreeText leaves of the buffers.
LEMMA FreeTextFields ==
  ASSUME NEW h, h \in Heap, NEW p
  PROVE  LET g == FreeText(h, p)
         IN /\ g.type = h.type /\ g.refs = h.refs /\ g.consts = h.consts
            /\ g.valuestring = h.valuestring /\ g.string = h.string
            /\ LiveBufs(g) = LiveBufs(h) \ {p} /\ g \in Heap
  BY DEF FreeText, Blank, Heap, LiveBufs

\* A key that its node owns is freed and a fresh copy put in its place.
LEMMA OwnKeyStrung ==
  ASSUME NEW h, NEW R, Sound(h, R), NEW L, Strung(h, L), NEW n \in Live(h), NEW b \in L
  PROVE  LET g == [FreeKey(h, n) EXCEPT !.consts = @ \ {n}, !.string[n] = b]
         IN Strung(g, L \ {b}) /\ g \in Heap
  <1> DEFINE f == FreeKey(h, n)
             g == [f EXCEPT !.consts = @ \ {n}, !.string[n] = b]
             old == KeyOf(h, n)
  <1>1. h \in Heap /\ b \in LiveBufs(h) /\ b # NULL /\ n \in Nodes /\ h.consts \subseteq Live(h)
    BY HeapAssumption DEF Sound, TypeOKIn, Strung, HeldIn, LiveBufs, Live
  <1>2. old \in (LiveBufs(h) \ L) \cup {NULL}
    BY DEF Strung, HeldIn
  <1>3. /\ f \in Heap /\ f.type = h.type /\ f.refs = h.refs /\ f.consts = h.consts
        /\ f.valuestring = h.valuestring /\ f.string = h.string
        /\ LiveBufs(f) = LiveBufs(h) \ {old}
    <2>1. CASE n \in h.consts
      BY <1>1, <2>1, HeapAssumption DEF FreeKey, KeyOf, LiveBufs
    <2>2. CASE n \notin h.consts
      BY <1>1, <2>2, FreeTextFields DEF FreeKey, KeyOf
    <2> QED BY <2>1, <2>2
  <1> HIDE DEF f
  <1>4. /\ g.type = h.type /\ g.refs = h.refs /\ g.consts = h.consts \ {n}
        /\ g.valuestring = h.valuestring /\ g.string = [h.string EXCEPT ![n] = b]
        /\ g.text = f.text
    BY <1>3 DEF Heap
  <1>a. g \in Heap
    BY <1>1, <1>3 DEF Heap, LiveBufs
  <1>5. Live(g) = Live(h) /\ LiveBufs(g) = LiveBufs(h) \ {old}
    BY <1>3, <1>4 DEF Live, LiveBufs
  <1> HIDE DEF g
  <1>6. /\ \A m \in Live(h) : ValueOf(g, m) = ValueOf(h, m) /\ (m # n => KeyOf(g, m) = KeyOf(h, m))
        /\ KeyOf(g, n) = b
    BY <1>1, <1>4 DEF ValueOf, KeyOf, Heap, Live
  <1>7. /\ \A m \in Live(h) : m # n /\ KeyOf(h, m) = old => old = NULL
        /\ \A m \in Live(h) : ValueOf(h, m) = old => old = NULL
    BY DEF Strung, HeldIn
  <1>8. KeyOf(h, n) = old
    OBVIOUS
  <1> HIDE DEF old
  <1>9. HeldIn(g, L \ {b})
    <2>1. L \ {b} \subseteq LiveBufs(g)
      BY <1>2, <1>5, HeapAssumption DEF Strung, HeldIn, LiveBufs
    <2>2. \A m \in Live(g) : ValueOf(g, m) \in (LiveBufs(g) \ (L \ {b})) \cup {NULL}
      BY <1>5, <1>6, <1>7 DEF Strung, HeldIn
    <2>3. \A m \in Live(g) : KeyOf(g, m) \in (LiveBufs(g) \ (L \ {b})) \cup {NULL}
      BY <1>1, <1>2, <1>5, <1>6, <1>7 DEF Strung, HeldIn
    <2>4. \A m, k \in Live(g) : ValueOf(g, m) = ValueOf(g, k) /\ ValueOf(g, m) # NULL => m = k
      BY <1>5, <1>6 DEF Strung, HeldIn
    <2>5. \A m, k \in Live(g) : KeyOf(g, m) = KeyOf(g, k) /\ KeyOf(g, m) # NULL => m = k
      BY <1>1, <1>5, <1>6 DEF Strung, HeldIn
    <2>6. \A m, k \in Live(g) : ValueOf(g, m) = KeyOf(g, k) => ValueOf(g, m) = NULL
      BY <1>1, <1>5, <1>6 DEF Strung, HeldIn
    <2>7. \A c \in LiveBufs(g) \ (L \ {b}) : \E m \in Live(g) : c = ValueOf(g, m) \/ c = KeyOf(g, m)
      <3> TAKE c \in LiveBufs(g) \ (L \ {b})
      <3>1. CASE c = b
        BY <1>5, <1>6, <3>1
      <3>2. CASE c # b
        <4>1. PICK m \in Live(h) : c = ValueOf(h, m) \/ c = KeyOf(h, m)
          BY <1>5, <3>2 DEF Strung, HeldIn
        <4>2. c # old
          BY <1>5
        <4> QED BY <1>5, <1>6, <1>8, <4>1, <4>2
      <3> QED BY <3>1, <3>2
    <2> QED BY <2>1, <2>2, <2>3, <2>4, <2>5, <2>6, <2>7 DEF HeldIn
  <1>10. BorrowedIn(g)
    BY <1>1, <1>4, <1>5 DEF Strung, BorrowedIn, Heap, Live
  <1> QED BY <1>a, <1>9, <1>10 DEF Strung, g, f

\* A key that its node owns is freed and a string of the caller's borrowed in
\* its place.
LEMMA BorrowKeyStrung ==
  ASSUME NEW h, NEW R, Sound(h, R), NEW L, Strung(h, L), NEW n \in Live(h), NEW s \in Texts
  PROVE  LET g == [FreeKey(h, n) EXCEPT !.consts = @ \cup {n}, !.string[n] = s]
         IN Strung(g, L) /\ g \in Heap
  <1> DEFINE f == FreeKey(h, n)
             g == [f EXCEPT !.consts = @ \cup {n}, !.string[n] = s]
             old == KeyOf(h, n)
  <1>1. h \in Heap /\ n \in Nodes /\ h.consts \subseteq Live(h)
    BY DEF Sound, TypeOKIn, Live
  <1>2. old \in (LiveBufs(h) \ L) \cup {NULL}
    BY DEF Strung, HeldIn
  <1>3. /\ f \in Heap /\ f.type = h.type /\ f.refs = h.refs /\ f.consts = h.consts
        /\ f.valuestring = h.valuestring /\ f.string = h.string
        /\ LiveBufs(f) = LiveBufs(h) \ {old}
    <2>1. CASE n \in h.consts
      BY <1>1, <2>1, HeapAssumption DEF FreeKey, KeyOf, LiveBufs
    <2>2. CASE n \notin h.consts
      BY <1>1, <2>2, FreeTextFields DEF FreeKey, KeyOf
    <2> QED BY <2>1, <2>2
  <1> HIDE DEF f
  <1>4. /\ g.type = h.type /\ g.refs = h.refs /\ g.consts = h.consts \cup {n}
        /\ g.valuestring = h.valuestring /\ g.string = [h.string EXCEPT ![n] = s]
        /\ g.text = f.text
    BY <1>3 DEF Heap
  <1>a. g \in Heap
    BY <1>1, <1>3 DEF Heap
  <1>5. Live(g) = Live(h) /\ LiveBufs(g) = LiveBufs(h) \ {old}
    BY <1>3, <1>4 DEF Live, LiveBufs
  <1> HIDE DEF g
  <1>6. /\ \A m \in Live(h) : ValueOf(g, m) = ValueOf(h, m) /\ (m # n => KeyOf(g, m) = KeyOf(h, m))
        /\ KeyOf(g, n) = NULL
    BY <1>1, <1>4 DEF ValueOf, KeyOf, Heap, Live
  <1>7. /\ \A m \in Live(h) : m # n /\ KeyOf(h, m) = old => old = NULL
        /\ \A m \in Live(h) : ValueOf(h, m) = old => old = NULL
        /\ KeyOf(h, n) = old
    BY DEF Strung, HeldIn
  <1> HIDE DEF old
  <1>8. HeldIn(g, L)
    <2>1. L \subseteq LiveBufs(g)
      BY <1>2, <1>5, HeapAssumption DEF Strung, HeldIn, LiveBufs
    <2>2. \A m \in Live(g) : ValueOf(g, m) \in (LiveBufs(g) \ L) \cup {NULL}
      BY <1>5, <1>6, <1>7 DEF Strung, HeldIn
    <2>3. \A m \in Live(g) : KeyOf(g, m) \in (LiveBufs(g) \ L) \cup {NULL}
      BY <1>5, <1>6, <1>7 DEF Strung, HeldIn
    <2>4. \A m, k \in Live(g) : ValueOf(g, m) = ValueOf(g, k) /\ ValueOf(g, m) # NULL => m = k
      BY <1>5, <1>6 DEF Strung, HeldIn
    <2>5. \A m, k \in Live(g) : KeyOf(g, m) = KeyOf(g, k) /\ KeyOf(g, m) # NULL => m = k
      BY <1>5, <1>6 DEF Strung, HeldIn
    <2>6. \A m, k \in Live(g) : ValueOf(g, m) = KeyOf(g, k) => ValueOf(g, m) = NULL
      BY <1>5, <1>6 DEF Strung, HeldIn
    <2>7. \A c \in LiveBufs(g) \ L : \E m \in Live(g) : c = ValueOf(g, m) \/ c = KeyOf(g, m)
      BY <1>5, <1>6, <1>7 DEF Strung, HeldIn
    <2> QED BY <2>1, <2>2, <2>3, <2>4, <2>5, <2>6, <2>7 DEF HeldIn
  <1>9. BorrowedIn(g)
    BY <1>1, <1>4, <1>5 DEF Strung, BorrowedIn, Heap, Live
  <1> QED BY <1>a, <1>8, <1>9 DEF Strung, g, f

\* A value that no reference shares is freed and a fresh copy put in its place.
LEMMA ChangeValueStrung ==
  ASSUME NEW h, NEW R, Sound(h, R), NEW L, Strung(h, L), NEW n \in Live(h) \ h.refs, NEW b \in L,
         \A w \in h.refs : h.valuestring[w] = NULL \/ h.valuestring[w] # h.valuestring[n]
  PROVE  Strung([FreeText(h, h.valuestring[n]) EXCEPT !.valuestring[n] = b], L \ {b})
  <1> DEFINE old == h.valuestring[n]
             f == FreeText(h, old)
             g == [f EXCEPT !.valuestring[n] = b]
  <1>1. h \in Heap /\ b \in LiveBufs(h) /\ b # NULL /\ n \in Nodes /\ h.refs \subseteq Live(h)
    BY HeapAssumption DEF Sound, TypeOKIn, Strung, HeldIn, LiveBufs, Live
  <1>2. old = ValueOf(h, n) /\ old \in (LiveBufs(h) \ L) \cup {NULL}
    BY DEF Strung, HeldIn, ValueOf
  <1>3. /\ f \in Heap /\ f.type = h.type /\ f.refs = h.refs /\ f.consts = h.consts
        /\ f.valuestring = h.valuestring /\ f.string = h.string
        /\ LiveBufs(f) = LiveBufs(h) \ {old}
    BY <1>1, FreeTextFields
  <1> HIDE DEF f
  <1>4. /\ g.type = h.type /\ g.refs = h.refs /\ g.consts = h.consts
        /\ g.valuestring = [h.valuestring EXCEPT ![n] = b] /\ g.string = h.string
        /\ g.text = f.text
    BY <1>3 DEF Heap
  <1>5. Live(g) = Live(h) /\ LiveBufs(g) = LiveBufs(h) \ {old}
    BY <1>3, <1>4 DEF Live, LiveBufs
  <1> HIDE DEF g
  <1>6. /\ \A m \in Live(h) : KeyOf(g, m) = KeyOf(h, m) /\ (m # n => ValueOf(g, m) = ValueOf(h, m))
        /\ ValueOf(g, n) = b
    BY <1>1, <1>4 DEF ValueOf, KeyOf, Heap, Live
  <1>7. /\ \A m \in Live(h) : m # n /\ ValueOf(h, m) = old => old = NULL
        /\ \A m \in Live(h) : KeyOf(h, m) = old => old = NULL
    BY <1>2 DEF Strung, HeldIn
  <1>8. \A w \in h.refs : h.valuestring[w] = NULL \/ h.valuestring[w] # old
    OBVIOUS
  <1>a. \A m \in Live(h) : m # n => g.valuestring[m] = h.valuestring[m]
    BY <1>1, <1>4 DEF Heap, Live
  <1>b. h.valuestring[n] = old
    OBVIOUS
  <1> HIDE DEF old
  <1>9. HeldIn(g, L \ {b})
    <2>1. L \ {b} \subseteq LiveBufs(g)
      BY <1>2, <1>5, HeapAssumption DEF Strung, HeldIn, LiveBufs
    <2>2. \A m \in Live(g) : KeyOf(g, m) \in (LiveBufs(g) \ (L \ {b})) \cup {NULL}
      BY <1>5, <1>6, <1>7 DEF Strung, HeldIn
    <2>3. \A m \in Live(g) : ValueOf(g, m) \in (LiveBufs(g) \ (L \ {b})) \cup {NULL}
      BY <1>1, <1>2, <1>5, <1>6, <1>7 DEF Strung, HeldIn
    <2>4. \A m, k \in Live(g) : KeyOf(g, m) = KeyOf(g, k) /\ KeyOf(g, m) # NULL => m = k
      BY <1>5, <1>6 DEF Strung, HeldIn
    <2>5. \A m, k \in Live(g) : ValueOf(g, m) = ValueOf(g, k) /\ ValueOf(g, m) # NULL => m = k
      BY <1>1, <1>5, <1>6 DEF Strung, HeldIn
    <2>6. \A m, k \in Live(g) : ValueOf(g, m) = KeyOf(g, k) => ValueOf(g, m) = NULL
      BY <1>1, <1>5, <1>6 DEF Strung, HeldIn
    <2>7. \A c \in LiveBufs(g) \ (L \ {b}) : \E m \in Live(g) : c = ValueOf(g, m) \/ c = KeyOf(g, m)
      <3> TAKE c \in LiveBufs(g) \ (L \ {b})
      <3>1. CASE c = b
        BY <1>5, <1>6, <3>1
      <3>2. CASE c # b
        <4>1. PICK m \in Live(h) : c = ValueOf(h, m) \/ c = KeyOf(h, m)
          BY <1>5, <3>2 DEF Strung, HeldIn
        <4>2. c # old
          BY <1>5
        <4> QED BY <1>2, <1>5, <1>6, <4>1, <4>2
      <3> QED BY <3>1, <3>2
    <2> QED BY <2>1, <2>2, <2>3, <2>4, <2>5, <2>6, <2>7 DEF HeldIn
  <1>10. BorrowedIn(g)
    <2>1. ASSUME NEW w \in h.refs, NEW m \in Live(h) \ h.refs, h.valuestring[m] = h.valuestring[w]
          PROVE  h.valuestring[w] = NULL \/ g.valuestring[m] = g.valuestring[w]
      BY <1>1, <1>8, <1>a, <1>b, <2>1
    <2> QED BY <1>1, <1>4, <1>5, <1>a, <2>1 DEF Strung, BorrowedIn
  <1> QED BY <1>9, <1>10 DEF Strung, g, f, old

\* replace_via_pointer moves a key that its node owns from x to r.
LEMMA TakePlaceStrung ==
  ASSUME NEW h, NEW R, Sound(h, R), NEW L, Strung(h, L), NEW p \in Live(h) \ h.refs,
         NEW x \in Kids(h, p), NEW r \in R, x \notin h.consts \/ h.string[r] # NULL
  PROVE  Strung(TakePlace(h, p, x, r), L)
  <1> DEFINE g == TakePlace(h, p, x, r)
             moves == h.string[x] # NULL /\ h.string[r] = NULL
  <1>1. /\ h \in Heap /\ x \in Live(h) /\ r \in Live(h) /\ r # x /\ x \in Nodes /\ r \in Nodes
        /\ h.consts \subseteq Live(h)
    BY KidsAreKids DEF Sound, TypeOKIn, Live
  <1>2. /\ g.type = h.type /\ g.refs = h.refs /\ g.consts = h.consts
        /\ g.valuestring = h.valuestring /\ g.text = h.text
        /\ g.string = IF moves THEN [h.string EXCEPT ![r] = h.string[x], ![x] = NULL] ELSE h.string
    BY <1>1 DEF TakePlace, Heap
  <1> HIDE DEF g
  <1>3. CASE ~moves
    BY <1>2, <1>3, LinksLeaveStrings DEF g
  <1>4. CASE moves
    <2>1. x \notin h.consts /\ r \notin h.consts
      BY <1>4, HeapAssumption DEF Strung, BorrowedIn
    <2>2. /\ g.string[r] = h.string[x] /\ g.string[x] = NULL
          /\ \A m \in Live(h) : m # x /\ m # r => g.string[m] = h.string[m]
      BY <1>1, <1>2, <1>4 DEF Heap, Live
    <2>3. Live(g) = Live(h) /\ LiveBufs(g) = LiveBufs(h)
      BY <1>2 DEF Live, LiveBufs
    <2>4. /\ \A m \in Live(h) : ValueOf(g, m) = ValueOf(h, m)
          /\ \A m \in Live(h) : m # x /\ m # r => KeyOf(g, m) = KeyOf(h, m)
          /\ KeyOf(g, r) = KeyOf(h, x) /\ KeyOf(g, x) = NULL /\ KeyOf(h, r) = NULL
      BY <1>2, <1>4, <2>1, <2>2 DEF ValueOf, KeyOf
    <2>5. HeldIn(g, L)
      <3>1. \A m \in Live(g) : /\ ValueOf(g, m) \in (LiveBufs(g) \ L) \cup {NULL}
                              /\ KeyOf(g, m) \in (LiveBufs(g) \ L) \cup {NULL}
        BY <1>1, <2>3, <2>4 DEF Strung, HeldIn
      <3>2. \A m, k \in Live(g) : ValueOf(g, m) = ValueOf(g, k) /\ ValueOf(g, m) # NULL => m = k
        BY <2>3, <2>4 DEF Strung, HeldIn
      <3>3. \A m, k \in Live(g) : KeyOf(g, m) = KeyOf(g, k) /\ KeyOf(g, m) # NULL => m = k
        BY <1>1, <2>3, <2>4 DEF Strung, HeldIn
      <3>4. \A m, k \in Live(g) : ValueOf(g, m) = KeyOf(g, k) => ValueOf(g, m) = NULL
        BY <1>1, <2>3, <2>4 DEF Strung, HeldIn
      <3>5. \A c \in LiveBufs(g) \ L : \E m \in Live(g) : c = ValueOf(g, m) \/ c = KeyOf(g, m)
        <4> TAKE c \in LiveBufs(g) \ L
        <4>1. PICK m \in Live(h) : c = ValueOf(h, m) \/ c = KeyOf(h, m)
          BY <2>3 DEF Strung, HeldIn
        <4>2. c # NULL
          BY HeapAssumption DEF LiveBufs
        <4> QED BY <1>1, <2>3, <2>4, <4>1, <4>2
      <3> QED BY <2>3, <3>1, <3>2, <3>3, <3>4, <3>5 DEF Strung, HeldIn
    <2>6. BorrowedIn(g)
      BY <1>1, <1>2, <2>1, <2>2, <2>3 DEF Strung, BorrowedIn
    <2> QED BY <2>5, <2>6 DEF Strung, g
  <1> QED BY <1>3, <1>4

\* free_cjson frees the buffers of the nodes it frees, and no others: nothing
\* that stays loses a string, as long as no reference looked at one.
LEMMA FreeTreeStrung ==
  ASSUME NEW h, NEW R, Sound(h, R), Strung(h, {}), NEW x \in R, MayFree(h, x)
  PROVE  Strung(FreeTree(h, x), {})
  <1> DEFINE g == FreeTree(h, x)
             gone == Subtree(h, x)
             own == OwnStrings(h, gone)
  <1>1. h \in Heap /\ gone \subseteq Live(h) /\ gone \subseteq Nodes
        /\ h.refs \subseteq Live(h) /\ h.consts \subseteq Live(h)
    BY SubtreeClosedOff DEF Sound, TypeOKIn, Live
  <1>2. \A w \in h.refs \ gone : h.valuestring[w] = NULL \/ h.valuestring[w] \notin own
    BY DEF MayFree
  <1>3. \A c \in LiveBufs(h) : c \in own <=> \E m \in gone : c = ValueOf(h, m) \/ c = KeyOf(h, m)
    BY HeapAssumption DEF OwnStrings, ValueOf, KeyOf, LiveBufs
  <1>4. \A m \in gone \ h.refs : h.valuestring[m] \in own
    BY DEF OwnStrings
  <1> HIDE DEF gone
  <1>5. /\ g.refs = h.refs \ gone /\ g.consts = h.consts \ gone
        /\ \A m \in Live(h) \ gone : g.valuestring[m] = h.valuestring[m] /\ g.string[m] = h.string[m]
        /\ Live(g) = Live(h) \ gone
    BY <1>1 DEF FreeTree, Blank, Heap, Live, gone
  <1>6. LiveBufs(g) = LiveBufs(h) \ own
    BY <1>1 DEF FreeTree, Blank, Heap, LiveBufs, gone
  <1> HIDE DEF g, own
  <1>7. \A m \in Live(g) : ValueOf(g, m) = ValueOf(h, m) /\ KeyOf(g, m) = KeyOf(h, m)
    BY <1>5 DEF ValueOf, KeyOf
  <1>8. ASSUME NEW m \in Live(g)
        PROVE  /\ ValueOf(h, m) = NULL \/ ValueOf(h, m) \notin own
               /\ KeyOf(h, m) = NULL \/ KeyOf(h, m) \notin own
    BY <1>1, <1>3, <1>5 DEF Strung, HeldIn
  <1>9. HeldIn(g, {})
    <2>1. \A m \in Live(g) : /\ ValueOf(g, m) \in LiveBufs(g) \cup {NULL}
                            /\ KeyOf(g, m) \in LiveBufs(g) \cup {NULL}
      BY <1>5, <1>6, <1>7, <1>8 DEF Strung, HeldIn
    <2>2. \A m, k \in Live(g) :
            /\ ValueOf(g, m) = ValueOf(g, k) /\ ValueOf(g, m) # NULL => m = k
            /\ KeyOf(g, m) = KeyOf(g, k) /\ KeyOf(g, m) # NULL => m = k
            /\ ValueOf(g, m) = KeyOf(g, k) => ValueOf(g, m) = NULL
      BY <1>5, <1>7 DEF Strung, HeldIn
    <2>3. \A c \in LiveBufs(g) : \E m \in Live(g) : c = ValueOf(g, m) \/ c = KeyOf(g, m)
      BY <1>3, <1>5, <1>6, <1>7 DEF Strung, HeldIn
    <2> QED BY <2>1, <2>2, <2>3 DEF HeldIn
  <1>10. BorrowedIn(g)
    BY <1>1, <1>2, <1>4, <1>5, HeapAssumption DEF Strung, BorrowedIn
  <1> QED BY <1>9, <1>10 DEF Strung, g

\* attach_child leaves the strings alone.
LEMMA AttachLeavesStrings ==
  ASSUME NEW h, h \in Heap, NEW L, Strung(h, L), NEW p, NEW x
  PROVE  Strung(AttachChild(h, p, x), L)
  <1> DEFINE g == AttachChild(h, p, x)
  <1>1. /\ g.type = h.type /\ g.refs = h.refs /\ g.consts = h.consts
        /\ g.valuestring = h.valuestring /\ g.string = h.string /\ g.text = h.text
    BY DEF AttachChild, Heap
  <1> HIDE DEF g
  <1> QED BY <1>1, LinksLeaveStrings DEF g

-----------------------------------------------------------------------------
(* Fresh nodes with their strings *)

\* create_string_like: the item holds its buffer, which is new.
LEMMA StringItemStrung ==
  ASSUME NEW h, NEW R, Sound(h, R), Strung(h, {}), NEW n \in Nodes \ Live(h), NEW t \in Strings,
         NEW s \in Texts, NEW b \in Bufs \ LiveBufs(h)
  PROVE  LET g == StringItem(h, t, s, n, b)
         IN /\ Strung(g, {}) /\ LiveBufs(g) = LiveBufs(h) \cup {b}
            /\ g.refs = h.refs /\ g.string = h.string
            /\ g.valuestring[n] = b /\ n \notin g.consts
            /\ \A m \in Nodes \ {n} : g.valuestring[m] = h.valuestring[m]
  <1> DEFINE c == NewText(h, b, s)
             k == NewNode(c, n, t)
             g == [k EXCEPT !.valuestring[n] = b]
  <1>1. /\ Strung(c, {b}) /\ LiveBufs(c) = LiveBufs(h) \cup {b} /\ c.refs = h.refs
        /\ c.valuestring = h.valuestring /\ c.string = h.string
    BY NewTextStrung
  <1>2. Sound(c, R) /\ n \in Nodes \ Live(c)
    BY NewTextSound DEF Keeps
  <1> HIDE DEF c
  <1>3. t \in Types
    BY DEF Strings, Types
  <1>4. /\ Strung(k, {b}) /\ k.text = c.text /\ n \notin k.consts /\ k.valuestring[n] = NULL
        /\ k.valuestring = c.valuestring /\ k.string = c.string /\ k.refs = c.refs
    <2>1. Allocates(c, k, n, t)
      BY DEF Allocates
    <2>2. c \in Heap /\ k.refs = c.refs
      BY <1>2 DEF Sound, TypeOKIn, Heap, NewNode
    <2> HIDE DEF k
    <2> QED BY <1>1, <1>2, <1>3, <2>1, <2>2, NewNodeStrung
  <1>5. Sound(k, R \cup {n}) /\ n \in Live(k) /\ n \notin k.refs /\ k \in Heap
    <2>1. Adds(c, k, n, R)
      BY <1>2, <1>3, NewNodeAdds DEF Allocates
    <2>2. n \notin c.refs
      BY <1>2 DEF Sound, TypeOKIn
    <2> HIDE DEF k
    <2> QED BY <1>4, <2>1, <2>2 DEF Adds, Sound, TypeOKIn
  <1> HIDE DEF k
  <1>6. Strung(g, {b} \ {b}) /\ LiveBufs(g) = LiveBufs(k) /\ g.refs = k.refs
        /\ g.consts = k.consts /\ g.string = k.string
    BY <1>4, <1>5, TakeValueStrung
  <1>7. g.valuestring = [k.valuestring EXCEPT ![n] = b] /\ LiveBufs(k) = LiveBufs(c)
    BY <1>4, <1>5 DEF Heap, LiveBufs
  <1>8. {b} \ {b} = {}
    OBVIOUS
  <1> HIDE DEF g
  <1>9. /\ g.valuestring[n] = b
        /\ \A m \in Nodes \ {n} : g.valuestring[m] = h.valuestring[m]
    BY <1>1, <1>4, <1>5, <1>7 DEF Heap
  <1> QED BY <1>1, <1>4, <1>6, <1>7, <1>8, <1>9 DEF StringItem, c, k, g

\* wrap_as_reference: the wrapper holds no string of its own.
LEMMA WrapStrung ==
  ASSUME NEW h, NEW R, Sound(h, R), Strung(h, {}), NEW r \in Nodes \ Live(h), NEW item \in Live(h)
  PROVE  LET g == WrapAsReference(h, r, item)
         IN Strung(g, {}) /\ LiveBufs(g) = LiveBufs(h) /\ r \in g.refs /\ g.string[r] = NULL
  <1> DEFINE c == NewReference(h, r, h.type[item])
             v == [c EXCEPT !.valuestring[r] = h.valuestring[item]]
             g == [v EXCEPT !.child[r] = h.child[item]]
  <1>1. h \in Heap /\ item \in Nodes /\ h.type[item] \in Types /\ r \in Nodes /\ r # item
    BY DEF Sound, TypeOKIn, Heap, Live
  <1>2. /\ Strung(c, {}) /\ c.text = h.text /\ c.valuestring = h.valuestring
        /\ c.string[r] = NULL /\ r \in c.refs
    <2>1. Allocates(h, c, r, h.type[item])
      BY DEF Allocates
    <2>2. r \in c.refs
      BY <1>1 DEF NewReference, Heap
    <2> HIDE DEF c
    <2> QED BY <1>1, <2>1, <2>2, NewNodeStrung
  <1>3. Sound(c, R \cup {r}) /\ Live(c) = Live(h) \cup {r} /\ c \in Heap
    <2>1. Adds(h, c, r, R)
      BY <1>1, NewNodeAdds DEF Allocates
    <2> HIDE DEF c
    <2> QED BY <2>1 DEF Adds, Sound, TypeOKIn
  <1> HIDE DEF c
  <1>4. Strung(v, {})
    <2>1. item \in Live(c) /\ c.valuestring[item] = h.valuestring[item]
      BY <1>2, <1>3
    <2> QED BY <1>2, <1>3, <2>1, ReferToValueStrung
  <1>5. /\ v.type = c.type /\ v.refs = c.refs /\ v.consts = c.consts /\ v.string = c.string
        /\ v.text = c.text
        /\ g.type = v.type /\ g.refs = v.refs /\ g.consts = v.consts /\ g.string = v.string
        /\ g.text = v.text /\ g.valuestring = v.valuestring
    BY <1>3 DEF Heap
  <1> HIDE DEF v, g
  <1>6. Strung(g, {})
    BY <1>4, <1>5, LinksLeaveStrings
  <1>7. LiveBufs(g) = LiveBufs(h)
    BY <1>2, <1>5 DEF LiveBufs
  <1> QED BY <1>2, <1>5, <1>6, <1>7 DEF WrapAsReference, c, v, g

\* A string or raw node is given a copy for its value.
LEMMA GiveValueStrung ==
  ASSUME NEW h, NEW R, Sound(h, R), Strung(h, {}), NEW n \in Live(h) \ h.refs,
         h.type[n] \in Strings, h.valuestring[n] = NULL,
         NEW b \in Bufs \ LiveBufs(h), NEW s \in Texts
  PROVE  LET g == [NewText(h, b, s) EXCEPT !.valuestring[n] = b]
         IN /\ Keeps(h, g, R) /\ Strung(g, {}) /\ LiveBufs(g) = LiveBufs(h) \cup {b}
            /\ g.consts = h.consts /\ g.string = h.string /\ g.child = h.child
  <1> DEFINE c == NewText(h, b, s)
             g == [c EXCEPT !.valuestring[n] = b]
  <1>1. /\ Strung(c, {b}) /\ LiveBufs(c) = LiveBufs(h) \cup {b}
        /\ c.refs = h.refs /\ c.consts = h.consts
        /\ c.valuestring = h.valuestring /\ c.string = h.string
    <2>1. {} \cup {b} = {b}
      OBVIOUS
    <2>2. /\ Strung(c, {} \cup {b}) /\ LiveBufs(c) = LiveBufs(h) \cup {b}
          /\ c.refs = h.refs /\ c.consts = h.consts
          /\ c.valuestring = h.valuestring /\ c.string = h.string
      BY NewTextStrung
    <2> HIDE DEF c
    <2> QED BY <2>1, <2>2
  <1>2. Keeps(h, c, R) /\ c.child = h.child
    BY NewTextSound
  <1> HIDE DEF c
  <1>3. Sound(c, R) /\ n \in Live(c) \ c.refs /\ c.valuestring[n] = NULL /\ c.type = h.type
    BY <1>1, <1>2 DEF Keeps
  <1>4. Keeps(c, g, R) /\ g.child = c.child
    BY <1>3, SetValueSound
  <1>5. /\ Strung(g, {b} \ {b}) /\ LiveBufs(g) = LiveBufs(c)
        /\ g.consts = c.consts /\ g.string = c.string
    BY <1>1, <1>3, TakeValueStrung
  <1> HIDE DEF g
  <1>6. {b} \ {b} = {} /\ Keeps(h, g, R)
    BY <1>2, <1>4 DEF Keeps
  <1> QED BY <1>1, <1>2, <1>4, <1>5, <1>6 DEF g, c

\* A node is given a copy for its key.
LEMMA GiveKeyStrung ==
  ASSUME NEW h, NEW R, Sound(h, R), Strung(h, {}), NEW n \in Live(h) \ h.consts,
         h.string[n] = NULL, NEW b \in Bufs \ LiveBufs(h), NEW s \in Texts
  PROVE  LET g == [NewText(h, b, s) EXCEPT !.string[n] = b]
         IN /\ Keeps(h, g, R) /\ Strung(g, {}) /\ LiveBufs(g) = LiveBufs(h) \cup {b}
            /\ g.consts = h.consts /\ g.valuestring = h.valuestring
            /\ g.child = h.child /\ g.next = h.next
  <1> DEFINE c == NewText(h, b, s)
             C == c.consts
             k == [c EXCEPT !.consts = C, !.string[n] = b]
             g == [c EXCEPT !.string[n] = b]
  <1>1. /\ Strung(c, {b}) /\ LiveBufs(c) = LiveBufs(h) \cup {b}
        /\ c.refs = h.refs /\ c.consts = h.consts
        /\ c.valuestring = h.valuestring /\ c.string = h.string
    <2>1. {} \cup {b} = {b}
      OBVIOUS
    <2>2. /\ Strung(c, {} \cup {b}) /\ LiveBufs(c) = LiveBufs(h) \cup {b}
          /\ c.refs = h.refs /\ c.consts = h.consts
          /\ c.valuestring = h.valuestring /\ c.string = h.string
      BY NewTextStrung
    <2> HIDE DEF c
    <2> QED BY <2>1, <2>2
  <1>2. Keeps(h, c, R) /\ c.child = h.child
    BY NewTextSound
  <1>a. h \in Heap /\ c.next = h.next
    BY DEF Sound, TypeOKIn, Heap, NewText
  <1> HIDE DEF c
  <1>3. /\ Sound(c, R) /\ n \in Live(c) \ c.consts /\ c.string[n] = NULL /\ c \in Heap
        /\ C \in SUBSET Live(c) /\ b \in Bufs \cup Texts \cup {NULL}
    BY <1>1, <1>2 DEF Keeps, Sound, TypeOKIn
  <1>4. k = g /\ g.child = c.child /\ g.next = c.next
    BY <1>3 DEF Heap
  <1> HIDE DEF C
  <1>5. Keeps(c, k, R)
    BY <1>3, SetKeySound, Zenon
  <1> HIDE DEF k
  <1>6. /\ Strung(g, {b} \ {b}) /\ LiveBufs(g) = LiveBufs(c)
        /\ g.consts = c.consts /\ g.valuestring = c.valuestring
    BY <1>1, <1>3, TakeKeyStrung
  <1> HIDE DEF g
  <1>7. {b} \ {b} = {} /\ Keeps(h, g, R)
    BY <1>2, <1>4, <1>5 DEF Keeps
  <1> QED BY <1>1, <1>2, <1>a, <1>4, <1>6, <1>7 DEF g, c

\* duplicate(item, false): the copy holds buffers of its own.
LEMMA CopyStrung ==
  ASSUME NEW h, NEW R, Sound(h, R), Strung(h, {}), NEW n \in Nodes \ Live(h), NEW item \in Live(h),
         NEW bv \in (Bufs \ LiveBufs(h)) \cup {NULL}, NEW bk \in (Bufs \ LiveBufs(h)) \cup {NULL},
         bv = NULL <=> ~Copied(h, h.valuestring[item]),
         bk = NULL <=> ~Copied(h, h.string[item]),
         bv = bk => bv = NULL
  PROVE  Strung(CopyNode(h, n, item, bv, bk), {})
  <1> DEFINE node == NewNode(h, n, h.type[item])
             value == Deref(h, h.valuestring[item])
             valued == IF Copied(h, h.valuestring[item])
                       THEN [NewText(node, bv, value) EXCEPT !.valuestring[n] = bv]
                       ELSE node
             name == Deref(h, h.string[item])
             keyed == [NewText(valued, bk, name) EXCEPT !.string[n] = bk]
             S == R \cup {n}
  <1>1. /\ h.type[item] \in Types /\ h \in Heap
        /\ h.valuestring[item] # NULL => h.type[item] \in Strings
        /\ n \notin h.refs
    BY DEF Sound, TypeOKIn, Heap, Live
  <1>2. /\ Sound(node, S) /\ n \in Live(node) /\ node.type[n] = h.type[item]
        /\ n \notin node.refs
    <2>1. Adds(h, node, n, R) /\ node.type[n] = h.type[item]
      BY <1>1, NewNodeAdds DEF Allocates
    <2>2. node.refs = h.refs
      BY <1>1 DEF NewNode, Heap
    <2> HIDE DEF node
    <2> QED BY <1>1, <2>1, <2>2 DEF Adds
  <1>3. /\ Strung(node, {}) /\ LiveBufs(node) = LiveBufs(h)
        /\ n \notin node.consts /\ node.valuestring[n] = NULL /\ node.string[n] = NULL
    <2>1. Allocates(h, node, n, h.type[item])
      BY DEF Allocates
    <2> HIDE DEF node
    <2> QED BY <1>1, <2>1, NewNodeStrung DEF LiveBufs
  <1> HIDE DEF node, S
  <1>4. /\ Sound(valued, S) /\ Strung(valued, {}) /\ n \in Live(valued)
        /\ LiveBufs(valued) \subseteq LiveBufs(h) \cup {bv}
        /\ n \notin valued.consts /\ valued.string[n] = NULL
    <2>1. CASE ~Copied(h, h.valuestring[item])
      BY <1>2, <1>3, <2>1
    <2>2. CASE Copied(h, h.valuestring[item])
      <3>1. bv \in Bufs \ LiveBufs(node) /\ value \in Texts /\ node.type[n] \in Strings
        BY <1>1, <1>2, <1>3, <2>2, HeapAssumption DEF Copied
      <3> HIDE DEF value
      <3> DEFINE g == [NewText(node, bv, value) EXCEPT !.valuestring[n] = bv]
      <3>2. /\ Keeps(node, g, S) /\ Strung(g, {}) /\ LiveBufs(g) = LiveBufs(node) \cup {bv}
            /\ g.consts = node.consts /\ g.string = node.string
        BY <1>2, <1>3, <3>1, GiveValueStrung
      <3>3. valued = g
        BY <2>2
      <3> HIDE DEF g, valued
      <3> QED BY <1>2, <1>3, <3>2, <3>3 DEF Keeps
    <2> QED BY <2>1, <2>2
  <1> HIDE DEF valued
  <1>5. CASE ~Copied(h, h.string[item])
    BY <1>4, <1>5 DEF CopyNode, valued, value, node
  <1>6. CASE Copied(h, h.string[item])
    <2>1. bk \in Bufs \ LiveBufs(valued) /\ name \in Texts
      BY <1>4, <1>6, HeapAssumption DEF Copied
    <2> HIDE DEF name
    <2>2. Strung(keyed, {})
      BY <1>4, <2>1, GiveKeyStrung
    <2> QED BY <1>6, <2>2 DEF CopyNode, keyed, name, valued, value, node
  <1> QED BY <1>5, <1>6

\* A root hung into an object under a fresh copy of a name.
LEMMA AttachNamedStrung ==
  ASSUME NEW h, NEW R, Sound(h, R), Strung(h, {}), NEW p \in Live(h) \ h.refs,
         NEW x \in R, NEW name, Deref(h, name) \in Texts, NEW b \in Bufs \ LiveBufs(h)
  PROVE  Strung(AttachNamedChild(h, p, name, x, b), {})
  <1> DEFINE c == NewText(h, b, Deref(h, name))
             k == [FreeKey(c, x) EXCEPT !.consts = @ \ {x}, !.string[x] = b]
             g == AttachChild(k, p, x)
  <1>1. Strung(c, {b})
    BY NewTextStrung
  <1>2. Sound(c, R) /\ x \in Live(c)
    BY NewTextSound DEF Keeps, Sound, TypeOKIn
  <1> HIDE DEF c
  <1>3. Strung(k, {b} \ {b}) /\ k \in Heap
    BY <1>1, <1>2, OwnKeyStrung
  <1>4. {b} \ {b} = {}
    OBVIOUS
  <1> HIDE DEF k
  <1>5. Strung(g, {})
    BY <1>3, <1>4, AttachLeavesStrings
  <1> QED BY <1>5 DEF AttachNamedChild, g, k, c

\* free_cjson of a tree that nothing borrows from: the strings of the nodes that
\* stay read as before.
LEMMA FreeTreeReads ==
  ASSUME NEW h, NEW R, Sound(h, R), Strung(h, {}), NEW x \in R, MayFree(h, x),
         NEW n \in Nodes \ Subtree(h, x)
  PROVE  LET g == FreeTree(h, x)
         IN /\ Deref(g, g.string[n]) = Deref(h, h.string[n])
            /\ Deref(g, g.valuestring[n]) = Deref(h, h.valuestring[n])
  <1> DEFINE g == FreeTree(h, x)
             gone == Subtree(h, x)
             own == OwnStrings(h, gone)
  <1>1. h \in Heap /\ gone \subseteq Live(h) /\ Live(h) \subseteq Nodes
    BY SubtreeClosedOff DEF Sound, TypeOKIn, Live
  <1>2. /\ g.string = Blank(h.string, gone) /\ g.valuestring = Blank(h.valuestring, gone)
        /\ g.text = Blank(h.text, own)
    BY DEF FreeTree
  <1>3. \A w \in h.refs \ gone : h.valuestring[w] = NULL \/ h.valuestring[w] \notin own
    BY DEF MayFree
  <1>4. \A c \in own : c = NULL \/ \E m \in gone : c = ValueOf(h, m) \/ c = KeyOf(h, m)
    BY DEF OwnStrings, ValueOf, KeyOf
  <1>0. n \in Nodes /\ n \notin gone
    OBVIOUS
  <1> HIDE DEF gone, own, g
  <1>5. \A m \in Live(h) \ gone : /\ ValueOf(h, m) = NULL \/ ValueOf(h, m) \notin own
                                  /\ KeyOf(h, m) = NULL \/ KeyOf(h, m) \notin own
    BY <1>1, <1>4 DEF Strung, HeldIn
  <1>6. own \subseteq Bufs \cup {NULL}
    BY <1>1, <1>4 DEF Strung, HeldIn, LiveBufs
  <1>7. h.valuestring[n] \in own => h.valuestring[n] = NULL
    <2>1. CASE n \notin Live(h)
      BY <1>0, <2>1 DEF Sound, TypeOKIn
    <2>2. CASE n \in Live(h)
      BY <1>0, <1>3, <1>5, <2>2 DEF ValueOf
    <2> QED BY <2>1, <2>2
  <1>8. h.string[n] \in own => h.string[n] = NULL
    <2>1. CASE n \notin Live(h)
      BY <1>0, <2>1 DEF Sound, TypeOKIn
    <2>2. CASE n \in Live(h)
      BY <1>0, <1>5, <1>6, <2>2, HeapAssumption DEF KeyOf, Strung, BorrowedIn
    <2> QED BY <2>1, <2>2
  <1>9. g.string[n] = h.string[n] /\ g.valuestring[n] = h.valuestring[n]
    BY <1>0, <1>1, <1>2 DEF Blank, Heap
  <1>10. ASSUME NEW b \in Bufs, b = h.string[n] \/ b = h.valuestring[n]
         PROVE  g.text[b] = h.text[b]
    BY <1>1, <1>2, <1>7, <1>8, <1>10, HeapAssumption DEF Blank, Heap
  <1> QED BY <1>9, <1>10 DEF Deref, g

-----------------------------------------------------------------------------
(* Lists as sequences *)

\* A set of numbers that has 0 and with each number the next has them all.
LEMMA NatSet ==
  ASSUME NEW S, 0 \in S, \A n \in Nat : n \in S => n + 1 \in S
  PROVE  Nat \subseteq S
  <1> DEFINE T == Nat \ S
             R == OpToRel(<, Nat)
  <1>0. ASSUME NEW x \in Nat, NEW y \in Nat, y < x
        PROVE  <<y, x>> \in R
    BY <1>0 DEF OpToRel
  <1> SUFFICES ASSUME T # {} PROVE FALSE
    OBVIOUS
  <1>1. IsWellFoundedOn(R, Nat)
    BY NatLessThanWellFounded
  <1> HIDE DEF R
  <1>2. PICK x \in T : \A y \in T : <<y, x>> \notin R
    BY <1>1, WFMin
  <1>3. x # 0 /\ x \in Nat /\ x - 1 \in Nat /\ x - 1 < x
    BY <1>2
  <1>4. x - 1 \in S
    BY <1>0, <1>2, <1>3
  <1> QED BY <1>2, <1>3, <1>4

\* s is what a walk from n along next meets.
Chain(h, n, s) ==
  /\ s \in Seq(Nodes)
  /\ IF s = <<>> THEN n = NULL ELSE s[1] = n
  /\ \A i \in 1 .. Len(s) : h.next[s[i]] = IF i = Len(s) THEN NULL ELSE s[i + 1]

\* The nodes of a walk.
Met(s) == {s[i] : i \in 1 .. Len(s)}

\* Of two walks from one node none is longer, and they meet the same nodes.
LEMMA ChainsAgree ==
  ASSUME NEW h, NEW n, NEW s, NEW t, Chain(h, n, s), Chain(h, n, t)
  PROVE  Len(s) <= Len(t) /\ \A i \in 1 .. Len(s) : s[i] = t[i]
  <1> DEFINE A == {i \in Nat : i + 1 <= Len(s) => i + 1 <= Len(t) /\ s[i + 1] = t[i + 1]}
  <1>0. /\ s \in Seq(Nodes) /\ t \in Seq(Nodes) /\ Len(s) \in Nat /\ Len(t) \in Nat
        /\ \A i \in 1 .. Len(s) : s[i] \in Nodes
        /\ \A i \in 1 .. Len(t) : t[i] \in Nodes
    BY DEF Chain
  <1>1. 0 \in A
    <2>1. CASE s = <<>>
      BY <2>1
    <2>2. CASE s # <<>>
      <3>1. Len(s) >= 1 /\ s[1] = n /\ n # NULL
        BY <1>0, <2>2, HeapAssumption DEF Chain
      <3>2. t # <<>> /\ t[1] = n
        BY <3>1 DEF Chain
      <3>3. Len(t) >= 1
        BY <3>2, <1>0
      <3> QED BY <3>1, <3>2, <3>3
    <2> QED BY <2>1, <2>2
  <1>2. ASSUME NEW i \in Nat, i \in A, i + 2 <= Len(s)
        PROVE  i + 2 <= Len(t) /\ s[i + 2] = t[i + 2]
    <2>1. i + 1 <= Len(t) /\ s[i + 1] = t[i + 1] /\ i + 1 \in 1 .. Len(s) /\ i + 1 \in 1 .. Len(t)
      BY <1>0, <1>2
    <2>2. h.next[s[i + 1]] = s[i + 2] /\ s[i + 2] # NULL
      BY <1>0, <1>2, <2>1, HeapAssumption DEF Chain
    <2>3. i + 1 # Len(t)
      BY <2>1, <2>2 DEF Chain
    <2>4. h.next[t[i + 1]] = t[i + 2]
      BY <2>1, <2>3 DEF Chain
    <2> QED BY <1>0, <2>1, <2>2, <2>3, <2>4
  <1>3. \A i \in Nat : i \in A => i + 1 \in A
    BY <1>2
  <1>4. Nat \subseteq A
    BY <1>1, <1>3, NatSet
  <1>5. \A i \in 1 .. Len(s) : i <= Len(t) /\ s[i] = t[i]
    <2> SUFFICES ASSUME NEW i \in 1 .. Len(s) PROVE i <= Len(t) /\ s[i] = t[i]
      OBVIOUS
    <2>1. i - 1 \in Nat /\ (i - 1) + 1 = i
      BY <1>0
    <2>2. i - 1 \in A
      BY <1>4, <2>1
    <2> HIDE DEF A
    <2>3. (i - 1) + 1 <= Len(s) => (i - 1) + 1 <= Len(t) /\ s[(i - 1) + 1] = t[(i - 1) + 1]
      BY <2>2 DEF A
    <2> QED BY <1>0, <2>1, <2>3
  <1> QED BY <1>0, <1>5

\* There is one such walk.
LEMMA ChainUnique ==
  ASSUME NEW h, NEW n, NEW s, NEW t, Chain(h, n, s), Chain(h, n, t)
  PROVE  s = t
  <1>1. s \in Seq(Nodes) /\ t \in Seq(Nodes)
    BY DEF Chain
  <1>2. Len(s) = Len(t) /\ \A i \in 1 .. Len(s) : s[i] = t[i]
    BY <1>1, ChainsAgree
  <1> QED BY <1>1, <1>2, SeqEqual

\* A walk goes on with the walk from its second node.
LEMMA ChainGrows ==
  ASSUME NEW h, NEW n \in Nodes, NEW s, Chain(h, h.next[n], s)
  PROVE  Chain(h, n, <<n>> \o s)
  <1> DEFINE t == <<n>> \o s
  <1>1. s \in Seq(Nodes) /\ <<n>> \in Seq(Nodes)
    BY DEF Chain
  <1>2. /\ t \in Seq(Nodes) /\ Len(t) = Len(s) + 1 /\ t[1] = n
        /\ \A i \in 1 .. Len(s) : t[i + 1] = s[i]
    BY <1>1
  <1>3. ASSUME NEW i \in 1 .. Len(t)
        PROVE  h.next[t[i]] = IF i = Len(t) THEN NULL ELSE t[i + 1]
    <2>1. CASE i = 1
      <3>1. CASE s = <<>>
        BY <2>1, <3>1, <1>2 DEF Chain
      <3>2. CASE s # <<>>
        BY <2>1, <3>2, <1>1, <1>2 DEF Chain
      <3> QED BY <3>1, <3>2
    <2>2. CASE i # 1
      <3>1. i - 1 \in 1 .. Len(s) /\ t[i] = s[i - 1]
        BY <1>1, <1>2, <1>3, <2>2
      <3>2. h.next[s[i - 1]] = IF i - 1 = Len(s) THEN NULL ELSE s[i]
        BY <3>1 DEF Chain
      <3>3. i - 1 # Len(s) => t[i + 1] = s[i]
        BY <1>1, <1>2, <3>1
      <3> QED BY <1>1, <1>2, <3>1, <3>2, <3>3
    <2> QED BY <2>1, <2>2
  <1>4. t # <<>>
    BY <1>1, <1>2
  <1> QED BY <1>2, <1>3, <1>4 DEF Chain

\* Every list ends.
Ends(h) == \A n \in Nodes \cup {NULL} : \E s : Chain(h, n, s)

\* The walk from n.
ListOf(h, n) == CHOOSE s : Chain(h, n, s)

\* It is n and the walk from the next of n: what KidSeq says of itself.
LEMMA ListOfStep ==
  ASSUME NEW h, h \in Heap, Ends(h)
  PROVE  /\ ListOf(h, NULL) = <<>>
         /\ \A n \in Nodes : ListOf(h, n) = <<n>> \o ListOf(h, h.next[n])
         /\ \A n \in Nodes \cup {NULL} : Chain(h, n, ListOf(h, n)) /\ ListOf(h, n) \in Seq(Nodes)
  <1>1. \A n \in Nodes \cup {NULL} : Chain(h, n, ListOf(h, n)) /\ ListOf(h, n) \in Seq(Nodes)
    BY DEF Ends, ListOf, Chain
  <1>2. ListOf(h, NULL) = <<>>
    <2>1. Chain(h, NULL, ListOf(h, NULL)) /\ ListOf(h, NULL) \in Seq(Nodes)
      BY <1>1
    <2> QED BY <2>1, HeapAssumption DEF Chain
  <1>3. ASSUME NEW n \in Nodes
        PROVE  ListOf(h, n) = <<n>> \o ListOf(h, h.next[n])
    <2>1. h.next[n] \in Nodes \cup {NULL}
      BY DEF Heap
    <2>2. Chain(h, n, <<n>> \o ListOf(h, h.next[n]))
      BY <1>1, <2>1, ChainGrows
    <2> QED BY <1>1, <2>2, ChainUnique
  <1> QED BY <1>1, <1>2, <1>3

\* What makes a function the walk of KidSeq.
Walks(h, f) ==
  f = [n \in Nodes \cup {NULL} |-> IF n = NULL THEN <<>> ELSE <<n>> \o f[h.next[n]]]

\* Where every walk ends, only one function is the walk of KidSeq.
LEMMA WalksAgree ==
  ASSUME NEW h, h \in Heap, Ends(h), NEW f, Walks(h, f), NEW n \in Nodes \cup {NULL}
  PROVE  f[n] = ListOf(h, n)
  <1> DEFINE A == {k \in Nat : \A m \in Nodes \cup {NULL} : Len(ListOf(h, m)) = k => f[m] = ListOf(h, m)}
  <1>0. \A m \in Nodes : h.next[m] \in Nodes \cup {NULL} /\ m # NULL
    BY HeapAssumption DEF Heap
  <1>1. 0 \in A
    <2> SUFFICES ASSUME NEW m \in Nodes \cup {NULL}, Len(ListOf(h, m)) = 0
                 PROVE  f[m] = ListOf(h, m)
      OBVIOUS
    <2>1. ListOf(h, m) = <<>>
      BY ListOfStep
    <2>2. m = NULL
      BY <2>1, ListOfStep DEF Chain
    <2> QED BY <2>1, <2>2 DEF Walks
  <1>2. ASSUME NEW k \in Nat, k \in A
        PROVE  k + 1 \in A
    <2> SUFFICES ASSUME NEW m \in Nodes \cup {NULL}, Len(ListOf(h, m)) = k + 1
                 PROVE  f[m] = ListOf(h, m)
      OBVIOUS
    <2>1. m \in Nodes
      BY ListOfStep
    <2>2. ListOf(h, m) = <<m>> \o ListOf(h, h.next[m]) /\ ListOf(h, h.next[m]) \in Seq(Nodes)
      BY <1>0, <2>1, ListOfStep
    <2>3. Len(ListOf(h, h.next[m])) = k
      BY <2>2
    <2>4. f[h.next[m]] = ListOf(h, h.next[m])
      BY <1>0, <1>2, <2>1, <2>3
    <2> QED BY <1>0, <2>1, <2>2, <2>4 DEF Walks
  <1>3. Nat \subseteq A
    BY <1>1, <1>2, NatSet
  <1>4. Len(ListOf(h, n)) \in Nat
    BY ListOfStep
  <1>5. Len(ListOf(h, n)) \in A
    BY <1>3, <1>4
  <1> QED BY <1>5

\* KidSeq is the walk from the head.
LEMMA KidSeqIsList ==
  ASSUME NEW h, h \in Heap, Ends(h), NEW p \in Nodes
  PROVE  KidSeq(h, p) = ListOf(h, h.child[p])
  <1> DEFINE g == [n \in Nodes \cup {NULL} |-> ListOf(h, n)]
             f == CHOOSE f : Walks(h, f)
  <1>1. Walks(h, g)
    <2>1. \A n \in Nodes : g[h.next[n]] = ListOf(h, h.next[n]) /\ n # NULL
      BY HeapAssumption DEF Heap
    <2>2. \A n \in Nodes \cup {NULL} : g[n] = IF n = NULL THEN <<>> ELSE <<n>> \o g[h.next[n]]
      BY <2>1, ListOfStep
    <2> QED BY <2>2 DEF Walks
  <1>2. Walks(h, f)
    BY <1>1
  <1>3. KidSeq(h, p) = f[h.child[p]]
    BY DEF KidSeq, Walks
  <1>4. h.child[p] \in Nodes \cup {NULL}
    BY DEF Heap
  <1> HIDE DEF f
  <1> QED BY <1>2, <1>3, <1>4, WalksAgree

\* In a sound heap where every node is in a tree, no list runs in a circle.
LEMMA ListsEnd ==
  ASSUME NEW h, NEW R, Sound(h, R), Reached(h, R)
  PROVE  Ends(h)
  <1> DEFINE B == {n \in Nodes : ~ \E s : Chain(h, n, s)}
             S == Live(h) \ B
             f == [n \in B |-> h.next[n]]
  <1>1. Chain(h, NULL, <<>>)
    BY DEF Chain
  <1>2. ASSUME NEW n \in B
        PROVE  h.next[n] \in B /\ n \in Live(h)
    <2>1. h.next[n] \in Nodes \cup {NULL}
      BY DEF Sound, TypeOKIn, Heap
    <2>2. ~ \E s : Chain(h, h.next[n], s)
      BY ChainGrows
    <2>3. h.next[n] # NULL
      BY <1>1, <2>2
    <2> QED BY <2>1, <2>2, <2>3 DEF Sound, TypeOKIn
  <1>3. \A m, n \in B : h.next[m] = h.next[n] => m = n
    BY <1>2 DEF Sound, Links, DoublyLinkedIn
  <1> HIDE DEF B
  <1>4. f \in Surjection(B, B)
    <2>1. f \in Injection(B, B)
      BY <1>2, <1>3 DEF Injection, IsInjective
    <2>2. IsFiniteSet(B)
      BY FiniteNodes, FS_Subset DEF B
    <2> QED BY <2>1, <2>2, FS_Injection
  <1>5. ASSUME NEW b \in B
        PROVE  \E c \in B : h.next[c] = b
    BY <1>4 DEF Surjection
  <1>6. R \subseteq S
    BY <1>2, HeapAssumption DEF Sound, TypeOKIn, Links, OwnersIn, Live
  <1>7. WalkClosed(h, S)
    <2> SUFFICES ASSUME NEW m \in S
                 PROVE  /\ m \in h.refs \/ h.child[m] = NULL \/ h.child[m] \in S
                        /\ h.next[m] = NULL \/ h.next[m] \in S
      BY DEF WalkClosed
    <2>1. h.next[m] \notin B
      <3> SUFFICES ASSUME h.next[m] \in B
                   PROVE  FALSE
        OBVIOUS
      <3>1. PICK c \in B : h.next[c] = h.next[m]
        BY <1>5
      <3>2. c \in Live(h) /\ m \in Live(h) /\ h.next[m] \in Live(h) /\ c # m
        BY <1>2
      <3> QED BY <3>1, <3>2 DEF Sound, Links, DoublyLinkedIn
    <2>2. m \notin h.refs /\ h.child[m] # NULL => h.child[m] \notin B
      <3> SUFFICES ASSUME m \notin h.refs, h.child[m] # NULL, h.child[m] \in B
                   PROVE  FALSE
        OBVIOUS
      <3>1. PICK c \in B : h.next[c] = h.child[m]
        BY <1>5
      <3>2. h.prev[h.child[m]] = c
        BY <1>2, <3>1 DEF Sound, Links, DoublyLinkedIn
      <3> QED BY <1>2, <3>2, HeapAssumption DEF Sound, Links, OwnersIn, Live
    <2> QED BY <2>1, <2>2 DEF Sound, Links, LinksLiveIn
  <1>8. B = {}
    <2>1. Live(h) \subseteq S
      BY <1>6, <1>7 DEF Reached, Live
    <2> QED BY <1>2, <2>1
  <1> QED BY <1>1, <1>8 DEF Ends, B

\* What follows the i-th node of a walk is the walk from there.
LEMMA ChainSuffix ==
  ASSUME NEW h, NEW n, NEW s, Chain(h, n, s), NEW i \in 1 .. Len(s)
  PROVE  Chain(h, s[i], SubSeq(s, i, Len(s))) /\ Len(SubSeq(s, i, Len(s))) = Len(s) - i + 1
  <1> DEFINE t == SubSeq(s, i, Len(s))
  <1>1. s \in Seq(Nodes) /\ Len(s) \in Nat
    BY DEF Chain
  <1>2. /\ t \in Seq(Nodes) /\ Len(t) = Len(s) - i + 1
        /\ \A j \in 1 .. Len(t) : t[j] = s[i + j - 1]
    BY <1>1, SubSeqProperties
  <1>3. ASSUME NEW j \in 1 .. Len(t)
        PROVE  h.next[t[j]] = IF j = Len(t) THEN NULL ELSE t[j + 1]
    <2>1. i + j - 1 \in 1 .. Len(s) /\ t[j] = s[i + j - 1]
      BY <1>1, <1>2
    <2>2. h.next[s[i + j - 1]] = IF i + j - 1 = Len(s) THEN NULL ELSE s[i + j - 1 + 1]
      BY <2>1 DEF Chain
    <2>3. j # Len(t) => t[j + 1] = s[i + j - 1 + 1]
      BY <1>1, <1>2
    <2> QED BY <1>1, <1>2, <2>1, <2>2, <2>3
  <1>4. t # <<>> /\ t[1] = s[i]
    <2>1. Len(t) # 0 /\ 1 \in 1 .. Len(t) /\ i + 1 - 1 = i
      BY <1>1, <1>2
    <2> HIDE DEF t
    <2> QED BY <1>2, <2>1
  <1> QED BY <1>2, <1>3, <1>4 DEF Chain

\* A walk meets no node twice.
LEMMA ChainInjective ==
  ASSUME NEW h, NEW n, NEW s, Chain(h, n, s), NEW i \in 1 .. Len(s), NEW j \in 1 .. Len(s), s[i] = s[j]
  PROVE  i = j
  <1>1. Len(s) \in Nat
    BY DEF Chain
  <1>2. Len(s) - i + 1 = Len(s) - j + 1
    BY ChainSuffix, ChainUnique
  <1> QED BY <1>1, <1>2

\* A walk meets the siblings.
LEMMA ChainMeetsSiblings ==
  ASSUME NEW h, h \in Heap, NEW n \in Nodes, NEW s, Chain(h, n, s)
  PROVE  Met(s) = Siblings(h, n)
  <1> DEFINE A == {i \in Nat : i + 1 <= Len(s) => s[i + 1] \in Siblings(h, n)}
  <1>1. /\ s \in Seq(Nodes) /\ Len(s) \in Nat /\ s # <<>> /\ s[1] = n
        /\ \A i \in 1 .. Len(s) : s[i] \in Nodes
        /\ Met(s) = {s[i] : i \in 1 .. Len(s)}
    BY HeapAssumption DEF Chain, Met
  <1>2. Met(s) \subseteq Nodes /\ n \in Met(s)
    BY <1>1
  <1>3. ListClosed(h, Met(s))
    <2> SUFFICES ASSUME NEW i \in 1 .. Len(s)
                 PROVE  h.next[s[i]] = NULL \/ h.next[s[i]] \in Met(s)
      BY <1>1 DEF ListClosed
    <2>1. h.next[s[i]] = IF i = Len(s) THEN NULL ELSE s[i + 1]
      BY DEF Chain
    <2> QED BY <1>1, <2>1
  <1>4. Siblings(h, n) \subseteq Met(s)
    BY <1>2, <1>3, SiblingsLeast
  <1>5. 0 \in A
    BY <1>1, SiblingsHasHead
  <1>6. ASSUME NEW i \in Nat, i \in A
        PROVE  i + 1 \in A
    <2> SUFFICES ASSUME i + 2 <= Len(s)
                 PROVE  s[i + 2] \in Siblings(h, n)
      OBVIOUS
    <2>1. i + 1 \in 1 .. Len(s) /\ i + 2 \in 1 .. Len(s) /\ i + 1 # Len(s) /\ s[i + 1] \in Siblings(h, n)
      BY <1>1, <1>6
    <2>2. h.next[s[i + 1]] = s[i + 2] /\ s[i + 2] # NULL
      BY <1>1, <2>1, HeapAssumption DEF Chain
    <2> QED BY <2>1, <2>2, SiblingsClosed
  <1>7. Nat \subseteq A
    BY <1>5, <1>6, NatSet
  <1>8. ASSUME NEW i \in 1 .. Len(s)
        PROVE  s[i] \in Siblings(h, n)
    <2>1. i - 1 \in Nat /\ (i - 1) + 1 = i /\ i <= Len(s)
      BY <1>1
    <2>2. i - 1 \in A
      BY <1>7, <2>1
    <2> HIDE DEF A
    <2>3. (i - 1) + 1 <= Len(s) => s[(i - 1) + 1] \in Siblings(h, n)
      BY <2>2 DEF A
    <2> QED BY <2>1, <2>3
  <1> QED BY <1>1, <1>4, <1>8

\* No node is a kid of two nodes that own their children.
LEMMA KidsApart ==
  ASSUME NEW h, NEW R, Sound(h, R), NEW p \in Live(h) \ h.refs, NEW q \in Live(h) \ h.refs, p # q
  PROVE  Kids(h, p) \cap Kids(h, q) = {}
  <1> DEFINE A == Kids(h, p) \ Kids(h, q)
  <1>1. CASE h.child[p] = NULL
    BY <1>1 DEF Kids
  <1>2. CASE h.child[p] # NULL
    <2>1. /\ h.child[p] \in Kids(h, p) /\ Kids(h, p) = Siblings(h, h.child[p]) /\ Kids(h, p) \subseteq Nodes
          /\ h \in Heap
      BY <1>2, SiblingsHasHead DEF Kids, Sound, TypeOKIn, Heap, Live
    <2>2. h.child[p] \notin Kids(h, q)
      <3> SUFFICES ASSUME h.child[p] \in Kids(h, q) PROVE FALSE
        OBVIOUS
      <3>1. h.prev[h.child[p]] = NULL
        BY <1>2 DEF Sound, Links, OwnersIn
      <3>2. h.child[q] = h.child[p]
        BY <3>1, KidsAreKids
      <3> QED BY <1>2, <3>2 DEF Sound, Links, OwnersIn
    <2>3. ASSUME NEW m \in A, h.next[m] # NULL
          PROVE  h.next[m] \in A
      <3>1. h.next[m] \in Kids(h, p)
        BY <2>1, <2>3, SiblingsClosed
      <3>2. m \in Live(h) /\ h.next[m] \in Live(h) /\ h.prev[h.next[m]] = m /\ m # NULL
        BY <2>3, <3>1, KidsAreKids, HeapAssumption DEF Sound, Links, DoublyLinkedIn, Live
      <3>3. h.next[m] \notin Kids(h, q)
        <4> SUFFICES ASSUME h.next[m] \in Kids(h, q) PROVE FALSE
          OBVIOUS
        <4>1. h.child[q] # NULL
          BY DEF Kids
        <4>2. h.next[m] # h.child[q]
          BY <3>2, <4>1 DEF Sound, Links, OwnersIn
        <4>3. PICK k \in Kids(h, q) : h.next[k] = h.next[m]
          BY <4>2, KidFollowsKid
        <4>4. k = m
          BY <3>2, <4>3, KidsAreKids DEF Sound, Links, DoublyLinkedIn
        <4> QED BY <4>3, <4>4
      <3> QED BY <3>1, <3>3
    <2>4. Siblings(h, h.child[p]) \subseteq A
      <3>1. A \subseteq Nodes /\ h.child[p] \in A /\ ListClosed(h, A)
        BY <2>1, <2>2, <2>3 DEF ListClosed
      <3> QED BY <3>1, SiblingsLeast
    <2> QED BY <2>1, <2>4
  <1> QED BY <1>1, <1>2

-----------------------------------------------------------------------------
(* The lists of a sound heap *)

\* A sound heap in which the roots R lead to every node.
Whole(h, R) == Sound(h, R) /\ Reached(h, R)

\* The kids of p in their order: next leads on, prev back.
LEMMA KidList ==
  ASSUME NEW h, NEW R, Whole(h, R), NEW p \in Nodes
  PROVE  LET s == KidSeq(h, p)
         IN /\ Chain(h, h.child[p], s) /\ s \in Seq(Nodes) /\ Met(s) = Kids(h, p)
            /\ \A i, j \in 1 .. Len(s) : s[i] = s[j] => i = j
            /\ p \in Live(h) \ h.refs =>
                 \A i \in 1 .. Len(s) : h.prev[s[i]] = IF i = 1 THEN NULL ELSE s[i - 1]
  <1> DEFINE s == KidSeq(h, p)
  <1>1. h \in Heap /\ Ends(h) /\ h.child[p] \in Nodes \cup {NULL}
    BY ListsEnd DEF Whole, Sound, TypeOKIn, Heap
  <1>2. Chain(h, h.child[p], s) /\ s \in Seq(Nodes)
    BY <1>1, KidSeqIsList, ListOfStep
  <1> HIDE DEF s
  <1>3. Met(s) = Kids(h, p)
    <2>1. CASE h.child[p] = NULL
      <3>1. s = <<>>
        BY <1>2, <2>1, HeapAssumption DEF Chain
      <3> QED BY <2>1, <3>1 DEF Met, Kids
    <2>2. CASE h.child[p] # NULL
      BY <1>1, <1>2, <2>2, ChainMeetsSiblings DEF Kids
    <2> QED BY <2>1, <2>2
  <1>4. \A i, j \in 1 .. Len(s) : s[i] = s[j] => i = j
    BY <1>2, ChainInjective
  <1>5. ASSUME p \in Live(h) \ h.refs, NEW i \in 1 .. Len(s)
        PROVE  h.prev[s[i]] = IF i = 1 THEN NULL ELSE s[i - 1]
    <2>1. \A j \in 1 .. Len(s) : s[j] \in Kids(h, p)
      BY <1>3 DEF Met
    <2>2. \A j \in 1 .. Len(s) : s[j] \in Live(h)
      BY <1>5, <2>1, KidsAreKids DEF Whole
    <2>3. CASE i = 1
      <3>1. s # <<>> /\ s[1] = h.child[p] /\ h.child[p] # NULL
        BY <1>2, <2>3, <1>5, HeapAssumption DEF Chain
      <3> QED BY <1>5, <2>3, <3>1 DEF Whole, Sound, Links, OwnersIn
    <2>4. CASE i # 1
      <3>1. i - 1 \in 1 .. Len(s) /\ i - 1 # Len(s) /\ i - 1 + 1 = i
        BY <1>2, <1>5, <2>4
      <3>2. h.next[s[i - 1]] = s[i]
        BY <1>2, <3>1 DEF Chain
      <3> QED BY <1>5, <2>2, <2>4, <3>1, <3>2 DEF Whole, Sound, Links, DoublyLinkedIn
    <2> QED BY <2>3, <2>4
  <1> QED BY <1>2, <1>3, <1>4, <1>5 DEF s

\* A list is what its head and the next pointers of its nodes say.
LEMMA KidSeqStays ==
  ASSUME NEW h, NEW R, Whole(h, R), NEW g, NEW Q, Whole(g, Q), NEW q \in Nodes,
         g.child[q] = h.child[q], \A m \in Kids(h, q) : g.next[m] = h.next[m]
  PROVE  KidSeq(g, q) = KidSeq(h, q)
  <1> DEFINE t == KidSeq(h, q)
  <1>1. Chain(h, h.child[q], t) /\ Met(t) = Kids(h, q)
    BY KidList
  <1> HIDE DEF t
  <1>2. Chain(g, g.child[q], t)
    BY <1>1 DEF Chain, Met
  <1>3. Chain(g, g.child[q], KidSeq(g, q))
    BY KidList
  <1> QED BY <1>2, <1>3, ChainUnique DEF t

\* A node without a child pointer has no kids.
LEMMA NoKids ==
  ASSUME NEW h, NEW R, Whole(h, R), NEW q \in Nodes, h.child[q] = NULL
  PROVE  KidSeq(h, q) = <<>>
  <1>1. Chain(h, NULL, KidSeq(h, q)) /\ KidSeq(h, q) \in Seq(Nodes)
    BY KidList
  <1> QED BY <1>1, HeapAssumption DEF Chain

\* The list of a node that owns its children.
LEMMA OwnKids ==
  ASSUME NEW h, NEW R, Whole(h, R), NEW p \in Live(h) \ h.refs
  PROVE  LET s == KidSeq(h, p)
         IN /\ Chain(h, h.child[p], s) /\ s \in Seq(Nodes) /\ Len(s) \in Nat
            /\ \A i \in 1 .. Len(s) : s[i] \in Kids(h, p) /\ s[i] \in Live(h) \ R /\ s[i] \in Nodes
            /\ \A i \in 1 .. Len(s) : h.next[s[i]] = IF i = Len(s) THEN NULL ELSE s[i + 1]
            /\ \A i \in 1 .. Len(s) : h.prev[s[i]] = IF i = 1 THEN NULL ELSE s[i - 1]
            /\ \A i, j \in 1 .. Len(s) : s[i] = s[j] => i = j
            /\ \A x \in Kids(h, p) : \E i \in 1 .. Len(s) : s[i] = x
  <1> DEFINE s == KidSeq(h, p)
  <1>1. p \in Nodes
    BY DEF Live
  <1>2. /\ Chain(h, h.child[p], s) /\ s \in Seq(Nodes) /\ Met(s) = Kids(h, p)
        /\ \A i, j \in 1 .. Len(s) : s[i] = s[j] => i = j
        /\ \A i \in 1 .. Len(s) : h.prev[s[i]] = IF i = 1 THEN NULL ELSE s[i - 1]
    BY <1>1, KidList
  <1> HIDE DEF s
  <1>3. \A i \in 1 .. Len(s) : s[i] \in Kids(h, p)
    BY <1>2 DEF Met
  <1>4. \A i \in 1 .. Len(s) : s[i] \in Live(h) \ R
    BY <1>3, KidsAreKids DEF Whole
  <1>5. \A x \in Kids(h, p) : \E i \in 1 .. Len(s) : s[i] = x
    BY <1>2 DEF Met
  <1>6. \A i \in 1 .. Len(s) : h.next[s[i]] = IF i = Len(s) THEN NULL ELSE s[i + 1]
    BY <1>2 DEF Chain
  <1>7. Len(s) \in Nat /\ Live(h) \subseteq Nodes
    BY <1>2 DEF Live
  <1> QED BY <1>1, <1>2, <1>3, <1>4, <1>5, <1>6, <1>7 DEF s

\* attach_child puts the root at the end.
LEMMA AttachedKids ==
  ASSUME NEW h, NEW R, Whole(h, R), NEW p \in Live(h) \ h.refs, h.type[p] \in Containers,
         NEW x \in R, p \notin Subtree(h, x)
  PROVE  LET g == AttachChild(h, p, x)
         IN /\ KidSeq(g, p) = Append(KidSeq(h, p), x)
            /\ \A q \in Nodes \ {p} : g.child[q] = h.child[q]
            /\ \A m \in Nodes \ Kids(h, p) : g.next[m] = h.next[m]
  <1> DEFINE g == AttachChild(h, p, x)
             s == KidSeq(h, p)
             t == LastKid(h, h.child[p])
             u == Append(s, x)
  <1>1. /\ h \in Heap /\ x \in Live(h) /\ x \in Nodes /\ p \in Nodes /\ x # p
        /\ h.prev[x] = NULL /\ h.next[x] = NULL /\ Live(h) \subseteq Nodes
    BY SubtreeHasRoot DEF Whole, Sound, TypeOKIn, Links, OwnersIn, Live
  <1>2. Whole(g, R \ {x})
    BY <1>1, AttachChildSound, AttachChildReached DEF Whole
  <1>3. /\ Chain(h, h.child[p], s) /\ s \in Seq(Nodes) /\ Len(s) \in Nat
        /\ \A i \in 1 .. Len(s) : s[i] \in Kids(h, p) /\ s[i] \in Live(h) \ R /\ s[i] \in Nodes
        /\ \A i \in 1 .. Len(s) : h.next[s[i]] = IF i = Len(s) THEN NULL ELSE s[i + 1]
        /\ \A i, j \in 1 .. Len(s) : s[i] = s[j] => i = j
    BY OwnKids
  <1> HIDE DEF s
  <1>4. /\ u \in Seq(Nodes) /\ Len(u) = Len(s) + 1 /\ u[Len(s) + 1] = x /\ u # <<>>
        /\ \A i \in 1 .. Len(s) : u[i] = s[i]
    BY <1>1, <1>3, AppendProperties
  <1> HIDE DEF u
  <1>5. ASSUME h.child[p] = NULL
        PROVE  /\ g.refs = h.refs /\ Chain(g, g.child[p], u)
               /\ \A q \in Nodes \ {p} : g.child[q] = h.child[q]
               /\ \A m \in Nodes \ Kids(h, p) : g.next[m] = h.next[m]
    <2>1. g.refs = h.refs /\ g.child = [h.child EXCEPT ![p] = x] /\ g.next = h.next
      BY <1>1, <1>5 DEF AttachChild, Heap
    <2>2. s = <<>>
      BY <1>3, <1>5, HeapAssumption DEF Chain
    <2>3. g.child[p] = x /\ \A q \in Nodes \ {p} : g.child[q] = h.child[q]
      BY <1>1, <2>1 DEF Heap
    <2>4. Len(u) = 1 /\ u[1] = x
      BY <1>4, <2>2
    <2> HIDE DEF g
    <2>5. g.next[x] = NULL
      BY <1>1, <2>1
    <2>6. \A i \in 1 .. Len(u) : g.next[u[i]] = IF i = Len(u) THEN NULL ELSE u[i + 1]
      <3> TAKE i \in 1 .. Len(u)
      <3>1. i = 1 /\ i = Len(u) /\ u[i] = x
        BY <1>4, <2>2, <2>4
      <3> QED BY <2>5, <3>1
    <2>7. Chain(g, g.child[p], u)
      BY <1>4, <2>3, <2>4, <2>6 DEF Chain
    <2> QED BY <2>1, <2>3, <2>7
  <1>6. ASSUME h.child[p] # NULL
        PROVE  /\ g.refs = h.refs /\ Chain(g, g.child[p], u)
               /\ \A q \in Nodes \ {p} : g.child[q] = h.child[q]
               /\ \A m \in Nodes \ Kids(h, p) : g.next[m] = h.next[m]
    <2>1. t \in Kids(h, p) /\ h.next[t] = NULL /\ t \in Nodes /\ t # x
      BY <1>1, <1>6, TailIsLastKid, KidsAreKids DEF Whole
    <2>2. /\ g.refs = h.refs /\ g.child = h.child
          /\ g.next = [h.next EXCEPT ![t] = x, ![x] = NULL]
      BY <1>1, <1>6 DEF AttachChild, Heap
    <2>3. g.next[x] = NULL /\ g.next[t] = x /\ \A m \in Nodes \ {t, x} : g.next[m] = h.next[m]
      BY <1>1, <2>1, <2>2 DEF Heap
    <2> HIDE DEF g, t
    <2>4. s # <<>> /\ Len(s) \in 1 .. Len(s)
      BY <1>3, <1>6 DEF Chain
    <2>5. s[Len(s)] = t
      <3>1. s[Len(s)] \in Kids(h, p) /\ h.next[s[Len(s)]] = NULL
        BY <1>3, <2>4
      <3> QED BY <3>1, TailIsUnique DEF Whole, t
    <2>6. ASSUME NEW i \in 1 .. Len(u)
          PROVE  g.next[u[i]] = IF i = Len(u) THEN NULL ELSE u[i + 1]
      <3>1. CASE i = Len(s) + 1
        BY <1>4, <2>3, <3>1
      <3>2. CASE i = Len(s)
        BY <1>3, <1>4, <2>3, <2>4, <2>5, <3>2
      <3>3. CASE i # Len(s) + 1 /\ i # Len(s)
        <4>1. i \in 1 .. Len(s) /\ i + 1 \in 1 .. Len(s) /\ i # Len(u)
          BY <1>3, <1>4, <3>3
        <4>2. s[i] # t /\ s[i] # x /\ s[i] \in Nodes
          BY <1>3, <2>4, <2>5, <3>3, <4>1
        <4> QED BY <1>3, <1>4, <2>3, <3>3, <4>1, <4>2
      <3> QED BY <3>1, <3>2, <3>3
    <2>7. u[1] = h.child[p]
      BY <1>3, <1>4, <2>4 DEF Chain
    <2>8. Chain(g, g.child[p], u)
      BY <1>4, <2>2, <2>6, <2>7 DEF Chain
    <2>9. \A m \in Nodes \ Kids(h, p) : g.next[m] = h.next[m]
      BY <1>1, <2>1, <2>3
    <2> QED BY <2>2, <2>8, <2>9
  <1>7. Chain(g, g.child[p], u)
    BY <1>5, <1>6
  <1>8. KidSeq(g, p) = u
    <2> HIDE DEF g
    <2>1. Chain(g, g.child[p], KidSeq(g, p))
      BY <1>1, <1>2, KidList
    <2> QED BY <1>7, <2>1, ChainUnique
  <1> QED BY <1>5, <1>6, <1>8 DEF u, s

=============================================================================
