-------------------------- MODULE CJsonBuildProofs --------------------------
(***************************************************************************)
(* Theorems of CJsonBuild, for any documents, addresses and texts and any  *)
(* depth of the recursion: whichever allocations fail, the heap is sound   *)
(* at every step of a build, each node and each string has one party that  *)
(* frees it, nothing dangles and nothing is lost.                          *)
(*                                                                         *)
(* The invariant behind them is about the frames of the recursion: their   *)
(* nodes head trees that are apart from one another, from what the caller  *)
(* holds, from the item that is copied and from every reference.           *)
(***************************************************************************)
EXTENDS CJsonBuild, CJsonNodesProofs

-----------------------------------------------------------------------------
(* A frame of the recursion in a heap h *)

Frames ==
  [how : {"value", "copy", "array"},
   source : Values \cup Nodes,
   node : Nodes \cup {NULL},
   prev : Nodes \cup {NULL},
   at : Nat \cup Nodes \cup {NULL}]

\* No reference is in the tree of n or borrows from it: free_cjson(n) pulls
\* nothing from under one.
Private(h, n) ==
  LET mine == Subtree(h, n)
  IN \A w \in h.refs :
       /\ w \notin mine /\ h.child[w] \notin mine
       /\ h.valuestring[w] = NULL \/ h.valuestring[w] \notin OwnStrings(h, mine)

\* What f reads is there: a node of the caller's, or a value.
Reads(h, f) ==
  IF f.how = "copy"
  THEN /\ f.source \in Live(h) /\ f.at \in Live(h) \cup {NULL}
       /\ f.at # NULL => h.type[f.source] \in Containers
  ELSE f.source \in Values /\ f.at \in Nat \ {0}

\* What f has built is a node like its source, private, whose last kid is f.prev
\* if append_children links its kids.
Builds(h, f) ==
  f.node # NULL =>
    /\ f.node \in Live(h) \ h.consts
    /\ Private(h, f.node)
    /\ h.type[f.node] = IF f.how = "copy" THEN h.type[f.source] ELSE f.source.kind
    /\ f.how # "copy" => h.string[f.node] = NULL
    /\ f.how = "value" =>
         IF f.prev = NULL THEN h.child[f.node] = NULL
         ELSE f.prev \in Kids(h, f.node) /\ h.next[f.prev] = NULL

\* What f copies is not in the tree of n, which is being built.
Outside(h, f, n) ==
  f.how = "copy" /\ n # NULL => f.source \notin Subtree(h, n) /\ f.at \notin Subtree(h, n)

\* f waits for its next kid.
Waits(f) ==
  /\ f.node # NULL
  /\ IF f.how = "copy" THEN f.at # NULL ELSE f.how = "value" /\ f.at \in 1 .. Len(f.source.kids)

\* The frames r wait one for another, and the caller holds the trees o.
Waiting(h, o, r) ==
  /\ r \in Seq(Frames)
  /\ \A i \in 1 .. Len(r) : Reads(h, r[i]) /\ Builds(h, r[i]) /\ Waits(r[i]) /\ r[i].node \notin o
  /\ \A i, j \in 1 .. Len(r) : r[i].node = r[j].node => i = j
  /\ \A i, j \in 1 .. Len(r) : Outside(h, r[i], r[j].node) /\ r[i].how = r[j].how

\* They wait for the frame f.
On(h, o, f, r) ==
  /\ f \in Frames
  /\ Reads(h, f) /\ Builds(h, f) /\ f.node \notin o /\ Outside(h, f, f.node)
  /\ \A i \in 1 .. Len(r) :
       /\ r[i].how = f.how /\ r[i].node # f.node
       /\ Outside(h, f, r[i].node) /\ Outside(h, r[i], f.node)

-----------------------------------------------------------------------------
(* Private trees *)

\* The kids of a root are in its tree.
LEMMA KidsInTree ==
  ASSUME NEW h, NEW R, Sound(h, R), NEW n \in R, n \notin h.refs
  PROVE  Kids(h, n) \subseteq Subtree(h, n) \ {n}
  <1> DEFINE A == Subtree(h, n)
  <1>1. /\ n \in A /\ A \subseteq Live(h) /\ h \in Heap /\ n \in Live(h) /\ h.next[n] = NULL
    BY SubtreeClosedOff DEF Sound, TypeOKIn, Links, OwnersIn
  <1>2. \A m \in A : /\ m \in h.refs \/ h.child[m] = NULL \/ h.child[m] \in A
                     /\ m = n \/ h.next[m] = NULL \/ h.next[m] \in A
    BY <1>1, SubtreeClosed
  <1> HIDE DEF A
  <1>3. CASE h.child[n] = NULL
    BY <1>3 DEF Kids
  <1>4. CASE h.child[n] # NULL
    <2>1. h.child[n] \in A /\ ListClosed(h, A) /\ A \subseteq Nodes
      BY <1>1, <1>2, <1>4 DEF ListClosed, Live
    <2>2. Kids(h, n) \subseteq A
      BY <1>4, <2>1, SiblingsLeast DEF Kids
    <2>3. n \notin Kids(h, n)
      BY <1>1, KidsAreKids
    <2> QED BY <2>2, <2>3 DEF A
  <1> QED BY <1>3, <1>4

\* A private tree may be freed.
LEMMA PrivateMayFree ==
  ASSUME NEW h, NEW n, Private(h, n)
  PROVE  MayFree(h, n)
  BY DEF Private, MayFree

\* It stays private when other nodes change.
LEMMA PrivateElsewhere ==
  ASSUME NEW h, NEW g, g \in Heap, NEW R, Sound(h, R), NEW T, SameBut(h, g, T), NEW n \in R,
         Subtree(h, n) \cap T = {}, Private(h, n)
  PROVE  Private(g, n)
  <1>1. /\ Subtree(g, n) = Subtree(h, n)
        /\ OwnStrings(g, Subtree(g, n)) = OwnStrings(h, Subtree(h, n))
    BY SameTree
  <1>2. \A w \in g.refs : /\ w \in h.refs
                          /\ g.child[w] = h.child[w] /\ g.valuestring[w] = h.valuestring[w]
    <2>1. h.refs \subseteq Live(h) \ T /\ g.refs = h.refs
      BY DEF SameBut, Sound, TypeOKIn
    <2> QED BY <2>1 DEF SameBut
  <1> QED BY <1>1, <1>2 DEF Private

\* attach_child to a root that owns its kids changes its tree alone, which
\* grows by the tree of the new kid.
LEMMA AttachGrows ==
  ASSUME NEW h, NEW R, Sound(h, R), NEW p \in R, NEW x \in R, x # p, Private(h, p), Private(h, x)
  PROVE  LET g == AttachChild(h, p, x)
         IN /\ g.refs = h.refs /\ g.consts = h.consts /\ g.type = h.type
            /\ g.valuestring = h.valuestring /\ g.string = h.string
            /\ SameBut(h, g, Subtree(h, p))
            /\ Subtree(g, p) \subseteq Subtree(h, p) \cup Subtree(h, x)
            /\ Private(g, p)
            /\ x \in Kids(g, p) /\ g.next[x] = NULL
  <1> DEFINE g == AttachChild(h, p, x)
             t == LastKid(h, h.child[p])
             A == Subtree(h, p)
             B == Subtree(h, x)
  <1>1. /\ h \in Heap /\ p \in Nodes /\ x \in Nodes /\ x # NULL /\ NULL \notin Nodes
        /\ R \subseteq Live(h) /\ h.refs \subseteq Live(h)
        /\ h.prev[x] = NULL /\ h.next[x] = NULL /\ h.next[p] = NULL
        /\ p \in A /\ A \subseteq Live(h) /\ x \in B /\ B \subseteq Live(h) /\ A \cap B = {}
    <2>1. p \in A /\ A \subseteq Live(h) /\ x \in B /\ B \subseteq Live(h) /\ A \cap B = {}
      BY SubtreeClosedOff, TreesApart
    <2> QED BY <2>1, HeapAssumption DEF Sound, TypeOKIn, Links, OwnersIn, Live
  <1>2. p \notin h.refs /\ h.refs \cap A = {}
    BY <1>1 DEF Private
  <1>3. h.child[p] # NULL => t \in A \ {p} /\ t \in Nodes /\ h.next[t] = NULL /\ t \in Siblings(h, h.child[p])
    <2>1. h.child[p] # NULL => t \in Kids(h, p) /\ h.next[t] = NULL
      BY <1>1, <1>2, TailIsLastKid
    <2>2. Kids(h, p) \subseteq A \ {p}
      BY <1>1, <1>2, KidsInTree
    <2> QED BY <1>1, <2>1, <2>2 DEF Kids, Live
  <1>4. /\ \A m \in A : /\ m \in h.refs \/ h.child[m] = NULL \/ h.child[m] \in A
                        /\ m = p \/ h.next[m] = NULL \/ h.next[m] \in A
        /\ \A m \in B : /\ m \in h.refs \/ h.child[m] = NULL \/ h.child[m] \in B
                        /\ m = x \/ h.next[m] = NULL \/ h.next[m] \in B
    BY <1>1, SubtreeClosed
  <1> HIDE DEF A, B, t
  <1>5. /\ g.type = h.type /\ g.refs = h.refs /\ g.consts = h.consts
        /\ g.valuestring = h.valuestring /\ g.string = h.string
        /\ h.child[p] = NULL => g.next = h.next /\ g.child = [h.child EXCEPT ![p] = x]
        /\ h.child[p] # NULL => g.next = [h.next EXCEPT ![t] = x] /\ g.child = h.child
    <2>1. CASE h.child[p] = NULL
      BY <1>1, <2>1 DEF AttachChild, Heap
    <2>2. CASE h.child[p] # NULL
      <3>1. /\ g.type = h.type /\ g.refs = h.refs /\ g.consts = h.consts /\ g.child = h.child
            /\ g.valuestring = h.valuestring /\ g.string = h.string
            /\ g.next = [h.next EXCEPT ![t] = x, ![x] = NULL]
        BY <1>1, <2>2 DEF AttachChild, Heap, t
      <3>2. [h.next EXCEPT ![t] = x, ![x] = NULL] = [h.next EXCEPT ![t] = x]
        BY <1>1, <1>3, <2>2 DEF Heap
      <3> QED BY <2>2, <3>1, <3>2
    <2> QED BY <2>1, <2>2
  <1>6. Live(g) = Live(h) BY <1>5 DEF Live
  <1> HIDE DEF g
  <1>7. SameBut(h, g, A)
    <2>1. \A m \in Live(h) \ A : g.next[m] = h.next[m] /\ g.child[m] = h.child[m]
      BY <1>1, <1>3, <1>5 DEF Heap, Live
    <2> QED BY <1>2, <1>5, <1>6, <2>1 DEF SameBut
  <1>8. \A m \in Nodes : /\ g.next[m] = h.next[m] \/ (g.next[m] = x /\ m # x)
                         /\ g.child[m] = h.child[m] \/ g.child[m] = x
    BY <1>1, <1>3, <1>5 DEF Heap
  <1>9. Subtree(g, p) \subseteq A \cup B
    <2>1. \A m \in A \cup B :
            /\ m \in g.refs \/ g.child[m] = NULL \/ g.child[m] \in A \cup B
            /\ m = p \/ g.next[m] = NULL \/ g.next[m] \in A \cup B
      BY <1>1, <1>4, <1>5, <1>8 DEF Live
    <2>2. TreeClosed(g, p, A \cup B) /\ A \cup B \subseteq Nodes /\ p \in A \cup B
      BY <1>1, <2>1 DEF TreeClosed, Live
    <2> QED BY <2>2, SubtreeLeast
  <1>10. Private(g, p)
    <2>1. \A w \in h.refs : /\ w \notin A \cup B /\ h.child[w] \notin A \cup B
                            /\ \/ h.valuestring[w] = NULL
                               \/ h.valuestring[w] \notin OwnStrings(h, A) \cup OwnStrings(h, B)
      BY DEF Private, A, B
    <2>2. OwnStrings(g, Subtree(g, p)) \subseteq OwnStrings(h, A) \cup OwnStrings(h, B)
      BY <1>5, <1>9 DEF OwnStrings
    <2>3. \A w \in h.refs : g.child[w] = h.child[w]
      BY <1>1, <1>2, <1>7 DEF SameBut
    <2> QED BY <1>5, <1>9, <2>1, <2>2, <2>3 DEF Private
  <1>11. g.next[x] = NULL
    BY <1>1, <1>3, <1>5 DEF Heap
  <1>12. x \in Kids(g, p)
    <2>1. CASE h.child[p] = NULL
      <3>1. g.child[p] = x
        BY <1>1, <1>5, <2>1 DEF Heap
      <3> QED BY <1>1, <3>1, SiblingsHasHead DEF Kids
    <2>2. CASE h.child[p] # NULL
      <3> DEFINE c == h.child[p]
                 K == Siblings(g, c)
      <3>1. g.child[p] = c /\ g.next[t] = x /\ c \in Nodes /\ g.next \in [Nodes -> Nodes \cup {NULL}]
        BY <1>1, <1>3, <1>5, <2>2 DEF Heap
      <3>2. c \in K /\ K \subseteq Nodes
        BY <3>1, SiblingsHasHead
      <3>3. \A m \in K : g.next[m] = NULL \/ g.next[m] \in K
        <4>1. g = [h EXCEPT !.next = [@ EXCEPT ![t] = x, ![x] = NULL], !.prev[x] = t]
          BY <2>2 DEF g, AttachChild, t
        <4>2. g \in Heap
          BY <1>1, <1>3, <2>2, <4>1 DEF Heap
        <4> QED BY <4>2, SiblingsClosed
      <3> HIDE DEF K
      <3>4. ListClosed(h, K)
        BY <1>3, <1>5, <2>2, <3>2, <3>3, <1>1 DEF ListClosed, Heap
      <3>5. t \in K
        BY <1>3, <2>2, <3>2, <3>4, SiblingsLeast
      <3>6. x \in K
        BY <1>1, <3>1, <3>3, <3>5
      <3> QED BY <2>2, <3>1, <3>6 DEF Kids, K
    <2> QED BY <2>1, <2>2
  <1> QED BY <1>5, <1>7, <1>9, <1>10, <1>11, <1>12 DEF g, A, B

-----------------------------------------------------------------------------
(* Frames and the stack *)

\* The nodes that the frames r have in hand, and all that is freed by somebody:
\* the caller's trees o, those nodes and that of the frame f on top.
InHand(r) == {r[i].node : i \in 1 .. Len(r)}
RootsOf(o, f, r) == o \cup InHand(r) \cup ({f.node} \ {NULL})

\* A frame is as good as before when only nodes outside its tree change, and
\* outside what it copies.
LEMMA FrameElsewhere ==
  ASSUME NEW h, NEW g, g \in Heap, NEW R, Sound(h, R), NEW T, SameBut(h, g, T), NEW f \in Frames,
         f.node \in R \cup {NULL}, f.node # NULL => Subtree(h, f.node) \cap T = {},
         f.how = "copy" => f.source \notin T /\ f.at \notin T,
         Reads(h, f), Builds(h, f)
  PROVE  /\ Reads(g, f) /\ Builds(g, f)
         /\ f.node # NULL => Subtree(g, f.node) = Subtree(h, f.node)
  <1>1. Reads(g, f)
    BY DEF Reads, SameBut
  <1>2. ASSUME f.node # NULL
        PROVE  Builds(g, f) /\ Subtree(g, f.node) = Subtree(h, f.node)
    <2> DEFINE n == f.node
    <2>1. n \in R /\ Subtree(h, n) \cap T = {} /\ n \in Subtree(h, n) /\ n \in Live(h)
      BY <1>2, SubtreeClosedOff DEF Sound, TypeOKIn
    <2>2. Private(h, n) /\ n \notin h.refs
      BY <1>2, <2>1 DEF Builds, Private
    <2>3. Private(g, n) /\ Subtree(g, n) = Subtree(h, n) /\ Kids(h, n) \subseteq Kids(g, n)
      BY <2>1, <2>2, PrivateElsewhere, SameTree
    <2>4. /\ n \in Live(g) /\ n \notin g.consts /\ g.type[n] = h.type[n] /\ g.child[n] = h.child[n]
          /\ g.string[n] = h.string[n]
      BY <1>2, <2>1 DEF SameBut, Builds
    <2>5. f.how = "copy" => g.type[f.source] = h.type[f.source]
      BY DEF SameBut, Reads
    <2>6. f.how = "value" /\ f.prev # NULL => /\ f.prev \in Kids(g, n)
                                              /\ g.next[f.prev] = NULL
      <3>1. Kids(h, n) \subseteq Live(h) \ T
        <4>1. Kids(h, n) \subseteq Subtree(h, n) /\ Subtree(h, n) \subseteq Live(h)
          BY <2>1, <2>2, KidsInTree, SubtreeClosedOff
        <4> QED BY <2>1, <4>1
      <3> QED BY <1>2, <2>3, <3>1 DEF Builds, SameBut
    <2> QED BY <1>2, <2>3, <2>4, <2>5, <2>6 DEF Builds
  <1> QED BY <1>1, <1>2 DEF Builds

\* So are frames that wait.
LEMMA WaitingElsewhere ==
  ASSUME NEW h, NEW g, g \in Heap, NEW R, Sound(h, R), NEW T, SameBut(h, g, T),
         NEW o, NEW r, Waiting(h, o, r), InHand(r) \subseteq R,
         \A i \in 1 .. Len(r) : /\ Subtree(h, r[i].node) \cap T = {}
                                /\ r[i].how = "copy" => r[i].source \notin T /\ r[i].at \notin T
  PROVE  /\ Waiting(g, o, r)
         /\ \A i \in 1 .. Len(r) : Subtree(g, r[i].node) = Subtree(h, r[i].node)
  <1>1. ASSUME NEW i \in 1 .. Len(r)
        PROVE  /\ Reads(g, r[i]) /\ Builds(g, r[i])
               /\ Subtree(g, r[i].node) = Subtree(h, r[i].node)
    <2>1. r[i] \in Frames /\ r[i].node \in R
      BY DEF Waiting, InHand
    <2>2. Reads(h, r[i]) /\ Builds(h, r[i]) /\ r[i].node # NULL
      BY DEF Waiting, Waits
    <2> QED BY <2>1, <2>2, FrameElsewhere
  <1>2. \A i, j \in 1 .. Len(r) : Outside(g, r[i], r[j].node)
    BY <1>1 DEF Waiting, Outside
  <1> QED BY <1>1, <1>2 DEF Waiting

\* The recursion goes deeper: the frame on top waits too.
LEMMA PushWaits ==
  ASSUME NEW h, NEW o, NEW s \in Seq(Frames), s # <<>>,
         On(h, o, Head(s), Tail(s)), Waiting(h, o, Tail(s)), Waits(Head(s))
  PROVE  Waiting(h, o, s)
  <1> DEFINE f == Head(s)
             r == Tail(s)
  <1>1. /\ r \in Seq(Frames) /\ Len(s) \in Nat /\ Len(r) = Len(s) - 1 /\ f = s[1]
        /\ \A i \in 2 .. Len(s) : i - 1 \in 1 .. Len(r) /\ s[i] = r[i - 1]
    OBVIOUS
  <1> HIDE DEF f, r
  <1>2. \A i \in 1 .. Len(s) : s[i] = f \/ \E k \in 1 .. Len(r) : s[i] = r[k]
    BY <1>1
  <1>3. \A i \in 1 .. Len(s) :
          /\ Reads(h, s[i]) /\ Builds(h, s[i]) /\ Waits(s[i]) /\ s[i].node \notin o
    BY <1>2 DEF On, Waiting, f, r
  <1>4. \A i, j \in 1 .. Len(s) : Outside(h, s[i], s[j].node) /\ s[i].how = s[j].how
    <2>1. /\ Outside(h, f, f.node)
          /\ \A k \in 1 .. Len(r) : /\ r[k].how = f.how
                                   /\ Outside(h, f, r[k].node) /\ Outside(h, r[k], f.node)
      BY DEF On, f, r
    <2>2. \A k, l \in 1 .. Len(r) : Outside(h, r[k], r[l].node) /\ r[k].how = r[l].how
      BY DEF Waiting, r
    <2> TAKE i, j \in 1 .. Len(s)
    <2>3. CASE s[i] = f
      BY <1>2, <2>1, <2>3
    <2>4. CASE s[i] # f
      <3>1. PICK k \in 1 .. Len(r) : s[i] = r[k]
        BY <1>2, <2>4
      <3> QED BY <1>2, <2>1, <2>2, <3>1
    <2> QED BY <2>3, <2>4
  <1>5. ASSUME NEW i \in 1 .. Len(s), NEW j \in 1 .. Len(s), s[i].node = s[j].node
        PROVE  i = j
    <2>1. \A k \in 1 .. Len(r) : r[k].node # f.node
      BY DEF On, f, r
    <2>2. \A k, l \in 1 .. Len(r) : r[k].node = r[l].node => k = l
      BY DEF Waiting, r
    <2>3. CASE i = 1 /\ j = 1
      BY <2>3
    <2>4. CASE i = 1 /\ j # 1
      BY <1>1, <1>5, <2>1, <2>4
    <2>5. CASE i # 1 /\ j = 1
      BY <1>1, <1>5, <2>1, <2>5
    <2>6. CASE i # 1 /\ j # 1
      <3>1. i - 1 \in 1 .. Len(r) /\ j - 1 \in 1 .. Len(r) /\ r[i - 1].node = r[j - 1].node
        BY <1>1, <1>5, <2>6
      <3> QED BY <2>2, <3>1
    <2> QED BY <2>3, <2>4, <2>5, <2>6
  <1> QED BY <1>3, <1>4, <1>5 DEF Waiting

\* The first of the waiting frames goes on.
LEMMA PopWaits ==
  ASSUME NEW h, NEW o, NEW r, Waiting(h, o, r), r # <<>>
  PROVE  /\ Waiting(h, o, Tail(r)) /\ On(h, o, Head(r), Tail(r)) /\ Waits(Head(r))
         /\ InHand(r) = InHand(Tail(r)) \cup {Head(r).node}
  <1> DEFINE c == Head(r)
             q == Tail(r)
  <1>1. /\ r \in Seq(Frames) /\ q \in Seq(Frames) /\ c \in Frames
        /\ Len(r) \in Nat /\ Len(q) = Len(r) - 1 /\ c = r[1] /\ 1 \in 1 .. Len(r)
        /\ \A i \in 1 .. Len(q) : i + 1 \in 1 .. Len(r) /\ q[i] = r[i + 1] /\ i + 1 # 1
    BY DEF Waiting
  <1> HIDE DEF c, q
  <1>2. \A i \in 1 .. Len(q) : /\ Reads(h, q[i]) /\ Builds(h, q[i]) /\ Waits(q[i])
                               /\ q[i].node \notin o
                               /\ q[i].how = c.how
                               /\ Outside(h, c, q[i].node) /\ Outside(h, q[i], c.node)
    BY <1>1 DEF Waiting
  <1>3. \A i \in 1 .. Len(q) : q[i].node # c.node
    BY <1>1 DEF Waiting
  <1>4. \A i, j \in 1 .. Len(q) : Outside(h, q[i], q[j].node) /\ q[i].how = q[j].how
    BY <1>1 DEF Waiting
  <1>5. ASSUME NEW i \in 1 .. Len(q), NEW j \in 1 .. Len(q), q[i].node = q[j].node
        PROVE  i = j
    <2>1. i + 1 \in 1 .. Len(r) /\ j + 1 \in 1 .. Len(r) /\ r[i + 1].node = r[j + 1].node
      BY <1>1, <1>5
    <2>2. i + 1 = j + 1
      BY <2>1 DEF Waiting
    <2>3. i \in Int /\ j \in Int
      OBVIOUS
    <2> QED BY <2>2, <2>3
  <1>6. Reads(h, c) /\ Builds(h, c) /\ Waits(c) /\ c.node \notin o /\ Outside(h, c, c.node)
    BY <1>1 DEF Waiting
  <1>7. InHand(r) = InHand(q) \cup {c.node}
    <2>1. ASSUME NEW i \in 1 .. Len(r)
          PROVE  i = 1 \/ (i - 1 \in 1 .. Len(q) /\ r[i] = q[i - 1])
      <3>1. CASE i # 1
        <4>1. i - 1 \in 1 .. Len(q) /\ (i - 1) + 1 = i
          BY <1>1, <3>1
        <4> QED BY <1>1, <4>1
      <3> QED BY <3>1
    <2>2. ASSUME NEW i \in 1 .. Len(r)
          PROVE  r[i].node \in InHand(q) \cup {c.node}
      <3>1. CASE i = 1
        BY <1>1, <3>1
      <3>2. CASE i # 1
        BY <2>1, <3>2 DEF InHand
      <3> QED BY <3>1, <3>2
    <2>3. InHand(q) \cup {c.node} \subseteq InHand(r)
      BY <1>1 DEF InHand
    <2> QED BY <2>2, <2>3 DEF InHand
  <1>8. Waiting(h, o, q)
    BY <1>1, <1>2, <1>4, <1>5 DEF Waiting
  <1>9. On(h, o, c, q)
    BY <1>1, <1>2, <1>3, <1>6 DEF On
  <1> QED BY <1>6, <1>7, <1>8, <1>9 DEF c, q

-----------------------------------------------------------------------------
(* A build under way: the caller holds the trees o, the frame f is on top and *)
(* the frames r wait for it                                                   *)

Intact(h, o, f, r) ==
  /\ Sound(h, RootsOf(o, f, r)) /\ Strung(h, {}) /\ Reached(h, RootsOf(o, f, r))
  /\ On(h, o, f, r) /\ Waiting(h, o, r)

\* Nothing that the frames r copy is in A.
Beside(r, A) == \A i \in 1 .. Len(r) : r[i].how = "copy" => r[i].source \notin A /\ r[i].at \notin A

\* The trees of the waiting frames are apart from what the others hold.
LEMMA WaitingApart ==
  ASSUME NEW h, NEW o, NEW f, NEW r, Intact(h, o, f, r),
         NEW x \in RootsOf(o, f, r), x \notin InHand(r)
  PROVE  \A i \in 1 .. Len(r) : /\ r[i].node \in RootsOf(o, f, r)
                                /\ Subtree(h, r[i].node) \cap Subtree(h, x) = {}
  <1>1. \A i \in 1 .. Len(r) : r[i].node \in RootsOf(o, f, r) /\ r[i].node # x
    BY DEF InHand, RootsOf
  <1> QED BY <1>1, TreesApart DEF Intact

\* The heap changes within T and the frame on top becomes k, whose tree is within
\* A: the frames below do not notice.
LEMMA StepOn ==
  ASSUME NEW h, NEW g, g \in Heap, NEW R, Sound(h, R), NEW T, SameBut(h, g, T),
         NEW o, NEW r, Waiting(h, o, r), InHand(r) \subseteq R,
         \A i \in 1 .. Len(r) : Subtree(h, r[i].node) \cap T = {},
         NEW A, T \subseteq A, Beside(r, A),
         NEW k \in Frames, k.node \notin o, k.node \notin InHand(r), Builds(g, k),
         k.node # NULL => Subtree(g, k.node) \subseteq A,
         Reads(h, k), k.how = "copy" => k.source \notin A /\ k.at \notin A,
         \A i \in 1 .. Len(r) : r[i].how = k.how /\ Outside(h, k, r[i].node)
  PROVE  On(g, o, k, r) /\ Waiting(g, o, r)
  <1>1. /\ Waiting(g, o, r)
        /\ \A i \in 1 .. Len(r) : Subtree(g, r[i].node) = Subtree(h, r[i].node)
    BY WaitingElsewhere DEF Beside
  <1>2. Reads(g, k)
    BY DEF Reads, SameBut
  <1>3. Outside(g, k, k.node) /\ \A i \in 1 .. Len(r) : Outside(g, r[i], k.node)
    BY DEF Outside, Beside
  <1>4. \A i \in 1 .. Len(r) : Outside(g, k, r[i].node) /\ r[i].node # k.node
    BY <1>1 DEF Outside, InHand
  <1> QED BY <1>1, <1>2, <1>3, <1>4 DEF On

\* The frame on top gives up its node: free_cjson frees what it has built.
LEMMA FreeBuilt ==
  ASSUME NEW h, NEW o, NEW f, NEW r, Intact(h, o, f, r), f.node # NULL
  PROVE  Intact(FreeTree(h, f.node), o, [f EXCEPT !.node = NULL], r)
  <1> DEFINE n == f.node
             R == RootsOf(o, f, r)
             g == FreeTree(h, n)
             k == [f EXCEPT !.node = NULL]
             A == Subtree(h, n)
  <1>1. /\ n \in R /\ n \notin o /\ n \notin InHand(r) /\ Private(h, n) /\ h \in Heap
        /\ Sound(h, R) /\ Strung(h, {}) /\ Reached(h, R)
    BY DEF Intact, RootsOf, On, Builds, InHand, Sound, TypeOKIn
  <1>2. RootsOf(o, k, r) = R \ {n}
    BY <1>1 DEF RootsOf, On, Intact, Frames
  <1>3. Sound(g, R \ {n}) /\ Strung(g, {}) /\ Reached(g, R \ {n})
    BY <1>1, PrivateMayFree, FreeTreeSound, FreeTreeStrung, FreeTreeReached DEF MayFree
  <1>4. A \subseteq Live(h) /\ h.refs \cap A = {}
    BY <1>1, SubtreeClosedOff DEF Private
  <1>5. SameBut(h, g, A)
    <2>1. \A m \in Live(h) \ A :
            /\ g.type[m] = h.type[m] /\ g.next[m] = h.next[m] /\ g.child[m] = h.child[m]
            /\ g.valuestring[m] = h.valuestring[m] /\ g.string[m] = h.string[m]
      BY <1>1 DEF FreeTree, Blank, Heap, Live, A
    <2>2. g.refs = h.refs /\ g.consts = h.consts \ A
      BY <1>4 DEF FreeTree, A
    <2> QED BY <1>4, <2>1, <2>2 DEF SameBut, Live
  <1>6. k \in Frames /\ k.node = NULL /\ k.how = f.how /\ k.source = f.source /\ k.at = f.at
    BY DEF Intact, On, Frames
  <1>7. Builds(g, k) /\ NULL \notin o /\ NULL \notin InHand(r) /\ Reads(h, k)
    <2>1. NULL \notin R
      BY <1>1, HeapAssumption DEF Sound, TypeOKIn, Live
    <2> QED BY <1>6, <2>1 DEF Builds, RootsOf, Reads, Intact, On
  <1>8. Beside(r, A) /\ (k.how = "copy" => k.source \notin A /\ k.at \notin A)
    BY <1>6 DEF Intact, On, Outside, Beside
  <1>9. \A i \in 1 .. Len(r) : Subtree(h, r[i].node) \cap A = {}
    BY <1>1, WaitingApart
  <1>10. \A i \in 1 .. Len(r) : r[i].how = k.how /\ Outside(h, k, r[i].node)
    BY <1>6 DEF Intact, On, Outside
  <1>11. InHand(r) \subseteq R /\ Waiting(h, o, r) /\ g \in Heap
    BY <1>3 DEF RootsOf, Intact, Sound, TypeOKIn
  <1> HIDE DEF A, g, R, k
  <1>12. On(g, o, k, r) /\ Waiting(g, o, r)
    BY <1>1, <1>5, <1>6, <1>7, <1>8, <1>9, <1>10, <1>11, StepOn
  <1> QED BY <1>2, <1>3, <1>12 DEF Intact, g, k

\* A change within the tree of the frame on top, which stays where it is and
\* has no other nodes: all is well if what the frame builds is.
LEMMA TopChanges ==
  ASSUME NEW h, NEW o, NEW f, NEW r, Intact(h, o, f, r), f.node # NULL,
         NEW g, NEW T, SameBut(h, g, T), T \subseteq Subtree(h, f.node),
         Sound(g, RootsOf(o, f, r)), Strung(g, {}), Reached(g, RootsOf(o, f, r)),
         Subtree(g, f.node) = Subtree(h, f.node), Builds(g, f)
  PROVE  Intact(g, o, f, r)
  <1> DEFINE n == f.node
             R == RootsOf(o, f, r)
             A == Subtree(h, n)
  <1>1. /\ n \in R /\ n \notin o /\ n \notin InHand(r) /\ Sound(h, R) /\ InHand(r) \subseteq R
        /\ g \in Heap /\ f \in Frames /\ Reads(h, f) /\ Waiting(h, o, r)
    BY DEF Intact, RootsOf, On, InHand, Sound, TypeOKIn
  <1>2. \A i \in 1 .. Len(r) : Subtree(h, r[i].node) \cap A = {}
    BY <1>1, WaitingApart
  <1>3. Beside(r, A) /\ (f.how = "copy" => f.source \notin A /\ f.at \notin A)
    BY DEF Intact, On, Outside, Beside
  <1>4. \A i \in 1 .. Len(r) : r[i].how = f.how /\ Outside(h, f, r[i].node)
    BY DEF Intact, On
  <1> HIDE DEF A, R, n
  <1>5. Subtree(g, f.node) \subseteq A /\ T \subseteq A
    BY DEF A, n
  <1>6. \A i \in 1 .. Len(r) : Subtree(h, r[i].node) \cap T = {}
    BY <1>2, <1>5
  <1>7. On(g, o, f, r) /\ Waiting(g, o, r)
    BY <1>1, <1>3, <1>4, <1>5, <1>6, StepOn DEF n
  <1> QED BY <1>7 DEF Intact

\* A new node, or a new string, borrowed by nobody.
LEMMA FreshIsPrivate ==
  ASSUME NEW h, NEW R, Sound(h, R), Strung(h, {}), NEW n \in R, Private(h, n),
         NEW b \in Bufs \ LiveBufs(h), NEW g, g.refs = h.refs, g.child = h.child,
         Subtree(g, n) = Subtree(h, n),
         \A w \in Live(h) : w \in Subtree(h, n) \/ g.valuestring[w] = h.valuestring[w],
         OwnStrings(g, Subtree(h, n)) \subseteq OwnStrings(h, Subtree(h, n)) \cup {b}
  PROVE  Private(g, n)
  <1>1. \A w \in h.refs : h.valuestring[w] # b
    <2>1. \A w \in h.refs : h.valuestring[w] \in Texts \cup LiveBufs(h) \cup {NULL}
      BY StrungLives DEF StringsLiveIn, Pointers, Sound, TypeOKIn
    <2> QED BY <2>1, HeapAssumption
  <1>2. \A w \in h.refs : w \notin Subtree(h, n) /\ g.valuestring[w] = h.valuestring[w]
    BY DEF Private, Sound, TypeOKIn
  <1> QED BY <1>1, <1>2 DEF Private

\* A string is copied for the value of a private node that has none.
LEMMA TextIsPrivate ==
  ASSUME NEW h, NEW R, Sound(h, R), Strung(h, {}), Reached(h, R), NEW n \in R, Private(h, n),
         h.type[n] \in Strings, h.valuestring[n] = NULL,
         NEW b \in Bufs \ LiveBufs(h), NEW s \in Texts
  PROVE  LET g == PutText(h, n, s, b)
         IN /\ Sound(g, R) /\ Strung(g, {}) /\ Reached(g, R)
            /\ SameBut(h, g, {n}) /\ Subtree(g, n) = Subtree(h, n) /\ Private(g, n)
            /\ g.type = h.type /\ g.string = h.string /\ g.child = h.child /\ g.next = h.next
            /\ g.consts = h.consts /\ Live(g) = Live(h)
  <1> DEFINE g == [NewText(h, b, s) EXCEPT !.valuestring[n] = b]
  <1>1. /\ n \in Live(h) /\ n \in Nodes /\ n \notin h.refs /\ h \in Heap /\ n \in Subtree(h, n)
        /\ s # NULL /\ b \in Bufs
    BY SubtreeClosedOff, HeapAssumption DEF Sound, TypeOKIn, Private, Live
  <1>2. /\ Keeps(h, g, R) /\ Strung(g, {}) /\ g.consts = h.consts /\ g.string = h.string
        /\ g.child = h.child
    BY <1>1, GiveValueStrung
  <1>3. /\ Sound(g, R) /\ Live(g) = Live(h) /\ g.type = h.type /\ g.refs = h.refs /\ g.next = h.next
    BY <1>2 DEF Keeps
  <1>4. Reached(g, R)
    BY <1>2, KeepsReached
  <1>5. g.valuestring = [h.valuestring EXCEPT ![n] = b]
    BY <1>1 DEF NewText, Heap
  <1>6. \A w \in Nodes \ {n} : g.valuestring[w] = h.valuestring[w]
    BY <1>1, <1>5 DEF Heap
  <1>7. g.valuestring[n] = b
    BY <1>1, <1>5 DEF Heap
  <1>8. PutText(h, n, s, b) = g
    BY <1>1 DEF PutText
  <1> HIDE DEF g
  <1>9. SameBut(h, g, {n})
    BY <1>1, <1>2, <1>3, <1>6 DEF SameBut, Live
  <1>10. Subtree(g, n) = Subtree(h, n)
    BY <1>2, <1>3, SameListsSameSubtree
  <1>11. Private(g, n)
    <2>1. OwnStrings(g, Subtree(h, n)) \subseteq OwnStrings(h, Subtree(h, n)) \cup {b}
      <3>1. Subtree(h, n) \subseteq Nodes
        BY <1>1, SubtreeHasRoot
      <3> QED BY <1>2, <1>3, <1>6, <1>7, <3>1 DEF OwnStrings
    <2>2. \A w \in Live(h) : w \in Subtree(h, n) \/ g.valuestring[w] = h.valuestring[w]
      BY <1>1, <1>6 DEF Live
    <2> QED BY <1>2, <1>3, <1>10, <2>1, <2>2, FreshIsPrivate
  <1> QED BY <1>2, <1>3, <1>4, <1>8, <1>9, <1>10, <1>11

\* A string is copied for the key of a private node that has none.
LEMMA KeyIsPrivate ==
  ASSUME NEW h, NEW R, Sound(h, R), Strung(h, {}), Reached(h, R), NEW n \in R, Private(h, n),
         n \notin h.consts, h.string[n] = NULL,
         NEW b \in Bufs \ LiveBufs(h), NEW s \in Texts
  PROVE  LET g == PutKey(h, n, s, b)
         IN /\ Sound(g, R) /\ Strung(g, {}) /\ Reached(g, R)
            /\ SameBut(h, g, {n}) /\ Subtree(g, n) = Subtree(h, n) /\ Private(g, n)
            /\ g.type = h.type /\ g.child = h.child /\ g.next = h.next
            /\ g.consts = h.consts /\ Live(g) = Live(h)
  <1> DEFINE g == [NewText(h, b, s) EXCEPT !.string[n] = b]
  <1>1. /\ n \in Live(h) /\ n \in Nodes /\ n \notin h.refs /\ h \in Heap /\ n \in Subtree(h, n)
        /\ s # NULL /\ b \in Bufs
    BY SubtreeClosedOff, HeapAssumption DEF Sound, TypeOKIn, Private, Live
  <1>2. /\ Keeps(h, g, R) /\ Strung(g, {}) /\ g.consts = h.consts
        /\ g.valuestring = h.valuestring /\ g.child = h.child
    <2>1. n \in Live(h) \ h.consts
      BY <1>1
    <2>2. h.string[n] = NULL /\ Strung(h, {}) /\ Sound(h, R)
      OBVIOUS
    <2> HIDE DEF g
    <2> QED BY <2>1, <2>2, GiveKeyStrung, SMTT(30) DEF g
  <1>3. /\ Sound(g, R) /\ Live(g) = Live(h) /\ g.type = h.type /\ g.refs = h.refs /\ g.next = h.next
    BY <1>2 DEF Keeps
  <1>4. Reached(g, R)
    BY <1>2, KeepsReached
  <1>5. g.string = [h.string EXCEPT ![n] = b]
    BY <1>1 DEF NewText, Heap
  <1>6. \A w \in Nodes \ {n} : g.string[w] = h.string[w]
    BY <1>1, <1>5 DEF Heap
  <1>7. g.string[n] = b
    BY <1>1, <1>5 DEF Heap
  <1>8. PutKey(h, n, s, b) = g
    BY <1>1 DEF PutKey
  <1> HIDE DEF g
  <1>9. SameBut(h, g, {n})
    BY <1>1, <1>2, <1>3, <1>6 DEF SameBut, Live
  <1>10. Subtree(g, n) = Subtree(h, n)
    BY <1>2, <1>3, SameListsSameSubtree
  <1>11. Private(g, n)
    <2>1. OwnStrings(g, Subtree(h, n)) \subseteq OwnStrings(h, Subtree(h, n)) \cup {b}
      <3>1. Subtree(h, n) \subseteq Nodes
        BY <1>1, SubtreeHasRoot
      <3> QED BY <1>2, <1>3, <1>6, <1>7, <3>1 DEF OwnStrings
    <2>2. \A w \in Live(h) : w \in Subtree(h, n) \/ g.valuestring[w] = h.valuestring[w]
      BY <1>2
    <2> QED BY <1>2, <1>3, <1>10, <2>1, <2>2, FreshIsPrivate
  <1> QED BY <1>2, <1>3, <1>4, <1>8, <1>9, <1>10, <1>11

\* The frame on top copies its text.
LEMMA PutTextWhole ==
  ASSUME NEW h, NEW o, NEW f, NEW r, Intact(h, o, f, r), f.node # NULL,
         h.type[f.node] \in Strings, h.valuestring[f.node] = NULL,
         NEW b \in Bufs \ LiveBufs(h), NEW s \in Texts
  PROVE  Intact(PutText(h, f.node, s, b), o, f, r) /\ PutText(h, f.node, s, b).string = h.string
  <1> DEFINE n == f.node
             R == RootsOf(o, f, r)
             g == PutText(h, n, s, b)
  <1>1. /\ n \in R /\ Private(h, n) /\ Sound(h, R) /\ Strung(h, {}) /\ Reached(h, R)
        /\ f \in Frames /\ Builds(h, f)
    BY DEF Intact, RootsOf, On, Builds
  <1>2. /\ Sound(g, R) /\ Strung(g, {}) /\ Reached(g, R)
        /\ SameBut(h, g, {n}) /\ Subtree(g, n) = Subtree(h, n) /\ Private(g, n)
        /\ g.type = h.type /\ g.string = h.string /\ g.child = h.child /\ g.next = h.next
        /\ g.consts = h.consts /\ Live(g) = Live(h)
    BY <1>1, TextIsPrivate
  <1>3. {n} \subseteq Subtree(h, n)
    BY <1>1, SubtreeClosedOff
  <1> HIDE DEF g
  <1>4. Builds(g, f)
    BY <1>1, <1>2 DEF Builds, Kids, Siblings, ListClosed
  <1> HIDE DEF R
  <1>5. Intact(g, o, f, r)
    BY <1>1, <1>2, <1>3, <1>4, TopChanges DEF R
  <1> QED BY <1>2, <1>5 DEF g

\* duplicate copies the key.
LEMMA PutKeyWhole ==
  ASSUME NEW h, NEW o, NEW f, NEW r, Intact(h, o, f, r), f.node # NULL, f.how = "copy",
         h.string[f.node] = NULL, NEW b \in Bufs \ LiveBufs(h), NEW s \in Texts
  PROVE  Intact(PutKey(h, f.node, s, b), o, f, r)
  <1> DEFINE n == f.node
             R == RootsOf(o, f, r)
             g == PutKey(h, n, s, b)
  <1>1. /\ n \in R /\ Private(h, n) /\ Sound(h, R) /\ Strung(h, {}) /\ Reached(h, R)
        /\ f \in Frames /\ Builds(h, f) /\ n \notin h.consts
    BY DEF Intact, RootsOf, On, Builds
  <1>2. /\ Sound(g, R) /\ Strung(g, {}) /\ Reached(g, R)
        /\ SameBut(h, g, {n}) /\ Subtree(g, n) = Subtree(h, n) /\ Private(g, n)
        /\ g.type = h.type /\ g.child = h.child /\ g.next = h.next
        /\ g.consts = h.consts /\ Live(g) = Live(h)
    BY <1>1, KeyIsPrivate
  <1>3. {n} \subseteq Subtree(h, n)
    BY <1>1, SubtreeClosedOff
  <1> HIDE DEF g
  <1>4. Builds(g, f)
    BY <1>1, <1>2 DEF Builds
  <1> HIDE DEF R
  <1>5. Intact(g, o, f, r)
    BY <1>1, <1>2, <1>3, <1>4, TopChanges DEF R
  <1> QED BY <1>5 DEF g

\* g is h with a node n of type t besides the roots R.
GrownBy(h, g, n, t, R) ==
  /\ Sound(g, R \cup {n}) /\ Strung(g, {}) /\ Reached(g, R \cup {n})
  /\ SameBut(h, g, {n}) /\ Subtree(g, n) = {n} /\ Private(g, n)
  /\ n \in Live(g) \ g.consts /\ g.type[n] = t /\ g.child[n] = NULL
  /\ g.valuestring[n] = NULL /\ g.string[n] = NULL
  /\ LiveBufs(g) = LiveBufs(h)
  /\ \A m \in Live(h) : g.type[m] = h.type[m]

\* A new node is a private tree of its own.
LEMMA NewNodeIsPrivate ==
  ASSUME NEW h, NEW R, Sound(h, R), Strung(h, {}), Reached(h, R),
         NEW n \in Nodes \ Live(h), NEW t \in Types
  PROVE  GrownBy(h, NewNode(h, n, t), n, t, R)
  <1> DEFINE g == NewNode(h, n, t)
  <1>1. /\ h \in Heap /\ h.refs \subseteq Live(h) /\ h.consts \subseteq Live(h) /\ R \subseteq Live(h)
        /\ LinksLiveIn(h)
    BY DEF Sound, TypeOKIn, Links
  <1>2. Allocates(h, g, n, t)
    BY DEF Allocates
  <1>3. Adds(h, g, n, R) /\ g.type[n] = t /\ g.child = h.child
    BY <1>2, NewNodeAdds
  <1>4. /\ Strung(g, {}) /\ n \notin g.consts /\ g.valuestring[n] = NULL /\ g.string[n] = NULL
        /\ g.valuestring = h.valuestring /\ g.string = h.string /\ g.text = h.text
    BY <1>2, NewNodeStrung
  <1>5. g.refs = h.refs /\ g.consts = h.consts /\ g.next = h.next
    BY <1>1 DEF NewNode
  <1> HIDE DEF g
  <1>6. Reached(g, R \cup {n}) /\ Sound(g, R \cup {n}) /\ g.child[n] = NULL /\ g \in Heap
    <2>1. n \notin g.refs
      BY <1>1, <1>5
    <2> QED BY <1>1, <1>3, <2>1, AddsReached DEF Adds, Sound, TypeOKIn
  <1>7. SameBut(h, g, {n})
    <2>1. \A m \in Live(h) : m \in Live(g) /\ g.type[m] = h.type[m]
      BY <1>3 DEF Adds
    <2> QED BY <1>1, <1>3, <1>4, <1>5, <2>1 DEF SameBut
  <1>8. Subtree(g, n) = {n}
    BY <1>6, SubtreeOfLeaf
  <1>9. Private(g, n)
    <2>1. \A w \in h.refs : h.child[w] # n
      BY <1>1, HeapAssumption DEF LinksLiveIn
    <2>2. OwnStrings(g, {n}) \subseteq {NULL}
      BY <1>4 DEF OwnStrings
    <2> QED BY <1>1, <1>3, <1>5, <1>8, <2>1, <2>2 DEF Private
  <1> QED BY <1>3, <1>4, <1>6, <1>7, <1>8, <1>9 DEF GrownBy, Adds, LiveBufs, g

\* The frame on top allocates its node.
LEMMA NewNodeWhole ==
  ASSUME NEW h, NEW o, NEW f, NEW r, Intact(h, o, f, r), f.node = NULL, f.prev = NULL,
         NEW n \in Nodes \ Live(h)
  PROVE  LET g == NewNode(h, n, IF f.how = "copy" THEN h.type[f.source] ELSE f.source.kind)
         IN /\ Intact(g, o, [f EXCEPT !.node = n], r)
            /\ g.valuestring[n] = NULL /\ g.string[n] = NULL
  <1> DEFINE R == RootsOf(o, f, r)
             t == IF f.how = "copy" THEN h.type[f.source] ELSE f.source.kind
             g == NewNode(h, n, t)
             k == [f EXCEPT !.node = n]
  <1>1. /\ Sound(h, R) /\ Strung(h, {}) /\ Reached(h, R) /\ R \subseteq Live(h) /\ h \in Heap
        /\ InHand(r) \subseteq R /\ o \subseteq R
        /\ f \in Frames /\ Reads(h, f) /\ Waiting(h, o, r)
    BY DEF Intact, RootsOf, On, Sound, TypeOKIn
  <1>2. t \in Types
    <2>1. CASE f.how = "copy"
      BY <1>1, <2>1 DEF Reads, Live, Heap
    <2>2. CASE f.how # "copy"
      BY <1>1, <2>2, ValuesAssumption DEF Reads
    <2> QED BY <2>1, <2>2
  <1>3. RootsOf(o, k, r) = R \cup {n}
    <2>1. k.node = n
      BY <1>1 DEF Frames
    <2> QED BY <2>1, HeapAssumption DEF RootsOf
  <1> HIDE DEF R, t, g
  <1>4. /\ Sound(g, R \cup {n}) /\ Strung(g, {}) /\ Reached(g, R \cup {n})
        /\ SameBut(h, g, {n}) /\ Subtree(g, n) = {n} /\ Private(g, n)
        /\ n \in Live(g) \ g.consts /\ g.type[n] = t /\ g.child[n] = NULL
        /\ g.valuestring[n] = NULL /\ g.string[n] = NULL
        /\ \A m \in Live(h) : g.type[m] = h.type[m]
    <2>1. GrownBy(h, g, n, t, R)
      BY <1>1, <1>2, NewNodeIsPrivate DEF g
    <2> QED BY <2>1 DEF GrownBy
  <1>5. /\ k \in Frames /\ k.node = n /\ k.how = f.how /\ k.source = f.source /\ k.at = f.at
        /\ k.prev = NULL
    BY <1>1 DEF Frames
  <1> HIDE DEF k
  <1>6. Builds(g, k)
    BY <1>1, <1>4, <1>5 DEF Builds, Reads, t
  <1>7. n \notin o /\ n \notin InHand(r) /\ Reads(h, k)
    BY <1>1, <1>5 DEF Reads
  <1>8. \A i \in 1 .. Len(r) : /\ Subtree(h, r[i].node) \cap {n} = {}
                               /\ r[i].how = k.how /\ Outside(h, k, r[i].node)
    <2>1. \A i \in 1 .. Len(r) : r[i].node \in R
      BY DEF InHand, R, RootsOf
    <2>2. \A i \in 1 .. Len(r) : Subtree(h, r[i].node) \subseteq Live(h)
      BY <1>1, <2>1, SubtreeClosedOff
    <2> QED BY <1>5, <2>2 DEF Intact, On, Outside
  <1>9. Beside(r, {n}) /\ (k.how = "copy" => k.source \notin {n} /\ k.at \notin {n})
    <2>1. n # NULL
      BY HeapAssumption
    <2> QED BY <1>1, <1>5, <2>1 DEF Beside, Waiting, Reads
  <1>10. g \in Heap
    BY <1>4 DEF Sound, TypeOKIn
  <1>11. On(g, o, k, r) /\ Waiting(g, o, r)
    BY <1>1, <1>4, <1>5, <1>6, <1>7, <1>8, <1>9, <1>10, StepOn
  <1> QED BY <1>3, <1>4, <1>11 DEF Intact, R, t, k, g

\* A kid could not be built, or has been freed: the frame below goes on.
LEMMA PopNothing ==
  ASSUME NEW h, NEW o, NEW f, NEW r, Intact(h, o, f, r), f.node = NULL, r # <<>>
  PROVE  Intact(h, o, Head(r), Tail(r)) /\ Waits(Head(r))
  <1>1. /\ Waiting(h, o, Tail(r)) /\ On(h, o, Head(r), Tail(r)) /\ Waits(Head(r))
        /\ InHand(r) = InHand(Tail(r)) \cup {Head(r).node}
    BY PopWaits DEF Intact
  <1>2. RootsOf(o, f, r) = RootsOf(o, Head(r), Tail(r))
    BY <1>1 DEF RootsOf, Waits
  <1> QED BY <1>1, <1>2 DEF Intact

\* A kid is back, in the hands of the frame below, which is to link it.
Taken(h, o, x, f, r) ==
  /\ Intact(h, o \cup {x}, f, r)
  /\ x \notin o /\ x # NULL /\ Private(h, x)
  /\ f.how = "copy" => f.source \notin Subtree(h, x) /\ f.at \notin Subtree(h, x)
  /\ Beside(r, Subtree(h, x))

\* The frame on top has built its kid and is popped: the kid is in nobody's frame,
\* beside the trees of the frames that are left.
LEMMA PopKid ==
  ASSUME NEW h, NEW o, NEW f, NEW r, Intact(h, o, f, r), f.node # NULL, r # <<>>
  PROVE  Taken(h, o, f.node, Head(r), Tail(r)) /\ Waits(Head(r))
  <1> DEFINE x == f.node
             c == Head(r)
             q == Tail(r)
             u == o \cup {x}
  <1>1. /\ Waiting(h, o, q) /\ On(h, o, c, q) /\ Waits(c)
        /\ InHand(r) = InHand(q) \cup {c.node}
    BY PopWaits DEF Intact
  <1>2. RootsOf(o, f, r) = RootsOf(u, c, q)
    BY <1>1 DEF RootsOf, Waits
  <1>3. /\ r \in Seq(Frames) /\ q \in Seq(Frames) /\ c \in Frames
        /\ Len(r) \in Nat /\ Len(q) = Len(r) - 1 /\ c = r[1] /\ 1 \in 1 .. Len(r)
        /\ \A i \in 1 .. Len(q) : i + 1 \in 1 .. Len(r) /\ q[i] = r[i + 1]
    BY DEF Intact, Waiting
  <1>4. /\ x \notin o /\ Private(h, x)
        /\ \A i \in 1 .. Len(r) : r[i].node # x /\ Outside(h, r[i], x)
    BY DEF Intact, On, Builds
  <1> HIDE DEF c, q
  <1>5. /\ c.node # x /\ Outside(h, c, x)
        /\ \A i \in 1 .. Len(q) : q[i].node # x /\ Outside(h, q[i], x)
    BY <1>3, <1>4
  <1> HIDE DEF x
  <1>6. Waiting(h, u, q)
    BY <1>1, <1>5 DEF Waiting
  <1>7. On(h, u, c, q)
    BY <1>1, <1>5 DEF On
  <1>8. Intact(h, u, c, q)
    BY <1>2, <1>6, <1>7 DEF Intact
  <1>9. x # NULL
    BY DEF x
  <1>10. /\ c.how = "copy" => c.source \notin Subtree(h, x) /\ c.at \notin Subtree(h, x)
         /\ Beside(q, Subtree(h, x))
    BY <1>5, <1>9 DEF Outside, Beside
  <1> QED BY <1>1, <1>4, <1>8, <1>9, <1>10 DEF Taken, c, q, x

\* An array constructor allocates its next element.
LEMMA NewElement ==
  ASSUME NEW h, NEW o, NEW f, NEW r, Intact(h, o, f, r), f.node # NULL, f.how = "array",
         NEW n \in Nodes \ Live(h), NEW t \in Types
  PROVE  LET g == NewNode(h, n, t)
         IN /\ Taken(g, o, n, f, r)
            /\ g.type[n] = t /\ g.type[f.node] = h.type[f.node]
            /\ g.valuestring[n] = NULL /\ LiveBufs(g) = LiveBufs(h)
  <1> DEFINE R == RootsOf(o, f, r)
             u == o \cup {n}
             p == f.node
             g == NewNode(h, n, t)
             A == {n} \cup Subtree(h, p)
  <1>1. /\ Sound(h, R) /\ Strung(h, {}) /\ Reached(h, R) /\ R \subseteq Live(h) /\ h \in Heap
        /\ InHand(r) \subseteq R /\ o \subseteq R /\ p \in R /\ p \notin o /\ p \notin InHand(r)
        /\ f \in Frames /\ Reads(h, f) /\ Builds(h, f) /\ Waiting(h, o, r)
    BY DEF Intact, RootsOf, On, Sound, TypeOKIn, InHand
  <1>2. n \notin R /\ n # NULL
    BY <1>1, HeapAssumption
  <1>3. RootsOf(u, f, r) = R \cup {n}
    BY DEF RootsOf
  <1>4. /\ Sound(g, R \cup {n}) /\ Strung(g, {}) /\ Reached(g, R \cup {n})
        /\ SameBut(h, g, {n}) /\ Private(g, n) /\ g.type[n] = t
        /\ g.valuestring[n] = NULL /\ LiveBufs(g) = LiveBufs(h)
        /\ \A m \in Live(h) : g.type[m] = h.type[m]
    <2>1. GrownBy(h, g, n, t, R)
      BY <1>1, NewNodeIsPrivate
    <2> HIDE DEF g
    <2> QED BY <2>1 DEF GrownBy
  <1>5. g \in Heap
    BY <1>4 DEF Sound, TypeOKIn
  <1>6. \A m \in R : Subtree(h, m) \cap {n} = {}
    <2>1. \A m \in R : Subtree(h, m) \subseteq Live(h)
      BY <1>1, SubtreeClosedOff
    <2> QED BY <2>1
  <1>7. \A i \in 1 .. Len(r) : Subtree(h, r[i].node) \cap {n} = {}
    BY <1>1, <1>6 DEF InHand
  <1> HIDE DEF g, R
  <1>8. Builds(g, f) /\ Subtree(g, p) = Subtree(h, p)
    <2>1. f.node \in R \cup {NULL} /\ Subtree(h, f.node) \cap {n} = {}
      BY <1>1, <1>6
    <2> QED BY <1>1, <1>4, <1>5, <2>1, FrameElsewhere
  <1>9. \A i \in 1 .. Len(r) : r[i].how = "array"
    BY DEF Intact, On
  <1>10. Waiting(h, u, r)
    BY <1>1, <1>2 DEF Waiting, InHand
  <1>11. /\ p \notin u /\ Beside(r, A) /\ {n} \subseteq A /\ (p # NULL => Subtree(g, p) \subseteq A)
         /\ \A i \in 1 .. Len(r) : r[i].how = f.how /\ Outside(h, f, r[i].node)
    BY <1>1, <1>2, <1>8, <1>9 DEF Beside, Outside
  <1>12. f.how = "copy" => f.source \notin A /\ f.at \notin A
    OBVIOUS
  <1> HIDE DEF A, u
  <1>13. On(g, u, f, r) /\ Waiting(g, u, r)
    BY <1>1, <1>4, <1>5, <1>7, <1>8, <1>10, <1>11, <1>12, StepOn
  <1>14. Intact(g, u, f, r)
    BY <1>3, <1>4, <1>13 DEF Intact
  <1>15. Taken(g, o, n, f, r)
    BY <1>1, <1>2, <1>4, <1>9, <1>14 DEF Taken, Beside, u
  <1>16. p \in Live(h)
    BY <1>1
  <1> QED BY <1>4, <1>15, <1>16 DEF g

\* The kid changes within its tree.
LEMMA KidChanges ==
  ASSUME NEW h, NEW o, NEW x, NEW f, NEW r, Taken(h, o, x, f, r), f.node # NULL,
         NEW g, NEW T, SameBut(h, g, T), T \subseteq Subtree(h, x),
         Sound(g, RootsOf(o \cup {x}, f, r)), Strung(g, {}), Reached(g, RootsOf(o \cup {x}, f, r)),
         Subtree(g, x) = Subtree(h, x), Private(g, x)
  PROVE  Taken(g, o, x, f, r)
  <1> DEFINE u == o \cup {x}
             R == RootsOf(u, f, r)
             n == f.node
             A == T \cup Subtree(h, n)
  <1>1. /\ n \in R /\ x \in R /\ n \notin u /\ n \notin InHand(r) /\ Sound(h, R) /\ InHand(r) \subseteq R
        /\ g \in Heap /\ f \in Frames /\ Reads(h, f) /\ Builds(h, f) /\ Waiting(h, u, r) /\ n # x
        /\ Intact(h, u, f, r)
    BY DEF Taken, Intact, RootsOf, On, InHand, Sound, TypeOKIn
  <1>2. x \notin InHand(r)
    BY <1>1 DEF Waiting, InHand
  <1>3. /\ \A i \in 1 .. Len(r) : Subtree(h, r[i].node) \cap Subtree(h, x) = {}
        /\ Subtree(h, n) \cap Subtree(h, x) = {}
    BY <1>1, <1>2, WaitingApart, TreesApart
  <1>4. \A i \in 1 .. Len(r) : Subtree(h, r[i].node) \cap T = {}
    BY <1>3
  <1>5. Subtree(h, n) \cap T = {} /\ (f.how = "copy" => f.source \notin T /\ f.at \notin T)
    BY <1>3 DEF Taken
  <1>6. Builds(g, f) /\ Subtree(g, n) = Subtree(h, n)
    BY <1>1, <1>5, FrameElsewhere
  <1>7. Beside(r, A) /\ (f.how = "copy" => f.source \notin A /\ f.at \notin A)
    BY <1>1 DEF Taken, Intact, On, Outside, Beside
  <1>8. \A i \in 1 .. Len(r) : r[i].how = f.how /\ Outside(h, f, r[i].node)
    BY <1>1 DEF Intact, On
  <1>9. T \subseteq A /\ (n # NULL => Subtree(g, n) \subseteq A)
    BY <1>6
  <1> HIDE DEF A, R, u
  <1>10. On(g, u, f, r) /\ Waiting(g, u, r)
    BY <1>1, <1>4, <1>6, <1>7, <1>8, <1>9, StepOn
  <1> QED BY <1>10 DEF Taken, Intact, R, u

\* append_children copies the member's name to the kid.
LEMMA KidGetsKey ==
  ASSUME NEW h, NEW o, NEW x, NEW f, NEW r, Taken(h, o, x, f, r), f.node # NULL,
         x \notin h.consts, h.string[x] = NULL, NEW b \in Bufs \ LiveBufs(h), NEW s \in Texts
  PROVE  Taken(PutKey(h, x, s, b), o, x, f, r)
  <1> DEFINE R == RootsOf(o \cup {x}, f, r)
             g == PutKey(h, x, s, b)
  <1>1. x \in R /\ Private(h, x) /\ Sound(h, R) /\ Strung(h, {}) /\ Reached(h, R)
    BY DEF Taken, Intact, RootsOf
  <1>2. /\ Sound(g, R) /\ Strung(g, {}) /\ Reached(g, R)
        /\ SameBut(h, g, {x}) /\ Subtree(g, x) = Subtree(h, x) /\ Private(g, x)
    BY <1>1, KeyIsPrivate
  <1>3. {x} \subseteq Subtree(h, x)
    BY <1>1, SubtreeClosedOff
  <1> HIDE DEF g, R
  <1>4. Taken(g, o, x, f, r)
    BY <1>2, <1>3, KidChanges DEF R
  <1> QED BY <1>4 DEF g

\* The element of an array constructor gets its text.
LEMMA KidGetsText ==
  ASSUME NEW h, NEW o, NEW x, NEW f, NEW r, Taken(h, o, x, f, r), f.node # NULL,
         h.type[x] \in Strings, h.valuestring[x] = NULL,
         NEW b \in Bufs \ LiveBufs(h), NEW s \in Texts
  PROVE  Taken(PutText(h, x, s, b), o, x, f, r) /\ PutText(h, x, s, b).type = h.type
  <1> DEFINE R == RootsOf(o \cup {x}, f, r)
             g == PutText(h, x, s, b)
  <1>1. x \in R /\ Private(h, x) /\ Sound(h, R) /\ Strung(h, {}) /\ Reached(h, R)
    BY DEF Taken, Intact, RootsOf
  <1>2. /\ Sound(g, R) /\ Strung(g, {}) /\ Reached(g, R)
        /\ SameBut(h, g, {x}) /\ Subtree(g, x) = Subtree(h, x) /\ Private(g, x)
        /\ g.type = h.type
    BY <1>1, TextIsPrivate
  <1>3. {x} \subseteq Subtree(h, x)
    BY <1>1, SubtreeClosedOff
  <1> HIDE DEF g, R
  <1>4. Taken(g, o, x, f, r)
    BY <1>2, <1>3, KidChanges DEF R
  <1> QED BY <1>2, <1>4 DEF g

\* The frame on top links its kid and goes on as k.
LEMMA LinkKid ==
  ASSUME NEW h, NEW o, NEW x, NEW f, NEW r, Taken(h, o, x, f, r), f.node # NULL,
         h.type[f.node] \in Containers,
         NEW k \in Frames, k.how = f.how, k.node = f.node, k.source = f.source,
         k.how = "value" => k.prev = x, Reads(h, k),
         k.how = "copy" => k.at \notin Subtree(h, x) /\ k.at \notin Subtree(h, f.node),
         \A i \in 1 .. Len(r) : Outside(h, k, r[i].node)
  PROVE  Intact(AttachChild(h, f.node, x), o, k, r)
  <1> DEFINE u == o \cup {x}
             R == RootsOf(u, f, r)
             p == f.node
             g == AttachChild(h, p, x)
             A == Subtree(h, p) \cup Subtree(h, x)
  <1>1. /\ p \in R /\ x \in R /\ p \notin u /\ p \notin InHand(r) /\ Sound(h, R) /\ InHand(r) \subseteq R
        /\ Strung(h, {}) /\ Reached(h, R) /\ h \in Heap
        /\ Builds(h, f) /\ Waiting(h, u, r) /\ p # x /\ Private(h, x) /\ Private(h, p)
        /\ Intact(h, u, f, r)
    BY DEF Taken, Intact, RootsOf, On, InHand, Builds, Sound, TypeOKIn
  <1>2. x \notin InHand(r) /\ x \notin o
    BY <1>1 DEF Waiting, InHand, Taken
  <1>3. RootsOf(o, k, r) = R \ {x}
    BY <1>1, <1>2 DEF RootsOf
  <1>4. /\ Subtree(h, p) \cap Subtree(h, x) = {} /\ p \in Subtree(h, p)
        /\ \A i \in 1 .. Len(r) : Subtree(h, r[i].node) \cap Subtree(h, p) = {}
    BY <1>1, WaitingApart, TreesApart, SubtreeClosedOff
  <1>5. p \in Live(h) \ h.refs /\ p \notin Subtree(h, x) /\ x # NULL
    BY <1>1, <1>4 DEF Private, Sound, TypeOKIn, Taken
  <1>6. /\ g.refs = h.refs /\ g.consts = h.consts /\ g.type = h.type
        /\ g.valuestring = h.valuestring /\ g.string = h.string
        /\ SameBut(h, g, Subtree(h, p))
        /\ Subtree(g, p) \subseteq A
        /\ Private(g, p)
        /\ x \in Kids(g, p) /\ g.next[x] = NULL
    BY <1>1, AttachGrows
  <1>7. Sound(g, R \ {x}) /\ Reached(g, R \ {x}) /\ Strung(g, {})
    BY <1>1, <1>5, AttachChildSound, AttachChildReached, AttachLeavesStrings
  <1> HIDE DEF g
  <1>8. Builds(g, k)
    BY <1>1, <1>5, <1>6 DEF Builds, Live
  <1>9. Beside(r, A)
    BY <1>1 DEF Taken, Intact, On, Outside, Beside
  <1>10. k.how = "copy" => k.source \notin A /\ k.at \notin A
    BY <1>1 DEF Taken, Intact, On, Outside
  <1>11. \A i \in 1 .. Len(r) : r[i].how = k.how /\ Outside(h, k, r[i].node)
    BY <1>1 DEF Intact, On
  <1>12. Waiting(h, o, r)
    BY <1>1 DEF Waiting
  <1>13. g \in Heap /\ k.node \notin o /\ k.node \notin InHand(r) /\ Subtree(h, p) \subseteq A
         /\ Subtree(g, k.node) \subseteq A
    BY <1>1, <1>6, <1>7 DEF Sound, TypeOKIn
  <1> HIDE DEF A, R, u
  <1>14. On(g, o, k, r) /\ Waiting(g, o, r)
    BY <1>1, <1>4, <1>6, <1>8, <1>9, <1>10, <1>11, <1>12, <1>13, StepOn
  <1> QED BY <1>3, <1>7, <1>14 DEF Intact, g

\* A new frame k for a kid of what the frame on top has to copy.
LEMMA Descends ==
  ASSUME NEW h, NEW o, NEW s \in Seq(Frames), s # <<>>,
         Intact(h, o, Head(s), Tail(s)), Waits(Head(s)),
         NEW k \in Frames, k.node = NULL, k.how = Head(s).how, Reads(h, k),
         k.how = "copy" => k.source = Head(s).at /\ k.at = h.child[k.source]
  PROVE  Intact(h, o, k, s)
  <1> DEFINE f == Head(s)
             R == RootsOf(o, f, Tail(s))
  <1>1. Waiting(h, o, s)
    BY PushWaits DEF Intact
  <1>2. InHand(s) = InHand(Tail(s)) \cup {f.node}
    BY <1>1, PopWaits
  <1>3. RootsOf(o, k, s) = R
    BY <1>2 DEF RootsOf, Waits
  <1>4. /\ 1 \in 1 .. Len(s) /\ f = s[1] /\ Sound(h, R) /\ InHand(s) \subseteq R /\ o \subseteq Live(h)
        /\ h \in Heap /\ Reads(h, f)
    <2>1. 1 \in 1 .. Len(s) /\ f = s[1]
      OBVIOUS
    <2> HIDE DEF f
    <2> QED BY <1>2, <2>1 DEF Intact, On, RootsOf, Sound, TypeOKIn, Waits, f
  <1>5. ASSUME NEW i \in 1 .. Len(s)
        PROVE  /\ s[i].how = k.how /\ s[i].node # NULL
               /\ Outside(h, k, s[i].node) /\ Outside(h, s[i], NULL)
    <2>1. s[i].how = k.how /\ s[i].node # NULL /\ Builds(h, s[i]) /\ Outside(h, f, s[i].node)
          /\ s[i].node \in R
      BY <1>1, <1>4 DEF Waiting, Waits, InHand
    <2>2. ASSUME k.how = "copy"
          PROVE  k.source \notin Subtree(h, s[i].node) /\ k.at \notin Subtree(h, s[i].node)
      <3>1. k.source \notin Subtree(h, s[i].node) /\ k.source \in Live(h)
        BY <2>1, <2>2 DEF Outside, Reads
      <3>2. CASE k.source \in h.refs
        BY <2>1, <2>2, <3>2 DEF Builds, Private
      <3>3. CASE k.source \notin h.refs
        BY <1>4, <2>1, <2>2, <3>1, <3>3, SubtreeClosedOff
      <3> QED BY <3>1, <3>2, <3>3
    <2> QED BY <2>1, <2>2 DEF Outside
  <1>6. On(h, o, k, s)
    <2>1. NULL \notin o
      BY <1>4, HeapAssumption DEF Live
    <2> QED BY <1>5, <2>1 DEF On, Builds, Outside
  <1> QED BY <1>1, <1>3, <1>6 DEF Intact

-----------------------------------------------------------------------------
(* The invariant *)

Labels == {"idle", "alloc", "text", "key", "kids", "return"}

\* What the frame on top has got to at each label.
At(h, p, f) ==
  /\ p \in Labels \ {"idle"}
  /\ p = "alloc" => f.node = NULL /\ f.prev = NULL
  /\ p \in {"text", "key", "kids"} => f.node # NULL
  /\ p = "text" => h.valuestring[f.node] = NULL
  /\ p \in {"text", "key"} => h.string[f.node] = NULL

BuildOK(h, o, s, p) ==
  /\ s \in Seq(Frames)
  /\ p = "idle" <=> s = <<>>
  /\ s = <<>> => Sound(h, o) /\ Strung(h, {}) /\ Reached(h, o)
  /\ s # <<>> => Intact(h, o, Head(s), Tail(s)) /\ At(h, p, Head(s))

BuildInv == BuildOK(heap, owned, stack, pc)

\* The frames of a call under way.
LEMMA Working ==
  ASSUME BuildInv, pc # "idle"
  PROVE  /\ Intact(heap, owned, Top, Tail(stack)) /\ At(heap, pc, Top)
         /\ Top \in Frames /\ Tail(stack) \in Seq(Frames) /\ stack \in Seq(Frames) /\ stack # <<>>
  <1>1. stack \in Seq(Frames) /\ stack # <<>>
    BY DEF BuildInv, BuildOK
  <1>2. Top \in Frames /\ Tail(stack) \in Seq(Frames)
    BY <1>1 DEF Top
  <1> QED BY <1>1, <1>2 DEF BuildInv, BuildOK, Top

\* With k on the frames q a call is under way.
LEMMA Going ==
  ASSUME NEW h, NEW o, NEW k, NEW q, NEW p, Intact(h, o, k, q), At(h, p, k)
  PROVE  BuildOK(h, o, <<k>> \o q, p)
  <1> DEFINE s == <<k>> \o q
  <1>1. k \in Frames /\ q \in Seq(Frames)
    BY DEF Intact, On, Waiting
  <1>2. s \in Seq(Frames) /\ s # <<>> /\ Head(s) = k /\ Tail(s) = q
    BY <1>1
  <1>3. p # "idle"
    BY DEF At
  <1> HIDE DEF s
  <1>4. BuildOK(h, o, s, p)
    BY <1>2, <1>3 DEF BuildOK
  <1> QED BY <1>4 DEF s

\* malloc hands out what is free.
LEMMA PickedNode ==
  ASSUME NEW n \in Pick(FreeNodes)
  PROVE  n \in Nodes \ Live(heap)
  <1>1. FreeNodes \in SUBSET Nodes
    BY DEF FreeNodes
  <1>2. Pick(FreeNodes) \subseteq FreeNodes
    BY <1>1, PickAssumption
  <1> QED BY <1>2 DEF FreeNodes

\* So does alloc_cstr.
LEMMA PickedBuf ==
  ASSUME NEW s, s # NULL, NEW b \in Room(s)
  PROVE  b \in Bufs \ LiveBufs(heap)
  <1>1. FreeBufs \in SUBSET Bufs
    BY DEF FreeBufs
  <1>2. Pick(FreeBufs) \subseteq FreeBufs
    BY <1>1, PickAssumption
  <1> QED BY <1>2 DEF FreeBufs, Room

\* Only a node for strings gets a text, and what is copied is a text.
LEMMA TextsAreTexts ==
  ASSUME Intact(heap, owned, Top, Tail(stack)), Top.node # NULL
  PROVE  /\ TextOf(Top) # NULL => TextOf(Top) \in Texts /\ heap.type[Top.node] \in Strings
         /\ KeyFirst(Top) # NULL => KeyFirst(Top) \in Texts /\ Top.how = "copy"
  <1>1. Reads(heap, Top) /\ Builds(heap, Top) /\ Top \in Frames
    BY DEF Intact, On
  <1>2. \A p : Readable(p) # NULL => p # NULL /\ Readable(p) \in Texts
    BY HeapAssumption DEF Readable, Copied
  <1>3. \A n \in Nodes : heap.valuestring[n] # NULL => heap.type[n] \in Strings
    BY DEF Intact, Sound, TypeOKIn
  <1>4. CASE Top.how = "copy"
    <2>1. Top.source \in Nodes /\ heap.type[Top.node] = heap.type[Top.source]
      BY <1>1, <1>4 DEF Reads, Builds, Live
    <2> QED BY <1>2, <1>3, <1>4, <2>1 DEF TextOf, KeyFirst
  <1>5. CASE Top.how # "copy"
    <2>1. Top.source \in Values /\ heap.type[Top.node] = Top.source.kind
      BY <1>1, <1>5 DEF Reads, Builds
    <2> QED BY <1>5, <2>1, ValuesAssumption DEF TextOf, KeyFirst
  <1> QED BY <1>4, <1>5

-----------------------------------------------------------------------------
(* The steps of the caller *)

\* An empty heap, and no call under way.
LEMMA InitBuilds == Init => BuildInv
  <1> SUFFICES ASSUME Init PROVE BuildInv
    OBVIOUS
  <1>1. Live(heap) = {} /\ LiveBufs(heap) = {} /\ heap \in Heap /\ owned = {}
        /\ heap.refs = {} /\ heap.consts = {}
    BY HeapAssumption, NullIsNoType DEF Init, EmptyHeap, Live, LiveBufs, Heap
  <1>2. \A n \in Nodes : /\ heap.next[n] = NULL /\ heap.prev[n] = NULL /\ heap.child[n] = NULL
                         /\ heap.valuestring[n] = NULL /\ heap.string[n] = NULL
    BY DEF Init, EmptyHeap
  <1>3. Sound(heap, owned)
    BY <1>1, <1>2 DEF Sound, TypeOKIn, Links, LinksLiveIn, DoublyLinkedIn, OwnersIn
  <1>4. Strung(heap, {}) /\ Reached(heap, owned)
    BY <1>1 DEF Strung, HeldIn, BorrowedIn, Reached
  <1>5. stack = <<>> /\ pc = "idle"
    BY DEF Init
  <1>6. <<>> \in Seq(Frames)
    OBVIOUS
  <1> QED BY <1>3, <1>4, <1>5, <1>6 DEF BuildInv, BuildOK

\* The first frame of a call reads what it is given.
LEMMA CallBuilds ==
  ASSUME BuildInv, NEW how \in {"value", "copy", "array"}, NEW source, Call(how, source),
         IF how = "copy" THEN source \in Live(heap) ELSE source \in Values
  PROVE  BuildInv'
  <1> DEFINE k == Frame(how, source)
  <1>1. /\ Sound(heap, owned) /\ Strung(heap, {}) /\ Reached(heap, owned) /\ heap \in Heap
        /\ owned \subseteq Live(heap) /\ LinksLiveIn(heap)
        /\ \A n \in Nodes : heap.child[n] # NULL => heap.type[n] \in Containers
    BY DEF BuildInv, BuildOK, Call, Sound, TypeOKIn, Links
  <1>2. /\ k \in Frames /\ k.how = how /\ k.source = source /\ k.node = NULL /\ k.prev = NULL
        /\ k.at = IF how = "copy" THEN heap.child[source] ELSE 1
    BY <1>1 DEF Frame, Frames, Live, Heap
  <1> HIDE DEF k
  <1>3. Reads(heap, k)
    BY <1>1, <1>2 DEF Reads, LinksLiveIn, Live
  <1>4. NULL \notin owned
    BY <1>1, HeapAssumption DEF Live
  <1>5. On(heap, owned, k, <<>>)
    BY <1>2, <1>3, <1>4 DEF On, Builds, Outside
  <1>6. Waiting(heap, owned, <<>>)
    BY DEF Waiting
  <1>7. RootsOf(owned, k, <<>>) = owned
    BY <1>2 DEF RootsOf, InHand
  <1>8. Intact(heap, owned, k, <<>>)
    BY <1>1, <1>5, <1>6, <1>7 DEF Intact
  <1>9. At(heap, "alloc", k)
    BY <1>2 DEF At, Labels
  <1>10. <<k>> \o <<>> = <<k>>
    OBVIOUS
  <1>11. BuildOK(heap, owned, <<k>>, "alloc")
    BY <1>8, <1>9, <1>10, Going
  <1> QED BY <1>11 DEF BuildInv, Call, k

\* A string or container reference: a new root that looks into the caller's trees.
LEMMA CreateReferenceBuilds ==
  ASSUME BuildInv, CreateReference
  PROVE  BuildInv'
  <1> SUFFICES ASSUME NEW n \in Pick(FreeNodes), NEW g, Hand(g, n),
                      \/ \E s \in Texts :
                           g = [NewReference(heap, n, "String") EXCEPT !.valuestring[n] = s]
                      \/ \E c \in Live(heap) :
                           g = [NewReference(heap, n, "Array") EXCEPT !.child[n] = c]
               PROVE  BuildInv'
    BY DEF CreateReference
  <1>1. /\ Sound(heap, owned) /\ Strung(heap, {}) /\ Reached(heap, owned) /\ heap \in Heap
        /\ stack = <<>> /\ pc = "idle" /\ n \in Nodes \ Live(heap)
    BY PickedNode DEF BuildInv, BuildOK, Hand, Sound, TypeOKIn
  <1>2. ASSUME NEW t \in Types
        PROVE  LET e == NewReference(heap, n, t)
               IN /\ Adds(heap, e, n, owned) /\ e.type[n] = t /\ e.child = heap.child
                  /\ Strung(e, {}) /\ n \in e.refs
    <2> DEFINE e == NewReference(heap, n, t)
    <2>1. Allocates(heap, e, n, t)
      BY DEF Allocates
    <2>2. n \in e.refs
      BY <1>1 DEF NewReference, Heap
    <2> HIDE DEF e
    <2>3. /\ Adds(heap, e, n, owned) /\ e.type[n] = t /\ e.child = heap.child
      BY <1>1, <2>1, NewNodeAdds
    <2>4. Strung(e, {})
      BY <1>1, <2>1, NewNodeStrung
    <2> QED BY <2>2, <2>3, <2>4 DEF e
  <1>3. ASSUME NEW s \in Texts,
               g = [NewReference(heap, n, "String") EXCEPT !.valuestring[n] = s]
        PROVE  Sound(g, owned \cup {n}) /\ Strung(g, {}) /\ Reached(g, owned \cup {n})
    <2> DEFINE e == NewReference(heap, n, "String")
    <2>1. /\ Adds(heap, e, n, owned) /\ e.type[n] = "String" /\ Strung(e, {}) /\ n \in e.refs
      BY <1>2 DEF Types
    <2> HIDE DEF e
    <2>2. Sound(e, owned \cup {n}) /\ n \in Live(e) /\ Reached(e, owned \cup {n})
      BY <1>1, <2>1, AddsReached DEF Adds
    <2>3. g = [e EXCEPT !.valuestring[n] = s]
      BY <1>3 DEF e
    <2>4. Keeps(e, g, owned \cup {n})
      BY <2>1, <2>2, <2>3, SetValueSound DEF Strings
    <2>5. Reached(g, owned \cup {n}) /\ Sound(g, owned \cup {n})
      BY <2>2, <2>4, KeepsReached DEF Keeps
    <2>6. Strung(g, {})
      BY <2>1, <2>2, <2>3, ReferToValueStrung
    <2> QED BY <2>5, <2>6
  <1>4. ASSUME NEW c \in Live(heap),
               g = [NewReference(heap, n, "Array") EXCEPT !.child[n] = c]
        PROVE  Sound(g, owned \cup {n}) /\ Strung(g, {}) /\ Reached(g, owned \cup {n})
    <2> DEFINE e == NewReference(heap, n, "Array")
    <2>1. /\ Adds(heap, e, n, owned) /\ e.type[n] = "Array" /\ Strung(e, {}) /\ n \in e.refs
      BY <1>2 DEF Types
    <2> HIDE DEF e
    <2>2. Sound(e, owned \cup {n}) /\ c \in Live(e) /\ Reached(e, owned \cup {n}) /\ e \in Heap
      BY <1>1, <2>1, AddsReached DEF Adds, Sound, TypeOKIn
    <2>3. g = [e EXCEPT !.child[n] = c]
      BY <1>4 DEF e
    <2>4. Keeps(e, g, owned \cup {n})
      BY <2>1, <2>2, <2>3, PointReferenceSound DEF Containers
    <2>5. Reached(g, owned \cup {n}) /\ Sound(g, owned \cup {n})
      BY <2>2, <2>4, KeepsReached DEF Keeps
    <2>6. /\ g.type = e.type /\ g.refs = e.refs /\ g.consts = e.consts
          /\ g.valuestring = e.valuestring /\ g.string = e.string /\ g.text = e.text
      BY <2>2, <2>3 DEF Heap
    <2>7. Strung(g, {})
      BY <2>1, <2>6, LinksLeaveStrings
    <2> QED BY <2>5, <2>7
  <1>5. Sound(g, owned \cup {n}) /\ Strung(g, {}) /\ Reached(g, owned \cup {n})
    BY <1>3, <1>4
  <1>6. heap' = g /\ owned' = owned \cup {n} /\ stack' = <<>> /\ pc' = "idle"
    BY <1>1 DEF Hand
  <1>7. <<>> \in Seq(Frames)
    OBVIOUS
  <1> QED BY <1>5, <1>6, <1>7 DEF BuildInv, BuildOK

\* cJSON_Delete of a tree that no reference looks into.
LEMMA DeleteBuilds ==
  ASSUME BuildInv, NEW x \in owned, Delete(x)
  PROVE  BuildInv'
  <1>1. /\ Sound(heap, owned) /\ Strung(heap, {}) /\ Reached(heap, owned)
        /\ stack = <<>> /\ pc = "idle" /\ MayFree(heap, x)
    BY DEF BuildInv, BuildOK, Delete
  <1> DEFINE g == FreeTree(heap, x)
  <1>2. Sound(g, owned \ {x}) /\ Strung(g, {}) /\ Reached(g, owned \ {x})
    BY <1>1, FreeTreeSound, FreeTreeStrung, FreeTreeReached DEF MayFree
  <1>3. heap' = g /\ owned' = owned \ {x} /\ stack' = <<>> /\ pc' = "idle"
    BY <1>1 DEF Delete
  <1>4. <<>> \in Seq(Frames)
    OBVIOUS
  <1> QED BY <1>2, <1>3, <1>4 DEF BuildInv, BuildOK

\* Every step that the caller makes between two calls.
LEMMA CallerBuilds ==
  ASSUME BuildInv, CallerStep
  PROVE  BuildInv'
  <1>1. CASE Parse
    BY <1>1, CallBuilds, DocsAssumption DEF Parse
  <1>2. CASE CreateArray
    BY <1>2, CallBuilds, DocsAssumption DEF CreateArray
  <1>3. CASE Duplicate
    BY <1>3, CallBuilds DEF Duplicate
  <1> QED BY <1>1, <1>2, <1>3, CreateReferenceBuilds, DeleteBuilds DEF CallerStep

-----------------------------------------------------------------------------
(* The steps of the library *)

\* A step that changes the frame on top alone, or goes on with it.
LEMMA TopGoesOn ==
  ASSUME NEW k, Intact(heap', owned, k, Tail(stack)), At(heap', pc', k), UNCHANGED owned,
         stack' = <<k>> \o Tail(stack)
  PROVE  BuildInv'
  BY Going DEF BuildInv

\* alloc_node gives the frame its node.
LEMMA AllocNodeBuilds ==
  ASSUME BuildInv, AllocNode
  PROVE  BuildInv'
  <1>1. pc = "alloc" /\ pc # "idle" /\ pc' = "text" /\ UNCHANGED owned
    BY DEF AllocNode, Goto
  <1>2. Intact(heap, owned, Top, Tail(stack)) /\ Top.node = NULL /\ Top.prev = NULL /\ Top \in Frames
    BY <1>1, Working DEF At
  <1>3. PICK n \in Pick(FreeNodes) : /\ heap' = NewNode(heap, n, Kind(Top))
                                     /\ stack' = <<[Top EXCEPT !.node = n]>> \o Tail(stack)
    BY DEF AllocNode, SetTop
  <1> DEFINE k == [Top EXCEPT !.node = n]
  <1>4. n \in Nodes \ Live(heap) /\ n # NULL
    BY PickedNode, HeapAssumption
  <1>5. /\ Intact(heap', owned, k, Tail(stack))
        /\ heap'.valuestring[n] = NULL /\ heap'.string[n] = NULL
    BY <1>2, <1>3, <1>4, NewNodeWhole DEF Kind
  <1>6. k.node = n
    BY <1>2 DEF Frames
  <1>7. At(heap', pc', k)
    BY <1>1, <1>4, <1>5, <1>6 DEF At, Labels
  <1> QED BY <1>1, <1>3, <1>5, <1>7, TopGoesOn

\* alloc_node fails: nothing has changed, and the frame returns without a node.
LEMMA AllocNodeFailsBuilds ==
  ASSUME BuildInv, AllocNodeFails
  PROVE  BuildInv'
  <1>1. /\ pc = "alloc" /\ pc # "idle" /\ pc' = "return" /\ UNCHANGED <<heap, owned>>
        /\ stack' = <<[Top EXCEPT !.node = NULL]>> \o Tail(stack)
    BY DEF AllocNodeFails, Fail, SetTop, Goto
  <1>2. Intact(heap, owned, Top, Tail(stack)) /\ Top.node = NULL /\ Top \in Frames
    BY <1>1, Working DEF At
  <1>3. [Top EXCEPT !.node = NULL] = Top
    BY <1>2 DEF Frames
  <1>4. At(heap', pc', Top)
    BY <1>1 DEF At, Labels
  <1> QED BY <1>1, <1>2, <1>3, <1>4, TopGoesOn

\* The value of a string is copied.
LEMMA CopyTextBuilds ==
  ASSUME BuildInv, CopyText
  PROVE  BuildInv'
  <1>1. pc = "text" /\ pc # "idle" /\ pc' = "key" /\ UNCHANGED <<owned, stack>>
    BY DEF CopyText, Goto
  <1>2. /\ Intact(heap, owned, Top, Tail(stack)) /\ Top.node # NULL
        /\ heap.valuestring[Top.node] = NULL /\ heap.string[Top.node] = NULL
        /\ stack \in Seq(Frames) /\ stack # <<>>
    BY <1>1, Working DEF At
  <1>3. PICK b \in Room(TextOf(Top)) : heap' = PutText(heap, Top.node, TextOf(Top), b)
    BY DEF CopyText
  <1>4. Intact(heap', owned, Top, Tail(stack)) /\ heap'.string[Top.node] = NULL
    <2>1. CASE TextOf(Top) = NULL
      BY <1>2, <1>3, <2>1 DEF PutText
    <2>2. CASE TextOf(Top) # NULL
      <3>1. b \in Bufs \ LiveBufs(heap)
        BY <2>2, PickedBuf
      <3>2. TextOf(Top) \in Texts /\ heap.type[Top.node] \in Strings
        BY <1>2, <2>2, TextsAreTexts
      <3> QED BY <1>2, <1>3, <3>1, <3>2, PutTextWhole
    <2> QED BY <2>1, <2>2
  <1>5. At(heap', pc', Top)
    BY <1>1, <1>2, <1>4 DEF At, Labels
  <1>6. stack' = <<Top>> \o Tail(stack)
    BY <1>1, <1>2 DEF Top
  <1> QED BY <1>1, <1>4, <1>5, <1>6, TopGoesOn

\* duplicate copies the key before it goes on to the kids.
LEMMA CopyKeyBuilds ==
  ASSUME BuildInv, CopyKey
  PROVE  BuildInv'
  <1>1. pc = "key" /\ pc # "idle" /\ pc' = "kids" /\ UNCHANGED <<owned, stack>>
    BY DEF CopyKey, Goto
  <1>2. /\ Intact(heap, owned, Top, Tail(stack)) /\ Top.node # NULL
        /\ heap.string[Top.node] = NULL
        /\ stack \in Seq(Frames) /\ stack # <<>>
    BY <1>1, Working DEF At
  <1>3. PICK b \in Room(KeyFirst(Top)) : heap' = PutKey(heap, Top.node, KeyFirst(Top), b)
    BY DEF CopyKey
  <1>4. Intact(heap', owned, Top, Tail(stack))
    <2>1. CASE KeyFirst(Top) = NULL
      BY <1>2, <1>3, <2>1 DEF PutKey
    <2>2. CASE KeyFirst(Top) # NULL
      <3>1. b \in Bufs \ LiveBufs(heap)
        BY <2>2, PickedBuf
      <3>2. KeyFirst(Top) \in Texts /\ Top.how = "copy"
        BY <1>2, <2>2, TextsAreTexts
      <3> QED BY <1>2, <1>3, <3>1, <3>2, PutKeyWhole
    <2> QED BY <2>1, <2>2
  <1>5. At(heap', pc', Top)
    BY <1>1, <1>2 DEF At, Labels
  <1>6. stack' = <<Top>> \o Tail(stack)
    BY <1>1, <1>2 DEF Top
  <1> QED BY <1>1, <1>4, <1>5, <1>6, TopGoesOn

\* What the frame has built so far is freed; it fails.
LEMMA FreeAndFail ==
  ASSUME BuildInv, pc \in {"text", "key", "kids"}, heap' = FreeTree(heap, Top.node), Fail
  PROVE  BuildInv'
  <1> DEFINE k == [Top EXCEPT !.node = NULL]
  <1>1. Intact(heap, owned, Top, Tail(stack)) /\ Top.node # NULL
    BY Working DEF At
  <1>2. Intact(heap', owned, k, Tail(stack))
    BY <1>1, FreeBuilt
  <1>3. pc' = "return" /\ UNCHANGED owned /\ stack' = <<k>> \o Tail(stack)
    BY DEF Fail, SetTop, Goto
  <1>4. At(heap', pc', k)
    BY <1>3 DEF At, Labels
  <1> QED BY <1>2, <1>3, <1>4, TopGoesOn

\* The recursive call for the next kid.
LEMMA DescendBuilds ==
  ASSUME BuildInv, Descend
  PROVE  BuildInv'
  <1> DEFINE k == Frame(Top.how, NextKid(Top))
  <1>1. /\ pc = "kids" /\ pc # "idle" /\ pc' = "alloc" /\ UNCHANGED <<heap, owned>>
        /\ Top.how # "array" /\ NextKid(Top) # NULL /\ stack' = <<k>> \o stack
    BY DEF Descend, Goto
  <1>2. /\ Intact(heap, owned, Top, Tail(stack)) /\ Top.node # NULL /\ Top \in Frames
        /\ stack \in Seq(Frames) /\ stack # <<>>
    BY <1>1, Working DEF At
  <1>3. /\ Reads(heap, Top) /\ heap \in Heap /\ LinksLiveIn(heap)
        /\ \A n \in Nodes : heap.child[n] # NULL => heap.type[n] \in Containers
    BY <1>2 DEF Intact, On, Sound, TypeOKIn, Links
  <1>4. /\ Waits(Top) /\ k \in Frames /\ k.node = NULL /\ k.prev = NULL /\ k.how = Top.how
        /\ Reads(heap, k)
        /\ k.how = "copy" => k.source = Top.at /\ k.at = heap.child[k.source]
    <2>1. CASE Top.how = "copy"
      <3>1. /\ Top.at \in Live(heap) /\ Waits(Top) /\ NextKid(Top) = Top.at
        BY <1>1, <1>2, <1>3, <2>1 DEF NextKid, Reads, Waits
      <3>2. /\ k \in Frames /\ k.how = "copy" /\ k.source = Top.at /\ k.node = NULL
            /\ k.at = heap.child[k.source] /\ k.prev = NULL
        BY <1>3, <2>1, <3>1 DEF Frame, Frames, Live, Heap
      <3> HIDE DEF k
      <3>3. Reads(heap, k)
        BY <1>3, <3>1, <3>2 DEF Reads, LinksLiveIn, Live
      <3> QED BY <2>1, <3>1, <3>2, <3>3
    <2>2. CASE Top.how # "copy"
      <3>1. /\ Top.how = "value" /\ Top.source \in Values /\ Top.at \in Nat \ {0}
            /\ Top.at <= Len(Top.source.kids) /\ NextKid(Top) = Top.source.kids[Top.at]
        BY <1>1, <1>2, <1>3, <2>2 DEF NextKid, Reads, Frames
      <3>2. Top.source.kids \in Seq(Values)
        BY <3>1, ValuesAssumption
      <3>3. Top.at \in 1 .. Len(Top.source.kids) /\ NextKid(Top) \in Values /\ Waits(Top)
        BY <1>2, <3>1, <3>2 DEF Waits
      <3>4. /\ k \in Frames /\ k.how = "value" /\ k.source = NextKid(Top) /\ k.node = NULL
            /\ k.at = 1 /\ k.prev = NULL
        BY <3>1, <3>3 DEF Frame, Frames
      <3> HIDE DEF k
      <3>5. Reads(heap, k)
        BY <3>3, <3>4 DEF Reads
      <3> QED BY <3>1, <3>3, <3>4, <3>5
    <2> QED BY <2>1, <2>2
  <1> HIDE DEF k
  <1>5. Intact(heap, owned, k, stack)
    BY <1>2, <1>4, Descends DEF Top
  <1>6. At(heap, "alloc", k)
    BY <1>4 DEF At, Labels
  <1>7. BuildOK(heap, owned, <<k>> \o stack, "alloc")
    BY <1>5, <1>6, Going
  <1> QED BY <1>1, <1>7 DEF BuildInv

\* All kids are there: the frame returns.
LEMMA NoMoreKidsBuilds ==
  ASSUME BuildInv, NoMoreKids
  PROVE  BuildInv'
  <1>1. pc = "kids" /\ pc # "idle" /\ pc' = "return" /\ UNCHANGED <<heap, owned, stack>>
    BY DEF NoMoreKids, Goto
  <1>2. /\ Intact(heap, owned, Top, Tail(stack)) /\ stack \in Seq(Frames) /\ stack # <<>>
    BY <1>1, Working
  <1>3. At(heap', pc', Top) /\ Intact(heap', owned, Top, Tail(stack))
    BY <1>1, <1>2 DEF At, Labels
  <1>4. stack' = <<Top>> \o Tail(stack)
    BY <1>1, <1>2 DEF Top
  <1> QED BY <1>1, <1>3, <1>4, TopGoesOn

\* An array constructor allocates the node n of its next element, with the text at
\* b, and links it behind the last one.
Appended(n, b) ==
  LET p == Top.node
      e == NewNode(heap, n, Element.kind)
      g == PutText(e, n, Element.text, b)
  IN /\ n \in Nodes \ Live(heap) /\ (Element.text # NULL => b \in Bufs \ LiveBufs(e))
     /\ Taken(e, owned, n, Top, Tail(stack)) /\ Taken(g, owned, n, Top, Tail(stack))
     /\ e.type[n] = Element.kind /\ e.valuestring[n] = NULL /\ g.type[p] \in Containers
     /\ heap' = AttachChild(g, p, n)

\* The frame is that of a value, and has a next element.
LEMMA ElementAppended ==
  ASSUME BuildInv, AppendElement
  PROVE  /\ Top.source \in Values /\ Top.at \in 1 .. Len(Top.source.kids)
         /\ Element = Top.source.kids[Top.at] /\ Element \in Values
         /\ \E n \in Nodes, b \in Room(Element.text) : Appended(n, b)
  <1> DEFINE p == Top.node
             r == Tail(stack)
  <1>1. pc = "kids" /\ pc # "idle" /\ Top.how = "array" /\ Element # NULL
    BY DEF AppendElement
  <1>2. Intact(heap, owned, Top, r) /\ p # NULL /\ Top \in Frames
    BY <1>1, Working DEF At
  <1>3. PICK n \in Pick(FreeNodes), b \in Room(Element.text) :
          heap' = AttachChild(PutText(NewNode(heap, n, Element.kind), n, Element.text, b), p, n)
    BY DEF AppendElement
  <1>4. Reads(heap, Top) /\ Builds(heap, Top)
    BY <1>2 DEF Intact, On
  <1>5. /\ Top.source \in Values /\ Top.at \in Nat \ {0} /\ Element = Top.source.kids[Top.at]
        /\ Top.at <= Len(Top.source.kids) /\ heap.type[p] = Top.source.kind /\ p \in Live(heap)
    BY <1>1, <1>2, <1>4 DEF Reads, Builds, Element, NextKid
  <1>6. /\ Element \in Values /\ heap.type[p] \in Containers /\ Top.at \in 1 .. Len(Top.source.kids)
    <2>1. Top.source.kids \in Seq(Values)
      BY <1>5, ValuesAssumption
    <2>2. Top.at \in 1 .. Len(Top.source.kids)
      BY <1>5, <2>1
    <2>3. Element \in Values /\ Top.source.kids # <<>>
      BY <1>5, <2>1, <2>2
    <2> QED BY <1>5, <2>2, <2>3, ValuesAssumption
  <1>7. /\ Element.kind \in Types /\ Element.text \in Texts \cup {NULL}
        /\ Element.text # NULL => Element.kind \in Strings
    BY <1>6, ValuesAssumption
  <1> DEFINE e == NewNode(heap, n, Element.kind)
             g == PutText(e, n, Element.text, b)
  <1>8. n \in Nodes \ Live(heap) /\ n # NULL
    BY PickedNode, HeapAssumption
  <1>9. /\ Taken(e, owned, n, Top, r) /\ e.type[n] = Element.kind /\ e.type[p] = heap.type[p]
        /\ e.valuestring[n] = NULL /\ LiveBufs(e) = LiveBufs(heap)
    BY <1>1, <1>2, <1>7, <1>8, NewElement
  <1> HIDE DEF e
  <1>10. Element.text # NULL => b \in Bufs \ LiveBufs(e)
    BY <1>9, PickedBuf
  <1>11. Taken(g, owned, n, Top, r) /\ g.type[p] = heap.type[p]
    <2>1. CASE Element.text = NULL
      BY <1>9, <2>1 DEF PutText
    <2>2. CASE Element.text # NULL
      BY <1>2, <1>7, <1>9, <1>10, <2>2, KidGetsText
    <2> QED BY <2>1, <2>2
  <1>12. Appended(n, b)
    BY <1>3, <1>6, <1>8, <1>9, <1>10, <1>11 DEF Appended, e
  <1> QED BY <1>5, <1>6, <1>8, <1>12

\* An array constructor goes on to its next element.
LEMMA AppendElementBuilds ==
  ASSUME BuildInv, AppendElement
  PROVE  BuildInv'
  <1> DEFINE p == Top.node
             r == Tail(stack)
             k == [Top EXCEPT !.at = @ + 1]
  <1>1. /\ pc = "kids" /\ pc # "idle" /\ pc' = "kids" /\ UNCHANGED owned
        /\ Top.how = "array" /\ stack' = <<k>> \o r
    BY DEF AppendElement, Goto, SetTop
  <1>2. Intact(heap, owned, Top, r) /\ p # NULL /\ Top \in Frames
    BY <1>1, Working DEF At
  <1>3. Top.source \in Values /\ Top.at \in 1 .. Len(Top.source.kids)
    BY ElementAppended
  <1>4. PICK n \in Nodes, b \in Room(Element.text) : Appended(n, b)
    BY ElementAppended
  <1> DEFINE g == PutText(NewNode(heap, n, Element.kind), n, Element.text, b)
  <1>5. Taken(g, owned, n, Top, r) /\ g.type[p] \in Containers /\ heap' = AttachChild(g, p, n)
    BY <1>4 DEF Appended
  <1>6. /\ k \in Frames /\ k.how = "array" /\ k.node = p /\ k.source = Top.source
        /\ k.at \in Nat \ {0}
    <2>1. Top.at \in Nat /\ Top.at + 1 \in Nat \ {0}
      BY <1>3
    <2> QED BY <1>1, <1>2, <2>1 DEF Frames
  <1> HIDE DEF g, k
  <1>7. \A i \in 1 .. Len(r) : Outside(g, k, r[i].node)
    BY <1>6 DEF Outside
  <1>8. Reads(g, k)
    BY <1>3, <1>6 DEF Reads
  <1>9. Intact(heap', owned, k, r)
    BY <1>1, <1>2, <1>5, <1>6, <1>7, <1>8, LinkKid
  <1>10. At(heap', pc', k)
    BY <1>1, <1>2, <1>6 DEF At, Labels
  <1> QED BY <1>1, <1>9, <1>10, TopGoesOn

\* The frame of a kid is popped; the frame below goes on as k.
LEMMA CallerGoesOn ==
  ASSUME NEW k, Intact(heap', owned, k, Tail(Tail(stack))), At(heap', pc', k), UNCHANGED owned,
         PopTo(k)
  PROVE  BuildInv'
  BY Going DEF BuildInv, PopTo

\* What append_children writes is what attach_child would, since it knows the
\* last kid.
LinkAfter(g, last, p, x) ==
  LET e == [g EXCEPT !.prev[x] = last]
  IN IF last = NULL THEN [e EXCEPT !.child[p] = x] ELSE [e EXCEPT !.next[last] = x]

\* append_children links behind the last kid that it remembers, where attach_child
\* would walk to.
LEMMA LinkIsAttach ==
  ASSUME NEW g, NEW R, Sound(g, R), NEW p \in Live(g) \ g.refs, NEW x \in R, NEW last,
         last = NULL => g.child[p] = NULL,
         last # NULL => last \in Kids(g, p) /\ g.next[last] = NULL
  PROVE  LinkAfter(g, last, p, x) = AttachChild(g, p, x)
  <1>1. /\ g \in Heap /\ x \in Nodes /\ p \in Nodes /\ g.next[x] = NULL /\ g.prev[x] = NULL
        /\ x \notin Kids(g, p)
    BY KidsAreKids DEF Sound, TypeOKIn, Links, OwnersIn, Live
  <1>2. CASE last = NULL
    <2>1. /\ [g.prev EXCEPT ![x] = NULL] = g.prev /\ [g.next EXCEPT ![x] = NULL] = g.next
      BY <1>1 DEF Heap
    <2>2. [g EXCEPT !.prev[x] = NULL] = g
      BY <1>1, <2>1 DEF Heap
    <2>3. LinkAfter(g, last, p, x) = [g EXCEPT !.child[p] = x]
      BY <1>2, <2>2 DEF LinkAfter
    <2>4. AttachChild(g, p, x) = [g EXCEPT !.child[p] = x, !.prev[x] = NULL, !.next[x] = NULL]
      BY <1>2 DEF AttachChild
    <2>5. [g EXCEPT !.child[p] = x, !.prev[x] = NULL, !.next[x] = NULL] = [g EXCEPT !.child[p] = x]
      BY <1>1, <2>1 DEF Heap
    <2> QED BY <2>3, <2>4, <2>5
  <1>3. CASE last # NULL
    <2>1. last = LastKid(g, g.child[p]) /\ g.child[p] # NULL
      BY <1>3, TailIsUnique, KidsAreKids
    <2>2. last # x
      BY <1>1, <1>3
    <2>3. [g.next EXCEPT ![last] = x, ![x] = NULL] = [g.next EXCEPT ![last] = x]
      BY <1>1, <2>2 DEF Heap
    <2> QED BY <1>1, <1>3, <2>1, <2>3 DEF AttachChild, LinkAfter, Heap
  <1> QED BY <1>2, <1>3

\* append_children names the finished kid, with its key at b, and links it behind
\* the last one that the frame below knows.
Linked(b) ==
  LET x == Top.node
      c == Caller
      q == Tail(Tail(stack))
      key == Top.source.key
      g == PutKey(heap, x, key, b)
  IN /\ key # NULL => b \in Bufs \ LiveBufs(heap)
     /\ Taken(heap, owned, x, c, q) /\ Taken(g, owned, x, c, q)
     /\ g.type[c.node] \in Containers
     /\ heap' = AttachChild(g, c.node, x)

\* The key and the links may be written in either order, so this is PutKey and
\* then attach_child.
LEMMA MemberLinked ==
  ASSUME BuildInv, LinkMember
  PROVE  /\ Top.source \in Values /\ heap.string[Top.node] = NULL /\ Top.node \notin heap.consts
         /\ Caller.how = "value" /\ Caller \in Frames /\ Caller.node # NULL
         /\ Caller.source \in Values /\ Caller.at \in 1 .. Len(Caller.source.kids)
         /\ \E b \in Room(Top.source.key) : Linked(b)
  <1> DEFINE x == Top.node
             r == Tail(stack)
             c == Caller
             q == Tail(Tail(stack))
             key == Top.source.key
  <1>1. pc = "return" /\ pc # "idle" /\ Top.how = "value" /\ r # <<>> /\ x # NULL
    BY DEF LinkMember, Returning
  <1>2. Intact(heap, owned, Top, r) /\ Top \in Frames /\ r \in Seq(Frames)
    BY <1>1, Working
  <1>3. PICK b \in Room(key) :
          heap' = LET keyed == PutKey([heap EXCEPT !.prev[x] = c.prev], x, key, b)
                  IN IF c.prev = NULL
                     THEN [keyed EXCEPT !.child[c.node] = x]
                     ELSE [keyed EXCEPT !.next[c.prev] = x]
    BY DEF LinkMember
  <1>4. Taken(heap, owned, x, c, q) /\ Waits(c)
    BY <1>1, <1>2, PopKid DEF Caller
  <1>5. Top.source \in Values /\ heap.string[x] = NULL /\ x \notin heap.consts /\ heap \in Heap
    BY <1>1, <1>2 DEF Intact, On, Reads, Builds, Sound, TypeOKIn
  <1> DEFINE g == PutKey(heap, x, key, b)
  <1>a. key # NULL => b \in Bufs \ LiveBufs(heap)
    BY PickedBuf
  <1>6. Taken(g, owned, x, c, q)
    <2>1. CASE key = NULL
      BY <1>4, <2>1 DEF PutKey
    <2>2. CASE key # NULL
      <3>1. b \in Bufs \ LiveBufs(heap) /\ key \in Texts
        BY <1>5, <1>a, <2>2, ValuesAssumption
      <3> QED BY <1>4, <1>5, <3>1, KidGetsKey DEF Waits
    <2> QED BY <2>1, <2>2
  <1>7. /\ c.how = "value" /\ c \in Frames /\ c.node # NULL
        /\ c.source \in Values /\ c.at \in 1 .. Len(c.source.kids)
    <2>1. c.how = "value" /\ c \in Frames
      <3>1. 1 \in 1 .. Len(r) /\ c = r[1] /\ c \in Frames
        BY <1>1, <1>2 DEF Caller
      <3>2. \A i \in 1 .. Len(r) : r[i].how = Top.how
        BY <1>2 DEF Intact, On
      <3> QED BY <1>1, <3>1, <3>2
    <2> QED BY <1>4, <2>1 DEF Waits, Taken, Intact, On, Reads
  <1> HIDE DEF g
  <1>8. /\ Sound(g, RootsOf(owned \cup {x}, c, q)) /\ x \in RootsOf(owned \cup {x}, c, q)
        /\ Builds(g, c) /\ c.node \in Live(g) \ g.refs
    <2>1. Builds(g, c) /\ Sound(g, RootsOf(owned \cup {x}, c, q)) /\ c.node \in RootsOf(owned \cup {x}, c, q)
      BY <1>6, <1>7 DEF Taken, Intact, On, RootsOf
    <2>2. c.node \in Subtree(g, c.node)
      BY <2>1, SubtreeClosedOff
    <2>3. c.node \in Live(g) /\ Private(g, c.node)
      BY <1>7, <2>1 DEF Builds
    <2>4. c.node \notin g.refs
      BY <2>2, <2>3 DEF Private
    <2>5. x \in RootsOf(owned \cup {x}, c, q)
      BY DEF RootsOf
    <2> QED BY <2>1, <2>3, <2>4, <2>5
  <1>9. heap' = AttachChild(g, c.node, x)
    <2>1. PutKey([heap EXCEPT !.prev[x] = c.prev], x, key, b) = [g EXCEPT !.prev[x] = c.prev]
      <3> HIDE DEF x, c, key
      <3> QED BY <1>5 DEF g, PutKey, NewText, Heap
    <2>2. /\ c.prev = NULL => g.child[c.node] = NULL
          /\ c.prev # NULL => c.prev \in Kids(g, c.node) /\ g.next[c.prev] = NULL
      BY <1>7, <1>8 DEF Builds
    <2>3. LinkAfter(g, c.prev, c.node, x) = AttachChild(g, c.node, x)
      BY <1>8, <2>2, LinkIsAttach
    <2> QED BY <1>3, <2>1, <2>3 DEF LinkAfter
  <1>10. g.type[c.node] \in Containers
    <2>1. c.source.kids \in Seq(Values) /\ c.source.kids # <<>>
      BY <1>7, ValuesAssumption
    <2>2. g.type[c.node] = c.source.kind
      BY <1>7, <1>8 DEF Builds
    <2> QED BY <1>7, <2>1, <2>2, ValuesAssumption
  <1>11. Linked(b)
    BY <1>a, <1>4, <1>6, <1>9, <1>10 DEF Linked, g
  <1> QED BY <1>5, <1>7, <1>11

\* append_children goes on to the next member.
LEMMA LinkMemberBuilds ==
  ASSUME BuildInv, LinkMember
  PROVE  BuildInv'
  <1> DEFINE x == Top.node
             c == Caller
             q == Tail(Tail(stack))
             k == [Caller EXCEPT !.at = @ + 1, !.prev = x]
  <1>1. /\ pc = "return" /\ pc # "idle" /\ pc' = "kids" /\ UNCHANGED owned
        /\ x # NULL /\ PopTo(k)
    BY DEF LinkMember, Goto, Returning
  <1>2. Top \in Frames
    BY <1>1, Working
  <1>3. /\ c.how = "value" /\ c \in Frames /\ c.node # NULL
        /\ c.source \in Values /\ c.at \in 1 .. Len(c.source.kids)
    BY MemberLinked
  <1>4. PICK b \in Room(Top.source.key) : Linked(b)
    BY MemberLinked
  <1> DEFINE g == PutKey(heap, x, Top.source.key, b)
  <1>5. Taken(g, owned, x, c, q) /\ g.type[c.node] \in Containers /\ heap' = AttachChild(g, c.node, x)
    BY <1>4 DEF Linked
  <1>6. /\ k \in Frames /\ k.how = "value" /\ k.node = c.node /\ k.source = c.source /\ k.prev = x
        /\ k.at \in Nat \ {0}
    <2>1. x \in Nodes
      BY <1>1, <1>2 DEF Frames
    <2>2. c.at \in Nat /\ c.at + 1 \in Nat \ {0}
      BY <1>3
    <2> QED BY <1>3, <2>1, <2>2 DEF Frames
  <1> HIDE DEF g, k, c, q, x
  <1>7. \A i \in 1 .. Len(q) : Outside(g, k, q[i].node)
    BY <1>6 DEF Outside
  <1>8. Reads(g, k)
    BY <1>3, <1>6 DEF Reads
  <1>9. Intact(heap', owned, k, q)
    BY <1>3, <1>5, <1>6, <1>7, <1>8, LinkKid
  <1>10. At(heap', pc', k)
    BY <1>1, <1>3, <1>6 DEF At, Labels
  <1> QED BY <1>1, <1>9, <1>10, CallerGoesOn DEF q

\* The name of a finished member cannot be copied: it is freed, and its parent.
LEMMA MemberKeyFailsBuilds ==
  ASSUME BuildInv, MemberKeyFails
  PROVE  BuildInv'
  <1> DEFINE r == Tail(stack)
             f == [Top EXCEPT !.node = NULL]
             k == [Caller EXCEPT !.node = NULL]
             g == FreeTree(heap, Top.node)
  <1>1. /\ pc = "return" /\ pc # "idle" /\ pc' = "return" /\ UNCHANGED owned
        /\ r # <<>> /\ Top.node # NULL /\ heap' = FreeTree(g, Caller.node) /\ PopTo(k)
    BY DEF MemberKeyFails, Goto, Returning
  <1>2. Intact(heap, owned, Top, r) /\ Top \in Frames
    BY <1>1, Working
  <1>3. Intact(g, owned, f, r) /\ f.node = NULL
    BY <1>1, <1>2, FreeBuilt DEF Frames
  <1> HIDE DEF g, f
  <1>4. Intact(g, owned, Caller, Tail(r)) /\ Caller.node # NULL
    BY <1>1, <1>3, PopNothing DEF Caller, Waits
  <1>5. Intact(heap', owned, k, Tail(r))
    BY <1>1, <1>4, FreeBuilt
  <1>6. At(heap', pc', k)
    BY <1>1 DEF At, Labels
  <1> QED BY <1>1, <1>5, <1>6, CallerGoesOn

\* A kid failed: the frame below frees what it has built, and fails too.
LEMMA PassFailureBuilds ==
  ASSUME BuildInv, PassFailure
  PROVE  BuildInv'
  <1> DEFINE r == Tail(stack)
             k == [Caller EXCEPT !.node = NULL]
  <1>1. /\ pc = "return" /\ pc # "idle" /\ pc' = "return" /\ UNCHANGED owned
        /\ r # <<>> /\ Top.node = NULL /\ heap' = FreeTree(heap, Caller.node) /\ PopTo(k)
    BY DEF PassFailure, Goto
  <1>2. Intact(heap, owned, Top, r)
    BY <1>1, Working
  <1>3. Intact(heap, owned, Caller, Tail(r)) /\ Caller.node # NULL
    BY <1>1, <1>2, PopNothing DEF Caller, Waits
  <1>4. Intact(heap', owned, k, Tail(r))
    BY <1>1, <1>3, FreeBuilt
  <1>5. At(heap', pc', k)
    BY <1>1 DEF At, Labels
  <1> QED BY <1>1, <1>4, <1>5, CallerGoesOn

\* duplicate hangs the finished copy of a kid into the copy of its parent.
LEMMA AttachCopyBuilds ==
  ASSUME BuildInv, AttachCopy
  PROVE  BuildInv'
  <1> DEFINE x == Top.node
             r == Tail(stack)
             c == Caller
             q == Tail(Tail(stack))
             k == [Caller EXCEPT !.at = heap.next[@]]
             R == RootsOf(owned \cup {x}, c, q)
  <1>1. /\ pc = "return" /\ pc # "idle" /\ pc' = "kids" /\ UNCHANGED owned
        /\ Top.how = "copy" /\ r # <<>> /\ x # NULL
        /\ heap' = AttachChild(heap, c.node, x) /\ PopTo(k)
    BY DEF AttachCopy, Goto, Returning
  <1>2. Intact(heap, owned, Top, r) /\ Top \in Frames /\ r \in Seq(Frames)
    BY <1>1, Working
  <1>3. Taken(heap, owned, x, c, q) /\ Waits(c)
    BY <1>1, <1>2, PopKid DEF Caller
  <1>4. c.how = "copy" /\ c \in Frames
    <2>1. 1 \in 1 .. Len(r) /\ c = r[1] /\ c \in Frames
      BY <1>1, <1>2 DEF Caller
    <2>2. \A i \in 1 .. Len(r) : r[i].how = Top.how
      BY <1>2 DEF Intact, On
    <2> QED BY <1>1, <2>1, <2>2
  <1> HIDE DEF c, q, x, r
  <1>5. Intact(heap, owned \cup {x}, c, q)
    BY <1>3 DEF Taken
  <1>6. /\ Sound(heap, R) /\ Reads(heap, c) /\ Builds(heap, c) /\ heap \in Heap /\ LinksLiveIn(heap)
        /\ Waiting(heap, owned \cup {x}, q) /\ x \in R /\ c.node \in R
    BY <1>3, <1>5 DEF Intact, On, RootsOf, Waits, Sound, TypeOKIn, Links
  <1>7. /\ c.node # NULL /\ c.at \in Live(heap) /\ heap.type[c.node] \in Containers
        /\ c.source \in Live(heap)
    BY <1>3, <1>4, <1>6 DEF Waits, Reads, Builds
  <1>8. heap.next[c.at] \in Live(heap) \cup {NULL}
    BY <1>6, <1>7 DEF LinksLiveIn
  <1>9. /\ k \in Frames /\ k.how = "copy" /\ k.node = c.node /\ k.source = c.source
        /\ k.at = heap.next[c.at]
    BY <1>4, <1>8 DEF Frames, Live, c
  <1>10. \A y \in R : c.at \notin Subtree(heap, y) => heap.next[c.at] \notin Subtree(heap, y)
    BY <1>6, <1>7, SubtreeClosedOff
  <1> HIDE DEF k, R
  <1>11. Reads(heap, k)
    BY <1>3, <1>4, <1>6, <1>7, <1>8, <1>9 DEF Reads, Waits
  <1>12. k.at \notin Subtree(heap, x) /\ k.at \notin Subtree(heap, c.node)
    <2>1. c.at \notin Subtree(heap, x)
      BY <1>3, <1>4 DEF Taken
    <2>2. c.at \notin Subtree(heap, c.node)
      BY <1>4, <1>5, <1>7 DEF Intact, On, Outside
    <2> QED BY <1>6, <1>9, <1>10, <2>1, <2>2
  <1>13. ASSUME NEW i \in 1 .. Len(q)
         PROVE  Outside(heap, k, q[i].node)
    <2>1. Outside(heap, c, q[i].node)
      BY <1>5 DEF Intact, On
    <2>2. q[i].node \in R
      BY DEF R, RootsOf, InHand
    <2> QED BY <1>4, <1>9, <1>10, <2>1, <2>2 DEF Outside
  <1>14. Intact(AttachChild(heap, c.node, x), owned, k, q)
    <2>1. k.how # "value" /\ k.how = c.how
      BY <1>4, <1>9
    <2> QED BY <1>3, <1>7, <1>9, <1>11, <1>12, <1>13, <2>1, LinkKid
  <1>15. At(heap', pc', k)
    BY <1>1, <1>7, <1>9 DEF At, Labels
  <1> QED BY <1>1, <1>14, <1>15, CallerGoesOn DEF q

\* The outermost frame returns its tree to the caller, or NULL.
LEMMA ReturnBuilds ==
  ASSUME BuildInv, ReturnToCaller
  PROVE  BuildInv'
  <1>1. /\ pc = "return" /\ pc # "idle" /\ Tail(stack) = <<>> /\ UNCHANGED heap
        /\ owned' = owned \cup ({Top.node} \ {NULL}) /\ stack' = <<>> /\ pc' = "idle"
    BY DEF ReturnToCaller
  <1>2. Intact(heap, owned, Top, <<>>)
    BY <1>1, Working
  <1>3. RootsOf(owned, Top, <<>>) = owned'
    BY <1>1 DEF RootsOf, InHand
  <1>4. <<>> \in Seq(Frames)
    OBVIOUS
  <1> QED BY <1>1, <1>2, <1>3, <1>4 DEF BuildInv, BuildOK, Intact

\* One lemma per step.
LEMMA StepBuilds ==
  ASSUME BuildInv, [Next]_vars
  PROVE  BuildInv'
  <1>1. CASE CallerStep
    BY <1>1, CallerBuilds
  <1>2. CASE LibraryStep
    <2>1. CASE CopyFails
      BY <2>1, FreeAndFail DEF CopyFails
    <2>2. CASE AppendFails
      BY <2>2, FreeAndFail DEF AppendFails
    <2> QED BY <1>2, <2>1, <2>2, AllocNodeBuilds, AllocNodeFailsBuilds, CopyTextBuilds,
               CopyKeyBuilds, DescendBuilds, NoMoreKidsBuilds, AppendElementBuilds,
               LinkMemberBuilds, MemberKeyFailsBuilds, AttachCopyBuilds, PassFailureBuilds,
               ReturnBuilds
            DEF LibraryStep
  <1>3. CASE UNCHANGED vars
    BY <1>3 DEF vars, BuildInv
  <1> QED BY <1>1, <1>2, <1>3 DEF Next

\* At every step of every build, whichever allocations fail, the frames of the
\* recursion build private trees that are apart from one another, from what the
\* caller holds and from what they copy, in a heap whose links and strings are
\* sound and of which nothing is lost.
THEOREM BuildsStaySound == Spec => []BuildInv
  <1> QED BY InitBuilds, StepBuilds, PTL DEF Spec

-----------------------------------------------------------------------------
(* What it means for the caller *)

\* The roots of CJsonBuild are the trees of the caller and those of the frames.
LEMMA RootsAreRoots ==
  ASSUME BuildInv
  PROVE  Sound(heap, Roots) /\ Strung(heap, {}) /\ Reached(heap, Roots)
  <1>1. CASE stack = <<>>
    <2>1. Roots = owned
      BY <1>1 DEF Roots, Building
    <2> QED BY <1>1, <2>1 DEF BuildInv, BuildOK
  <1>2. CASE stack # <<>>
    <2>1. /\ Intact(heap, owned, Top, Tail(stack)) /\ stack \in Seq(Frames)
      BY <1>2 DEF BuildInv, BuildOK, Top
    <2>2. \A n \in InHand(Tail(stack)) : n # NULL
      BY <2>1 DEF Intact, Waiting, Waits, InHand
    <2>3. {stack[i].node : i \in DOMAIN stack} = InHand(Tail(stack)) \cup {Top.node}
      <3> DEFINE r == Tail(stack)
      <3>1. /\ DOMAIN stack = 1 .. Len(stack) /\ Len(stack) \in Nat /\ Len(r) = Len(stack) - 1
            /\ Top = stack[1] /\ 1 \in 1 .. Len(stack)
            /\ \A i \in 1 .. Len(r) : i + 1 \in 1 .. Len(stack) /\ r[i] = stack[i + 1]
            /\ \A i \in 2 .. Len(stack) : i - 1 \in 1 .. Len(r) /\ stack[i] = r[i - 1]
        BY <1>2, <2>1 DEF Top
      <3> HIDE DEF r
      <3>2. ASSUME NEW i \in 1 .. Len(stack)
            PROVE  stack[i].node \in InHand(r) \cup {Top.node}
        <4>1. CASE i = 1
          BY <3>1, <4>1
        <4>2. CASE i # 1
          <5>1. i \in 2 .. Len(stack)
            BY <3>1, <4>2
          <5> QED BY <3>1, <5>1 DEF InHand
        <4> QED BY <4>1, <4>2
      <3>3. \A i \in 1 .. Len(r) : r[i].node \in {stack[j].node : j \in 1 .. Len(stack)}
        BY <3>1
      <3> QED BY <3>1, <3>2, <3>3 DEF InHand, r
    <2>4. Roots = RootsOf(owned, Top, Tail(stack))
      BY <2>2, <2>3 DEF Roots, Building, RootsOf
    <2> QED BY <2>1, <2>4 DEF Intact
  <1> QED BY <1>1, <1>2

\* The well-formedness of the heap, and of the frames, at every step of a build.
THEOREM BuildTypeOK == Spec => []TypeOK
  <1>1. ASSUME BuildInv
        PROVE  TypeOK
    <2>1. TypeOKIn(heap, Roots)
      BY <1>1, RootsAreRoots DEF Sound
    <2>2. CASE stack = <<>>
      BY <1>1, <2>1, <2>2 DEF BuildInv, BuildOK, TypeOK
    <2>3. CASE stack # <<>>
      <3>1. /\ stack \in Seq(Frames) /\ pc # "idle" /\ At(heap, pc, Top)
            /\ Intact(heap, owned, Top, Tail(stack))
        BY <1>1, <2>3 DEF BuildInv, BuildOK, Top
      <3>2. ASSUME NEW i \in DOMAIN stack
            PROVE  /\ stack[i].how \in {"value", "copy", "array"}
                   /\ stack[i].node \in Nodes \cup {NULL}
                   /\ stack[i].node = NULL => i = 1 /\ pc \in {"alloc", "return"}
        <4>1. stack[i] \in Frames
          BY <3>1
        <4>2. CASE i = 1
          BY <2>3, <3>1, <4>1, <4>2 DEF At, Labels, Top, Frames
        <4>3. CASE i # 1
          <5>1. i - 1 \in 1 .. Len(Tail(stack)) /\ Tail(stack)[i - 1] = stack[i]
            BY <2>3, <3>1, <4>3
          <5>2. \A j \in 1 .. Len(Tail(stack)) : Tail(stack)[j].node # NULL
            BY <3>1 DEF Intact, Waiting, Waits
          <5> QED BY <4>1, <5>1, <5>2 DEF Frames
        <4> QED BY <4>2, <4>3
      <3> QED BY <2>1, <2>3, <3>1, <3>2 DEF TypeOK, At, Labels
    <2> QED BY <2>2, <2>3
  <1> QED BY <1>1, BuildsStaySound, PTL

\* The lists of the partial trees are doubly linked at every step: a failure may
\* walk them at any.
THEOREM PartialTreesDoublyLinked == Spec => []DoublyLinked
  <1>1. BuildInv => DoublyLinked
    BY RootsAreRoots DEF Sound, Links, DoublyLinked
  <1> QED BY <1>1, BuildsStaySound, PTL

\* Each node of a partial tree hangs in one place or is in the hands of one frame:
\* no failure frees one twice.
THEOREM PartialTreesOneOwner == Spec => []OneOwner
  <1>1. BuildInv => OneOwner
    BY RootsAreRoots, SoundHasOneOwner DEF OneOwner
  <1> QED BY <1>1, BuildsStaySound, PTL

\* Each string that a build copies is held once from its allocation on, by a node
\* that frees it.
THEOREM CopiesOwnedOnce == Spec => []StringsOwnedOnce
  <1>1. BuildInv => StringsOwnedOnce
    BY RootsAreRoots, StrungOwnsOnce DEF StringsOwnedOnce
  <1> QED BY <1>1, BuildsStaySound, PTL

\* No failure frees what something still points at.
THEOREM FailuresLeaveNothingDangling == Spec => []NoDangling
  <1>1. BuildInv => NoDangling
    BY RootsAreRoots, StrungLives DEF Sound, Links, NoDangling
  <1> QED BY <1>1, BuildsStaySound, PTL

\* No failure loses a node: once the call has returned NULL, the caller's trees
\* are all that there is.
THEOREM FailuresLeakNothing == Spec => []NoLeak
  <1>1. BuildInv => NoLeak
    BY RootsAreRoots, ReachedIsInTrees DEF NoLeak
  <1> QED BY <1>1, BuildsStaySound, PTL
=============================================================================
