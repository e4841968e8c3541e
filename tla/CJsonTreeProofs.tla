--------------------------- MODULE CJsonTreeProofs ---------------------------
(***************************************************************************)
(* Theorems of CJsonTree, for any number of nodes, buffers and texts: the  *)
(* fields keep their types, the lists stay doubly linked, every node has   *)
(* exactly one owner and none is lost, as long as the caller keeps to the  *)
(* contract and does not edit the list of a reference.  If besides it      *)
(* replaces no member with a borrowed key by an item without one, every    *)
(* string has one owner too, and no pointer dangles.                       *)
(*                                                                         *)
(* And the pointers of CJsonTree implement the sequences of JsonForest.    *)
(* Three things meet there: what each helper does to the lists, as         *)
(* sequences; what it does to the texts, as the pointers read them; and    *)
(* the tree of a root, which is the same set in the pointers and in the    *)
(* sequences.                                                              *)
(***************************************************************************)
EXTENDS CJsonTreeForest, CJsonNodesProofs

-----------------------------------------------------------------------------
(* Every call keeps the heap sound *)

SoundNow == Sound(heap, owned)

\* The constructors, cJSON_Duplicate(item, 0) among them.
LEMMA CreateSound ==
  ASSUME SoundNow, Create
  PROVE  SoundNow'
  <1> SUFFICES ASSUME NEW n \in FreeNodes,
                      \/ \E t \in Types : CreateItem(t, n)
                      \/ \E t \in Types, s \in Utf8, b \in FreeBufs : CreateString(t, s, n, b)
                      \/ \E s \in Texts : CreateStringReference(s, n)
                      \/ \E t \in Types, c \in Live(heap) \cup {NULL} : CreateContainerReference(t, c, n)
                      \/ \E item \in Live(heap), bv, bk \in FreeBufs \cup {NULL} :
                           DuplicateShallow(item, n, bv, bk)
               PROVE  Sound(heap', owned')
    BY DEF Create, SoundNow
  <1>1. Sound(heap, owned) /\ n \in Nodes \ Live(heap) /\ heap \in Heap
    BY DEF SoundNow, FreeNodes, Sound, TypeOKIn
  <1>2. ASSUME NEW t \in Types, CreateItem(t, n)
        PROVE  Sound(heap', owned')
    BY <1>1, <1>2, NewNodeAdds DEF CreateItem, Allocates, Adds
  <1>3. ASSUME NEW t \in Types, NEW s \in Utf8, NEW b \in FreeBufs, CreateString(t, s, n, b)
        PROVE  Sound(heap', owned')
    <2>1. Adds(heap, StringItem(heap, t, s, n, b), n, owned)
      BY <1>1, <1>3, StringItemAdds, HeapAssumption DEF CreateString, FreeBufs
    <2> QED BY <1>3, <2>1 DEF CreateString, Adds
  <1>4. ASSUME NEW s \in Texts, CreateStringReference(s, n)
        PROVE  Sound(heap', owned')
    <2> DEFINE g == NewReference(heap, n, "String")
    <2>1. Adds(heap, g, n, owned) /\ g.type[n] = "String"
      BY <1>1, NewNodeAdds DEF Allocates, Types
    <2> HIDE DEF g
    <2>2. Keeps(g, [g EXCEPT !.valuestring[n] = s], owned \cup {n})
      BY <2>1, SetValueSound DEF Adds, Strings
    <2> QED BY <1>4, <2>2 DEF CreateStringReference, g, Keeps
  <1>5. ASSUME NEW t \in Types, NEW c \in Live(heap) \cup {NULL}, CreateContainerReference(t, c, n)
        PROVE  Sound(heap', owned')
    <2> DEFINE g == NewReference(heap, n, t)
    <2>1. Adds(heap, g, n, owned) /\ g.type[n] = t /\ t \in Containers
      BY <1>1, <1>5, NewNodeAdds DEF Allocates, CreateContainerReference
    <2>2. n \in g.refs
      BY <1>1 DEF NewReference, Heap
    <2> HIDE DEF g
    <2>3. Keeps(g, [g EXCEPT !.child[n] = c], owned \cup {n})
      BY <2>1, <2>2, PointReferenceSound DEF Adds
    <2> QED BY <1>5, <2>3 DEF CreateContainerReference, g, Keeps
  <1>6. ASSUME NEW item \in Live(heap), NEW bv \in FreeBufs \cup {NULL}, NEW bk \in FreeBufs \cup {NULL},
               DuplicateShallow(item, n, bv, bk)
        PROVE  Sound(heap', owned')
    <2>1. Adds(heap, CopyNode(heap, n, item, bv, bk), n, owned)
      BY <1>1, <1>6, CopyAdds DEF DuplicateShallow, FreeBufs
    <2> QED BY <1>6, <2>1 DEF DuplicateShallow, Adds
  <1> QED BY <1>2, <1>3, <1>4, <1>5, <1>6

\* The lists a caller edits are owned by the node they are reached through.
LEMMA EditableOwns ==
  ASSUME "mutate_reference" \in Avoid
  PROVE  Editable = Live(heap) \ heap.refs
  BY DEF Editable

\* Adding and inserting a root.
LEMMA AdoptSound ==
  ASSUME "mutate_reference" \in Avoid, SoundNow, Adopt
  PROVE  SoundNow'
  <1> SUFFICES ASSUME NEW x \in owned, NEW p \in Places(x),
                      \/ AddItemToArray(p, x)
                      \/ \E name \in Pointers(heap), b \in FreeBufs : AddItemToObject(p, name, x, b)
                      \/ \E name \in Texts : AddItemToObjectCS(p, name, x)
                      \/ \E which \in Indices : InsertItemPastEnd(p, which, x)
                      \/ \E at \in Kids(heap, p), which \in Indices :
                           InsertItemInArray(p, which, x, at)
               PROVE  Sound(heap', owned')
    BY DEF Adopt, SoundNow
  <1>1. Sound(heap, owned) /\ x \in Live(heap) /\ heap.consts \subseteq Live(heap)
    BY DEF SoundNow, Sound, TypeOKIn
  <1>2. p \in Live(heap) \ heap.refs /\ x # p
    BY <1>1, EditableOwns, SubtreeHasRoot DEF Places, Live
  <1>3. ASSUME AddItemToArray(p, x)
        PROVE  Sound(heap', owned')
    BY <1>1, <1>2, <1>3, AttachChildSound DEF AddItemToArray, Containers
  <1>4. ASSUME NEW name \in Pointers(heap), NEW b \in FreeBufs, AddItemToObject(p, name, x, b)
        PROVE  Sound(heap', owned')
    BY <1>1, <1>2, <1>4, AttachNamedSound, HeapAssumption
    DEF AddItemToObject, Containers, FreeBufs
  <1>5. ASSUME NEW name \in Texts, AddItemToObjectCS(p, name, x)
        PROVE  Sound(heap', owned')
    <2> DEFINE C == FreeKey(heap, x).consts \cup {x}
               k == [FreeKey(heap, x) EXCEPT !.consts = C, !.string[x] = name]
    <2>1. C \in SUBSET Live(heap)
      BY <1>1, FreeTextSound DEF FreeKey, Keeps, Sound, TypeOKIn
    <2>2. name \in Bufs \cup Texts \cup {NULL}
      OBVIOUS
    <2> HIDE DEF C
    <2>3. Keeps(heap, k, owned)
      BY <1>1, <2>1, <2>2, RekeySound, Zenon
    <2> HIDE DEF k
    <2>4. heap' = AttachChild(k, p, x) /\ heap.type[p] \in Containers /\ owned' = owned \ {x}
      BY <1>5 DEF AddItemToObjectCS, Containers, k, C
    <2> QED BY <1>2, <2>3, <2>4, AttachChildSound DEF Keeps
  <1>6. ASSUME NEW at \in Kids(heap, p), NEW which \in Indices, InsertItemInArray(p, which, x, at)
        PROVE  Sound(heap', owned')
    BY <1>1, <1>2, <1>6, SpliceBeforeSound DEF InsertItemInArray
  <1> QED BY <1>3, <1>4, <1>5, <1>6 DEF InsertItemPastEnd

\* A fresh node hung into a list is no root, and the roots stay as they were.
LEMMA FreshNodeHung ==
  ASSUME NEW g, NEW n \in FreeNodes, SoundNow, Adds(heap, g, n, owned),
         NEW p \in Live(heap) \ heap.refs
  PROVE  /\ Sound(g, owned \cup {n}) /\ p \in Live(g) \ g.refs /\ n # p
         /\ g.type[p] = heap.type[p]
         /\ (owned \cup {n}) \ {n} = owned
  BY DEF SoundNow, Adds, Sound, TypeOKIn, FreeNodes

\* Adding a reference, and failing to.
LEMMA AddReferenceSound ==
  ASSUME "mutate_reference" \in Avoid, SoundNow, AddReference
  PROVE  SoundNow'
  <1> SUFFICES ASSUME NEW p \in Live(heap) \ heap.refs, NEW item \in Live(heap), NEW r \in FreeNodes,
                      \/ AddItemReferenceToArray(p, item, r)
                      \/ \E name \in Utf8, b \in FreeBufs :
                           AddItemReferenceToObject(p, name, item, r, b)
                      \/ AddItemReferenceFails(p, item, r)
               PROVE  Sound(heap', owned')
    BY EditableOwns DEF AddReference, SoundNow
  <1> DEFINE g == WrapAsReference(heap, r, item)
             S == owned \cup {r}
  <1>1. Adds(heap, g, r, owned)
    BY WrapAdds DEF SoundNow, FreeNodes
  <1> HIDE DEF g
  <1>2. /\ Sound(g, S) /\ r \in S /\ p \in Live(g) \ g.refs /\ r # p
        /\ g.type[p] = heap.type[p] /\ S \ {r} = owned
    <2>1. r \in S
      OBVIOUS
    <2> HIDE DEF S
    <2>2. /\ Sound(g, owned \cup {r}) /\ p \in Live(g) \ g.refs /\ r # p
          /\ g.type[p] = heap.type[p]
          /\ (owned \cup {r}) \ {r} = owned
      BY <1>1, FreshNodeHung
    <2> QED BY <2>1, <2>2 DEF S
  <1> HIDE DEF S
  <1>3. CASE AddItemReferenceToArray(p, item, r)
    <2>1. Sound(AttachChild(g, p, r), S \ {r})
      BY <1>2, <1>3, AttachChildSound DEF AddItemReferenceToArray, Containers
    <2> QED BY <1>2, <1>3, <2>1 DEF AddItemReferenceToArray, g
  <1>4. ASSUME NEW name \in Utf8, NEW b \in FreeBufs, AddItemReferenceToObject(p, name, item, r, b)
        PROVE  Sound(heap', owned')
    <2>1. Deref(g, name) \in Texts /\ b \in Bufs /\ heap.type[p] \in Containers
      BY <1>4, HeapAssumption DEF Deref, FreeBufs, AddItemReferenceToObject, Containers
    <2>2. Sound(AttachNamedChild(g, p, name, r, b), S \ {r})
      BY <1>2, <2>1, AttachNamedSound
    <2> QED BY <1>2, <1>4, <2>2 DEF AddItemReferenceToObject, g
  <1>5. CASE AddItemReferenceFails(p, item, r)
    <2>1. r \in Nodes /\ owned \subseteq Live(heap)
      BY DEF FreeNodes, SoundNow, Sound, TypeOKIn
    <2>2. Sound(FreeTree(g, r), owned)
      BY <1>1, <2>1, FreeFreshSound
    <2> QED BY <1>5, <2>2 DEF AddItemReferenceFails, g
  <1> QED BY <1>3, <1>4, <1>5

\* What cJSON_Add<type>ToObject creates is a fresh node.
LEMMA NewItemsAdd ==
  ASSUME SoundNow, NEW n \in FreeNodes, NEW made \in NewItems(n)
  PROVE  Adds(heap, made, n, owned)
  <1>0. Sound(heap, owned) /\ n \in Nodes \ Live(heap)
    BY DEF SoundNow, FreeNodes
  <1>1. ASSUME NEW t \in Kinds \ Strings, made = NewNode(heap, n, t)
        PROVE  Adds(heap, made, n, owned)
    BY <1>0, <1>1, NewNodeAdds, CallerAssumption DEF Allocates
  <1>2. ASSUME NEW t \in Kinds \cap Strings, NEW s \in Utf8, NEW b \in FreeBufs,
               made = StringItem(heap, t, s, n, b)
        PROVE  Adds(heap, made, n, owned)
    BY <1>0, <1>2, StringItemAdds, HeapAssumption DEF FreeBufs
  <1> QED BY <1>1, <1>2 DEF NewItems

\* cJSON_Add<type>ToObject, and its failure.
LEMMA AddNewSound ==
  ASSUME "mutate_reference" \in Avoid, SoundNow, AddNew
  PROVE  SoundNow'
  <1> SUFFICES ASSUME NEW n \in FreeNodes, NEW made \in NewItems(n),
                      \/ \E p \in Editable, name \in Utf8, b \in Bufs \ LiveBufs(made) :
                           AddNewToObject(p, name, n, made, b)
                      \/ AddNewFails(n, made)
               PROVE  Sound(heap', owned')
    BY DEF AddNew, SoundNow
  <1> DEFINE S == owned \cup {n}
  <1>1. Sound(heap, owned) /\ n \in Nodes \ Live(heap) /\ owned \subseteq Live(heap)
    BY DEF SoundNow, FreeNodes, Sound, TypeOKIn
  <1>2. Adds(heap, made, n, owned)
    BY NewItemsAdd DEF SoundNow
  <1>3. ASSUME NEW p \in Editable, NEW name \in Utf8, NEW b \in Bufs \ LiveBufs(made),
               AddNewToObject(p, name, n, made, b)
        PROVE  Sound(heap', owned')
    <2>1. /\ Sound(made, S) /\ n \in S /\ p \in Live(made) \ made.refs /\ n # p
          /\ made.type[p] = heap.type[p] /\ S \ {n} = owned
      BY <1>2, FreshNodeHung, EditableOwns
    <2> HIDE DEF S
    <2>2. Deref(made, name) \in Texts /\ heap.type[p] \in Containers
      BY <1>3, HeapAssumption DEF Deref, AddNewToObject, Containers
    <2>3. Sound(AttachNamedChild(made, p, name, n, b), S \ {n})
      BY <2>1, <2>2, AttachNamedSound
    <2> QED BY <1>3, <2>1, <2>3 DEF AddNewToObject
  <1>4. CASE AddNewFails(n, made)
    BY <1>1, <1>2, <1>4, FreeFreshSound DEF AddNewFails
  <1> QED BY <1>3, <1>4

\* A kid is cut out; it stays as a root, or is freed with its tree.
LEMMA CutSound ==
  ASSUME "mutate_reference" \in Avoid, SoundNow, NEW p \in Editable, NEW x \in Kids(heap, p),
         DetachItemViaPointer(p, x) \/ DetachAndFree(p, x)
  PROVE  Sound(heap', owned')
  <1> DEFINE cut == Detach(heap, p, x)
             S == owned \cup {x}
  <1>1. Sound(heap, owned) /\ p \in Live(heap) \ heap.refs
    BY EditableOwns DEF SoundNow
  <1>2. Sound(cut, S) /\ x \in S /\ S \ {x} = owned
    BY <1>1, DetachSound, KidsAreKids
  <1>3. CASE DetachItemViaPointer(p, x)
    BY <1>2, <1>3 DEF DetachItemViaPointer
  <1>4. CASE DetachAndFree(p, x)
    <2> HIDE DEF cut, S
    <2>1. MayFree(cut, x) /\ heap' = FreeTree(cut, x) /\ owned' = owned
      BY <1>4 DEF DetachAndFree, cut
    <2>2. Sound(FreeTree(cut, x), S \ {x})
      BY <1>2, <2>1, FreeTreeSound DEF MayFree
    <2> QED BY <1>2, <2>1, <2>2
  <1> QED BY <1>3, <1>4

\* Detaching and deleting.
LEMMA RemoveSound ==
  ASSUME "mutate_reference" \in Avoid, SoundNow, Remove
  PROVE  SoundNow'
  <1>1. ASSUME NEW x \in owned, Delete(x)
        PROVE  SoundNow'
    BY <1>1, FreeTreeSound DEF Delete, MayFree, SoundNow
  <1>2. ASSUME NEW p \in Editable, NEW x \in Kids(heap, p),
               \/ DetachItemViaPointer(p, x)
               \/ \E which \in Indices : DetachItemFromArray(p, which, x)
               \/ \E which \in Indices : DeleteItemFromArray(p, which, x)
               \/ \E key \in Utf8, cs \in BOOLEAN : DetachItemFromObject(p, key, cs, x)
               \/ \E key \in Utf8, cs \in BOOLEAN : DeleteItemFromObject(p, key, cs, x)
        PROVE  SoundNow'
    <2>1. DetachItemViaPointer(p, x) \/ DetachAndFree(p, x)
      BY <1>2
      DEF DetachItemFromArray, DeleteItemFromArray, DetachItemFromObject, DeleteItemFromObject
    <2> QED BY <2>1, CutSound DEF SoundNow
  <1> QED BY <1>1, <1>2 DEF Remove

\* Replacing a kid by a root.
LEMMA ReplaceSound ==
  ASSUME "mutate_reference" \in Avoid, SoundNow, Replace
  PROVE  SoundNow'
  <1>1. PICK r \in owned : \E p \in Places(r) : \E x \in Kids(heap, p) : ReplaceItemViaPointer(p, x, r)
    BY DEF Replace, ReplaceItemInArray, ReplaceItemInObject
  <1>2. PICK p \in Places(r) : \E x \in Kids(heap, p) : ReplaceItemViaPointer(p, x, r)
    BY <1>1
  <1>3. PICK x \in Kids(heap, p) : ReplaceItemViaPointer(p, x, r)
    BY <1>2
  <1> DEFINE placed == TakePlace(heap, p, x, r)
             S == (owned \ {r}) \cup {x}
  <1>4. Sound(heap, owned) /\ p \in Live(heap) \ heap.refs
    BY EditableOwns DEF SoundNow, Places
  <1>5. Sound(placed, S) /\ x \in S /\ S \ {x} = owned \ {r}
    BY <1>4, TakePlaceSound, KidsAreKids
  <1>6. MayFree(placed, x) /\ heap' = FreeTree(placed, x) /\ owned' = owned \ {r}
    BY <1>3 DEF ReplaceItemViaPointer
  <1> HIDE DEF placed, S
  <1>7. Sound(FreeTree(placed, x), S \ {x})
    BY <1>5, <1>6, FreeTreeSound DEF MayFree
  <1> QED BY <1>5, <1>6, <1>7 DEF SoundNow

\* cJSON_SetValuestring.
LEMMA SetStringSound ==
  ASSUME SoundNow, SetString
  PROVE  SoundNow'
  <1>1. PICK x \in Live(heap), s \in Pointers(heap), b \in FreeBufs : SetValuestring(x, s, b)
    BY DEF SetString
  <1> DEFINE c == NewText(heap, b, Deref(heap, s))
             f == FreeText(c, heap.valuestring[x])
  <1>2. Keeps(heap, c, owned) /\ b \in Bufs
    BY <1>1, NewTextSound, HeapAssumption DEF SetValuestring, SoundNow, FreeBufs
  <1> HIDE DEF c
  <1>3. Keeps(c, f, owned)
    BY <1>2, FreeTextSound DEF Keeps
  <1> HIDE DEF f
  <1>4. Keeps(f, [f EXCEPT !.valuestring[x] = b], owned)
    BY <1>1, <1>2, <1>3, SetValueSound DEF Keeps, SetValuestring, Strings
  <1> QED BY <1>1, <1>4 DEF SetValuestring, SoundNow, Keeps, f, c

-----------------------------------------------------------------------------
(* Every call keeps each string buffer with one holder *)

StrungNow == Strung(heap, {})

\* The constructors, cJSON_Duplicate(item, 0) among them.
LEMMA CreateStrung ==
  ASSUME SoundNow, StrungNow, Create
  PROVE  StrungNow'
  <1> SUFFICES ASSUME NEW n \in FreeNodes,
                      \/ \E t \in Types : CreateItem(t, n)
                      \/ \E t \in Types, s \in Utf8, b \in FreeBufs : CreateString(t, s, n, b)
                      \/ \E s \in Texts : CreateStringReference(s, n)
                      \/ \E t \in Types, c \in Live(heap) \cup {NULL} : CreateContainerReference(t, c, n)
                      \/ \E item \in Live(heap), bv, bk \in FreeBufs \cup {NULL} :
                           DuplicateShallow(item, n, bv, bk)
               PROVE  Strung(heap', {})
    BY DEF Create, StrungNow
  <1>1. Sound(heap, owned) /\ Strung(heap, {}) /\ n \in Nodes \ Live(heap) /\ heap \in Heap
    BY DEF SoundNow, StrungNow, FreeNodes, Sound, TypeOKIn
  <1>2. ASSUME NEW t \in Types, CreateItem(t, n)
        PROVE  Strung(heap', {})
    <2>1. heap' = NewNode(heap, n, t) /\ Allocates(heap, heap', n, t)
      BY <1>2 DEF CreateItem, Allocates
    <2> QED BY <1>1, <2>1, NewNodeStrung
  <1>3. ASSUME NEW t \in Types, NEW s \in Utf8, NEW b \in FreeBufs, CreateString(t, s, n, b)
        PROVE  Strung(heap', {})
    <2>1. t \in Strings /\ s \in Texts /\ b \in Bufs \ LiveBufs(heap)
      BY <1>3, HeapAssumption DEF CreateString, FreeBufs
    <2> QED BY <1>1, <1>3, <2>1, StringItemStrung DEF CreateString
  <1> DEFINE g(t) == NewReference(heap, n, t)
  <1>4. ASSUME NEW t \in Types
        PROVE  /\ Sound(g(t), owned \cup {n}) /\ Strung(g(t), {}) /\ n \in g(t).refs
               /\ g(t) \in Heap
    <2>1. Allocates(heap, g(t), n, t)
      BY DEF Allocates
    <2>2. n \in g(t).refs
      BY <1>1 DEF NewReference, Heap
    <2> HIDE DEF g
    <2>3. Strung(g(t), {})
      BY <1>1, <2>1, NewNodeStrung
    <2>4. Adds(heap, g(t), n, owned)
      BY <1>1, <2>1, NewNodeAdds
    <2> QED BY <2>2, <2>3, <2>4 DEF Adds, Sound, TypeOKIn
  <1> HIDE DEF g
  <1>5. ASSUME NEW s \in Texts, CreateStringReference(s, n)
        PROVE  Strung(heap', {})
    <2>1. Sound(g("String"), owned \cup {n}) /\ Strung(g("String"), {}) /\ n \in g("String").refs
      BY <1>4 DEF Types
    <2>2. Strung([g("String") EXCEPT !.valuestring[n] = s], {})
      BY <2>1, ReferToValueStrung
    <2> QED BY <1>5, <2>2 DEF CreateStringReference, g
  <1>6. ASSUME NEW t \in Types, NEW c \in Live(heap) \cup {NULL}, CreateContainerReference(t, c, n)
        PROVE  Strung(heap', {})
    <2> DEFINE k == [g(t) EXCEPT !.child[n] = c]
    <2>1. /\ k.type = g(t).type /\ k.refs = g(t).refs /\ k.consts = g(t).consts
          /\ k.valuestring = g(t).valuestring /\ k.string = g(t).string /\ k.text = g(t).text
      BY <1>4 DEF Heap
    <2> HIDE DEF k
    <2>2. Strung(k, {})
      BY <1>4, <2>1, LinksLeaveStrings
    <2> QED BY <1>6, <2>2 DEF CreateContainerReference, g, k
  <1>7. ASSUME NEW item \in Live(heap), NEW bv \in FreeBufs \cup {NULL}, NEW bk \in FreeBufs \cup {NULL},
               DuplicateShallow(item, n, bv, bk)
        PROVE  Strung(heap', {})
    BY <1>1, <1>7, CopyStrung DEF DuplicateShallow, FreeBufs
  <1> QED BY <1>2, <1>3, <1>5, <1>6, <1>7

\* A splice leaves the strings alone, and so does a cut.
LEMMA SpliceAndCutLeaveStrings ==
  ASSUME NEW h, h \in Heap, NEW L, Strung(h, L), NEW p, NEW x, NEW r
  PROVE  Strung(SpliceBefore(h, p, x, r), L) /\ Strung(Detach(h, p, x), L)
  <1> DEFINE g == SpliceBefore(h, p, x, r)
             k == Detach(h, p, x)
  <1>1. /\ g.type = h.type /\ g.refs = h.refs /\ g.consts = h.consts
        /\ g.valuestring = h.valuestring /\ g.string = h.string /\ g.text = h.text
    BY DEF SpliceBefore, Heap
  <1>2. /\ k.type = h.type /\ k.refs = h.refs /\ k.consts = h.consts
        /\ k.valuestring = h.valuestring /\ k.string = h.string /\ k.text = h.text
    BY DEF Detach, Heap
  <1> HIDE DEF g, k
  <1> QED BY <1>1, <1>2, LinksLeaveStrings DEF g, k

\* Adding and inserting a root.
LEMMA AdoptStrung ==
  ASSUME "mutate_reference" \in Avoid, SoundNow, StrungNow, Adopt
  PROVE  StrungNow'
  <1> SUFFICES ASSUME NEW x \in owned, NEW p \in Places(x),
                      \/ AddItemToArray(p, x)
                      \/ \E name \in Pointers(heap), b \in FreeBufs : AddItemToObject(p, name, x, b)
                      \/ \E name \in Texts : AddItemToObjectCS(p, name, x)
                      \/ \E which \in Indices : InsertItemPastEnd(p, which, x)
                      \/ \E at \in Kids(heap, p), which \in Indices :
                           InsertItemInArray(p, which, x, at)
               PROVE  Strung(heap', {})
    BY DEF Adopt, StrungNow
  <1>1. Sound(heap, owned) /\ Strung(heap, {}) /\ heap \in Heap /\ x \in Live(heap)
    BY DEF SoundNow, StrungNow, Sound, TypeOKIn
  <1>2. p \in Live(heap) \ heap.refs
    BY EditableOwns DEF Places
  <1>3. ASSUME AddItemToArray(p, x)
        PROVE  Strung(heap', {})
    BY <1>1, <1>3, AttachLeavesStrings DEF AddItemToArray
  <1>4. ASSUME NEW name \in Pointers(heap), NEW b \in FreeBufs, AddItemToObject(p, name, x, b)
        PROVE  Strung(heap', {})
    BY <1>1, <1>2, <1>4, AttachNamedStrung, HeapAssumption DEF AddItemToObject, FreeBufs
  <1>5. ASSUME NEW name \in Texts, AddItemToObjectCS(p, name, x)
        PROVE  Strung(heap', {})
    <2> DEFINE k == [FreeKey(heap, x) EXCEPT !.consts = @ \cup {x}, !.string[x] = name]
    <2>1. Strung(k, {}) /\ k \in Heap
      BY <1>1, BorrowKeyStrung
    <2> HIDE DEF k
    <2>2. Strung(AttachChild(k, p, x), {})
      BY <2>1, AttachLeavesStrings
    <2> QED BY <1>5, <2>2 DEF AddItemToObjectCS, k
  <1>6. ASSUME NEW at \in Kids(heap, p), NEW which \in Indices, InsertItemInArray(p, which, x, at)
        PROVE  Strung(heap', {})
    BY <1>1, <1>6, SpliceAndCutLeaveStrings DEF InsertItemInArray
  <1> QED BY <1>3, <1>4, <1>5, <1>6 DEF InsertItemPastEnd

\* A wrapper that is not hung anywhere can be freed.
LEMMA WrapMayFree ==
  ASSUME SoundNow, StrungNow, NEW r \in FreeNodes, NEW item \in Live(heap)
  PROVE  MayFree(WrapAsReference(heap, r, item), r)
  <1> DEFINE g == WrapAsReference(heap, r, item)
  <1>1. Adds(heap, g, r, owned) /\ r \in Nodes
    BY WrapAdds DEF SoundNow, FreeNodes
  <1>2. r \in g.refs /\ g.string[r] = NULL
    BY WrapStrung DEF SoundNow, StrungNow, FreeNodes
  <1> HIDE DEF g
  <1>3. Subtree(g, r) = {r}
    BY <1>1, <1>2, SubtreeOfLeaf
  <1>4. OwnStrings(g, {r}) \subseteq {NULL}
    BY <1>2 DEF OwnStrings
  <1>5. MayFree(g, r)
    BY <1>1, <1>3, <1>4 DEF MayFree, Adds, Sound, TypeOKIn, Heap
  <1> QED BY <1>5 DEF g

\* Adding a reference, and failing to.
LEMMA AddReferenceStrung ==
  ASSUME "mutate_reference" \in Avoid, SoundNow, StrungNow, AddReference
  PROVE  StrungNow'
  <1> SUFFICES ASSUME NEW p \in Live(heap) \ heap.refs, NEW item \in Live(heap), NEW r \in FreeNodes,
                      \/ AddItemReferenceToArray(p, item, r)
                      \/ \E name \in Utf8, b \in FreeBufs :
                           AddItemReferenceToObject(p, name, item, r, b)
                      \/ AddItemReferenceFails(p, item, r)
               PROVE  Strung(heap', {})
    BY EditableOwns DEF AddReference, StrungNow
  <1> DEFINE g == WrapAsReference(heap, r, item)
  <1>1. Adds(heap, g, r, owned)
    BY WrapAdds DEF SoundNow, FreeNodes
  <1>2. Strung(g, {}) /\ LiveBufs(g) = LiveBufs(heap) /\ r \in g.refs /\ g.string[r] = NULL
    BY WrapStrung DEF SoundNow, StrungNow, FreeNodes
  <1> HIDE DEF g
  <1>3. /\ Sound(g, owned \cup {r}) /\ r \in owned \cup {r} /\ p \in Live(g) \ g.refs
        /\ r \in Nodes /\ g \in Heap
    BY <1>1, FreshNodeHung DEF FreeNodes, Sound, TypeOKIn
  <1>4. CASE AddItemReferenceToArray(p, item, r)
    BY <1>2, <1>3, <1>4, AttachLeavesStrings DEF AddItemReferenceToArray, g
  <1>5. ASSUME NEW name \in Utf8, NEW b \in FreeBufs, AddItemReferenceToObject(p, name, item, r, b)
        PROVE  Strung(heap', {})
    <2>1. Deref(g, name) \in Texts /\ b \in Bufs \ LiveBufs(g)
      BY <1>2, HeapAssumption DEF Deref, FreeBufs
    <2>2. Strung(AttachNamedChild(g, p, name, r, b), {})
      BY <1>2, <1>3, <2>1, AttachNamedStrung
    <2> QED BY <1>5, <2>2 DEF AddItemReferenceToObject, g
  <1>6. CASE AddItemReferenceFails(p, item, r)
    <2>1. MayFree(g, r)
      BY WrapMayFree DEF g
    <2>2. Strung(FreeTree(g, r), {})
      BY <1>2, <1>3, <2>1, FreeTreeStrung
    <2> QED BY <1>6, <2>2 DEF AddItemReferenceFails, g
  <1> QED BY <1>4, <1>5, <1>6

\* What cJSON_Add<type>ToObject creates holds its own strings, and can be freed.
LEMMA NewItemsStrung ==
  ASSUME SoundNow, StrungNow, NEW n \in FreeNodes, NEW made \in NewItems(n)
  PROVE  Strung(made, {}) /\ Adds(heap, made, n, owned) /\ MayFree(made, n)
  <1>1. /\ Sound(heap, owned) /\ Strung(heap, {}) /\ n \in Nodes \ Live(heap)
        /\ heap \in Heap /\ heap.refs \subseteq Live(heap)
        /\ heap.valuestring[n] = NULL /\ heap.string[n] = NULL
    BY DEF SoundNow, StrungNow, FreeNodes, Sound, TypeOKIn
  <1>2. \A w \in heap.refs : heap.valuestring[w] \in Pointers(heap) \cup {NULL}
    BY <1>1, StrungLives DEF StringsLiveIn
  <1>3. ASSUME NEW t \in Kinds \ Strings, made = NewNode(heap, n, t)
        PROVE  /\ Strung(made, {}) /\ Adds(heap, made, n, owned)
               /\ OwnStrings(made, {n}) \subseteq {NULL}
    <2>1. Allocates(heap, made, n, t) /\ t \in Types
      BY <1>3, CallerAssumption DEF Allocates
    <2>2. /\ Strung(made, {}) /\ Adds(heap, made, n, owned)
          /\ made.valuestring[n] = NULL /\ made.string[n] = NULL
      BY <1>1, <2>1, NewNodeStrung, NewNodeAdds
    <2> QED BY <2>2 DEF OwnStrings
  <1>4. ASSUME NEW t \in Kinds \cap Strings, NEW s \in Utf8, NEW b \in FreeBufs,
               made = StringItem(heap, t, s, n, b)
        PROVE  /\ Strung(made, {}) /\ Adds(heap, made, n, owned)
               /\ OwnStrings(made, {n}) \subseteq {b, NULL} /\ made.refs = heap.refs
               /\ \A w \in heap.refs : made.valuestring[w] = heap.valuestring[w]
    <2>1. s \in Texts /\ b \in Bufs \ LiveBufs(heap)
      BY HeapAssumption DEF FreeBufs
    <2>2. Adds(heap, made, n, owned)
      BY <1>1, <1>4, <2>1, StringItemAdds
    <2>3. /\ Strung(made, {}) /\ made.refs = heap.refs /\ made.string = heap.string
          /\ made.valuestring[n] = b
          /\ \A m \in Nodes \ {n} : made.valuestring[m] = heap.valuestring[m]
      BY <1>1, <1>4, <2>1, StringItemStrung
    <2> QED BY <1>1, <2>2, <2>3 DEF OwnStrings, Live
  <1>5. Strung(made, {}) /\ Adds(heap, made, n, owned)
    BY <1>3, <1>4 DEF NewItems
  <1>6. Subtree(made, n) = {n} /\ \A m \in Nodes : made.child[m] # n
    BY <1>1, <1>5, SubtreeOfLeaf DEF Adds
  <1>7. \A w \in made.refs \ {n} : made.valuestring[w] = NULL \/ made.valuestring[w] \notin OwnStrings(made, {n})
    <2>1. CASE OwnStrings(made, {n}) \subseteq {NULL}
      BY <2>1
    <2>2. ASSUME NEW b \in FreeBufs, OwnStrings(made, {n}) \subseteq {b, NULL}, made.refs = heap.refs,
                 \A w \in heap.refs : made.valuestring[w] = heap.valuestring[w]
          PROVE  \A w \in made.refs \ {n} :
                   made.valuestring[w] = NULL \/ made.valuestring[w] \notin OwnStrings(made, {n})
      <3>1. b \notin Pointers(heap)
        BY HeapAssumption DEF FreeBufs, Pointers
      <3> QED BY <1>2, <2>2, <3>1
    <2> QED BY <1>3, <1>4, <2>1, <2>2 DEF NewItems
  <1>8. made.refs \subseteq Nodes
    BY <1>5 DEF Adds, Sound, TypeOKIn, Heap
  <1> QED BY <1>5, <1>6, <1>7, <1>8 DEF MayFree

\* cJSON_Add<type>ToObject, and its failure.
LEMMA AddNewStrung ==
  ASSUME "mutate_reference" \in Avoid, SoundNow, StrungNow, AddNew
  PROVE  StrungNow'
  <1> SUFFICES ASSUME NEW n \in FreeNodes, NEW made \in NewItems(n),
                      \/ \E p \in Editable, name \in Utf8, b \in Bufs \ LiveBufs(made) :
                           AddNewToObject(p, name, n, made, b)
                      \/ AddNewFails(n, made)
               PROVE  Strung(heap', {})
    BY DEF AddNew, StrungNow
  <1>1. Strung(made, {}) /\ Adds(heap, made, n, owned) /\ MayFree(made, n)
    BY NewItemsStrung
  <1>2. Sound(made, owned \cup {n}) /\ n \in owned \cup {n}
    BY <1>1 DEF Adds
  <1>3. ASSUME NEW p \in Editable, NEW name \in Utf8, NEW b \in Bufs \ LiveBufs(made),
               AddNewToObject(p, name, n, made, b)
        PROVE  Strung(heap', {})
    <2>1. p \in Live(made) \ made.refs
      BY <1>1, FreshNodeHung, EditableOwns
    <2>2. Deref(made, name) \in Texts
      BY HeapAssumption DEF Deref
    <2>3. Strung(AttachNamedChild(made, p, name, n, b), {})
      BY <1>1, <1>2, <2>1, <2>2, AttachNamedStrung
    <2> QED BY <1>3, <2>3 DEF AddNewToObject
  <1>4. CASE AddNewFails(n, made)
    BY <1>1, <1>2, <1>4, FreeTreeStrung DEF AddNewFails
  <1> QED BY <1>3, <1>4

\* Detaching and deleting.
LEMMA RemoveStrung ==
  ASSUME "mutate_reference" \in Avoid, SoundNow, StrungNow, Remove
  PROVE  StrungNow'
  <1>0. Sound(heap, owned) /\ Strung(heap, {}) /\ heap \in Heap
    BY DEF SoundNow, StrungNow, Sound, TypeOKIn
  <1>1. ASSUME NEW x \in owned, Delete(x)
        PROVE  StrungNow'
    BY <1>0, <1>1, FreeTreeStrung DEF Delete, StrungNow
  <1>2. ASSUME NEW p \in Editable, NEW x \in Kids(heap, p),
               \/ DetachItemViaPointer(p, x)
               \/ \E which \in Indices : DetachItemFromArray(p, which, x)
               \/ \E which \in Indices : DeleteItemFromArray(p, which, x)
               \/ \E key \in Utf8, cs \in BOOLEAN : DetachItemFromObject(p, key, cs, x)
               \/ \E key \in Utf8, cs \in BOOLEAN : DeleteItemFromObject(p, key, cs, x)
        PROVE  StrungNow'
    <2> DEFINE cut == Detach(heap, p, x)
    <2>1. DetachItemViaPointer(p, x) \/ DetachAndFree(p, x)
      BY <1>2
      DEF DetachItemFromArray, DeleteItemFromArray, DetachItemFromObject, DeleteItemFromObject
    <2>2. Strung(cut, {})
      BY <1>0, SpliceAndCutLeaveStrings
    <2>3. Sound(cut, owned \cup {x}) /\ x \in owned \cup {x}
      BY <1>0, EditableOwns, DetachSound
    <2>4. CASE DetachItemViaPointer(p, x)
      BY <2>2, <2>4 DEF DetachItemViaPointer, StrungNow
    <2>5. CASE DetachAndFree(p, x)
      <3>1. MayFree(cut, x) /\ heap' = FreeTree(cut, x)
        BY <2>5 DEF DetachAndFree
      <3> HIDE DEF cut
      <3>2. Strung(FreeTree(cut, x), {})
        BY <2>2, <2>3, <3>1, FreeTreeStrung
      <3> QED BY <3>1, <3>2 DEF StrungNow
    <2> QED BY <2>1, <2>4, <2>5
  <1> QED BY <1>1, <1>2 DEF Remove

\* Replacing a kid by a root, unless that moves a borrowed key.
LEMMA ReplaceStrung ==
  ASSUME "mutate_reference" \in Avoid, "replace_const_key" \in Avoid, SoundNow, StrungNow, Replace
  PROVE  StrungNow'
  <1>1. PICK r \in owned : \E p \in Places(r) : \E x \in Kids(heap, p) :
                             MayReplace(x, r) /\ ReplaceItemViaPointer(p, x, r)
    BY DEF Replace, ReplaceItemInArray, ReplaceItemInObject
  <1>2. PICK p \in Places(r) : \E x \in Kids(heap, p) :
                             MayReplace(x, r) /\ ReplaceItemViaPointer(p, x, r)
    BY <1>1
  <1>3. PICK x \in Kids(heap, p) : MayReplace(x, r) /\ ReplaceItemViaPointer(p, x, r)
    BY <1>2
  <1> DEFINE placed == TakePlace(heap, p, x, r)
             S == (owned \ {r}) \cup {x}
  <1>4. Sound(heap, owned) /\ Strung(heap, {}) /\ p \in Live(heap) \ heap.refs
    BY EditableOwns DEF SoundNow, StrungNow, Places
  <1>5. Sound(placed, S) /\ x \in S
    BY <1>4, TakePlaceSound
  <1>6. Strung(placed, {})
    BY <1>3, <1>4, TakePlaceStrung DEF MayReplace
  <1>7. MayFree(placed, x) /\ heap' = FreeTree(placed, x)
    BY <1>3 DEF ReplaceItemViaPointer
  <1> HIDE DEF placed, S
  <1>8. Strung(FreeTree(placed, x), {})
    BY <1>5, <1>6, <1>7, FreeTreeStrung
  <1> QED BY <1>7, <1>8 DEF StrungNow

\* cJSON_SetValuestring.
LEMMA SetStringStrung ==
  ASSUME SoundNow, StrungNow, SetString
  PROVE  StrungNow'
  <1>1. PICK x \in Live(heap), s \in Pointers(heap), b \in FreeBufs : SetValuestring(x, s, b)
    BY DEF SetString
  <1> DEFINE c == NewText(heap, b, Deref(heap, s))
             g == [FreeText(c, heap.valuestring[x]) EXCEPT !.valuestring[x] = b]
  <1>2. /\ Sound(heap, owned) /\ Strung(heap, {}) /\ x \notin heap.refs
        /\ b \in Bufs \ LiveBufs(heap) /\ Deref(heap, s) \in Texts
        /\ \A w \in heap.refs : heap.valuestring[w] = NULL \/ heap.valuestring[w] # heap.valuestring[x]
    BY <1>1, HeapAssumption DEF SetValuestring, SoundNow, StrungNow, FreeBufs
  <1>3. /\ Strung(c, {} \cup {b}) /\ c.refs = heap.refs /\ c.valuestring = heap.valuestring
    BY <1>2, NewTextStrung
  <1>4. Keeps(heap, c, owned)
    BY <1>2, NewTextSound
  <1> HIDE DEF c
  <1>5. {} \cup {b} = {b} /\ {b} \ {b} = {}
    OBVIOUS
  <1>6. Strung(c, {b}) /\ Sound(c, owned) /\ x \in Live(c) \ c.refs
    BY <1>2, <1>3, <1>4, <1>5 DEF Keeps
  <1>7. Strung([FreeText(c, c.valuestring[x]) EXCEPT !.valuestring[x] = b], {b} \ {b})
    BY <1>2, <1>3, <1>6, ChangeValueStrung
  <1>8. Strung(g, {})
    BY <1>3, <1>5, <1>7
  <1> QED BY <1>1, <1>8 DEF SetValuestring, StrungNow, g, c

-----------------------------------------------------------------------------
(* Every call keeps each node in the tree of a root *)

ReachedNow == Reached(heap, owned)

\* The constructors, cJSON_Duplicate(item, 0) among them.
LEMMA CreateReached ==
  ASSUME SoundNow, ReachedNow, Create
  PROVE  ReachedNow'
  <1> SUFFICES ASSUME NEW n \in FreeNodes,
                      \/ \E t \in Types : CreateItem(t, n)
                      \/ \E t \in Types, s \in Utf8, b \in FreeBufs : CreateString(t, s, n, b)
                      \/ \E s \in Texts : CreateStringReference(s, n)
                      \/ \E t \in Types, c \in Live(heap) \cup {NULL} : CreateContainerReference(t, c, n)
                      \/ \E item \in Live(heap), bv, bk \in FreeBufs \cup {NULL} :
                           DuplicateShallow(item, n, bv, bk)
               PROVE  Reached(heap', owned')
    BY DEF Create, ReachedNow
  <1>1. /\ Sound(heap, owned) /\ Reached(heap, owned)
        /\ n \in Nodes \ Live(heap) /\ heap \in Heap
    BY DEF SoundNow, ReachedNow, FreeNodes, Sound, TypeOKIn
  <1>2. ASSUME NEW t \in Types, CreateItem(t, n)
        PROVE  Reached(heap', owned')
    <2>1. Adds(heap, NewNode(heap, n, t), n, owned)
      BY <1>1, NewNodeAdds DEF Allocates
    <2> QED BY <1>1, <1>2, <2>1, AddsReached DEF CreateItem
  <1>3. ASSUME NEW t \in Types, NEW s \in Utf8, NEW b \in FreeBufs, CreateString(t, s, n, b)
        PROVE  Reached(heap', owned')
    <2>1. Adds(heap, StringItem(heap, t, s, n, b), n, owned)
      BY <1>1, <1>3, StringItemAdds, HeapAssumption DEF CreateString, FreeBufs
    <2> QED BY <1>1, <1>3, <2>1, AddsReached DEF CreateString
  <1>4. ASSUME NEW s \in Texts, CreateStringReference(s, n)
        PROVE  Reached(heap', owned')
    <2> DEFINE g == NewReference(heap, n, "String")
    <2>1. Adds(heap, g, n, owned) /\ g.type[n] = "String"
      BY <1>1, NewNodeAdds DEF Allocates, Types
    <2> HIDE DEF g
    <2>2. Sound(g, owned \cup {n}) /\ Reached(g, owned \cup {n})
      BY <1>1, <2>1, AddsReached DEF Adds
    <2>3. Keeps(g, [g EXCEPT !.valuestring[n] = s], owned \cup {n})
      BY <2>1, SetValueSound DEF Adds, Strings
    <2>4. Reached([g EXCEPT !.valuestring[n] = s], owned \cup {n})
      BY <2>2, <2>3, KeepsReached
    <2> QED BY <1>4, <2>4 DEF CreateStringReference, g
  <1>5. ASSUME NEW t \in Types, NEW c \in Live(heap) \cup {NULL}, CreateContainerReference(t, c, n)
        PROVE  Reached(heap', owned')
    <2> DEFINE g == NewReference(heap, n, t)
    <2>1. Adds(heap, g, n, owned) /\ g.type[n] = t /\ t \in Containers
      BY <1>1, <1>5, NewNodeAdds DEF Allocates, CreateContainerReference
    <2>2. n \in g.refs
      BY <1>1 DEF NewReference, Heap
    <2> HIDE DEF g
    <2>3. Sound(g, owned \cup {n}) /\ Reached(g, owned \cup {n})
      BY <1>1, <2>1, AddsReached DEF Adds
    <2>4. Keeps(g, [g EXCEPT !.child[n] = c], owned \cup {n})
      BY <2>1, <2>2, PointReferenceSound DEF Adds
    <2>5. Reached([g EXCEPT !.child[n] = c], owned \cup {n})
      BY <2>3, <2>4, KeepsReached
    <2> QED BY <1>5, <2>5 DEF CreateContainerReference, g
  <1>6. ASSUME NEW item \in Live(heap), NEW bv \in FreeBufs \cup {NULL}, NEW bk \in FreeBufs \cup {NULL},
               DuplicateShallow(item, n, bv, bk)
        PROVE  Reached(heap', owned')
    <2>1. Adds(heap, CopyNode(heap, n, item, bv, bk), n, owned)
      BY <1>1, <1>6, CopyAdds DEF DuplicateShallow, FreeBufs
    <2> QED BY <1>1, <1>6, <2>1, AddsReached DEF DuplicateShallow
  <1> QED BY <1>2, <1>3, <1>4, <1>5, <1>6

\* Adding and inserting a root, never below itself.
LEMMA AdoptReached ==
  ASSUME "mutate_reference" \in Avoid, SoundNow, ReachedNow, Adopt
  PROVE  ReachedNow'
  <1> SUFFICES ASSUME NEW x \in owned, NEW p \in Places(x),
                      \/ AddItemToArray(p, x)
                      \/ \E name \in Pointers(heap), b \in FreeBufs : AddItemToObject(p, name, x, b)
                      \/ \E name \in Texts : AddItemToObjectCS(p, name, x)
                      \/ \E which \in Indices : InsertItemPastEnd(p, which, x)
                      \/ \E at \in Kids(heap, p), which \in Indices :
                           InsertItemInArray(p, which, x, at)
               PROVE  Reached(heap', owned')
    BY DEF Adopt, ReachedNow
  <1>1. /\ Sound(heap, owned) /\ Reached(heap, owned)
        /\ x \in Live(heap) /\ heap.consts \subseteq Live(heap) /\ heap \in Heap
    BY DEF SoundNow, ReachedNow, Sound, TypeOKIn
  <1>2. p \in Live(heap) \ heap.refs /\ p \notin Subtree(heap, x)
    BY EditableOwns DEF Places
  <1>3. ASSUME AddItemToArray(p, x)
        PROVE  Reached(heap', owned')
    BY <1>1, <1>2, <1>3, AttachChildReached DEF AddItemToArray
  <1>4. ASSUME NEW name \in Pointers(heap), NEW b \in FreeBufs, AddItemToObject(p, name, x, b)
        PROVE  Reached(heap', owned')
    BY <1>1, <1>2, <1>4, AttachNamedReached, HeapAssumption DEF AddItemToObject, FreeBufs
  <1>5. ASSUME NEW name \in Texts, AddItemToObjectCS(p, name, x)
        PROVE  Reached(heap', owned')
    <2> DEFINE f == FreeKey(heap, x)
               C == f.consts \cup {x}
               k == [f EXCEPT !.consts = C, !.string[x] = name]
    <2>1. C \in SUBSET Live(heap)
      BY <1>1, FreeTextSound DEF FreeKey, Keeps, Sound, TypeOKIn
    <2>2. name \in Bufs \cup Texts \cup {NULL}
      OBVIOUS
    <2>3. f \in Heap /\ f.child = heap.child
      BY <1>1 DEF FreeKey, FreeText, Blank, Heap
    <2> HIDE DEF C
    <2>4. Keeps(heap, k, owned)
      BY <1>1, <2>1, <2>2, RekeySound, Zenon
    <2> HIDE DEF f
    <2>5. k.child = heap.child
      BY <2>3 DEF Heap
    <2> HIDE DEF k
    <2>6. Subtree(k, x) = Subtree(heap, x) /\ Reached(k, owned)
      BY <1>1, <2>4, <2>5, SameListsSameSubtree, KeepsReached DEF Keeps
    <2>7. Reached(AttachChild(k, p, x), owned \ {x})
      BY <1>2, <2>4, <2>6, AttachChildReached DEF Keeps
    <2> QED BY <1>5, <2>7 DEF AddItemToObjectCS, k, C, f
  <1>6. ASSUME NEW at \in Kids(heap, p), NEW which \in Indices, InsertItemInArray(p, which, x, at)
        PROVE  Reached(heap', owned')
    BY <1>1, <1>2, <1>6, SpliceBeforeReached DEF InsertItemInArray
  <1> QED BY <1>3, <1>4, <1>5, <1>6 DEF InsertItemPastEnd

\* A fresh node is outside every other tree, and the roots are reached with it.
LEMMA FreshNodeReached ==
  ASSUME NEW g, NEW n \in FreeNodes, SoundNow, ReachedNow, Adds(heap, g, n, owned),
         NEW p \in Live(heap) \ heap.refs
  PROVE  Reached(g, owned \cup {n}) /\ p \notin Subtree(g, n)
  <1>1. Reached(g, owned \cup {n})
    BY AddsReached DEF SoundNow, ReachedNow
  <1>2. Subtree(g, n) = {n} /\ n # p
    BY SubtreeOfLeaf DEF Adds, FreeNodes
  <1> QED BY <1>1, <1>2

\* Adding a reference, and failing to.
LEMMA AddReferenceReached ==
  ASSUME "mutate_reference" \in Avoid, SoundNow, ReachedNow, AddReference
  PROVE  ReachedNow'
  <1> SUFFICES ASSUME NEW p \in Live(heap) \ heap.refs, NEW item \in Live(heap), NEW r \in FreeNodes,
                      \/ AddItemReferenceToArray(p, item, r)
                      \/ \E name \in Utf8, b \in FreeBufs :
                           AddItemReferenceToObject(p, name, item, r, b)
                      \/ AddItemReferenceFails(p, item, r)
               PROVE  Reached(heap', owned')
    BY EditableOwns DEF AddReference, ReachedNow
  <1> DEFINE g == WrapAsReference(heap, r, item)
             S == owned \cup {r}
  <1>1. Adds(heap, g, r, owned)
    BY WrapAdds DEF SoundNow, FreeNodes
  <1> HIDE DEF g
  <1>2. /\ Sound(g, S) /\ Reached(g, S) /\ r \in S /\ p \in Live(g) \ g.refs
        /\ p \notin Subtree(g, r) /\ S \ {r} = owned
    BY <1>1, FreshNodeHung, FreshNodeReached
  <1> HIDE DEF S
  <1>3. CASE AddItemReferenceToArray(p, item, r)
    <2>1. Reached(AttachChild(g, p, r), S \ {r})
      BY <1>2, AttachChildReached
    <2> QED BY <1>2, <1>3, <2>1 DEF AddItemReferenceToArray, g
  <1>4. ASSUME NEW name \in Utf8, NEW b \in FreeBufs, AddItemReferenceToObject(p, name, item, r, b)
        PROVE  Reached(heap', owned')
    <2>1. Deref(g, name) \in Texts /\ b \in Bufs
      BY <1>4, HeapAssumption DEF Deref, FreeBufs
    <2>2. Reached(AttachNamedChild(g, p, name, r, b), S \ {r})
      BY <1>2, <2>1, AttachNamedReached
    <2> QED BY <1>2, <1>4, <2>2 DEF AddItemReferenceToObject, g
  <1>5. CASE AddItemReferenceFails(p, item, r)
    <2>1. Reached(FreeTree(g, r), owned)
      BY <1>1, FreeFreshReached DEF FreeNodes, SoundNow, ReachedNow
    <2> QED BY <1>5, <2>1 DEF AddItemReferenceFails, g
  <1> QED BY <1>3, <1>4, <1>5

\* cJSON_Add<type>ToObject, and its failure.
LEMMA AddNewReached ==
  ASSUME "mutate_reference" \in Avoid, SoundNow, ReachedNow, AddNew
  PROVE  ReachedNow'
  <1> SUFFICES ASSUME NEW n \in FreeNodes, NEW made \in NewItems(n),
                      \/ \E p \in Editable, name \in Utf8, b \in Bufs \ LiveBufs(made) :
                           AddNewToObject(p, name, n, made, b)
                      \/ AddNewFails(n, made)
               PROVE  Reached(heap', owned')
    BY DEF AddNew, ReachedNow
  <1> DEFINE S == owned \cup {n}
  <1>1. Adds(heap, made, n, owned)
    BY NewItemsAdd
  <1>2. ASSUME NEW p \in Editable, NEW name \in Utf8, NEW b \in Bufs \ LiveBufs(made),
               AddNewToObject(p, name, n, made, b)
        PROVE  Reached(heap', owned')
    <2>1. /\ Sound(made, S) /\ Reached(made, S) /\ n \in S /\ p \in Live(made) \ made.refs
          /\ p \notin Subtree(made, n) /\ S \ {n} = owned
      BY <1>1, FreshNodeHung, FreshNodeReached, EditableOwns
    <2> HIDE DEF S
    <2>2. Deref(made, name) \in Texts
      BY HeapAssumption DEF Deref
    <2>3. Reached(AttachNamedChild(made, p, name, n, b), S \ {n})
      BY <2>1, <2>2, AttachNamedReached
    <2> QED BY <1>2, <2>1, <2>3 DEF AddNewToObject
  <1>3. CASE AddNewFails(n, made)
    BY <1>1, <1>3, FreeFreshReached DEF AddNewFails, FreeNodes, SoundNow, ReachedNow
  <1> QED BY <1>2, <1>3

\* Detaching and deleting.
LEMMA RemoveReached ==
  ASSUME "mutate_reference" \in Avoid, SoundNow, ReachedNow, Remove
  PROVE  ReachedNow'
  <1>0. Sound(heap, owned) /\ Reached(heap, owned)
    BY DEF SoundNow, ReachedNow
  <1>1. ASSUME NEW x \in owned, Delete(x)
        PROVE  ReachedNow'
    BY <1>0, <1>1, FreeTreeReached DEF Delete, ReachedNow
  <1>2. ASSUME NEW p \in Editable, NEW x \in Kids(heap, p),
               \/ DetachItemViaPointer(p, x)
               \/ \E which \in Indices : DetachItemFromArray(p, which, x)
               \/ \E which \in Indices : DeleteItemFromArray(p, which, x)
               \/ \E key \in Utf8, cs \in BOOLEAN : DetachItemFromObject(p, key, cs, x)
               \/ \E key \in Utf8, cs \in BOOLEAN : DeleteItemFromObject(p, key, cs, x)
        PROVE  ReachedNow'
    <2> DEFINE cut == Detach(heap, p, x)
               S == owned \cup {x}
    <2>1. DetachItemViaPointer(p, x) \/ DetachAndFree(p, x)
      BY <1>2
      DEF DetachItemFromArray, DeleteItemFromArray, DetachItemFromObject, DeleteItemFromObject
    <2>2. p \in Live(heap) \ heap.refs
      BY EditableOwns
    <2>3. Sound(cut, S) /\ Reached(cut, S) /\ x \in S /\ S \ {x} = owned
      BY <1>0, <2>2, DetachSound, DetachReached, KidsAreKids
    <2>4. CASE DetachItemViaPointer(p, x)
      BY <2>3, <2>4 DEF DetachItemViaPointer, ReachedNow
    <2>5. CASE DetachAndFree(p, x)
      <3>1. heap' = FreeTree(cut, x) /\ owned' = owned
        BY <2>5 DEF DetachAndFree
      <3> HIDE DEF cut, S
      <3>2. Reached(FreeTree(cut, x), S \ {x})
        BY <2>3, FreeTreeReached
      <3> QED BY <2>3, <3>1, <3>2 DEF ReachedNow
    <2> QED BY <2>1, <2>4, <2>5
  <1> QED BY <1>1, <1>2 DEF Remove

\* Replacing a kid by a root: the kid's whole tree goes, nothing else does.
LEMMA ReplaceReached ==
  ASSUME "mutate_reference" \in Avoid, SoundNow, ReachedNow, Replace
  PROVE  ReachedNow'
  <1>1. PICK r \in owned : \E p \in Places(r) : \E x \in Kids(heap, p) : ReplaceItemViaPointer(p, x, r)
    BY DEF Replace, ReplaceItemInArray, ReplaceItemInObject
  <1>2. PICK p \in Places(r) : \E x \in Kids(heap, p) : ReplaceItemViaPointer(p, x, r)
    BY <1>1
  <1>3. PICK x \in Kids(heap, p) : ReplaceItemViaPointer(p, x, r)
    BY <1>2
  <1> DEFINE placed == TakePlace(heap, p, x, r)
             S == (owned \ {r}) \cup {x}
  <1>4. /\ Sound(heap, owned) /\ Reached(heap, owned)
        /\ p \in Live(heap) \ heap.refs /\ p \notin Subtree(heap, r)
    BY EditableOwns DEF SoundNow, ReachedNow, Places
  <1>5. Sound(placed, S) /\ Reached(placed, S) /\ x \in S /\ S \ {x} = owned \ {r}
    BY <1>4, TakePlaceSound, TakePlaceReached, KidsAreKids
  <1>6. heap' = FreeTree(placed, x) /\ owned' = owned \ {r}
    BY <1>3 DEF ReplaceItemViaPointer
  <1> HIDE DEF placed, S
  <1>7. Reached(FreeTree(placed, x), S \ {x})
    BY <1>5, FreeTreeReached
  <1> QED BY <1>5, <1>6, <1>7 DEF ReachedNow

\* cJSON_SetValuestring leaves the lists alone.
LEMMA SetStringReached ==
  ASSUME SoundNow, ReachedNow, SetString
  PROVE  ReachedNow'
  <1>1. PICK x \in Live(heap), s \in Pointers(heap), b \in FreeBufs : SetValuestring(x, s, b)
    BY DEF SetString
  <1>2. heap \in Heap
    BY DEF SoundNow, Sound, TypeOKIn
  <1>3. /\ heap'.type = heap.type /\ heap'.refs = heap.refs
        /\ heap'.next = heap.next /\ heap'.child = heap.child /\ owned' = owned
    BY <1>1, <1>2 DEF SetValuestring, NewText, FreeText, Heap
  <1> QED BY <1>3, SameListsReached DEF ReachedNow

-----------------------------------------------------------------------------
(* The theorems *)

\* No nodes: nothing to be wrong.
LEMMA InitSound == Init => SoundNow
  <1> SUFFICES ASSUME Init PROVE SoundNow
    OBVIOUS
  <1>1. heap = EmptyHeap /\ owned = {} /\ EmptyHeap \in Heap
    BY DEF Init, EmptyHeap, Heap
  <1>2. Live(EmptyHeap) = {}
    BY DEF EmptyHeap, Live
  <1> QED BY <1>1, <1>2
       DEF SoundNow, Sound, TypeOKIn, Links, LinksLiveIn, DoublyLinkedIn, OwnersIn, EmptyHeap

\* No call, and no stuttering, makes a sound heap unsound.
LEMMA StepSound ==
  ASSUME "mutate_reference" \in Avoid, SoundNow, [Next]_vars
  PROVE  SoundNow'
  <1>1. CASE Next
    BY <1>1, CreateSound, AdoptSound, AddReferenceSound, AddNewSound, RemoveSound, ReplaceSound,
       SetStringSound
    DEF Next
  <1>2. CASE UNCHANGED vars
    BY <1>2 DEF vars, SoundNow
  <1> QED BY <1>1, <1>2

\* Whatever calls a caller makes that does not edit the list of a reference,
\* the heap stays sound: the inductive invariant of the theorems below.
THEOREM HeapStaysSound ==
  ASSUME "mutate_reference" \in Avoid
  PROVE  Spec => []SoundNow
  <1>1. Init => SoundNow
    BY InitSound
  <1>2. SoundNow /\ [Next]_vars => SoundNow'
    BY StepSound
  <1> QED BY <1>1, <1>2, PTL DEF Spec

\* The fields of the nodes keep their types, a freed node holds nothing, only
\* containers have children and only strings a valuestring.
THEOREM FieldsKeepTypes ==
  ASSUME "mutate_reference" \in Avoid
  PROVE  Spec => []TypeOK
  <1>1. SoundNow => TypeOK
    BY DEF SoundNow, Sound, TypeOK
  <1> QED BY <1>1, HeapStaysSound, PTL

\* After every attach, splice, detach and replacement next and prev mirror
\* each other.
THEOREM ListsStayDoublyLinked ==
  ASSUME "mutate_reference" \in Avoid
  PROVE  Spec => []DoublyLinked
  <1>1. SoundNow => DoublyLinked
    BY DEF SoundNow, Sound, Links, DoublyLinked
  <1> QED BY <1>1, HeapStaysSound, PTL

\* No next, prev or child pointer of a live node, reference or not, leads to a
\* node that was freed: the half of NoDangling that is about nodes.
THEOREM NoDanglingLink ==
  ASSUME "mutate_reference" \in Avoid
  PROVE  Spec => []LinksLiveIn(heap)
  <1>1. SoundNow => LinksLiveIn(heap)
    BY DEF SoundNow, Sound, Links
  <1> QED BY <1>1, HeapStaysSound, PTL

\* Every node is freed by exactly one party: the caller, the one parent that
\* heads its list with it, or its left neighbour.
THEOREM EveryNodeHasOneOwner ==
  ASSUME "mutate_reference" \in Avoid
  PROVE  Spec => []OneOwner
  <1>1. SoundNow => OneOwner
    BY SoundHasOneOwner DEF SoundNow, OneOwner
  <1> QED BY <1>1, HeapStaysSound, PTL

\* Both invariants of the strings' theorems, kept by every call.
SoundAndStrung == SoundNow /\ StrungNow

\* An empty heap holds no buffer.
LEMMA InitStrung == Init => SoundAndStrung
  <1> SUFFICES ASSUME Init PROVE SoundAndStrung
    OBVIOUS
  <1>1. heap = EmptyHeap
    BY DEF Init
  <1>2. Live(EmptyHeap) = {} /\ LiveBufs(EmptyHeap) = {}
    BY DEF EmptyHeap, Live, LiveBufs
  <1>3. StrungNow
    BY <1>1, <1>2 DEF StrungNow, Strung, HeldIn, BorrowedIn, EmptyHeap
  <1> QED BY <1>3, InitSound DEF SoundAndStrung

\* One case per group of calls.
LEMMA StepStrung ==
  ASSUME "mutate_reference" \in Avoid, "replace_const_key" \in Avoid, SoundAndStrung, [Next]_vars
  PROVE  SoundAndStrung'
  <1>1. SoundNow'
    BY StepSound DEF SoundAndStrung
  <1>2. CASE Next
    <2>1. StrungNow'
      BY <1>2, CreateStrung, AdoptStrung, AddReferenceStrung, AddNewStrung, RemoveStrung,
         ReplaceStrung, SetStringStrung
      DEF Next, SoundAndStrung
    <2> QED BY <1>1, <2>1 DEF SoundAndStrung
  <1>3. CASE UNCHANGED vars
    BY <1>1, <1>3 DEF vars, SoundAndStrung, StrungNow
  <1> QED BY <1>2, <1>3

\* Whatever calls a caller makes that keeps to the whole contract, the values
\* and keys hold each buffer once and borrow nothing that can go away: the
\* inductive invariant of the two theorems below.
THEOREM StringsStayHeld ==
  ASSUME "mutate_reference" \in Avoid, "replace_const_key" \in Avoid
  PROVE  Spec => []SoundAndStrung
  <1>1. Init => SoundAndStrung
    BY InitStrung
  <1>2. SoundAndStrung /\ [Next]_vars => SoundAndStrung'
    BY StepStrung
  <1> QED BY <1>1, <1>2, PTL DEF Spec

\* hook_free gets each string buffer exactly once: the values of nodes that are
\* not references and the keys that are not const hold each live buffer once,
\* and never a string of the caller's.
THEOREM EveryStringOwnedOnce ==
  ASSUME "mutate_reference" \in Avoid, "replace_const_key" \in Avoid
  PROVE  Spec => []StringsOwnedOnce
  <1>1. SoundAndStrung => StringsOwnedOnce
    BY StrungOwnsOnce DEF SoundAndStrung, StrungNow, StringsOwnedOnce
  <1> QED BY <1>1, StringsStayHeld, PTL

\* No link, value or key of a live node, reference or not, points at memory that
\* free_cjson, a change of key or cJSON_SetValuestring has freed.
THEOREM NothingDangles ==
  ASSUME "mutate_reference" \in Avoid, "replace_const_key" \in Avoid
  PROVE  Spec => []NoDangling
  <1>1. SoundAndStrung => NoDangling
    BY StrungLives DEF SoundAndStrung, StrungNow, SoundNow, Sound, Links, NoDangling
  <1> QED BY <1>1, StringsStayHeld, PTL

\* Both invariants of NothingLeaks, kept by every call.
SoundAndReached == SoundNow /\ ReachedNow

\* An empty heap has no node to reach.
LEMMA InitReached == Init => SoundAndReached
  <1> SUFFICES ASSUME Init PROVE SoundAndReached
    OBVIOUS
  <1>1. Live(heap) = {}
    BY DEF Init, EmptyHeap, Live
  <1>2. ReachedNow
    BY <1>1 DEF ReachedNow, Reached
  <1> QED BY <1>2, InitSound DEF SoundAndReached

\* One case per group of calls.
LEMMA StepReached ==
  ASSUME "mutate_reference" \in Avoid, SoundAndReached, [Next]_vars
  PROVE  SoundAndReached'
  <1>1. SoundNow'
    BY StepSound DEF SoundAndReached
  <1>2. CASE Next
    <2>1. ReachedNow'
      BY <1>2, CreateReached, AdoptReached, AddReferenceReached, AddNewReached, RemoveReached,
         ReplaceReached, SetStringReached
      DEF Next, SoundAndReached
    <2> QED BY <1>1, <2>1 DEF SoundAndReached
  <1>3. CASE UNCHANGED vars
    BY <1>1, <1>3 DEF vars, SoundAndReached, ReachedNow
  <1> QED BY <1>2, <1>3

\* cJSON_Delete of the roots would free every node: no call that adds, splices,
\* detaches, replaces or fails halfway loses a node or ties a cycle no root
\* reaches.
THEOREM NothingLeaks ==
  ASSUME "mutate_reference" \in Avoid
  PROVE  Spec => []NoLeak
  <1>1. Init => SoundAndReached
    BY InitReached
  <1>2. SoundAndReached /\ [Next]_vars => SoundAndReached'
    BY StepReached
  <1>3. SoundAndReached => NoLeak
    BY ReachedIsInTrees DEF SoundAndReached, SoundNow, ReachedNow, NoLeak
  <1> QED BY <1>1, <1>2, <1>3, PTL DEF Spec

-----------------------------------------------------------------------------
(* Sequences with an element more or less *)

\* InsertAt moves what stands from the index on up by one.
LEMMA Inserted ==
  ASSUME NEW S, NEW s \in Seq(S), NEW at \in 1 .. Len(s) + 1, NEW e \in S
  PROVE  LET t == Forest!InsertAt(s, at, e)
         IN /\ t \in Seq(S) /\ Len(t) = Len(s) + 1
            /\ \A i \in 1 .. Len(t) : t[i] = IF i < at THEN s[i] ELSE IF i = at THEN e ELSE s[i - 1]
  <1> DEFINE u == SubSeq(s, 1, at - 1)
             v == SubSeq(s, at, Len(s))
             w == u \o <<e>>
             t == w \o v
  <1>1. /\ u \in Seq(S) /\ Len(u) = at - 1 /\ \A i \in 1 .. at - 1 : u[i] = s[i]
        /\ v \in Seq(S) /\ Len(v) = Len(s) - at + 1 /\ \A i \in 1 .. Len(v) : v[i] = s[at + i - 1]
    BY SubSeqProperties
  <1> HIDE DEF u, v
  <1>2. /\ w \in Seq(S) /\ Len(w) = at /\ \A i \in 1 .. at - 1 : w[i] = s[i]
        /\ w[at] = e
    <2>1. <<e>> \in Seq(S) /\ Len(<<e>>) = 1 /\ <<e>>[1] = e
      OBVIOUS
    <2>2. /\ w \in Seq(S) /\ Len(w) = at
          /\ \A i \in 1 .. at : w[i] = IF i <= at - 1 THEN u[i] ELSE <<e>>[i - (at - 1)]
      <3>1. /\ w \in Seq(S) /\ Len(w) = Len(u) + Len(<<e>>)
            /\ \A i \in 1 .. Len(u) + Len(<<e>>) :
                 w[i] = IF i <= Len(u) THEN u[i] ELSE <<e>>[i - Len(u)]
        BY <1>1, <2>1, ConcatProperties
      <3>2. Len(u) = at - 1 /\ Len(<<e>>) = 1 /\ Len(u) + Len(<<e>>) = at
        BY <1>1, <2>1
      <3> DEFINE one == <<e>>
      <3> HIDE DEF w, one
      <3>3. /\ w \in Seq(S) /\ Len(w) = at
            /\ \A i \in 1 .. at : w[i] = IF i <= at - 1 THEN u[i] ELSE one[i - (at - 1)]
        BY <3>1, <3>2 DEF one
      <3> QED BY <3>3 DEF one
    <2> HIDE DEF w
    <2>3. at - (at - 1) = 1 /\ at \in 1 .. at /\ ~(at <= at - 1) /\ at \in Nat
      OBVIOUS
    <2>4. w[at] = <<e>>[at - (at - 1)]
      BY <2>2, <2>3
    <2>5. w[at] = e
      BY <2>1, <2>3, <2>4
    <2>6. \A i \in 1 .. at - 1 : i \in 1 .. at /\ i <= at - 1
      BY <2>3
    <2>7. \A i \in 1 .. at - 1 : w[i] = s[i]
      BY <1>1, <2>2, <2>6
    <2> QED BY <2>2, <2>5, <2>7
  <1> HIDE DEF w
  <1>3. /\ t \in Seq(S) /\ Len(t) = Len(s) + 1 /\ \A i \in 1 .. at : t[i] = w[i]
        /\ \A i \in at + 1 .. Len(s) + 1 : t[i] = v[i - at]
    <2>1. /\ t \in Seq(S) /\ Len(t) = Len(w) + Len(v)
          /\ \A i \in 1 .. Len(w) + Len(v) : t[i] = IF i <= Len(w) THEN w[i] ELSE v[i - Len(w)]
      BY <1>1, <1>2, ConcatProperties
    <2> HIDE DEF t
    <2> QED BY <1>1, <1>2, <2>1
  <1>4. \A i \in at + 1 .. Len(s) + 1 : t[i] = s[i - 1]
    <2> SUFFICES ASSUME NEW i \in at + 1 .. Len(s) + 1 PROVE t[i] = s[i - 1]
      OBVIOUS
    <2>1. i - at \in 1 .. Len(v) /\ at + (i - at) - 1 = i - 1
      BY <1>1
    <2>2. v[i - at] = s[at + (i - at) - 1]
      BY <1>1, <2>1
    <2> QED BY <1>3, <2>1, <2>2
  <1> HIDE DEF t
  <1>5. Forest!InsertAt(s, at, e) = t
    BY DEF Forest!InsertAt, t, u, v, w
  <1> QED BY <1>2, <1>3, <1>4, <1>5

\* RemoveAt moves what stands behind the index down by one.
LEMMA Removed ==
  ASSUME NEW S, NEW s \in Seq(S), NEW at \in 1 .. Len(s)
  PROVE  LET t == Forest!RemoveAt(s, at)
         IN /\ t \in Seq(S) /\ Len(t) = Len(s) - 1
            /\ \A i \in 1 .. Len(t) : t[i] = IF i < at THEN s[i] ELSE s[i + 1]
  <1> DEFINE u == SubSeq(s, 1, at - 1)
             v == SubSeq(s, at + 1, Len(s))
             t == u \o v
  <1>1. /\ u \in Seq(S) /\ Len(u) = at - 1 /\ \A i \in 1 .. at - 1 : u[i] = s[i]
        /\ v \in Seq(S) /\ Len(v) = Len(s) - at /\ \A i \in 1 .. Len(v) : v[i] = s[at + 1 + i - 1]
    BY SubSeqProperties
  <1> HIDE DEF u, v
  <1>2. /\ t \in Seq(S) /\ Len(t) = Len(s) - 1 /\ \A i \in 1 .. at - 1 : t[i] = s[i]
        /\ \A i \in at .. Len(s) - 1 : t[i] = v[i - (at - 1)]
    <2>1. /\ t \in Seq(S) /\ Len(t) = Len(u) + Len(v)
          /\ \A i \in 1 .. Len(u) + Len(v) : t[i] = IF i <= Len(u) THEN u[i] ELSE v[i - Len(u)]
      BY <1>1, ConcatProperties
    <2>2. Len(s) \in Nat /\ Len(u) + Len(v) = Len(s) - 1 /\ Len(u) = at - 1
      BY <1>1
    <2> HIDE DEF t
    <2>4. \A i \in at .. Len(s) - 1 : i \in 1 .. Len(s) - 1 /\ ~(i <= at - 1)
      BY <2>2
    <2>5. \A i \in 1 .. Len(s) - 1 : t[i] = IF i <= at - 1 THEN u[i] ELSE v[i - (at - 1)]
      BY <2>1, <2>2
    <2>a. \A i \in 1 .. at - 1 : i \in 1 .. Len(s) - 1 /\ i <= at - 1 /\ u[i] = s[i]
      BY <1>1, <2>2
    <2>3. \A i \in 1 .. at - 1 : t[i] = s[i]
      BY <2>5, <2>a
    <2>6. \A i \in at .. Len(s) - 1 : t[i] = v[i - (at - 1)]
      BY <2>4, <2>5
    <2> QED BY <2>1, <2>2, <2>3, <2>6
  <1>3. \A i \in at .. Len(s) - 1 : t[i] = s[i + 1]
    <2> SUFFICES ASSUME NEW i \in at .. Len(s) - 1 PROVE t[i] = s[i + 1]
      OBVIOUS
    <2>1. i - (at - 1) \in 1 .. Len(v) /\ at + 1 + (i - (at - 1)) - 1 = i + 1
      BY <1>1
    <2>2. v[i - (at - 1)] = s[at + 1 + (i - (at - 1)) - 1]
      BY <1>1, <2>1
    <2> QED BY <1>2, <2>1, <2>2
  <1> HIDE DEF t
  <1>4. Forest!RemoveAt(s, at) = t
    BY DEF Forest!RemoveAt, t, u, v
  <1> QED BY <1>2, <1>3, <1>4

\* To append is to insert past the last element.
LEMMA AppendInserts ==
  ASSUME NEW S, NEW s \in Seq(S), NEW e \in S, NEW at \in 1 .. Len(s) + 1, at = Len(s) + 1
  PROVE  Append(s, e) = Forest!InsertAt(s, at, e)
  <1> DEFINE t == Forest!InsertAt(s, at, e)
             a == Append(s, e)
  <1>1. /\ t \in Seq(S) /\ Len(t) = Len(s) + 1
        /\ \A i \in 1 .. Len(t) : t[i] = IF i < at THEN s[i] ELSE IF i = at THEN e ELSE s[i - 1]
    BY Inserted
  <1>2. /\ a \in Seq(S) /\ Len(a) = Len(s) + 1
        /\ \A i \in 1 .. Len(s) : a[i] = s[i]
        /\ a[Len(s) + 1] = e
    BY AppendProperties
  <1> HIDE DEF t, a
  <1>3. \A i \in 1 .. Len(t) : t[i] = a[i]
    BY <1>1, <1>2
  <1>4. a = t
    BY <1>1, <1>2, <1>3, SeqEqual
  <1> QED BY <1>4 DEF t, a

-----------------------------------------------------------------------------
(* The lists of a heap *)

\* Those of h, but s for p.
ListChanged(h, p, s) == [Lists(h) EXCEPT ![p] = s]

\* g is sound, its roots reach every node, and its lists are l.
ListsAre(g, Q, l) == Whole(g, Q) /\ Lists(g) = l

\* A change among the kids of p, and of roots, is one to the list of p.
LEMMA OneListChanges ==
  ASSUME NEW h, NEW R, Whole(h, R), NEW g, NEW Q, Whole(g, Q), g.refs = h.refs,
         NEW p \in Live(h) \ h.refs, NEW s, Chain(g, g.child[p], s),
         \A q \in Nodes \ {p} : g.child[q] = h.child[q],
         \A m \in Live(h) \ (R \cup Kids(h, p)) : g.next[m] = h.next[m]
  PROVE  Lists(g) = ListChanged(h, p, s)
  <1>1. h \in Heap /\ g \in Heap /\ Ends(h) /\ Ends(g)
    BY ListsEnd DEF Whole, Sound, TypeOKIn
  <1>2. KidSeq(g, p) = s
    <2>1. p \in Nodes
      BY DEF Live
    <2> QED BY <2>1, KidList, ChainUnique
  <1>3. ASSUME NEW q \in Nodes \ {p}, q \notin h.refs
        PROVE  KidSeq(g, q) = KidSeq(h, q)
    <2> DEFINE t == KidSeq(h, q)
    <2>1. Chain(h, h.child[q], t) /\ Met(t) = Kids(h, q)
      BY <1>3, KidList
    <2>2. \A m \in Kids(h, q) : g.next[m] = h.next[m]
      <3>1. CASE q \in Live(h)
        BY <1>3, <3>1, KidsApart, KidsAreKids DEF Whole
      <3>2. CASE q \notin Live(h)
        BY <1>3, <3>2 DEF Kids, Whole, Sound, TypeOKIn
      <3> QED BY <3>1, <3>2
    <2> HIDE DEF t
    <2>3. Chain(g, g.child[q], t)
      BY <1>3, <2>1, <2>2 DEF Chain, Met
    <2>4. Chain(g, g.child[q], KidSeq(g, q))
      BY <1>3, KidList
    <2> QED BY <2>3, <2>4, ChainUnique DEF t
  <1>4. Lists(g) = [n \in Nodes |-> IF n = p THEN s ELSE Lists(h)[n]]
    BY <1>2, <1>3 DEF Lists
  <1> QED BY <1>4 DEF Lists, ListChanged

\* A fresh root brings no kids.
LEMMA AddsLists ==
  ASSUME NEW h, NEW R, Whole(h, R), NEW n \in Nodes, NEW g, Adds(h, g, n, R)
  PROVE  ListsAre(g, R \cup {n}, Lists(h))
  <1>1. Whole(g, R \cup {n})
    BY AddsReached DEF Whole, Adds
  <1>2. ASSUME NEW q \in Nodes \ h.refs, q # n
        PROVE  KidSeq(g, q) = KidSeq(h, q)
    <2>1. CASE q \in Live(h)
      <3>1. g.child[q] = h.child[q] /\ \A m \in Kids(h, q) : g.next[m] = h.next[m]
        BY <1>2, <2>1, KidsAreKids DEF Adds, Whole
      <3> QED BY <1>1, <3>1, KidSeqStays
    <2>2. CASE q \notin Live(h)
      <3>1. h.child[q] = NULL /\ g.child[q] = NULL
        BY <1>2, <2>2 DEF Adds, Whole, Sound, TypeOKIn
      <3> QED BY <1>1, <3>1, NoKids
    <2> QED BY <2>1, <2>2
  <1>3. n \notin h.refs /\ KidSeq(h, n) = <<>>
    <2>1. n \notin h.refs /\ h.child[n] = NULL
      BY DEF Adds, Whole, Sound, TypeOKIn
    <2> QED BY <2>1, NoKids
  <1>4. n \in g.refs \/ KidSeq(g, n) = <<>>
    BY <1>1, NoKids DEF Adds
  <1>5. \A q \in Nodes \ {n} : q \in g.refs <=> q \in h.refs
    BY DEF Adds
  <1> QED BY <1>1, <1>2, <1>3, <1>4, <1>5 DEF Lists, ListsAre

\* Strings have no part in the lists.
LEMMA KeepsLists ==
  ASSUME NEW h, NEW R, Whole(h, R), NEW g, Keeps(h, g, R)
  PROVE  ListsAre(g, R, Lists(h))
  <1>1. Whole(g, R) /\ g.refs = h.refs
    BY KeepsReached DEF Whole, Keeps
  <1>2. ASSUME NEW q \in Nodes \ h.refs
        PROVE  KidSeq(g, q) = KidSeq(h, q)
    <2>1. CASE q \in Live(h)
      <3>1. g.child[q] = h.child[q] /\ \A m \in Kids(h, q) : g.next[m] = h.next[m]
        BY <1>2, <2>1 DEF Keeps
      <3> QED BY <1>1, <3>1, KidSeqStays
    <2>2. CASE q \notin Live(h)
      <3>1. h.child[q] = NULL /\ g.child[q] = NULL
        BY <1>2, <2>2 DEF Keeps, Whole, Sound, TypeOKIn
      <3> QED BY <1>1, <3>1, NoKids
    <2> QED BY <2>1, <2>2
  <1> QED BY <1>1, <1>2 DEF Lists, ListsAre

\* A tree is freed with its lists, and the other lists stay.
LEMMA FreeTreeLists ==
  ASSUME NEW h, NEW R, Whole(h, R), NEW x \in R,
         \A w \in h.refs \ Subtree(h, x) : h.child[w] \notin Subtree(h, x)
  PROVE  ListsAre(FreeTree(h, x), R \ {x}, Forest!Without(Lists(h), Subtree(h, x), <<>>))
  <1> DEFINE g == FreeTree(h, x)
             gone == Subtree(h, x)
  <1>1. Whole(g, R \ {x})
    BY FreeTreeSound, FreeTreeReached DEF Whole
  <1>2. /\ gone \subseteq Live(h)
        /\ \A m \in Live(h) \ gone : h.next[m] \notin gone /\ (m \notin h.refs => h.child[m] \notin gone)
    BY SubtreeClosedOff DEF Whole
  <1>3. /\ h \in Heap /\ g.refs = h.refs \ gone
        /\ g.next = Blank(h.next, gone) /\ g.child = Blank(h.child, gone)
    BY DEF Whole, Sound, TypeOKIn, FreeTree
  <1>4. /\ \A m \in Nodes \ gone : g.next[m] = h.next[m] /\ g.child[m] = h.child[m]
        /\ \A m \in gone : g.child[m] = NULL
    BY <1>2, <1>3 DEF Blank, Heap, Live
  <1> HIDE DEF g, gone
  <1>5. ASSUME NEW q \in Nodes \ h.refs, q \notin gone
        PROVE  KidSeq(g, q) = KidSeq(h, q)
    <2>1. CASE q \in Live(h) /\ h.child[q] # NULL
      <3> DEFINE S == Kids(h, q) \ gone
      <3>1. /\ Kids(h, q) = Siblings(h, h.child[q]) /\ Kids(h, q) \subseteq Live(h)
            /\ h.child[q] \in Kids(h, q) /\ h.child[q] \notin gone
        BY <1>2, <1>3, <1>5, <2>1, KidsAreKids, SiblingsHasHead DEF Kids, Whole, Heap
      <3>2. S \subseteq Nodes /\ h.child[q] \in S /\ ListClosed(h, S)
        BY <1>2, <1>3, <3>1, SiblingsClosed DEF ListClosed, Live
      <3>3. Kids(h, q) \subseteq S
        BY <3>1, <3>2, SiblingsLeast
      <3>4. \A m \in Kids(h, q) : g.next[m] = h.next[m]
        BY <1>4, <3>1, <3>3 DEF Live
      <3> QED BY <1>1, <1>4, <1>5, <3>4, KidSeqStays
    <2>2. CASE q \notin Live(h) \/ h.child[q] = NULL
      <3>1. h.child[q] = NULL /\ g.child[q] = NULL
        BY <1>4, <1>5, <2>2 DEF Whole, Sound, TypeOKIn
      <3> QED BY <1>1, <3>1, NoKids
    <2> QED BY <2>1, <2>2
  <1>6. \A q \in gone : KidSeq(g, q) = <<>>
    BY <1>1, <1>2, <1>4, NoKids DEF Live
  <1>7. Lists(g) = [q \in Nodes |-> IF q \in gone THEN <<>> ELSE Lists(h)[q]]
    BY <1>3, <1>5, <1>6 DEF Lists
  <1> QED BY <1>1, <1>7 DEF Forest!Without, g, gone, ListsAre

\* The list of a node that owns its children.
LEMMA OwnList ==
  ASSUME NEW h, NEW R, Whole(h, R), NEW p \in Live(h) \ h.refs
  PROVE  LET s == Lists(h)[p]
         IN /\ s = KidSeq(h, p) /\ Chain(h, h.child[p], s) /\ s \in Seq(Nodes) /\ Len(s) \in Nat
            /\ \A i \in 1 .. Len(s) : s[i] \in Kids(h, p) /\ s[i] \in Live(h) \ R /\ s[i] \in Nodes
            /\ \A i \in 1 .. Len(s) : h.next[s[i]] = IF i = Len(s) THEN NULL ELSE s[i + 1]
            /\ \A i \in 1 .. Len(s) : h.prev[s[i]] = IF i = 1 THEN NULL ELSE s[i - 1]
            /\ \A i, j \in 1 .. Len(s) : s[i] = s[j] => i = j
            /\ \A x \in Kids(h, p) : \E i \in 1 .. Len(s) : s[i] = x
  <1>1. Lists(h)[p] = KidSeq(h, p)
    BY DEF Lists, Live
  <1> QED BY <1>1, OwnKids

\* attach_child puts the root at the end.
LEMMA AttachChildLists ==
  ASSUME NEW h, NEW R, Whole(h, R), NEW p \in Live(h) \ h.refs, h.type[p] \in Containers,
         NEW x \in R, p \notin Subtree(h, x)
  PROVE  ListsAre(AttachChild(h, p, x), R \ {x}, ListChanged(h, p, Append(Lists(h)[p], x)))
  <1> DEFINE g == AttachChild(h, p, x)
             u == Append(KidSeq(h, p), x)
  <1>1. p \in Nodes /\ x # p
    BY SubtreeHasRoot DEF Whole, Sound, TypeOKIn, Live
  <1>2. Whole(g, R \ {x})
    BY <1>1, AttachChildSound, AttachChildReached DEF Whole
  <1>3. g.refs = h.refs
    BY DEF AttachChild, Whole, Sound, TypeOKIn, Heap
  <1>4. /\ KidSeq(g, p) = u
        /\ \A q \in Nodes \ {p} : g.child[q] = h.child[q]
        /\ \A m \in Nodes \ Kids(h, p) : g.next[m] = h.next[m]
    BY AttachedKids
  <1> HIDE DEF g
  <1>5. Chain(g, g.child[p], KidSeq(g, p))
    BY <1>1, <1>2, KidList
  <1> HIDE DEF u
  <1>6. Chain(g, g.child[p], u)
    BY <1>4, <1>5
  <1>7. \A m \in Live(h) \ (R \cup Kids(h, p)) : g.next[m] = h.next[m]
    BY <1>4 DEF Live
  <1>8. Lists(g) = ListChanged(h, p, u)
    BY <1>2, <1>3, <1>4, <1>6, <1>7, OneListChanges
  <1>9. Lists(h)[p] = KidSeq(h, p)
    BY OwnList
  <1> QED BY <1>2, <1>8, <1>9 DEF ListsAre, g, u

\* Detach closes the gap behind the kid it takes out.
LEMMA DetachLists ==
  ASSUME NEW h, NEW R, Whole(h, R), NEW p \in Live(h) \ h.refs,
         NEW i \in 1 .. Len(Lists(h)[p]), NEW x, x = Lists(h)[p][i]
  PROVE  ListsAre(Detach(h, p, x), R \cup {x}, ListChanged(h, p, Forest!RemoveAt(Lists(h)[p], i)))
  <1> DEFINE g == Detach(h, p, x)
             s == Lists(h)[p]
             b == h.prev[x]
             a == h.next[x]
             u == Forest!RemoveAt(s, i)
             Q == R \cup {x}
  <1>1. /\ Chain(h, h.child[p], s) /\ s \in Seq(Nodes) /\ Len(s) \in Nat
        /\ \A j \in 1 .. Len(s) : s[j] \in Kids(h, p) /\ s[j] \in Nodes
        /\ \A j \in 1 .. Len(s) : h.next[s[j]] = IF j = Len(s) THEN NULL ELSE s[j + 1]
        /\ \A j \in 1 .. Len(s) : h.prev[s[j]] = IF j = 1 THEN NULL ELSE s[j - 1]
        /\ \A j, k \in 1 .. Len(s) : s[j] = s[k] => j = k
    BY OwnList
  <1>2. /\ h \in Heap /\ p \in Nodes /\ x \in Nodes /\ x \in Kids(h, p) /\ NULL \notin Nodes
        /\ Live(h) \subseteq Nodes
    BY <1>1, HeapAssumption DEF Whole, Sound, TypeOKIn, Live
  <1>3. Whole(g, Q)
    BY <1>2, DetachSound, DetachReached DEF Whole
  <1>4. /\ g.refs = h.refs
        /\ g.next = [m \in Nodes |-> IF m = x THEN NULL ELSE IF m = b THEN a ELSE h.next[m]]
        /\ g.child = IF b = NULL THEN [h.child EXCEPT ![p] = a] ELSE h.child
    BY <1>2 DEF Detach, Heap
  <1>5. g.child[p] = (IF b = NULL THEN a ELSE h.child[p]) /\ \A q \in Nodes \ {p} : g.child[q] = h.child[q]
    BY <1>2, <1>4 DEF Heap
  <1> HIDE DEF g, s, Q
  <1>6. b = (IF i = 1 THEN NULL ELSE s[i - 1]) /\ a = IF i = Len(s) THEN NULL ELSE s[i + 1]
    BY <1>1 DEF s
  <1> HIDE DEF a, b
  <1>8. i \in 1 .. Len(s) /\ s[i] = x
    BY DEF s
  <1>7. /\ u \in Seq(Nodes) /\ Len(u) = Len(s) - 1
        /\ \A j \in 1 .. Len(u) : u[j] = IF j < i THEN s[j] ELSE s[j + 1]
    BY <1>1, <1>8, Removed
  <1> HIDE DEF u
  <1>9. IF u = <<>> THEN g.child[p] = NULL ELSE u[1] = g.child[p]
    <2>1. s # <<>> /\ s[1] = h.child[p]
      BY <1>1, <1>8 DEF Chain
    <2>2. CASE u = <<>>
      <3>1. Len(s) = 1 /\ i = 1
        <4>1. Len(u) = 0
          BY <2>2
        <4>2. Len(u) = Len(s) - 1 /\ Len(s) \in Nat
          BY <1>1, <1>7
        <4>3. Len(s) = 1
          BY <4>1, <4>2
        <4> QED BY <1>8, <4>3
      <3> QED BY <1>5, <1>6, <2>2, <3>1
    <2>3. CASE u # <<>>
      <3>1. Len(s) > 1 /\ 1 \in 1 .. Len(u)
        BY <1>1, <1>7, <2>3
      <3>2. CASE i = 1
        BY <1>1, <1>5, <1>6, <1>7, <2>3, <3>1, <3>2
      <3>3. CASE i # 1
        <4>1. i - 1 \in 1 .. Len(s) /\ 1 < i
          BY <1>1, <1>8, <3>3
        <4>2. b # NULL
          BY <1>1, <1>2, <1>6, <3>3, <4>1
        <4> QED BY <1>5, <1>7, <2>1, <2>3, <3>1, <4>1, <4>2
      <3> QED BY <3>2, <3>3
    <2> QED BY <2>2, <2>3
  <1>10. ASSUME NEW j \in 1 .. Len(u)
         PROVE  g.next[u[j]] = IF j = Len(u) THEN NULL ELSE u[j + 1]
    <2>1. CASE j < i - 1
      <3>1. /\ j \in 1 .. Len(s) /\ j + 1 \in 1 .. Len(u) /\ j # Len(s) /\ j # Len(u) /\ j < i /\ j + 1 < i
            /\ j # i /\ i - 1 \in 1 .. Len(s) /\ j # i - 1 /\ i # 1
        BY <1>1, <1>7, <1>8, <2>1
      <3>2. s[j] # x /\ s[j] # b /\ u[j] = s[j] /\ u[j + 1] = s[j + 1] /\ s[j] \in Nodes
        BY <1>1, <1>6, <1>7, <1>8, <3>1
      <3> QED BY <1>1, <1>4, <3>1, <3>2
    <2>2. CASE j = i - 1
      <3>1. j \in 1 .. Len(s) /\ j < i /\ j # i /\ i # 1 /\ (j = Len(u) <=> i = Len(s)) /\ j + 1 = i
        BY <1>1, <1>7, <1>8, <2>2
      <3>2. s[j] # x /\ s[j] = b /\ u[j] = s[j] /\ s[j] \in Nodes
        BY <1>1, <1>6, <1>7, <1>8, <2>2, <3>1
      <3>3. g.next[u[j]] = a
        BY <1>4, <3>2
      <3>4. j # Len(u) => u[j + 1] = s[i + 1]
        <4> HAVE j # Len(u)
        <4>1. i \in 1 .. Len(u) /\ ~(i < i)
          BY <1>1, <1>7, <1>8, <2>2
        <4> QED BY <1>7, <3>1, <4>1
      <3> QED BY <1>6, <3>1, <3>3, <3>4
    <2>3. CASE j >= i
      <3>1. /\ j + 1 \in 1 .. Len(s) /\ ~(j < i) /\ ~(j + 1 < i) /\ j + 1 # i /\ (j = Len(u) <=> j + 1 = Len(s))
            /\ j + 1 # i - 1 /\ (i # 1 => i - 1 \in 1 .. Len(s))
            /\ (j # Len(u) => j + 1 \in 1 .. Len(u)) /\ j + 1 + 1 = j + 2
        BY <1>1, <1>7, <1>8, <2>3
      <3>2. s[j + 1] # x /\ s[j + 1] # b /\ u[j] = s[j + 1] /\ s[j + 1] \in Nodes
        BY <1>1, <1>2, <1>6, <1>7, <1>8, <3>1
      <3>3. j # Len(u) => u[j + 1] = s[j + 2]
        BY <1>7, <3>1
      <3>4. h.next[s[j + 1]] = IF j + 1 = Len(s) THEN NULL ELSE s[j + 2]
        BY <1>1, <3>1
      <3>5. g.next[s[j + 1]] = h.next[s[j + 1]]
        BY <1>4, <3>2
      <3> QED BY <3>1, <3>2, <3>3, <3>4, <3>5
    <2> QED BY <1>1, <1>7, <1>8, <2>1, <2>2, <2>3
  <1>11. Chain(g, g.child[p], u)
    BY <1>7, <1>9, <1>10 DEF Chain
  <1>12. \A m \in Live(h) \ (R \cup Kids(h, p)) : g.next[m] = h.next[m]
    <2>1. b \in Kids(h, p) \cup {NULL}
      <3>1. i # 1 => i - 1 \in 1 .. Len(s)
        BY <1>1, <1>8
      <3> QED BY <1>1, <1>6, <3>1
    <2> QED BY <1>2, <1>4, <2>1
  <1>13. g.refs = h.refs /\ \A q \in Nodes \ {p} : g.child[q] = h.child[q]
    BY <1>4, <1>5
  <1>14. Lists(g) = ListChanged(h, p, u)
    BY <1>3, <1>11, <1>12, <1>13, OneListChanges
  <1> QED BY <1>3, <1>14 DEF g, u, s, Q, ListsAre

\* cJSON_InsertItemInArray's splice puts the root at the place of the kid.
LEMMA SpliceBeforeLists ==
  ASSUME NEW h, NEW R, Whole(h, R), NEW p \in Live(h) \ h.refs, NEW r \in R, p \notin Subtree(h, r),
         NEW i \in 1 .. Len(Lists(h)[p]), NEW x, x = Lists(h)[p][i]
  PROVE  ListsAre(SpliceBefore(h, p, x, r), R \ {r}, ListChanged(h, p, Forest!InsertAt(Lists(h)[p], i, r)))
  <1> DEFINE g == SpliceBefore(h, p, x, r)
             s == Lists(h)[p]
             b == h.prev[x]
             u == Forest!InsertAt(s, i, r)
             Q == R \ {r}
  <1>1. /\ Chain(h, h.child[p], s) /\ s \in Seq(Nodes) /\ Len(s) \in Nat
        /\ \A j \in 1 .. Len(s) : s[j] \in Kids(h, p) /\ s[j] \in Nodes /\ s[j] \in Live(h) \ R
        /\ \A j \in 1 .. Len(s) : h.next[s[j]] = IF j = Len(s) THEN NULL ELSE s[j + 1]
        /\ \A j \in 1 .. Len(s) : h.prev[s[j]] = IF j = 1 THEN NULL ELSE s[j - 1]
        /\ \A j, k \in 1 .. Len(s) : s[j] = s[k] => j = k
    BY OwnList
  <1>2. /\ h \in Heap /\ p \in Nodes /\ x \in Nodes /\ x \in Kids(h, p) /\ NULL \notin Nodes
        /\ Live(h) \subseteq Nodes /\ r \in Nodes
    BY <1>1, HeapAssumption DEF Whole, Sound, TypeOKIn, Live
  <1>3. Whole(g, Q)
    BY <1>2, SpliceBeforeSound, SpliceBeforeReached DEF Whole
  <1>4. /\ g.refs = h.refs
        /\ g.next = [m \in Nodes |-> IF m = r THEN x ELSE IF m = b THEN r ELSE h.next[m]]
        /\ g.child = IF b = NULL THEN [h.child EXCEPT ![p] = r] ELSE h.child
    BY <1>2 DEF SpliceBefore, Heap
  <1>5. g.child[p] = (IF b = NULL THEN r ELSE h.child[p]) /\ \A q \in Nodes \ {p} : g.child[q] = h.child[q]
    BY <1>2, <1>4 DEF Heap
  <1> HIDE DEF g, s, Q
  <1>6. b = (IF i = 1 THEN NULL ELSE s[i - 1])
    BY <1>1 DEF s
  <1> HIDE DEF b
  <1>8. i \in 1 .. Len(s) /\ s[i] = x /\ i \in 1 .. Len(s) + 1
    BY <1>1 DEF s
  <1>7. /\ u \in Seq(Nodes) /\ Len(u) = Len(s) + 1
        /\ \A j \in 1 .. Len(u) : u[j] = IF j < i THEN s[j] ELSE IF j = i THEN r ELSE s[j - 1]
    BY <1>1, <1>2, <1>8, Inserted
  <1> HIDE DEF u
  <1>9. u # <<>> /\ u[1] = g.child[p]
    <2>1. s # <<>> /\ s[1] = h.child[p]
      BY <1>1, <1>8 DEF Chain
    <2>2. Len(u) # 0 /\ 1 \in 1 .. Len(u)
      BY <1>1, <1>7
    <2>3. CASE i = 1
      BY <1>5, <1>6, <1>7, <2>2, <2>3
    <2>4. CASE i # 1
      <3>1. i - 1 \in 1 .. Len(s) /\ 1 < i
        BY <1>1, <1>8, <2>4
      <3>2. b # NULL
        BY <1>1, <1>2, <1>6, <2>4, <3>1
      <3> QED BY <1>5, <1>7, <2>1, <2>2, <3>1, <3>2
    <2> QED BY <2>2, <2>3, <2>4
  <1>10. ASSUME NEW j \in 1 .. Len(u)
         PROVE  g.next[u[j]] = IF j = Len(u) THEN NULL ELSE u[j + 1]
    <2>1. CASE j < i - 1
      <3>1. /\ j \in 1 .. Len(s) /\ j + 1 \in 1 .. Len(u) /\ j # Len(s) /\ j # Len(u) /\ j < i /\ j + 1 < i
            /\ i - 1 \in 1 .. Len(s) /\ j # i - 1 /\ i # 1
        BY <1>1, <1>7, <1>8, <2>1
      <3>2. s[j] # r /\ s[j] # b /\ u[j] = s[j] /\ u[j + 1] = s[j + 1] /\ s[j] \in Nodes
        BY <1>1, <1>6, <1>7, <1>8, <3>1
      <3> QED BY <1>1, <1>4, <3>1, <3>2
    <2>2. CASE j = i - 1
      <3>1. j \in 1 .. Len(s) /\ j < i /\ i # 1 /\ j # Len(u) /\ j + 1 = i /\ i \in 1 .. Len(u) /\ ~(i < i)
        BY <1>1, <1>7, <1>8, <2>2
      <3>2. s[j] # r /\ s[j] = b /\ u[j] = s[j] /\ s[j] \in Nodes
        BY <1>1, <1>6, <1>7, <1>8, <2>2, <3>1
      <3>3. g.next[u[j]] = r
        BY <1>4, <3>2
      <3> QED BY <1>7, <3>1, <3>3
    <2>3. CASE j = i
      <3>1. ~(j < i) /\ j # Len(u) /\ j + 1 \in 1 .. Len(u) /\ ~(j + 1 < i) /\ j + 1 # i /\ j + 1 - 1 = i
        BY <1>1, <1>7, <1>8, <2>3
      <3>2. u[j] = r /\ u[j + 1] = s[i]
        BY <1>7, <2>3, <3>1
      <3> QED BY <1>2, <1>4, <1>8, <3>1, <3>2
    <2>4. CASE j > i
      <3>1. /\ j - 1 \in 1 .. Len(s) /\ ~(j < i) /\ j # i /\ (j = Len(u) <=> j - 1 = Len(s))
            /\ j - 1 # i - 1 /\ (i # 1 => i - 1 \in 1 .. Len(s))
            /\ (j # Len(u) => j + 1 \in 1 .. Len(u)) /\ j - 1 + 1 = j /\ j + 1 - 1 = j
            /\ ~(j + 1 < i) /\ j + 1 # i
        <4>1. /\ Len(s) \in Nat /\ Len(u) = Len(s) + 1
              /\ i \in Nat /\ 1 <= i /\ i <= Len(s) /\ j \in Nat /\ j <= Len(s) + 1 /\ j > i
          BY <1>1, <1>7, <1>8, <2>4
        <4>2. j - 1 \in 1 .. Len(s) /\ (j = Len(u) <=> j - 1 = Len(s))
          BY <4>1
        <4>3. ~(j < i) /\ j # i /\ j - 1 # i - 1 /\ ~(j + 1 < i) /\ j + 1 # i
          BY <4>1
        <4>4. /\ i # 1 => i - 1 \in 1 .. Len(s)
              /\ j # Len(u) => j + 1 \in 1 .. Len(u)
          BY <4>1
        <4>5. j - 1 + 1 = j /\ j + 1 - 1 = j
          BY <4>1
        <4> QED BY <4>2, <4>3, <4>4, <4>5
      <3>2. s[j - 1] # r /\ s[j - 1] # b /\ u[j] = s[j - 1] /\ s[j - 1] \in Nodes
        BY <1>1, <1>2, <1>6, <1>7, <1>8, <3>1
      <3>3. j # Len(u) => u[j + 1] = s[j]
        <4>1. ASSUME j # Len(u)  PROVE  u[j + 1] = s[j + 1 - 1]
          <5>1. j + 1 \in 1 .. Len(u) /\ ~(j + 1 < i) /\ j + 1 # i
            BY <3>1, <4>1
          <5> QED BY <1>7, <5>1
        <4> QED BY <3>1, <4>1
      <3>4. h.next[s[j - 1]] = IF j - 1 = Len(s) THEN NULL ELSE s[j]
        BY <1>1, <3>1
      <3>5. g.next[s[j - 1]] = h.next[s[j - 1]]
        BY <1>4, <3>2
      <3> QED BY <3>1, <3>2, <3>3, <3>4, <3>5
    <2> QED BY <1>1, <1>7, <1>8, <2>1, <2>2, <2>3, <2>4
  <1>11. Chain(g, g.child[p], u)
    BY <1>7, <1>9, <1>10 DEF Chain
  <1>12. \A m \in Live(h) \ (R \cup Kids(h, p)) : g.next[m] = h.next[m]
    <2>1. b \in Kids(h, p) \cup {NULL}
      <3>1. i # 1 => i - 1 \in 1 .. Len(s)
        BY <1>1, <1>8
      <3> QED BY <1>1, <1>6, <3>1
    <2> QED BY <1>2, <1>4, <2>1
  <1>13. g.refs = h.refs /\ \A q \in Nodes \ {p} : g.child[q] = h.child[q]
    BY <1>4, <1>5
  <1>14. Lists(g) = ListChanged(h, p, u)
    BY <1>3, <1>11, <1>12, <1>13, OneListChanges
  <1> QED BY <1>3, <1>14 DEF g, u, s, Q, ListsAre

\* replace_via_pointer puts the root where the kid was.
LEMMA TakePlaceLists ==
  ASSUME NEW h, NEW R, Whole(h, R), NEW p \in Live(h) \ h.refs, NEW r \in R, p \notin Subtree(h, r),
         NEW i \in 1 .. Len(Lists(h)[p]), NEW x, x = Lists(h)[p][i]
  PROVE  ListsAre(TakePlace(h, p, x, r), (R \ {r}) \cup {x}, ListChanged(h, p, Forest!ReplaceAt(Lists(h)[p], i, r)))
  <1> DEFINE g == TakePlace(h, p, x, r)
             s == Lists(h)[p]
             b == h.prev[x]
             a == h.next[x]
             u == Forest!ReplaceAt(s, i, r)
             Q == (R \ {r}) \cup {x}
  <1>1. /\ Chain(h, h.child[p], s) /\ s \in Seq(Nodes) /\ Len(s) \in Nat
        /\ \A j \in 1 .. Len(s) : s[j] \in Kids(h, p) /\ s[j] \in Nodes /\ s[j] \in Live(h) \ R
        /\ \A j \in 1 .. Len(s) : h.next[s[j]] = IF j = Len(s) THEN NULL ELSE s[j + 1]
        /\ \A j \in 1 .. Len(s) : h.prev[s[j]] = IF j = 1 THEN NULL ELSE s[j - 1]
        /\ \A j, k \in 1 .. Len(s) : s[j] = s[k] => j = k
    BY OwnList
  <1>2. /\ h \in Heap /\ p \in Nodes /\ x \in Nodes /\ x \in Kids(h, p) /\ NULL \notin Nodes
        /\ Live(h) \subseteq Nodes /\ r \in Nodes
    BY <1>1, HeapAssumption DEF Whole, Sound, TypeOKIn, Live
  <1>3. Whole(g, Q)
    BY <1>2, TakePlaceSound, TakePlaceReached DEF Whole
  <1>4. /\ g.refs = h.refs
        /\ g.next = [m \in Nodes |-> IF m = x THEN NULL ELSE IF m = r THEN a
                                     ELSE IF m = b THEN r ELSE h.next[m]]
        /\ g.child = IF b = NULL THEN [h.child EXCEPT ![p] = r] ELSE h.child
    BY <1>2 DEF TakePlace, Heap
  <1>5. g.child[p] = (IF b = NULL THEN r ELSE h.child[p]) /\ \A q \in Nodes \ {p} : g.child[q] = h.child[q]
    BY <1>2, <1>4 DEF Heap
  <1> HIDE DEF g, s, Q
  <1>6. b = (IF i = 1 THEN NULL ELSE s[i - 1]) /\ a = IF i = Len(s) THEN NULL ELSE s[i + 1]
    BY <1>1 DEF s
  <1> HIDE DEF a, b
  <1>8. i \in 1 .. Len(s) /\ s[i] = x
    BY DEF s
  <1>7. /\ u \in Seq(Nodes) /\ Len(u) = Len(s)
        /\ \A j \in 1 .. Len(u) : u[j] = IF j = i THEN r ELSE s[j]
    BY <1>1, <1>2, <1>8 DEF Forest!ReplaceAt
  <1> HIDE DEF u
  <1>9. u # <<>> /\ u[1] = g.child[p]
    <2>1. s # <<>> /\ s[1] = h.child[p]
      BY <1>1, <1>8 DEF Chain
    <2>2. Len(u) # 0 /\ 1 \in 1 .. Len(u)
      BY <1>1, <1>7, <1>8
    <2>3. CASE i = 1
      BY <1>5, <1>6, <1>7, <2>2, <2>3
    <2>4. CASE i # 1
      <3>1. i - 1 \in 1 .. Len(s)
        BY <1>1, <1>8, <2>4
      <3>2. b # NULL
        BY <1>1, <1>2, <1>6, <2>4, <3>1
      <3> QED BY <1>5, <1>7, <2>1, <2>2, <2>4, <3>1, <3>2
    <2> QED BY <2>2, <2>3, <2>4
  <1>10. ASSUME NEW j \in 1 .. Len(u)
         PROVE  g.next[u[j]] = IF j = Len(u) THEN NULL ELSE u[j + 1]
    <2>1. CASE j = i - 1
      <3>1. j \in 1 .. Len(s) /\ j # i /\ i # 1 /\ j # Len(u) /\ j + 1 = i /\ i \in 1 .. Len(u)
        BY <1>1, <1>7, <1>8, <2>1
      <3>2. s[j] # r /\ s[j] # x /\ s[j] = b /\ u[j] = s[j] /\ s[j] \in Nodes
        BY <1>1, <1>6, <1>7, <1>8, <2>1, <3>1
      <3>3. g.next[u[j]] = r
        BY <1>4, <3>2
      <3> QED BY <1>7, <3>1, <3>3
    <2>2. CASE j = i
      <3>1. u[j] = r /\ r # x
        BY <1>1, <1>7, <1>8, <2>2
      <3>2. g.next[r] = a
        BY <1>2, <1>4, <3>1
      <3>3. j # Len(u) => u[j + 1] = s[i + 1]
        <4> HAVE j # Len(u)
        <4>1. j + 1 \in 1 .. Len(u) /\ j + 1 # i
          BY <1>1, <1>7, <2>2
        <4> QED BY <1>7, <2>2, <4>1
      <3> QED BY <1>6, <1>7, <2>2, <3>1, <3>2, <3>3
    <2>3. CASE j # i /\ j # i - 1
      <3>1. /\ j \in 1 .. Len(s) /\ (i # 1 => i - 1 \in 1 .. Len(s)) /\ j + 1 # i
            /\ (j # Len(u) => j + 1 \in 1 .. Len(u))
        BY <1>1, <1>7, <1>8, <2>3
      <3>2. s[j] # r /\ s[j] # b /\ s[j] # x /\ u[j] = s[j] /\ s[j] \in Nodes
        BY <1>1, <1>2, <1>6, <1>7, <1>8, <2>3, <3>1
      <3>3. j # Len(u) => u[j + 1] = s[j + 1]
        BY <1>7, <3>1
      <3>4. h.next[s[j]] = IF j = Len(s) THEN NULL ELSE s[j + 1]
        BY <1>1, <3>1
      <3>5. g.next[s[j]] = h.next[s[j]]
        BY <1>4, <3>2
      <3> QED BY <1>7, <3>2, <3>3, <3>4, <3>5
    <2> QED BY <2>1, <2>2, <2>3
  <1>11. Chain(g, g.child[p], u)
    BY <1>7, <1>9, <1>10 DEF Chain
  <1>12. \A m \in Live(h) \ (R \cup Kids(h, p)) : g.next[m] = h.next[m]
    <2>1. b \in Kids(h, p) \cup {NULL}
      <3>1. i # 1 => i - 1 \in 1 .. Len(s)
        BY <1>1, <1>8
      <3> QED BY <1>1, <1>6, <3>1
    <2> QED BY <1>2, <1>4, <2>1
  <1>13. g.refs = h.refs /\ \A q \in Nodes \ {p} : g.child[q] = h.child[q]
    BY <1>4, <1>5
  <1>14. Lists(g) = ListChanged(h, p, u)
    BY <1>3, <1>11, <1>12, <1>13, OneListChanges
  <1> QED BY <1>3, <1>14 DEF g, u, s, Q, ListsAre

-----------------------------------------------------------------------------
(* Where cJSON_InsertItemInArray puts the item *)

\* What makes a function the walk of ChildAt.
Steps(h, p, f) ==
  f = [k \in Nat |-> IF k = 0 THEN h.child[p]
                     ELSE IF f[k - 1] = NULL THEN NULL ELSE h.next[f[k - 1]]]

\* child_at_index counts along the list, and finds nothing past its end.
LEMMA ChildAtCounts ==
  ASSUME NEW h, NEW R, Whole(h, R), NEW p \in Nodes, NEW i \in Nat
  PROVE  LET s == KidSeq(h, p) IN ChildAt(h, p, i) = IF i < Len(s) THEN s[i + 1] ELSE NULL
  <1> DEFINE s == KidSeq(h, p)
             g == [k \in Nat |-> IF k < Len(s) THEN s[k + 1] ELSE NULL]
             f == CHOOSE f : Steps(h, p, f)
             A == {k \in Nat : f[k] = g[k]}
  <1>1. /\ s \in Seq(Nodes) /\ Len(s) \in Nat /\ (IF s = <<>> THEN h.child[p] = NULL ELSE s[1] = h.child[p])
        /\ \A j \in 1 .. Len(s) : h.next[s[j]] = IF j = Len(s) THEN NULL ELSE s[j + 1]
        /\ \A j \in 1 .. Len(s) : s[j] # NULL
    BY KidList, HeapAssumption DEF Chain
  <1> HIDE DEF s
  <1>2. g[0] = h.child[p]
    <2>1. CASE s = <<>>
      <3>1. Len(s) = 0
        BY <2>1
      <3> QED BY <1>1, <2>1, <3>1
    <2>2. CASE s # <<>>
      <3>1. 0 < Len(s) /\ 0 + 1 = 1
        BY <1>1, <2>2
      <3>2. g[0] = s[0 + 1]
        BY <3>1
      <3> QED BY <1>1, <2>2, <3>1, <3>2
    <2> QED BY <2>1, <2>2
  <1>3. ASSUME NEW k \in Nat
        PROVE  g[k + 1] = IF g[k] = NULL THEN NULL ELSE h.next[g[k]]
    <2>1. CASE k < Len(s)
      <3>1. k + 1 \in 1 .. Len(s) /\ (k + 1 < Len(s) <=> k + 1 # Len(s))
        BY <1>1, <2>1
      <3>2. g[k] = s[k + 1] /\ g[k] # NULL
        BY <1>1, <2>1, <3>1
      <3>3. g[k + 1] = IF k + 1 = Len(s) THEN NULL ELSE s[k + 1 + 1]
        BY <3>1
      <3> QED BY <1>1, <3>1, <3>2, <3>3
    <2>2. CASE ~(k < Len(s))
      <3>1. ~(k + 1 < Len(s))
        BY <1>1, <2>2
      <3> QED BY <2>2, <3>1
    <2> QED BY <2>1, <2>2
  <1> HIDE DEF g
  <1>4. Steps(h, p, g)
    <2>1. ASSUME NEW k \in Nat
          PROVE  g[k] = IF k = 0 THEN h.child[p] ELSE IF g[k - 1] = NULL THEN NULL ELSE h.next[g[k - 1]]
      <3>1. CASE k = 0
        BY <1>2, <3>1
      <3>2. CASE k # 0
        <4>1. k - 1 \in Nat /\ k - 1 + 1 = k
          BY <3>2
        <4>2. g[k - 1 + 1] = IF g[k - 1] = NULL THEN NULL ELSE h.next[g[k - 1]]
          BY <1>3, <4>1
        <4> QED BY <3>2, <4>1, <4>2
      <3> QED BY <3>1, <3>2
    <2> QED BY <2>1 DEF Steps, g
  <1>5. Steps(h, p, f)
    BY <1>4
  <1>6. ChildAt(h, p, i) = f[i]
    BY DEF ChildAt, Steps
  <1> HIDE DEF f
  <1>7. 0 \in A
    BY <1>2, <1>5 DEF Steps
  <1>8. ASSUME NEW k \in Nat, k \in A
        PROVE  k + 1 \in A
    <2>1. k + 1 \in Nat /\ k + 1 # 0 /\ k + 1 - 1 = k
      OBVIOUS
    <2>2. f[k + 1] = IF f[k] = NULL THEN NULL ELSE h.next[f[k]]
      BY <1>5, <2>1 DEF Steps
    <2> QED BY <1>3, <1>8, <2>1, <2>2
  <1>9. Nat \subseteq A
    BY <1>7, <1>8, NatSet
  <1>10. f[i] = g[i]
    BY <1>9
  <1> QED BY <1>6, <1>10 DEF g, s

\* The walk meets each kid once.
LEMMA KidsCounted ==
  ASSUME NEW h, NEW R, Whole(h, R), NEW p \in Nodes
  PROVE  Cardinality(Kids(h, p)) = Len(KidSeq(h, p))
  <1> DEFINE s == KidSeq(h, p)
             f == [i \in 1 .. Len(s) |-> s[i]]
  <1>1. /\ s \in Seq(Nodes) /\ Len(s) \in Nat /\ Met(s) = Kids(h, p)
        /\ \A i, j \in 1 .. Len(s) : s[i] = s[j] => i = j
    BY KidList
  <1> HIDE DEF s
  <1>2. f \in Bijection(1 .. Len(s), Kids(h, p))
    <2>1. \A i \in 1 .. Len(s) : f[i] \in Kids(h, p)
      BY <1>1 DEF Met
    <2>2. \A x \in Kids(h, p) : \E i \in 1 .. Len(s) : f[i] = x
      BY <1>1 DEF Met
    <2> QED BY <1>1, <2>1, <2>2 DEF Bijection, Injection, Surjection, IsInjective
  <1>3. IsFiniteSet(1 .. Len(s)) /\ Cardinality(1 .. Len(s)) = Len(s)
    <2>1. /\ 1 \in Int /\ Len(s) \in Int
          /\ (IF 1 > Len(s) THEN 0 ELSE Len(s) - 1 + 1) = Len(s)
      BY <1>1
    <2> QED BY <2>1, FS_Interval
  <1>4. Cardinality(1 .. Len(s)) = Cardinality(Kids(h, p))
    <2>1. ExistsBijection(1 .. Len(s), Kids(h, p))
      BY <1>2 DEF ExistsBijection
    <2> HIDE DEF f
    <2> QED BY <1>3, <2>1, FS_Bijection
  <1> QED BY <1>3, <1>4 DEF s

\* An item inserted at the index of a kid is found there again.
LEMMA SplicedIsThere ==
  ASSUME NEW h, NEW R, Whole(h, R), NEW p \in Live(h) \ h.refs, NEW r \in R, p \notin Subtree(h, r),
         NEW which \in Nat, ChildAt(h, p, which) # NULL
  PROVE  ChildAt(SpliceBefore(h, p, ChildAt(h, p, which), r), p, which) = r
  <1> DEFINE s == Lists(h)[p]
             x == ChildAt(h, p, which)
             g == SpliceBefore(h, p, x, r)
             i == which + 1
             u == Forest!InsertAt(s, i, r)
  <1>1. s = KidSeq(h, p) /\ s \in Seq(Nodes) /\ Len(s) \in Nat
    BY OwnList
  <1>2. p \in Nodes /\ r \in Nodes /\ p \notin h.refs
    BY DEF Whole, Sound, TypeOKIn, Live
  <1> HIDE DEF s
  <1>3. x = IF which < Len(s) THEN s[i] ELSE NULL
    BY <1>1, <1>2, ChildAtCounts
  <1>4. which < Len(s) /\ x = s[i] /\ i \in 1 .. Len(s) /\ i \in 1 .. Len(s) + 1
    BY <1>1, <1>3
  <1> HIDE DEF x, i
  <1>5. ListsAre(g, R \ {r}, ListChanged(h, p, Forest!InsertAt(Lists(h)[p], i, r)))
    <2>1. i \in 1 .. Len(Lists(h)[p]) /\ x = Lists(h)[p][i]
      BY <1>4 DEF s
    <2> QED BY <2>1, SpliceBeforeLists
  <1>6. g.refs = h.refs
    BY DEF SpliceBefore, Whole, Sound, TypeOKIn, Heap
  <1> HIDE DEF g
  <1>7. KidSeq(g, p) = u
    <2>1. Lists(g) = ListChanged(h, p, u)
      BY <1>5 DEF s, ListsAre
    <2> HIDE DEF u
    <2>2. Lists(g)[p] = u
      BY <1>2, <2>1 DEF ListChanged, Lists
    <2>3. Lists(g)[p] = KidSeq(g, p)
      BY <1>2, <1>6 DEF Lists
    <2> QED BY <2>2, <2>3
  <1>8. Len(u) = Len(s) + 1 /\ u[i] = r
    BY <1>1, <1>2, <1>4, Inserted
  <1> HIDE DEF u
  <1>9. ChildAt(g, p, which) = IF which < Len(u) THEN u[i] ELSE NULL
    BY <1>2, <1>5, <1>7, ChildAtCounts DEF i, ListsAre
  <1> QED BY <1>1, <1>4, <1>8, <1>9 DEF g, x

\* An item put at the end is found behind the kids there were.
LEMMA AttachedIsLast ==
  ASSUME NEW h, NEW R, Whole(h, R), NEW p \in Live(h) \ h.refs, h.type[p] \in Containers,
         NEW r \in R, p \notin Subtree(h, r)
  PROVE  ChildAt(AttachChild(h, p, r), p, Cardinality(Kids(h, p))) = r
  <1> DEFINE s == Lists(h)[p]
             g == AttachChild(h, p, r)
             u == Append(s, r)
  <1>1. s = KidSeq(h, p) /\ s \in Seq(Nodes) /\ Len(s) \in Nat
    BY OwnList
  <1>2. p \in Nodes /\ r \in Nodes /\ p \notin h.refs
    BY DEF Whole, Sound, TypeOKIn, Live
  <1>3. Cardinality(Kids(h, p)) = Len(s)
    BY <1>1, <1>2, KidsCounted
  <1>4. Whole(g, R \ {r}) /\ Lists(g) = ListChanged(h, p, u)
    BY AttachChildLists DEF ListsAre
  <1>5. g.refs = h.refs
    BY DEF AttachChild, Whole, Sound, TypeOKIn, Heap
  <1> HIDE DEF g, s
  <1>6. Len(u) = Len(s) + 1 /\ u[Len(s) + 1] = r
    BY <1>1, <1>2, AppendProperties
  <1> HIDE DEF u
  <1>7. KidSeq(g, p) = u
    <2>2. Lists(g)[p] = u
      BY <1>2, <1>4 DEF ListChanged, Lists
    <2>3. Lists(g)[p] = KidSeq(g, p)
      BY <1>2, <1>5 DEF Lists
    <2> QED BY <2>2, <2>3
  <1>8. ChildAt(g, p, Len(s)) = IF Len(s) < Len(u) THEN u[Len(s) + 1] ELSE NULL
    BY <1>1, <1>2, <1>4, <1>7, ChildAtCounts
  <1> QED BY <1>1, <1>3, <1>6, <1>8 DEF g

\* cJSON_InsertItemInArray puts the item at the index it was given, or at the
\* end, as a walk from the head counts.
THEOREM InsertedItemsLand ==
  ASSUME "mutate_reference" \in Avoid
  PROVE  Spec => InsertLandsAtIndex
  <1> DEFINE Lands ==
        \A r \in owned \ owned' : \A p \in Places(r), which \in Indices :
          LET at == ChildAt(heap, p, which)
          IN IF at = NULL
             THEN InsertItemPastEnd(p, which, r)
                  => ChildAt(heap', p, Cardinality(Kids(heap, p))) = r
             ELSE InsertItemInArray(p, which, r, at) => ChildAt(heap', p, which) = r
  <1>1. Init => SoundAndReached
    BY InitReached
  <1>2. SoundAndReached /\ [Next]_vars => SoundAndReached'
    BY StepReached
  <1>3. SoundAndReached => [Lands]_vars
    <2> SUFFICES ASSUME SoundAndReached, NEW r \in owned \ owned', NEW p \in Places(r), NEW which \in Indices
                 PROVE  IF ChildAt(heap, p, which) = NULL
                        THEN InsertItemPastEnd(p, which, r)
                             => ChildAt(heap', p, Cardinality(Kids(heap, p))) = r
                        ELSE InsertItemInArray(p, which, r, ChildAt(heap, p, which))
                             => ChildAt(heap', p, which) = r
      BY Zenon
    <2>1. /\ Whole(heap, owned) /\ p \in Live(heap) \ heap.refs /\ p \notin Subtree(heap, r)
          /\ r \in owned /\ which \in Nat
      BY EditableOwns DEF SoundAndReached, SoundNow, ReachedNow, Whole, Places, Indices
    <2>2. CASE ChildAt(heap, p, which) = NULL
      <3>1. InsertItemPastEnd(p, which, r) => heap' = AttachChild(heap, p, r) /\ heap.type[p] \in Containers
        BY DEF InsertItemPastEnd, AddItemToArray, Containers
      <3> QED BY <2>1, <2>2, <3>1, AttachedIsLast
    <2>3. CASE ChildAt(heap, p, which) # NULL
      <3>1. InsertItemInArray(p, which, r, ChildAt(heap, p, which))
            => heap' = SpliceBefore(heap, p, ChildAt(heap, p, which), r)
        BY DEF InsertItemInArray
      <3> QED BY <2>1, <2>3, <3>1, SplicedIsThere
    <2> QED BY <2>2, <2>3
  <1>4. InsertLandsAtIndex <=> [][Lands]_vars
    BY DEF InsertLandsAtIndex
  <1> QED BY <1>1, <1>2, <1>3, <1>4, PTL DEF Spec

-----------------------------------------------------------------------------
(* The tree of a root, in the pointers and in the sequences *)

\* The members of a sequence are the kids of a node that owns its children.
LEMMA ListMembers ==
  ASSUME NEW h, NEW R, Whole(h, R), NEW m \in Nodes
  PROVE  Forest!ToSet(Lists(h)[m]) = IF m \in h.refs THEN {} ELSE Kids(h, m)
  <1>1. CASE m \in h.refs
    <2>1. Lists(h)[m] = <<>>
      BY <1>1 DEF Lists
    <2> QED BY <1>1, <2>1 DEF Forest!ToSet
  <1>2. CASE m \notin h.refs
    <2> DEFINE s == KidSeq(h, m)
    <2>1. Lists(h)[m] = s /\ s \in Seq(Nodes) /\ Met(s) = Kids(h, m)
      BY <1>2, KidList DEF Lists
    <2> HIDE DEF s
    <2>2. DOMAIN s = 1 .. Len(s)
      BY <2>1
    <2> QED BY <1>2, <2>1, <2>2 DEF Met, Forest!ToSet
  <1> QED BY <1>1, <1>2

\* free_cjson(x) frees the tree of x in the sequences.
LEMMA TreeIsSubtree ==
  ASSUME NEW h, NEW R, Whole(h, R), NEW x \in R
  PROVE  Forest!Tree(Lists(h), x) = Subtree(h, x)
  <1> DEFINE A == Subtree(h, x)
             T == Forest!Tree(Lists(h), x)
             Closed(S) == x \in S /\ \A m \in S \ h.refs : Kids(h, m) \subseteq S
  <1>1. h \in Heap /\ x \in Nodes /\ h.next[x] = NULL
    BY DEF Whole, Sound, TypeOKIn, Links, OwnersIn, Live
  <1>2. T = {n \in Nodes : \A S \in SUBSET Nodes : Closed(S) => n \in S}
    <2>1. ASSUME NEW S \in SUBSET Nodes
          PROVE  (x \in S /\ \A m \in S : Forest!ToSet(Lists(h)[m]) \subseteq S) <=> Closed(S)
      BY ListMembers
    <2> HIDE DEF Closed
    <2> QED BY <2>1 DEF Forest!Tree
  <1>3. \A m \in Nodes : h.child[m] # NULL => h.child[m] \in Kids(h, m)
    BY <1>1, SiblingsHasHead DEF Kids, Heap
  <1>4. \A m, k \in Nodes : k \in Kids(h, m) /\ h.next[k] # NULL => h.next[k] \in Kids(h, m)
    BY <1>1, SiblingsClosed DEF Kids
  <1>5. \A m \in Nodes : Kids(h, m) \subseteq Nodes
    BY <1>1, SiblingsHasHead DEF Kids, Heap
  <1> HIDE DEF T
  <1>6. T \subseteq A
    <2>1. A \subseteq Nodes /\ x \in A
      BY <1>1, SubtreeHasRoot
    <2>2. ASSUME NEW m \in A \ h.refs
          PROVE  Kids(h, m) \subseteq A
      <3>1. h.child[m] # NULL => h.child[m] \in A
        BY <1>1, <2>2, SubtreeClosed
      <3>2. ListClosed(h, A)
        BY <1>1, SubtreeClosed DEF ListClosed
      <3> QED BY <2>1, <3>1, <3>2, SiblingsLeast DEF Kids
    <2> HIDE DEF A
    <2> QED BY <1>2, <2>1, <2>2
  <1>7. x \in T /\ T \subseteq Nodes
    BY <1>1, <1>2
  <1>8. ASSUME NEW m \in T \ h.refs
        PROVE  Kids(h, m) \subseteq T
    BY <1>2, <1>5, <1>7
  <1>9. ASSUME NEW m \in T, m # x
        PROVE  \E q \in T \ h.refs : m \in Kids(h, q)
    <2> SUFFICES ASSUME \A q \in T \ h.refs : m \notin Kids(h, q)
                 PROVE  FALSE
      OBVIOUS
    <2>1. Closed(T \ {m}) /\ T \ {m} \in SUBSET Nodes
      BY <1>7, <1>8, <1>9
    <2> QED BY <1>2, <2>1
  <1>10. TreeClosed(h, x, T)
    BY <1>3, <1>4, <1>7, <1>8, <1>9 DEF TreeClosed
  <1>11. A \subseteq T
    BY <1>7, <1>10, SubtreeLeast
  <1> QED BY <1>6, <1>11 DEF T

-----------------------------------------------------------------------------
(* What the strings of a heap read *)

\* A whole heap whose buffers have one holder each.
Held(h, R) == Whole(h, R) /\ Strung(h, {})

\* Every pointer reads a text, and only NULL reads NULL.
LEMMA TextsRead ==
  ASSUME NEW h, NEW R, Held(h, R), NEW n \in Nodes
  PROVE  /\ Keys(h)[n] \in Texts \cup {NULL} /\ (Keys(h)[n] = NULL <=> h.string[n] = NULL)
         /\ Vals(h)[n] \in Texts \cup {NULL} /\ (Vals(h)[n] = NULL <=> h.valuestring[n] = NULL)
  <1>1. h \in Heap
    BY DEF Held, Whole, Sound, TypeOKIn
  <1>2. h.string[n] \in Pointers(h) \cup {NULL} /\ h.valuestring[n] \in Pointers(h) \cup {NULL}
    <2>1. CASE n \in Live(h)
      BY <2>1, StrungLives DEF Held, StringsLiveIn
    <2>2. CASE n \notin Live(h)
      BY <2>2 DEF Held, Whole, Sound, TypeOKIn
    <2> QED BY <2>1, <2>2
  <1>3. \A q \in Pointers(h) : Deref(h, q) \in Texts
    BY <1>1, HeapAssumption DEF Pointers, LiveBufs, Deref, Heap
  <1>4. Deref(h, NULL) = NULL
    BY HeapAssumption DEF Deref
  <1>5. NULL \notin Pointers(h)
    BY HeapAssumption DEF Pointers, LiveBufs
  <1> QED BY <1>2, <1>3, <1>4, <1>5, HeapAssumption DEF Keys, Vals

\* Key and value of n read the same in g as in h.
SameAt(h, g, n) == Keys(g)[n] = Keys(h)[n] /\ Vals(g)[n] = Vals(h)[n]

\* A node whose strings are left alone reads the same.
LEMMA TextsStay ==
  ASSUME NEW h, NEW g, NEW n \in Nodes,
         g.string[n] = h.string[n], g.valuestring[n] = h.valuestring[n],
         \A b \in Bufs : b = h.string[n] \/ b = h.valuestring[n] => g.text[b] = h.text[b]
  PROVE  SameAt(h, g, n)
  BY DEF SameAt, Keys, Vals, Deref

\* The buffer of a key is that of no other string.
LEMMA KeyIsOwn ==
  ASSUME NEW h, NEW R, Held(h, R), NEW x \in Live(h), KeyOf(h, x) # NULL
  PROVE  \A n \in Nodes : h.valuestring[n] # KeyOf(h, x) /\ (n # x => h.string[n] # KeyOf(h, x))
  <1> DEFINE b == KeyOf(h, x)
  <1>1. b \in LiveBufs(h) /\ b \in Bufs /\ b \notin Texts
    BY HeapAssumption DEF Held, Strung, HeldIn, LiveBufs
  <1>2. \A n \in Live(h) : ValueOf(h, n) # b /\ (n # x => KeyOf(h, n) # b)
    BY DEF Held, Strung, HeldIn
  <1>3. \A n \in Live(h) \ h.refs : h.valuestring[n] # b
    BY <1>2 DEF ValueOf
  <1>4. \A n \in h.refs : h.valuestring[n] # b
    BY <1>1, <1>3 DEF Held, Strung, BorrowedIn
  <1>5. \A n \in Live(h) : n # x => h.string[n] # b
    BY <1>1, <1>2 DEF KeyOf, Held, Strung, BorrowedIn
  <1>6. \A n \in Nodes \ Live(h) : h.valuestring[n] = NULL /\ h.string[n] = NULL
    BY DEF Held, Whole, Sound, TypeOKIn
  <1> QED BY <1>3, <1>4, <1>5, <1>6

\* g has the types t, and its strings read k and v.
TextsAre(g, t, k, v) == g.type = t /\ Keys(g) = k /\ Vals(g) = v

\* A tree is freed with its texts, and the other texts stay.
LEMMA FreeTreeTexts ==
  ASSUME NEW h, NEW R, Held(h, R), NEW x \in R, MayFree(h, x)
  PROVE  TextsAre(FreeTree(h, x),
                  Forest!Without(h.type, Subtree(h, x), NULL),
                  Forest!Without(Keys(h), Subtree(h, x), NULL),
                  Forest!Without(Vals(h), Subtree(h, x), NULL))
  <1> DEFINE g == FreeTree(h, x)
             gone == Subtree(h, x)
  <1>1. h \in Heap /\ gone \subseteq Live(h) /\ Live(h) \subseteq Nodes
    BY SubtreeClosedOff DEF Held, Whole, Sound, TypeOKIn, Live
  <1>2. /\ g.type = Blank(h.type, gone) /\ g.string = Blank(h.string, gone)
        /\ g.valuestring = Blank(h.valuestring, gone)
    BY DEF FreeTree
  <1>3. \A n \in Nodes \ gone : SameAt(h, g, n)
    BY FreeTreeReads DEF Held, Whole, SameAt, Keys, Vals
  <1> HIDE DEF gone, g
  <1>8. ASSUME NEW n \in gone
        PROVE  Keys(g)[n] = NULL /\ Vals(g)[n] = NULL
    BY <1>1, <1>2, HeapAssumption DEF Blank, Heap, Keys, Vals, Deref
  <1>9. g.type = [n \in Nodes |-> IF n \in gone THEN NULL ELSE h.type[n]]
    BY <1>1, <1>2 DEF Blank, Heap
  <1>10. Keys(g) = [n \in Nodes |-> IF n \in gone THEN NULL ELSE Keys(h)[n]]
    BY <1>3, <1>8 DEF Keys, SameAt
  <1>11. Vals(g) = [n \in Nodes |-> IF n \in gone THEN NULL ELSE Vals(h)[n]]
    BY <1>3, <1>8 DEF Vals, SameAt
  <1> QED BY <1>9, <1>10, <1>11 DEF TextsAre, Forest!Without, g, gone

\* Those of h, but s at n.
KeysChanged(h, n, s) == [Keys(h) EXCEPT ![n] = s]
ValsChanged(h, n, s) == [Vals(h) EXCEPT ![n] = s]
TypesChanged(h, n, t) == [h.type EXCEPT ![n] = t]

\* Linking and unlinking leave the texts alone.
LEMMA LinksLeaveTexts ==
  ASSUME NEW h, NEW g, g.type = h.type,
         g.string = h.string, g.valuestring = h.valuestring, g.text = h.text
  PROVE  TextsAre(g, h.type, Keys(h), Vals(h))
  BY DEF TextsAre, Keys, Vals, Deref

\* A change of texts at n alone.
LEMMA OneTextChanges ==
  ASSUME NEW h, NEW g, NEW n \in Nodes, \A m \in Nodes \ {n} : SameAt(h, g, m)
  PROVE  Keys(g) = KeysChanged(h, n, Keys(g)[n]) /\ Vals(g) = ValsChanged(h, n, Vals(g)[n])
  <1>1. Keys(g) = [m \in Nodes |-> IF m = n THEN Keys(g)[n] ELSE Keys(h)[m]]
    BY DEF SameAt, Keys
  <1>2. Vals(g) = [m \in Nodes |-> IF m = n THEN Vals(g)[n] ELSE Vals(h)[m]]
    BY DEF SameAt, Vals
  <1> QED BY <1>1, <1>2 DEF KeysChanged, ValsChanged, Keys, Vals

\* The key of x is freed and x given another: every other text stays, so no
\* node, reference or not, was looking at the freed buffer.
LEMMA RekeyTexts ==
  ASSUME NEW h, NEW R, Held(h, R), NEW x \in Live(h), NEW g, g.type = h.type,
         g.valuestring = h.valuestring, \A n \in Nodes \ {x} : g.string[n] = h.string[n],
         \A c \in LiveBufs(h) \ {KeyOf(h, x)} : g.text[c] = h.text[c]
  PROVE  TextsAre(g, h.type, KeysChanged(h, x, Keys(g)[x]), Vals(h))
  <1>1. h \in Heap /\ x \in Nodes
    BY DEF Held, Whole, Sound, TypeOKIn, Live
  <1>2. \A n \in Nodes : /\ h.string[n] \in Bufs => h.string[n] \in LiveBufs(h)
                         /\ h.valuestring[n] \in Bufs => h.valuestring[n] \in LiveBufs(h)
    BY <1>1, TextsRead, HeapAssumption DEF Keys, Vals, Deref, LiveBufs
  <1>3. \A n \in Nodes : /\ h.valuestring[n] \in Bufs => h.valuestring[n] # KeyOf(h, x)
                         /\ n # x /\ h.string[n] \in Bufs => h.string[n] # KeyOf(h, x)
    BY KeyIsOwn, HeapAssumption
  <1>4. ASSUME NEW n \in Nodes \ {x}
        PROVE  SameAt(h, g, n)
    BY <1>2, <1>3, TextsStay
  <1>5. Vals(g)[x] = Vals(h)[x]
    BY <1>1, <1>2, <1>3 DEF Vals, Deref
  <1>6. Keys(g) = KeysChanged(h, x, Keys(g)[x])
    BY <1>1, <1>4, OneTextChanges
  <1>7. Vals(g) = Vals(h)
    BY <1>4, <1>5 DEF Vals, SameAt
  <1> QED BY <1>6, <1>7 DEF TextsAre

\* attach_named_child: x answers to a copy of the name, made before the old key
\* is freed.
LEMMA AttachNamedTexts ==
  ASSUME NEW h, NEW R, Held(h, R), NEW p, NEW x \in Live(h), NEW name, Deref(h, name) \in Texts,
         NEW b \in Bufs \ LiveBufs(h)
  PROVE  TextsAre(AttachNamedChild(h, p, name, x, b), h.type, KeysChanged(h, x, Deref(h, name)), Vals(h))
  <1> DEFINE s == Deref(h, name)
             c == NewText(h, b, s)
             f == FreeKey(c, x)
             k == [f EXCEPT !.consts = @ \ {x}, !.string[x] = b]
             g == AttachChild(k, p, x)
  <1>1. h \in Heap /\ x \in Nodes /\ s \in Texts
    BY DEF Held, Whole, Sound, TypeOKIn, Live
  <1> HIDE DEF s
  <1>2. c \in Heap
    BY <1>1 DEF Heap, NewText
  <1>3. /\ c.type = h.type /\ c.refs = h.refs /\ c.consts = h.consts
        /\ c.valuestring = h.valuestring /\ c.string = h.string /\ c.text = [h.text EXCEPT ![b] = s]
    BY <1>1 DEF Heap, NewText
  <1> HIDE DEF c
  <1>4. /\ f \in Heap /\ f.type = c.type /\ f.valuestring = c.valuestring /\ f.string = c.string
        /\ f.text = (IF x \in h.consts THEN c.text ELSE Blank(c.text, {h.string[x]}))
    <2>1. CASE x \in h.consts
      BY <1>2, <1>3, <2>1 DEF FreeKey
    <2>2. CASE x \notin h.consts
      BY <1>2, <1>3, <2>2 DEF FreeKey, FreeText, Heap, Blank
    <2> QED BY <2>1, <2>2
  <1> HIDE DEF f
  <1>5. /\ k \in Heap /\ k.type = h.type /\ k.valuestring = h.valuestring /\ k.text = f.text
        /\ k.string = [h.string EXCEPT ![x] = b]
    BY <1>1, <1>3, <1>4 DEF Heap
  <1> HIDE DEF k
  <1>6. /\ g.type = h.type /\ g.valuestring = h.valuestring /\ g.text = f.text
        /\ g.string = [h.string EXCEPT ![x] = b]
    BY <1>5 DEF AttachChild, Heap
  <1> HIDE DEF g
  <1>7. \A n \in Nodes \ {x} : g.string[n] = h.string[n]
    BY <1>1, <1>6 DEF Heap
  <1>8. \A d \in LiveBufs(h) \ {KeyOf(h, x)} : g.text[d] = h.text[d]
    BY <1>1, <1>3, <1>4, <1>6 DEF Heap, Blank, LiveBufs, KeyOf
  <1>9. KeyOf(h, x) # b
    BY HeapAssumption DEF Held, Strung, HeldIn
  <1>10. g.text[b] = s
    BY <1>1, <1>3, <1>4, <1>6, <1>9 DEF Heap, Blank, KeyOf
  <1>11. Keys(g)[x] = s
    BY <1>1, <1>6, <1>10 DEF Keys, Deref, Heap
  <1>12. TextsAre(g, h.type, KeysChanged(h, x, Keys(g)[x]), Vals(h))
    BY <1>6, <1>7, <1>8, RekeyTexts
  <1> QED BY <1>11, <1>12 DEF AttachNamedChild, g, k, f, c, s

\* add_item_to_object with a constant key: x answers to it.
LEMMA BorrowTexts ==
  ASSUME NEW h, NEW R, Held(h, R), NEW p, NEW x \in Live(h), NEW name \in Texts
  PROVE  TextsAre(AttachChild([FreeKey(h, x) EXCEPT !.consts = @ \cup {x}, !.string[x] = name], p, x),
                  h.type, KeysChanged(h, x, name), Vals(h))
  <1> DEFINE f == FreeKey(h, x)
             k == [f EXCEPT !.consts = @ \cup {x}, !.string[x] = name]
             g == AttachChild(k, p, x)
  <1>1. h \in Heap /\ x \in Nodes
    BY DEF Held, Whole, Sound, TypeOKIn, Live
  <1>2. /\ f \in Heap /\ f.type = h.type /\ f.valuestring = h.valuestring /\ f.string = h.string
        /\ f.text = (IF x \in h.consts THEN h.text ELSE Blank(h.text, {h.string[x]}))
    <2>1. CASE x \in h.consts
      BY <1>1, <2>1 DEF FreeKey
    <2>2. CASE x \notin h.consts
      BY <1>1, <2>2 DEF FreeKey, FreeText, Heap, Blank
    <2> QED BY <2>1, <2>2
  <1> HIDE DEF f
  <1>3. /\ k \in Heap /\ k.type = h.type /\ k.valuestring = h.valuestring /\ k.text = f.text
        /\ k.string = [h.string EXCEPT ![x] = name]
    <2>1. f.consts \cup {x} \in SUBSET Nodes /\ [f.string EXCEPT ![x] = name] \in [Nodes -> Bufs \cup Texts \cup {NULL}]
      BY <1>1, <1>2 DEF Heap
    <2> QED BY <1>2, <2>1 DEF Heap
  <1> HIDE DEF k
  <1>4. /\ g.type = h.type /\ g.valuestring = h.valuestring /\ g.text = f.text
        /\ g.string = [h.string EXCEPT ![x] = name]
    BY <1>3 DEF AttachChild, Heap
  <1> HIDE DEF g
  <1>5. \A n \in Nodes \ {x} : g.string[n] = h.string[n]
    BY <1>1, <1>4 DEF Heap
  <1>6. \A d \in LiveBufs(h) \ {KeyOf(h, x)} : g.text[d] = h.text[d]
    BY <1>1, <1>2, <1>4 DEF Heap, Blank, LiveBufs, KeyOf
  <1>7. Keys(g)[x] = name
    BY <1>1, <1>4, HeapAssumption DEF Keys, Deref, Heap
  <1>8. TextsAre(g, h.type, KeysChanged(h, x, Keys(g)[x]), Vals(h))
    BY <1>4, <1>5, <1>6, RekeyTexts
  <1> QED BY <1>7, <1>8 DEF g, k, f

\* cJSON_SetValuestring: x has a copy of s, made before the old value is freed.
LEMMA RevalueTexts ==
  ASSUME NEW h, NEW R, Held(h, R), NEW x \in Live(h) \ h.refs, NEW p, Deref(h, p) \in Texts,
         NEW b \in Bufs \ LiveBufs(h),
         \A w \in h.refs : h.valuestring[w] = NULL \/ h.valuestring[w] # h.valuestring[x]
  PROVE  TextsAre([FreeText(NewText(h, b, Deref(h, p)), h.valuestring[x]) EXCEPT !.valuestring[x] = b],
                  h.type, Keys(h), ValsChanged(h, x, Deref(h, p)))
  <1> DEFINE s == Deref(h, p)
             g == [FreeText(NewText(h, b, s), h.valuestring[x]) EXCEPT !.valuestring[x] = b]
             old == ValueOf(h, x)
  <1>1. h \in Heap /\ x \in Nodes /\ s \in Texts
    BY DEF Held, Whole, Sound, TypeOKIn, Live
  <1> HIDE DEF s
  <1>2. /\ g.type = h.type /\ g.string = h.string
        /\ g.valuestring = [h.valuestring EXCEPT ![x] = b]
        /\ g.text = Blank([h.text EXCEPT ![b] = s], {h.valuestring[x]})
    BY <1>1 DEF Heap, NewText, FreeText
  <1> HIDE DEF g
  <1>3. old = h.valuestring[x] /\ old \in LiveBufs(h) \cup {NULL} /\ old # b
    BY HeapAssumption DEF ValueOf, Held, Strung, HeldIn
  <1> HIDE DEF old
  <1>4. \A n \in Nodes : /\ h.string[n] \in Bufs => h.string[n] \in LiveBufs(h)
                         /\ h.valuestring[n] \in Bufs => h.valuestring[n] \in LiveBufs(h)
    BY <1>1, TextsRead, HeapAssumption DEF Keys, Vals, Deref, LiveBufs
  <1>5. \A n \in Nodes : /\ h.string[n] \in Bufs => h.string[n] # old
                         /\ n # x /\ h.valuestring[n] \in Bufs => h.valuestring[n] # old
    <2>1. ASSUME NEW n \in Live(h), old # NULL
          PROVE  h.string[n] # old /\ (n # x => h.valuestring[n] # old)
      <3>1. old \in Bufs /\ old \notin Texts
        BY <1>3, <2>1, HeapAssumption DEF LiveBufs
      <3>2. h.string[n] # old
        BY <2>1, <3>1 DEF old, KeyOf, Held, Strung, HeldIn, BorrowedIn
      <3>3. n # x /\ n \notin h.refs => h.valuestring[n] # old
        BY <2>1, <1>3, <3>1 DEF ValueOf, old, Held, Strung, HeldIn
      <3>4. n \in h.refs => h.valuestring[n] # old
        BY <1>3, <2>1
      <3> QED BY <3>2, <3>3, <3>4
    <2>2. \A n \in Nodes \ Live(h) : h.valuestring[n] = NULL /\ h.string[n] = NULL
      BY DEF Held, Whole, Sound, TypeOKIn
    <2> QED BY <2>1, <2>2, HeapAssumption
  <1>6. \A d \in LiveBufs(h) \ {old} : g.text[d] = h.text[d]
    BY <1>1, <1>2, <1>3 DEF Heap, Blank, LiveBufs
  <1>7. ASSUME NEW n \in Nodes \ {x}
        PROVE  SameAt(h, g, n)
    <2>1. g.valuestring[n] = h.valuestring[n] /\ g.string[n] = h.string[n]
      BY <1>1, <1>2 DEF Heap
    <2> QED BY <1>4, <1>5, <1>6, <2>1, TextsStay
  <1>8. Keys(g)[x] = Keys(h)[x]
    BY <1>1, <1>2, <1>4, <1>5, <1>6 DEF Keys, Deref
  <1>9. g.valuestring[x] = b /\ g.text[b] = s
    BY <1>1, <1>2, <1>3 DEF Heap, Blank
  <1>10. Vals(g)[x] = s
    BY <1>1, <1>9 DEF Vals, Deref
  <1>11. Keys(g) = Keys(h)
    BY <1>7, <1>8 DEF Keys, SameAt
  <1>12. Vals(g) = ValsChanged(h, x, s)
    BY <1>1, <1>7, <1>10, OneTextChanges
  <1> QED BY <1>2, <1>11, <1>12 DEF TextsAre, g, s

-----------------------------------------------------------------------------
(* Every call is a step of the forest, or none *)

\* g is h with a type and strings for the new node n, in new buffers.
Fresh(h, g, n) ==
  /\ g.type = [h.type EXCEPT ![n] = g.type[n]]
  /\ \A m \in Nodes \ {n} : g.string[m] = h.string[m] /\ g.valuestring[m] = h.valuestring[m]
  /\ \A b \in LiveBufs(h) : g.text[b] = h.text[b]

\* g is h but for the type and the texts of the new item n.
Born(h, g, n) ==
  \E t \in Types, k, v \in Forest!Maybe :
    TextsAre(g, TypesChanged(h, n, t), KeysChanged(h, n, k), ValsChanged(h, n, v))

\* New buffers are nobody else's, so the texts of the other nodes stay.
LEMMA FreshIsBorn ==
  ASSUME NEW h, NEW R, Held(h, R), NEW g, NEW Q, Held(g, Q), NEW n \in Live(g), Fresh(h, g, n)
  PROVE  Born(h, g, n)
  <1>1. g.type[n] \in Types /\ n \in Nodes
    BY DEF Live, Held, Whole, Sound, TypeOKIn, Heap
  <1>2. Keys(g)[n] \in Forest!Maybe /\ Vals(g)[n] \in Forest!Maybe
    BY <1>1, TextsRead DEF Forest!Maybe
  <1>3. \A m \in Nodes : /\ h.string[m] \in Bufs => h.string[m] \in LiveBufs(h)
                         /\ h.valuestring[m] \in Bufs => h.valuestring[m] \in LiveBufs(h)
    BY TextsRead, HeapAssumption DEF Keys, Vals, Deref, LiveBufs
  <1>4. ASSUME NEW m \in Nodes \ {n}
        PROVE  SameAt(h, g, m)
    BY <1>3, TextsStay DEF Fresh
  <1>5. Keys(g) = KeysChanged(h, n, Keys(g)[n]) /\ Vals(g) = ValsChanged(h, n, Vals(g)[n])
    BY <1>1, <1>4, OneTextChanges
  <1> DEFINE t == g.type[n]
             k == Keys(g)[n]
             v == Vals(g)[n]
  <1>6. g.type = TypesChanged(h, n, t)
    BY DEF Fresh, TypesChanged
  <1>7. t \in Types /\ k \in Forest!Maybe /\ v \in Forest!Maybe
    BY <1>1, <1>2
  <1>8. TextsAre(g, TypesChanged(h, n, t), KeysChanged(h, n, k), ValsChanged(h, n, v))
    BY <1>5, <1>6 DEF TextsAre
  <1> HIDE DEF t, k, v
  <1> QED BY <1>7, <1>8 DEF Born

\* alloc_node.
LEMMA NewNodeFresh ==
  ASSUME NEW h, h \in Heap, NEW n \in Nodes, NEW t \in Types, NEW g, Allocates(h, g, n, t)
  PROVE  Fresh(h, g, n) /\ g \in Heap /\ g.type[n] = t
  <1>1. CASE g = NewNode(h, n, t)
    BY <1>1 DEF NewNode, Heap, Fresh
  <1>2. CASE g = NewReference(h, n, t)
    BY <1>2 DEF NewReference, Heap, Fresh
  <1> QED BY <1>1, <1>2 DEF Allocates

\* create_string_like.
LEMMA StringItemFresh ==
  ASSUME NEW h, h \in Heap, NEW n \in Nodes, NEW t \in Types, NEW s \in Texts, NEW b \in Bufs \ LiveBufs(h)
  PROVE  Fresh(h, StringItem(h, t, s, n, b), n)
  BY DEF StringItem, NewNode, NewText, Heap, Fresh, LiveBufs

\* wrap_as_reference.
LEMMA WrapFresh ==
  ASSUME NEW h, h \in Heap, NEW r \in Nodes, NEW item \in Live(h)
  PROVE  Fresh(h, WrapAsReference(h, r, item), r)
  BY DEF WrapAsReference, NewReference, Heap, Fresh, Live

\* duplicate without recursion.
LEMMA CopyFresh ==
  ASSUME NEW h, h \in Heap, NEW n \in Nodes, NEW item \in Live(h),
         NEW bv \in (Bufs \ LiveBufs(h)) \cup {NULL}, NEW bk \in (Bufs \ LiveBufs(h)) \cup {NULL},
         bv = NULL <=> ~Copied(h, h.valuestring[item]),
         bk = NULL <=> ~Copied(h, h.string[item])
  PROVE  Fresh(h, CopyNode(h, n, item, bv, bk), n)
  <1> DEFINE node == NewNode(h, n, h.type[item])
             value == Deref(h, h.valuestring[item])
             valued == IF Copied(h, h.valuestring[item])
                       THEN [NewText(node, bv, value) EXCEPT !.valuestring[n] = bv]
                       ELSE node
             g == CopyNode(h, n, item, bv, bk)
  <1>1. h.type[item] \in Types
    BY DEF Live, Heap
  <1>2. Fresh(h, node, n) /\ node \in Heap
    BY <1>1, NewNodeFresh DEF Allocates
  <1>3. Copied(h, h.valuestring[item]) => value \in Texts
    BY HeapAssumption DEF Copied
  <1>4. Copied(h, h.string[item]) => Deref(h, h.string[item]) \in Texts
    BY HeapAssumption DEF Copied
  <1> HIDE DEF node, value
  <1>5. Fresh(h, valued, n) /\ valued \in Heap
    <2>1. CASE Copied(h, h.valuestring[item])
      BY <1>2, <1>3, <2>1 DEF NewText, Heap, Fresh, LiveBufs
    <2>2. CASE ~Copied(h, h.valuestring[item])
      BY <1>2, <2>2
    <2> QED BY <2>1, <2>2
  <1>6. g = IF Copied(h, h.string[item])
            THEN [NewText(valued, bk, Deref(h, h.string[item])) EXCEPT !.string[n] = bk]
            ELSE valued
    BY DEF CopyNode, node, value
  <1> HIDE DEF valued, g
  <1>7. Fresh(h, g, n)
    <2>1. CASE Copied(h, h.string[item])
      BY <1>4, <1>5, <1>6, <2>1 DEF NewText, Heap, Fresh, LiveBufs
    <2>2. CASE ~Copied(h, h.string[item])
      BY <1>5, <1>6, <2>2
    <2> QED BY <2>1, <2>2
  <1> QED BY <1>7 DEF g

\* The heap of a caller that stays away from the hazards.
HeldNow == Held(heap, owned)

\* A call that makes a node n and nothing else.
LEMMA BornIsCreated ==
  ASSUME NEW n \in Nodes \ Live(heap), Born(heap, heap', n),
         Lists(heap') = Lists(heap), owned' = owned \cup {n}
  PROVE  Forest!Create(n)
  <1>1. PICK t \in Types, k \in Forest!Maybe, v \in Forest!Maybe :
               TextsAre(heap', TypesChanged(heap, n, t), KeysChanged(heap, n, k), ValsChanged(heap, n, v))
    BY DEF Born
  <1>2. heap.type[n] = NULL
    BY DEF Live
  <1>3. /\ heap'.type = [heap.type EXCEPT ![n] = t]
        /\ Keys(heap') = [Keys(heap) EXCEPT ![n] = k]
        /\ Vals(heap') = [Vals(heap) EXCEPT ![n] = v]
    BY <1>1 DEF TextsAre, TypesChanged, KeysChanged, ValsChanged
  <1>4. Forest!Born(n)
    BY <1>2, <1>3 DEF Forest!Born, Forest!Exists
  <1> QED BY <1>4 DEF Forest!Create

\* The constructors, cJSON_Duplicate(item, 0) among them.
LEMMA CreateForest ==
  ASSUME HeldNow, HeldNow', Create
  PROVE  Forest!Next
  <1> SUFFICES ASSUME NEW n \in FreeNodes,
                      \/ \E t \in Types : CreateItem(t, n)
                      \/ \E t \in Types, s \in Utf8, b \in FreeBufs : CreateString(t, s, n, b)
                      \/ \E s \in Texts : CreateStringReference(s, n)
                      \/ \E t \in Types, c \in Live(heap) \cup {NULL} : CreateContainerReference(t, c, n)
                      \/ \E item \in Live(heap), bv, bk \in FreeBufs \cup {NULL} :
                           DuplicateShallow(item, n, bv, bk)
               PROVE  Forest!Next
    BY DEF Create
  <1> DEFINE Q == owned \cup {n}
  <1>1. /\ Whole(heap, owned) /\ Sound(heap, owned) /\ Held(heap, owned)
        /\ n \in Nodes /\ n \in Nodes \ Live(heap) /\ heap \in Heap
    BY DEF HeldNow, Held, Whole, FreeNodes, Sound, TypeOKIn
  <1>2. ASSUME NEW g, Adds(heap, g, n, owned)
        PROVE  ListsAre(g, Q, Lists(heap))
    BY <1>1, <1>2, AddsLists
  <1>3. ASSUME NEW g, Adds(heap, g, n, owned), NEW k, Keeps(g, k, Q)
        PROVE  Lists(k) = Lists(heap)
    <2>1. Whole(g, Q) /\ Lists(g) = Lists(heap)
      BY <1>2, <1>3 DEF ListsAre
    <2> HIDE DEF Q
    <2>2. ListsAre(k, Q, Lists(g))
      BY <1>3, <2>1, KeepsLists
    <2> QED BY <2>1, <2>2 DEF ListsAre
  <1>4. ASSUME NEW t \in Types, CreateItem(t, n)
        PROVE  Lists(heap') = Lists(heap) /\ Fresh(heap, heap', n)
    <2>1. Allocates(heap, heap', n, t)
      BY <1>4 DEF CreateItem, Allocates
    <2>2. Adds(heap, heap', n, owned) /\ Fresh(heap, heap', n)
      BY <1>1, <2>1, NewNodeAdds, NewNodeFresh
    <2> QED BY <1>2, <2>2 DEF ListsAre
  <1>5. ASSUME NEW t \in Types, NEW s \in Utf8, NEW b \in FreeBufs, CreateString(t, s, n, b)
        PROVE  Lists(heap') = Lists(heap) /\ Fresh(heap, heap', n)
    <2>1. t \in Strings /\ s \in Texts /\ b \in Bufs \ LiveBufs(heap) /\ heap' = StringItem(heap, t, s, n, b)
      BY <1>5, HeapAssumption DEF CreateString, FreeBufs
    <2>2. Adds(heap, heap', n, owned) /\ Fresh(heap, heap', n)
      BY <1>1, <2>1, StringItemAdds, StringItemFresh
    <2> QED BY <1>2, <2>2 DEF ListsAre
  <1>6. ASSUME NEW s \in Texts, CreateStringReference(s, n)
        PROVE  Lists(heap') = Lists(heap) /\ Fresh(heap, heap', n)
    <2> DEFINE g == NewReference(heap, n, "String")
    <2>1. Adds(heap, g, n, owned) /\ g.type[n] = "String" /\ g \in Heap /\ Fresh(heap, g, n)
      BY <1>1, NewNodeAdds, NewNodeFresh DEF Allocates, Types
    <2> HIDE DEF g
    <2>2. Keeps(g, [g EXCEPT !.valuestring[n] = s], Q)
      BY <2>1, SetValueSound DEF Adds, Strings
    <2>3. Fresh(heap, [g EXCEPT !.valuestring[n] = s], n)
      BY <1>1, <2>1 DEF Fresh, Heap
    <2> QED BY <1>3, <1>6, <2>1, <2>2, <2>3 DEF CreateStringReference, g
  <1>7. ASSUME NEW t \in Types, NEW c \in Live(heap) \cup {NULL}, CreateContainerReference(t, c, n)
        PROVE  Lists(heap') = Lists(heap) /\ Fresh(heap, heap', n)
    <2> DEFINE g == NewReference(heap, n, t)
    <2>1. Adds(heap, g, n, owned) /\ g.type[n] = t /\ t \in Containers /\ g \in Heap /\ Fresh(heap, g, n)
      BY <1>1, <1>7, NewNodeAdds, NewNodeFresh DEF Allocates, CreateContainerReference
    <2>2. n \in g.refs
      BY <1>1 DEF NewReference, Heap
    <2> HIDE DEF g
    <2>3. Keeps(g, [g EXCEPT !.child[n] = c], Q)
      BY <2>1, <2>2, PointReferenceSound DEF Adds
    <2>4. Fresh(heap, [g EXCEPT !.child[n] = c], n)
      BY <1>1, <2>1 DEF Fresh, Heap
    <2> QED BY <1>3, <1>7, <2>1, <2>3, <2>4 DEF CreateContainerReference, g
  <1>8. ASSUME NEW item \in Live(heap), NEW bv \in FreeBufs \cup {NULL}, NEW bk \in FreeBufs \cup {NULL},
               DuplicateShallow(item, n, bv, bk)
        PROVE  Lists(heap') = Lists(heap) /\ Fresh(heap, heap', n)
    <2>1. /\ bv \in (Bufs \ LiveBufs(heap)) \cup {NULL} /\ bk \in (Bufs \ LiveBufs(heap)) \cup {NULL}
          /\ bv \in Bufs \cup {NULL} /\ bk \in Bufs \cup {NULL}
          /\ bv = NULL <=> ~Copied(heap, heap.valuestring[item])
          /\ bk = NULL <=> ~Copied(heap, heap.string[item])
          /\ heap' = CopyNode(heap, n, item, bv, bk)
      BY <1>8 DEF DuplicateShallow, FreeBufs
    <2>2. Adds(heap, CopyNode(heap, n, item, bv, bk), n, owned)
      BY <1>1, <2>1, CopyAdds
    <2>3. Fresh(heap, CopyNode(heap, n, item, bv, bk), n)
      BY <1>1, <2>1, CopyFresh
    <2> QED BY <1>2, <2>1, <2>2, <2>3 DEF ListsAre
  <1>9. Lists(heap') = Lists(heap) /\ Fresh(heap, heap', n)
    BY <1>4, <1>5, <1>6, <1>7, <1>8
  <1>10. owned' = Q
    BY DEF CreateItem, CreateString, CreateStringReference, CreateContainerReference, DuplicateShallow
  <1>11. Held(heap', owned') /\ n \in Live(heap')
    BY <1>10 DEF HeldNow, Held, Whole, Sound, TypeOKIn
  <1>12. Born(heap, heap', n)
    BY <1>1, <1>9, <1>11, FreshIsBorn
  <1>13. Forest!Create(n)
    BY <1>1, <1>9, <1>10, <1>12, BornIsCreated
  <1> QED BY <1>1, <1>13 DEF Forest!Next

\* attach_named_child puts the root at the end too.
LEMMA AttachNamedLists ==
  ASSUME NEW h, NEW R, Whole(h, R), NEW p \in Live(h) \ h.refs, h.type[p] \in Containers,
         NEW x \in R, p \notin Subtree(h, x), NEW name, Deref(h, name) \in Texts, NEW b \in Bufs
  PROVE  ListsAre(AttachNamedChild(h, p, name, x, b), R \ {x}, ListChanged(h, p, Append(Lists(h)[p], x)))
  <1> DEFINE c == NewText(h, b, Deref(h, name))
             f == FreeKey(c, x)
             C == f.consts \ {x}
             k == [f EXCEPT !.consts = C, !.string[x] = b]
  <1>0. Sound(h, R)
    BY DEF Whole
  <1>1. Keeps(h, c, R) /\ c.child = h.child
    BY <1>0, NewTextSound
  <1> HIDE DEF c
  <1>2. Sound(c, R) /\ x \in Live(c) /\ c \in Heap
    BY <1>1 DEF Keeps, Sound, TypeOKIn
  <1>3. C \in SUBSET Live(c)
    BY <1>2, FreeTextSound DEF FreeKey, Keeps, Sound, TypeOKIn
  <1>4. f \in Heap /\ f.child = c.child
    BY <1>2 DEF FreeKey, FreeText, Blank, Heap
  <1> HIDE DEF f
  <1>5. k.child = f.child
    BY <1>4 DEF Heap
  <1> HIDE DEF C
  <1>6. Keeps(c, k, R)
    <2>1. b \in Bufs \cup Texts \cup {NULL}
      OBVIOUS
    <2>2. Keeps(c, [FreeKey(c, x) EXCEPT !.consts = C, !.string[x] = b], R)
      BY <1>2, <1>3, <2>1, RekeySound, Zenon
    <2> QED BY <2>2 DEF f
  <1> HIDE DEF k
  <1>7. Keeps(h, k, R) /\ k.child = h.child
    BY <1>1, <1>4, <1>5, <1>6 DEF Keeps
  <1>8. Whole(k, R) /\ Lists(k) = Lists(h)
    BY <1>7, KeepsLists DEF ListsAre
  <1>9. /\ Subtree(k, x) = Subtree(h, x) /\ k.type = h.type
        /\ p \in Live(k) \ k.refs /\ k.type[p] \in Containers /\ p \notin Subtree(k, x)
    BY <1>7, SameListsSameSubtree DEF Keeps
  <1>10. ListsAre(AttachChild(k, p, x), R \ {x}, ListChanged(k, p, Append(Lists(k)[p], x)))
    BY <1>8, <1>9, AttachChildLists
  <1>11. ListChanged(k, p, Append(Lists(k)[p], x)) = ListChanged(h, p, Append(Lists(h)[p], x))
    BY <1>8 DEF ListChanged
  <1> QED BY <1>10, <1>11 DEF AttachNamedChild, k, C, f, c

\* So does add_item_to_object with a constant key.
LEMMA BorrowLists ==
  ASSUME NEW h, NEW R, Whole(h, R), NEW p \in Live(h) \ h.refs, h.type[p] \in Containers,
         NEW x \in R, p \notin Subtree(h, x), NEW name \in Texts
  PROVE  ListsAre(AttachChild([FreeKey(h, x) EXCEPT !.consts = @ \cup {x}, !.string[x] = name], p, x),
                  R \ {x}, ListChanged(h, p, Append(Lists(h)[p], x)))
  <1> DEFINE f == FreeKey(h, x)
             C == f.consts \cup {x}
             k == [f EXCEPT !.consts = C, !.string[x] = name]
  <1>1. Sound(h, R) /\ x \in Live(h) /\ h.consts \subseteq Live(h) /\ h \in Heap
    BY DEF Whole, Sound, TypeOKIn
  <1>2. C \in SUBSET Live(h)
    BY <1>1, FreeTextSound DEF FreeKey, Keeps, Sound, TypeOKIn
  <1>3. f \in Heap /\ f.child = h.child
    BY <1>1 DEF FreeKey, FreeText, Blank, Heap
  <1> HIDE DEF C
  <1>4. Keeps(h, k, R)
    <2>1. name \in Bufs \cup Texts \cup {NULL}
      OBVIOUS
    <2> QED BY <1>1, <1>2, <2>1, RekeySound, Zenon
  <1> HIDE DEF f
  <1>5. k.child = h.child
    BY <1>3 DEF Heap
  <1> HIDE DEF k
  <1>6. Whole(k, R) /\ Lists(k) = Lists(h)
    BY <1>4, KeepsLists DEF ListsAre
  <1>7. /\ Subtree(k, x) = Subtree(h, x) /\ k.type = h.type
        /\ p \in Live(k) \ k.refs /\ k.type[p] \in Containers /\ p \notin Subtree(k, x)
    BY <1>4, <1>5, SameListsSameSubtree DEF Keeps
  <1>8. ListsAre(AttachChild(k, p, x), R \ {x}, ListChanged(k, p, Append(Lists(k)[p], x)))
    BY <1>6, <1>7, AttachChildLists
  <1>9. ListChanged(k, p, Append(Lists(k)[p], x)) = ListChanged(h, p, Append(Lists(h)[p], x))
    BY <1>6 DEF ListChanged
  <1> QED BY <1>8, <1>9 DEF k, C, f

\* What a call does to the sequences when it takes up the root x.
LEMMA TakenUpIsAdopted ==
  ASSUME HeldNow, NEW x \in owned, NEW p \in Live(heap), p \notin Subtree(heap, x),
         NEW at \in 1 .. Len(Lists(heap)[p]) + 1,
         Lists(heap') = ListChanged(heap, p, Forest!InsertAt(Lists(heap)[p], at, x)),
         owned' = owned \ {x},
         \/ heap.type[p] = "Array" /\ TextsAre(heap', heap.type, Keys(heap), Vals(heap))
         \/ /\ heap.type[p] = "Object" /\ at = Len(Lists(heap)[p]) + 1
            /\ \E k \in Texts : TextsAre(heap', heap.type, KeysChanged(heap, x, k), Vals(heap))
  PROVE  Forest!Adopt(p, x)
  <1>1. p \notin Forest!Tree(Lists(heap), x)
    BY TreeIsSubtree DEF HeldNow, Held
  <1>2. Lists(heap') = [Lists(heap) EXCEPT ![p] = Forest!InsertAt(@, at, x)]
    BY DEF ListChanged
  <1>3. heap'.type = heap.type /\ Vals(heap') = Vals(heap)
    BY DEF TextsAre
  <1>4. \/ heap.type[p] = "Array" /\ Keys(heap') = Keys(heap)
        \/ /\ heap.type[p] = "Object" /\ at = Len(Lists(heap)[p]) + 1
           /\ \E k \in Texts : Keys(heap') = [Keys(heap) EXCEPT ![x] = k]
    BY DEF TextsAre, KeysChanged
  <1> QED BY <1>1, <1>2, <1>3, <1>4 DEF Forest!Adopt

\* The root x goes to the end of the list of p.
LEMMA TakenUpAtEnd ==
  ASSUME HeldNow, NEW x \in owned, NEW p \in Live(heap) \ heap.refs, p \notin Subtree(heap, x),
         Lists(heap') = ListChanged(heap, p, Append(Lists(heap)[p], x)), owned' = owned \ {x},
         \/ heap.type[p] = "Array" /\ TextsAre(heap', heap.type, Keys(heap), Vals(heap))
         \/ /\ heap.type[p] = "Object"
            /\ \E k \in Texts : TextsAre(heap', heap.type, KeysChanged(heap, x, k), Vals(heap))
  PROVE  Forest!Adopt(p, x)
  <1> DEFINE s == Lists(heap)[p]
             at == Len(s) + 1
  <1>1. s \in Seq(Nodes) /\ Len(s) \in Nat
    BY OwnList DEF HeldNow, Held
  <1>2. x \in Nodes
    BY DEF HeldNow, Held, Whole, Sound, TypeOKIn, Live
  <1>3. at \in 1 .. Len(s) + 1
    BY <1>1
  <1>4. Append(s, x) = Forest!InsertAt(s, at, x)
    BY <1>1, <1>2, <1>3, AppendInserts
  <1> HIDE DEF at
  <1>5. at = Len(s) + 1
    BY DEF at
  <1> HIDE DEF s
  <1>6. Lists(heap') = ListChanged(heap, p, Forest!InsertAt(Lists(heap)[p], at, x))
    BY <1>4 DEF s
  <1> QED BY <1>3, <1>5, <1>6, TakenUpIsAdopted DEF s

\* Adding and inserting a root.
LEMMA AdoptForest ==
  ASSUME "mutate_reference" \in Avoid, HeldNow, Adopt
  PROVE  Forest!Next
  <1> SUFFICES ASSUME NEW x \in owned, NEW p \in Places(x),
                      \/ AddItemToArray(p, x)
                      \/ \E name \in Pointers(heap), b \in FreeBufs : AddItemToObject(p, name, x, b)
                      \/ \E name \in Texts : AddItemToObjectCS(p, name, x)
                      \/ \E which \in Indices : InsertItemPastEnd(p, which, x)
                      \/ \E at \in Kids(heap, p), which \in Indices :
                           InsertItemInArray(p, which, x, at)
               PROVE  Forest!Adopt(p, x)
    BY DEF Adopt, Forest!Next, Places, Editable, Live
  <1> DEFINE Q == owned \ {x}
             longer == ListChanged(heap, p, Append(Lists(heap)[p], x))
  <1>1. /\ Held(heap, owned) /\ Whole(heap, owned) /\ x \in Live(heap) /\ heap \in Heap
    BY DEF HeldNow, Held, Whole, Sound, TypeOKIn
  <1>2. p \in Live(heap) \ heap.refs /\ p \notin Subtree(heap, x)
    BY EditableOwns DEF Places
  <1>3. ASSUME AddItemToArray(p, x)
        PROVE  Forest!Adopt(p, x)
    <2> DEFINE g == AttachChild(heap, p, x)
    <2>1. heap' = g /\ owned' = owned \ {x} /\ heap.type[p] = "Array" /\ heap.type[p] \in Containers
      BY <1>3 DEF AddItemToArray, Containers
    <2>2. ListsAre(AttachChild(heap, p, x), Q, longer)
      BY <1>1, <1>2, <2>1, AttachChildLists
    <2>3. g.type = heap.type /\ g.string = heap.string /\ g.valuestring = heap.valuestring /\ g.text = heap.text
      BY <1>1 DEF AttachChild, Heap
    <2> HIDE DEF g
    <2>4. TextsAre(g, heap.type, Keys(heap), Vals(heap))
      BY <2>3, LinksLeaveTexts
    <2>5. Lists(heap') = longer /\ TextsAre(heap', heap.type, Keys(heap), Vals(heap))
      BY <2>1, <2>2, <2>4 DEF ListsAre, g
    <2> QED BY <1>2, <2>1, <2>5, TakenUpAtEnd
  <1>4. ASSUME NEW name \in Pointers(heap), NEW b \in FreeBufs, AddItemToObject(p, name, x, b)
        PROVE  Forest!Adopt(p, x)
    <2>1. /\ heap' = AttachNamedChild(heap, p, name, x, b) /\ owned' = owned \ {x}
          /\ heap.type[p] = "Object" /\ heap.type[p] \in Containers
          /\ Deref(heap, name) \in Texts /\ b \in Bufs \ LiveBufs(heap) /\ b \in Bufs
      BY <1>4, HeapAssumption DEF AddItemToObject, Containers, FreeBufs
    <2>2. ListsAre(AttachNamedChild(heap, p, name, x, b), Q, longer)
      BY <1>1, <1>2, <2>1, AttachNamedLists
    <2>3. TextsAre(AttachNamedChild(heap, p, name, x, b), heap.type,
                   KeysChanged(heap, x, Deref(heap, name)), Vals(heap))
      BY <1>1, <2>1, AttachNamedTexts
    <2>4. /\ Lists(heap') = longer
          /\ \E k \in Texts : TextsAre(heap', heap.type, KeysChanged(heap, x, k), Vals(heap))
      BY <2>1, <2>2, <2>3 DEF ListsAre
    <2> QED BY <1>2, <2>1, <2>4, TakenUpAtEnd
  <1>5. ASSUME NEW name \in Texts, AddItemToObjectCS(p, name, x)
        PROVE  Forest!Adopt(p, x)
    <2> DEFINE g == AttachChild([FreeKey(heap, x) EXCEPT !.consts = @ \cup {x}, !.string[x] = name], p, x)
    <2>1. /\ heap' = g /\ owned' = owned \ {x}
          /\ heap.type[p] = "Object" /\ heap.type[p] \in Containers
      BY <1>5 DEF AddItemToObjectCS, Containers
    <2>2. ListsAre(g, Q, longer)
      BY <1>1, <1>2, <2>1, BorrowLists
    <2>3. TextsAre(g, heap.type, KeysChanged(heap, x, name), Vals(heap))
      BY <1>1, BorrowTexts
    <2> HIDE DEF g
    <2>4. /\ Lists(heap') = longer
          /\ \E k \in Texts : TextsAre(heap', heap.type, KeysChanged(heap, x, k), Vals(heap))
      BY <2>1, <2>2, <2>3 DEF ListsAre
    <2> QED BY <1>2, <2>1, <2>4, TakenUpAtEnd
  <1>6. ASSUME NEW y \in Kids(heap, p), NEW which \in Indices, InsertItemInArray(p, which, x, y)
        PROVE  Forest!Adopt(p, x)
    <2> DEFINE g == SpliceBefore(heap, p, y, x)
    <2>1. heap' = g /\ owned' = owned \ {x} /\ heap.type[p] = "Array"
      BY <1>6 DEF InsertItemInArray
    <2>2. PICK i \in 1 .. Len(Lists(heap)[p]) : Lists(heap)[p][i] = y
      BY <1>1, <1>2, OwnList
    <2>3. Len(Lists(heap)[p]) \in Nat
      BY <1>1, <1>2, OwnList
    <2>4. i \in 1 .. Len(Lists(heap)[p]) + 1
      BY <2>3
    <2>5. ListsAre(g, Q, ListChanged(heap, p, Forest!InsertAt(Lists(heap)[p], i, x)))
      BY <1>1, <1>2, <2>2, SpliceBeforeLists
    <2>6. g.type = heap.type /\ g.string = heap.string /\ g.valuestring = heap.valuestring /\ g.text = heap.text
      BY <1>1 DEF SpliceBefore, Heap
    <2> HIDE DEF g
    <2>7. TextsAre(g, heap.type, Keys(heap), Vals(heap))
      BY <2>6, LinksLeaveTexts
    <2>8. /\ Lists(heap') = ListChanged(heap, p, Forest!InsertAt(Lists(heap)[p], i, x))
          /\ TextsAre(heap', heap.type, Keys(heap), Vals(heap))
      BY <2>1, <2>5, <2>7 DEF ListsAre
    <2> QED BY <1>2, <2>1, <2>4, <2>8, TakenUpIsAdopted
  <1> QED BY <1>3, <1>4, <1>5, <1>6 DEF InsertItemPastEnd

\* A call that makes a node n and hangs it at the end of the list of p.
LEMMA BornIsHung ==
  ASSUME NEW n \in Nodes \ Live(heap), NEW p \in Live(heap), Born(heap, heap', n),
         Lists(heap') = ListChanged(heap, p, Append(Lists(heap)[p], n)), owned' = owned
  PROVE  Forest!CreateIn(p, n)
  <1>1. PICK t \in Types, k \in Forest!Maybe, v \in Forest!Maybe :
               TextsAre(heap', TypesChanged(heap, n, t), KeysChanged(heap, n, k), ValsChanged(heap, n, v))
    BY DEF Born
  <1>2. heap.type[n] = NULL /\ heap.type[p] # NULL
    BY DEF Live
  <1>3. /\ heap'.type = [heap.type EXCEPT ![n] = t]
        /\ Keys(heap') = [Keys(heap) EXCEPT ![n] = k]
        /\ Vals(heap') = [Vals(heap) EXCEPT ![n] = v]
    BY <1>1 DEF TextsAre, TypesChanged, KeysChanged, ValsChanged
  <1>4. Forest!Born(n)
    BY <1>2, <1>3 DEF Forest!Born, Forest!Exists
  <1>5. Lists(heap') = [Lists(heap) EXCEPT ![p] = Append(@, n)]
    BY DEF ListChanged
  <1> QED BY <1>2, <1>4, <1>5 DEF Forest!CreateIn, Forest!Exists

\* A fresh node that is given a key is still no more than born.
LEMMA BornIsRenamed ==
  ASSUME NEW h, NEW made, NEW g, NEW n, Born(h, made, n),
         \/ TextsAre(g, made.type, Keys(made), Vals(made))
         \/ \E k \in Texts : TextsAre(g, made.type, KeysChanged(made, n, k), Vals(made))
  PROVE  Born(h, g, n)
  <1>1. PICK t \in Types, k0 \in Forest!Maybe, v \in Forest!Maybe :
               TextsAre(made, TypesChanged(h, n, t), KeysChanged(h, n, k0), ValsChanged(h, n, v))
    BY DEF Born
  <1>2. CASE TextsAre(g, made.type, Keys(made), Vals(made))
    <2>1. TextsAre(g, TypesChanged(h, n, t), KeysChanged(h, n, k0), ValsChanged(h, n, v))
      BY <1>1, <1>2 DEF TextsAre
    <2> QED BY <1>1, <2>1 DEF Born
  <1>3. ASSUME NEW k \in Texts, TextsAre(g, made.type, KeysChanged(made, n, k), Vals(made))
        PROVE  Born(h, g, n)
    <2>1. Keys(made) = KeysChanged(h, n, k0)
      BY <1>1 DEF TextsAre
    <2>2. KeysChanged(made, n, k) = KeysChanged(h, n, k)
      BY <2>1 DEF KeysChanged, Keys
    <2>3. TextsAre(g, TypesChanged(h, n, t), KeysChanged(h, n, k), ValsChanged(h, n, v))
      BY <1>1, <1>3, <2>2 DEF TextsAre
    <2>4. k \in Forest!Maybe
      BY DEF Forest!Maybe
    <2> QED BY <1>1, <2>3, <2>4 DEF Born
  <1> QED BY <1>2, <1>3

\* A node made and not yet hung.
LEMMA MadeHolds ==
  ASSUME HeldNow, NEW n \in FreeNodes, NEW made, Adds(heap, made, n, owned), Strung(made, {}),
         Fresh(heap, made, n)
  PROVE  /\ Held(made, owned \cup {n}) /\ n \in owned \cup {n} /\ n \in Live(made)
         /\ Born(heap, made, n) /\ Lists(made) = Lists(heap)
         /\ Subtree(made, n) = {n} /\ (owned \cup {n}) \ {n} = owned
         /\ \A p \in Live(heap) \ heap.refs :
              p \in Live(made) \ made.refs /\ made.type[p] = heap.type[p] /\ p \notin Subtree(made, n)
  <1>1. Whole(heap, owned) /\ n \in Nodes /\ n \notin Live(heap) /\ owned \subseteq Live(heap)
    BY DEF HeldNow, Held, FreeNodes, Whole, Sound, TypeOKIn
  <1>2. Whole(made, owned \cup {n}) /\ Lists(made) = Lists(heap)
    BY <1>1, AddsLists DEF ListsAre
  <1>3. Held(made, owned \cup {n}) /\ n \in Live(made)
    BY <1>2 DEF Held, Adds
  <1>4. Born(heap, made, n)
    BY <1>3, FreshIsBorn DEF HeldNow
  <1>5. Subtree(made, n) = {n}
    BY <1>1, SubtreeOfLeaf DEF Adds
  <1>6. \A p \in Live(heap) \ heap.refs : p \in Live(made) \ made.refs /\ made.type[p] = heap.type[p]
    BY <1>1 DEF Adds
  <1>7. (owned \cup {n}) \ {n} = owned
    BY <1>1
  <1> QED BY <1>1, <1>2, <1>3, <1>4, <1>5, <1>6, <1>7

\* It is hung at the end of an array.
LEMMA MadeIsAttached ==
  ASSUME HeldNow, NEW n \in FreeNodes, NEW made, Adds(heap, made, n, owned), Strung(made, {}),
         Fresh(heap, made, n), NEW p \in Live(heap) \ heap.refs, heap.type[p] \in Containers,
         heap' = AttachChild(made, p, n), owned' = owned
  PROVE  Forest!CreateIn(p, n)
  <1> DEFINE Q == owned \cup {n}
             g == AttachChild(made, p, n)
  <1>1. /\ Held(made, Q) /\ n \in Q /\ Born(heap, made, n) /\ Lists(made) = Lists(heap)
        /\ p \in Live(made) \ made.refs /\ made.type[p] = heap.type[p] /\ p \notin Subtree(made, n)
    BY MadeHolds
  <1>2. Whole(made, Q) /\ made \in Heap
    BY <1>1 DEF Held, Whole, Sound, TypeOKIn
  <1> HIDE DEF Q
  <1>3. ListsAre(AttachChild(made, p, n), Q \ {n}, ListChanged(made, p, Append(Lists(made)[p], n)))
    BY <1>1, <1>2, AttachChildLists
  <1>4. g.type = made.type /\ g.string = made.string /\ g.valuestring = made.valuestring /\ g.text = made.text
    BY <1>2 DEF AttachChild, Heap
  <1> HIDE DEF g
  <1>5. TextsAre(g, made.type, Keys(made), Vals(made))
    BY <1>4, LinksLeaveTexts
  <1>6. Born(heap, g, n)
    BY <1>1, <1>5, BornIsRenamed
  <1>7. Lists(g) = ListChanged(heap, p, Append(Lists(heap)[p], n))
    BY <1>1, <1>3 DEF ListsAre, ListChanged, g
  <1> QED BY <1>6, <1>7, BornIsHung DEF g, FreeNodes

\* It is hung at the end of an object.
LEMMA MadeIsNamed ==
  ASSUME HeldNow, NEW n \in FreeNodes, NEW made, Adds(heap, made, n, owned), Strung(made, {}),
         Fresh(heap, made, n), NEW p \in Live(heap) \ heap.refs, heap.type[p] \in Containers,
         NEW name \in Texts, NEW b \in Bufs \ LiveBufs(made),
         heap' = AttachNamedChild(made, p, name, n, b), owned' = owned
  PROVE  Forest!CreateIn(p, n)
  <1> DEFINE Q == owned \cup {n}
             g == AttachNamedChild(made, p, name, n, b)
  <1>1. /\ Held(made, Q) /\ n \in Q /\ n \in Live(made) /\ Born(heap, made, n) /\ Lists(made) = Lists(heap)
        /\ p \in Live(made) \ made.refs /\ made.type[p] = heap.type[p] /\ p \notin Subtree(made, n)
    BY MadeHolds
  <1>2. Whole(made, Q)
    BY <1>1 DEF Held
  <1>3. Deref(made, name) \in Texts /\ b \in Bufs
    BY HeapAssumption DEF Deref
  <1> HIDE DEF Q
  <1>4. ListsAre(g, Q \ {n}, ListChanged(made, p, Append(Lists(made)[p], n)))
    BY <1>1, <1>2, <1>3, AttachNamedLists
  <1>5. TextsAre(g, made.type, KeysChanged(made, n, Deref(made, name)), Vals(made))
    BY <1>1, <1>3, AttachNamedTexts
  <1> HIDE DEF g
  <1>6. Born(heap, g, n)
    BY <1>1, <1>3, <1>5, BornIsRenamed
  <1>7. Lists(g) = ListChanged(heap, p, Append(Lists(heap)[p], n))
    BY <1>1, <1>4 DEF ListsAre, ListChanged
  <1> QED BY <1>6, <1>7, BornIsHung DEF g, FreeNodes

\* A node that is made and freed again leaves no trace in the forest.
LEMMA MadeIsUnmade ==
  ASSUME HeldNow, NEW n \in FreeNodes, NEW made, Adds(heap, made, n, owned), Strung(made, {}),
         Fresh(heap, made, n), MayFree(made, n), heap' = FreeTree(made, n), owned' = owned
  PROVE  UNCHANGED Forest!vars
  <1> DEFINE Q == owned \cup {n}
             g == FreeTree(made, n)
  <1>1. /\ Held(made, Q) /\ n \in Q /\ Born(heap, made, n) /\ Lists(made) = Lists(heap)
        /\ Subtree(made, n) = {n}
    BY MadeHolds
  <1>2. /\ Whole(made, Q)
        /\ \A w \in made.refs \ Subtree(made, n) : made.child[w] \notin Subtree(made, n)
    BY <1>1 DEF Held, MayFree
  <1> HIDE DEF Q
  <1>3. ListsAre(g, Q \ {n}, Forest!Without(Lists(heap), {n}, <<>>))
    BY <1>1, <1>2, FreeTreeLists
  <1>4. TextsAre(g, Forest!Without(made.type, {n}, NULL),
                 Forest!Without(Keys(made), {n}, NULL), Forest!Without(Vals(made), {n}, NULL))
    BY <1>1, FreeTreeTexts
  <1> HIDE DEF g
  <1>5. PICK t, k, v : TextsAre(made, TypesChanged(heap, n, t), KeysChanged(heap, n, k), ValsChanged(heap, n, v))
    BY <1>1 DEF Born
  <1>6. /\ n \in Nodes /\ heap.type[n] = NULL /\ heap \in Heap /\ n \notin heap.refs /\ heap.child[n] = NULL
        /\ heap.string[n] = NULL /\ heap.valuestring[n] = NULL
    BY DEF FreeNodes, Live, HeldNow, Held, Whole, Sound, TypeOKIn
  <1>7. Lists(heap)[n] = <<>> /\ Keys(heap)[n] = NULL /\ Vals(heap)[n] = NULL
    <2>1. KidSeq(heap, n) = <<>>
      BY <1>6, NoKids DEF HeldNow, Held
    <2> QED BY <1>6, <2>1, TextsRead DEF Lists, HeldNow
  <1>8. Lists(g) = Lists(heap)
    <2>1. Forest!Without(Lists(heap), {n}, <<>>) = Lists(heap)
      BY <1>7 DEF Forest!Without, Lists
    <2> QED BY <1>3, <2>1 DEF ListsAre
  <1>9. g.type = heap.type
    <2>1. Forest!Without(TypesChanged(heap, n, t), {n}, NULL) = heap.type
      BY <1>6 DEF Forest!Without, TypesChanged, Heap
    <2> QED BY <1>4, <1>5, <2>1 DEF TextsAre
  <1>10. Keys(g) = Keys(heap)
    <2>1. Forest!Without(KeysChanged(heap, n, k), {n}, NULL) = Keys(heap)
      BY <1>7 DEF Forest!Without, KeysChanged, Keys
    <2> QED BY <1>4, <1>5, <2>1 DEF TextsAre
  <1>11. Vals(g) = Vals(heap)
    <2>1. Forest!Without(ValsChanged(heap, n, v), {n}, NULL) = Vals(heap)
      BY <1>7 DEF Forest!Without, ValsChanged, Vals
    <2> QED BY <1>4, <1>5, <2>1 DEF TextsAre
  <1> QED BY <1>8, <1>9, <1>10, <1>11 DEF Forest!vars, g

\* Adding a reference, and failing to.
LEMMA AddReferenceForest ==
  ASSUME "mutate_reference" \in Avoid, HeldNow, AddReference
  PROVE  [Forest!Next]_(Forest!vars)
  <1> SUFFICES ASSUME NEW p \in Live(heap) \ heap.refs, NEW item \in Live(heap), NEW r \in FreeNodes,
                      \/ AddItemReferenceToArray(p, item, r)
                      \/ \E name \in Utf8, b \in FreeBufs :
                           AddItemReferenceToObject(p, name, item, r, b)
                      \/ AddItemReferenceFails(p, item, r)
               PROVE  Forest!CreateIn(p, r) \/ UNCHANGED Forest!vars
    BY EditableOwns DEF AddReference, Forest!Next, FreeNodes, Live
  <1> DEFINE g == WrapAsReference(heap, r, item)
  <1>1. SoundNow /\ StrungNow /\ heap \in Heap /\ r \in Nodes \ Live(heap)
    BY DEF SoundNow, StrungNow, HeldNow, Held, Whole, Sound, TypeOKIn, FreeNodes
  <1>2. Adds(heap, g, r, owned)
    BY <1>1, WrapAdds DEF SoundNow
  <1>3. Strung(g, {}) /\ LiveBufs(g) = LiveBufs(heap)
    BY <1>1, WrapStrung DEF SoundNow, StrungNow
  <1>4. Fresh(heap, g, r)
    BY <1>1, WrapFresh
  <1>5. MayFree(g, r)
    BY <1>1, WrapMayFree
  <1> HIDE DEF g
  <1>6. CASE AddItemReferenceToArray(p, item, r)
    <2>1. heap.type[p] \in Containers /\ heap' = AttachChild(g, p, r) /\ owned' = owned
      BY <1>6 DEF AddItemReferenceToArray, Containers, g
    <2> QED BY <1>2, <1>3, <1>4, <2>1, MadeIsAttached
  <1>7. ASSUME NEW name \in Utf8, NEW b \in FreeBufs, AddItemReferenceToObject(p, name, item, r, b)
        PROVE  Forest!CreateIn(p, r)
    <2>1. /\ heap.type[p] \in Containers /\ heap' = AttachNamedChild(g, p, name, r, b) /\ owned' = owned
          /\ name \in Texts /\ b \in Bufs \ LiveBufs(g)
      BY <1>3, <1>7, HeapAssumption DEF AddItemReferenceToObject, Containers, FreeBufs, g
    <2> QED BY <1>2, <1>3, <1>4, <2>1, MadeIsNamed
  <1>8. CASE AddItemReferenceFails(p, item, r)
    <2>1. heap' = FreeTree(g, r) /\ owned' = owned
      BY <1>8 DEF AddItemReferenceFails, g
    <2> QED BY <1>2, <1>3, <1>4, <1>5, <2>1, MadeIsUnmade
  <1> QED BY <1>6, <1>7, <1>8

\* cJSON_Add<type>ToObject, and its failure.
LEMMA AddNewForest ==
  ASSUME "mutate_reference" \in Avoid, HeldNow, AddNew
  PROVE  [Forest!Next]_(Forest!vars)
  <1> SUFFICES ASSUME NEW n \in FreeNodes, NEW made \in NewItems(n),
                      \/ \E p \in Editable, name \in Utf8, b \in Bufs \ LiveBufs(made) :
                           AddNewToObject(p, name, n, made, b)
                      \/ AddNewFails(n, made)
               PROVE  (\E p \in Nodes : Forest!CreateIn(p, n)) \/ UNCHANGED Forest!vars
    BY DEF AddNew, Forest!Next, FreeNodes
  <1>1. SoundNow /\ StrungNow /\ heap \in Heap /\ n \in Nodes
    BY DEF SoundNow, StrungNow, HeldNow, Held, Whole, Sound, TypeOKIn, FreeNodes
  <1>2. Strung(made, {}) /\ Adds(heap, made, n, owned) /\ MayFree(made, n)
    BY <1>1, NewItemsStrung
  <1>3. Fresh(heap, made, n)
    <2>1. ASSUME NEW t \in Kinds \ Strings, made = NewNode(heap, n, t)
          PROVE  Fresh(heap, made, n)
      BY <1>1, <2>1, NewNodeFresh, CallerAssumption DEF Allocates
    <2>2. ASSUME NEW t \in Kinds \cap Strings, NEW s \in Utf8, NEW b \in FreeBufs,
                 made = StringItem(heap, t, s, n, b)
          PROVE  Fresh(heap, made, n)
      BY <1>1, <2>2, StringItemFresh, CallerAssumption, HeapAssumption DEF FreeBufs
    <2> QED BY <2>1, <2>2 DEF NewItems
  <1>4. ASSUME NEW p \in Editable, NEW name \in Utf8, NEW b \in Bufs \ LiveBufs(made),
               AddNewToObject(p, name, n, made, b)
        PROVE  \E q \in Nodes : Forest!CreateIn(q, n)
    <2>1. /\ p \in Live(heap) \ heap.refs /\ p \in Nodes /\ heap.type[p] \in Containers /\ name \in Texts
          /\ heap' = AttachNamedChild(made, p, name, n, b) /\ owned' = owned
      BY <1>4, EditableOwns, HeapAssumption DEF AddNewToObject, Containers, Live
    <2>2. Forest!CreateIn(p, n)
      BY <1>2, <1>3, <2>1, MadeIsNamed
    <2> QED BY <2>1, <2>2
  <1>5. CASE AddNewFails(n, made)
    <2>1. heap' = FreeTree(made, n) /\ owned' = owned
      BY <1>5 DEF AddNewFails
    <2> QED BY <1>2, <1>3, <2>1, MadeIsUnmade
  <1> QED BY <1>4, <1>5

\* cJSON_SetValuestring.
LEMMA SetStringForest ==
  ASSUME HeldNow, SetString
  PROVE  Forest!Next
  <1>1. PICK x \in Live(heap), s \in Pointers(heap), b \in FreeBufs : SetValuestring(x, s, b)
    BY DEF SetString
  <1> DEFINE c == NewText(heap, b, Deref(heap, s))
             f == FreeText(c, heap.valuestring[x])
             g == [f EXCEPT !.valuestring[x] = b]
  <1>2. /\ Whole(heap, owned) /\ Sound(heap, owned) /\ Held(heap, owned) /\ x \in Nodes
        /\ x \notin heap.refs /\ heap.type[x] = "String"
        /\ b \in Bufs /\ b \in Bufs \ LiveBufs(heap) /\ Deref(heap, s) \in Texts
        /\ \A w \in heap.refs : heap.valuestring[w] = NULL \/ heap.valuestring[w] # heap.valuestring[x]
        /\ heap' = g /\ owned' = owned
    BY <1>1, HeapAssumption DEF SetValuestring, HeldNow, Held, Whole, FreeBufs, Live
  <1>3. TextsAre(g, heap.type, Keys(heap), ValsChanged(heap, x, Deref(heap, s)))
    BY <1>2, RevalueTexts
  <1>4. Keeps(heap, c, owned)
    BY <1>2, NewTextSound
  <1> HIDE DEF c
  <1>5. Keeps(c, f, owned)
    BY <1>4, FreeTextSound DEF Keeps
  <1> HIDE DEF f
  <1>6. Keeps(f, g, owned)
    BY <1>2, <1>4, <1>5, SetValueSound DEF Keeps, Strings
  <1> HIDE DEF g
  <1>7. Keeps(heap, g, owned)
    BY <1>4, <1>5, <1>6 DEF Keeps
  <1>8. Lists(g) = Lists(heap)
    BY <1>2, <1>7, KeepsLists DEF ListsAre
  <1>9. /\ heap'.type = heap.type /\ Keys(heap') = Keys(heap)
        /\ Vals(heap') = [Vals(heap) EXCEPT ![x] = Deref(heap, s)]
    BY <1>2, <1>3 DEF TextsAre, ValsChanged
  <1>10. Forest!SetValue(x)
    BY <1>2, <1>8, <1>9 DEF Forest!SetValue
  <1> QED BY <1>2, <1>10 DEF Forest!Next

\* free_cjson(x), in a heap h whose sequences, texts and types are those of the
\* forest but for seqs and keys, discards the tree of x.
LEMMA FreedIsDiscarded ==
  ASSUME NEW h, NEW R, Held(h, R), NEW x \in R, MayFree(h, x), heap' = FreeTree(h, x),
         h.type = heap.type, Vals(h) = Vals(heap), NEW keys,
         \A n \in Nodes : n = x \/ Keys(h)[n] = keys[n]
  PROVE  Forest!Discard(Lists(h), keys, x)
  <1> DEFINE gone == Subtree(h, x)
             g == FreeTree(h, x)
  <1>1. Whole(h, R) /\ \A w \in h.refs \ Subtree(h, x) : h.child[w] \notin Subtree(h, x)
    BY DEF Held, MayFree
  <1>2. ListsAre(g, R \ {x}, Forest!Without(Lists(h), gone, <<>>))
    BY <1>1, FreeTreeLists
  <1>3. TextsAre(g, Forest!Without(h.type, gone, NULL), Forest!Without(Keys(h), gone, NULL),
                 Forest!Without(Vals(h), gone, NULL))
    BY FreeTreeTexts
  <1>4. gone = Forest!Tree(Lists(h), x) /\ x \in gone
    BY <1>1, TreeIsSubtree, SubtreeHasRoot DEF Whole, Sound, TypeOKIn, Live
  <1> HIDE DEF g, gone
  <1>5. Forest!Without(Keys(h), gone, NULL) = Forest!Without(keys, gone, NULL)
    BY <1>4 DEF Forest!Without
  <1>6. /\ Lists(heap') = Forest!Without(Lists(h), gone, <<>>)
        /\ heap'.type = Forest!Without(heap.type, gone, NULL)
        /\ Keys(heap') = Forest!Without(keys, gone, NULL)
        /\ Vals(heap') = Forest!Without(Vals(heap), gone, NULL)
    BY <1>2, <1>3, <1>5 DEF ListsAre, TextsAre, g
  <1> QED BY <1>4, <1>6 DEF Forest!Discard

\* Detaching and deleting.
LEMMA RemoveForest ==
  ASSUME "mutate_reference" \in Avoid, HeldNow, Remove
  PROVE  Forest!Next
  <1>0. Held(heap, owned) /\ Whole(heap, owned) /\ heap \in Heap
    BY DEF HeldNow, Held, Whole, Sound, TypeOKIn
  <1>1. ASSUME NEW x \in owned, Delete(x)
        PROVE  Forest!Next
    <2>1. MayFree(heap, x) /\ heap' = FreeTree(heap, x) /\ owned' = owned \ {x}
      BY <1>1 DEF Delete
    <2>2. Forest!Discard(Lists(heap), Keys(heap), x)
      BY <1>0, <2>1, FreedIsDiscarded
    <2>3. Forest!DiscardRoot(x)
      BY <2>1, <2>2 DEF Forest!DiscardRoot
    <2> QED BY <2>3 DEF Forest!Next
  <1>2. ASSUME NEW p \in Editable, NEW x \in Kids(heap, p),
               \/ DetachItemViaPointer(p, x)
               \/ \E which \in Indices : DetachItemFromArray(p, which, x)
               \/ \E which \in Indices : DeleteItemFromArray(p, which, x)
               \/ \E key \in Utf8, cs \in BOOLEAN : DetachItemFromObject(p, key, cs, x)
               \/ \E key \in Utf8, cs \in BOOLEAN : DeleteItemFromObject(p, key, cs, x)
        PROVE  Forest!Next
    <2> DEFINE cut == Detach(heap, p, x)
               Q == owned \cup {x}
    <2>1. DetachItemViaPointer(p, x) \/ DetachAndFree(p, x)
      BY <1>2
      DEF DetachItemFromArray, DeleteItemFromArray, DetachItemFromObject, DeleteItemFromObject
    <2>2. p \in Live(heap) \ heap.refs /\ p \in Nodes
      BY EditableOwns DEF Live
    <2>3. PICK i \in 1 .. Len(Lists(heap)[p]) : Lists(heap)[p][i] = x
      BY <1>0, <2>2, OwnList
    <2>4. ListsAre(cut, Q, ListChanged(heap, p, Forest!RemoveAt(Lists(heap)[p], i)))
      BY <1>0, <2>2, <2>3, DetachLists
    <2>5. Strung(cut, {})
      BY <1>0, SpliceAndCutLeaveStrings DEF Held
    <2>6. cut.type = heap.type /\ cut.string = heap.string /\ cut.valuestring = heap.valuestring /\ cut.text = heap.text
      BY <1>0 DEF Detach, Heap
    <2> HIDE DEF cut, Q
    <2>7. cut.type = heap.type /\ Keys(cut) = Keys(heap) /\ Vals(cut) = Vals(heap)
      BY <2>6, LinksLeaveTexts DEF TextsAre
    <2>8. Lists(cut) = [Lists(heap) EXCEPT ![p] = Forest!RemoveAt(@, i)]
      BY <2>4 DEF ListsAre, ListChanged
    <2>9. CASE DetachItemViaPointer(p, x)
      <3>1. heap' = cut /\ owned' = owned \cup {x}
        BY <2>9 DEF DetachItemViaPointer, cut
      <3>2. Forest!Release(p, i)
        BY <2>3, <2>7, <2>8, <3>1 DEF Forest!Release
      <3> QED BY <2>2, <2>3, <3>2 DEF Forest!Next
    <2>10. CASE DetachAndFree(p, x)
      <3>1. MayFree(cut, x) /\ heap' = FreeTree(cut, x) /\ owned' = owned
        BY <2>10 DEF DetachAndFree, cut
      <3>2. Held(cut, Q) /\ x \in Q
        BY <2>4, <2>5 DEF Held, ListsAre, Q
      <3>3. Forest!Discard(Lists(cut), Keys(heap), x)
        BY <2>7, <3>1, <3>2, FreedIsDiscarded
      <3>4. Forest!DiscardKid(p, i)
        BY <2>3, <2>8, <3>1, <3>3 DEF Forest!DiscardKid
      <3> QED BY <2>2, <2>3, <3>4 DEF Forest!Next
    <2> QED BY <2>1, <2>9, <2>10
  <1> QED BY <1>1, <1>2 DEF Remove

\* replace_via_pointer moves the key of x to r, unless r has one.
LEMMA TakePlaceTexts ==
  ASSUME NEW h, NEW R, Held(h, R), NEW p, NEW x \in Nodes, NEW r \in Nodes, x # r
  PROVE  LET g == TakePlace(h, p, x, r)
         IN /\ g.type = h.type /\ Vals(g) = Vals(h)
            /\ \A n \in Nodes :
                 \/ n = x
                 \/ Keys(g)[n] = KeysChanged(h, r, IF Keys(h)[r] = NULL THEN Keys(h)[x] ELSE Keys(h)[r])[n]
  <1> DEFINE g == TakePlace(h, p, x, r)
             moves == h.string[x] # NULL /\ h.string[r] = NULL
  <1>1. h \in Heap
    BY DEF Held, Whole, Sound, TypeOKIn
  <1>2. /\ g.type = h.type /\ g.valuestring = h.valuestring /\ g.text = h.text
        /\ g.string = IF moves THEN [h.string EXCEPT ![r] = h.string[x], ![x] = NULL] ELSE h.string
    BY <1>1 DEF TakePlace, Heap
  <1> HIDE DEF g
  <1>3. Vals(g) = Vals(h)
    BY <1>2 DEF Vals, Deref
  <1>4. /\ Keys(h)[r] = NULL <=> h.string[r] = NULL
        /\ Keys(h)[x] = NULL <=> h.string[x] = NULL
    BY TextsRead
  <1>5. ASSUME NEW n \in Nodes \ {x, r}
        PROVE  Keys(g)[n] = Keys(h)[n]
    BY <1>1, <1>2 DEF Keys, Deref, Heap
  <1>6. Keys(g)[r] = IF Keys(h)[r] = NULL THEN Keys(h)[x] ELSE Keys(h)[r]
    <2>1. CASE moves
      <3>1. g.string[r] = h.string[x]
        BY <1>1, <1>2, <2>1 DEF Heap
      <3>2. Keys(g)[r] = Keys(h)[x]
        BY <1>2, <3>1 DEF Keys, Deref
      <3> QED BY <1>4, <2>1, <3>2
    <2>2. CASE ~moves
      <3>1. Keys(g)[r] = Keys(h)[r]
        BY <1>2, <2>2 DEF Keys, Deref
      <3> QED BY <1>4, <2>2, <3>1
    <2> QED BY <2>1, <2>2
  <1>7. ASSUME NEW n \in Nodes, n # x
        PROVE  Keys(g)[n] = KeysChanged(h, r, IF Keys(h)[r] = NULL THEN Keys(h)[x] ELSE Keys(h)[r])[n]
    BY <1>5, <1>6, <1>7 DEF KeysChanged, Keys
  <1> QED BY <1>2, <1>3, <1>7 DEF g

\* Replacing a kid by a root, unless that moves a borrowed key.
LEMMA ReplaceForest ==
  ASSUME "mutate_reference" \in Avoid, "replace_const_key" \in Avoid, HeldNow, Replace
  PROVE  Forest!Next
  <1>1. PICK r \in owned : \E p \in Places(r) : \E x \in Kids(heap, p) :
                             MayReplace(x, r) /\ ReplaceItemViaPointer(p, x, r)
    BY DEF Replace, ReplaceItemInArray, ReplaceItemInObject
  <1>2. PICK p \in Places(r) : \E x \in Kids(heap, p) :
                             MayReplace(x, r) /\ ReplaceItemViaPointer(p, x, r)
    BY <1>1
  <1>3. PICK x \in Kids(heap, p) : MayReplace(x, r) /\ ReplaceItemViaPointer(p, x, r)
    BY <1>2
  <1> DEFINE placed == TakePlace(heap, p, x, r)
             Q == (owned \ {r}) \cup {x}
             keys == KeysChanged(heap, r, IF Keys(heap)[r] = NULL THEN Keys(heap)[x] ELSE Keys(heap)[r])
  <1>4. /\ Held(heap, owned) /\ Whole(heap, owned) /\ Sound(heap, owned) /\ Strung(heap, {})
        /\ p \in Live(heap) \ heap.refs /\ p \notin Subtree(heap, r) /\ p \in Nodes
    BY EditableOwns DEF HeldNow, Held, Whole, Places, Live
  <1>5. x \in Nodes /\ r \in Nodes /\ x # r
    BY <1>4, KidsAreKids DEF Live, Sound, TypeOKIn
  <1>6. PICK i \in 1 .. Len(Lists(heap)[p]) : Lists(heap)[p][i] = x
    BY <1>4, OwnList
  <1>7. ListsAre(placed, Q, ListChanged(heap, p, Forest!ReplaceAt(Lists(heap)[p], i, r)))
    BY <1>4, <1>6, TakePlaceLists
  <1>8. Strung(placed, {})
    BY <1>3, <1>4, TakePlaceStrung DEF MayReplace
  <1>9. /\ placed.type = heap.type /\ Vals(placed) = Vals(heap)
        /\ \A n \in Nodes : n = x \/ Keys(placed)[n] = keys[n]
    BY <1>4, <1>5, TakePlaceTexts
  <1>10. MayFree(placed, x) /\ heap' = FreeTree(placed, x) /\ owned' = owned \ {r}
    BY <1>3 DEF ReplaceItemViaPointer
  <1>11. keys = [Keys(heap) EXCEPT ![r] = IF @ = NULL THEN Keys(heap)[x] ELSE @]
    BY DEF KeysChanged
  <1> HIDE DEF placed, Q, keys
  <1>12. Held(placed, Q) /\ x \in Q
    BY <1>7, <1>8 DEF Held, ListsAre, Q
  <1>13. Forest!Discard(Lists(placed), keys, x)
    BY <1>9, <1>10, <1>12, FreedIsDiscarded
  <1>14. Lists(placed) = [Lists(heap) EXCEPT ![p] = Forest!ReplaceAt(@, i, r)]
    BY <1>7 DEF ListsAre, ListChanged
  <1>15. p \notin Forest!Tree(Lists(heap), r)
    BY <1>4, TreeIsSubtree
  <1>16. Forest!Replace(p, i, r)
    BY <1>6, <1>10, <1>11, <1>13, <1>14, <1>15 DEF Forest!Replace
  <1> QED BY <1>4, <1>6, <1>16 DEF Forest!Next

-----------------------------------------------------------------------------
(* The refinement *)

\* No node, no tree.
LEMMA InitForest ==
  Init => HeldNow /\ Forest!Init
  <1> SUFFICES ASSUME Init
               PROVE  HeldNow /\ Forest!Init
    OBVIOUS
  <1>1. HeldNow
    BY InitStrung, InitReached DEF SoundAndStrung, SoundAndReached, SoundNow, StrungNow, ReachedNow, HeldNow, Held, Whole
  <1>2. /\ heap = EmptyHeap /\ owned = {} /\ heap.type = [n \in Nodes |-> NULL]
        /\ \A n \in Nodes : heap.child[n] = NULL /\ heap.string[n] = NULL /\ heap.valuestring[n] = NULL
    BY DEF Init, EmptyHeap
  <1>3. \A n \in Nodes : KidSeq(heap, n) = <<>>
    BY <1>1, <1>2, NoKids DEF HeldNow, Held
  <1>4. Lists(heap) = [n \in Nodes |-> <<>>]
    BY <1>3 DEF Lists
  <1>5. Keys(heap) = [n \in Nodes |-> NULL] /\ Vals(heap) = [n \in Nodes |-> NULL]
    BY <1>2, HeapAssumption DEF Keys, Vals, Deref
  <1> QED BY <1>1, <1>2, <1>4, <1>5 DEF Forest!Init

\* Each call is the step of the forest it promises, or none.
LEMMA StepForest ==
  ASSUME "mutate_reference" \in Avoid, "replace_const_key" \in Avoid
  PROVE  HeldNow /\ [Next]_vars => HeldNow' /\ [Forest!Next]_(Forest!vars)
  <1> SUFFICES ASSUME HeldNow, [Next]_vars
               PROVE  HeldNow' /\ [Forest!Next]_(Forest!vars)
    OBVIOUS
  <1>1. HeldNow'
    <2>1. SoundAndStrung /\ SoundAndReached
      BY DEF SoundAndStrung, SoundAndReached, SoundNow, StrungNow, ReachedNow, HeldNow, Held, Whole
    <2>2. SoundAndStrung' /\ SoundAndReached'
      BY <2>1, StepStrung, StepReached
    <2> QED BY <2>2 DEF SoundAndStrung, SoundAndReached, SoundNow, StrungNow, ReachedNow, HeldNow, Held, Whole
  <1>2. CASE Next
    BY <1>1, <1>2, CreateForest, AdoptForest, AddReferenceForest, AddNewForest, RemoveForest,
       ReplaceForest, SetStringForest
    DEF Next
  <1>3. CASE UNCHANGED vars
    BY <1>1, <1>3 DEF vars, Forest!vars
  <1> QED BY <1>1, <1>2, <1>3

\* The tree API implements the forest.  Every call that the caller may make,
\* from cJSON_Create* to cJSON_SetValuestring, does to the sequences and texts
\* what JsonForest says and nothing else: siblings keep their order, the item
\* lands at its place, no other list or text changes, a deleted tree goes whole
\* and alone, and a call that fails after it has allocated leaves no trace.
\* For a caller that edits no reference and moves no borrowed key.
THEOREM CallsActOnAForest ==
  ASSUME "mutate_reference" \in Avoid, "replace_const_key" \in Avoid
  PROVE  Spec => ImplementsForest
  <1>1. Init => HeldNow /\ Forest!Init
    BY InitForest
  <1>2. HeldNow /\ [Next]_vars => HeldNow' /\ [Forest!Next]_(Forest!vars)
    BY StepForest
  <1> QED BY <1>1, <1>2, PTL DEF Spec, ImplementsForest, Forest!Spec
=============================================================================
