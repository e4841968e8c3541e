------------------------------ MODULE CJsonTree ------------------------------
(***************************************************************************)
(* The API that builds and edits trees: cJSON_Create*, cJSON_Add*,         *)
(* cJSON_Insert*, cJSON_Replace*, cJSON_Detach*, cJSON_Delete*,            *)
(* cJSON_Duplicate(item, 0) and cJSON_SetValuestring, one action a call,   *)
(* made by a caller that keeps to the contract below.                      *)
(*                                                                         *)
(* A call that allocates needs free cells, and malloc may fail while there *)
(* are some: the call then returns NULL or false.  When it leaves the heap *)
(* as it was that is a stuttering step, and not written; when it first has *)
(* to take back what it built it is an action of its own.                  *)
(***************************************************************************)
EXTENDS CJsonNodes

CONSTANTS
  Kinds,   \* the types of node the caller creates
  Avoid    \* the hazardous calls the caller stays away from

Hazards == {"mutate_reference", "replace_const_key"}

ASSUME CallerAssumption ==
  /\ Kinds \subseteq Types
  /\ Avoid \subseteq Hazards

VARIABLES
  heap,
  owned    \* the roots: nodes the caller has to delete or to hand over

vars == <<heap, owned>>

Init == heap = EmptyHeap /\ owned = {}

FreeNodes == Nodes \ Live(heap)
FreeBufs == Bufs \ LiveBufs(heap)

-----------------------------------------------------------------------------
(* The caller's contract *)

\* The lists the caller edits: not those of references if it avoids that.
Editable ==
  IF "mutate_reference" \in Avoid THEN Live(heap) \ heap.refs ELSE Live(heap)

\* Where the caller may hang its root x: not below x itself.
Places(x) == Editable \ Subtree(heap, x)

\* r may come into the place of x: a caller that avoids it does not have a
\* borrowed key moved.
MayReplace(x, r) ==
  "replace_const_key" \in Avoid => x \notin heap.consts \/ heap.string[r] # NULL

-----------------------------------------------------------------------------
(* Constructors *)

\* cJSON_CreateNull, True, False, Bool, Number, Array, Object.
CreateItem(t, n) ==
  /\ t \in Kinds \ Strings
  /\ heap' = NewNode(heap, n, t)
  /\ owned' = owned \cup {n}

\* cJSON_CreateString, cJSON_CreateRaw, which refuse a string that is not
\* UTF-8.
CreateString(t, s, n, b) ==
  /\ t \in Kinds \cap Strings
  /\ heap' = StringItem(heap, t, s, n, b)
  /\ owned' = owned \cup {n}

\* The string is the caller's and need not be UTF-8.
CreateStringReference(s, n) ==
  /\ "String" \in Kinds
  /\ heap' = [NewReference(heap, n, "String") EXCEPT !.valuestring[n] = s]
  /\ owned' = owned \cup {n}

\* cJSON_CreateArrayReference, cJSON_CreateObjectReference: of any node, or
\* of none.
CreateContainerReference(t, c, n) ==
  /\ t \in Kinds \cap Containers
  /\ heap' = [NewReference(heap, n, t) EXCEPT !.child[n] = c]
  /\ owned' = owned \cup {n}

\* cJSON_Duplicate(item, 0): bv and bk are NULL where there is nothing to copy.
DuplicateShallow(item, n, bv, bk) ==
  /\ bv = NULL <=> ~Copied(heap, heap.valuestring[item])
  /\ bk = NULL <=> ~Copied(heap, heap.string[item])
  /\ bv = bk => bv = NULL
  /\ heap' = CopyNode(heap, n, item, bv, bk)
  /\ owned' = owned \cup {n}

-----------------------------------------------------------------------------
(* Adding *)

\* (Mutant of AddItemToArray: the type of p is not checked.)
AddItemToAnything(p, x) ==
  /\ heap' = AttachChild(heap, p, x)
  /\ owned' = owned \ {x}

AddItemToArray(p, x) ==
  /\ heap.type[p] = "Array"
  /\ heap' = AttachChild(heap, p, x)
  /\ owned' = owned \ {x}

\* name may be any readable string: the item's own key too.  (A string that a
\* call only copies or compares is as good as its text, so the other actions
\* take texts.)
AddItemToObject(p, name, x, b) ==
  /\ heap.type[p] = "Object"
  /\ Deref(heap, name) \in Utf8
  /\ heap' = AttachNamedChild(heap, p, name, x, b)
  /\ owned' = owned \ {x}

\* (Mutant of AddItemToObjectCS: the item's old key is not freed.)
AddItemToObjectCSLosingKey(p, name, x) ==
  /\ heap.type[p] = "Object"
  /\ heap' = AttachChild([heap EXCEPT !.consts = @ \cup {x}, !.string[x] = name], p, x)
  /\ owned' = owned \ {x}

\* The name is borrowed, so it is one of the caller's own strings; it is not
\* checked to be UTF-8.
AddItemToObjectCS(p, name, x) ==
  /\ heap.type[p] = "Object"
  /\ heap' = AttachChild([FreeKey(heap, x) EXCEPT !.consts = @ \cup {x}, !.string[x] = name], p, x)
  /\ owned' = owned \ {x}

AddItemReferenceToArray(p, item, r) ==
  /\ heap.type[p] = "Array"
  /\ heap' = AttachChild(WrapAsReference(heap, r, item), p, r)
  /\ UNCHANGED owned

AddItemReferenceToObject(p, name, item, r, b) ==
  /\ heap.type[p] = "Object"
  /\ heap' = AttachNamedChild(WrapAsReference(heap, r, item), p, name, r, b)
  /\ UNCHANGED owned

\* The name is not UTF-8 or cannot be copied: the wrapper is freed again.
AddItemReferenceFails(p, item, r) ==
  /\ heap.type[p] = "Object"
  /\ heap' = FreeTree(WrapAsReference(heap, r, item), r)
  /\ UNCHANGED owned

\* The heaps in which cJSON_Add<type>ToObject has created its item n.
NewItems(n) ==
  {NewNode(heap, n, t) : t \in Kinds \ Strings} \cup
  {StringItem(heap, t, s, n, b) :
     t \in Kinds \cap Strings, s \in Utf8, b \in FreeBufs}

\* cJSON_AddNullToObject ... cJSON_AddArrayToObject.
AddNewToObject(p, name, n, made, b) ==
  /\ heap.type[p] = "Object"
  /\ heap' = AttachNamedChild(made, p, name, n, b)
  /\ UNCHANGED owned

\* (Mutant of AddNewFails: the item is not deleted.)
AddNewFailsSilently(n, made) ==
  /\ heap' = made
  /\ UNCHANGED owned

\* p is no object, or the name is not UTF-8 or cannot be copied: add_to_object
\* deletes the item.
AddNewFails(n, made) ==
  /\ heap' = FreeTree(made, n)
  /\ UNCHANGED owned

-----------------------------------------------------------------------------
(* Detaching and deleting *)

DetachItemViaPointer(p, x) ==
  /\ heap' = Detach(heap, p, x)
  /\ owned' = owned \cup {x}

DetachItemFromArray(p, which, x) ==
  ChildAt(heap, p, which) = x /\ DetachItemViaPointer(p, x)

\* cJSON_DetachItemFromObject, cs = FALSE, and its CaseSensitive form.
DetachItemFromObject(p, key, cs, x) ==
  IsObjectItem(heap, p, key, cs, x) /\ DetachItemViaPointer(p, x)

Delete(x) ==
  /\ MayFree(heap, x)
  /\ heap' = FreeTree(heap, x)
  /\ owned' = owned \ {x}

\* (Mutant of DetachAndFree: the item is freed where it hangs.)
FreeInPlace(p, x) ==
  /\ MayFree(heap, x)
  /\ heap' = FreeTree(heap, x)
  /\ UNCHANGED owned

\* Detach and free, in one call.
DetachAndFree(p, x) ==
  LET cut == Detach(heap, p, x)
  IN /\ MayFree(cut, x)
     /\ heap' = FreeTree(cut, x)
     /\ UNCHANGED owned

DeleteItemFromArray(p, which, x) ==
  ChildAt(heap, p, which) = x /\ DetachAndFree(p, x)

DeleteItemFromObject(p, key, cs, x) ==
  IsObjectItem(heap, p, key, cs, x) /\ DetachAndFree(p, x)

-----------------------------------------------------------------------------
(* Inserting and replacing *)

\* cJSON_InsertItemInArray, when there is a kid at the index.
InsertItemInArray(p, which, r, at) ==
  /\ heap.type[p] = "Array"
  /\ ChildAt(heap, p, which) = at
  /\ heap' = SpliceBefore(heap, p, at, r)
  /\ owned' = owned \ {r}

\* cJSON_InsertItemInArray, past the end.
InsertItemPastEnd(p, which, r) ==
  /\ ChildAt(heap, p, which) = NULL
  /\ AddItemToArray(p, r)

ReplaceItemViaPointer(p, x, r) ==
  LET placed == TakePlace(heap, p, x, r)
  IN /\ MayFree(placed, x)
     /\ heap' = FreeTree(placed, x)
     /\ owned' = owned \ {r}

ReplaceItemInArray(p, which, x, r) ==
  ChildAt(heap, p, which) = x /\ ReplaceItemViaPointer(p, x, r)

ReplaceItemInObject(p, key, cs, x, r) ==
  IsObjectItem(heap, p, key, cs, x) /\ ReplaceItemViaPointer(p, x, r)

-----------------------------------------------------------------------------
(* Strings *)

\* The new buffer is filled before the old one is freed, so s may be the old
\* value.  Rejected for a reference, and for anything but a string.
SetValuestring(x, s, b) ==
  /\ heap.type[x] = "String"
  /\ x \notin heap.refs
  /\ Deref(heap, s) \in Utf8
  /\ \A w \in heap.refs : heap.valuestring[w] = NULL \/ heap.valuestring[w] # heap.valuestring[x]
  /\ heap' = [FreeText(NewText(heap, b, Deref(heap, s)), heap.valuestring[x])
                EXCEPT !.valuestring[x] = b]
  /\ UNCHANGED owned

-----------------------------------------------------------------------------
(* The calls of a caller that keeps the contract *)

Indices == 0 .. Cardinality(Nodes)

Create ==
  \E n \in FreeNodes :
    \/ \E t \in Types : CreateItem(t, n)
    \/ \E t \in Types, s \in Utf8, b \in FreeBufs : CreateString(t, s, n, b)
    \/ \E s \in Texts : CreateStringReference(s, n)
    \/ \E t \in Types, c \in Live(heap) \cup {NULL} : CreateContainerReference(t, c, n)
    \/ \E item \in Live(heap), bv, bk \in FreeBufs \cup {NULL} : DuplicateShallow(item, n, bv, bk)

Adopt ==
  \E x \in owned : \E p \in Places(x) :
    \/ AddItemToArray(p, x)
    \/ \E name \in Pointers(heap), b \in FreeBufs : AddItemToObject(p, name, x, b)
    \/ \E name \in Texts : AddItemToObjectCS(p, name, x)
    \/ \E which \in Indices : InsertItemPastEnd(p, which, x)
    \/ \E at \in Kids(heap, p), which \in Indices : InsertItemInArray(p, which, x, at)

AddReference ==
  \E p \in Editable, item \in Live(heap), r \in FreeNodes :
    \/ AddItemReferenceToArray(p, item, r)
    \/ \E name \in Utf8, b \in FreeBufs : AddItemReferenceToObject(p, name, item, r, b)
    \/ AddItemReferenceFails(p, item, r)

AddNew ==
  \E n \in FreeNodes : \E made \in NewItems(n) :
    \/ \E p \in Editable, name \in Utf8, b \in Bufs \ LiveBufs(made) :
         AddNewToObject(p, name, n, made, b)
    \/ AddNewFails(n, made)

Remove ==
  \/ \E x \in owned : Delete(x)
  \/ \E p \in Editable : \E x \in Kids(heap, p) :
       \/ DetachItemViaPointer(p, x)
       \/ \E which \in Indices : DetachItemFromArray(p, which, x)
       \/ \E which \in Indices : DeleteItemFromArray(p, which, x)
       \/ \E key \in Utf8, cs \in BOOLEAN : DetachItemFromObject(p, key, cs, x)
       \/ \E key \in Utf8, cs \in BOOLEAN : DeleteItemFromObject(p, key, cs, x)

Replace ==
  \E r \in owned : \E p \in Places(r) : \E x \in Kids(heap, p) :
    /\ MayReplace(x, r)
    /\ \/ ReplaceItemViaPointer(p, x, r)
       \/ \E which \in Indices : ReplaceItemInArray(p, which, x, r)
       \/ \E key \in Utf8, cs \in BOOLEAN : ReplaceItemInObject(p, key, cs, x, r)

SetString ==
  \E x \in Live(heap), s \in Pointers(heap), b \in FreeBufs : SetValuestring(x, s, b)

Next == Create \/ Adopt \/ AddReference \/ AddNew \/ Remove \/ Replace \/ SetString

Spec == Init /\ [][Next]_vars

-----------------------------------------------------------------------------
(* What every call keeps *)

\* The fields have their types, a free cell holds nothing, only containers
\* have children and only strings have a valuestring.
TypeOK == TypeOKIn(heap, owned)

\* No live node and no reference holds a pointer to freed memory, whatever was
\* freed by free_cjson, by a replaced key or by cJSON_SetValuestring.
NoDangling == LinksLiveIn(heap) /\ StringsLiveIn(heap)

\* next and prev mirror each other, after a splice at the head, in the middle
\* or at the tail as much as after an append: detach relies on it.
DoublyLinked == DoublyLinkedIn(heap)

\* Every node is freed by exactly one party: the caller for a root, which hangs
\* in no list; the one parent that owns its children for the first of a list;
\* and, with DoublyLinked, its only left neighbour for any other.
OneOwner == OneOwnerIn(heap, owned)

\* cJSON_Delete of the roots would free every node: no call drops a node, and
\* none ties a cycle that no root reaches.
NoLeak == Live(heap) \subseteq UNION {Subtree(heap, x) : x \in owned}

\* A string buffer is freed exactly once: the values of nodes that are not
\* references and the keys that are not const hold each live buffer once, and
\* hold nothing else.  So hook_free never gets a caller's string.
StringsOwnedOnce == StringsOwnedOnceIn(heap)

-----------------------------------------------------------------------------
(* What comments promise and the code does not keep *)

\* "Constant-string variant: borrows the caller's name pointer": a key that is
\* the caller's string is flagged const, so that free_cjson leaves it alone.
\* replace_via_pointer moves such a key to a node without the flag.
BorrowedKeysStayFlagged ==
  \A n \in Live(heap) : heap.string[n] \in Texts => n \in heap.consts

\* "Preserve the original key on the replacement (for object members)": the
\* replacement of a member answers to the member's key.  One that has a key
\* of its own keeps that instead.
ReplacementTakesKey ==
  [][\A r \in owned \ owned' : \A p \in Places(r) : \A x \in Kids(heap, p) :
       (heap.type[p] = "Object" /\ heap.string[x] # NULL /\ ReplaceItemViaPointer(p, x, r))
       => Deref(heap', heap'.string[r]) = Deref(heap, heap.string[x])]_vars

\* "child becomes owned by array": every node that is not a root is freed with
\* one.  Added to an empty reference it is not: free_cjson skips the children
\* of a reference.
AdoptedIsOwned ==
  \A n \in Live(heap) \ owned : \E x \in owned : n \in Subtree(heap, x)
=============================================================================
