----------------------------- MODULE JsonForest -----------------------------
(***************************************************************************)
(* What the tree API promises, without pointers: a forest of JSON items,   *)
(* each container an ordered sequence of kids, each item with the text of  *)
(* its key and of its value.  An item is in exactly one place: among the   *)
(* roots, or in one sequence.  A call puts a root into a sequence, takes a *)
(* kid out of one, or discards a whole tree; nothing else moves.           *)
(***************************************************************************)
EXTENDS SequencesExt

CONSTANTS Items, Texts, Kinds, NULL

VARIABLES
  roots,   \* the items in no sequence
  kind,    \* NULL for an item that does not exist
  kids,    \* the sequence of each container
  key,     \* the text of the member name, or NULL
  val      \* the text of the value, or NULL

vars == <<roots, kind, kids, key, val>>

Init ==
  /\ roots = {}
  /\ kind = [i \in Items |-> NULL]
  /\ kids = [i \in Items |-> <<>>]
  /\ key = [i \in Items |-> NULL]
  /\ val = [i \in Items |-> NULL]

Exists(i) == kind[i] # NULL

\* The tree of x in the sequences seqs.
Tree(seqs, x) ==
  LET closed == {S \in SUBSET Items : x \in S /\ \A i \in S : ToSet(seqs[i]) \subseteq S}
  IN {i \in Items : \A S \in closed : i \in S}

Without(f, gone, blank) == [i \in Items |-> IF i \in gone THEN blank ELSE f[i]]

-----------------------------------------------------------------------------
Maybe == Texts \cup {NULL}

Born(x) ==
  /\ ~Exists(x)
  /\ \E t \in Kinds : kind' = [kind EXCEPT ![x] = t]
  /\ \E k \in Maybe : key' = [key EXCEPT ![x] = k]
  /\ \E v \in Maybe : val' = [val EXCEPT ![x] = v]

\* A new root.
Create(x) ==
  /\ Born(x)
  /\ roots' = roots \cup {x}
  /\ UNCHANGED kids

\* A new kid, at the end.
CreateIn(p, x) ==
  /\ Exists(p)
  /\ Born(x)
  /\ roots' = roots
  /\ kids' = [kids EXCEPT ![p] = Append(@, x)]

\* A root becomes a kid of p: anywhere in an array, its key untouched; at the
\* end of an object, under a new key.
Adopt(p, x) ==
  /\ roots' = roots \ {x}
  /\ UNCHANGED <<kind, val>>
  /\ \E at \in 1 .. Len(kids[p]) + 1 :
       /\ kids' = [kids EXCEPT ![p] = InsertAt(@, at, x)]
       /\ \/ kind[p] = "Array" /\ UNCHANGED key
          \/ /\ kind[p] = "Object" /\ at = Len(kids[p]) + 1
             /\ \E k \in Texts : key' = [key EXCEPT ![x] = k]
  /\ p \notin Tree(kids, x)

\* A kid becomes a root.
Release(p, at) ==
  /\ UNCHANGED <<kind, key, val>>
  /\ roots' = roots \cup {kids[p][at]}
  /\ kids' = [kids EXCEPT ![p] = RemoveAt(@, at)]

\* The trees in seqs, with their keys in keys, lose the tree of x.
Discard(seqs, keys, x) ==
  LET gone == Tree(seqs, x)
  IN /\ kind' = Without(kind, gone, NULL)
     /\ key' = Without(keys, gone, NULL)
     /\ val' = Without(val, gone, NULL)
     /\ kids' = Without(seqs, gone, <<>>)

DiscardRoot(x) ==
  /\ roots' = roots \ {x}
  /\ Discard(kids, key, x)

DiscardKid(p, at) ==
  /\ roots' = roots
  /\ Discard([kids EXCEPT ![p] = RemoveAt(@, at)], key, kids[p][at])

\* The root r takes the place of a kid, and its key unless r has one.
Replace(p, at, r) ==
  /\ roots' = roots \ {r}
  /\ p \notin Tree(kids, r)
  /\ Discard([kids EXCEPT ![p] = ReplaceAt(@, at, r)],
             [key EXCEPT ![r] = IF @ = NULL THEN key[kids[p][at]] ELSE @],
             kids[p][at])

SetValue(x) ==
  /\ kind[x] = "String"
  /\ UNCHANGED <<roots, kind, key>>
  /\ \E v \in Texts : val' = [val EXCEPT ![x] = v]
  /\ UNCHANGED kids

Next ==
  \/ \E x \in Items : Create(x) \/ SetValue(x)
  \/ \E p, x \in Items : CreateIn(p, x)
  \/ \E x \in roots, p \in Items : Adopt(p, x)
  \/ \E x \in roots : DiscardRoot(x)
  \/ \E p \in Items : \E at \in 1 .. Len(kids[p]) :
       \/ Release(p, at)
       \/ DiscardKid(p, at)
       \/ \E r \in roots : Replace(p, at, r)

Spec == Init /\ [][Next]_vars
=============================================================================
