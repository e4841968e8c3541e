----------------------------- MODULE AllocHooks -----------------------------
(***************************************************************************)
(* The two hook slots, the blocks that went through them, and what threads *)
(* can see of a Relaxed atomic. A slot is the sequence of all it was ever  *)
(* given. A thread loads any of them from the last it has seen on; what it *)
(* sees is made up for only by the caller's own synchronisation.           *)
(***************************************************************************)
EXTENDS Integers, Sequences

CONSTANTS
  Threads,
  Blocks,
  Functions,  \* malloc and free functions, the caller's and libc's
  LibC,
  Home,       \* the allocator that a function belongs to
  NULL

ASSUME LibCAssumption == LibC \in Functions
ASSUME NULLAssumption == NULL \notin Functions
ASSUME HomeAssumption == \A f \in Functions : Home[f] # NULL

VARIABLES
  slots,   \* MALLOC_HOOK and FREE_HOOK
  seen,    \* the youngest entry of each slot that a thread has seen
  blocks,  \* the allocator a live block came from, NULL if it is not live
  strays   \* blocks that went to a free of another allocator

hookVars == <<slots, seen, blocks, strays>>

Slots == {"malloc", "free"}
Pointers == Functions \cup {NULL}

\* An empty slot stands for libc.
Called(p) == IF p = NULL THEN LibC ELSE p
HomeAt(s, i) == Home[Called(slots[s][i])]
Newest(s) == Len(slots[s])

Visible(t, s) == seen[t][s]..Newest(s)

Live == {b \in Blocks : blocks[b] # NULL}

-----------------------------------------------------------------------------
HookInit ==
  /\ slots = [s \in Slots |-> <<NULL>>]
  /\ seen = [t \in Threads |-> [s \in Slots |-> 1]]
  /\ blocks = [b \in Blocks |-> NULL]
  /\ strays = {}

See(t, s, i) == seen' = [seen EXCEPT ![t][s] = i]

\* (Mutant of Store: NULL leaves the slot as it is.)
StoreNonNull(t, s, p) ==
  /\ slots' = IF p = NULL THEN slots ELSE [slots EXCEPT ![s] = Append(@, p)]
  /\ IF p = NULL THEN UNCHANGED seen ELSE See(t, s, Newest(s) + 1)
  /\ UNCHANGED <<blocks, strays>>

\* One store of set_hooks.
Store(t, s, p) ==
  /\ slots' = [slots EXCEPT ![s] = Append(@, p)]
  /\ See(t, s, Newest(s) + 1)
  /\ UNCHANGED <<blocks, strays>>

\* hook_malloc
HookMalloc(t, b) ==
  /\ b \notin Live
  /\ \E i \in Visible(t, "malloc") :
       /\ See(t, "malloc", i)
       /\ blocks' = [blocks EXCEPT ![b] = HomeAt("malloc", i)]
  /\ UNCHANGED <<slots, strays>>

HookMallocFails(t) ==
  /\ \E i \in Visible(t, "malloc") : See(t, "malloc", i)
  /\ UNCHANGED <<slots, blocks, strays>>

\* (Mutant of HookFree: libc's free whatever the hook is.)
HookFreeLibC(t, b) ==
  /\ strays' = IF Home[LibC] = blocks[b] THEN strays ELSE strays \cup {b}
  /\ blocks' = [blocks EXCEPT ![b] = NULL]
  /\ UNCHANGED <<slots, seen>>

\* hook_free
HookFree(t, b) ==
  /\ \E i \in Visible(t, "free") :
       /\ See(t, "free", i)
       /\ strays' = IF HomeAt("free", i) = blocks[b] THEN strays ELSE strays \cup {b}
  /\ blocks' = [blocks EXCEPT ![b] = NULL]
  /\ UNCHANGED slots

\* The caller makes what t has done so far happen before what u does next: it
\* takes a lock, joins a thread, hands over a tree.
Synchronise(t, u) ==
  /\ seen' = [seen EXCEPT ![u] =
       [s \in Slots |-> IF seen[t][s] > seen[u][s] THEN seen[t][s] ELSE seen[u][s]]]
  /\ UNCHANGED <<slots, blocks, strays>>
=============================================================================
