---------------------------- MODULE CJsonThreads ----------------------------
(***************************************************************************)
(* Threads that parse, delete trees, hand them on and exchange the hooks,  *)
(* and the last error that each of them keeps. A call is one step per      *)
(* access to a hook.                                                       *)
(***************************************************************************)
EXTENDS AllocHooks, FiniteSets

CONSTANTS
  Hooks,      \* the arguments of cJSON_InitHooks, [malloc |-> .., free |-> ..]
  MaxCalls,   \* bound: how often it is called
  MaxNodes    \* bound: blocks of a tree

ASSUME HooksAssumption == Hooks \subseteq [Slots -> Pointers]

VARIABLES
  pc,         \* "idle", or in a call: "hooks", "build", "release"
  pending,    \* the pointer that cJSON_InitHooks has still to store
  size,       \* how many blocks the tree needs that is being built
  taken,      \* the blocks that a call has in hand
  held,       \* the blocks of the tree that the caller has
  lastError,  \* LAST_ERROR_PTR: whether it is set
  told,       \* what cJSON_Parse last returned on this thread
  asked,      \* the allocators that cJSON_InitHooks was called for, libc's first
  knows       \* the last of them that a thread has heard of

callVars == <<pc, pending, size, taken, held, lastError, told, asked, knows>>
vars == <<hookVars, callVars>>

InitHooksOf(hooks) == IF hooks = NULL THEN [s \in Slots |-> NULL] ELSE hooks

-----------------------------------------------------------------------------
(* The caller's contract *)

Latest == Len(asked)
HomeAsked == asked[Latest]

\* t has heard of the exchange before it calls, unless that was one of a counting
\* or failing function for another of the same allocator.
MayCall(t) == \A k \in knows[t]..Latest : asked[k] = HomeAsked

\* The two functions belong together. Another allocator is installed only when
\* no block lives and no call runs, by a thread that knows the last one.
MayInstall(t, hooks) ==
  LET home == Home[Called(hooks["malloc"])]
  IN /\ Home[Called(hooks["free"])] = home
     /\ \/ home = HomeAsked
        \/ Live = {} /\ knows[t] = Latest /\ \A u \in Threads : pc[u] = "idle"

-----------------------------------------------------------------------------
(* cJSON_InitHooks *)

InitHooks(t) ==
  /\ pc[t] = "idle"
  /\ Latest < MaxCalls
  /\ \E hooks \in Hooks \cup {NULL} :
       LET pair == InitHooksOf(hooks)
       IN /\ MayInstall(t, pair)
          /\ Store(t, "malloc", pair["malloc"])
          /\ pending' = [pending EXCEPT ![t] = pair["free"]]
          /\ asked' = Append(asked, Home[Called(pair["malloc"])])
  /\ pc' = [pc EXCEPT ![t] = "hooks"]
  /\ UNCHANGED <<size, taken, held, lastError, told, knows>>

StoreFreeHook(t) ==
  /\ pc[t] = "hooks"
  /\ Store(t, "free", pending[t])
  /\ pc' = [pc EXCEPT ![t] = "idle"]
  /\ pending' = [pending EXCEPT ![t] = NULL]
  /\ knows' = [knows EXCEPT ![t] = Latest]
  /\ UNCHANGED <<size, taken, held, lastError, told, asked>>

-----------------------------------------------------------------------------
(* cJSON_Parse *)

\* (Mutant of SetLastError: one variable for all threads.)
SetLastErrorOfAll(t, isSet) == lastError' = [u \in Threads |-> isSet]

SetLastError(t, isSet) == lastError' = [lastError EXCEPT ![t] = isSet]

ParseRejects(t) ==
  /\ pc[t] = "idle"
  /\ SetLastError(t, TRUE)
  /\ told' = [told EXCEPT ![t] = "error"]
  /\ UNCHANGED <<hookVars, pc, pending, size, taken, held, asked, knows>>

ParseAccepts(t) ==
  /\ pc[t] = "idle"
  /\ held[t] = {}
  /\ MayCall(t)
  /\ SetLastError(t, FALSE)
  /\ pc' = [pc EXCEPT ![t] = "build"]
  /\ \E n \in 1..MaxNodes : size' = [size EXCEPT ![t] = n]
  /\ told' = [told EXCEPT ![t] = "nothing"]
  /\ UNCHANGED <<hookVars, pending, taken, held, asked, knows>>

BuildNode(t) ==
  /\ pc[t] = "build"
  /\ Cardinality(taken[t]) < size[t]
  /\ \E b \in Blocks :
       /\ HookMalloc(t, b)
       /\ taken' = [taken EXCEPT ![t] = @ \cup {b}]
  /\ UNCHANGED <<pc, pending, size, held, lastError, told, asked, knows>>

\* (Mutant of BuildFails: what was built so far is forgotten.)
BuildFailsLeaking(t) ==
  /\ pc[t] = "build"
  /\ Cardinality(taken[t]) < size[t]
  /\ HookMallocFails(t)
  /\ pc' = [pc EXCEPT ![t] = "release"]
  /\ taken' = [taken EXCEPT ![t] = {}]
  /\ UNCHANGED <<pending, size, held, lastError, told, asked, knows>>

\* (Mutant of BuildFails: memory is asked for again.)
BuildFailsRetrying(t) ==
  /\ pc[t] = "build"
  /\ Cardinality(taken[t]) < size[t]
  /\ HookMallocFails(t)
  /\ UNCHANGED callVars

BuildFails(t) ==
  /\ pc[t] = "build"
  /\ Cardinality(taken[t]) < size[t]
  /\ HookMallocFails(t)
  /\ pc' = [pc EXCEPT ![t] = "release"]
  /\ UNCHANGED <<pending, size, taken, held, lastError, told, asked, knows>>

ReturnTree(t) ==
  /\ pc[t] = "build"
  /\ Cardinality(taken[t]) = size[t]
  /\ pc' = [pc EXCEPT ![t] = "idle"]
  /\ held' = [held EXCEPT ![t] = taken[t]]
  /\ taken' = [taken EXCEPT ![t] = {}]
  /\ size' = [size EXCEPT ![t] = 0]
  /\ UNCHANGED <<hookVars, pending, lastError, told, asked, knows>>

-----------------------------------------------------------------------------
(* cJSON_Delete, and the end of a parse that ran out of memory *)

Delete(t) ==
  /\ pc[t] = "idle"
  /\ held[t] # {}
  /\ MayCall(t)
  /\ pc' = [pc EXCEPT ![t] = "release"]
  /\ taken' = [taken EXCEPT ![t] = held[t]]
  /\ held' = [held EXCEPT ![t] = {}]
  /\ UNCHANGED <<hookVars, pending, size, lastError, told, asked, knows>>

Release(t) ==
  /\ pc[t] = "release"
  /\ \E b \in taken[t] :
       /\ HookFree(t, b)
       /\ taken' = [taken EXCEPT ![t] = @ \ {b}]
  /\ UNCHANGED <<pc, pending, size, held, lastError, told, asked, knows>>

ReturnNothing(t) ==
  /\ pc[t] = "release"
  /\ taken[t] = {}
  /\ pc' = [pc EXCEPT ![t] = "idle"]
  /\ size' = [size EXCEPT ![t] = 0]
  /\ UNCHANGED <<hookVars, pending, taken, held, lastError, told, asked, knows>>

\* The caller synchronises two of its threads, and may pass a tree along.
HandOver(t, u) ==
  /\ t # u
  /\ pc[t] = "idle" /\ pc[u] = "idle"
  /\ Synchronise(t, u)
  /\ knows' = [knows EXCEPT ![u] = IF knows[t] > @ THEN knows[t] ELSE @]
  /\ \/ UNCHANGED held
     \/ held[u] = {} /\ held' = [held EXCEPT ![t] = {}, ![u] = held[t]]
  /\ UNCHANGED <<pc, pending, size, taken, lastError, told, asked>>

-----------------------------------------------------------------------------
Init ==
  /\ HookInit
  /\ pc = [t \in Threads |-> "idle"]
  /\ pending = [t \in Threads |-> NULL]
  /\ size = [t \in Threads |-> 0]
  /\ taken = [t \in Threads |-> {}]
  /\ held = [t \in Threads |-> {}]
  /\ lastError = [t \in Threads |-> FALSE]
  /\ told = [t \in Threads |-> "nothing"]
  /\ asked = <<Home[LibC]>>
  /\ knows = [t \in Threads |-> 1]

\* What the library does in a call on thread t.
LibraryStep(t) ==
  StoreFreeHook(t) \/ BuildNode(t) \/ BuildFails(t) \/ ReturnTree(t)
    \/ Release(t) \/ ReturnNothing(t)

CallerStep(t) ==
  InitHooks(t) \/ ParseRejects(t) \/ ParseAccepts(t) \/ Delete(t)
    \/ \E u \in Threads : HandOver(t, u)

Next == \E t \in Threads : LibraryStep(t) \/ CallerStep(t)
Spec == Init /\ [][Next]_vars /\ \A t \in Threads : WF_vars(LibraryStep(t))

-----------------------------------------------------------------------------
(* Properties *)

\* Every block is freed by the allocator that it came from, under the contract.
\* (hook_malloc and hook_free load their slots at different times, Relaxed)
BlocksReturnHome == strays = {}

\* Every live block is in the hands of one call or one caller: a parse that
\* runs out of memory gives back what it took, through the hooks of its time.
\* (value_to_cjson's failure paths, free_cjson)
NoBlockLost ==
  LET hands == [w \in Threads \X {"call", "caller"} |->
                  IF w[2] = "call" THEN taken[w[1]] ELSE held[w[1]]]
  IN /\ Live = UNION {hands[w] : w \in DOMAIN hands}
     /\ \A v, w \in DOMAIN hands : v # w => hands[v] \cap hands[w] = {}

\* A thread's last error is that of its own last parse, whatever the others
\* parse. (LAST_ERROR_PTR is a thread_local, set before the tree is built)
LastErrorIsOwn == \A t \in Threads : lastError[t] <=> told[t] = "error"

\* No call waits for another thread, or for memory.
\* (hook_malloc and hook_free take no lock; a failed malloc ends the call)
CallsReturn == \A t \in Threads : pc[t] # "idle" ~> pc[t] = "idle"

\* Stored one after the other and seen late, the two slots look like one
\* allocator that is exchanged as a whole. (set_hooks)
AsOneAllocator ==
  INSTANCE Allocators WITH
    home <- HomeAsked,
    Homes <- {Home[f] : f \in Functions}

ImplementsAllocators == AsOneAllocator!Spec
=============================================================================
