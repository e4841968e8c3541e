------------------------- MODULE CJsonThreadsProofs -------------------------
(***************************************************************************)
(* Theorems about CJsonThreads: for any number of threads, blocks, hooks   *)
(* and calls, a block goes back to the allocator it came from, no block is *)
(* lost, and the two hook slots implement Allocators.                      *)
(***************************************************************************)
EXTENDS CJsonThreads, TLAPS

Homes == {Home[f] : f \in Functions}

-----------------------------------------------------------------------------
(* The inductive invariant *)

Types ==
  /\ slots \in [Slots -> Seq(Pointers)]
  /\ seen \in [Threads -> [Slots -> Nat]]
  /\ blocks \in [Blocks -> Homes \cup {NULL}]
  /\ pc \in [Threads -> {"idle", "hooks", "build", "release"}]
  /\ pending \in [Threads -> Pointers]
  /\ taken \in [Threads -> SUBSET Blocks]
  /\ held \in [Threads -> SUBSET Blocks]
  /\ asked \in Seq(Homes)
  /\ knows \in [Threads -> Nat]

\* What threads have seen is there, and so is what they have heard of.
InRange ==
  /\ \A t \in Threads, s \in Slots : seen[t][s] \in 1..Newest(s)
  /\ \A t \in Threads : knows[t] \in 1..Latest

\* A thread sees no hook of an allocator that was replaced before the last
\* exchange it has heard of.
SeesAsked ==
  \A t \in Threads, s \in Slots : \A i \in Visible(t, s) :
    \E k \in knows[t]..Latest : HomeAt(s, i) = asked[k]

\* cJSON_InitHooks between its stores: both are of the allocator asked for last.
Installing ==
  \A t \in Threads : pc[t] = "hooks" =>
    /\ Home[Called(pending[t])] = HomeAsked
    /\ \A i \in Visible(t, "malloc") : HomeAt("malloc", i) = HomeAsked

\* The contract holds as long as a call runs.
Calling == \A t \in Threads : pc[t] \in {"build", "release"} => MayCall(t)

Current == \A b \in Live : blocks[b] = HomeAsked

Has(t, b) == b \in taken[t] \/ b \in held[t]

\* NoBlockLost, block by block.
Owned ==
  /\ \A b \in Blocks : blocks[b] # NULL <=> \E t \in Threads : Has(t, b)
  /\ \A t \in Threads, b \in Blocks : ~(b \in taken[t] /\ b \in held[t])
  /\ \A t, u \in Threads, b \in Blocks : Has(t, b) /\ Has(u, b) => t = u

\* A thread has blocks in hand only in a call, and a parse begins with none.
HandsFree ==
  \A t \in Threads :
    /\ pc[t] \in {"idle", "hooks"} => taken[t] = {}
    /\ pc[t] = "build" => held[t] = {}

IInv ==
  /\ Types /\ InRange
  /\ SeesAsked /\ Installing /\ Calling
  /\ Current /\ Owned /\ HandsFree
  /\ BlocksReturnHome

-----------------------------------------------------------------------------
(* Lemmas *)

\* What a slot holds has a home, and no allocator is NULL.
LEMMA HomesAreHomes ==
  /\ NULL \notin Homes
  /\ \A p \in Pointers : Home[Called(p)] \in Homes
BY LibCAssumption, HomeAssumption DEF Homes, Pointers, Called

LEMMA SlotsHaveHomes ==
  ASSUME Types, NEW s \in Slots, NEW i \in 1..Newest(s)
  PROVE  HomeAt(s, i) \in Homes
<1>1. slots[s] \in Seq(Pointers)
  BY DEF Types
<1>2. slots[s][i] \in Pointers
  BY <1>1 DEF Newest
<1> QED
  BY <1>2, HomesAreHomes DEF HomeAt

\* The last allocator asked for is in the range of what any thread knows.
LEMMA LatestAsked ==
  ASSUME Types, InRange, NEW t \in Threads
  PROVE  /\ Latest \in Nat /\ Latest >= 1
         /\ knows[t] \in 1..Latest
         /\ HomeAsked \in Homes
<1>1. asked \in Seq(Homes) /\ knows[t] \in 1..Latest /\ Latest \in Nat
  BY DEF Types, InRange, Latest
<1> QED
  BY <1>1 DEF HomeAsked, Latest

\* Loads and the caller's synchronisation move what a thread has seen forward.
LEMMA InRangeKept ==
  ASSUME Types, InRange, UNCHANGED <<slots, asked, knows>>,
         \A t \in Threads, s \in Slots : seen'[t][s] \in seen[t][s]..Newest(s)
  PROVE  InRange'
<1>1. \A s \in Slots : Newest(s)' = Newest(s)
  BY DEF Newest
<1>2. Latest' = Latest
  BY DEF Latest
<1>3. \A t \in Threads, s \in Slots : seen[t][s] \in Nat /\ seen[t][s] \in 1..Newest(s)
  BY DEF Types, InRange
<1>4. \A t \in Threads, s \in Slots : seen'[t][s] \in 1..Newest(s)'
  BY <1>1, <1>3
<1>5. \A t \in Threads : knows'[t] \in 1..Latest'
  BY <1>2 DEF InRange
<1> QED
  BY <1>4, <1>5 DEF InRange

LEMMA SeesAskedKept ==
  ASSUME Types, InRange, SeesAsked, UNCHANGED <<slots, asked, knows>>,
         \A t \in Threads, s \in Slots : seen'[t][s] \in seen[t][s]..Newest(s)
  PROVE  SeesAsked'
<1> SUFFICES ASSUME NEW t \in Threads, NEW s \in Slots, NEW i \in Visible(t, s)'
             PROVE  \E k \in (knows[t]..Latest)' : HomeAt(s, i)' = asked'[k]
  BY DEF SeesAsked
<1>1. i \in Visible(t, s)
  <2>1. seen[t][s] \in Nat
    BY DEF Types
  <2>2. i \in seen'[t][s]..Newest(s)
    BY DEF Visible, Newest
  <2> QED
    BY <2>1, <2>2 DEF Visible
<1>2. HomeAt(s, i)' = HomeAt(s, i) /\ Latest' = Latest
  BY DEF HomeAt, Latest
<1>3. PICK k \in knows[t]..Latest : HomeAt(s, i) = asked[k]
  BY <1>1 DEF SeesAsked
<1> QED
  BY <1>2, <1>3

LEMMA InstallingKept ==
  ASSUME Types, InRange, Installing, UNCHANGED <<slots, asked, pending>>,
         \A t \in Threads, s \in Slots : seen'[t][s] \in seen[t][s]..Newest(s),
         \A t \in Threads : pc'[t] = "hooks" => pc[t] = "hooks"
  PROVE  Installing'
<1> SUFFICES ASSUME NEW t \in Threads, pc'[t] = "hooks"
             PROVE  /\ Home[Called(pending'[t])] = HomeAsked'
                    /\ \A i \in Visible(t, "malloc")' : HomeAt("malloc", i)' = HomeAsked'
  BY DEF Installing, Called
<1>1. HomeAsked' = HomeAsked
  BY DEF HomeAsked, Latest
<1>2. Home[Called(pending'[t])] = HomeAsked'
  BY <1>1 DEF Installing
<1>3. ASSUME NEW i \in Visible(t, "malloc")'
      PROVE  HomeAt("malloc", i)' = HomeAsked'
  <2>1. seen[t]["malloc"] \in Nat /\ seen'[t]["malloc"] \in seen[t]["malloc"]..Newest("malloc")
    BY DEF Types, Slots
  <2>2. i \in seen'[t]["malloc"]..Newest("malloc")
    BY DEF Visible, Newest
  <2>3. i \in Visible(t, "malloc")
    BY <2>1, <2>2 DEF Visible
  <2>4. HomeAt("malloc", i)' = HomeAt("malloc", i)
    BY DEF HomeAt
  <2> QED
    BY <1>1, <2>3, <2>4 DEF Installing
<1> QED
  BY <1>2, <1>3

LEMMA CallingKept ==
  ASSUME Calling, UNCHANGED <<asked, knows>>,
         \A t \in Threads : pc'[t] \in {"build", "release"} => pc[t] \in {"build", "release"} \/ MayCall(t)
  PROVE  Calling'
<1>1. \A t \in Threads : MayCall(t)' <=> MayCall(t)
  BY DEF MayCall, HomeAsked, Latest
<1> QED
  BY <1>1 DEF Calling

\* A thread whose call runs sees hooks of the allocator asked for last only.
LEMMA CallSeesHomeAsked ==
  ASSUME Types, InRange, SeesAsked, Calling, NEW t \in Threads, pc[t] \in {"build", "release"},
         NEW s \in Slots, NEW i \in Visible(t, s)
  PROVE  HomeAt(s, i) = HomeAsked
<1>1. MayCall(t)
  BY DEF Calling
<1>2. PICK k \in knows[t]..Latest : HomeAt(s, i) = asked[k]
  BY DEF SeesAsked
<1> QED
  BY <1>1, <1>2 DEF MayCall

\* One load.
LEMMA SeeForward ==
  ASSUME Types, InRange, NEW t \in Threads, NEW s \in Slots, NEW i \in Visible(t, s), See(t, s, i)
  PROVE  /\ seen' \in [Threads -> [Slots -> Nat]]
         /\ \A u \in Threads, r \in Slots : seen'[u][r] \in seen[u][r]..Newest(r)
<1>1. seen \in [Threads -> [Slots -> Nat]]
  BY DEF Types
<1>2. \A u \in Threads, r \in Slots : seen[u][r] \in 1..Newest(r) /\ Newest(r) \in Nat
  BY DEF InRange, Newest, Types
<1>3. i \in Nat /\ i \in seen[t][s]..Newest(s)
  BY <1>1, <1>2 DEF Visible
<1>4. \A u \in Threads, r \in Slots : seen'[u][r] = IF u = t /\ r = s THEN i ELSE seen[u][r]
  BY <1>1 DEF See
<1>5. \A u \in Threads, r \in Slots : seen'[u][r] \in seen[u][r]..Newest(r)
  BY <1>1, <1>2, <1>3, <1>4
<1>6. seen' \in [Threads -> [Slots -> Nat]]
  BY <1>1, <1>3 DEF See
<1> QED
  BY <1>5, <1>6

\* No load: what a thread has seen stays.
LEMMA SeenStays ==
  ASSUME Types, InRange, UNCHANGED seen
  PROVE  \A t \in Threads, s \in Slots : seen'[t][s] \in seen[t][s]..Newest(s)
<1>1. \A t \in Threads, s \in Slots : seen[t][s] \in Nat /\ seen[t][s] \in 1..Newest(s)
  BY DEF Types, InRange
<1> QED
  BY <1>1
-----------------------------------------------------------------------------
(* Steps *)

\* The invariant without what the stores of cJSON_InitHooks touch.
Hands == Current /\ Owned /\ HandsFree /\ BlocksReturnHome

\* Steps that leave the hooks, and what was asked for, alone.
LEMMA QuietKept ==
  ASSUME IInv, UNCHANGED <<slots, asked, knows, pending>>,
         \A t \in Threads, s \in Slots : seen'[t][s] \in seen[t][s]..Newest(s),
         \A t \in Threads : pc'[t] = "hooks" => pc[t] = "hooks",
         \A t \in Threads : pc'[t] \in {"build", "release"} => pc[t] \in {"build", "release"} \/ MayCall(t)
  PROVE  InRange' /\ SeesAsked' /\ Installing' /\ Calling'
<1> USE DEF IInv
<1>1. InRange'
  BY InRangeKept
<1>2. SeesAsked'
  BY SeesAskedKept
<1>3. Installing'
  BY InstallingKept
<1>4. Calling'
  BY CallingKept
<1> QED
  BY <1>1, <1>2, <1>3, <1>4

\* No block is allocated or freed, and the one asked for last stays.
LEMMA HandsKept ==
  ASSUME IInv, UNCHANGED <<blocks, strays, asked>>,
         \A t \in Threads, b \in Blocks : Has(t, b)' <=> Has(t, b),
         \A t \in Threads, b \in Blocks : ~(b \in taken'[t] /\ b \in held'[t]),
         HandsFree'
  PROVE  Hands'
<1>1. Current'
  BY DEF IInv, Current, Live, HomeAsked, Latest
<1>2. Owned'
  BY DEF IInv, Owned
<1>3. BlocksReturnHome'
  BY DEF IInv, BlocksReturnHome
<1> QED
  BY <1>1, <1>2, <1>3 DEF Hands

LEMMA ParseRejectsSound ==
  ASSUME IInv, NEW t \in Threads, ParseRejects(t)
  PROVE  IInv'
<1>1. Types'
  BY DEF IInv, Types, ParseRejects, hookVars
<1>2. InRange' /\ SeesAsked' /\ Installing' /\ Calling'
  BY QuietKept, SeenStays DEF IInv, ParseRejects, hookVars
<1>3. HandsFree'
  BY DEF IInv, Types, HandsFree, ParseRejects
<1>4. Hands'
  BY <1>3, HandsKept DEF IInv, Has, Owned, ParseRejects, hookVars, HandsFree
<1> QED
  BY <1>1, <1>2, <1>4 DEF IInv, Hands

LEMMA ParseAcceptsSound ==
  ASSUME IInv, NEW t \in Threads, ParseAccepts(t)
  PROVE  IInv'
<1>1. Types'
  BY DEF IInv, Types, ParseAccepts, hookVars
<1>2. InRange' /\ SeesAsked' /\ Installing' /\ Calling'
  BY QuietKept, SeenStays DEF IInv, Types, ParseAccepts, hookVars
<1>3. HandsFree'
  BY DEF IInv, Types, HandsFree, ParseAccepts
<1>4. Hands'
  BY <1>3, HandsKept DEF IInv, Has, Owned, ParseAccepts, hookVars, HandsFree
<1> QED
  BY <1>1, <1>2, <1>4 DEF IInv, Hands

LEMMA ReturnTreeSound ==
  ASSUME IInv, NEW t \in Threads, ReturnTree(t)
  PROVE  IInv'
<1>1. Types'
  BY DEF IInv, Types, ReturnTree, hookVars
<1>2. InRange' /\ SeesAsked' /\ Installing' /\ Calling'
  BY QuietKept, SeenStays DEF IInv, Types, ReturnTree, hookVars
<1>3. HandsFree'
  BY DEF IInv, Types, HandsFree, ReturnTree
<1>4. Hands'
  BY <1>3, HandsKept DEF IInv, Types, Has, Owned, ReturnTree, hookVars, HandsFree
<1> QED
  BY <1>1, <1>2, <1>4 DEF IInv, Hands

LEMMA DeleteSound ==
  ASSUME IInv, NEW t \in Threads, Delete(t)
  PROVE  IInv'
<1>1. Types'
  BY DEF IInv, Types, Delete, hookVars
<1>2. InRange' /\ SeesAsked' /\ Installing' /\ Calling'
  BY QuietKept, SeenStays DEF IInv, Types, Delete, hookVars
<1>3. HandsFree'
  BY DEF IInv, Types, HandsFree, Delete
<1>4. Hands'
  BY <1>3, HandsKept DEF IInv, Types, Has, Owned, Delete, hookVars, HandsFree
<1> QED
  BY <1>1, <1>2, <1>4 DEF IInv, Hands

LEMMA ReturnNothingSound ==
  ASSUME IInv, NEW t \in Threads, ReturnNothing(t)
  PROVE  IInv'
<1>1. Types'
  BY DEF IInv, Types, ReturnNothing, hookVars
<1>2. InRange' /\ SeesAsked' /\ Installing' /\ Calling'
  BY QuietKept, SeenStays DEF IInv, Types, ReturnNothing, hookVars
<1>3. HandsFree'
  BY DEF IInv, Types, HandsFree, ReturnNothing
<1>4. Hands'
  BY <1>3, HandsKept DEF IInv, Has, Owned, ReturnNothing, hookVars, HandsFree
<1> QED
  BY <1>1, <1>2, <1>4 DEF IInv, Hands

LEMMA BuildFailsSound ==
  ASSUME IInv, NEW t \in Threads, BuildFails(t)
  PROVE  IInv'
<1>1. PICK i \in Visible(t, "malloc") : See(t, "malloc", i)
  BY DEF BuildFails, HookMallocFails
<1>2. /\ seen' \in [Threads -> [Slots -> Nat]]
      /\ \A u \in Threads, r \in Slots : seen'[u][r] \in seen[u][r]..Newest(r)
  BY <1>1, SeeForward DEF IInv, Slots
<1>3. Types'
  BY <1>2 DEF IInv, Types, BuildFails, HookMallocFails
<1>4. InRange' /\ SeesAsked' /\ Installing' /\ Calling'
  BY <1>2, QuietKept DEF IInv, Types, BuildFails, HookMallocFails
<1>5. HandsFree'
  BY DEF IInv, Types, HandsFree, BuildFails
<1>6. Hands'
  BY <1>5, HandsKept DEF IInv, Has, Owned, BuildFails, HookMallocFails, HandsFree
<1> QED
  BY <1>3, <1>4, <1>6 DEF IInv, Hands

LEMMA BuildNodeSound ==
  ASSUME IInv, NEW t \in Threads, BuildNode(t)
  PROVE  IInv'
<1>1. PICK b \in Blocks : HookMalloc(t, b) /\ taken' = [taken EXCEPT ![t] = @ \cup {b}]
  BY DEF BuildNode
<1>2. PICK i \in Visible(t, "malloc") :
        See(t, "malloc", i) /\ blocks' = [blocks EXCEPT ![b] = HomeAt("malloc", i)]
  BY <1>1 DEF HookMalloc
<1>3. /\ seen' \in [Threads -> [Slots -> Nat]]
      /\ \A u \in Threads, r \in Slots : seen'[u][r] \in seen[u][r]..Newest(r)
  BY <1>2, SeeForward DEF IInv, Slots
<1>4. HomeAt("malloc", i) = HomeAsked
  BY CallSeesHomeAsked DEF IInv, BuildNode, Slots
<1>5. HomeAsked \in Homes /\ HomeAsked # NULL
  BY LatestAsked, HomesAreHomes DEF IInv
<1>6. blocks' = [blocks EXCEPT ![b] = HomeAsked] /\ blocks[b] = NULL
  BY <1>1, <1>2, <1>4 DEF HookMalloc, Live
<1>7. Types'
  <2>1. taken' \in [Threads -> SUBSET Blocks]
    BY <1>1 DEF IInv, Types
  <2>2. blocks' \in [Blocks -> Homes \cup {NULL}]
    BY <1>5, <1>6 DEF IInv, Types
  <2> QED
    BY <1>1, <1>3, <2>1, <2>2 DEF IInv, Types, BuildNode, HookMalloc
<1>8. InRange' /\ SeesAsked' /\ Installing' /\ Calling'
  BY <1>1, <1>3, QuietKept DEF IInv, Types, BuildNode, HookMalloc
<1>9. Current'
  BY <1>6 DEF IInv, Types, Current, Live, HomeAsked, Latest, BuildNode
<1>10. Owned'
  <2>1. \A u \in Threads, c \in Blocks : Has(u, c)' <=> (u = t /\ c = b) \/ Has(u, c)
    BY <1>1 DEF IInv, Types, Has, BuildNode
  <2>2. \A u \in Threads : ~Has(u, b)
    BY <1>6 DEF IInv, Owned
  <2>3. \A c \in Blocks : blocks'[c] # NULL <=> c = b \/ blocks[c] # NULL
    BY <1>5, <1>6 DEF IInv, Types
  <2>4. \A c \in Blocks : blocks'[c] # NULL <=> \E u \in Threads : Has(u, c)'
    BY <2>1, <2>3 DEF IInv, Owned
  <2>5. \A u \in Threads, c \in Blocks : ~(c \in taken'[u] /\ c \in held'[u])
    BY <1>1, <2>2 DEF IInv, Types, Owned, Has, BuildNode
  <2>6. \A u, v \in Threads, c \in Blocks : Has(u, c)' /\ Has(v, c)' => u = v
    BY <2>1, <2>2 DEF IInv, Owned
  <2> QED
    BY <2>4, <2>5, <2>6 DEF Owned
<1>11. BlocksReturnHome'
  BY <1>1 DEF IInv, BlocksReturnHome, HookMalloc
<1>12. HandsFree'
  BY <1>1 DEF IInv, Types, HandsFree, BuildNode
<1> QED
  BY <1>7, <1>8, <1>9, <1>10, <1>11, <1>12 DEF IInv

\* Under the invariant a call frees its own blocks, through their own free.
LEMMA ReleaseFrees ==
  ASSUME IInv, NEW t \in Threads, Release(t)
  PROVE  \E b \in taken[t], i \in Visible(t, "free") :
           /\ b \in Blocks
           /\ blocks[b] = HomeAsked /\ HomeAsked # NULL
           /\ See(t, "free", i)
           /\ strays' = strays
           /\ blocks' = [blocks EXCEPT ![b] = NULL]
           /\ taken' = [taken EXCEPT ![t] = @ \ {b}]
<1>1. PICK b \in taken[t] : HookFree(t, b) /\ taken' = [taken EXCEPT ![t] = @ \ {b}]
  BY DEF Release
<1>2. PICK i \in Visible(t, "free") :
        /\ See(t, "free", i)
        /\ strays' = IF HomeAt("free", i) = blocks[b] THEN strays ELSE strays \cup {b}
  BY <1>1 DEF HookFree
<1>3. b \in Blocks /\ blocks[b] # NULL
  BY DEF IInv, Types, Has, Owned
<1>4. blocks[b] = HomeAsked
  BY <1>3 DEF IInv, Current, Live
<1>5. HomeAt("free", i) = HomeAsked
  BY CallSeesHomeAsked DEF IInv, Release, Slots
<1> QED
  BY <1>1, <1>2, <1>3, <1>4, <1>5 DEF HookFree

LEMMA ReleaseSound ==
  ASSUME IInv, NEW t \in Threads, Release(t)
  PROVE  IInv'
<1>1. PICK b \in taken[t] : \E i \in Visible(t, "free") :
        /\ b \in Blocks
        /\ blocks[b] = HomeAsked /\ HomeAsked # NULL
        /\ See(t, "free", i)
        /\ strays' = strays
        /\ blocks' = [blocks EXCEPT ![b] = NULL]
        /\ taken' = [taken EXCEPT ![t] = @ \ {b}]
  BY ReleaseFrees
<1>2. PICK i \in Visible(t, "free") : See(t, "free", i)
  BY <1>1
<1>3. /\ seen' \in [Threads -> [Slots -> Nat]]
      /\ \A u \in Threads, r \in Slots : seen'[u][r] \in seen[u][r]..Newest(r)
  BY <1>2, SeeForward DEF IInv, Slots
<1>4. UNCHANGED slots
  BY DEF Release, HookFree
<1>5. Types'
  <2>1. taken' \in [Threads -> SUBSET Blocks]
    BY <1>1 DEF IInv, Types
  <2>2. blocks' \in [Blocks -> Homes \cup {NULL}]
    BY <1>1 DEF IInv, Types
  <2> QED
    BY <1>3, <1>4, <2>1, <2>2 DEF IInv, Types, Release
<1>6. InRange' /\ SeesAsked' /\ Installing' /\ Calling'
  BY <1>3, <1>4, QuietKept DEF IInv, Types, Release
<1>7. Current'
  BY <1>1 DEF IInv, Types, Current, Live, HomeAsked, Latest, Release
<1>8. Owned'
  <2>1. Has(t, b) /\ ~(b \in held[t])
    BY <1>1 DEF IInv, Has, Owned
  <2>2. \A u \in Threads, c \in Blocks : Has(u, c)' <=> Has(u, c) /\ c # b
    BY <1>1, <2>1 DEF IInv, Types, Owned, Has, Release
  <2>3. \A c \in Blocks : blocks'[c] # NULL <=> c # b /\ blocks[c] # NULL
    BY <1>1 DEF IInv, Types
  <2>4. \A c \in Blocks : blocks'[c] # NULL <=> \E u \in Threads : Has(u, c)'
    BY <2>2, <2>3 DEF IInv, Owned
  <2>5. \A u \in Threads, c \in Blocks : ~(c \in taken'[u] /\ c \in held'[u])
    BY <1>1 DEF IInv, Types, Owned, Release
  <2>6. \A u, v \in Threads, c \in Blocks : Has(u, c)' /\ Has(v, c)' => u = v
    BY <2>2 DEF IInv, Owned
  <2> QED
    BY <2>4, <2>5, <2>6 DEF Owned
<1>9. BlocksReturnHome'
  BY <1>1 DEF IInv, BlocksReturnHome
<1>10. HandsFree'
  BY <1>1 DEF IInv, Types, HandsFree, Release
<1> QED
  BY <1>5, <1>6, <1>7, <1>8, <1>9, <1>10 DEF IInv
\* cJSON_InitHooks calls for a pair of one allocator: the last one asked for, or
\* another when no block lives and no other call runs.
LEMMA InitHooksAsks ==
  ASSUME IInv, NEW t \in Threads, InitHooks(t)
  PROVE  \E p, q \in Pointers :
           /\ Home[Called(p)] \in Homes /\ Home[Called(q)] = Home[Called(p)]
           /\ \/ Home[Called(p)] = HomeAsked
              \/ Live = {} /\ knows[t] = Latest /\ \A u \in Threads : pc[u] = "idle"
           /\ Store(t, "malloc", p)
           /\ pending' = [pending EXCEPT ![t] = q]
           /\ asked' = Append(asked, Home[Called(p)])
<1>1. PICK hooks \in Hooks \cup {NULL} :
        /\ MayInstall(t, InitHooksOf(hooks))
        /\ Store(t, "malloc", InitHooksOf(hooks)["malloc"])
        /\ pending' = [pending EXCEPT ![t] = InitHooksOf(hooks)["free"]]
        /\ asked' = Append(asked, Home[Called(InitHooksOf(hooks)["malloc"])])
  BY DEF InitHooks
<1>2. InitHooksOf(hooks) \in [Slots -> Pointers]
  BY HooksAssumption DEF InitHooksOf, Pointers
<1> DEFINE p == InitHooksOf(hooks)["malloc"]
           q == InitHooksOf(hooks)["free"]
<1>3. p \in Pointers /\ q \in Pointers
  BY <1>2 DEF Slots
<1>4. Home[Called(p)] \in Homes
  BY <1>3, HomesAreHomes
<1> HIDE DEF p, q
<1>5. /\ Home[Called(q)] = Home[Called(p)]
      /\ \/ Home[Called(p)] = HomeAsked
         \/ Live = {} /\ knows[t] = Latest /\ \A u \in Threads : pc[u] = "idle"
  BY <1>1 DEF MayInstall, p, q
<1>6. /\ Store(t, "malloc", p)
      /\ pending' = [pending EXCEPT ![t] = q]
      /\ asked' = Append(asked, Home[Called(p)])
  BY <1>1 DEF p, q
<1> QED
  BY <1>3, <1>4, <1>5, <1>6

LEMMA AppendFacts ==
  ASSUME NEW S, NEW q \in Seq(S), NEW e \in S
  PROVE  /\ Append(q, e) \in Seq(S)
         /\ Len(Append(q, e)) = Len(q) + 1
         /\ \A i \in 1..Len(q) : Append(q, e)[i] = q[i]
         /\ Append(q, e)[Len(q) + 1] = e
OBVIOUS

\* A store: the new entry is the last of its slot, and the storing thread sees it.
LEMMA StoreAppends ==
  ASSUME Types, InRange, NEW t \in Threads, NEW s \in Slots, NEW p \in Pointers, Store(t, s, p)
  PROVE  /\ slots' \in [Slots -> Seq(Pointers)]
         /\ seen' \in [Threads -> [Slots -> Nat]]
         /\ \A r \in Slots : Newest(r)' = IF r = s THEN Newest(s) + 1 ELSE Newest(r)
         /\ \A u \in Threads, r \in Slots :
              seen'[u][r] = IF u = t /\ r = s THEN Newest(s) + 1 ELSE seen[u][r]
         /\ \A r \in Slots : \A i \in 1..Newest(r) : HomeAt(r, i)' = HomeAt(r, i)
         /\ \A i \in Nat : i = Newest(s) + 1 => HomeAt(s, i)' = Home[Called(p)]
         /\ \A r \in Slots : Newest(r) \in Nat
<1>1. /\ slots \in [Slots -> Seq(Pointers)]
      /\ seen \in [Threads -> [Slots -> Nat]]
      /\ \A r \in Slots : slots[r] \in Seq(Pointers)
  BY DEF Types
<1>2. \A r \in Slots : slots'[r] = IF r = s THEN Append(slots[s], p) ELSE slots[r]
  BY <1>1 DEF Store
<1>3. PICK longer \in Seq(Pointers) :
         /\ longer = Append(slots[s], p)
         /\ slots[s] \in Seq(Pointers)
         /\ Len(longer) = Len(slots[s]) + 1
         /\ \A i \in 1..Len(slots[s]) : longer[i] = slots[s][i]
         /\ longer[Len(slots[s]) + 1] = p
  BY <1>1, AppendFacts
<1>4. slots' \in [Slots -> Seq(Pointers)]
  BY <1>1 DEF Store
<1>5. \A r \in Slots : slots'[r] = IF r = s THEN longer ELSE slots[r]
  BY <1>2, <1>3
<1>6. \A r \in Slots : Newest(r) \in Nat
  BY <1>1 DEF Newest
<1>7. seen' \in [Threads -> [Slots -> Nat]]
  BY <1>1, <1>6 DEF Store, See
<1>8. \A r \in Slots : Newest(r)' = IF r = s THEN Newest(s) + 1 ELSE Newest(r)
  BY <1>1, <1>3, <1>5 DEF Newest
<1>9. \A u \in Threads, r \in Slots :
        seen'[u][r] = IF u = t /\ r = s THEN Newest(s) + 1 ELSE seen[u][r]
  BY <1>1 DEF Store, See
<1>10. \A r \in Slots : \A i \in 1..Newest(r) : slots'[r][i] = slots[r][i]
  BY <1>1, <1>3, <1>5 DEF Newest
<1>11. slots'[s][Newest(s) + 1] = p
  <2>1. slots'[s] = longer
    BY <1>5
  <2>2. Newest(s) = Len(slots[s])
    BY DEF Newest
  <2>3. longer[Len(slots[s]) + 1] = p
    BY <1>3
  <2> QED
    BY <2>1, <2>2, <2>3
<1>12. \A r \in Slots : \A i \in 1..Newest(r) : HomeAt(r, i)' = HomeAt(r, i)
  BY <1>10 DEF HomeAt, Called
<1>13. \A i \in Nat : i = Newest(s) + 1 => HomeAt(s, i)' = Home[Called(p)]
  BY <1>11 DEF HomeAt, Called
<1> QED
  BY <1>4, <1>6, <1>7, <1>8, <1>9, <1>12, <1>13

\* What a thread sees after a store: what it saw before, or the new entry.
LEMMA StoreVisible ==
  ASSUME Types, InRange, NEW t \in Threads, NEW s \in Slots, NEW p \in Pointers, Store(t, s, p),
         NEW u \in Threads, NEW r \in Slots, NEW i \in Visible(u, r)'
  PROVE  \/ r = s /\ HomeAt(r, i)' = Home[Called(p)]
         \/ (u # t \/ r # s) /\ i \in Visible(u, r) /\ HomeAt(r, i)' = HomeAt(r, i)
<1>1. /\ \A x \in Slots : Newest(x)' = IF x = s THEN Newest(s) + 1 ELSE Newest(x)
      /\ seen'[u][r] = IF u = t /\ r = s THEN Newest(s) + 1 ELSE seen[u][r]
      /\ \A x \in Slots : \A k \in 1..Newest(x) : HomeAt(x, k)' = HomeAt(x, k)
      /\ \A k \in Nat : k = Newest(s) + 1 => HomeAt(s, k)' = Home[Called(p)]
      /\ Newest(s) \in Nat /\ Newest(r) \in Nat
  BY StoreAppends
<1>2. seen[u][r] \in 1..Newest(r)
  BY DEF InRange
<1>3. i \in seen'[u][r]..Newest(r)'
  BY DEF Visible
<1>4. i \in Int
  BY <1>3
<1>5. CASE r = s /\ i = Newest(s) + 1
  <2>1. i \in Nat
    BY <1>1, <1>5
  <2> QED
    BY <1>1, <1>5, <2>1
<1>6. CASE ~(r = s /\ i = Newest(s) + 1)
  <2>1. u # t \/ r # s
    BY <1>1, <1>3, <1>6
  <2>2. i \in seen[u][r]..Newest(r)
    BY <1>1, <1>3, <1>6, <2>1
  <2>3. i \in 1..Newest(r)
    BY <1>1, <1>2, <2>2
  <2> QED
    BY <1>1, <2>1, <2>2, <2>3 DEF Visible
<1> QED
  BY <1>5, <1>6
LEMMA InitHooksSound ==
  ASSUME IInv, NEW t \in Threads, InitHooks(t)
  PROVE  IInv'
<1>1. PICK p \in Pointers, q \in Pointers :
        /\ Home[Called(p)] \in Homes /\ Home[Called(q)] = Home[Called(p)]
        /\ \/ Home[Called(p)] = HomeAsked
           \/ Live = {} /\ knows[t] = Latest /\ \A u \in Threads : pc[u] = "idle"
        /\ Store(t, "malloc", p)
        /\ pending' = [pending EXCEPT ![t] = q]
        /\ asked' = Append(asked, Home[Called(p)])
  BY InitHooksAsks
<1> DEFINE h == Home[Called(p)]
<1>2. asked \in Seq(Homes) /\ h \in Homes /\ Latest = Len(asked) /\ Latest \in Nat
  BY <1>1 DEF IInv, Types, Latest
<1>3. /\ asked' \in Seq(Homes)
      /\ Latest' = Latest + 1
      /\ \A k \in 1..Latest : asked'[k] = asked[k]
      /\ asked'[Latest + 1] = h
  BY <1>1, <1>2, AppendFacts DEF Latest
<1>4. HomeAsked' = h
  BY <1>3 DEF HomeAsked
<1>5. /\ slots' \in [Slots -> Seq(Pointers)]
      /\ seen' \in [Threads -> [Slots -> Nat]]
      /\ \A r \in Slots : Newest(r)' = IF r = "malloc" THEN Newest("malloc") + 1 ELSE Newest(r)
      /\ \A u \in Threads, r \in Slots :
           seen'[u][r] = IF u = t /\ r = "malloc" THEN Newest("malloc") + 1 ELSE seen[u][r]
      /\ \A r \in Slots : Newest(r) \in Nat
  BY <1>1, StoreAppends DEF IInv, Slots
<1>6. \A u \in Threads, r \in Slots : \A i \in Visible(u, r)' :
        \/ r = "malloc" /\ HomeAt(r, i)' = h
        \/ (u # t \/ r # "malloc") /\ i \in Visible(u, r) /\ HomeAt(r, i)' = HomeAt(r, i)
  BY <1>1, StoreVisible DEF IInv, Slots
<1> HIDE DEF h
<1>7. /\ blocks' = blocks /\ strays' = strays
      /\ pc[t] = "idle" /\ pc' = [pc EXCEPT ![t] = "hooks"]
      /\ UNCHANGED <<taken, held, knows>>
  BY <1>1 DEF InitHooks, Store
<1>8. \A u \in Threads : pc'[u] = IF u = t THEN "hooks" ELSE pc[u]
  BY <1>7 DEF IInv, Types
<1>9. \A u \in Threads : pending'[u] = IF u = t THEN q ELSE pending[u]
  BY <1>1 DEF IInv, Types
<1>10. h = HomeAsked \/ (Live = {} /\ \A u \in Threads : pc[u] = "idle")
  BY <1>1 DEF h
<1>11. Types'
  <2>1. pending' \in [Threads -> Pointers]
    BY <1>1 DEF IInv, Types
  <2>2. pc' \in [Threads -> {"idle", "hooks", "build", "release"}]
    BY <1>7 DEF IInv, Types
  <2> QED
    BY <1>3, <1>5, <1>7, <2>1, <2>2 DEF IInv, Types
<1>12. InRange'
  <2>1. \A u \in Threads, r \in Slots : seen'[u][r] \in 1..Newest(r)'
    <3>1. \A u \in Threads, r \in Slots : seen[u][r] \in 1..Newest(r)
      BY DEF IInv, InRange
    <3> QED
      BY <1>5, <3>1 DEF Slots
  <2>2. \A u \in Threads : knows'[u] \in 1..Latest'
    BY <1>2, <1>3, <1>7 DEF IInv, InRange
  <2> QED
    BY <2>1, <2>2 DEF InRange
<1>13. SeesAsked'
  <2> SUFFICES ASSUME NEW u \in Threads, NEW r \in Slots, NEW i \in Visible(u, r)'
               PROVE  \E k \in (knows[u]..Latest)' : HomeAt(r, i)' = asked'[k]
    BY DEF SeesAsked
  <2>1. knows[u] \in 1..Latest /\ knows'[u] = knows[u]
    BY <1>7 DEF IInv, InRange
  <2>2. CASE HomeAt(r, i)' = h
    <3>1. Latest + 1 \in knows'[u]..Latest'
      BY <1>2, <1>3, <2>1
    <3> QED
      BY <1>3, <2>2, <3>1
  <2>3. CASE i \in Visible(u, r) /\ HomeAt(r, i)' = HomeAt(r, i)
    <3>1. PICK k \in knows[u]..Latest : HomeAt(r, i) = asked[k]
      BY <2>3 DEF IInv, SeesAsked
    <3>2. k \in 1..Latest /\ k \in knows'[u]..Latest'
      BY <1>2, <1>3, <2>1, <3>1
    <3> QED
      BY <1>3, <2>3, <3>1, <3>2
  <2> QED
    BY <1>6, <2>2, <2>3
<1>14. Installing'
  <2> SUFFICES ASSUME NEW u \in Threads, pc'[u] = "hooks"
               PROVE  /\ Home[Called(pending'[u])] = HomeAsked'
                      /\ \A i \in Visible(u, "malloc")' : HomeAt("malloc", i)' = HomeAsked'
    BY DEF Installing, Called
  <2>1. CASE u = t
    <3>1. Home[Called(pending'[u])] = HomeAsked'
      BY <1>1, <1>4, <1>9, <2>1 DEF h
    <3>2. \A i \in Visible(u, "malloc")' : HomeAt("malloc", i)' = HomeAsked'
      BY <1>4, <1>6, <2>1 DEF Slots
    <3> QED
      BY <3>1, <3>2
  <2>2. CASE u # t
    <3>1. pc[u] = "hooks" /\ HomeAsked' = HomeAsked
      BY <1>4, <1>8, <1>10, <2>2
    <3>2. Home[Called(pending'[u])] = HomeAsked'
      BY <1>9, <2>2, <3>1 DEF IInv, Installing
    <3>3. ASSUME NEW i \in Visible(u, "malloc")'
          PROVE  HomeAt("malloc", i)' = HomeAsked'
      <4>1. CASE HomeAt("malloc", i)' = h
        BY <1>4, <4>1
      <4>2. CASE i \in Visible(u, "malloc") /\ HomeAt("malloc", i)' = HomeAt("malloc", i)
        BY <3>1, <4>2 DEF IInv, Installing
      <4> QED
        BY <1>6, <4>1, <4>2 DEF Slots
    <3> QED
      BY <3>2, <3>3
  <2> QED
    BY <2>1, <2>2
<1>15. Calling'
  <2> SUFFICES ASSUME NEW u \in Threads, pc'[u] \in {"build", "release"}, NEW k \in (knows[u]..Latest)'
               PROVE  asked'[k] = HomeAsked'
    BY DEF Calling, MayCall
  <2>1. pc[u] \in {"build", "release"} /\ h = HomeAsked
    BY <1>8, <1>10
  <2>2. knows[u] \in 1..Latest /\ k \in knows[u]..(Latest + 1)
    BY <1>3, <1>7 DEF IInv, InRange
  <2>3. CASE k = Latest + 1
    BY <1>3, <1>4, <2>3
  <2>4. CASE k # Latest + 1
    <3>1. k \in 1..Latest /\ k \in knows[u]..Latest
      BY <1>2, <2>2, <2>4
    <3>2. asked[k] = HomeAsked
      BY <2>1, <3>1 DEF IInv, Calling, MayCall
    <3> QED
      BY <1>3, <1>4, <2>1, <3>1, <3>2
  <2> QED
    BY <2>3, <2>4
<1>16. Current'
  BY <1>4, <1>7, <1>10 DEF IInv, Current, Live
<1>17. Owned'
  BY <1>7 DEF IInv, Owned, Has
<1>18. HandsFree'
  BY <1>7, <1>8 DEF IInv, HandsFree
<1>19. BlocksReturnHome'
  BY <1>7 DEF IInv, BlocksReturnHome
<1> QED
  BY <1>11, <1>12, <1>13, <1>14, <1>15, <1>16, <1>17, <1>18, <1>19 DEF IInv

LEMMA StoreFreeHookSound ==
  ASSUME IInv, NEW t \in Threads, StoreFreeHook(t)
  PROVE  IInv'
<1> DEFINE p == pending[t]
<1>1. /\ p \in Pointers /\ Home[Called(p)] = HomeAsked
      /\ Store(t, "free", p)
      /\ pc[t] = "hooks" /\ pc' = [pc EXCEPT ![t] = "idle"]
      /\ pending' = [pending EXCEPT ![t] = NULL]
      /\ knows' = [knows EXCEPT ![t] = Latest]
      /\ blocks' = blocks /\ strays' = strays
      /\ UNCHANGED <<taken, held, asked>>
  BY DEF IInv, Types, Installing, StoreFreeHook, Store
<1>2. /\ slots' \in [Slots -> Seq(Pointers)]
      /\ seen' \in [Threads -> [Slots -> Nat]]
      /\ \A r \in Slots : Newest(r)' = IF r = "free" THEN Newest("free") + 1 ELSE Newest(r)
      /\ \A u \in Threads, r \in Slots :
           seen'[u][r] = IF u = t /\ r = "free" THEN Newest("free") + 1 ELSE seen[u][r]
      /\ \A r \in Slots : Newest(r) \in Nat
  BY <1>1, StoreAppends DEF IInv, Slots
<1>3. \A u \in Threads, r \in Slots : \A i \in Visible(u, r)' :
        \/ r = "free" /\ HomeAt(r, i)' = Home[Called(p)]
        \/ (u # t \/ r # "free") /\ i \in Visible(u, r) /\ HomeAt(r, i)' = HomeAt(r, i)
  BY <1>1, StoreVisible DEF IInv, Slots
<1> HIDE DEF p
<1>4. Latest' = Latest /\ HomeAsked' = HomeAsked
  BY <1>1 DEF Latest, HomeAsked
<1>5. Latest \in Nat /\ Latest >= 1 /\ \A u \in Threads : knows[u] \in 1..Latest
  BY LatestAsked DEF IInv
<1>6. /\ \A u \in Threads : pc'[u] = IF u = t THEN "idle" ELSE pc[u]
      /\ \A u \in Threads : knows'[u] = IF u = t THEN Latest ELSE knows[u]
      /\ \A u \in Threads : u # t => pending'[u] = pending[u]
  BY <1>1 DEF IInv, Types
<1>7. Types'
  <2>1. pending' \in [Threads -> Pointers] /\ pc' \in [Threads -> {"idle", "hooks", "build", "release"}]
    BY <1>1 DEF IInv, Types, Pointers
  <2>2. knows' \in [Threads -> Nat]
    BY <1>1, <1>5 DEF IInv, Types
  <2> QED
    BY <1>1, <1>2, <2>1, <2>2 DEF IInv, Types
<1>8. InRange'
  <2>1. \A u \in Threads, r \in Slots : seen'[u][r] \in 1..Newest(r)'
    <3>1. \A u \in Threads, r \in Slots : seen[u][r] \in 1..Newest(r)
      BY DEF IInv, InRange
    <3>2. \A u \in Threads : seen'[u]["malloc"] \in 1..Newest("malloc")'
      BY <1>2, <3>1 DEF Slots
    <3>3. ASSUME NEW u \in Threads
          PROVE  seen'[u]["free"] \in 1..Newest("free")'
      <4>1. Newest("free") \in Nat /\ Newest("free")' = Newest("free") + 1
        BY <1>2 DEF Slots
      <4>2. seen[u]["free"] \in 1..Newest("free")
        BY <3>1 DEF Slots
      <4>3. seen'[u]["free"] = IF u = t THEN Newest("free") + 1 ELSE seen[u]["free"]
        BY <1>2 DEF Slots
      <4> QED
        BY <4>1, <4>2, <4>3
    <3> QED
      BY <3>2, <3>3 DEF Slots
  <2>2. \A u \in Threads : knows'[u] \in 1..Latest'
    BY <1>4, <1>5, <1>6
  <2> QED
    BY <2>1, <2>2 DEF InRange
<1>9. SeesAsked'
  <2> SUFFICES ASSUME NEW u \in Threads, NEW r \in Slots, NEW i \in Visible(u, r)'
               PROVE  \E k \in (knows[u]..Latest)' : HomeAt(r, i)' = asked'[k]
    BY DEF SeesAsked
  <2>1. CASE HomeAt(r, i)' = HomeAsked
    <3>1. Latest \in knows'[u]..Latest'
      BY <1>4, <1>5, <1>6
    <3> QED
      BY <1>1, <2>1, <3>1 DEF HomeAsked
  <2>2. CASE /\ u # t \/ r # "free"
             /\ i \in Visible(u, r) /\ HomeAt(r, i)' = HomeAt(r, i)
             /\ HomeAt(r, i)' # HomeAsked
    <3>1. u # t
      BY <1>1, <2>2 DEF IInv, Installing, Slots
    <3>2. PICK k \in knows[u]..Latest : HomeAt(r, i) = asked[k]
      BY <2>2 DEF IInv, SeesAsked
    <3>3. k \in knows'[u]..Latest' /\ asked'[k] = asked[k]
      BY <1>1, <1>4, <1>6, <3>1, <3>2
    <3> QED
      BY <2>2, <3>2, <3>3
  <2> QED
    BY <1>1, <1>3, <2>1, <2>2
<1>10. Installing'
  <2> SUFFICES ASSUME NEW u \in Threads, pc'[u] = "hooks"
               PROVE  /\ Home[Called(pending'[u])] = HomeAsked'
                      /\ \A i \in Visible(u, "malloc")' : HomeAt("malloc", i)' = HomeAsked'
    BY DEF Installing, Called
  <2>1. u # t /\ pc[u] = "hooks"
    BY <1>6
  <2>2. Home[Called(pending'[u])] = HomeAsked'
    BY <1>4, <1>6, <2>1 DEF IInv, Installing
  <2>3. \A i \in Visible(u, "malloc")' : HomeAt("malloc", i)' = HomeAsked'
    BY <1>3, <1>4, <2>1 DEF IInv, Installing, Slots
  <2> QED
    BY <2>2, <2>3
<1>11. Calling'
  <2> SUFFICES ASSUME NEW u \in Threads, pc'[u] \in {"build", "release"}, NEW k \in (knows[u]..Latest)'
               PROVE  asked'[k] = HomeAsked'
    BY DEF Calling, MayCall
  <2>1. pc[u] \in {"build", "release"} /\ k \in knows[u]..Latest
    BY <1>4, <1>6
  <2> QED
    BY <1>1, <1>4, <2>1 DEF IInv, Calling, MayCall
<1>12. Current'
  BY <1>1, <1>4 DEF IInv, Current, Live
<1>13. Owned'
  BY <1>1 DEF IInv, Owned, Has
<1>14. HandsFree'
  BY <1>1, <1>6 DEF IInv, HandsFree
<1>15. BlocksReturnHome'
  BY <1>1 DEF IInv, BlocksReturnHome
<1> QED
  BY <1>7, <1>8, <1>9, <1>10, <1>11, <1>12, <1>13, <1>14, <1>15 DEF IInv
\* The caller's own synchronisation: u has seen what t has, and keeps a tree or
\* gets that of t.
LEMMA HandOverSound ==
  ASSUME IInv, NEW t \in Threads, NEW u \in Threads, HandOver(t, u)
  PROVE  IInv'
<1>1. /\ t # u /\ pc[t] = "idle" /\ pc[u] = "idle"
      /\ seen' = [seen EXCEPT ![u] =
           [s \in Slots |-> IF seen[t][s] > seen[u][s] THEN seen[t][s] ELSE seen[u][s]]]
      /\ knows' = [knows EXCEPT ![u] = IF knows[t] > @ THEN knows[t] ELSE @]
      /\ UNCHANGED <<slots, blocks, strays, pc, pending, taken, asked>>
      /\ UNCHANGED held \/ (held[u] = {} /\ held' = [held EXCEPT ![t] = {}, ![u] = held[t]])
  BY DEF HandOver, Synchronise
<1>2. /\ \A v \in Threads, s \in Slots : seen[v][s] \in 1..Newest(s) /\ seen[v][s] \in Nat
      /\ \A v \in Threads : knows[v] \in 1..Latest /\ knows[v] \in Nat
      /\ Latest \in Nat /\ \A s \in Slots : Newest(s) \in Nat
  BY DEF IInv, Types, InRange, Latest, Newest
<1>3. /\ \A v \in Threads : v # u => seen'[v] = seen[v] /\ knows'[v] = knows[v]
      /\ \A s \in Slots : /\ seen'[u][s] \in {seen[t][s], seen[u][s]}
                          /\ seen'[u][s] >= seen[t][s] /\ seen'[u][s] >= seen[u][s]
      /\ knows'[u] \in {knows[t], knows[u]}
  BY <1>1, <1>2 DEF IInv, Types
<1>4. Types'
  <2>1. seen' \in [Threads -> [Slots -> Nat]]
    BY <1>1, <1>2 DEF IInv, Types
  <2>2. knows' \in [Threads -> Nat]
    BY <1>1, <1>2 DEF IInv, Types
  <2>3. held' \in [Threads -> SUBSET Blocks]
    BY <1>1 DEF IInv, Types
  <2> QED
    BY <1>1, <2>1, <2>2, <2>3 DEF IInv, Types
<1>5. /\ Latest' = Latest /\ HomeAsked' = HomeAsked
      /\ \A s \in Slots : Newest(s)' = Newest(s)
      /\ \A s \in Slots : \A i \in Nat : HomeAt(s, i)' = HomeAt(s, i)
  BY <1>1 DEF Latest, HomeAsked, Newest, HomeAt, Called
<1>6. InRange'
  <2>1. \A v \in Threads, s \in Slots : seen'[v][s] \in 1..Newest(s)'
    BY <1>2, <1>3, <1>5
  <2>2. \A v \in Threads : knows'[v] \in 1..Latest'
    BY <1>2, <1>3, <1>5
  <2> QED
    BY <2>1, <2>2 DEF InRange
<1>7. SeesAsked'
  <2> SUFFICES ASSUME NEW v \in Threads, NEW s \in Slots, NEW i \in Visible(v, s)'
               PROVE  \E k \in (knows[v]..Latest)' : HomeAt(s, i)' = asked'[k]
    BY DEF SeesAsked
  <2>1. i \in seen'[v][s]..Newest(s)
    BY <1>5 DEF Visible
  <2>2. CASE v # u
    <3>1. i \in Visible(v, s) /\ i \in Nat
      BY <1>2, <1>3, <2>1, <2>2 DEF Visible
    <3>2. PICK k \in knows[v]..Latest : HomeAt(s, i) = asked[k]
      BY <3>1 DEF IInv, SeesAsked
    <3> QED
      BY <1>1, <1>3, <1>5, <2>2, <3>1, <3>2
  <2>3. CASE v = u
    <3>1. i \in Visible(t, s) /\ i \in Visible(u, s) /\ i \in Nat
      BY <1>2, <1>3, <2>1, <2>3 DEF Visible
    <3>2. PICK k \in knows[t]..Latest : HomeAt(s, i) = asked[k]
      BY <3>1 DEF IInv, SeesAsked
    <3>3. PICK l \in knows[u]..Latest : HomeAt(s, i) = asked[l]
      BY <3>1 DEF IInv, SeesAsked
    <3> QED
      BY <1>1, <1>3, <1>5, <2>3, <3>1, <3>2, <3>3
  <2> QED
    BY <2>2, <2>3
<1>8. Installing'
  <2> SUFFICES ASSUME NEW v \in Threads, pc'[v] = "hooks"
               PROVE  /\ Home[Called(pending'[v])] = HomeAsked'
                      /\ \A i \in Visible(v, "malloc")' : HomeAt("malloc", i)' = HomeAsked'
    BY DEF Installing, Called
  <2>1. v # u /\ pc[v] = "hooks" /\ pending'[v] = pending[v]
    BY <1>1
  <2>2. \A i \in Visible(v, "malloc")' : i \in Visible(v, "malloc") /\ i \in Nat
    BY <1>2, <1>3, <1>5, <2>1 DEF Visible, Slots
  <2> QED
    BY <1>5, <2>1, <2>2 DEF IInv, Installing, Slots
<1>9. Calling'
  <2> SUFFICES ASSUME NEW v \in Threads, pc'[v] \in {"build", "release"}
               PROVE  MayCall(v)'
    BY DEF Calling
  <2>1. v # u /\ pc[v] \in {"build", "release"}
    BY <1>1
  <2> QED
    BY <1>1, <1>3, <1>5, <2>1 DEF IInv, Calling, MayCall
<1>10. Current'
  BY <1>1, <1>5 DEF IInv, Current, Live
<1>11. HandsFree'
  BY <1>1 DEF IInv, Types, HandsFree
<1>12. Owned'
  <2>1. taken[t] = {} /\ taken[u] = {}
    BY <1>1 DEF IInv, HandsFree
  <2>2. CASE UNCHANGED held
    BY <1>1, <2>2 DEF IInv, Owned, Has
  <2>3. CASE held[u] = {} /\ held' = [held EXCEPT ![t] = {}, ![u] = held[t]]
    <3>1. held'[t] = {} /\ held'[u] = held[t] /\ \A v \in Threads : v \notin {t, u} => held'[v] = held[v]
      BY <1>1, <2>3 DEF IInv, Types
    <3>2. \A v \in Threads, b \in Blocks :
            Has(v, b)' <=> (v = u /\ Has(t, b)) \/ (v \notin {t, u} /\ Has(v, b))
      BY <1>1, <2>1, <3>1 DEF Has
    <3>3. \A b \in Blocks : ~Has(u, b)
      BY <2>1, <2>3 DEF Has
    <3>4. \A b \in Blocks : (\E v \in Threads : Has(v, b)') <=> \E v \in Threads : Has(v, b)
      BY <3>2, <3>3
    <3>5. \A v \in Threads, b \in Blocks : ~(b \in taken'[v] /\ b \in held'[v])
      BY <1>1, <2>1, <3>1 DEF IInv, Owned
    <3>6. \A v, w \in Threads, b \in Blocks : Has(v, b)' /\ Has(w, b)' => v = w
      BY <1>1, <3>2 DEF IInv, Owned
    <3> QED
      BY <1>1, <3>4, <3>5, <3>6 DEF IInv, Owned
  <2> QED
    BY <1>1, <2>2, <2>3
<1>13. BlocksReturnHome'
  BY <1>1 DEF IInv, BlocksReturnHome
<1> QED
  BY <1>4, <1>6, <1>7, <1>8, <1>9, <1>10, <1>11, <1>12, <1>13 DEF IInv

LEMMA StutterSound ==
  ASSUME IInv, UNCHANGED vars
  PROVE  IInv'
<1> USE DEF vars, hookVars, callVars
<1>1. Types'
  BY DEF IInv, Types
<1>2. InRange'
  BY DEF IInv, InRange, Newest, Latest
<1>3. /\ \A t \in Threads, s \in Slots : Visible(t, s)' = Visible(t, s)
      /\ \A s \in Slots : \A t \in Threads : \A i \in Visible(t, s) : HomeAt(s, i)' = HomeAt(s, i)
      /\ HomeAsked' = HomeAsked /\ Latest' = Latest
  BY DEF Visible, Newest, HomeAt, Called, HomeAsked, Latest
<1>4. SeesAsked'
  BY <1>3 DEF IInv, SeesAsked
<1>5. Installing'
  BY <1>3 DEF IInv, Installing, Slots, Called
<1>6. Calling'
  BY <1>3 DEF IInv, Calling, MayCall
<1>7. Current' /\ Owned' /\ HandsFree' /\ BlocksReturnHome'
  BY <1>3 DEF IInv, Current, Live, Owned, Has, HandsFree, BlocksReturnHome
<1> QED
  BY <1>1, <1>2, <1>4, <1>5, <1>6, <1>7 DEF IInv
LEMMA InitSound == Init => IInv
<1> SUFFICES ASSUME Init PROVE IInv
  OBVIOUS
<1> USE DEF Init, HookInit
<1>1. Home[LibC] \in Homes
  BY LibCAssumption DEF Homes
<1>2. Types
  BY <1>1 DEF Types, Pointers
<1>3. InRange
  BY DEF InRange, Newest, Latest
<1>4. HomeAsked = Home[LibC] /\ Latest = 1
  BY DEF HomeAsked, Latest
<1>5. \A t \in Threads, s \in Slots : \A i \in Visible(t, s) : HomeAt(s, i) = Home[LibC]
  BY DEF Visible, Newest, HomeAt, Called
<1>6. SeesAsked
  BY <1>4, <1>5 DEF SeesAsked
<1>7. Installing /\ Calling /\ HandsFree
  BY DEF Installing, Calling, HandsFree
<1>8. Current /\ Owned /\ BlocksReturnHome
  BY DEF Current, Live, Owned, Has, BlocksReturnHome
<1> QED
  BY <1>2, <1>3, <1>6, <1>7, <1>8 DEF IInv

LEMMA StepSound == IInv /\ [Next]_vars => IInv'
<1> SUFFICES ASSUME IInv, [Next]_vars PROVE IInv'
  OBVIOUS
<1>1. CASE UNCHANGED vars
  BY <1>1, StutterSound
<1>2. ASSUME NEW t \in Threads, LibraryStep(t)
      PROVE  IInv'
  BY <1>2, StoreFreeHookSound, BuildNodeSound, BuildFailsSound, ReturnTreeSound,
     ReleaseSound, ReturnNothingSound DEF LibraryStep
<1>3. ASSUME NEW t \in Threads, CallerStep(t)
      PROVE  IInv'
  BY <1>3, InitHooksSound, ParseRejectsSound, ParseAcceptsSound, DeleteSound, HandOverSound
     DEF CallerStep
<1> QED
  BY <1>1, <1>2, <1>3 DEF Next

-----------------------------------------------------------------------------
(* Theorems *)

\* The invariant: no thread sees a hook of an allocator that was exchanged for
\* another before it last heard of the hooks, and every live block is of the
\* allocator asked for last. (set_hooks, hook_malloc, hook_free)
THEOREM HooksStaySound == Spec => []IInv
<1>1. Init => IInv
  BY InitSound
<1>2. IInv /\ [Next]_vars => IInv'
  BY StepSound
<1> QED
  BY <1>1, <1>2, PTL DEF Spec

\* No block goes to the free of another allocator than it came from, for any
\* number of threads, blocks, hooks and calls. (hook_malloc, hook_free)
THEOREM FreedWhereAllocated == Spec => []BlocksReturnHome
<1>1. IInv => BlocksReturnHome
  BY DEF IInv
<1> QED
  BY <1>1, HooksStaySound, PTL

\* Every live block is in one hand, and every block in a hand is live.
\* (value_to_cjson, free_cjson)
THEOREM BlocksInOneHand == Spec => []NoBlockLost
<1>1. ASSUME IInv
      PROVE  NoBlockLost
  <2> DEFINE hands == [w \in Threads \X {"call", "caller"} |->
                        IF w[2] = "call" THEN taken[w[1]] ELSE held[w[1]]]
  <2>1. ASSUME NEW b \in Blocks
        PROVE  b \in Live <=> \E t \in Threads : b \in taken[t] \/ b \in held[t]
    BY <1>1 DEF IInv, Owned, Has, Live
  <2>2. \A t \in Threads : taken[t] \subseteq Blocks /\ held[t] \subseteq Blocks
    BY <1>1 DEF IInv, Types
  <2>3. \A t \in Threads : hands[<<t, "call">>] = taken[t] /\ hands[<<t, "caller">>] = held[t]
    OBVIOUS
  <2>4. ASSUME NEW w \in DOMAIN hands
        PROVE  \E t \in Threads : \/ w = <<t, "call">> /\ hands[w] = taken[t]
                                  \/ w = <<t, "caller">> /\ hands[w] = held[t]
    <3>1. w \in Threads \X {"call", "caller"}
      OBVIOUS
    <3>2. PICK t \in Threads : w = <<t, "call">> \/ w = <<t, "caller">>
      BY <3>1
    <3> HIDE DEF hands
    <3> QED
      BY <2>3, <3>2
  <2>5. \A t \in Threads : <<t, "call">> \in DOMAIN hands /\ <<t, "caller">> \in DOMAIN hands
    OBVIOUS
  <2> HIDE DEF hands
  <2>6. ASSUME NEW b
        PROVE  b \in UNION {hands[w] : w \in DOMAIN hands}
                 <=> \E t \in Threads : b \in taken[t] \/ b \in held[t]
    <3>1. ASSUME NEW w \in DOMAIN hands, b \in hands[w]
          PROVE  \E t \in Threads : b \in taken[t] \/ b \in held[t]
      BY <2>4, <3>1
    <3>2. ASSUME NEW t \in Threads, b \in taken[t] \/ b \in held[t]
          PROVE  \E w \in DOMAIN hands : b \in hands[w]
      BY <2>3, <2>5, <3>2
    <3> QED
      BY <3>1, <3>2
  <2>7. Live = UNION {hands[w] : w \in DOMAIN hands}
    <3>1. Live \subseteq Blocks
      BY DEF Live
    <3> QED
      BY <2>1, <2>2, <2>6, <3>1
  <2>8. ASSUME NEW v \in DOMAIN hands, NEW w \in DOMAIN hands, v # w,
               NEW b, b \in hands[v], b \in hands[w]
        PROVE  FALSE
    <3>1. PICK t \in Threads : \/ v = <<t, "call">> /\ hands[v] = taken[t]
                               \/ v = <<t, "caller">> /\ hands[v] = held[t]
      BY <2>4
    <3>2. PICK u \in Threads : \/ w = <<u, "call">> /\ hands[w] = taken[u]
                               \/ w = <<u, "caller">> /\ hands[w] = held[u]
      BY <2>4
    <3>3. b \in Blocks /\ Has(t, b) /\ Has(u, b)
      BY <2>2, <2>8, <3>1, <3>2 DEF Has
    <3>4. t = u
      BY <1>1, <3>3 DEF IInv, Owned
    <3>5. b \in taken[t] /\ b \in held[t]
      BY <2>8, <3>1, <3>2, <3>4
    <3> QED
      BY <1>1, <3>3, <3>5 DEF IInv, Owned
  <2>9. \A v, w \in DOMAIN hands : v # w => hands[v] \cap hands[w] = {}
    BY <2>8
  <2> QED
    BY <2>7, <2>9 DEF NoBlockLost, hands
<1> QED
  BY <1>1, HooksStaySound, PTL

-----------------------------------------------------------------------------
(* Last errors *)

ErrorTypes ==
  /\ lastError \in [Threads -> BOOLEAN]
  /\ told \in [Threads -> {"nothing", "error"}]

\* However the calls of the threads interleave, each keeps its own last error.
\* (LAST_ERROR_PTR, a thread_local)
THEOREM OwnLastError == Spec => []LastErrorIsOwn
<1> DEFINE Inv == ErrorTypes /\ LastErrorIsOwn
<1>1. Init => Inv
  BY DEF Init, ErrorTypes, LastErrorIsOwn
<1>2. ASSUME Inv, [Next]_vars
      PROVE  Inv'
  <2>1. CASE \E t \in Threads : ParseRejects(t) \/ ParseAccepts(t)
    <3>1. PICK t \in Threads : ParseRejects(t) \/ ParseAccepts(t)
      BY <2>1
    <3>2. \/ /\ lastError' = [lastError EXCEPT ![t] = TRUE]
             /\ told' = [told EXCEPT ![t] = "error"]
          \/ /\ lastError' = [lastError EXCEPT ![t] = FALSE]
             /\ told' = [told EXCEPT ![t] = "nothing"]
      BY <3>1 DEF ParseRejects, ParseAccepts, SetLastError
    <3>3. ErrorTypes'
      BY <1>2, <3>2 DEF ErrorTypes
    <3>4. LastErrorIsOwn'
      <4> SUFFICES ASSUME NEW u \in Threads
                   PROVE  lastError'[u] <=> told'[u] = "error"
        BY DEF LastErrorIsOwn
      <4>1. lastError[u] <=> told[u] = "error"
        BY <1>2 DEF LastErrorIsOwn
      <4>2. CASE u = t
        BY <1>2, <3>2, <4>2 DEF ErrorTypes
      <4>3. CASE u # t
        <5>1. lastError'[u] = lastError[u] /\ told'[u] = told[u]
          BY <1>2, <3>2, <4>3 DEF ErrorTypes
        <5> QED
          BY <4>1, <5>1
      <4> QED
        BY <4>2, <4>3
    <3> QED
      BY <3>3, <3>4
  <2>2. CASE UNCHANGED <<lastError, told>>
    BY <1>2, <2>2 DEF ErrorTypes, LastErrorIsOwn
  <2>3. ASSUME NEW t \in Threads, LibraryStep(t) \/ InitHooks(t) \/ Delete(t)
                                    \/ \E u \in Threads : HandOver(t, u)
        PROVE  UNCHANGED <<lastError, told>>
    BY <2>3 DEF LibraryStep, StoreFreeHook, BuildNode, BuildFails, ReturnTree, Release,
                ReturnNothing, InitHooks, Delete, HandOver
  <2>4. CASE UNCHANGED vars
    BY <2>4, <2>2 DEF vars, callVars
  <2> QED
    BY <1>2, <2>1, <2>2, <2>3, <2>4 DEF Next, CallerStep
<1> QED
  BY <1>1, <1>2, PTL DEF Spec

-----------------------------------------------------------------------------
(* Refinement *)

Stutters == UNCHANGED <<asked, blocks>>

LEMMA StutterMaps ==
  ASSUME Stutters
  PROVE  UNCHANGED <<HomeAsked, blocks>>
BY DEF Stutters, HomeAsked, Latest

\* cJSON_InitHooks exchanges the allocator when it stores the first slot.
LEMMA InitHooksMaps ==
  ASSUME IInv, NEW t \in Threads, InitHooks(t)
  PROVE  [AsOneAllocator!Next]_<<HomeAsked, blocks>>
<1>1. PICK p \in Pointers, q \in Pointers :
        /\ Home[Called(p)] \in Homes /\ Home[Called(q)] = Home[Called(p)]
        /\ \/ Home[Called(p)] = HomeAsked
           \/ Live = {} /\ knows[t] = Latest /\ \A u \in Threads : pc[u] = "idle"
        /\ Store(t, "malloc", p)
        /\ pending' = [pending EXCEPT ![t] = q]
        /\ asked' = Append(asked, Home[Called(p)])
  BY InitHooksAsks
<1> DEFINE h == Home[Called(p)]
<1>2. asked \in Seq(Homes) /\ h \in Homes
  BY <1>1 DEF IInv, Types
<1>3. HomeAsked' = h
  <2>1. Len(asked') = Len(asked) + 1 /\ asked'[Len(asked) + 1] = h
    BY <1>1, <1>2, AppendFacts
  <2> QED
    BY <2>1 DEF HomeAsked, Latest
<1>4. blocks' = blocks
  BY <1>1 DEF Store
<1>5. CASE h = HomeAsked
  BY <1>3, <1>4, <1>5
<1>6. CASE Live = {}
  <2>1. \A b \in Blocks : blocks[b] = NULL
    BY <1>6 DEF Live
  <2>2. HomeAsked' \in {Home[f] : f \in Functions}
    BY <1>2, <1>3 DEF Homes
  <2> QED
    BY <1>4, <2>1, <2>2 DEF AsOneAllocator!Next, AsOneAllocator!Exchange
<1> QED
  BY <1>1, <1>5, <1>6

\* A node comes from the one allocator in use.
LEMMA BuildNodeMaps ==
  ASSUME IInv, NEW t \in Threads, BuildNode(t)
  PROVE  AsOneAllocator!Next
<1>1. PICK b \in Blocks : HookMalloc(t, b)
  BY DEF BuildNode
<1>2. PICK i \in Visible(t, "malloc") : blocks' = [blocks EXCEPT ![b] = HomeAt("malloc", i)]
  BY <1>1 DEF HookMalloc
<1>3. pc[t] = "build"
  BY DEF BuildNode
<1>4. HomeAt("malloc", i) = HomeAsked
  BY <1>2, <1>3, CallSeesHomeAsked DEF IInv, Slots
<1>5. blocks[b] = NULL
  BY <1>1 DEF HookMalloc, Live
<1>6. asked' = asked
  BY DEF BuildNode
<1>7. HomeAsked' = HomeAsked
  BY <1>6 DEF HomeAsked, Latest
<1>8. blocks' = [blocks EXCEPT ![b] = HomeAsked]
  BY <1>2, <1>4
<1> QED
  BY <1>5, <1>7, <1>8 DEF AsOneAllocator!Next, AsOneAllocator!Allocate

\* A block goes to the free of the one allocator in use.
LEMMA ReleaseMaps ==
  ASSUME IInv, NEW t \in Threads, Release(t)
  PROVE  AsOneAllocator!Next
<1>1. PICK b \in taken[t], i \in Visible(t, "free") :
        /\ b \in Blocks
        /\ blocks[b] = HomeAsked
        /\ blocks' = [blocks EXCEPT ![b] = NULL]
  BY ReleaseFrees
<1>2. asked' = asked
  BY DEF Release
<1>3. HomeAsked' = HomeAsked
  BY <1>2 DEF HomeAsked, Latest
<1> QED
  BY <1>1, <1>3 DEF AsOneAllocator!Next, AsOneAllocator!Free

\* Every step of the two slots is a step of one allocator, or none.
LEMMA StepMaps ==
  ASSUME IInv, [Next]_vars
  PROVE  [AsOneAllocator!Next]_<<HomeAsked, blocks>>
<1>1. ASSUME NEW t \in Threads, InitHooks(t)
      PROVE  [AsOneAllocator!Next]_<<HomeAsked, blocks>>
  BY <1>1, InitHooksMaps
<1>2. ASSUME NEW t \in Threads, BuildNode(t)
      PROVE  AsOneAllocator!Next
  BY <1>2, BuildNodeMaps
<1>3. ASSUME NEW t \in Threads, Release(t)
      PROVE  AsOneAllocator!Next
  BY <1>3, ReleaseMaps
<1>4. ASSUME NEW t \in Threads,
             \/ StoreFreeHook(t) \/ BuildFails(t) \/ ReturnTree(t) \/ ReturnNothing(t)
             \/ ParseRejects(t) \/ ParseAccepts(t) \/ Delete(t)
             \/ \E u \in Threads : HandOver(t, u)
      PROVE  Stutters
  BY <1>4 DEF Stutters, StoreFreeHook, BuildFails, ReturnTree, ReturnNothing, ParseRejects,
              ParseAccepts, Delete, HandOver, Store, HookMallocFails, Synchronise, hookVars
<1>5. ASSUME UNCHANGED vars
      PROVE  Stutters
  BY <1>5 DEF Stutters, vars, hookVars, callVars
<1>6. Stutters => UNCHANGED <<HomeAsked, blocks>>
  BY StutterMaps
<1> QED
  BY <1>1, <1>2, <1>3, <1>4, <1>5, <1>6 DEF Next, LibraryStep, CallerStep

\* Stored one after the other, loaded at different times and seen late, the two
\* hook slots are to the caller one allocator that is exchanged as a whole.
\* (set_hooks, hook_malloc, hook_free)
THEOREM HooksAreOneAllocator == Spec => ImplementsAllocators
<1>1. Init => AsOneAllocator!Init
  <2> SUFFICES ASSUME Init
               PROVE  AsOneAllocator!Init
    OBVIOUS
  <2>1. asked = <<Home[LibC]>> /\ blocks = [b \in Blocks |-> NULL]
    BY DEF Init, HookInit
  <2>2. HomeAsked = Home[LibC]
    BY <2>1 DEF HomeAsked, Latest
  <2> QED
    BY <2>1, <2>2, LibCAssumption DEF AsOneAllocator!Init
<1>2. IInv /\ [Next]_vars => [AsOneAllocator!Next]_<<HomeAsked, blocks>>
  BY StepMaps
<1> QED
  BY <1>1, <1>2, HooksStaySound, PTL DEF Spec, ImplementsAllocators, AsOneAllocator!Spec
=============================================================================
