----------------------------- MODULE Allocators -----------------------------
(***************************************************************************)
(* What the caller of cJSON_InitHooks may count on: at any time one        *)
(* allocator is in use, every live block is its own, and it changes only   *)
(* when no block lives.                                                    *)
(***************************************************************************)
CONSTANTS
  Blocks,
  Homes,   \* the allocators
  NULL

VARIABLES
  home,    \* the one in use
  blocks   \* the allocator of a live block, NULL if it is not live

Init == home \in Homes /\ blocks = [b \in Blocks |-> NULL]

Exchange ==
  /\ \A b \in Blocks : blocks[b] = NULL
  /\ home' \in Homes
  /\ UNCHANGED blocks

Allocate(b) ==
  /\ blocks[b] = NULL
  /\ blocks' = [blocks EXCEPT ![b] = home]
  /\ UNCHANGED home

Free(b) ==
  /\ blocks[b] = home
  /\ blocks' = [blocks EXCEPT ![b] = NULL]
  /\ UNCHANGED home

Next == Exchange \/ \E b \in Blocks : Allocate(b) \/ Free(b)
Spec == Init /\ [][Next]_<<home, blocks>>
=============================================================================
