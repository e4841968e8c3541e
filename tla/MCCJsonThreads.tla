--------------------------- MODULE MCCJsonThreads ---------------------------
(* An instance of CJsonThreads for TLC. *)
EXTENDS CJsonThreads, TLC

CONSTANTS libc, count, pool, heap, arena   \* functions, and their allocators

MCFunctions == {libc, count, pool}
MCHome == (libc :> heap) @@ (count :> heap) @@ (pool :> arena)

Pair(malloc, free) == [s \in Slots |-> IF s = "malloc" THEN malloc ELSE free]

\* A malloc that counts and goes with libc's free, and a pool of the caller's.
MCHooks == {Pair(count, NULL), Pair(pool, pool)}

MCSymmetry == Permutations(Blocks)
=============================================================================
