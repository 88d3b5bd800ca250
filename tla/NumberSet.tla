----------------------------- MODULE NumberSet -----------------------------
(***************************************************************************)
(* A pool of numbers min..max, some of which are in use.  This is what the *)
(* bitmaps of bmblock.c promise to the rest of the program (bmblock.h):    *)
(* the packing of the numbers into 64-bit vectors is not visible here.     *)
(* BmBlock refines the state machine NumberPool that is built from these   *)
(* operators, which is why the modules of the upper layers use them.       *)
(***************************************************************************)
EXTENDS Integers, FiniteSetsExt

\* The value of a bitmap pointer that is NULL (pools are records, compare equal never).
NoPool == [min |-> 0, max |-> -1, used |-> {}]

NewPool(min, max) == IF min > max THEN NoPool
                                  ELSE [min |-> min, max |-> max, used |-> {}]

Holds(pool, x) == x \in pool.min .. pool.max

InUse(pool, x) == x \in pool.used

\* Numbers outside of the pool are silently ignored.
Take(pool, x)    == IF Holds(pool, x) THEN [pool EXCEPT !.used = @ \cup {x}] ELSE pool
TakeAll(pool, S) == [pool EXCEPT !.used = @ \cup {x \in S : Holds(pool, x)}]
GiveBack(pool, x) == IF Holds(pool, x) THEN [pool EXCEPT !.used = @ \ {x}] ELSE pool

Free(pool) == (pool.min .. pool.max) \ pool.used

LeastFree(pool) == IF Free(pool) = {} THEN -1 ELSE Min(Free(pool))
=============================================================================
