----------------------------- MODULE NumberPool -----------------------------
(***************************************************************************)
(* The abstract specification of bmblock.h: one caller that allocates a    *)
(* pool, takes and gives back numbers, asks about a number and asks for    *)
(* the next unused one.  `answer' is what the last call returned.          *)
(***************************************************************************)
EXTENDS NumberSet

CONSTANT Numbers    \* the numbers a caller passes, in and out of the pool's range

VARIABLES pool, answer

vars == <<pool, answer>>

ERR_BAD_PARAMETER == -116

Init == pool = NoPool /\ answer = 0

Alloc(min, max) == /\ pool = NoPool
                   /\ pool' = NewPool(min, max)
                   /\ answer' = 0

Set(x)   == pool' = Take(pool, x) /\ answer' = 0

Clear(x) == pool' = GiveBack(pool, x) /\ answer' = 0

Get(x) == /\ answer' = IF ~Holds(pool, x) THEN ERR_BAD_PARAMETER
                       ELSE IF InUse(pool, x) THEN 1 ELSE 0
          /\ UNCHANGED pool

FindNext == /\ pool # NoPool
            /\ answer' = LeastFree(pool)
            /\ UNCHANGED pool

Release == /\ pool # NoPool
           /\ pool' = NoPool
           /\ answer' = 0

Next == \/ \E min, max \in Numbers : Alloc(min, max)
        \/ \E x \in Numbers : Set(x) \/ Clear(x) \/ Get(x)
        \/ FindNext
        \/ Release

Spec == Init /\ [][Next]_vars
=============================================================================
