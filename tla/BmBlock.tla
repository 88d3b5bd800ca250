------------------------------- MODULE BmBlock -------------------------------
(***************************************************************************)
(* bmblock.c: a bitmap over the numbers min..max, packed in vectors of     *)
(* BITS_PER_VECTOR bits.  A vector is the set of the positions of its one  *)
(* bits; the unused field `cursor' is left out.  The state machine is one  *)
(* caller of the exported functions, as in test-bitmap.c and mount.c.      *)
(***************************************************************************)
EXTENDS Integers, FiniteSetsExt

CONSTANTS BITS_PER_VECTOR,  \* 64 in bmblock.h
          Numbers           \* the numbers a caller passes

ASSUME BmAssumption == /\ BITS_PER_VECTOR \in Nat \ {0}
                       /\ Numbers \subseteq Nat

VARIABLES bmb,      \* struct bmblock_array * (Null, or the structure it points to)
          result    \* what the last call returned

bmVars == <<bmb, result>>

ERR_BAD_PARAMETER == -116

Null == [min |-> 0, max |-> -1, length |-> 0, bm |-> [i \in {} |-> {}]]

\* A slip to check against: the length without the last, partly used, vector.
BmAllocOneShort(min, max) ==
    LET last == (max - min) \div BITS_PER_VECTOR
    IN  IF min > max THEN Null
        ELSE [min |-> min, max |-> max, length |-> last, bm |-> [i \in 0 .. last |-> {}]]

bm_alloc(min, max) ==
    LET last == (max - min) \div BITS_PER_VECTOR
    IN  IF min > max THEN Null
        ELSE [min |-> min, max |-> max, length |-> last + 1, bm |-> [i \in 0 .. last |-> {}]]

Index(b, x) == (x - b.min) \div BITS_PER_VECTOR
Elem(b, x)  == (x - b.min) % BITS_PER_VECTOR

OutOfRange(b, x) == b = Null \/ x < b.min \/ x > b.max

bm_get(b, x) == IF OutOfRange(b, x) THEN ERR_BAD_PARAMETER
                ELSE IF Elem(b, x) \in b.bm[Index(b, x)] THEN 1 ELSE 0

bm_set(b, x) == IF OutOfRange(b, x) \/ bm_get(b, x) = 1 THEN b
                ELSE [b EXCEPT !.bm[Index(b, x)] = @ \cup {Elem(b, x)}]

bm_clear(b, x) == IF OutOfRange(b, x) \/ bm_get(b, x) = 0 THEN b
                  ELSE [b EXCEPT !.bm[Index(b, x)] = @ \ {Elem(b, x)}]

\* A slip: the last number of the range is taken for its end.
BmFindNextBeforeMax(b) ==
    LET index == Min({i \in b.min .. (b.max + 1) : ~(bm_get(b, i) # 0 /\ i <= b.max)})
    IN  IF index >= b.max THEN -1 ELSE index

\* The loop of bm_find_next stops at the first index that bm_get finds clear or
\* that is past max (where bm_get itself answers with an error, which is not 0).
bm_find_next(b) ==
    LET stops == {i \in b.min .. (b.max + 1) : ~(bm_get(b, i) # 0 /\ i <= b.max)}
        index == Min(stops)
    IN  IF index > b.max THEN -1 ELSE index

-----------------------------------------------------------------------------
BmInit == bmb = Null /\ result = 0

Alloc(min, max) == /\ bmb = Null
                   /\ bmb' = bm_alloc(min, max)
                   /\ result' = 0

Set(x)   == bmb' = bm_set(bmb, x) /\ result' = 0

Clear(x) == bmb' = bm_clear(bmb, x) /\ result' = 0

Get(x) == result' = bm_get(bmb, x) /\ UNCHANGED bmb

\* bm_find_next does not test its argument: it is only called on a bitmap that exists.
FindNext == bmb # Null /\ result' = bm_find_next(bmb) /\ UNCHANGED bmb

\* free() by the caller, as umountv6 does.
Release == bmb # Null /\ bmb' = Null /\ result' = 0

BmNext == \/ \E min, max \in Numbers : Alloc(min, max)
        \/ \E x \in Numbers : Set(x) \/ Clear(x) \/ Get(x)
        \/ FindNext
        \/ Release

BmSpec == BmInit /\ [][BmNext]_bmVars

-----------------------------------------------------------------------------
\* The structure is well formed: it has a vector for every number of its range
\* (bm_alloc's length), and every vector has BITS_PER_VECTOR bits.
WellFormed == bmb = Null \/
    /\ bmb.min \in Nat /\ bmb.max \in Nat /\ bmb.min <= bmb.max
    /\ bmb = [min |-> bmb.min, max |-> bmb.max, length |-> bmb.length, bm |-> bmb.bm]
    /\ bmb.length = (bmb.max - bmb.min) \div BITS_PER_VECTOR + 1
    /\ bmb.bm \in [0 .. bmb.length - 1 -> SUBSET (0 .. BITS_PER_VECTOR - 1)]

BmTypeOK == WellFormed /\ result \in Int

\* The numbers that the bitmap marks.
Used(b) == {x \in b.min .. b.max : Elem(b, x) \in b.bm[Index(b, x)]}

Pool == INSTANCE NumberPool
            WITH pool <- [min |-> bmb.min, max |-> bmb.max, used |-> Used(bmb)], answer <- result

\* bmblock.h: whatever the packing, the bitmap behaves as a set of numbers: setting or
\* clearing one changes no other, and bm_find_next gives the least unused one.
RefinesNumberPool == Pool!Spec
=============================================================================
