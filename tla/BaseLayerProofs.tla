--------------------------- MODULE BaseLayerProofs ---------------------------
(***************************************************************************)
(* Proofs about the two layers that call no other one.                     *)
(*   BmBlock, for every vector width and every set of numbers: the         *)
(* structure stays well formed, and the packed bitmap implements the set   *)
(* of numbers that NumberPool specifies.                                   *)
(*   SectorIO, for every length of the image and every content of its      *)
(* sectors: in a process of one thread, such as the shell, the two stdio   *)
(* calls of sector.c amount to one access of the sector asked for.  The    *)
(* run FuseThreads shows that one thread is needed.                        *)
(***************************************************************************)
EXTENDS BmBlock, SectorIO, TLAPS, WellFoundedInduction

-----------------------------------------------------------------------------
(* Numbers.                                                                *)

\* A non-empty set of natural numbers has a least element, and Min chooses it.
LEMMA MinOfNaturals ==
    ASSUME NEW S \in SUBSET Nat, S # {}
    PROVE  Min(S) \in S /\ \A y \in S : Min(S) <= y
<1> DEFINE R == {ss \in Nat \X Nat : ss[1] < ss[2]}
<1>1. IsWellFoundedOn(R, Nat)
  BY NatLessThanWellFounded DEF OpToRel
<1>2. PICK x \in S : \A y \in S : ~(<<y, x>> \in R)
  <2> HIDE DEF R
  <2> QED BY <1>1, WFMin
<1>3. \A y \in S : x <= y
  <2> SUFFICES ASSUME NEW y \in S, ~(x <= y) PROVE FALSE
    OBVIOUS
  <2>1. y < x /\ x \in Nat /\ y \in Nat
    OBVIOUS
  <2>2. <<y, x>> \in R
    BY <2>1
  <2> QED BY <1>2, <2>2
<1> QED BY <1>3 DEF Min

\* Euclidean division, as the solver knows it.
LEMMA DivModFacts ==
    ASSUME NEW n \in Nat, NEW W \in Nat \ {0}
    PROVE  /\ n \div W \in Nat
           /\ n % W \in 0 .. W - 1
           /\ n = W * (n \div W) + (n % W)
  OBVIOUS

\* The index of a vector grows with the number.
LEMMA DivMonotone ==
    ASSUME NEW n \in Nat, NEW m \in Nat, NEW W \in Nat \ {0}, n <= m
    PROVE  n \div W <= m \div W
<1> DEFINE q == n \div W
           r == m \div W
<1>1. q \in Nat /\ r \in Nat /\ W * q <= n /\ m < W * r + W
  BY DivModFacts
<1> HIDE DEF q, r
<1>2. SUFFICES ASSUME r + 1 <= q PROVE FALSE
  BY <1>1 DEF q, r
<1>3. W * (r + 1) <= W * q
  BY <1>1, <1>2
<1>4. W * (r + 1) = W * r + W
  BY <1>1
<1> QED BY <1>1, <1>3, <1>4


-----------------------------------------------------------------------------
\* What WellFormed says of one structure.
Good(b) ==
    /\ b.min \in Nat /\ b.max \in Nat /\ b.min <= b.max
    /\ b = [min |-> b.min, max |-> b.max, length |-> b.length, bm |-> b.bm]
    /\ b.length = (b.max - b.min) \div BITS_PER_VECTOR + 1
    /\ b.bm \in [0 .. b.length - 1 -> SUBSET (0 .. BITS_PER_VECTOR - 1)]

\* bm_alloc's length suffices: every number of the range has its bit.
LEMMA BitInBounds ==
    ASSUME NEW b, Good(b), NEW x \in b.min .. b.max
    PROVE  /\ Index(b, x) \in 0 .. b.length - 1
           /\ Elem(b, x) \in 0 .. BITS_PER_VECTOR - 1
<1>1. x - b.min \in Nat /\ b.max - b.min \in Nat /\ x - b.min <= b.max - b.min
  BY DEF Good
<1>2. (x - b.min) \div BITS_PER_VECTOR <= (b.max - b.min) \div BITS_PER_VECTOR
  BY <1>1, DivMonotone, BmAssumption
<1>3. /\ (x - b.min) \div BITS_PER_VECTOR \in Nat
      /\ (b.max - b.min) \div BITS_PER_VECTOR \in Nat
      /\ (x - b.min) % BITS_PER_VECTOR \in 0 .. BITS_PER_VECTOR - 1
  BY <1>1, DivModFacts, BmAssumption
<1> QED BY <1>2, <1>3 DEF Good, Index, Elem

\* Two numbers never share a bit.
LEMMA BitsDistinct ==
    ASSUME NEW b, Good(b), NEW x \in b.min .. b.max, NEW y \in b.min .. b.max,
           Index(b, x) = Index(b, y), Elem(b, x) = Elem(b, y)
    PROVE  x = y
<1>1. x - b.min \in Nat /\ y - b.min \in Nat
  BY DEF Good
<1>2. x - b.min = y - b.min
  BY <1>1, DivModFacts, BmAssumption DEF Index, Elem
<1> QED BY <1>2 DEF Good

LEMMA GoodIsNotNull == ASSUME NEW b, Good(b) PROVE b # Null
  BY DEF Good, Null

\* Inside of the range, bm_get tells whether the number is marked.
LEMMA GetSpec ==
    ASSUME NEW b, Good(b), NEW x \in Nat
    PROVE  /\ x \in b.min .. b.max <=> ~OutOfRange(b, x)
           /\ x \in b.min .. b.max => bm_get(b, x) = IF x \in Used(b) THEN 1 ELSE 0
           /\ x \notin b.min .. b.max => bm_get(b, x) = ERR_BAD_PARAMETER
  BY GoodIsNotNull DEF Good, OutOfRange, bm_get, Used

\* Replacing one vector leaves the other fields of the structure alone.
LEMMA ReplaceVector ==
    ASSUME NEW b, NEW i, NEW v,
           b = [min |-> b.min, max |-> b.max, length |-> b.length, bm |-> b.bm]
    PROVE  [b EXCEPT !.bm[i] = v]
               = [min |-> b.min, max |-> b.max, length |-> b.length,
                  bm |-> [b.bm EXCEPT ![i] = v]]
<1> DEFINE f == [b.bm EXCEPT ![i] = v]
<1>1. [b EXCEPT !.bm[i] = v] = [b EXCEPT !.bm = f]
  OBVIOUS
<1> HIDE DEF f
<1>2. [b EXCEPT !.bm = f] = [min |-> b.min, max |-> b.max, length |-> b.length, bm |-> f]
  OBVIOUS
<1> QED BY <1>1, <1>2 DEF f

\* bm_set marks one number and nothing else, and keeps the structure.
LEMMA SetSpec ==
    ASSUME NEW b, Good(b), NEW x \in Nat
    PROVE  /\ Good(bm_set(b, x))
           /\ bm_set(b, x).min = b.min /\ bm_set(b, x).max = b.max
           /\ Used(bm_set(b, x)) = IF x \in b.min .. b.max THEN Used(b) \cup {x} ELSE Used(b)
<1>1. CASE x \notin b.min .. b.max \/ x \in Used(b)
  <2>1. bm_set(b, x) = b
    BY <1>1, GetSpec DEF bm_set, Used
  <2> QED BY <1>1, <2>1
<1>2. CASE x \in b.min .. b.max /\ x \notin Used(b)
  <2> DEFINE i == Index(b, x)
             v == b.bm[i] \cup {Elem(b, x)}
             c == [b EXCEPT !.bm[i] = v]
  <2>1. bm_set(b, x) = c
    BY <1>2, GetSpec DEF bm_set
  <2>2. i \in 0 .. b.length - 1 /\ Elem(b, x) \in 0 .. BITS_PER_VECTOR - 1
    BY <1>2, BitInBounds
  <2>0. c = [min |-> b.min, max |-> b.max, length |-> b.length,
             bm |-> [b.bm EXCEPT ![i] = v]]
    <3> HIDE DEF i, v
    <3> QED BY ReplaceVector DEF Good
  <2> HIDE DEF c
  <2>3. /\ c = [min |-> b.min, max |-> b.max, length |-> b.length, bm |-> c.bm]
        /\ c.min = b.min /\ c.max = b.max /\ c.length = b.length
        /\ c.bm = [b.bm EXCEPT ![i] = @ \cup {Elem(b, x)}]
    BY <2>0
  <2>4. c.bm \in [0 .. b.length - 1 -> SUBSET (0 .. BITS_PER_VECTOR - 1)]
    BY <2>2, <2>3 DEF Good
  <2>5. Good(c)
    BY <2>3, <2>4 DEF Good
  <2>6. \A y \in b.min .. b.max : /\ Index(c, y) = Index(b, y) /\ Elem(c, y) = Elem(b, y)
                                 /\ Index(b, y) \in 0 .. b.length - 1
    BY <2>3, BitInBounds DEF Index, Elem
  <2>7. \A y \in b.min .. b.max :
            Elem(c, y) \in c.bm[Index(c, y)] <=> y = x \/ Elem(b, y) \in b.bm[Index(b, y)]
    <3> SUFFICES ASSUME NEW y \in b.min .. b.max
                 PROVE  Elem(c, y) \in c.bm[Index(c, y)] <=> y = x \/ Elem(b, y) \in b.bm[Index(b, y)]
      OBVIOUS
    <3>1. CASE Index(b, y) # i
      BY <2>3, <2>6, <3>1 DEF Good
    <3>2. CASE Index(b, y) = i
      <4>1. Elem(b, y) = Elem(b, x) => y = x
        BY <1>2, <3>2, BitsDistinct
      <4>2. c.bm[i] = b.bm[i] \cup {Elem(b, x)}
        BY <2>2, <2>3 DEF Good
      <4> QED BY <2>6, <3>2, <4>1, <4>2
    <3> QED BY <3>1, <3>2
  <2>8. Used(c) = Used(b) \cup {x}
    BY <1>2, <2>3, <2>7 DEF Used
  <2> QED BY <1>2, <2>1, <2>3, <2>5, <2>8
<1> QED BY <1>1, <1>2

\* bm_clear unmarks one number and nothing else, and keeps the structure.
LEMMA ClearSpec ==
    ASSUME NEW b, Good(b), NEW x \in Nat
    PROVE  /\ Good(bm_clear(b, x))
           /\ bm_clear(b, x).min = b.min /\ bm_clear(b, x).max = b.max
           /\ Used(bm_clear(b, x)) = IF x \in b.min .. b.max THEN Used(b) \ {x} ELSE Used(b)
<1>1. CASE x \notin b.min .. b.max \/ x \notin Used(b)
  <2>1. bm_clear(b, x) = b
    BY <1>1, GetSpec DEF bm_clear
  <2> QED BY <1>1, <2>1
<1>2. CASE x \in b.min .. b.max /\ x \in Used(b)
  <2> DEFINE i == Index(b, x)
             v == b.bm[i] \ {Elem(b, x)}
             c == [b EXCEPT !.bm[i] = v]
  <2>1. bm_clear(b, x) = c
    BY <1>2, GetSpec DEF bm_clear
  <2>2. i \in 0 .. b.length - 1 /\ Elem(b, x) \in 0 .. BITS_PER_VECTOR - 1
    BY <1>2, BitInBounds
  <2>0. c = [min |-> b.min, max |-> b.max, length |-> b.length,
             bm |-> [b.bm EXCEPT ![i] = v]]
    <3> HIDE DEF i, v
    <3> QED BY ReplaceVector DEF Good
  <2> HIDE DEF c
  <2>3. /\ c = [min |-> b.min, max |-> b.max, length |-> b.length, bm |-> c.bm]
        /\ c.min = b.min /\ c.max = b.max /\ c.length = b.length
        /\ c.bm = [b.bm EXCEPT ![i] = @ \ {Elem(b, x)}]
    BY <2>0
  <2>4. c.bm \in [0 .. b.length - 1 -> SUBSET (0 .. BITS_PER_VECTOR - 1)]
    BY <2>2, <2>3 DEF Good
  <2>5. Good(c)
    BY <2>3, <2>4 DEF Good
  <2>6. \A y \in b.min .. b.max : /\ Index(c, y) = Index(b, y) /\ Elem(c, y) = Elem(b, y)
                                 /\ Index(b, y) \in 0 .. b.length - 1
    BY <2>3, BitInBounds DEF Index, Elem
  <2>7. \A y \in b.min .. b.max :
            Elem(c, y) \in c.bm[Index(c, y)] <=> y # x /\ Elem(b, y) \in b.bm[Index(b, y)]
    <3> SUFFICES ASSUME NEW y \in b.min .. b.max
                 PROVE  Elem(c, y) \in c.bm[Index(c, y)] <=> y # x /\ Elem(b, y) \in b.bm[Index(b, y)]
      OBVIOUS
    <3>1. CASE Index(b, y) # i
      BY <2>3, <2>6, <3>1 DEF Good
    <3>2. CASE Index(b, y) = i
      <4>1. Elem(b, y) = Elem(b, x) => y = x
        BY <1>2, <3>2, BitsDistinct
      <4>2. c.bm[i] = b.bm[i] \ {Elem(b, x)}
        BY <2>2, <2>3 DEF Good
      <4> QED BY <2>6, <3>2, <4>1, <4>2
    <3> QED BY <3>1, <3>2
  <2>8. Used(c) = Used(b) \ {x}
    BY <1>2, <2>3, <2>7 DEF Used
  <2> QED BY <1>2, <2>1, <2>3, <2>5, <2>8
<1> QED BY <1>1, <1>2

\* A fresh bitmap is well formed and marks nothing.
LEMMA AllocSpec ==
    ASSUME NEW min \in Nat, NEW max \in Nat, min <= max
    PROVE  LET b == bm_alloc(min, max)
           IN  Good(b) /\ b.min = min /\ b.max = max /\ Used(b) = {}
<1> DEFINE b == bm_alloc(min, max)
           last == (max - min) \div BITS_PER_VECTOR
<1>1. b = [min |-> min, max |-> max, length |-> last + 1, bm |-> [i \in 0 .. last |-> {}]]
  BY DEF bm_alloc
<1>2. last \in Nat
  BY BmAssumption, DivModFacts
<1>3. Good(b)
  BY <1>1, <1>2 DEF Good
<1> HIDE DEF b, last
<1>4. b.min = min /\ b.max = max /\ b.length = last + 1 /\ b.bm = [i \in 0 .. last |-> {}]
  BY <1>1
<1>5. \A x \in min .. max : b.bm[Index(b, x)] = {}
  BY <1>2, <1>3, <1>4, BitInBounds
<1>6. Used(b) = {}
  BY <1>4, <1>5 DEF Used
<1> QED BY <1>3, <1>4, <1>6 DEF b

\* The scan of bm_find_next ends at the least number that is not marked, or answers -1.
LEMMA FindNextSpec ==
    ASSUME NEW b, Good(b)
    PROVE  LET free == (b.min .. b.max) \ Used(b)
           IN  bm_find_next(b) = IF free = {} THEN -1 ELSE Min(free)
<1> DEFINE free == (b.min .. b.max) \ Used(b)
           stops == {i \in b.min .. (b.max + 1) : ~(bm_get(b, i) # 0 /\ i <= b.max)}
<1>1. b.min \in Nat /\ b.max \in Nat /\ b.min <= b.max
  BY DEF Good
<1>2. stops = free \cup {b.max + 1}
  BY <1>1, GetSpec DEF Used, ERR_BAD_PARAMETER
<1>3. stops \in SUBSET Nat /\ stops # {} /\ free \in SUBSET Nat
  BY <1>1, <1>2
<1>4. bm_find_next(b) = IF Min(stops) > b.max THEN -1 ELSE Min(stops)
  BY DEF bm_find_next
<1> HIDE DEF stops, free
<1>5. Min(stops) \in stops /\ \A y \in stops : Min(stops) <= y
  BY <1>3, MinOfNaturals
<1>6. CASE free = {}
  <2>1. Min(stops) = b.max + 1
    BY <1>2, <1>5, <1>6
  <2> QED BY <1>1, <1>4, <1>6, <2>1 DEF free
<1>7. CASE free # {}
  <2>1. Min(free) \in free /\ \A y \in free : Min(free) <= y
    BY <1>3, <1>7, MinOfNaturals
  <2>2. Min(free) \in b.min .. b.max
    BY <2>1 DEF free
  <2>3. Min(stops) <= Min(free)
    BY <1>2, <1>5, <2>1
  <2>4. Min(stops) # b.max + 1 /\ Min(stops) \in free
    BY <1>1, <1>2, <1>3, <1>5, <2>2, <2>3
  <2>5. Min(stops) = Min(free)
    <3>1. Min(free) <= Min(stops) /\ Min(free) \in Nat /\ Min(stops) \in Nat
      BY <1>3, <2>1, <2>4
    <3> QED BY <2>3, <3>1
  <2> QED BY <1>1, <1>4, <1>7, <2>2, <2>5 DEF free
<1> QED BY <1>6, <1>7 DEF free

-----------------------------------------------------------------------------
\* The inductive invariant is Good itself, once the bitmap exists.
LEMMA NonNullIsGood == Null # bmb => (WellFormed <=> Good(bmb))
  BY DEF WellFormed, Good

\* The refinement mapping: a missing bitmap is a missing pool.
LEMMA MapNull == bmb = Null => [min |-> bmb.min, max |-> bmb.max, used |-> Used(bmb)] = Pool!NoPool
  BY DEF Null, Used, Pool!NoPool

\* bmblock.c, all functions: whatever the order of the calls, the structure has a vector
\* for every number of its range and every answer is an integer.
THEOREM BmTypeCorrect == BmSpec => []BmTypeOK
<1>1. BmInit => BmTypeOK
  BY DEF BmInit, BmTypeOK, WellFormed
<1>2. BmTypeOK /\ [BmNext]_bmVars => BmTypeOK'
  <2> SUFFICES ASSUME BmTypeOK, [BmNext]_bmVars PROVE BmTypeOK'
    OBVIOUS
  <2>0. bmb = Null \/ Good(bmb)
    BY NonNullIsGood DEF BmTypeOK
  <2>1. ASSUME NEW min \in Numbers, NEW max \in Numbers, Alloc(min, max) PROVE BmTypeOK'
    <3>1. CASE min > max
      BY <2>1, <3>1 DEF Alloc, bm_alloc, BmTypeOK, WellFormed
    <3>2. CASE min <= max
      <4>1. Good(bmb')
        BY <2>1, <3>2, AllocSpec, BmAssumption DEF Alloc
      <4> QED BY <2>1, <4>1 DEF Alloc, BmTypeOK, WellFormed, Good
    <3> QED BY <3>1, <3>2, BmAssumption
  <2>2. ASSUME NEW x \in Numbers, Set(x) PROVE BmTypeOK'
    <3>1. CASE bmb = Null
      BY <2>2, <3>1 DEF Set, bm_set, OutOfRange, BmTypeOK, WellFormed
    <3>2. CASE Good(bmb)
      <4>1. Good(bmb')
        BY <2>2, <3>2, SetSpec, BmAssumption DEF Set
      <4> QED BY <2>2, <4>1 DEF Set, BmTypeOK, WellFormed, Good
    <3> QED BY <2>0, <3>1, <3>2
  <2>3. ASSUME NEW x \in Numbers, Clear(x) PROVE BmTypeOK'
    <3>1. CASE bmb = Null
      BY <2>3, <3>1 DEF Clear, bm_clear, OutOfRange, BmTypeOK, WellFormed
    <3>2. CASE Good(bmb)
      <4>1. Good(bmb')
        BY <2>3, <3>2, ClearSpec, BmAssumption DEF Clear
      <4> QED BY <2>3, <4>1 DEF Clear, BmTypeOK, WellFormed, Good
    <3> QED BY <2>0, <3>1, <3>2
  <2>4. ASSUME NEW x \in Numbers, Get(x) PROVE BmTypeOK'
    BY <2>4 DEF Get, bm_get, ERR_BAD_PARAMETER, BmTypeOK, WellFormed
  <2>5. ASSUME FindNext PROVE BmTypeOK'
    <3>1. Good(bmb)
      BY <2>0, <2>5 DEF FindNext
    <3>2. result' \in Int
      <4> DEFINE free == (bmb.min .. bmb.max) \ Used(bmb)
      <4>1. result' = IF free = {} THEN -1 ELSE Min(free)
        BY <2>5, <3>1, FindNextSpec DEF FindNext
      <4>2. free \in SUBSET Nat
        BY <3>1 DEF Good
      <4> HIDE DEF free
      <4> QED BY <4>1, <4>2, MinOfNaturals
    <3> QED BY <2>5, <3>2 DEF FindNext, BmTypeOK, WellFormed
  <2>6. ASSUME Release PROVE BmTypeOK'
    BY <2>6 DEF Release, BmTypeOK, WellFormed
  <2>7. CASE UNCHANGED bmVars
    BY <2>7 DEF bmVars, BmTypeOK, WellFormed
  <2> QED BY <2>1, <2>2, <2>3, <2>4, <2>5, <2>6, <2>7 DEF BmNext
<1> QED BY <1>1, <1>2, PTL DEF BmSpec

\* bmblock.h's promise, for every width of the vectors: a run of the packed bitmap is a run
\* of the set of numbers, with the same answers.
THEOREM BmImplementsPool == BmSpec => RefinesNumberPool
<1> DEFINE P(b) == [min |-> b.min, max |-> b.max, used |-> Used(b)]
<1>1. BmInit => Pool!Init
  BY MapNull DEF BmInit, Pool!Init
<1>2. BmTypeOK /\ [BmNext]_bmVars => [Pool!Next]_Pool!vars
  <2> SUFFICES ASSUME BmTypeOK, [BmNext]_bmVars PROVE [Pool!Next]_Pool!vars
    OBVIOUS
  <2>0. bmb = Null \/ Good(bmb)
    BY NonNullIsGood DEF BmTypeOK
  <2>8. P(Null) = Pool!NoPool /\ Null.min = 0 /\ Null.max = -1 /\ Used(Null) = {}
    BY DEF Null, Used, Pool!NoPool
  <2>9. ASSUME Good(bmb) PROVE P(bmb) # Pool!NoPool
    BY <2>9 DEF Good, Pool!NoPool
  <2>1. ASSUME NEW min \in Numbers, NEW max \in Numbers, Alloc(min, max)
        PROVE  Pool!Alloc(min, max)
    <3>1. P(bmb) = Pool!NoPool /\ result' = 0
      BY <2>1, <2>8 DEF Alloc
    <3>2. CASE min > max
      <4>1. bmb' = Null
        BY <2>1, <3>2 DEF Alloc, bm_alloc
      <4> QED BY <2>8, <3>1, <3>2, <4>1 DEF Pool!Alloc, Pool!NewPool
    <3>3. CASE min <= max
      <4>1. P(bmb') = [min |-> min, max |-> max, used |-> {}]
        BY <2>1, <3>3, AllocSpec, BmAssumption DEF Alloc
      <4>2. ~(min > max)
        BY <3>3, BmAssumption
      <4> QED BY <3>1, <4>1, <4>2 DEF Pool!Alloc, Pool!NewPool
    <3> QED BY <3>2, <3>3, BmAssumption
  <2>2. ASSUME NEW x \in Numbers, Set(x) PROVE Pool!Set(x)
    <3>1. CASE bmb = Null
      <4>1. bmb' = bmb
        BY <2>2, <3>1 DEF Set, bm_set, OutOfRange
      <4>2. ~Pool!Holds(P(bmb), x)
        BY <2>8, <3>1, BmAssumption DEF Pool!Holds
      <4> QED BY <2>2, <4>1, <4>2 DEF Set, Pool!Set, Pool!Take
    <3>2. CASE Good(bmb)
      BY <2>2, <3>2, SetSpec, BmAssumption DEF Set, Pool!Set, Pool!Take, Pool!Holds
    <3> QED BY <2>0, <3>1, <3>2
  <2>3. ASSUME NEW x \in Numbers, Clear(x) PROVE Pool!Clear(x)
    <3>1. CASE bmb = Null
      <4>1. bmb' = bmb
        BY <2>3, <3>1 DEF Clear, bm_clear, OutOfRange
      <4>2. ~Pool!Holds(P(bmb), x)
        BY <2>8, <3>1, BmAssumption DEF Pool!Holds
      <4> QED BY <2>3, <4>1, <4>2 DEF Clear, Pool!Clear, Pool!GiveBack
    <3>2. CASE Good(bmb)
      BY <2>3, <3>2, ClearSpec, BmAssumption DEF Clear, Pool!Clear, Pool!GiveBack, Pool!Holds
    <3> QED BY <2>0, <3>1, <3>2
  <2>4. ASSUME NEW x \in Numbers, Get(x) PROVE Pool!Get(x)
    <3>1. CASE bmb = Null
      <4>1. ~Pool!Holds(P(bmb), x)
        BY <2>8, <3>1, BmAssumption DEF Pool!Holds
      <4> QED BY <2>4, <3>1, <4>1 DEF Get, bm_get, OutOfRange, ERR_BAD_PARAMETER,
                                      Pool!Get, Pool!ERR_BAD_PARAMETER
    <3>2. CASE Good(bmb)
      BY <2>4, <3>2, GetSpec, BmAssumption
         DEF Get, ERR_BAD_PARAMETER, Pool!Get, Pool!Holds, Pool!InUse, Pool!ERR_BAD_PARAMETER
    <3> QED BY <2>0, <3>1, <3>2
  <2>5. ASSUME FindNext PROVE Pool!FindNext
    <3>1. Good(bmb)
      BY <2>0, <2>5 DEF FindNext
    <3> QED BY <2>5, <2>9, <3>1, FindNextSpec
            DEF FindNext, Pool!FindNext, Pool!LeastFree, Pool!Free, Min, Pool!Min
  <2>6. ASSUME Release PROVE Pool!Release
    <3>1. Good(bmb) /\ bmb' = Null
      BY <2>0, <2>6 DEF Release
    <3> QED BY <2>6, <2>8, <2>9, <3>1 DEF Release, Pool!Release
  <2>7. CASE UNCHANGED bmVars
    BY <2>7 DEF bmVars, Pool!vars
  <2> QED BY <2>1, <2>2, <2>3, <2>4, <2>5, <2>6, <2>7 DEF BmNext, Pool!Next
<1> QED BY <1>1, <1>2, BmTypeCorrect, PTL DEF BmSpec, RefinesNumberPool, Pool!Spec

-----------------------------------------------------------------------------
(* SectorIO.                                                               *)

OneThread == \A s, t \in Threads : s = t

\* The thread that is about to transfer a sector finds the stream where it put it, and
\* nothing in the buffer: no other thread uses the stream between its fseek and that.
StreamIsMine == \A t \in Threads :
    pc[t] = "transfer" => pos = call[t].sector /\ DOMAIN buffer = {}

Inv == TypeOK /\ StreamIsMine

\* The buffer is what makes the stream differ from the file.
LEMMA EmptyBuffer == ASSUME DOMAIN buffer = {}, disk \in [Sectors -> Contents]
                     PROVE  Stream = disk
  BY DEF Stream

LEMMA StreamType == ASSUME TypeOK PROVE Stream \in [Sectors -> Contents]
  BY DEF TypeOK, Stream

\* After a flush the stream shows what it showed before.
LEMMA FlushKeepsStream ==
    ASSUME TypeOK, Flush PROVE Stream' = Stream
<1>1. DOMAIN buffer' = {}
  BY DEF Flush, Nothing
<1> QED BY <1>1, StreamType DEF Flush, Stream

LEMMA CallsShape ==
    ASSUME NEW t \in Threads, NEW c \in Calls(t)
    PROVE  /\ c.op \in {"read", "write"} /\ c.sector \in 0 .. Length
           /\ c.op = "write" => c.sector \in Sectors /\ c.data \in Contents
<1>1. Wanted \subseteq 0 .. Length /\ Sectors \subseteq 0 .. Length
  BY SectorIOAssumption DEF Sectors
<1>2. CASE c \in [op : {"read"}, sector : Wanted, data : {0}]
  BY <1>1, <1>2
<1>3. CASE c \in [op : {"write"}, sector : Sectors, data : Contents]
  BY <1>1, <1>3
<1> QED BY <1>2, <1>3 DEF Calls

LEMMA InitInv == Init => Inv
<1> SUFFICES ASSUME Init PROVE Inv
  OBVIOUS
<1>1. [op |-> "read", sector |-> 0, data |-> 0] \in [op : {"read"}, sector : Wanted, data : {0}]
  BY SectorIOAssumption
<1>2. \A t \in Threads : call[t] \in Calls(t)
  BY <1>1 DEF Init, Calls
<1>3. DOMAIN buffer = {}
  BY DEF Init, Nothing
<1>4. call \in [Threads -> UNION {Calls(t) : t \in Threads}]
  BY <1>2 DEF Init
<1> QED BY <1>2, <1>3, <1>4, SectorIOAssumption DEF Init, Inv, TypeOK, StreamIsMine

\* What the end of a call leaves.
LEMMA EndedType ==
    ASSUME TypeOK, NEW t \in Threads, NEW data, NEW ret \in {0, ERR_IO}, NEW failed,
           Ended(t, data, ret, failed), disk' \in [Sectors -> Contents],
           DOMAIN buffer' \subseteq Sectors, \A n \in DOMAIN buffer' : buffer'[n] \in Contents,
           pos' \in 0 .. Length + 1
    PROVE  TypeOK'
<1>1. /\ pc' = [pc EXCEPT ![t] = "idle"] /\ call' = call /\ answer'.ret = ret
  BY DEF Ended
<1> QED BY <1>1 DEF TypeOK, Calls, Sectors

LEMMA FailureType ==
    ASSUME TypeOK, NEW t \in Threads, NEW function, TransferFails(t, function)
    PROVE  TypeOK'
<1>1. Ended(t, 0, ERR_IO, TRUE) /\ UNCHANGED <<disk, buffer>> /\ pos' \in 0 .. Length
  BY DEF TransferFails
<1>2. pos' \in 0 .. Length + 1
  BY <1>1, SectorIOAssumption
<1> QED BY <1>1, <1>2, EndedType DEF TypeOK

LEMMA EndedIdle ==
    ASSUME OneThread, TypeOK, NEW t \in Threads, NEW data, NEW ret, NEW failed,
           Ended(t, data, ret, failed)
    PROVE  StreamIsMine'
  BY DEF OneThread, StreamIsMine, TypeOK, Ended

LEMMA FlushType ==
    ASSUME TypeOK, Flush
    PROVE  disk' \in [Sectors -> Contents] /\ DOMAIN buffer' = {}
  BY StreamType DEF Flush, Nothing

LEMMA SeekType == ASSUME TypeOK, NEW t \in Threads, Seek(t) PROVE TypeOK'
<1>1. CASE Flush /\ pos' = call[t].sector /\ pc' = [pc EXCEPT ![t] = "transfer"]
           /\ UNCHANGED <<call, answer>>
  <2>1. DOMAIN buffer' = {} /\ disk' \in [Sectors -> Contents]
    BY <1>1, FlushType
  <2>2. pos' \in 0 .. Length + 1
    BY <1>1, CallsShape, SectorIOAssumption DEF TypeOK
  <2> QED BY <1>1, <2>1, <2>2 DEF TypeOK, Calls, Sectors
<1>2. CASE Ended(t, 0, ERR_IO, TRUE) /\ UNCHANGED <<disk, buffer, pos>>
  BY <1>2, EndedType DEF TypeOK
<1> QED BY <1>1, <1>2 DEF Seek

LEMMA ReadType == ASSUME TypeOK, NEW t \in Threads, Read(t) PROVE TypeOK'
<1>1. CASE TransferFails(t, "fread")
  BY <1>1, FailureType
<1>2. CASE /\ Flush
           /\ \/ pos \in Sectors /\ pos' = pos + 1 /\ Ended(t, Stream[pos], 0, FALSE)
              \/ pos' = pos /\ Ended(t, 0, ERR_IO, FALSE)
  <2>1. DOMAIN buffer' = {} /\ disk' \in [Sectors -> Contents]
    BY <1>2, FlushType
  <2>2. pos' \in 0 .. Length + 1
    <3>1. (pos \in Sectors /\ pos' = pos + 1) \/ pos' = pos
      BY <1>2
    <3> QED BY <3>1, SectorIOAssumption DEF TypeOK, Sectors
  <2> QED BY <1>2, <2>1, <2>2, EndedType
<1> QED BY <1>1, <1>2 DEF Read

\* One step per stdio call; only Seek establishes StreamIsMine, and only for its own thread.
LEMMA NextInv == ASSUME OneThread, Inv, [Next]_vars PROVE Inv'
<1> USE DEF Inv
<1>1. ASSUME NEW t \in Threads, Begin(t) PROVE Inv'
  <2>1. PICK c \in Calls(t) : call' = [call EXCEPT ![t] = c]
    BY <1>1 DEF Begin
  <2>2. /\ call' \in [Threads -> UNION {Calls(s) : s \in Threads}]
        /\ \A s \in Threads : call'[s] \in Calls(s)
    BY <2>1 DEF TypeOK
  <2>3. pc' \in [Threads -> {"idle", "fseek", "transfer"}] /\ pc'[t] = "fseek"
    BY <1>1 DEF Begin, TypeOK
  <2>4. TypeOK'
    BY <1>1, <2>2, <2>3 DEF Begin, TypeOK, Calls, Sectors
  <2>5. StreamIsMine'
    BY <2>3 DEF OneThread, StreamIsMine
  <2> QED BY <2>4, <2>5
<1>2. ASSUME NEW t \in Threads, Seek(t) PROVE Inv'
  <2>1. \/ Flush /\ pos' = call[t].sector /\ pc' = [pc EXCEPT ![t] = "transfer"]
           /\ UNCHANGED <<call, answer>>
        \/ Ended(t, 0, ERR_IO, TRUE) /\ UNCHANGED <<disk, buffer, pos>>
    BY <1>2 DEF Seek
  <2>2. TypeOK'
    BY <1>2, SeekType
  <2>3. CASE Flush /\ pos' = call[t].sector /\ UNCHANGED call
    BY <2>2, <2>3 DEF Flush, Nothing, OneThread, StreamIsMine
  <2>4. CASE Ended(t, 0, ERR_IO, TRUE)
    BY <2>2, <2>4, EndedIdle
  <2> QED BY <2>1, <2>2, <2>3, <2>4
<1>3. ASSUME NEW t \in Threads, Read(t) PROVE Inv'
  <2>1. TypeOK'
    BY <1>3, ReadType
  <2>2. \E data, ret, failed : Ended(t, data, ret, failed)
    BY <1>3 DEF Read, TransferFails
  <2> QED BY <2>1, <2>2, EndedIdle
<1>4. ASSUME NEW t \in Threads, Write(t) PROVE Inv'
  <2>1. /\ pc[t] = "transfer"
        /\ \/ /\ buffer' = [n \in DOMAIN buffer \cup {pos} |->
                               IF n = pos THEN call[t].data ELSE buffer[n]]
              /\ pos' = pos + 1
              /\ Ended(t, call[t].data, 0, FALSE)
              /\ UNCHANGED disk
           \/ TransferFails(t, "fwrite")
    BY <1>4 DEF Write
  <2>2. TypeOK'
    <3>1. CASE TransferFails(t, "fwrite")
      BY <3>1, FailureType
    <3>2. CASE /\ buffer' = [n \in DOMAIN buffer \cup {pos} |->
                               IF n = pos THEN call[t].data ELSE buffer[n]]
               /\ pos' = pos + 1
               /\ Ended(t, call[t].data, 0, FALSE)
               /\ UNCHANGED disk
      <4>1. pos \in Sectors /\ call[t].data \in Contents
        BY <1>4, CallsShape DEF Write, TypeOK, StreamIsMine
      <4>2. /\ DOMAIN buffer' \subseteq Sectors
            /\ \A n \in DOMAIN buffer' : buffer'[n] \in Contents
        BY <3>2, <4>1 DEF TypeOK
      <4>3. pos' \in 0 .. Length + 1
        BY <3>2, <4>1, SectorIOAssumption DEF Sectors
      <4> QED BY <3>2, <4>2, <4>3, EndedType DEF TypeOK
    <3> QED BY <2>1, <3>1, <3>2
  <2>3. \E data, ret, failed : Ended(t, data, ret, failed)
    BY <2>1 DEF TransferFails
  <2> QED BY <2>2, <2>3, EndedIdle
<1>5. ASSUME Crash PROVE Inv'
  <2>1. DOMAIN buffer' = {}
    BY <1>5 DEF Crash, Nothing
  <2> QED BY <1>5, <2>1, SectorIOAssumption DEF Crash, TypeOK, StreamIsMine, Calls, Sectors
<1>6. CASE UNCHANGED vars
  BY <1>6 DEF vars, TypeOK, StreamIsMine, Calls, Sectors
<1> QED BY <1>1, <1>2, <1>3, <1>4, <1>5, <1>6 DEF Next

LEMMA InvHolds == ASSUME OneThread PROVE Spec => []Inv
<1>1. Init => Inv
  BY InitInv
<1>2. Inv /\ [Next]_vars => Inv'
  BY NextInv
<1> QED BY <1>1, <1>2, PTL DEF Spec

\* Threads that only read, however many there are.
LEMMA ReadersType == ASSUME Writers = {}, TypeOK, [Next]_vars PROVE TypeOK'
<1>1. ASSUME NEW t \in Threads, Begin(t) PROVE TypeOK'
  <2>1. PICK c \in Calls(t) : call' = [call EXCEPT ![t] = c]
    BY <1>1 DEF Begin
  <2>2. /\ call' \in [Threads -> UNION {Calls(s) : s \in Threads}]
        /\ \A s \in Threads : call'[s] \in Calls(s)
    BY <2>1 DEF TypeOK
  <2>3. pc' \in [Threads -> {"idle", "fseek", "transfer"}]
    BY <1>1 DEF Begin, TypeOK
  <2> QED BY <1>1, <2>2, <2>3 DEF Begin, TypeOK, Calls, Sectors
<1>2. ASSUME NEW t \in Threads, Seek(t) PROVE TypeOK'
  BY <1>2, SeekType
<1>3. ASSUME NEW t \in Threads, Read(t) PROVE TypeOK'
  BY <1>3, ReadType
<1>4. ASSUME NEW t \in Threads, Write(t) PROVE FALSE
  <2>1. call[t] \in Calls(t) /\ call[t].op = "write"
    BY <1>4 DEF Write, TypeOK
  <2> QED BY <2>1 DEF Calls
<1>5. ASSUME Crash PROVE TypeOK'
  <2>1. DOMAIN buffer' = {}
    BY <1>5 DEF Crash, Nothing
  <2> QED BY <1>5, <2>1, SectorIOAssumption DEF Crash, TypeOK, Calls, Sectors
<1>6. CASE UNCHANGED vars
  BY <1>6 DEF vars, TypeOK, Calls, Sectors
<1> QED BY <1>1, <1>2, <1>3, <1>4, <1>5, <1>6 DEF Next

\* Type correctness, for one thread that reads and writes, and for any number of threads that
\* only read, as under FUSE: what sectors they ask for, the stream stays on the image or at
\* its end.  (A writer beside other threads could write behind the end.)
THEOREM SectorTypeCorrect == ASSUME OneThread \/ Writers = {} PROVE Spec => []TypeOK
<1>1. CASE OneThread
  <2>1. Inv => TypeOK
    BY DEF Inv
  <2> QED BY <1>1, <2>1, InvHolds, PTL
<1>2. CASE Writers = {}
  <2>1. Init => TypeOK
    BY InitInv DEF Inv
  <2>2. TypeOK /\ [Next]_vars => TypeOK'
    BY <1>2, ReadersType
  <2> QED BY <2>1, <2>2, PTL DEF Spec
<1> QED BY <1>1, <1>2

\* A call in which stdio failed changes nothing.
LEMMA FailureFails ==
    ASSUME TypeOK, NEW t \in Threads, Ended(t, 0, ERR_IO, TRUE), UNCHANGED <<disk, buffer>>
    PROVE  Abstract!Fail
<1>1. Stream' = Stream
  BY DEF Stream
<1>2. call[t].op \in {"read", "write"}
  BY CallsShape DEF TypeOK
<1> QED BY <1>1, <1>2 DEF Ended, Abstract!Fail, ERR_IO

\* sector.h's promise, for a process of one thread, whichever functions of stdio fail and
\* whenever they do: a call that answers 0 has read or written the one sector asked for, one
\* that answers ERR_IO has changed nothing, and a stop loses at most one write.
THEOREM SectorAccessIsAtomic == ASSUME OneThread PROVE Spec => RefinesSectorStore
<1>1. Init => Abstract!Init
  <2> SUFFICES ASSUME Init PROVE Abstract!Init
    OBVIOUS
  <2>1. DOMAIN buffer = {}
    BY DEF Init, Nothing
  <2>2. Stream = disk
    BY <2>1, EmptyBuffer DEF Init
  <2> QED BY <2>2 DEF Init, Abstract!Init
<1>2. Inv /\ Inv' /\ [Next]_vars => [Abstract!Next]_Abstract!vars
  <2> SUFFICES ASSUME Inv, Inv', [Next]_vars PROVE [Abstract!Next]_Abstract!vars
    OBVIOUS
  <2> USE DEF Inv
  <2>0. Stream \in [Sectors -> Contents]
    BY StreamType
  <2>1. ASSUME NEW t \in Threads, Begin(t) PROVE UNCHANGED Abstract!vars
    BY <2>1 DEF Begin, Abstract!vars, Stream
  <2>2. ASSUME NEW t \in Threads, Seek(t) PROVE Abstract!Settle \/ Abstract!Fail
    <3>1. CASE Flush /\ UNCHANGED answer
      BY <3>1, FlushKeepsStream DEF Flush, Abstract!Settle
    <3>2. CASE Ended(t, 0, ERR_IO, TRUE) /\ UNCHANGED <<disk, buffer, pos>>
      BY <3>2, FailureFails
    <3> QED BY <2>2, <3>1, <3>2 DEF Seek
  <2>3. ASSUME NEW t \in Threads, Read(t) PROVE Abstract!Read \/ Abstract!Fail
    <3>1. CASE TransferFails(t, "fread")
      BY <3>1, FailureFails DEF TransferFails
    <3>2. CASE Flush
      <4>1. pos = call[t].sector /\ Stream = disk /\ Stream' = Stream /\ disk' = disk
        BY <2>3, <3>2, EmptyBuffer, FlushKeepsStream DEF Read, Flush, StreamIsMine, TypeOK
      <4>2. CASE pos \in Sectors /\ Ended(t, Stream[pos], 0, FALSE)
        BY <2>0, <2>3, <4>1, <4>2 DEF Read, Ended, Abstract!Read
      <4>3. CASE pos \notin Sectors /\ Ended(t, 0, ERR_IO, FALSE)
        BY <2>0, <2>3, <4>1, <4>3 DEF Read, Ended, Abstract!Fail, ERR_IO
      <4>4. CASE TransferFails(t, "fread")
        BY <4>4, FailureFails DEF TransferFails
      <4> QED BY <2>3, <4>2, <4>3, <4>4 DEF Read
    <3> QED BY <2>3, <3>1, <3>2 DEF Read
  <2>4. ASSUME NEW t \in Threads, Write(t) PROVE Abstract!Write \/ Abstract!Fail
    <3>1. CASE TransferFails(t, "fwrite")
      BY <3>1, FailureFails DEF TransferFails
    <3>2. CASE /\ buffer' = [n \in DOMAIN buffer \cup {pos} |->
                               IF n = pos THEN call[t].data ELSE buffer[n]]
               /\ Ended(t, call[t].data, 0, FALSE)
               /\ UNCHANGED disk
      <4>1. /\ pos = call[t].sector /\ Stream = disk /\ disk' = disk /\ DOMAIN buffer = {}
            /\ pos \in Sectors /\ call[t].op = "write"
        BY <2>4, <3>2, EmptyBuffer, CallsShape DEF Write, StreamIsMine, TypeOK
      <4>2. Stream' = [Stream EXCEPT ![pos] = call[t].data]
        BY <2>0, <3>2, <4>1 DEF Stream
      <4> QED BY <2>0, <3>2, <4>1, <4>2 DEF Ended, Abstract!Write
    <3> QED BY <2>4, <3>1, <3>2 DEF Write
  <2>5. ASSUME Crash PROVE Abstract!Stop
    <3>1. DOMAIN buffer' = {} /\ disk' \in [Sectors -> Contents] /\ disk' = disk
      BY <2>5 DEF Crash, Nothing, TypeOK
    <3>2. Stream' = disk
      BY <3>1 DEF Stream
    <3> QED BY <2>5, <3>1, <3>2 DEF Crash, Abstract!Stop
  <2>6. CASE UNCHANGED vars
    BY <2>6 DEF vars, Abstract!vars, Stream
  <2> QED BY <2>1, <2>2, <2>3, <2>4, <2>5, <2>6 DEF Next, Abstract!Next
<1> QED BY <1>1, <1>2, InvHolds, PTL DEF Spec, RefinesSectorStore, Abstract!Spec
=============================================================================
