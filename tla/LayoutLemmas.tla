---------------------------- MODULE LayoutLemmas ----------------------------
(***************************************************************************)
(* What the operators of UnixV6, MountV6, FileV6 and DirentV6 guarantee,   *)
(* for every geometry of the disk and every image: the lemmas that the     *)
(* proofs about the components share.                                      *)
(***************************************************************************)
EXTENDS MountV6, DirentV6, FiniteSetsExt, FiniteSetTheorems, SequenceTheorems, TLAPS,
        WellFoundedInduction

-----------------------------------------------------------------------------
(* Numbers.                                                                *)

\* A non-empty set of natural numbers has a least element, and Min chooses it.
LEMMA MinOfNaturals ==
    ASSUME NEW S \in SUBSET Nat, S # {}
    PROVE  Min(S) \in S /\ \A y \in S : Min(S) <= y
<1> DEFINE R == {ss \in Nat \X Nat : ss[1] < ss[2]}
<1>1. IsWellFoundedOn(R, Nat)
  BY NatLessThanWellFounded DEF OpToRel
<1>2. PICK x \in S : \A y \in S : ~(<<y, x>> \in R)
  <2> HIDE DEF R
  <2> QED BY <1>1, WFMin
<1>3. \A y \in S : x <= y
  <2> SUFFICES ASSUME NEW y \in S, ~(x <= y) PROVE FALSE
    OBVIOUS
  <2>1. y < x /\ x \in Nat /\ y \in Nat
    OBVIOUS
  <2>2. <<y, x>> \in R
    BY <2>1
  <2> QED BY <1>2, <2>2
<1> QED BY <1>3 DEF Min

\* Euclidean division, as the solver knows it.
LEMMA DivModFacts ==
    ASSUME NEW n \in Nat, NEW W \in Nat \ {0}
    PROVE  /\ n \div W \in Nat
           /\ n % W \in 0 .. W - 1
           /\ n = W * (n \div W) + (n % W)
  OBVIOUS

\* A quotient by at least 2 is at most half of the number.
LEMMA DivHalves ==
    ASSUME NEW n \in Nat, NEW W \in Nat, W >= 2
    PROVE  n \div W \in Nat /\ 2 * (n \div W) <= n
<1> DEFINE q == n \div W
<1>1. q \in Nat /\ n % W \in 0 .. W - 1 /\ n = W * q + (n % W)
  <2>1. W \in Nat \ {0}
    OBVIOUS
  <2> HIDE DEF q
  <2> QED BY <2>1, DivModFacts DEF q
<1> HIDE DEF q
<1>2. 2 * q <= W * q
  BY <1>1
<1>3. n % W \in Nat /\ W * q \in Nat
  BY <1>1
<1>4. 2 * q <= n
  BY <1>1, <1>2, <1>3
<1> QED BY <1>1, <1>4 DEF q

\* The index of a vector grows with the number.
LEMMA DivMonotone ==
    ASSUME NEW n \in Nat, NEW m \in Nat, NEW W \in Nat \ {0}, n <= m
    PROVE  n \div W <= m \div W
<1> DEFINE q == n \div W
           r == m \div W
<1>1. q \in Nat /\ r \in Nat /\ W * q <= n /\ m < W * r + W
  BY DivModFacts
<1> HIDE DEF q, r
<1>2. SUFFICES ASSUME r + 1 <= q PROVE FALSE
  BY <1>1 DEF q, r
<1>3. W * (r + 1) <= W * q
  BY <1>1, <1>2
<1>4. W * (r + 1) = W * r + W
  BY <1>1
<1> QED BY <1>1, <1>3, <1>4

\* The quotient and the remainder are the only numbers that fit.
LEMMA DivModUnique ==
    ASSUME NEW W \in Nat \ {0}, NEW k \in Nat, NEW c \in 0 .. W - 1
    PROVE  (k * W + c) \div W = k /\ (k * W + c) % W = c
<1> DEFINE n == k * W + c
           q == n \div W
           r == n % W
<1>1. n \in Nat
  OBVIOUS
<1>2. q \in Nat /\ r \in 0 .. W - 1 /\ n = W * q + r
  BY <1>1, DivModFacts
<1> HIDE DEF q, r
<1>3. ~(q < k)
  <2> SUFFICES ASSUME q + 1 <= k PROVE FALSE
    BY <1>2
  <2>1. W * (q + 1) <= W * k /\ W * (q + 1) = W * q + W
    BY <1>2
  <2> QED BY <1>2, <2>1
<1>4. ~(k < q)
  <2> SUFFICES ASSUME k + 1 <= q PROVE FALSE
    BY <1>2
  <2>1. W * (k + 1) <= W * q /\ W * (k + 1) = W * k + W
    BY <1>2
  <2> QED BY <1>2, <2>1
<1>5. q = k
  BY <1>2, <1>3, <1>4
<1> QED BY <1>2, <1>5 DEF q, r

\* Slot j of width W, in a row of M slots.
LEMMA SlotBounds ==
    ASSUME NEW W \in Nat \ {0}, NEW M \in Nat, NEW j \in 0 .. M - 1, NEW c \in 0 .. W - 1
    PROVE  j * W + c \in 0 .. M * W - 1
<1>1. (j + 1) * W <= M * W /\ (j + 1) * W = j * W + W
  OBVIOUS
<1> QED BY <1>1

-----------------------------------------------------------------------------
(* Sets of numbers in order.                                               *)

\* How many elements are below x.
Rank(S, x) == Cardinality({y \in S : y < x})

LEMMA RankGrows ==
    ASSUME NEW S \in SUBSET Int, IsFiniteSet(S), NEW x \in S, NEW z \in S, x < z
    PROVE  Rank(S, x) < Rank(S, z)
<1> DEFINE B(v) == {y \in S : y < v}
<1>1. IsFiniteSet(B(z)) /\ B(x) \in SUBSET B(z) /\ x \in B(z) \ B(x)
  <2>1. B(z) \in SUBSET S
    OBVIOUS
  <2>2. \A y \in S : y < x => y < z
    OBVIOUS
  <2>3. x \in B(z) /\ x \notin B(x)
    OBVIOUS
  <2>4. B(x) \in SUBSET B(z)
    BY <2>2
  <2>5. IsFiniteSet(B(z))
    <3> HIDE DEF B
    <3> QED BY <2>1, FS_Subset
  <2> QED BY <2>3, <2>4, <2>5
<1>2. Cardinality(B(x)) <= Cardinality(B(z)) /\ Cardinality(B(x)) # Cardinality(B(z))
  <2> HIDE DEF B
  <2> QED BY <1>1, FS_Subset
<1>3. Cardinality(B(x)) \in Nat /\ Cardinality(B(z)) \in Nat
  <2> HIDE DEF B
  <2> QED BY <1>1, FS_Subset, FS_CardinalityType
<1> QED BY <1>2, <1>3 DEF Rank

LEMMA RankIsInjective ==
    ASSUME NEW S \in SUBSET Int, IsFiniteSet(S), NEW x \in S, NEW z \in S, Rank(S, x) = Rank(S, z)
    PROVE  x = z
<1>1. \A v \in S : Rank(S, v) \in Nat
  <2>1. \A v \in S : {y \in S : y < v} \in SUBSET S
    OBVIOUS
  <2> QED BY <2>1, FS_Subset, FS_CardinalityType DEF Rank
<1>2. CASE x < z
  BY <1>1, <1>2, RankGrows
<1>3. CASE z < x
  BY <1>1, <1>3, RankGrows
<1> QED BY <1>2, <1>3

\* Every rank below the number of elements is that of an element.
LEMMA EveryRank ==
    ASSUME NEW S \in SUBSET Int, IsFiniteSet(S)
    PROVE  /\ Cardinality(S) \in Nat
           /\ \A x \in S : Rank(S, x) \in 0 .. Cardinality(S) - 1
           /\ \A r \in 0 .. Cardinality(S) - 1 : \E x \in S : Rank(S, x) = r
<1> DEFINE n == Cardinality(S)
           T == 0 .. n - 1
           f == [x \in S |-> Rank(S, x)]
<1>1. n \in Nat
  BY FS_CardinalityType
<1>2. ASSUME NEW x \in S PROVE Rank(S, x) \in T
  <2> DEFINE B == {y \in S : y < x}
  <2>1. B \in SUBSET S /\ x \notin B
    OBVIOUS
  <2>2. Cardinality(B) \in Nat /\ Cardinality(B) <= n /\ Cardinality(B) # n
    <3> HIDE DEF B
    <3> QED BY <2>1, FS_Subset, FS_CardinalityType
  <2> QED BY <1>1, <2>2 DEF Rank
<1>3. IsFiniteSet(T) /\ Cardinality(T) = n
  BY <1>1, FS_Interval
<1>4. f \in Injection(S, T)
  BY <1>2, RankIsInjective DEF Injection, IsInjective
<1>5. f \in Surjection(S, T)
  <2> HIDE DEF f, T
  <2> QED BY <1>3, <1>4, FS_Injection
<1> QED BY <1>1, <1>2, <1>5 DEF Surjection

\* An ascending enumeration is ascending, and complete.
LEMMA AscendingFacts ==
    ASSUME NEW S \in SUBSET Int, IsFiniteSet(S), NEW a, a = Ascending(S)
    PROVE  /\ Cardinality(S) \in Nat /\ a \in [1 .. Cardinality(S) -> S]
           /\ \A j, k \in 1 .. Cardinality(S) : j < k => a[j] < a[k]
           /\ \A x \in S : \E k \in 1 .. Cardinality(S) : a[k] = x
<1> DEFINE n == Cardinality(S)
<1>1. n \in Nat
  BY EveryRank
<1>2. ASSUME NEW k \in 1 .. n PROVE a[k] \in S /\ Rank(S, a[k]) = k - 1
  <2>1. k - 1 \in 0 .. n - 1
    BY <1>1
  <2>2. \E x \in S : Cardinality({y \in S : y < x}) = k - 1
    BY <2>1, EveryRank DEF Rank
  <2>3. a[k] = CHOOSE x \in S : Cardinality({y \in S : y < x}) = k - 1
    BY DEF Ascending
  <2> QED BY <2>2, <2>3 DEF Rank
<1>3. a \in [1 .. n -> S]
  <2>1. a = [k \in 1 .. n |-> a[k]]
    <3> DEFINE c(k) == CHOOSE x \in S : Cardinality({y \in S : y < x}) = k - 1
    <3>1. a = [k \in 1 .. n |-> c(k)]
      BY DEF Ascending
    <3> HIDE DEF c, n
    <3> QED BY <3>1
  <2> QED BY <1>2, <2>1
<1>4. ASSUME NEW j \in 1 .. n, NEW k \in 1 .. n, j < k PROVE a[j] < a[k]
  <2>1. CASE a[k] < a[j]
    <3>1. Rank(S, a[k]) < Rank(S, a[j])
      BY <1>2, <2>1, RankGrows
    <3> QED BY <1>1, <1>2, <1>4, <3>1
  <2>2. CASE a[k] = a[j]
    BY <1>1, <1>2, <1>4, <2>2
  <2>3. a[j] \in Int /\ a[k] \in Int
    BY <1>2
  <2> QED BY <2>1, <2>2, <2>3
<1>5. ASSUME NEW x \in S PROVE \E k \in 1 .. n : a[k] = x
  <2>1. Rank(S, x) \in 0 .. n - 1
    BY EveryRank
  <2>2. Rank(S, x) + 1 \in 1 .. n /\ (Rank(S, x) + 1) - 1 = Rank(S, x)
    BY <1>1, <2>1
  <2>3. a[Rank(S, x) + 1] \in S /\ Rank(S, a[Rank(S, x) + 1]) = Rank(S, x)
    <3> HIDE DEF n
    <3> QED BY <1>2, <2>2
  <2>4. a[Rank(S, x) + 1] = x
    BY <2>3, RankIsInjective
  <2> QED BY <2>2, <2>4
<1> QED BY <1>1, <1>3, <1>4, <1>5

\* There is no other one.
LEMMA AscendingUnique ==
    ASSUME NEW S \in SUBSET Int, NEW n \in Nat, NEW f \in [1 .. n -> S],
           \A j, k \in 1 .. n : j < k => f[j] < f[k],
           \A x \in S : \E k \in 1 .. n : f[k] = x
    PROVE  IsFiniteSet(S) /\ Cardinality(S) = n /\ f = Ascending(S)
<1>1. \A j, k \in 1 .. n : f[j] = f[k] => j = k
  <2> SUFFICES ASSUME NEW j \in 1 .. n, NEW k \in 1 .. n, f[j] = f[k] PROVE j = k
    OBVIOUS
  <2>1. f[j] \in Int /\ f[k] \in Int
    OBVIOUS
  <2>2. j < k => f[j] < f[k]
    OBVIOUS
  <2>3. k < j => f[k] < f[j]
    OBVIOUS
  <2> QED BY <2>1, <2>2, <2>3
<1>2. f \in Bijection(1 .. n, S)
  BY <1>1 DEF Bijection, Injection, IsInjective, Surjection
<1>3. IsFiniteSet(1 .. n) /\ Cardinality(1 .. n) = n
  BY FS_Interval
<1>4. IsFiniteSet(S) /\ Cardinality(S) = n
  BY <1>2, <1>3, FS_Bijection DEF ExistsBijection
<1>5. ASSUME NEW k \in 1 .. n PROVE Rank(S, f[k]) = k - 1
  <2> DEFINE B == {y \in S : y < f[k]}
             g == [j \in 1 .. k - 1 |-> f[j]]
  <2>1. \A j \in 1 .. k - 1 : j \in 1 .. n /\ f[j] \in B
    OBVIOUS
  <2>2. ASSUME NEW y \in B PROVE \E j \in 1 .. k - 1 : f[j] = y
    <3>1. PICK j \in 1 .. n : f[j] = y
      OBVIOUS
    <3>2. ~(k <= j)
      <4>1. SUFFICES ASSUME k <= j PROVE FALSE
        OBVIOUS
      <4>2. k = j \/ k < j
        BY <4>1
      <4>3. f[k] \in Int /\ f[j] \in Int /\ f[j] < f[k]
        BY <3>1
      <4>4. k < j => f[k] < f[j]
        OBVIOUS
      <4> QED BY <4>2, <4>3, <4>4
    <3> QED BY <3>1, <3>2
  <2>3. g \in Bijection(1 .. k - 1, B)
    <3>1. g \in [1 .. k - 1 -> B]
      BY <2>1
    <3>2. \A i, j \in 1 .. k - 1 : g[i] = g[j] => i = j
      BY <1>1, <2>1
    <3>3. \A y \in B : \E j \in 1 .. k - 1 : g[j] = y
      BY <2>2
    <3> HIDE DEF g, B
    <3> QED BY <3>1, <3>2, <3>3 DEF Bijection, Injection, IsInjective, Surjection
  <2>4. IsFiniteSet(1 .. k - 1) /\ Cardinality(1 .. k - 1) = k - 1
    BY FS_Interval
  <2>5. Cardinality(B) = k - 1
    <3> HIDE DEF g, B
    <3> QED BY <2>3, <2>4, FS_Bijection DEF ExistsBijection
  <2> QED BY <2>5 DEF Rank
<1>6. PICK a : a = Ascending(S)
  OBVIOUS
<1>7. ASSUME NEW k \in 1 .. n PROVE a[k] = f[k]
  <2>1. a[k] = CHOOSE x \in S : Cardinality({y \in S : y < x}) = k - 1
    BY <1>4, <1>6 DEF Ascending
  <2>2. a[k] \in S /\ Rank(S, a[k]) = k - 1
    BY <1>5, <2>1 DEF Rank
  <2>3. f[k] \in S /\ Rank(S, f[k]) = k - 1
    BY <1>5
  <2>4. Rank(S, a[k]) = Rank(S, f[k]) /\ a[k] \in S /\ f[k] \in S /\ IsFiniteSet(S)
    BY <1>4, <2>2, <2>3
  <2>5. \A x, z \in S : Rank(S, x) = Rank(S, z) => x = z
    BY <1>4, RankIsInjective
  <2> QED BY <2>4, <2>5
<1>8. a = [k \in 1 .. n |-> a[k]] /\ f = [k \in 1 .. n |-> f[k]]
  <2>1. f = [k \in 1 .. n |-> f[k]]
    OBVIOUS
  <2>2. a = [k \in 1 .. n |-> a[k]]
    <3> DEFINE c(k) == CHOOSE x \in S : Cardinality({y \in S : y < x}) = k - 1
    <3>1. a = [k \in 1 .. n |-> c(k)]
      BY <1>4, <1>6 DEF Ascending
    <3> HIDE DEF c
    <3> QED BY <3>1
  <2> QED BY <2>1, <2>2
<1> QED BY <1>4, <1>6, <1>7, <1>8

-----------------------------------------------------------------------------
(* Sectors.                                                                *)

\* All that the proofs need to know of the width of a word.
LEMMA WordFacts == /\ UINT16_MAX \in Nat /\ UINT16_MAX >= 100 /\ Word \subseteq Nat /\ 0 \in Word
                   /\ {0, 1, 2, 7} \subseteq Word
  BY DEF UINT16_MAX, Word

LEMMA ModeFacts == IALLOC + IFDIR \in Word
  BY DEF UINT16_MAX, Word, IALLOC, IFDIR

LEMMA PerSector == INODES_PER_SECTOR \in Nat \ {0} /\ INODES_PER_SECTOR >= 2
  BY LayoutAssumption

LEMMA LayoutFacts ==
    /\ INODE_WORDS \in Nat \ {0} /\ INODE_WORDS >= 3
    /\ ADDRESSES_PER_SECTOR \in Nat /\ ADDRESSES_PER_SECTOR >= 6
<1>1. INODE_WORDS \in Nat /\ INODE_WORDS >= 3 /\ INODES_PER_SECTOR \in Nat /\ INODES_PER_SECTOR >= 2
  BY LayoutAssumption DEF INODE_WORDS
<1>2. \A a, b \in Nat : a >= 2 /\ b >= 3 => a * b \in Nat /\ a * b >= 6
  OBVIOUS
<1> QED BY <1>1, <1>2 DEF ADDRESSES_PER_SECTOR

\* The words of an inode are words of its sector.
LEMMA InodeInSector ==
    ASSUME NEW j \in 0 .. INODES_PER_SECTOR - 1, NEW c \in 0 .. INODE_WORDS - 1
    PROVE  j * INODE_WORDS + c \in Words
  BY LayoutFacts, LayoutAssumption, SlotBounds DEF Words, ADDRESSES_PER_SECTOR

LEMMA ZeroSectorType == ZeroSector \in Sector
  BY WordFacts DEF ZeroSector, Sector

LEMMA SectorExcept ==
    ASSUME NEW sector \in Sector, NEW w, NEW value \in Word
    PROVE  [sector EXCEPT ![w] = value] \in Sector
  BY DEF Sector

LEMMA SuperblockType ==
    ASSUME NEW sector \in Sector
    PROVE  SuperblockAt(sector) \in [s_isize : Word, s_fsize : Word,
                                     s_inode_start : Word, s_block_start : Word]
<1>1. {0, 1, 2, 3} \subseteq Words
  BY LayoutFacts DEF Words
<1> QED BY <1>1 DEF SuperblockAt, Sector

LEMMA PutNewInodeType ==
    ASSUME NEW sector \in Sector, NEW j \in Nat, NEW mode \in Word
    PROVE  PutNewInode(sector, j, mode) \in Sector
<1> DEFINE Value(w) == IF w \div INODE_WORDS # j THEN sector[w]
                       ELSE IF w = j * INODE_WORDS THEN mode ELSE 0
<1>1. \A w \in Words : Value(w) \in Word
  <2> SUFFICES ASSUME NEW w \in Words PROVE Value(w) \in Word
    OBVIOUS
  <2>1. sector[w] \in Word
    BY Zenon DEF Sector
  <2> QED BY <2>1, WordFacts, Zenon
<1>2. PutNewInode(sector, j, mode) = [w \in Words |-> Value(w)]
  BY Zenon DEF PutNewInode
<1> HIDE DEF Value
<1> QED BY <1>1, <1>2, Zenon DEF Sector

\* inode_write changes one inode of the sector and leaves its neighbours as they were.
LEMMA PutNewInodeFrame ==
    ASSUME NEW sector \in Sector, NEW j \in 0 .. INODES_PER_SECTOR - 1, NEW mode \in Word,
           NEW k \in 0 .. INODES_PER_SECTOR - 1
    PROVE  /\ k # j => InodeAt(PutNewInode(sector, j, mode), k) = InodeAt(sector, k)
           /\ k = j => InodeAt(PutNewInode(sector, j, mode), k)
                         = [i_mode |-> mode, i_size |-> 0,
                            i_addr |-> [a \in 0 .. ADDR_SMALL_LENGTH - 1 |-> 0]]
<1> DEFINE new == PutNewInode(sector, j, mode)
<1>1. ASSUME NEW c \in 0 .. INODE_WORDS - 1
      PROVE  /\ k # j => new[k * INODE_WORDS + c] = sector[k * INODE_WORDS + c]
             /\ k = j => new[k * INODE_WORDS + c] = IF c = 0 THEN mode ELSE 0
  <2> DEFINE w == k * INODE_WORDS + c
  <2>1. w \in Words
    BY InodeInSector
  <2>2. w \div INODE_WORDS = k
    BY LayoutFacts, DivModUnique
  <2>3. k = j => (w = j * INODE_WORDS <=> c = 0)
    BY LayoutFacts, LayoutAssumption
  <2> HIDE DEF w
  <2>4. new[w] = IF w \div INODE_WORDS # j THEN sector[w]
                 ELSE IF w = j * INODE_WORDS THEN mode ELSE 0
    BY <2>1 DEF PutNewInode
  <2> QED BY <2>2, <2>3, <2>4 DEF w
<1> HIDE DEF new
<1>2. /\ k # j => new[k * INODE_WORDS] = sector[k * INODE_WORDS]
      /\ k = j => new[k * INODE_WORDS] = mode
  <2>1. 0 \in 0 .. INODE_WORDS - 1 /\ k * INODE_WORDS + 0 = k * INODE_WORDS
    BY LayoutFacts, LayoutAssumption
  <2> QED BY <1>1, <2>1
<1>3. /\ k # j => new[k * INODE_WORDS + 1] = sector[k * INODE_WORDS + 1]
      /\ k = j => new[k * INODE_WORDS + 1] = 0
  <2>1. 1 \in 0 .. INODE_WORDS - 1
    BY LayoutFacts
  <2> QED BY <1>1, <2>1
<1>4. ASSUME NEW a \in 0 .. ADDR_SMALL_LENGTH - 1
      PROVE  /\ k # j => new[k * INODE_WORDS + 2 + a] = sector[k * INODE_WORDS + 2 + a]
             /\ k = j => new[k * INODE_WORDS + 2 + a] = 0
  <2>1. 2 + a \in 0 .. INODE_WORDS - 1 /\ 2 + a # 0
    BY LayoutAssumption DEF INODE_WORDS
  <2>2. k * INODE_WORDS + (2 + a) = k * INODE_WORDS + 2 + a
    BY LayoutFacts, LayoutAssumption
  <2> QED BY <1>1, <2>1, <2>2
<1> QED BY <1>2, <1>3, <1>4 DEF InodeAt, new

\* An image has all the sectors up to its last one.
LEMMA ImageIsPrefix ==
    ASSUME NEW img, IsImage(img), NEW n \in DOMAIN img
    PROVE  n \in Nat /\ img[n] \in Sector /\ \A m \in 0 .. n : m \in DOMAIN img
  BY DEF IsImage

-----------------------------------------------------------------------------
(* Images.                                                                 *)

LEMMA SeenType ==
    ASSUME NEW img, IsImage(img), NEW bad, NEW n \in DOMAIN Visible(img, bad)
    PROVE  n \in DOMAIN img /\ n \notin bad /\ Visible(img, bad)[n] = img[n]
           /\ Visible(img, bad)[n] \in Sector
  BY ImageIsPrefix DEF Visible

LEMMA SeenAll ==
    ASSUME NEW img, IsImage(img)
    PROVE  Visible(img, {}) = img
  BY DEF Visible, IsImage

\* A prefix of an image is an image.
LEMMA PrefixIsImage ==
    ASSUME NEW img, IsImage(img), NEW bad \in SUBSET Nat,
           NEW new, new = [n \in {k \in DOMAIN img : \A m \in 0 .. k : m \notin bad} |-> img[n]]
    PROVE  IsImage(new)
<1>1. PICK n \in 0 .. UINT16_MAX : img \in [0 .. n - 1 -> Sector]
  BY DEF IsImage
<1> DEFINE hit == bad \cap (0 .. n - 1)
<1>2. CASE hit = {}
  <2>1. {k \in DOMAIN img : \A m \in 0 .. k : m \notin bad} = 0 .. n - 1
    BY <1>1, <1>2
  <2> QED BY <1>1, <2>1 DEF IsImage
<1>3. CASE hit # {}
  <2>1. hit \in SUBSET Nat
    OBVIOUS
  <2> HIDE DEF hit
  <2>2. Min(hit) \in hit /\ \A y \in hit : Min(hit) <= y
    BY <1>3, <2>1, MinOfNaturals
  <2> DEFINE f == Min(hit)
  <2>3. f \in 0 .. n - 1 /\ f \in bad /\ \A m \in 0 .. n - 1 : m \in bad => f <= m
    <3>1. f \in hit /\ \A y \in hit : f <= y
      BY <2>2
    <3> HIDE DEF f
    <3> QED BY <3>1 DEF hit
  <2> HIDE DEF f
  <2>4. {k \in DOMAIN img : \A m \in 0 .. k : m \notin bad} = 0 .. f - 1
    BY <1>1, <2>3
  <2>5. new \in [0 .. f - 1 -> Sector]
    <3>1. new = [k \in 0 .. f - 1 |-> img[k]] /\ 0 .. f - 1 \subseteq 0 .. n - 1
      BY <2>3, <2>4
    <3> QED BY <1>1, <3>1
  <2>6. f \in 0 .. UINT16_MAX
    BY <1>1, <2>3, WordFacts
  <2> QED BY <2>5, <2>6 DEF IsImage
<1> QED BY <1>2, <1>3

LEMMA MkfsSuperblockType ==
    ASSUME NEW num_blocks \in Word, NEW num_inodes \in Word,
           NEW s, s = MkfsSuperblock(num_blocks, num_inodes)
    PROVE  /\ s \in [s_isize : Word, s_fsize : Word, s_inode_start : Word, s_block_start : Word]
           /\ 2 * s.s_isize <= UINT16_MAX /\ s.s_inode_start = 2 /\ s.s_block_start = 2 + s.s_isize
<1> DEFINE isize == num_inodes \div INODES_PER_SECTOR
<1>1. num_inodes \in Nat /\ num_inodes <= UINT16_MAX
  BY WordFacts DEF Word
<1>2. isize \in Nat /\ 2 * isize <= num_inodes
  BY <1>1, PerSector, DivHalves
<1>4. isize \in Nat /\ 2 * isize <= UINT16_MAX
  BY <1>1, <1>2, WordFacts
<1> HIDE DEF isize
<1>5. s = [s_isize |-> isize, s_fsize |-> num_blocks, s_inode_start |-> 2, s_block_start |-> 2 + isize]
  BY DEF MkfsSuperblock, SUPERBLOCK_SECTOR, isize
<1>6. isize \in Word /\ 2 + isize \in Word /\ 2 \in Word
  BY <1>4, WordFacts DEF Word
<1> QED BY <1>4, <1>5, <1>6

LEMMA MkfsImageType ==
    ASSUME NEW num_blocks \in Word, NEW num_inodes \in Word
    PROVE  IsImage(MkfsImage(MkfsSuperblock(num_blocks, num_inodes)))
<1> DEFINE s == MkfsSuperblock(num_blocks, num_inodes)
           N == SUPERBLOCK_SECTOR + 1 + MkfsInodeSectors(s)
<1>1. /\ s \in [s_isize : Word, s_fsize : Word, s_inode_start : Word, s_block_start : Word]
      /\ 2 * s.s_isize <= UINT16_MAX /\ s.s_inode_start = 2 /\ s.s_block_start = 2 + s.s_isize
  BY MkfsSuperblockType
<1> HIDE DEF s
<1>2. N \in 2 .. UINT16_MAX - 1
  <2> DEFINE t == s.s_inode_start + s.s_block_start + 2
             q == t \div INODES_PER_SECTOR
  <2>1. t \in Nat /\ 2 * t <= UINT16_MAX + 12
    <3>1. s.s_isize \in Nat
      BY <1>1, WordFacts
    <3> QED BY <1>1, <3>1, WordFacts
  <2> HIDE DEF t
  <2>2. q \in Nat /\ 2 * q <= t
    BY <2>1, PerSector, DivHalves
  <2> HIDE DEF q
  <2>4. N = 2 + q
    BY DEF MkfsInodeSectors, SUPERBLOCK_SECTOR, q, t
  <2> QED BY <2>1, <2>2, <2>4, WordFacts
<1> HIDE DEF N
<1>3. {0, 1, 2, 3} \subseteq Words
  BY LayoutFacts DEF Words
<1>4. [ZeroSector EXCEPT ![0] = BOOTBLOCK_MAGIC_NUM] \in Sector
  BY ZeroSectorType, SectorExcept, WordFacts DEF BOOTBLOCK_MAGIC_NUM
<1>5. SuperblockSector(s) \in Sector
  <2>1. /\ s.s_isize \in Word /\ s.s_fsize \in Word
        /\ s.s_inode_start \in Word /\ s.s_block_start \in Word
    BY <1>1
  <2> DEFINE s1 == [ZeroSector EXCEPT ![0] = s.s_isize]
             s2 == [s1 EXCEPT ![1] = s.s_fsize]
             s3 == [s2 EXCEPT ![2] = s.s_inode_start]
             s4 == [s3 EXCEPT ![3] = s.s_block_start]
  <2>2. s1 \in Sector
    BY <2>1, ZeroSectorType, SectorExcept
  <2>3. s2 \in Sector
    <3> HIDE DEF s1
    <3> QED BY <2>1, <2>2, SectorExcept
  <2>4. s3 \in Sector
    <3> HIDE DEF s2
    <3> QED BY <2>1, <2>3, SectorExcept
  <2>5. s4 \in Sector
    <3> HIDE DEF s3
    <3> QED BY <2>1, <2>4, SectorExcept
  <2>6. SuperblockSector(s) = s4
    BY DEF SuperblockSector
  <2> QED BY <2>5, <2>6
<1>6. PutNewInode(ZeroSector, ROOT_INUMBER, IALLOC + IFDIR) \in Sector
  BY ZeroSectorType, PutNewInodeType, ModeFacts DEF ROOT_INUMBER
<1>7. MkfsImage(s) \in [0 .. N -> Sector]
  BY <1>4, <1>5, <1>6, ZeroSectorType, Zenon DEF MkfsImage, N
<1>8. N + 1 \in 0 .. UINT16_MAX /\ 0 .. N = 0 .. (N + 1) - 1
  <2>1. N \in Nat /\ N + 1 <= UINT16_MAX
    BY <1>2, WordFacts
  <2> QED BY <2>1, WordFacts
<1>9. IsImage(MkfsImage(s))
  BY <1>7, <1>8 DEF IsImage
<1> QED BY <1>9 DEF s

-----------------------------------------------------------------------------
(* Pools.                                                                  *)

IsPool(pool) == /\ pool = [min |-> pool.min, max |-> pool.max, used |-> pool.used]
                /\ pool.min \in Nat /\ pool.max \in Int /\ pool.used \subseteq pool.min .. pool.max

LEMMA NewPoolType ==
    ASSUME NEW min \in Nat, NEW max \in Int
    PROVE  /\ IsPool(NewPool(min, max)) /\ IsPool(NoPool)
           /\ NewPool(min, max) # NoPool
                => NewPool(min, max) = [min |-> min, max |-> max, used |-> {}]
  BY DEF NewPool, NoPool, IsPool

LEMMA TakeAllType ==
    ASSUME NEW pool, IsPool(pool), NEW S
    PROVE  /\ IsPool(TakeAll(pool, S))
           /\ TakeAll(pool, S).min = pool.min /\ TakeAll(pool, S).max = pool.max
           /\ TakeAll(pool, S).used = pool.used \cup {x \in S : x \in pool.min .. pool.max}
  BY DEF TakeAll, Holds, IsPool

LEMMA TakeType ==
    ASSUME NEW pool, IsPool(pool), NEW x \in pool.min .. pool.max
    PROVE  Take(pool, x) = [min |-> pool.min, max |-> pool.max, used |-> pool.used \cup {x}]
  BY DEF Take, Holds, IsPool

LEMMA LeastFreeType ==
    ASSUME NEW pool, IsPool(pool)
    PROVE  /\ LeastFree(pool) \in Int
           /\ LeastFree(pool) >= 0 => LeastFree(pool) \in (pool.min .. pool.max) \ pool.used
<1>1. Free(pool) \in SUBSET Nat
  BY DEF Free, IsPool
<1>2. CASE Free(pool) = {}
  BY <1>2 DEF LeastFree
<1>3. CASE Free(pool) # {}
  <2>1. Min(Free(pool)) \in Free(pool)
    BY <1>1, <1>3, MinOfNaturals
  <2> QED BY <1>1, <1>3, <2>1 DEF LeastFree, Free
<1> QED BY <1>2, <1>3

-----------------------------------------------------------------------------
(* The structure that mountv6 fills in.                                    *)

Superblock == [s_isize : Word, s_fsize : Word, s_inode_start : Word, s_block_start : Word]

\* What mkfs writes for a superblock is read back as that superblock.
LEMMA SuperblockRoundTrip ==
    ASSUME NEW s \in Superblock
    PROVE  SuperblockAt(SuperblockSector(s)) = s
<1>1. {0, 1, 2, 3} \subseteq Words /\ DOMAIN ZeroSector = Words
  BY LayoutFacts DEF Words, ZeroSector
<1>2. /\ SuperblockSector(s)[0] = s.s_isize /\ SuperblockSector(s)[1] = s.s_fsize
      /\ SuperblockSector(s)[2] = s.s_inode_start /\ SuperblockSector(s)[3] = s.s_block_start
  BY <1>1 DEF SuperblockSector
<1> QED BY <1>2 DEF SuperblockAt, Superblock

\* A number of the region is on a sector of the region, and inode_read accepts it.
LEMMA InRegion ==
    ASSUME NEW s \in Superblock, NEW inr \in RegionInodes(s)
    PROVE  /\ InodeSector(s, inr) \in InodeRegionOf(s) /\ InodeSector(s, inr) \in Nat
           /\ inr \in Nat /\ inr \div INODES_PER_SECTOR \in Nat
           /\ inr % INODES_PER_SECTOR \in 0 .. INODES_PER_SECTOR - 1
           /\ ~OutOfInodes(s, inr)
<1> DEFINE W == INODES_PER_SECTOR
           q == inr \div W
<1>1. s.s_isize \in Nat /\ s.s_inode_start \in Nat
  BY WordFacts DEF Superblock
<1>2. W \in Nat \ {0} /\ s.s_isize * W \in Nat
  BY <1>1, PerSector
<1>3. inr \in Nat /\ inr < s.s_isize * W
  BY <1>2 DEF RegionInodes
<1>4. q \in Nat /\ inr % W \in 0 .. W - 1 /\ inr = W * q + (inr % W)
  <2> HIDE DEF W
  <2> QED BY <1>2, <1>3, DivModFacts
<1>5. q < s.s_isize
  <2>1. SUFFICES ASSUME s.s_isize <= q PROVE FALSE
    <3> HIDE DEF q
    <3> QED BY <1>1, <1>4
  <2> HIDE DEF q, W
  <2>2. s.s_isize * W <= q * W /\ q * W = W * q
    BY <1>1, <1>2, <1>4, <2>1
  <2> QED BY <1>2, <1>3, <1>4, <2>2
<1>6. InodeSector(s, inr) = s.s_inode_start + q
  BY DEF InodeSector
<1>7. OutOfInodes(s, inr) <=> q > s.s_isize
  BY DEF OutOfInodes
<1> HIDE DEF q
<1> QED BY <1>1, <1>3, <1>4, <1>5, <1>6, <1>7 DEF InodeRegionOf, q

\* A number outside of the region is on no sector of the region.
LEMMA BehindRegion ==
    ASSUME NEW s \in Superblock, NEW inr \in Nat \ RegionInodes(s)
    PROVE  /\ InodeSector(s, inr) \in Nat /\ InodeSector(s, inr) \notin InodeRegionOf(s)
           /\ InodeSector(s, inr) >= s.s_inode_start + s.s_isize
<1> DEFINE W == INODES_PER_SECTOR
           q == inr \div W
<1>1. s.s_isize \in Nat /\ s.s_inode_start \in Nat
  BY WordFacts DEF Superblock
<1>2. W \in Nat \ {0} /\ s.s_isize * W \in Nat
  BY <1>1, PerSector
<1>3. inr >= s.s_isize * W
  BY <1>2 DEF RegionInodes
<1>4. q \in Nat /\ inr % W \in 0 .. W - 1 /\ inr = W * q + (inr % W)
  <2> HIDE DEF W
  <2> QED BY <1>2, DivModFacts
<1>5. q >= s.s_isize
  <2>1. SUFFICES ASSUME q + 1 <= s.s_isize PROVE FALSE
    <3> HIDE DEF q
    <3> QED BY <1>1, <1>4
  <2> HIDE DEF q, W
  <2>2. (q + 1) * W <= s.s_isize * W /\ (q + 1) * W = W * q + W
    BY <1>1, <1>2, <1>4, <2>1
  <2>3. W * q \in Nat
    BY <1>2, <1>4
  <2> QED BY <1>2, <1>3, <1>4, <2>2, <2>3
<1>6. InodeSector(s, inr) = s.s_inode_start + q
  BY DEF InodeSector
<1> HIDE DEF q
<1> QED BY <1>1, <1>4, <1>5, <1>6 DEF InodeRegionOf

StructType(v) ==
    /\ v = [open |-> v.open, mounted |-> v.mounted, s |-> v.s, ibm |-> v.ibm, fbm |-> v.fbm]
    /\ v.open \in BOOLEAN /\ v.mounted \in BOOLEAN /\ v.s \in Superblock
    /\ IsPool(v.ibm) /\ IsPool(v.fbm)
    /\ v.mounted => /\ v.open
                    /\ v.ibm.min = v.s.s_inode_start
                    /\ v.ibm.max = v.s.s_isize * INODES_PER_SECTOR - 1

LEMMA ClosedType == StructType(Closed) /\ ~Closed.open /\ ~Closed.mounted
<1>1. NoSuperblock \in Superblock
  BY WordFacts DEF NoSuperblock, Superblock
<1>2. IsPool(NoPool)
  BY DEF IsPool, NoPool
<1> QED BY <1>1, <1>2 DEF Closed, StructType

LEMMA NewBitmapsType ==
    ASSUME NEW s \in Superblock
    PROVE  /\ IsPool(NewIbm(s)) /\ IsPool(NewFbm(s))
           /\ NewIbm(s) # NoPool
                => NewIbm(s) = [min |-> s.s_inode_start, max |-> s.s_isize * INODES_PER_SECTOR - 1,
                                used |-> {}]
<1>1. s.s_isize \in Nat /\ s.s_inode_start \in Nat /\ s.s_block_start \in Nat /\ s.s_fsize \in Nat
  BY WordFacts DEF Superblock
<1>2. s.s_isize * INODES_PER_SECTOR - 1 \in Int
  BY <1>1, PerSector
<1>3. s.s_block_start + 1 \in Nat /\ s.s_fsize - 1 \in Int
  BY <1>1
<1> QED BY <1>1, <1>2, <1>3, NewPoolType DEF NewIbm, NewFbm

LEMMA MountResultType ==
    ASSUME NEW img, \A n \in DOMAIN img : img[n] \in Sector, NEW v, v = mount_result(img)
    PROVE  /\ StructType(v) /\ v.open /\ mount_error(img) \in Int
           /\ v.mounted => /\ v.s = SuperblockAt(img[SUPERBLOCK_SECTOR])
                           /\ {BOOTBLOCK_SECTOR, SUPERBLOCK_SECTOR} \subseteq DOMAIN img
                           /\ Magic(img[BOOTBLOCK_SECTOR]) = BOOTBLOCK_MAGIC_NUM
                           /\ v.ibm = fill_ibm(img, v.s) /\ v.fbm = fill_fbm(img, v.s)
<1> DEFINE error == mount_error(img)
           got == /\ {BOOTBLOCK_SECTOR, SUPERBLOCK_SECTOR} \subseteq DOMAIN img
                  /\ error # ERR_BADBOOTSECTOR
           s == IF got THEN SuperblockAt(img[SUPERBLOCK_SECTOR]) ELSE NoSuperblock
           ibm == IF error = 0 THEN fill_ibm(img, s) ELSE NewIbm(s)
           fbm == IF error = 0 THEN fill_fbm(img, s) ELSE NewFbm(s)
<1>1. s \in Superblock
  <2>1. NoSuperblock \in Superblock
    BY WordFacts DEF NoSuperblock, Superblock
  <2>2. got => SuperblockAt(img[SUPERBLOCK_SECTOR]) \in Superblock
    BY SuperblockType DEF Superblock
  <2> QED BY <2>1, <2>2
<1>2. error \in Int
  BY DEF mount_error, ERR_IO, ERR_BADBOOTSECTOR
<1>3. error = 0 => /\ {BOOTBLOCK_SECTOR, SUPERBLOCK_SECTOR} \subseteq DOMAIN img
                   /\ Magic(img[BOOTBLOCK_SECTOR]) = BOOTBLOCK_MAGIC_NUM
                   /\ NewIbm(SuperblockAt(img[SUPERBLOCK_SECTOR])) # NoPool
  BY DEF mount_error, ERR_IO, ERR_BADBOOTSECTOR
<1>4. error = 0 => s = SuperblockAt(img[SUPERBLOCK_SECTOR]) /\ got
  BY <1>3 DEF ERR_BADBOOTSECTOR
<1>5. v = [open |-> TRUE, mounted |-> error = 0, s |-> s, ibm |-> ibm, fbm |-> fbm]
  BY Zenon DEF mount_result
<1>6. IsPool(NewIbm(s)) /\ IsPool(NewFbm(s))
  BY <1>1, NewBitmapsType
<1>7. IsPool(ibm) /\ IsPool(fbm)
  <2>1. IsPool(fill_ibm(img, s)) /\ IsPool(fill_fbm(img, s))
    BY <1>6, TakeAllType DEF fill_ibm, fill_fbm
  <2> QED BY <1>6, <2>1
<1>8. error = 0 => ibm.min = s.s_inode_start /\ ibm.max = s.s_isize * INODES_PER_SECTOR - 1
  <2>1. error = 0 => NewIbm(s) = [min |-> s.s_inode_start, max |-> s.s_isize * INODES_PER_SECTOR - 1,
                                  used |-> {}]
    BY <1>1, <1>3, <1>4, NewBitmapsType
  <2>2. fill_ibm(img, s).min = NewIbm(s).min /\ fill_ibm(img, s).max = NewIbm(s).max
    BY <1>6, TakeAllType DEF fill_ibm
  <2> QED BY <2>1, <2>2
<1> HIDE DEF error, got, s, ibm, fbm
<1>9. /\ v.open = TRUE /\ v.mounted = (error = 0) /\ v.s = s /\ v.ibm = ibm /\ v.fbm = fbm
      /\ v = [open |-> v.open, mounted |-> v.mounted, s |-> v.s, ibm |-> v.ibm, fbm |-> v.fbm]
  BY <1>5
<1>10. StructType(v)
  BY <1>1, <1>7, <1>8, <1>9 DEF StructType
<1>11. error = 0 => ibm = fill_ibm(img, s) /\ fbm = fill_fbm(img, s)
  BY DEF ibm, fbm
<1> QED BY <1>2, <1>3, <1>4, <1>9, <1>10, <1>11 DEF error
-----------------------------------------------------------------------------
(* Live inodes.                                                            *)

LEMMA LiveInode ==
    ASSUME NEW img, NEW s \in Superblock, NEW inr
    PROVE  inr \in LiveInodes(img, s) <=> /\ inr \in RegionInodes(s)
                                          /\ InodeSector(s, inr) \in DOMAIN img
                                          /\ Allocated(InodeNo(img, s, inr))
<1>1. inr \in RegionInodes(s) => ~OutOfInodes(s, inr)
  BY InRegion
<1>2. ERR_IO # 0 /\ ERR_INODE_OUTOF_RANGE # 0 /\ ERR_UNALLOCATED_INODE # 0
  BY DEF ERR_IO, ERR_INODE_OUTOF_RANGE, ERR_UNALLOCATED_INODE
<1> QED BY <1>1, <1>2 DEF LiveInodes, inode_read

\* When it can read every sector, the mount scans every inode of the region.
LEMMA MountScansAll ==
    ASSUME NEW img, IsImage(img), NEW s \in Superblock
    PROVE  ScannedLive(img, s) = LiveInodes(img, s)
<1>1. ASSUME NEW inr \in RegionInodes(s)
      PROVE  inr \in Scanned(img, s) <=> InodeSector(s, inr) \in DOMAIN img
  <2>1. InodeSector(s, inr) \in Nat /\ InodeSector(s, inr) >= s.s_inode_start
    BY InRegion DEF InodeRegionOf
  <2>2. s.s_inode_start \in Nat
    BY WordFacts DEF Superblock
  <2>3. InodeSector(s, inr) \in s.s_inode_start .. InodeSector(s, inr)
    BY <2>1, <2>2
  <2>4. \A n \in s.s_inode_start .. InodeSector(s, inr) : n \in 0 .. InodeSector(s, inr)
    BY <2>1, <2>2
  <2> QED BY <2>3, <2>4, ImageIsPrefix DEF Scanned
<1>2. \A inr \in Scanned(img, s) : inr \in RegionInodes(s)
  BY DEF Scanned
<1> QED BY <1>1, <1>2, LiveInode DEF ScannedLive

\* inode_write of a fresh inode changes that inode, and no other of the region.
LEMMA OneInodeChanges ==
    ASSUME NEW img, IsImage(img), NEW s \in Superblock, NEW inr \in RegionInodes(s),
           NEW mode \in Word,
           NEW n, n = InodeSector(s, inr), n \in DOMAIN img,
           NEW new, DOMAIN new = DOMAIN img, \A m \in DOMAIN img : m # n => new[m] = img[m],
           new[n] = PutNewInode(img[n], inr % INODES_PER_SECTOR, mode)
    PROVE  /\ InodeNo(new, s, inr) = [i_mode |-> mode, i_size |-> 0,
                                      i_addr |-> [a \in 0 .. ADDR_SMALL_LENGTH - 1 |-> 0]]
           /\ \A k \in RegionInodes(s) : k # inr /\ InodeSector(s, k) \in DOMAIN img
                 => InodeNo(new, s, k) = InodeNo(img, s, k)
<1> DEFINE W == INODES_PER_SECTOR
<1>1. img[n] \in Sector
  BY ImageIsPrefix
<1>2. inr % W \in 0 .. W - 1
  BY InRegion
<1>3. InodeNo(new, s, inr) = InodeAt(PutNewInode(img[n], inr % W, mode), inr % W)
  BY DEF InodeNo
<1>4. ASSUME NEW k \in RegionInodes(s), k # inr, InodeSector(s, k) \in DOMAIN img
      PROVE  InodeNo(new, s, k) = InodeNo(img, s, k)
  <2>1. CASE InodeSector(s, k) # n
    BY <1>4, <2>1 DEF InodeNo
  <2>2. CASE InodeSector(s, k) = n
    <3>1. k % W \in 0 .. W - 1 /\ k \in Nat /\ inr \in Nat
      BY InRegion
    <3>2. k % W # inr % W
      <4> DEFINE p == k \div W
                 q == inr \div W
                 c == k % W
                 d == inr % W
      <4>1. W \in Nat \ {0} /\ s.s_inode_start \in Nat
        BY PerSector, WordFacts DEF Superblock
      <4>2. p \in Nat /\ k = W * p + c
        <5> HIDE DEF W
        <5> QED BY <3>1, <4>1, DivModFacts
      <4>3. q \in Nat /\ inr = W * q + d
        <5> HIDE DEF W
        <5> QED BY <3>1, <4>1, DivModFacts
      <4>4. s.s_inode_start + p = s.s_inode_start + q
        BY <2>2 DEF InodeSector
      <4> HIDE DEF p, q, c, d, W
      <4>5. p = q
        <5>1. p \in Nat /\ q \in Nat /\ s.s_inode_start \in Nat
          BY <4>1, <4>2, <4>3
        <5> QED BY <4>4, <5>1
      <4> QED BY <1>4, <4>2, <4>3, <4>5 DEF c, d
    <3>3. InodeAt(new[n], k % W) = InodeAt(img[n], k % W)
      BY <1>1, <1>2, <3>1, <3>2, PutNewInodeFrame
    <3> QED BY <2>2, <3>3 DEF InodeNo
  <2> QED BY <2>1, <2>2
<1>5. InodeNo(new, s, inr) = [i_mode |-> mode, i_size |-> 0,
                              i_addr |-> [a \in 0 .. ADDR_SMALL_LENGTH - 1 |-> 0]]
  BY <1>1, <1>2, <1>3, PutNewInodeFrame
<1> QED BY <1>4, <1>5

\* inode_write of a fresh inode makes its number live, and no other.
LEMMA CreateMakesLive ==
    ASSUME NEW img, IsImage(img), NEW s \in Superblock, NEW inr \in RegionInodes(s),
           NEW mode \in Word, (mode \div IALLOC) % 2 = 1,
           NEW n, n = InodeSector(s, inr), n \in DOMAIN img,
           NEW new, DOMAIN new = DOMAIN img, \A m \in DOMAIN img : m # n => new[m] = img[m],
           new[n] = PutNewInode(img[n], inr % INODES_PER_SECTOR, mode)
    PROVE  LiveInodes(new, s) = LiveInodes(img, s) \cup {inr}
<1>1. Allocated(InodeNo(new, s, inr))
  BY OneInodeChanges DEF Allocated
<1>2. ASSUME NEW k PROVE k \in LiveInodes(new, s) <=> k \in LiveInodes(img, s) \cup {inr}
  <2>1. CASE k = inr
    BY <1>1, <2>1, LiveInode
  <2>2. CASE k # inr
    BY <2>2, OneInodeChanges, LiveInode
  <2> QED BY <2>1, <2>2
<1> QED BY <1>2

-----------------------------------------------------------------------------
(* Sizes and sectors.                                                      *)

LEMMA SectorSize == SECTOR_SIZE \in Nat \ {0}
  BY LayoutFacts DEF SECTOR_SIZE

\* The k-th sector of a file begins before its end exactly if the file has so many sectors.
LEMMA SectorBeforeEnd ==
    ASSUME NEW size \in Nat, NEW k \in Nat
    PROVE  /\ SectorsOf(size) \in Nat
           /\ k * SECTOR_SIZE < size <=> k \in 0 .. SectorsOf(size) - 1
<1> DEFINE S == SECTOR_SIZE
           n == size + S - 1
           q == n \div S
<1>0. S \in Nat \ {0} /\ n \in Nat
  BY SectorSize
<1>1. q \in Nat /\ S * q <= n /\ n < S * q + S
  <2> HIDE DEF n, S
  <2> QED BY <1>0, DivModFacts
<1>2. SectorsOf(size) = q
  BY DEF SectorsOf
<1> HIDE DEF q, S
<1>3. ASSUME k + 1 <= q PROVE k * S < size
  <2>1. S * (k + 1) <= S * q /\ S * (k + 1) = k * S + S /\ S * q \in Nat /\ k * S \in Nat
    BY <1>0, <1>1, <1>3
  <2> QED BY <1>0, <1>1, <2>1 DEF n
<1>4. ASSUME q <= k PROVE ~(k * S < size)
  <2>1. S * q <= k * S /\ S * q \in Nat /\ k * S \in Nat
    BY <1>0, <1>1, <1>4
  <2> QED BY <1>0, <1>1, <2>1 DEF n
<1> QED BY <1>1, <1>2, <1>3, <1>4 DEF S

LEMMA SectorOfStart ==
    ASSUME NEW k \in Nat
    PROVE  /\ (k * SECTOR_SIZE) \div SECTOR_SIZE = k
           /\ k * SECTOR_SIZE + SECTOR_SIZE = (k + 1) * SECTOR_SIZE
<1>1. 0 \in 0 .. SECTOR_SIZE - 1 /\ k * SECTOR_SIZE + 0 = k * SECTOR_SIZE
  BY SectorSize
<1>2. (k * SECTOR_SIZE + 0) \div SECTOR_SIZE = k
  BY <1>1, SectorSize, DivModUnique
<1> QED BY <1>1, <1>2, SectorSize

LEMMA SizeIsNat == ASSUME NEW i \in InodeType PROVE i.i_size \in Nat
<1>1. i.i_size \in Word
  BY DEF InodeType
<1> QED BY <1>1, WordFacts

\* None of the range tests of inode_findsector refuses a sector of the file.
LEMMA InsideSmall ==
    ASSUME NEW i \in InodeType, NEW k \in Nat, k * SECTOR_SIZE < i.i_size, IsSmall(i)
    PROVE  ~(k > i.i_size \div SECTOR_SIZE) /\ k \in 0 .. ADDR_SMALL_LENGTH - 1
<1> DEFINE S == SECTOR_SIZE
<1>0. S \in Nat \ {0} /\ i.i_size \in Nat /\ ADDR_SMALL_LENGTH \in Nat
  BY SectorSize, SizeIsNat, LayoutAssumption
<1>1. (k * S) \div S = k
  BY SectorOfStart
<1>2. (k * S) \div S <= i.i_size \div S /\ i.i_size \div S \in Nat
  <2>1. k * S \in Nat
    BY <1>0
  <2> HIDE DEF S
  <2> QED BY <1>0, <2>1, DivMonotone, DivModFacts DEF S
<1>3. k * S < ADDR_SMALL_LENGTH * S
  BY <1>0 DEF IsSmall
<1> HIDE DEF S
<1>4. ASSUME ADDR_SMALL_LENGTH <= k PROVE FALSE
  <2>1. ADDR_SMALL_LENGTH * S <= k * S /\ ADDR_SMALL_LENGTH * S \in Nat /\ k * S \in Nat
    BY <1>0, <1>4
  <2> QED BY <1>3, <2>1
<1> QED BY <1>0, <1>1, <1>2, <1>4 DEF S

LEMMA InsideLarge ==
    ASSUME NEW i \in InodeType, NEW k \in Nat, k * SECTOR_SIZE < i.i_size,
           i.i_size <= EXTRA_LARGE_FILE
    PROVE  k \div ADDRESSES_PER_SECTOR \in 0 .. ADDR_SMALL_LENGTH - 1
<1> DEFINE S == SECTOR_SIZE
           A == ADDRESSES_PER_SECTOR
           d == k \div A
           L == ADDR_SMALL_LENGTH - 1
<1>0. /\ S \in Nat \ {0} /\ A \in Nat \ {0} /\ L \in Nat /\ ADDR_SMALL_LENGTH = L + 1
      /\ i.i_size \in Nat
  <2>1. i.i_size \in Nat
    BY SizeIsNat
  <2>2. L \in Nat /\ ADDR_SMALL_LENGTH = L + 1
    BY LayoutAssumption
  <2>3. A \in Nat \ {0}
    BY LayoutFacts
  <2> QED BY <2>1, <2>2, <2>3, SectorSize
<1>1. d \in Nat /\ A * d <= k
  <2> HIDE DEF A
  <2>1. d \in Nat /\ k % A \in 0 .. A - 1 /\ k = A * d + (k % A)
    BY <1>0, DivModFacts
  <2> HIDE DEF d
  <2>2. A * d \in Nat /\ k % A \in Nat
    BY <1>0, <2>1
  <2> QED BY <2>1, <2>2
<1>2. k * S < (L * A) * S
  BY <1>0 DEF EXTRA_LARGE_FILE
<1> HIDE DEF S, A, d, L
<1>3. L * A \in Nat
  BY <1>0
<1>4. k < L * A
  <2>1. ASSUME L * A <= k PROVE FALSE
    <3>1. (L * A) * S <= k * S /\ (L * A) * S \in Nat /\ k * S \in Nat
      BY <1>0, <1>3, <2>1
    <3> QED BY <1>2, <3>1
  <2> QED BY <1>3, <2>1
<1>5. d <= L
  <2>1. ASSUME L + 1 <= d PROVE FALSE
    <3>1. A * L <= A * d /\ A * L = L * A /\ A * d \in Nat
      BY <1>0, <1>1, <2>1
    <3> QED BY <1>1, <1>3, <1>4, <3>1
  <2> QED BY <1>0, <1>1, <2>1
<1> QED BY <1>0, <1>1, <1>5 DEF d, A

-----------------------------------------------------------------------------
(* What is read from a disk some of whose sectors fail.                    *)

LEMMA VisibleFacts ==
    ASSUME NEW im, IsImage(im), NEW bad
    PROVE  /\ DOMAIN Visible(im, bad) = DOMAIN im \ bad
           /\ \A n \in DOMAIN im \ bad : Visible(im, bad)[n] = im[n] /\ im[n] \in Sector
           /\ DOMAIN im \subseteq Nat
           /\ bad = {} => Visible(im, bad) = im
  BY DEF Visible, IsImage

LEMMA MissingIsNoSector == Missing \notin Sector
<1>1. 0 \in Words
  BY LayoutFacts DEF Words
<1> QED BY <1>1 DEF Missing, Sector

\* A word of a sector is a word, also at the place of an address.
LEMMA AddressIsWord ==
    ASSUME NEW sector \in Sector, NEW k \in Nat
    PROVE  sector[k % ADDRESSES_PER_SECTOR] \in Nat
<1>1. k % ADDRESSES_PER_SECTOR \in Words
  BY LayoutFacts, DivModFacts DEF Words
<1>2. sector[k % ADDRESSES_PER_SECTOR] \in Word
  BY <1>1, Zenon DEF Sector
<1> QED BY <1>2, WordFacts

LEMMA ExtraLargeIsNat == EXTRA_LARGE_FILE \in Nat
<1> DEFINE L == ADDR_SMALL_LENGTH - 1
<1>1. L \in Nat
  BY LayoutAssumption
<1>2. L * ADDRESSES_PER_SECTOR \in Nat
  BY <1>1, LayoutFacts
<1> HIDE DEF L
<1>3. L * ADDRESSES_PER_SECTOR * SECTOR_SIZE \in Nat
  BY <1>2, SectorSize
<1> QED BY <1>3 DEF EXTRA_LARGE_FILE, L

LEMMA SmallIsNotTooLarge ==
    ASSUME NEW i \in InodeType, IsSmall(i)
    PROVE  i.i_size <= EXTRA_LARGE_FILE
<1> DEFINE S == SECTOR_SIZE
           A == ADDRESSES_PER_SECTOR
           L == ADDR_SMALL_LENGTH - 1
<1>0. /\ S \in Nat /\ A \in Nat /\ A >= 6 /\ L \in Nat /\ L >= 1
      /\ ADDR_SMALL_LENGTH = L + 1 /\ i.i_size \in Nat
  BY LayoutAssumption, LayoutFacts, SectorSize, SizeIsNat
<1>1. i.i_size < (L + 1) * S /\ EXTRA_LARGE_FILE = (L * A) * S
  BY <1>0 DEF IsSmall, EXTRA_LARGE_FILE
<1> HIDE DEF S, A, L
<1>2. 6 * L <= L * A /\ L * A \in Nat /\ L + 1 <= 6 * L
  BY <1>0
<1>3. L + 1 <= L * A
  BY <1>0, <1>2
<1>4. (L + 1) * S <= (L * A) * S /\ (L + 1) * S \in Nat /\ (L * A) * S \in Nat
  BY <1>0, <1>2, <1>3
<1> QED BY <1>0, <1>1, <1>4

\* inode_findsector finds the sector of the layout, and misses one only when it is not on
\* the disk or when a sector fails.
LEMMA FindsTheSector ==
    ASSUME NEW im, IsImage(im), NEW bad, NEW disk, disk = Visible(im, bad),
           NEW i \in InodeType, Allocated(i), NEW k \in Nat, k * SECTOR_SIZE < i.i_size,
           NEW sect, sect = inode_findsector(disk, i, k)
    PROVE  /\ sect \in Int
           /\ ~(sect < 0) /\ sect \in DOMAIN disk
                 => FileBlock(im, i, k) = disk[sect] /\ disk[sect] \in Sector
           /\ bad = {} /\ (sect < 0 \/ sect \notin DOMAIN disk)
                 => FileBlock(im, i, k) = Missing
<1> DEFINE a == AddressSector(i, k)
           w == k % ADDRESSES_PER_SECTOR
<1>0. /\ DOMAIN disk = DOMAIN im \ bad
      /\ \A n \in DOMAIN disk : disk[n] = im[n] /\ im[n] \in Sector
      /\ DOMAIN im \subseteq Nat
      /\ bad = {} => disk = im
  <2>1. /\ DOMAIN disk = DOMAIN im \ bad
        /\ \A n \in DOMAIN im \ bad : disk[n] = im[n] /\ im[n] \in Sector
    BY DEF Visible, IsImage
  <2>2. DOMAIN im \subseteq Nat
    BY VisibleFacts
  <2>3. bad = {} => disk = im
    BY DEF Visible, IsImage
  <2> QED BY <2>1, <2>2, <2>3
<1>a. i.i_size \in Nat /\ EXTRA_LARGE_FILE \in Nat /\ ~(k < 0)
  BY SizeIsNat, ExtraLargeIsNat
<1>1. CASE i.i_size > EXTRA_LARGE_FILE /\ ~IsSmall(i)
  <2>1. sect = -118
    BY <1>a, <1>1 DEF inode_findsector, ERR_FILE_TOO_LARGE
  <2>2. FileSector(im, i, k) = -1
    BY <1>a, <1>1 DEF FileSector
  <2> QED BY <1>0, <2>1, <2>2 DEF FileBlock
<1>2. CASE IsSmall(i) /\ ~(i.i_size > EXTRA_LARGE_FILE)
  <2>1. ~(k > i.i_size \div SECTOR_SIZE) /\ k \in 0 .. ADDR_SMALL_LENGTH - 1
    BY <1>2, InsideSmall
  <2>2. sect = i.i_addr[k]
    BY <1>2, <1>a, <2>1 DEF inode_findsector
  <2>3. sect \in Nat
    <3>1. i.i_addr[k] \in Word
      BY <2>1 DEF InodeType
    <3> QED BY <2>2, <3>1, WordFacts
  <2>4. FileSector(im, i, k) = sect
    BY <1>2, <2>2 DEF FileSector
  <2> QED BY <1>0, <2>3, <2>4 DEF FileBlock
<1>3. CASE ~IsSmall(i) /\ ~(i.i_size > EXTRA_LARGE_FILE)
  <2>0. i.i_size <= EXTRA_LARGE_FILE
    BY <1>3, <1>a
  <2>1. ~(k \div ADDRESSES_PER_SECTOR >= ADDR_SMALL_LENGTH)
    <3>1. k \div ADDRESSES_PER_SECTOR \in 0 .. ADDR_SMALL_LENGTH - 1
      BY <2>0, InsideLarge
    <3> QED BY <3>1, LayoutAssumption
  <2>2. sect = IF a \notin DOMAIN disk THEN ERR_IO ELSE disk[a][w]
    BY <1>3, <1>a, <2>1, Zenon DEF inode_findsector
  <2>3. a \in DOMAIN disk => sect = im[a][w] /\ sect \in Nat
    BY <1>0, <2>2, AddressIsWord
  <2>4. FileSector(im, i, k) = IF a \in DOMAIN im THEN im[a][w] ELSE -1
    BY <1>3, <2>0, Zenon DEF FileSector
  <2>5. a \notin DOMAIN disk => sect = ERR_IO
    BY <2>2
  <2> HIDE DEF a, w
  <2> QED BY <1>0, <2>3, <2>4, <2>5 DEF FileBlock, ERR_IO
<1>4. ~(IsSmall(i) /\ i.i_size > EXTRA_LARGE_FILE)
  BY <1>a, SmallIsNotTooLarge
<1> QED BY <1>1, <1>2, <1>3, <1>4
-----------------------------------------------------------------------------
(* Opening a file.                                                         *)

LEMMA InodeAtType ==
    ASSUME NEW sector \in Sector, NEW j \in 0 .. INODES_PER_SECTOR - 1
    PROVE  InodeAt(sector, j) \in InodeType
<1> DEFINE base == j * INODE_WORDS
<1>1. \A c \in 0 .. INODE_WORDS - 1 : sector[base + c] \in Word
  BY InodeInSector DEF Sector
<1>2. base \in Nat
  BY LayoutFacts, LayoutAssumption
<1> HIDE DEF base
<1>3. sector[base] \in Word /\ sector[base + 1] \in Word
  BY <1>1, <1>2, LayoutFacts
<1>4. ASSUME NEW k \in 0 .. ADDR_SMALL_LENGTH - 1 PROVE sector[base + 2 + k] \in Word
  <2>1. 2 + k \in 0 .. INODE_WORDS - 1 /\ base + (2 + k) = base + 2 + k
    BY <1>2, LayoutAssumption DEF INODE_WORDS
  <2> QED BY <1>1, <2>1
<1> QED BY <1>3, <1>4 DEF InodeAt, InodeType, base

\* A live inode has the type of an inode.
LEMMA LiveInodeType ==
    ASSUME NEW img, IsImage(img), NEW s \in Superblock, NEW inr \in LiveInodes(img, s)
    PROVE  InodeNo(img, s, inr) \in InodeType /\ Allocated(InodeNo(img, s, inr))
<1>1. inr \in RegionInodes(s) /\ InodeSector(s, inr) \in DOMAIN img /\ Allocated(InodeNo(img, s, inr))
  BY LiveInode
<1>2. img[InodeSector(s, inr)] \in Sector /\ inr % INODES_PER_SECTOR \in 0 .. INODES_PER_SECTOR - 1
  BY <1>1, ImageIsPrefix, InRegion
<1> QED BY <1>1, <1>2, InodeAtType DEF InodeNo

\* An inode that is read is allocated, and is the one that the whole disk has.
LEMMA ReadsTheInode ==
    ASSUME NEW im, IsImage(im), NEW bad, NEW disk, disk = Visible(im, bad),
           NEW s, NEW inr \in Word
    PROVE  /\ inode_read(disk, s, inr) \in Int /\ inode_read(disk, s, inr) <= 0
           /\ inode_read(disk, s, inr) = 0
                 => /\ InodeNo(disk, s, inr) \in InodeType
                    /\ Allocated(InodeNo(disk, s, inr))
                    /\ InodeNo(disk, s, inr) = InodeNo(im, s, inr)
                    /\ inode_read(im, s, inr) = 0 /\ ~OutOfInodes(s, inr)
           /\ bad = {} => disk = im
<1> DEFINE n == InodeSector(s, inr)
<1>1. /\ DOMAIN disk = DOMAIN im \ bad
      /\ \A m \in DOMAIN im \ bad : disk[m] = im[m] /\ im[m] \in Sector
      /\ bad = {} => disk = im
  BY DEF Visible, IsImage
<1>2. inr % INODES_PER_SECTOR \in 0 .. INODES_PER_SECTOR - 1
  BY WordFacts, PerSector, DivModFacts
<1>3. n \in DOMAIN disk => InodeNo(disk, s, inr) = InodeNo(im, s, inr)
                           /\ InodeNo(disk, s, inr) \in InodeType
  BY <1>1, <1>2, InodeAtType, Zenon DEF InodeNo
<1>4. /\ inode_read(disk, s, inr) \in Int /\ inode_read(disk, s, inr) <= 0
      /\ inode_read(disk, s, inr) = 0
           => n \in DOMAIN disk /\ Allocated(InodeNo(disk, s, inr)) /\ ~OutOfInodes(s, inr)
  BY DEF inode_read, ERR_INODE_OUTOF_RANGE, ERR_IO, ERR_UNALLOCATED_INODE
<1>5. n \in DOMAIN disk => n \in DOMAIN im
  BY <1>1
<1> HIDE DEF n
<1>6. inode_read(disk, s, inr) = 0 => inode_read(im, s, inr) = 0
  BY <1>3, <1>4, <1>5, Zenon DEF inode_read, n
<1> QED BY <1>1, <1>3, <1>4, <1>6

-----------------------------------------------------------------------------
(* Reading a file and a directory.                                         *)

LEMMA EntriesPerSector == DIRENTRIES_PER_SECTOR \in Nat \ {0}
<1>1. ADDRESSES_PER_SECTOR \in Nat /\ ADDRESSES_PER_SECTOR >= 6
  BY LayoutFacts
<1> QED BY <1>1 DEF DIRENTRIES_PER_SECTOR, DIRENT_WORDS

\* A disk, or the sectors of it that a call has got.
SectorsOnly(disk) == \A n \in DOMAIN disk : disk[n] \in Sector

LEMMA VisibleSectors ==
    ASSUME NEW im, IsImage(im), NEW bad PROVE SectorsOnly(Visible(im, bad))
  BY DEF SectorsOnly, Visible, IsImage

\* An inode that is read from any sectors is allocated.
LEMMA ReadsSomeInode ==
    ASSUME NEW disk, SectorsOnly(disk), NEW s, NEW inr \in Word
    PROVE  /\ inode_read(disk, s, inr) \in Int /\ inode_read(disk, s, inr) <= 0
           /\ inode_read(disk, s, inr) = 0
                 => InodeNo(disk, s, inr) \in InodeType /\ Allocated(InodeNo(disk, s, inr))
<1>1. inr % INODES_PER_SECTOR \in 0 .. INODES_PER_SECTOR - 1
  BY WordFacts, PerSector, DivModFacts
<1>2. InodeSector(s, inr) \in DOMAIN disk => InodeNo(disk, s, inr) \in InodeType
  BY <1>1, InodeAtType, Zenon DEF InodeNo, SectorsOnly
<1>3. /\ inode_read(disk, s, inr) \in Int /\ inode_read(disk, s, inr) <= 0
      /\ inode_read(disk, s, inr) = 0
           => InodeSector(s, inr) \in DOMAIN disk /\ Allocated(InodeNo(disk, s, inr))
  BY DEF inode_read, ERR_INODE_OUTOF_RANGE, ERR_IO, ERR_UNALLOCATED_INODE
<1> QED BY <1>2, <1>3

\* Inside a file, inode_findsector answers a word or an error.
LEMMA FindsSomeSector ==
    ASSUME NEW disk, SectorsOnly(disk), NEW i \in InodeType, Allocated(i),
           NEW k \in Nat, k * SECTOR_SIZE < i.i_size
    PROVE  /\ inode_findsector(disk, i, k) \in Int
           /\ inode_findsector(disk, i, k) # ERR_UNALLOCATED_INODE
<1> DEFINE sect == inode_findsector(disk, i, k)
           a == AddressSector(i, k)
           w == k % ADDRESSES_PER_SECTOR
<1>1. i.i_size \in Nat /\ EXTRA_LARGE_FILE \in Nat /\ ~(k < 0)
  BY SizeIsNat, ExtraLargeIsNat
<1>2. CASE i.i_size > EXTRA_LARGE_FILE
  BY <1>1, <1>2 DEF inode_findsector, ERR_FILE_TOO_LARGE, ERR_UNALLOCATED_INODE
<1>3. CASE IsSmall(i) /\ ~(i.i_size > EXTRA_LARGE_FILE)
  <2>1. ~(k > i.i_size \div SECTOR_SIZE) /\ k \in 0 .. ADDR_SMALL_LENGTH - 1
    BY <1>3, InsideSmall
  <2>2. sect = i.i_addr[k]
    BY <1>1, <1>3, <2>1 DEF inode_findsector
  <2>3. i.i_addr[k] \in Word
    BY <2>1 DEF InodeType
  <2>4. i.i_addr[k] \in Nat
    <3>1. \A v \in Word : v \in Nat
      BY WordFacts
    <3> QED BY <2>3, <3>1, Zenon
  <2> HIDE DEF sect
  <2>5. sect \in Int /\ sect # ERR_UNALLOCATED_INODE
    BY <2>2, <2>4 DEF ERR_UNALLOCATED_INODE
  <2> QED BY <2>5 DEF sect
<1>4. CASE ~IsSmall(i) /\ ~(i.i_size > EXTRA_LARGE_FILE)
  <2>1. \/ sect = ERR_OFFSET_OUT_OF_RANGE \/ sect = ERR_IO
        \/ a \in DOMAIN disk /\ sect = disk[a][w]
    BY <1>1, <1>4, Zenon DEF inode_findsector
  <2>2. a \in DOMAIN disk => disk[a][w] \in Nat
    BY AddressIsWord DEF SectorsOnly
  <2> QED BY <2>1, <2>2 DEF ERR_OFFSET_OUT_OF_RANGE, ERR_IO, ERR_UNALLOCATED_INODE
<1> QED BY <1>2, <1>3, <1>4

-----------------------------------------------------------------------------
(* The three counters of a directory reader.                               *)

\* m sectors were read, and last - cur entries of the last one are still to be answered.
Counts(d, m) ==
    /\ d = [fv6 |-> d.fv6, dirs |-> d.dirs, cur |-> d.cur, last |-> d.last]
    /\ d.fv6 = [i_number |-> d.fv6.i_number, i_node |-> d.fv6.i_node, offset |-> d.fv6.offset]
    /\ d.fv6.offset = m * SECTOR_SIZE /\ d.last = m * DIRENTRIES_PER_SECTOR
    /\ d.cur \in 0 .. d.last /\ d.last - d.cur <= DIRENTRIES_PER_SECTOR

IsDirReader(d) ==
    /\ d.fv6.i_node \in InodeType /\ Allocated(d.fv6.i_node) /\ IsDirectory(d.fv6.i_node)
    /\ d.dirs \in Sector

LEMMA CountersAgree ==
    ASSUME NEW d, NEW m \in Nat, Counts(d, m)
    PROVE  /\ d.cur \in 0 .. d.last /\ d.cur <= d.last /\ d.last \in Nat /\ d.fv6.offset \in Nat
           /\ d.last * SECTOR_SIZE = d.fv6.offset * DIRENTRIES_PER_SECTOR
           /\ d.last - d.cur <= DIRENTRIES_PER_SECTOR
           /\ d.fv6.offset \div SECTOR_SIZE = m
           /\ d.last > 0 => m > 0
<1>1. /\ d.fv6.offset = m * SECTOR_SIZE /\ d.last = m * DIRENTRIES_PER_SECTOR
      /\ d.cur \in 0 .. d.last /\ d.last - d.cur <= DIRENTRIES_PER_SECTOR
  BY DEF Counts
<1>2. SECTOR_SIZE \in Nat /\ DIRENTRIES_PER_SECTOR \in Nat
  BY SectorSize, EntriesPerSector
<1>3. d.last * SECTOR_SIZE = d.fv6.offset * DIRENTRIES_PER_SECTOR
  <2>1. \A x, y, z \in Nat : (x * y) * z = (x * z) * y
    OBVIOUS
  <2> QED BY <1>1, <1>2, <2>1
<1>4. d.fv6.offset \div SECTOR_SIZE = m /\ d.fv6.offset \in Nat
  BY <1>1, <1>2, SectorOfStart
<1>5. d.last \in Nat /\ (d.last > 0 => m > 0)
  BY <1>1, <1>2
<1>6. d.cur <= d.last
  BY <1>1, <1>5
<1> QED BY <1>1, <1>3, <1>4, <1>5, <1>6

\* opendir opens allocated directories, at their start.
LEMMA OpendirCounts ==
    ASSUME NEW disk, SectorsOnly(disk), NEW s, NEW inr \in Word,
           NEW r, r = direntv6_opendir(disk, s, inr)
    PROVE  /\ r.ret \in Int /\ r.ret <= 0 /\ Counts(r.d, 0)
           /\ r.ret = 0 => IsDirReader(r.d)
<1> DEFINE ret == inode_read(disk, s, inr)
           node == IF ret = 0 THEN InodeNo(disk, s, inr) ELSE NoFile.i_node
           fv6 == [i_number |-> inr, offset |-> 0, i_node |-> node]
           d == [fv6 |-> fv6, dirs |-> ZeroSector, cur |-> 0, last |-> 0]
<1>1. /\ ret \in Int /\ ret <= 0
      /\ ret = 0 => InodeNo(disk, s, inr) \in InodeType /\ Allocated(InodeNo(disk, s, inr))
  BY ReadsSomeInode
<1> HIDE DEF ret
<1>2. filev6_open(disk, s, inr, NoFile) = [ret |-> ret, fv6 |-> fv6]
  BY DEF filev6_open, ret
<1>3. /\ r.ret = IF ret # 0 THEN ret
                 ELSE IF ~IsDirectory(node) THEN ERR_INVALID_DIRECTORY_INODE ELSE 0
      /\ r.d = d
  BY <1>2 DEF direntv6_opendir
<1>4. ASSUME r.ret = 0 PROVE IsDirReader(d)
  <2>1. ret = 0 /\ IsDirectory(node)
    BY <1>1, <1>3, <1>4 DEF ERR_INVALID_DIRECTORY_INODE
  <2>2. node \in InodeType /\ Allocated(node)
    BY <1>1, <2>1
  <2> HIDE DEF node
  <2> QED BY <2>1, <2>2, ZeroSectorType DEF IsDirReader
<1> HIDE DEF node
<1>5. Counts(d, 0)
  <2>1. 0 * SECTOR_SIZE = 0 /\ 0 * DIRENTRIES_PER_SECTOR = 0 /\ DIRENTRIES_PER_SECTOR \in Nat
    BY SectorSize, EntriesPerSector
  <2> QED BY <2>1 DEF Counts
<1> HIDE DEF fv6, d
<1>6. r.ret \in Int /\ r.ret <= 0
  BY <1>1, <1>3 DEF ERR_INVALID_DIRECTORY_INODE
<1> QED BY <1>3, <1>4, <1>5, <1>6

\* An entry is answered, or found free.
LEMMA ReadEntryCounts ==
    ASSUME NEW d, NEW m \in Nat, Counts(d, m), d.dirs \in Sector, d.cur < d.last,
           NEW r, r = ReadEntry(d)
    PROVE  /\ Counts(r.d, m) /\ r.d.fv6 = d.fv6 /\ r.d.dirs = d.dirs
           /\ r.ret \in Int /\ (r.ret = 1 => r.child \in Word)
<1> DEFINE j == d.cur % DIRENTRIES_PER_SECTOR
           entry == DirentAt(d.dirs, j)
<1>1. d.cur \in Nat /\ d.last \in Nat /\ DIRENTRIES_PER_SECTOR \in Nat \ {0}
  BY EntriesPerSector, CountersAgree
<1>2. DIRENT_WORDS * j \in Words
  <2>1. j \in 0 .. DIRENTRIES_PER_SECTOR - 1
    BY <1>1, DivModFacts
  <2> HIDE DEF j
  <2> QED BY <2>1, LayoutFacts DEF DIRENT_WORDS, DIRENTRIES_PER_SECTOR, Words
<1>3. entry.d_inumber \in Word
  <2> HIDE DEF j
  <2> QED BY <1>1, <1>2 DEF DirentAt, Sector
<1> HIDE DEF entry
<1>4. \/ r.ret = ERR_UNALLOCATED_INODE /\ r.d = d
      \/ r.ret = 1 /\ r.d = [d EXCEPT !.cur = @ + 1] /\ r.child = entry.d_inumber
  BY DEF ReadEntry, entry
<1>5. PICK e : e = [fv6 |-> d.fv6, dirs |-> d.dirs, cur |-> d.cur + 1, last |-> d.last]
  OBVIOUS
<1>6. [d EXCEPT !.cur = @ + 1] = e
  BY <1>5 DEF Counts
<1>7. Counts(e, m) /\ e.fv6 = d.fv6 /\ e.dirs = d.dirs
  BY <1>1, <1>5 DEF Counts
<1> QED BY <1>3, <1>4, <1>6, <1>7 DEF ERR_UNALLOCATED_INODE

LEMMA ReaderFields ==
    ASSUME NEW d, NEW fv6, NEW dirs, NEW cur, NEW last,
           d = [k \in {"fv6", "dirs", "cur", "last"} |-> d[k]],
           d.fv6 = fv6, d.dirs = dirs, d.cur = cur, d.last = last
    PROVE  d = [fv6 |-> fv6, dirs |-> dirs, cur |-> cur, last |-> last]
  OBVIOUS

LEMMA ReaderRestarted ==
    ASSUME NEW d, NEW fv6, NEW dirs, NEW cur, NEW last, NEW f,
           d = [fv6 |-> fv6, dirs |-> dirs, cur |-> cur, last |-> last],
           NEW e, e = [d EXCEPT !.fv6 = f, !.cur = 0, !.last = 0]
    PROVE  e = [fv6 |-> f, dirs |-> dirs, cur |-> 0, last |-> 0]
<1>2. /\ e = [k \in {"fv6", "dirs", "cur", "last"} |-> e[k]]
      /\ e.fv6 = f /\ e.dirs = dirs /\ e.cur = 0 /\ e.last = 0
  OBVIOUS
<1> QED BY <1>2, ReaderFields

LEMMA ReaderLoaded ==
    ASSUME NEW d, NEW fv6, NEW dirs, NEW cur, NEW last, NEW block,
           d = [fv6 |-> fv6, dirs |-> dirs, cur |-> cur, last |-> last]
    PROVE  Loaded(d, block) = [fv6 |-> block.fv6, dirs |-> block.data, cur |-> cur,
                               last |-> last + DIRENTRIES_PER_SECTOR]
<1>1. PICK e : e = Loaded(d, block)
  OBVIOUS
<1>2. /\ e = [k \in {"fv6", "dirs", "cur", "last"} |-> e[k]]
      /\ e.fv6 = block.fv6 /\ e.dirs = block.data
      /\ e.cur = cur /\ e.last = last + DIRENTRIES_PER_SECTOR
  BY <1>1 DEF Loaded
<1> QED BY <1>1, <1>2, ReaderFields

\* A cursor that has moved.
LEMMA MovedCursor ==
    ASSUME NEW f, NEW offset,
           f = [i_number |-> f.i_number, i_node |-> f.i_node, offset |-> f.offset],
           NEW g, g = [f EXCEPT !.offset = offset]
    PROVE  /\ g = [i_number |-> g.i_number, i_node |-> g.i_node, offset |-> g.offset]
           /\ g.i_node = f.i_node /\ g.offset = offset
  OBVIOUS

\* At the end of the directory the reader starts again.
LEMMA RestartCounts ==
    ASSUME NEW d, NEW m, Counts(d, m), NEW f, f = [d.fv6 EXCEPT !.offset = 0],
           NEW e, e = [d EXCEPT !.fv6 = f, !.cur = 0, !.last = 0]
    PROVE  Counts(e, 0) /\ e.fv6.i_node = d.fv6.i_node /\ e.dirs = d.dirs
<1>1. d.fv6 = [i_number |-> d.fv6.i_number, i_node |-> d.fv6.i_node, offset |-> d.fv6.offset]
  BY DEF Counts
<1>2. /\ f = [i_number |-> f.i_number, i_node |-> f.i_node, offset |-> f.offset]
      /\ f.i_node = d.fv6.i_node /\ f.offset = 0
  BY <1>1, MovedCursor
<1>3. e = [fv6 |-> f, dirs |-> d.dirs, cur |-> 0, last |-> 0]
  <2>1. d = [fv6 |-> d.fv6, dirs |-> d.dirs, cur |-> d.cur, last |-> d.last]
    BY DEF Counts
  <2> QED BY <2>1, ReaderRestarted
<1>4. /\ e = [fv6 |-> e.fv6, dirs |-> e.dirs, cur |-> e.cur, last |-> e.last]
      /\ e.fv6 = f /\ e.dirs = d.dirs /\ e.cur = 0 /\ e.last = 0
  BY <1>3
<1>5. DIRENTRIES_PER_SECTOR \in Nat /\ 0 * SECTOR_SIZE = 0 /\ 0 * DIRENTRIES_PER_SECTOR = 0
  BY SectorSize, EntriesPerSector
<1> QED BY <1>2, <1>4, <1>5 DEF Counts

\* A sector of entries comes in.
LEMMA LoadCounts ==
    ASSUME NEW d, NEW m \in Nat, Counts(d, m), d.cur = d.last,
           NEW block, block.fv6 = [d.fv6 EXCEPT !.offset = @ + SECTOR_SIZE],
           NEW e, e = Loaded(d, block)
    PROVE  /\ Counts(e, m + 1) /\ e.cur < e.last
           /\ e.fv6.i_node = d.fv6.i_node /\ e.dirs = block.data
<1> DEFINE offset == d.fv6.offset
           f == block.fv6
<1>1. d.fv6 = [i_number |-> d.fv6.i_number, i_node |-> d.fv6.i_node, offset |-> d.fv6.offset]
  BY DEF Counts
<1>2. /\ f = [i_number |-> f.i_number, i_node |-> f.i_node, offset |-> f.offset]
      /\ f.i_node = d.fv6.i_node /\ f.offset = offset + SECTOR_SIZE
  <2>1. f = [d.fv6 EXCEPT !.offset = offset + SECTOR_SIZE]
    OBVIOUS
  <2> QED BY <1>1, <2>1, MovedCursor
<1>3. SECTOR_SIZE \in Nat \ {0} /\ DIRENTRIES_PER_SECTOR \in Nat \ {0}
  BY SectorSize, EntriesPerSector
<1>4. offset = m * SECTOR_SIZE /\ d.last = m * DIRENTRIES_PER_SECTOR
  BY DEF Counts
<1>5. /\ offset + SECTOR_SIZE = (m + 1) * SECTOR_SIZE
      /\ d.last + DIRENTRIES_PER_SECTOR = (m + 1) * DIRENTRIES_PER_SECTOR
      /\ d.last \in Nat
  BY <1>3, <1>4
<1>6. e = [fv6 |-> f, dirs |-> block.data, cur |-> d.cur, last |-> d.last + DIRENTRIES_PER_SECTOR]
  <2>1. d = [fv6 |-> d.fv6, dirs |-> d.dirs, cur |-> d.cur, last |-> d.last]
    BY DEF Counts
  <2> QED BY <2>1, ReaderLoaded
<1> HIDE DEF f, offset
<1>7. /\ e = [fv6 |-> e.fv6, dirs |-> e.dirs, cur |-> e.cur, last |-> e.last]
      /\ e.fv6 = f /\ e.dirs = block.data
      /\ e.cur = d.cur /\ e.last = d.last + DIRENTRIES_PER_SECTOR
  BY <1>6
<1>8. e.cur \in 0 .. e.last /\ e.cur < e.last /\ e.last - e.cur <= DIRENTRIES_PER_SECTOR
  <2>1. d.last \in Nat /\ DIRENTRIES_PER_SECTOR \in Nat \ {0}
        /\ e.cur = d.last /\ e.last = d.last + DIRENTRIES_PER_SECTOR
    BY <1>3, <1>5, <1>7
  <2> QED BY <2>1
<1>9. e.fv6.offset = (m + 1) * SECTOR_SIZE /\ e.last = (m + 1) * DIRENTRIES_PER_SECTOR
  BY <1>2, <1>5, <1>7
<1>10. Counts(e, m + 1)
  BY <1>2, <1>7, <1>8, <1>9, Zenon DEF Counts
<1> QED BY <1>2, <1>7, <1>8, <1>10

\* readdir answers from the sector that it holds, or starts again, or reads the next sector:
\* whatever sectors it gets, the reader reads a directory and its counters agree.
LEMMA ReaddirCounts ==
    ASSUME NEW disk, SectorsOnly(disk), NEW d, NEW m \in Nat, Counts(d, m), IsDirReader(d),
           NEW sect, sect = inode_findsector(disk, d.fv6.i_node, m),
           NEW r, r = direntv6_readdir(disk, d)
    PROVE  /\ r.ret \in Int /\ (r.ret = 1 => r.child \in Word)
           /\ r.d.fv6.i_node = d.fv6.i_node /\ IsDirReader(r.d)
           /\ \/ Counts(r.d, m) /\ r.d.dirs = d.dirs
              \/ Counts(r.d, 0)
              \/ /\ Counts(r.d, m + 1) /\ m * SECTOR_SIZE < d.fv6.i_node.i_size
                 /\ ~(sect < 0) /\ sect \in DOMAIN disk /\ r.d.dirs = disk[sect]
<1>1. PICK f, i : f = d.fv6 /\ i = f.i_node
  OBVIOUS
<1>2. PICK block : block = filev6_readblock(disk, f)
  OBVIOUS
<1>3. i \in InodeType /\ Allocated(i) /\ f.offset = m * SECTOR_SIZE /\ i.i_size \in Nat
  BY <1>1, SizeIsNat DEF Counts, IsDirReader
<1>4. /\ d.cur \in Nat /\ d.last \in Nat /\ d.cur <= d.last /\ m * SECTOR_SIZE \in Nat
      /\ f.offset \div SECTOR_SIZE = m
  BY <1>1, <1>3, CountersAgree
<1>5. CASE d.cur < d.last
  <2>1. r = ReadEntry(d)
    BY <1>4, <1>5 DEF direntv6_readdir
  <2> QED BY <1>5, <2>1, ReadEntryCounts DEF IsDirReader
<1>6. CASE d.cur = d.last
  <2>1. r = IF block.ret < 0 THEN [ret |-> block.ret, d |-> d, name |-> <<>>, child |-> 0]
            ELSE IF block.ret = 0
                 THEN [ret |-> 0, d |-> [d EXCEPT !.fv6 = block.fv6, !.cur = 0, !.last = 0],
                       name |-> <<>>, child |-> 0]
            ELSE ReadEntry(Loaded(d, block))
    <3>1. ~(d.cur > d.last \/ d.cur < 0 \/ d.last < 0) /\ ~(d.cur < d.last)
      BY <1>4, <1>6
    <3> QED BY <1>1, <1>2, <3>1, Zenon DEF direntv6_readdir
  <2>2. CASE f.offset >= i.i_size
    <3>1. block.ret = 0 /\ block.fv6 = [f EXCEPT !.offset = 0]
      BY <1>1, <1>2, <2>2 DEF filev6_readblock
    <3>2. PICK g, e : g = block.fv6 /\ e = [d EXCEPT !.fv6 = g, !.cur = 0, !.last = 0]
      OBVIOUS
    <3>3. r.d = e /\ r.ret = 0
      BY <2>1, <3>1, <3>2
    <3>4. Counts(e, 0) /\ e.fv6.i_node = d.fv6.i_node /\ e.dirs = d.dirs
      <4>1. g = [d.fv6 EXCEPT !.offset = 0]
        BY <1>1, <3>1, <3>2
      <4>2. e = [d EXCEPT !.fv6 = g, !.cur = 0, !.last = 0]
        BY <3>2
      <4> QED BY <4>1, <4>2, RestartCounts
    <3> QED BY <3>3, <3>4 DEF IsDirReader
  <2>3. CASE ~(f.offset >= i.i_size)
    <3>1. m * SECTOR_SIZE < i.i_size
      BY <1>3, <1>4, <2>3
    <3>2. sect = inode_findsector(disk, i, f.offset \div SECTOR_SIZE) /\ sect \in Int
      BY <1>1, <1>3, <1>4, <3>1, FindsSomeSector
    <3>3. block = IF sect < 0 THEN [ret |-> sect, data |-> ZeroSector, fv6 |-> f]
                  ELSE IF sect \notin DOMAIN disk THEN [ret |-> ERR_IO, data |-> ZeroSector, fv6 |-> f]
                  ELSE [ret |-> SECTOR_SIZE, data |-> disk[sect],
                        fv6 |-> [f EXCEPT !.offset = @ + SECTOR_SIZE]]
      BY <1>1, <1>2, <2>3, <3>2, Zenon DEF filev6_readblock
    <3>4. CASE sect < 0 \/ sect \notin DOMAIN disk
      <4>1. block.ret \in Int /\ block.ret < 0
        BY <3>2, <3>3, <3>4 DEF ERR_IO
      <4> QED BY <2>1, <4>1
    <3>5. CASE ~(sect < 0) /\ sect \in DOMAIN disk
      <4>1. /\ block.ret = SECTOR_SIZE /\ block.data = disk[sect]
            /\ block.fv6 = [f EXCEPT !.offset = @ + SECTOR_SIZE]
        BY <3>3, <3>5
      <4>2. PICK e : e = Loaded(d, block)
        OBVIOUS
      <4>3. r = ReadEntry(e)
        BY <2>1, <4>1, <4>2, SectorSize
      <4>4. /\ Counts(e, m + 1) /\ e.cur < e.last
            /\ e.fv6.i_node = d.fv6.i_node /\ e.dirs = disk[sect]
        BY <1>1, <1>6, <4>1, <4>2, LoadCounts
      <4>5. disk[sect] \in Sector
        BY <3>5 DEF SectorsOnly
      <4>6. /\ Counts(r.d, m + 1) /\ r.d.fv6 = e.fv6 /\ r.d.dirs = e.dirs
            /\ r.ret \in Int /\ (r.ret = 1 => r.child \in Word)
        BY <4>3, <4>4, <4>5, ReadEntryCounts
      <4> QED BY <1>1, <3>1, <3>5, <4>4, <4>5, <4>6 DEF IsDirReader
    <3> QED BY <3>4, <3>5
  <2> QED BY <2>2, <2>3
<1> QED BY <1>4, <1>5, <1>6

-----------------------------------------------------------------------------
(* A file of an image that nobody changes.                                 *)

\* A call on a file of the image, at the start of sector k: the end, that sector, or an error.
LEMMA ReadsSectorK ==
    ASSUME NEW im, IsImage(im), NEW bad, NEW i \in InodeType, Allocated(i), NEW k \in Nat,
           NEW f, f = [i_number |-> f.i_number, i_node |-> i, offset |-> k * SECTOR_SIZE],
           NEW r, r = filev6_readblock(Visible(im, bad), f)
    PROVE  \/ r.ret = 0 /\ ~(k * SECTOR_SIZE < i.i_size)
           \/ /\ r.ret = SECTOR_SIZE /\ k * SECTOR_SIZE < i.i_size
              /\ r.data = FileBlock(im, i, k) /\ r.data \in Sector
              /\ r.fv6 = [i_number |-> r.fv6.i_number, i_node |-> i,
                          offset |-> (k + 1) * SECTOR_SIZE]
           \/ /\ r.ret \in Int /\ r.ret < 0 /\ k * SECTOR_SIZE < i.i_size /\ r.fv6 = f
              /\ bad = {} => FileBlock(im, i, k) = Missing
<1> DEFINE disk == Visible(im, bad)
           sect == inode_findsector(disk, i, k)
<1>1. /\ (k * SECTOR_SIZE) \div SECTOR_SIZE = k
      /\ k * SECTOR_SIZE + SECTOR_SIZE = (k + 1) * SECTOR_SIZE
      /\ i.i_size \in Nat /\ k * SECTOR_SIZE \in Nat
  BY SectorOfStart, SectorSize, SizeIsNat
<1>2. PICK start : start = k * SECTOR_SIZE
  OBVIOUS
<1>3. f.i_node = i /\ f.offset = start
  BY <1>2
<1>4. k * SECTOR_SIZE < i.i_size =>
          /\ sect \in Int
          /\ ~(sect < 0) /\ sect \in DOMAIN disk
                => FileBlock(im, i, k) = disk[sect] /\ disk[sect] \in Sector
          /\ bad = {} /\ (sect < 0 \/ sect \notin DOMAIN disk) => FileBlock(im, i, k) = Missing
  BY FindsTheSector
<1> HIDE DEF disk
<1>5. r = IF start >= i.i_size
          THEN [ret |-> 0, data |-> ZeroSector, fv6 |-> [f EXCEPT !.offset = 0]]
          ELSE IF sect < 0 THEN [ret |-> sect, data |-> ZeroSector, fv6 |-> f]
          ELSE IF sect \notin DOMAIN disk THEN [ret |-> ERR_IO, data |-> ZeroSector, fv6 |-> f]
          ELSE [ret |-> SECTOR_SIZE, data |-> disk[sect],
                fv6 |-> [f EXCEPT !.offset = @ + SECTOR_SIZE]]
  BY <1>1, <1>2, <1>3, Zenon DEF filev6_readblock, disk
<1> HIDE DEF sect
<1>6. CASE start >= i.i_size
  BY <1>1, <1>2, <1>5, <1>6
<1>7. CASE ~(start >= i.i_size) /\ (sect < 0 \/ sect \notin DOMAIN disk)
  <2>1. r.ret \in Int /\ r.ret < 0 /\ r.fv6 = f
    BY <1>1, <1>2, <1>4, <1>5, <1>7 DEF ERR_IO
  <2> QED BY <1>1, <1>2, <1>4, <1>7, <2>1
<1>8. CASE ~(start >= i.i_size) /\ ~(sect < 0) /\ sect \in DOMAIN disk
  <2>1. PICK g : g = [f EXCEPT !.offset = @ + SECTOR_SIZE]
    OBVIOUS
  <2>2. r.ret = SECTOR_SIZE /\ r.data = disk[sect] /\ r.fv6 = g
    BY <1>5, <1>8, <2>1
  <2>3. g = [f EXCEPT !.offset = (k + 1) * SECTOR_SIZE]
    BY <1>1, <1>2, <1>3, <2>1
  <2>4. g = [i_number |-> g.i_number, i_node |-> i, offset |-> (k + 1) * SECTOR_SIZE]
    BY <1>3, <2>3, MovedCursor
  <2> QED BY <1>1, <1>2, <1>4, <1>8, <2>2, <2>4
<1> QED BY <1>6, <1>7, <1>8

-----------------------------------------------------------------------------
(* A directory reader of an image that nobody changes.                     *)

\* What was read last is the last of the m sectors read so far.
Reads(img, d, m) ==
    /\ Counts(d, m) /\ IsDirReader(d)
    /\ m > 0 => d.dirs = FileBlock(img, d.fv6.i_node, m - 1)

Reader(img, d) == \E m \in Nat : Reads(img, d, m)

LEMMA ReaderIsConsistent ==
    ASSUME NEW img, NEW d, Reader(img, d)
    PROVE  /\ d.cur \in 0 .. d.last /\ IsDirectory(d.fv6.i_node)
           /\ d.last * SECTOR_SIZE = d.fv6.offset * DIRENTRIES_PER_SECTOR
           /\ d.last - d.cur <= DIRENTRIES_PER_SECTOR
           /\ d.last > 0 => d.dirs = FileBlock(img, d.fv6.i_node, d.fv6.offset \div SECTOR_SIZE - 1)
  BY CountersAgree DEF Reader, Reads, IsDirReader

\* A directory that opens is one of the image, whatever sectors fail.
LEMMA OpendirReads ==
    ASSUME NEW im, IsImage(im), NEW bad, NEW s, NEW inr \in Word,
           NEW r, r = direntv6_opendir(Visible(im, bad), s, inr)
    PROVE  /\ r.ret \in Int /\ r.ret <= 0
           /\ r.ret = 0 => Reader(im, r.d)
<1>1. /\ r.ret \in Int /\ r.ret <= 0 /\ Counts(r.d, 0)
      /\ r.ret = 0 => IsDirReader(r.d)
  BY VisibleSectors, OpendirCounts
<1>2. 0 \in Nat /\ ~(0 > 0)
  OBVIOUS
<1> QED BY <1>1, <1>2 DEF Reader, Reads

\* readdir keeps the reader consistent, whatever sectors fail.
LEMMA ReaddirReads ==
    ASSUME NEW im, IsImage(im), NEW bad, NEW d, Reader(im, d),
           NEW r, r = direntv6_readdir(Visible(im, bad), d)
    PROVE  /\ Reader(im, r.d) /\ r.ret \in Int
           /\ r.ret = 1 => r.child \in Word
<1>1. PICK m \in Nat : Reads(im, d, m)
  BY DEF Reader
<1>2. PICK disk : disk = Visible(im, bad)
  OBVIOUS
<1>3. PICK i, sect : i = d.fv6.i_node /\ sect = inode_findsector(disk, i, m)
  OBVIOUS
<1>4. i \in InodeType /\ Allocated(i)
  BY <1>1, <1>3 DEF Reads, IsDirReader
<1>5. /\ r.ret \in Int /\ (r.ret = 1 => r.child \in Word)
      /\ r.d.fv6.i_node = i /\ IsDirReader(r.d)
      /\ \/ Counts(r.d, m) /\ r.d.dirs = d.dirs
         \/ Counts(r.d, 0)
         \/ /\ Counts(r.d, m + 1) /\ m * SECTOR_SIZE < i.i_size
            /\ ~(sect < 0) /\ sect \in DOMAIN disk /\ r.d.dirs = disk[sect]
  BY <1>1, <1>2, <1>3, VisibleSectors, ReaddirCounts DEF Reads
<1>6. CASE Counts(r.d, m) /\ r.d.dirs = d.dirs
  BY <1>1, <1>3, <1>5, <1>6 DEF Reads, Reader
<1>7. CASE Counts(r.d, 0)
  <2>1. 0 \in Nat /\ ~(0 > 0)
    OBVIOUS
  <2> QED BY <1>5, <1>7, <2>1 DEF Reads, Reader
<1>8. CASE /\ Counts(r.d, m + 1) /\ m * SECTOR_SIZE < i.i_size
           /\ ~(sect < 0) /\ sect \in DOMAIN disk /\ r.d.dirs = disk[sect]
  <2>1. FileBlock(im, i, m) = disk[sect]
    BY <1>2, <1>3, <1>4, <1>8, FindsTheSector
  <2>2. m + 1 \in Nat /\ m = (m + 1) - 1
    OBVIOUS
  <2> QED BY <1>5, <1>8, <2>1, <2>2 DEF Reads, Reader
<1> QED BY <1>5, <1>6, <1>7, <1>8

-----------------------------------------------------------------------------
(* The entries of a directory.                                             *)

LEMMA NameIsSequence == ASSUME NEW word \in Word PROVE Name(word) \in Seq(Int)
<1>1. PICK lo, hi : lo = word % 256 /\ hi = word \div 256
  OBVIOUS
<1>2. lo \in Int /\ hi \in Int /\ word \in Int
  <2>1. word \in Nat /\ 256 \in Nat \ {0}
    BY WordFacts
  <2>2. word % 256 \in 0 .. 256 - 1 /\ word \div 256 \in Nat
    BY <2>1, DivModFacts
  <2> QED BY <1>1, <2>1, <2>2
<1>3. Name(word) = IF lo = 0 THEN <<>> ELSE IF hi = 0 THEN <<word>> ELSE <<lo, hi>>
  BY <1>1, Zenon DEF Name
<1>4. <<>> \in Seq(Int) /\ <<word>> \in Seq(Int) /\ <<lo, hi>> \in Seq(Int)
  BY <1>2
<1> QED BY <1>3, <1>4

LEMMA DirentType ==
    ASSUME NEW sector \in Sector, NEW j \in 0 .. DIRENTRIES_PER_SECTOR - 1
    PROVE  DirentAt(sector, j).d_inumber \in Word /\ DirentAt(sector, j).d_name \in Seq(Int)
<1>1. PICK A \in Nat, P \in Nat : /\ A = ADDRESSES_PER_SECTOR /\ P = DIRENTRIES_PER_SECTOR /\ 2 * P <= A
  <2>1. ADDRESSES_PER_SECTOR \in Nat
    BY LayoutFacts
  <2>2. ADDRESSES_PER_SECTOR \div 2 \in Nat /\ 2 * (ADDRESSES_PER_SECTOR \div 2) <= ADDRESSES_PER_SECTOR
    BY <2>1, DivHalves
  <2> QED BY <2>1, <2>2 DEF DIRENTRIES_PER_SECTOR, DIRENT_WORDS
<1>2. 2 * j \in 0 .. A - 1 /\ 2 * j + 1 \in 0 .. A - 1
  BY <1>1
<1>3. sector[2 * j] \in Word /\ sector[2 * j + 1] \in Word
  BY <1>1, <1>2 DEF Sector, Words
<1>4. /\ DirentAt(sector, j).d_inumber = sector[2 * j]
      /\ DirentAt(sector, j).d_name = Name(sector[2 * j + 1])
  BY DEF DirentAt, DIRENT_WORDS
<1> QED BY <1>3, <1>4, NameIsSequence

\* The sectors of a file that is complete are on the disk.
LEMMA BlockOfComplete ==
    ASSUME NEW im, NEW i, i.i_size \in Nat, IsComplete(im, i), NEW k \in Nat,
           k * SECTOR_SIZE < i.i_size
    PROVE  FileBlock(im, i, k) # Missing
<1>1. k \in 0 .. SectorsOf(i.i_size) - 1
  BY SectorBeforeEnd
<1>2. k \in DOMAIN FileBlocks(im, i) /\ FileBlocks(im, i)[k] = FileBlock(im, i, k)
  BY <1>1 DEF FileBlocks
<1> QED BY <1>2, Zenon DEF IsComplete

\* A call on a file: its end, the next sector, or an error.
LEMMA NextBlock ==
    ASSUME NEW im, IsImage(im), NEW bad, NEW i \in InodeType, Allocated(i), NEW k \in Nat,
           NEW f, f = [i_number |-> f.i_number, i_node |-> i, offset |-> k * SECTOR_SIZE],
           NEW r, r = filev6_readblock(Visible(im, bad), f)
    PROVE  \/ r.ret = 0 /\ ~(k * SECTOR_SIZE < i.i_size)
           \/ /\ r.ret = SECTOR_SIZE /\ k * SECTOR_SIZE < i.i_size
              /\ r.data = FileBlock(im, i, k) /\ r.data \in Sector
              /\ r.fv6 = [i_number |-> r.fv6.i_number, i_node |-> i,
                          offset |-> (k + 1) * SECTOR_SIZE]
           \/ r.ret < 0 /\ r.ret # ERR_UNALLOCATED_INODE /\ (bad = {} => ~IsComplete(im, i))
<1>1. PICK start \in Nat : start = k * SECTOR_SIZE /\ start \div SECTOR_SIZE = k
  BY SectorOfStart, SectorSize
<1>2. i.i_size \in Nat
  BY SizeIsNat
<1>3. \/ r.ret = 0 /\ ~(start < i.i_size)
      \/ /\ r.ret = SECTOR_SIZE /\ start < i.i_size
         /\ r.data = FileBlock(im, i, k) /\ r.data \in Sector
         /\ r.fv6 = [i_number |-> r.fv6.i_number, i_node |-> i,
                     offset |-> (k + 1) * SECTOR_SIZE]
      \/ /\ r.ret < 0 /\ start < i.i_size
         /\ bad = {} => FileBlock(im, i, k) = Missing
  BY <1>1, ReadsSectorK
<1>4. CASE r.ret < 0 /\ start < i.i_size /\ (bad = {} => FileBlock(im, i, k) = Missing)
  <2>1. bad = {} => ~IsComplete(im, i)
    BY <1>1, <1>2, <1>4, BlockOfComplete
  <2>2. PICK sect : sect = inode_findsector(Visible(im, bad), i, k)
    OBVIOUS
  <2>3. sect \in Int /\ sect # ERR_UNALLOCATED_INODE
    BY <1>1, <1>4, <2>2, VisibleSectors, FindsSomeSector
  <2>4. f.i_node = i /\ f.offset = start
    BY <1>1
  <2>5. r.ret \in {0, sect, ERR_IO, SECTOR_SIZE}
    <3>1. r.ret = 0 \/ r.ret = sect \/ r.ret = ERR_IO \/ r.ret = SECTOR_SIZE
      BY <1>1, <2>2, <2>4 DEF filev6_readblock
    <3> QED BY <3>1
  <2>6. r.ret # ERR_UNALLOCATED_INODE
    BY <2>3, <2>5, SectorSize DEF ERR_UNALLOCATED_INODE, ERR_IO
  <2> QED BY <1>4, <2>1, <2>6
<1> QED BY <1>1, <1>3, <1>4

LEMMA EntryCountIsNat == ASSUME NEW i, i.i_size \in Nat PROVE EntryCount(i) \in Nat
<1>1. PICK s \in Nat, W \in Nat \ {0} : s = i.i_size /\ W = 2 * DIRENT_WORDS
  BY DEF DIRENT_WORDS
<1>2. s \div W \in Nat
  BY DivModFacts
<1> QED BY <1>1, <1>2 DEF EntryCount

\* The entries before the end of the directory lie in its sectors.
LEMMA EntryInSector ==
    ASSUME WholeEntries, NEW i, i.i_size \in Nat, NEW k \in Nat, k < EntryCount(i)
    PROVE  (k \div DIRENTRIES_PER_SECTOR) * SECTOR_SIZE < i.i_size
<1>1. PICK W \in Nat \ {0} : W = 2 * DIRENT_WORDS
  BY DEF DIRENT_WORDS
<1>2. PICK P \in Nat \ {0} : P = DIRENTRIES_PER_SECTOR /\ SECTOR_SIZE = P * W
  BY <1>1, EntriesPerSector DEF WholeEntries
<1>3. PICK b \in Nat, c \in 0 .. P - 1 : b = k \div P /\ k = P * b + c
  BY DivModFacts
<1>4. PICK n \in Nat, e \in 0 .. W - 1 : n = EntryCount(i) /\ i.i_size = W * n + e
  <2>1. PICK s \in Nat : s = i.i_size
    OBVIOUS
  <2>2. s = W * (s \div W) + (s % W) /\ s \div W \in Nat /\ s % W \in 0 .. W - 1
    BY DivModFacts
  <2>3. s \div W = EntryCount(i)
    BY <1>1, <2>1 DEF EntryCount
  <2> QED BY <2>1, <2>2, <2>3
<1>5. P * b < n
  <2>1. P * b \in Nat
    OBVIOUS
  <2> QED BY <1>3, <1>4, <2>1
<1>6. W * (P * b) < W * n
  <2>1. PICK x \in Nat : x = P * b
    OBVIOUS
  <2>2. x + 1 <= n
    BY <1>5, <2>1
  <2>3. W * (x + 1) <= W * n /\ W * (x + 1) = W * x + W
    BY <2>2
  <2>4. W * x \in Nat /\ W * n \in Nat
    OBVIOUS
  <2> QED BY <2>1, <2>3, <2>4
<1>7. b * SECTOR_SIZE = W * (P * b)
  BY <1>2
<1>8. W * n \in Nat /\ W * (P * b) \in Nat
  OBVIOUS
<1>9. b * SECTOR_SIZE < i.i_size
  BY <1>4, <1>6, <1>7, <1>8
<1> QED BY <1>2, <1>3, <1>9

\* A directory of which readdir answers what EntriesOf has.
SoundDirectory(im, i) ==
    /\ WholeEntries /\ IsPadded(im, i)
    /\ i \in InodeType /\ Allocated(i) /\ IsDirectory(i)

LEMMA SoundSize ==
    ASSUME NEW im, NEW i, SoundDirectory(im, i)
    PROVE  i \in InodeType /\ Allocated(i) /\ i.i_size \in Nat /\ EntryCount(i) \in Nat
  BY SizeIsNat, EntryCountIsNat DEF SoundDirectory

\* What is in use in the last sector is before the end of the directory.
LEMMA UsedIsInside ==
    ASSUME NEW im, NEW i, SoundDirectory(im, i),
           NEW k \in Nat, k <= EntryCount(i), Slot(im, i, k).d_inumber # 0,
           (k \div DIRENTRIES_PER_SECTOR) * SECTOR_SIZE < i.i_size
    PROVE  k < EntryCount(i)
<1> SUFFICES ASSUME k = EntryCount(i) PROVE FALSE
  <2>1. EntryCount(i) \in Nat
    BY SoundSize
  <2> QED BY <2>1
<1>1. PICK W \in Nat \ {0} : W = 2 * DIRENT_WORDS
  BY DEF DIRENT_WORDS
<1>2. PICK P \in Nat \ {0} : P = DIRENTRIES_PER_SECTOR /\ SECTOR_SIZE = P * W
  BY <1>1, EntriesPerSector DEF SoundDirectory, WholeEntries
<1>3. i.i_size \in Nat
  BY SoundSize
<1>4. i.i_size % SECTOR_SIZE = 0
  BY DEF SoundDirectory, IsPadded
<1>5. PICK q \in Nat : i.i_size = SECTOR_SIZE * q
  <2>0. PICK s \in Nat, S \in Nat \ {0} : s = i.i_size /\ S = SECTOR_SIZE
    BY <1>3, SectorSize
  <2>1. PICK q \in Nat : q = s \div S /\ s = S * q + (s % S)
    BY DivModFacts
  <2>2. i.i_size = SECTOR_SIZE * q + 0
    BY <1>4, <2>0, <2>1
  <2>3. SECTOR_SIZE * q \in Nat
    BY SectorSize
  <2> QED BY <2>2, <2>3
<1>6. k = q * P
  <2>1. PICK n \in Nat : n = q * P
    OBVIOUS
  <2>2. i.i_size = n * W + 0 /\ 0 \in 0 .. W - 1
    BY <1>2, <1>5, <2>1
  <2>3. (n * W + 0) \div W = n
    BY <2>2, DivModUnique
  <2>4. i.i_size \div W = n
    BY <2>2, <2>3
  <2> QED BY <1>1, <2>1, <2>4 DEF EntryCount
<1>7. k \div P = q
  <2>1. (q * P + 0) \div P = q /\ q * P \in Nat
    BY DivModUnique
  <2> QED BY <1>6, <2>1
<1>8. q * SECTOR_SIZE = SECTOR_SIZE * q /\ q * SECTOR_SIZE \in Nat
  BY SectorSize
<1> QED BY <1>2, <1>5, <1>7, <1>8

\* A reader of the directory i has answered d.cur entries, all of them in use.
Answered(im, reader, i) ==
    /\ reader.fv6.i_node = i /\ Reader(im, reader)
    /\ reader.fv6.offset < i.i_size + SECTOR_SIZE
    /\ reader.cur <= EntryCount(i)
    /\ \A k \in 0 .. reader.cur - 1 : Slot(im, i, k).d_inumber # 0

\* What direntv6_readdir returns for a reader that has answered k entries of the directory i.
EntryAnswered(im, r, i, k) ==
    \/ r.ret = 0 /\ k = EntryCount(i)
    \/ r.ret = ERR_UNALLOCATED_INODE /\ Slot(im, i, k).d_inumber = 0
    \/ /\ r.ret = 1 /\ k < EntryCount(i) /\ Slot(im, i, k).d_inumber # 0
       /\ r.name = Slot(im, i, k).d_name /\ r.child = Slot(im, i, k).d_inumber
       /\ r.name \in Seq(Int) /\ r.child \in Word
       /\ r.d.cur = k + 1 /\ Answered(im, r.d, i)

\* A sector of the directory could not be read; when none fails, it is not on the disk.
Failed(im, r, i, bad) ==
    r.ret < 0 /\ r.ret # ERR_UNALLOCATED_INODE /\ (bad = {} => ~IsComplete(im, i))

\* The next entry, when the reader holds its sector.
LEMMA EntryHeld ==
    ASSUME NEW im, NEW i, SoundDirectory(im, i),
           NEW e, NEW n \in Nat, Reads(im, e, n), e.fv6.i_node = i,
           e.fv6.offset < i.i_size + SECTOR_SIZE, e.cur < e.last, e.cur <= EntryCount(i),
           \A j \in 0 .. e.cur - 1 : Slot(im, i, j).d_inumber # 0,
           NEW k, k = e.cur, NEW r, r = ReadEntry(e)
    PROVE  EntryAnswered(im, r, i, k)
<1>1. /\ Counts(e, n) /\ IsDirReader(e) /\ e.dirs \in Sector
      /\ n > 0 => e.dirs = FileBlock(im, i, n - 1)
  BY DEF Reads, IsDirReader
<1>2. PICK P \in Nat \ {0} : P = DIRENTRIES_PER_SECTOR
  BY EntriesPerSector
<1>3. PICK last \in Nat : last = e.last /\ last = n * P
  BY <1>1, <1>2 DEF Counts
<1>4. k \in Nat /\ k < last /\ last - k <= P
  BY <1>1, <1>2, <1>3 DEF Counts
<1>5. n > 0
  BY <1>3, <1>4
<1>6. PICK p \in Nat, c \in 0 .. P - 1 : n = p + 1 /\ k = p * P + c
  <2>1. PICK p \in Nat : n = p + 1
    <3>1. n - 1 \in Nat /\ n = (n - 1) + 1
      BY <1>5
    <3> QED BY <3>1
  <2>2. PICK x \in Nat : x = p * P
    OBVIOUS
  <2>3. last = x + P
    BY <1>3, <2>1, <2>2
  <2>4. k - x \in 0 .. P - 1 /\ k = x + (k - x)
    BY <1>4, <2>3
  <2> QED BY <2>1, <2>2, <2>4
<1>7. k \div P = p /\ k % P = c
  BY <1>6, DivModUnique
<1>8. PICK entry : entry = Slot(im, i, k)
  OBVIOUS
<1>9. e.dirs = FileBlock(im, i, p)
  <2>1. n - 1 = p
    BY <1>6
  <2> QED BY <1>1, <1>5, <2>1
<1>10. entry = DirentAt(e.dirs, k % DIRENTRIES_PER_SECTOR)
  BY <1>2, <1>7, <1>8, <1>9 DEF Slot
<1>11. r = IF entry.d_inumber = 0
           THEN [ret |-> ERR_UNALLOCATED_INODE, d |-> e, name |-> <<>>, child |-> 0]
           ELSE [ret |-> 1, d |-> [e EXCEPT !.cur = @ + 1],
                 name |-> entry.d_name, child |-> entry.d_inumber]
  BY <1>10, Zenon DEF ReadEntry
<1>12. CASE entry.d_inumber = 0
  <2>1. r.ret = ERR_UNALLOCATED_INODE
    BY <1>11, <1>12
  <2> QED BY <1>8, <1>12, <2>1 DEF EntryAnswered
<1>13. CASE entry.d_inumber # 0
  <2>1. PICK g : g = [e EXCEPT !.cur = @ + 1]
    OBVIOUS
  <2>2. r.ret = 1 /\ r.d = g /\ r.name = entry.d_name /\ r.child = entry.d_inumber
    BY <1>11, <1>13, <2>1
  <2>3. g.cur = k + 1
    BY <1>1, <2>1 DEF Counts
  <2>4. Counts(g, n) /\ g.fv6 = e.fv6 /\ g.dirs = e.dirs
    BY <1>1, <2>2, ReadEntryCounts
  <2>5. Reads(im, g, n)
    BY <1>1, <2>4 DEF Reads, IsDirReader
  <2>6. k < EntryCount(i)
    <3>1. PICK S \in Nat, size \in Nat : S = SECTOR_SIZE /\ size = i.i_size
      BY SectorSize, SoundSize
    <3>2. PICK x \in Nat : x = p * S
      OBVIOUS
    <3>3. e.fv6.offset = x + S
      BY <1>1, <1>6, <3>1, <3>2 DEF Counts
    <3>4. x < size
      BY <3>1, <3>3
    <3> QED BY <1>2, <1>4, <1>7, <1>8, <1>13, <3>1, <3>2, <3>4, UsedIsInside
  <2>7. k + 1 <= EntryCount(i)
    <3>1. EntryCount(i) \in Nat
      BY SoundSize
    <3> QED BY <1>4, <2>6, <3>1
  <2>8. ASSUME NEW j \in 0 .. g.cur - 1 PROVE Slot(im, i, j).d_inumber # 0
    <3>1. j = k \/ j \in 0 .. k - 1
      BY <1>4, <2>3, <2>8
    <3> QED BY <1>8, <1>13, <3>1
  <2>9. Answered(im, g, i)
    BY <2>3, <2>4, <2>5, <2>7, <2>8 DEF Answered, Reader
  <2>10. entry.d_name \in Seq(Int) /\ entry.d_inumber \in Word
    BY <1>1, <1>2, <1>6, <1>7, <1>10, DirentType
  <2> QED BY <1>8, <1>13, <2>2, <2>3, <2>6, <2>9, <2>10 DEF EntryAnswered
<1> QED BY <1>12, <1>13

\* A call of direntv6_readdir on a directory of the disk: its end, or the next entry.
LEMMA NextEntry ==
    ASSUME NEW im, IsImage(im), NEW bad, NEW i, SoundDirectory(im, i),
           NEW reader, Answered(im, reader, i), NEW k, k = reader.cur,
           NEW r, r = direntv6_readdir(Visible(im, bad), reader)
    PROVE  EntryAnswered(im, r, i, k) \/ Failed(im, r, i, bad)
<1>1. PICK m \in Nat : Reads(im, reader, m)
  BY DEF Answered, Reader
<1>2. /\ reader.fv6.i_node = i /\ reader.fv6.offset < i.i_size + SECTOR_SIZE
      /\ reader.cur <= EntryCount(i) /\ \A j \in 0 .. reader.cur - 1 : Slot(im, i, j).d_inumber # 0
  BY DEF Answered
<1>3. PICK P \in Nat \ {0}, S \in Nat \ {0}, size \in Nat, count \in Nat, last \in Nat :
          /\ P = DIRENTRIES_PER_SECTOR /\ S = SECTOR_SIZE /\ size = i.i_size /\ count = EntryCount(i)
          /\ last = reader.last /\ last = m * P
  <2>1. reader.last = m * DIRENTRIES_PER_SECTOR
    BY <1>1 DEF Reads, Counts
  <2>2. EntryCount(i) \in Nat
    BY SoundSize
  <2> QED BY <2>1, <2>2, SoundSize, EntriesPerSector, SectorSize
<1>4. k \in Nat /\ k <= last /\ k <= count /\ ~(k > last \/ k < 0 \/ last < 0)
  BY <1>1, <1>2, <1>3 DEF Reads, Counts
<1>5. PICK block : block = filev6_readblock(Visible(im, bad), reader.fv6)
  OBVIOUS
<1>6. /\ k < last => r = ReadEntry(reader)
      /\ ~(k < last) /\ block.ret < 0 => r.ret = block.ret
      /\ ~(k < last) /\ block.ret = 0 => r.ret = 0
      /\ ~(k < last) /\ ~(block.ret < 0) /\ block.ret # 0 => r = ReadEntry(Loaded(reader, block))
  <2>1. r = IF k < last THEN ReadEntry(reader)
            ELSE IF block.ret < 0 THEN [ret |-> block.ret, d |-> reader, name |-> <<>>, child |-> 0]
            ELSE IF block.ret = 0
                 THEN [ret |-> 0, d |-> [reader EXCEPT !.fv6 = block.fv6, !.cur = 0, !.last = 0],
                       name |-> <<>>, child |-> 0]
            ELSE ReadEntry(Loaded(reader, block))
    BY <1>3, <1>4, <1>5, Zenon DEF direntv6_readdir
  <2>2. block.ret = 0 => ~(block.ret < 0)
    OBVIOUS
  <2> QED BY <2>1, <2>2
<1>7. CASE k < last
  BY <1>1, <1>2, <1>3, <1>6, <1>7, EntryHeld
<1>8. CASE ~(k < last)
  <2>0. k = last
    BY <1>4, <1>8
  <2>1. PICK f : f = reader.fv6 /\ f = [i_number |-> f.i_number, i_node |-> i, offset |-> m * SECTOR_SIZE]
    BY <1>1, <1>2 DEF Reads, Counts
  <2>2. \/ block.ret = 0 /\ ~(m * SECTOR_SIZE < i.i_size)
        \/ /\ block.ret = SECTOR_SIZE /\ m * SECTOR_SIZE < i.i_size
           /\ block.data = FileBlock(im, i, m) /\ block.data \in Sector
           /\ block.fv6 = [i_number |-> block.fv6.i_number, i_node |-> i,
                           offset |-> (m + 1) * SECTOR_SIZE]
        \/ block.ret < 0 /\ block.ret # ERR_UNALLOCATED_INODE /\ (bad = {} => ~IsComplete(im, i))
    BY <1>5, <2>1, NextBlock, SoundSize
  <2>3. CASE block.ret = 0 /\ ~(m * SECTOR_SIZE < i.i_size)
    <3>1. size <= m * S /\ m * S \in Nat
      BY <1>3, <2>3
    <3>2. PICK W \in Nat \ {0} : W = 2 * DIRENT_WORDS /\ S = P * W
      BY <1>3 DEF SoundDirectory, WholeEntries, DIRENT_WORDS
    <3>3. m * S = last * W + 0 /\ 0 \in 0 .. W - 1
      BY <1>3, <3>2
    <3>4. (m * S) \div W = last
      BY <3>3, DivModUnique
    <3>5. size \div W <= (m * S) \div W
      BY <3>1, DivMonotone
    <3>6. count = size \div W
      BY <1>3, <3>2 DEF EntryCount
    <3>7. k = count
      BY <1>4, <2>0, <3>4, <3>5, <3>6
    <3> QED BY <1>3, <1>6, <1>8, <2>3, <3>7 DEF EntryAnswered
  <2>4. CASE /\ block.ret = SECTOR_SIZE /\ m * SECTOR_SIZE < i.i_size
             /\ block.data = FileBlock(im, i, m) /\ block.data \in Sector
             /\ block.fv6 = [i_number |-> block.fv6.i_number, i_node |-> i,
                             offset |-> (m + 1) * SECTOR_SIZE]
    <3>1. PICK e : e = Loaded(reader, block)
      OBVIOUS
    <3>2. r = ReadEntry(e)
      <4>1. ~(block.ret < 0) /\ block.ret # 0
        BY <1>3, <2>4
      <4> QED BY <1>6, <1>8, <3>1, <4>1
    <3>3. /\ e.fv6 = block.fv6 /\ e.dirs = block.data /\ e.cur = k /\ e.last = last + P
          /\ e = [fv6 |-> e.fv6, dirs |-> e.dirs, cur |-> e.cur, last |-> e.last]
      <4>1. reader = [fv6 |-> reader.fv6, dirs |-> reader.dirs, cur |-> k, last |-> last]
        BY <1>1, <1>3 DEF Reads, Counts
      <4>2. e = [fv6 |-> block.fv6, dirs |-> block.data, cur |-> k, last |-> last + P]
        BY <1>3, <3>1, <4>1, ReaderLoaded
      <4> QED BY <4>2
    <3>4. /\ e.fv6 = [i_number |-> e.fv6.i_number, i_node |-> e.fv6.i_node, offset |-> e.fv6.offset]
          /\ e.fv6.i_node = i /\ e.fv6.offset = (m + 1) * SECTOR_SIZE
      BY <2>4, <3>3
    <3>5. /\ last + P = (m + 1) * P /\ k \in 0 .. last + P /\ last + P - k <= P /\ k < last + P
          /\ (m + 1) * S = m * S + S /\ m * S \in Nat /\ m + 1 \in Nat /\ (m + 1) - 1 = m
      BY <1>3, <1>4, <2>0
    <3>6. Counts(e, m + 1)
      BY <1>3, <3>3, <3>4, <3>5 DEF Counts
    <3>7. IsDirReader(e)
      BY <1>1, <1>2, <2>4, <3>3, <3>4 DEF Reads, IsDirReader
    <3>8. Reads(im, e, m + 1)
      BY <2>4, <3>3, <3>5, <3>6, <3>7 DEF Reads
    <3>9. e.fv6.offset < i.i_size + SECTOR_SIZE
      BY <1>3, <2>4, <3>4, <3>5
    <3> QED BY <1>2, <3>2, <3>3, <3>4, <3>5, <3>8, <3>9, EntryHeld
  <2>5. CASE block.ret < 0 /\ block.ret # ERR_UNALLOCATED_INODE /\ (bad = {} => ~IsComplete(im, i))
    BY <1>6, <1>8, <2>5 DEF Failed
  <2> QED BY <2>2, <2>3, <2>4, <2>5
<1> QED BY <1>7, <1>8

LEMMA FirstNumbers == ASSUME NEW n \in Nat PROVE IsFiniteSet(1 .. n) /\ Cardinality(1 .. n) = n
<1>1. IsFiniteSet(1 .. n)
  BY FS_Interval
<1>2. Cardinality(1 .. n) = IF 1 > n THEN 0 ELSE n - 1 + 1
  BY FS_Interval
<1> QED BY <1>1, <1>2

LEMMA PrefixOf ==
    ASSUME NEW n \in Nat, NEW s, s = [k \in 1 .. n |-> s[k]], NEW m \in 0 .. n
    PROVE  SubSeq(s, 1, m) = [k \in 1 .. m |-> s[k]]
<1>1. PICK S : S = {s[k] : k \in 1 .. n}
  OBVIOUS
<1>2. \A k \in 1 .. m : s[k] \in S
  BY <1>1
<1>3. PICK w : w = SubSeq(s, 1, m)
  OBVIOUS
<1>4. /\ w \in Seq(S) /\ Len(w) = (IF 1 <= m THEN m - 1 + 1 ELSE 0)
      /\ \A k \in 1 .. m - 1 + 1 : w[k] = s[1 + k - 1]
  BY <1>2, <1>3, SubSeqProperties
<1>5. Len(w) = m /\ \A k \in 1 .. m : w[k] = s[k]
  <2>1. m - 1 + 1 = m /\ (IF 1 <= m THEN m - 1 + 1 ELSE 0) = m
    OBVIOUS
  <2>2. ASSUME NEW k \in 1 .. m PROVE w[k] = s[k]
    <3>1. 1 + k - 1 = k
      OBVIOUS
    <3> QED BY <1>4, <2>1, <3>1
  <2> QED BY <1>4, <2>1, <2>2
<1>6. w = [k \in 1 .. m |-> w[k]]
  BY <1>4, <1>5, LenProperties
<1> QED BY <1>3, <1>5, <1>6

\* The slots that the size of a directory counts, and those before the first free one.
Slots(im, i) == [k \in 1 .. EntryCount(i) |-> Slot(im, i, k - 1)]
Used(im, i)  == {k \in 1 .. EntryCount(i) : \A j \in 1 .. k : Slots(im, i)[j].d_inumber # 0}

LEMMA EntriesAreSlots ==
    ASSUME NEW im, NEW i
    PROVE  EntriesOf(im, i) = SubSeq(Slots(im, i), 1, Cardinality(Used(im, i)))
<1>1. DOMAIN Slots(im, i) = 1 .. EntryCount(i)
  BY DEF Slots
<1>2. EntriesOf(im, i)
        = SubSeq(Slots(im, i), 1, Cardinality({k \in DOMAIN Slots(im, i) :
                                                \A j \in 1 .. k : Slots(im, i)[j].d_inumber # 0}))
  BY Zenon DEF EntriesOf, Slots
<1> QED BY <1>1, <1>2, Zenon DEF Used

\* The entries end where the first slot is free, or with the size.
LEMMA EntriesEnd ==
    ASSUME NEW im, NEW i, i.i_size \in Nat, NEW m \in Nat, m <= EntryCount(i),
           \A j \in 0 .. m - 1 : Slot(im, i, j).d_inumber # 0,
           m = EntryCount(i) \/ Slot(im, i, m).d_inumber = 0
    PROVE  EntriesOf(im, i) = [k \in 1 .. m |-> Slot(im, i, k - 1)]
<1>1. PICK n \in Nat : n = EntryCount(i)
  BY EntryCountIsNat
<1>2. PICK s : s = Slots(im, i)
  OBVIOUS
<1>3. s = [k \in 1 .. n |-> s[k]] /\ \A k \in 1 .. n : s[k] = Slot(im, i, k - 1)
  BY <1>1, <1>2 DEF Slots
<1>4. \A k \in 1 .. m : s[k].d_inumber # 0
  <2>1. ASSUME NEW k \in 1 .. m PROVE s[k].d_inumber # 0
    <3>1. k \in 1 .. n /\ k - 1 \in 0 .. m - 1
      BY <1>1
    <3> QED BY <1>3, <3>1
  <2> QED BY <2>1
<1>5. m = n \/ s[m + 1].d_inumber = 0
  <2>1. m # n => m + 1 \in 1 .. n /\ (m + 1) - 1 = m
    BY <1>1
  <2> QED BY <1>1, <1>3, <2>1
<1>6. Used(im, i) = 1 .. m
  <2>1. ASSUME NEW k \in 1 .. m PROVE k \in Used(im, i)
    <3>1. k \in 1 .. n /\ \A j \in 1 .. k : j \in 1 .. m
      BY <1>1
    <3> QED BY <1>1, <1>2, <1>4, <3>1 DEF Used
  <2>2. ASSUME NEW k \in 1 .. n, \A j \in 1 .. k : s[j].d_inumber # 0 PROVE k \in 1 .. m
    <3> SUFFICES ASSUME k > m PROVE FALSE
      OBVIOUS
    <3>1. m # n /\ m + 1 \in 1 .. k
      OBVIOUS
    <3> QED BY <1>5, <2>2, <3>1
  <2> QED BY <1>1, <1>2, <2>1, <2>2 DEF Used
<1>7. Cardinality(1 .. m) = m
  BY FirstNumbers
<1>8. EntriesOf(im, i) = SubSeq(s, 1, m)
  BY <1>2, <1>6, <1>7, EntriesAreSlots
<1>9. SubSeq(s, 1, m) = [k \in 1 .. m |-> s[k]]
  BY <1>1, <1>3, PrefixOf
<1>10. \A k \in 1 .. m : s[k] = Slot(im, i, k - 1)
  BY <1>1, <1>3
<1> QED BY <1>8, <1>9, <1>10

\* An entry with no free one before it is among the entries.
LEMMA EntryIsListed ==
    ASSUME NEW im, NEW i, i.i_size \in Nat, NEW k \in Nat, k < EntryCount(i),
           \A j \in 0 .. k : Slot(im, i, j).d_inumber # 0
    PROVE  k + 1 \in DOMAIN EntriesOf(im, i) /\ EntriesOf(im, i)[k + 1] = Slot(im, i, k)
<1>1. PICK n \in Nat : n = EntryCount(i) /\ k + 1 \in 1 .. n
  BY EntryCountIsNat
<1>2. PICK s : s = Slots(im, i)
  OBVIOUS
<1>3. s = [j \in 1 .. n |-> s[j]] /\ \A j \in 1 .. n : s[j] = Slot(im, i, j - 1)
  BY <1>1, <1>2 DEF Slots
<1>4. Used(im, i) \in SUBSET (1 .. n) /\ (1 .. k + 1) \in SUBSET Used(im, i)
  <2>1. ASSUME NEW u \in 1 .. k + 1 PROVE u \in Used(im, i)
    <3>1. ASSUME NEW j \in 1 .. u PROVE s[j].d_inumber # 0
      <4>1. j \in 1 .. n /\ j - 1 \in 0 .. k
        BY <1>1
      <4> QED BY <1>3, <4>1
    <3>2. u \in 1 .. n
      BY <1>1
    <3> QED BY <1>1, <1>2, <3>1, <3>2 DEF Used
  <2> QED BY <1>1, <2>1 DEF Used
<1>5. PICK c \in Nat : c = Cardinality(Used(im, i)) /\ k + 1 <= c /\ c <= n
  <2>0. IsFiniteSet(1 .. n) /\ Cardinality(1 .. n) = n
    BY FirstNumbers
  <2>1. PICK v \in Nat : v = k + 1 /\ Cardinality(1 .. v) = v
    BY FirstNumbers
  <2>2. IsFiniteSet(Used(im, i)) /\ Cardinality(Used(im, i)) <= Cardinality(1 .. n)
    BY <1>4, <2>0, FS_Subset
  <2>3. Cardinality(1 .. k + 1) <= Cardinality(Used(im, i)) /\ Cardinality(Used(im, i)) \in Nat
    BY <1>4, <2>2, FS_Subset, FS_CardinalityType
  <2>4. Cardinality(1 .. n) = n /\ Cardinality(1 .. k + 1) = k + 1
    BY <1>1, <2>0, <2>1
  <2> QED BY <2>2, <2>3, <2>4
<1>6. EntriesOf(im, i) = [j \in 1 .. c |-> s[j]]
  BY <1>2, <1>3, <1>5, EntriesAreSlots, PrefixOf
<1>7. k + 1 \in 1 .. c /\ s[k + 1] = Slot(im, i, k)
  <2>1. (k + 1) - 1 = k /\ k + 1 \in 1 .. c
    BY <1>5
  <2> QED BY <1>1, <1>3, <2>1
<1> QED BY <1>6, <1>7

\* The directory has m entries when m are answered and then none.
LEMMA ListedAll ==
    ASSUME NEW im, NEW i, SoundDirectory(im, i),
           NEW reader, Answered(im, reader, i), NEW m, m = reader.cur,
           m = EntryCount(i) \/ Slot(im, i, m).d_inumber = 0
    PROVE  m \in Nat /\ EntriesOf(im, i) = [k \in 1 .. m |-> Slot(im, i, k - 1)]
<1>1. m \in Nat
  <2>1. reader.cur \in 0 .. reader.last /\ \E n \in Nat : reader.last = n * DIRENTRIES_PER_SECTOR
    BY DEF Answered, Reader, Reads, Counts
  <2> QED BY <2>1, EntriesPerSector
<1>2. m <= EntryCount(i) /\ \A j \in 0 .. m - 1 : Slot(im, i, j).d_inumber # 0
  BY DEF Answered
<1> QED BY <1>1, <1>2, SoundSize, EntriesEnd

-----------------------------------------------------------------------------
(* Paths.                                                                  *)

\* Where a name starts, and where the j-th one does; behind the last one, the end of the path.
NameBegins(path) == {p \in 0 .. Len(path) - 1 :
                    /\ CharAt(path, p) # SLASH
                    /\ p = 0 \/ CharAt(path, p - 1) = SLASH}
StartAt(path, j) == IF j <= Len(NamesOf(path)) THEN NameStarts(path)[j] ELSE Len(path)

LEMMA PathFacts ==
    ASSUME NEW path \in Seq(1 .. 255)
    PROVE  /\ Len(path) \in Nat
           /\ \A p \in 0 .. Len(path) - 1 : CharAt(path, p) = path[p + 1] /\ CharAt(path, p) \in 1 .. 255
           /\ CharAt(path, Len(path)) = 0
<1>1. PICK L \in Nat : L = Len(path)
  OBVIOUS
<1>2. ASSUME NEW p \in 0 .. L - 1 PROVE CharAt(path, p) = path[p + 1] /\ CharAt(path, p) \in 1 .. 255
  <2>1. p + 1 \in 1 .. Len(path) /\ p < Len(path)
    BY <1>1
  <2>2. path[p + 1] \in 1 .. 255
    BY <2>1, ElementOfSeq
  <2> QED BY <2>1, <2>2 DEF CharAt
<1>3. CharAt(path, L) = 0
  BY <1>1 DEF CharAt
<1> QED BY <1>1, <1>2, <1>3

LEMMA NameBeginsFacts ==
    ASSUME NEW path \in Seq(1 .. 255), NEW n, n = Len(NamesOf(path)), NEW a, a = NameStarts(path)
    PROVE  /\ n \in Nat /\ a \in [1 .. n -> NameBegins(path)]
           /\ \A j, k \in 1 .. n : j < k => a[j] < a[k]
           /\ \A x \in NameBegins(path) : \E k \in 1 .. n : a[k] = x
           /\ NamesOf(path) = [k \in 1 .. n |-> SubSeq(path, a[k] + 1, NameEnd(path, a[k]))]
<1>1. PICK S : S = NameBegins(path)
  OBVIOUS
<1>2. PICK L \in Nat : L = Len(path)
  BY PathFacts
<1>3. S \in SUBSET (0 .. L - 1) /\ S \in SUBSET Int
  BY <1>1, <1>2 DEF NameBegins
<1>4. IsFiniteSet(S)
  <2>1. IsFiniteSet(0 .. L - 1)
    BY FS_Interval
  <2> QED BY <1>3, <2>1, FS_Subset
<1>5. a = Ascending(S)
  BY <1>1, Zenon DEF NameStarts, NameBegins
<1>6. PICK m \in Nat : m = Cardinality(S)
  BY <1>4, FS_CardinalityType
<1>7. /\ a \in [1 .. m -> S]
      /\ \A j, k \in 1 .. m : j < k => a[j] < a[k]
      /\ \A x \in S : \E k \in 1 .. m : a[k] = x
  BY <1>3, <1>4, <1>5, <1>6, AscendingFacts
<1>8. NamesOf(path) = [k \in 1 .. m |-> SubSeq(path, a[k] + 1, NameEnd(path, a[k]))]
  <2>1. DOMAIN a = 1 .. m
    BY <1>7
  <2> QED BY <2>1, Zenon DEF NamesOf
<1>9. Len(NamesOf(path)) = m
  <2> DEFINE e(k) == SubSeq(path, a[k] + 1, NameEnd(path, a[k]))
  <2>1. NamesOf(path) = [k \in 1 .. m |-> e(k)]
    BY <1>8
  <2> HIDE DEF e
  <2> QED BY <2>1
<1> QED BY <1>1, <1>6, <1>7, <1>8, <1>9

\* The scan for a '/' from p, and the scan behind it.
LEMMA EndFacts ==
    ASSUME NEW path \in Seq(1 .. 255), NEW p \in 0 .. Len(path), NEW e, e = NameEnd(path, p)
    PROVE  /\ e \in p .. Len(path) /\ (e = Len(path) \/ CharAt(path, e) = SLASH)
           /\ \A x \in p .. e - 1 : CharAt(path, x) # SLASH
<1>1. PICK L \in Nat : L = Len(path)
  BY PathFacts
<1>2. PICK S : S = {x \in p .. L : x = L \/ CharAt(path, x) = SLASH}
  OBVIOUS
<1>3. S \in SUBSET Nat /\ L \in S
  BY <1>1, <1>2
<1>4. Min(S) \in S /\ \A y \in S : Min(S) <= y
  BY <1>3, MinOfNaturals
<1>5. e = Min(S)
  BY <1>1, <1>2 DEF NameEnd
<1>6. \A x \in p .. e - 1 : CharAt(path, x) # SLASH
  <2> SUFFICES ASSUME NEW x \in p .. e - 1, CharAt(path, x) = SLASH PROVE FALSE
    OBVIOUS
  <2>1. e \in p .. L
    BY <1>2, <1>4, <1>5
  <2>2. x \in S /\ x < e
    BY <1>1, <1>2, <2>1
  <2> QED BY <1>1, <1>4, <1>5, <2>1, <2>2
<1> QED BY <1>1, <1>2, <1>4, <1>5, <1>6

LEMMA NextFacts ==
    ASSUME NEW path \in Seq(1 .. 255), NEW p \in 0 .. Len(path), NEW e, e = NameEnd(path, p),
           NEW q, q = pos_next_entry_name(path, p)
    PROVE  /\ q \in e .. Len(path) /\ (q = Len(path) \/ CharAt(path, q) # SLASH)
           /\ \A x \in e .. q - 1 : CharAt(path, x) = SLASH
<1>1. PICK L \in Nat : L = Len(path) /\ e \in 0 .. L
  BY PathFacts, EndFacts
<1>2. PICK S : S = {x \in e .. L : x = L \/ CharAt(path, x) # SLASH}
  OBVIOUS
<1>3. S \in SUBSET Nat /\ L \in S
  BY <1>1, <1>2
<1>4. Min(S) \in S /\ \A y \in S : Min(S) <= y
  BY <1>3, MinOfNaturals
<1>5. q = Min(S)
  BY <1>1, <1>2, Zenon DEF NameEnd, pos_next_entry_name
<1>6. \A x \in e .. q - 1 : CharAt(path, x) = SLASH
  <2> SUFFICES ASSUME NEW x \in e .. q - 1, CharAt(path, x) # SLASH PROVE FALSE
    OBVIOUS
  <2>1. q \in e .. L
    BY <1>2, <1>4, <1>5
  <2>2. x \in S /\ x < q
    BY <1>1, <1>2, <2>1
  <2> QED BY <1>1, <1>4, <1>5, <2>1, <2>2
<1> QED BY <1>1, <1>2, <1>4, <1>5, <1>6

\* Between the end of a name and the next one no name starts.
LEMMA NoStartBetween ==
    ASSUME NEW path \in Seq(1 .. 255), NEW p \in NameBegins(path),
           NEW q, q = pos_next_entry_name(path, p)
    PROVE  /\ q \in p + 1 .. Len(path) /\ (q < Len(path) => q \in NameBegins(path))
           /\ \A x \in NameBegins(path) : x > p => x >= q
<1>1. PICK L \in Nat : L = Len(path)
  BY PathFacts
<1>2. p \in 0 .. L - 1 /\ CharAt(path, p) # SLASH
  BY <1>1 DEF NameBegins
<1>3. PICK e : e = NameEnd(path, p)
  OBVIOUS
<1>4. /\ e \in p .. L /\ (e = L \/ CharAt(path, e) = SLASH)
      /\ \A x \in p .. e - 1 : CharAt(path, x) # SLASH
  BY <1>1, <1>2, <1>3, EndFacts
<1>5. /\ q \in e .. L /\ (q = L \/ CharAt(path, q) # SLASH)
      /\ \A x \in e .. q - 1 : CharAt(path, x) = SLASH
  BY <1>1, <1>2, <1>3, NextFacts
<1>6. e \in p + 1 .. L
  <2>1. e # p
    BY <1>1, <1>2, <1>4
  <2> QED BY <1>1, <1>2, <1>4, <2>1
<1>7. q < L => q \in NameBegins(path)
  <2> SUFFICES ASSUME q < L PROVE q \in NameBegins(path)
    OBVIOUS
  <2>1. CharAt(path, q) # SLASH
    BY <1>5
  <2>2. q # e
    BY <1>4, <2>1
  <2>3. q - 1 \in e .. q - 1
    BY <1>1, <1>5, <1>6, <2>2
  <2> QED BY <1>1, <1>5, <1>6, <2>1, <2>3 DEF NameBegins
<1>8. ASSUME NEW x \in NameBegins(path), x > p PROVE x >= q
  <2>1. x \in 0 .. L - 1 /\ CharAt(path, x) # SLASH /\ (x = 0 \/ CharAt(path, x - 1) = SLASH)
    BY <1>1 DEF NameBegins
  <2>2. CharAt(path, x - 1) = SLASH
    BY <1>2, <1>8, <2>1
  <2>3. ~(x - 1 \in p .. e - 1)
    BY <1>4, <2>2
  <2>4. ~(x \in e .. q - 1)
    BY <1>5, <2>1
  <2> QED BY <1>1, <1>2, <1>5, <1>6, <1>8, <2>1, <2>3, <2>4
<1>9. q \in p + 1 .. L
  BY <1>1, <1>2, <1>5, <1>6
<1> QED BY <1>1, <1>7, <1>8, <1>9

\* pos_next_entry_name goes from one name to the next one.
LEMMA NextStart ==
    ASSUME NEW path \in Seq(1 .. 255), NEW k \in 1 .. Len(NamesOf(path))
    PROVE  /\ StartAt(path, k) \in NameBegins(path)
           /\ pos_next_entry_name(path, StartAt(path, k)) = StartAt(path, k + 1)
<1>0. PICK a : a = NameStarts(path)
  OBVIOUS
<1>1. PICK n \in Nat : a = NameStarts(path) /\ n = Len(NamesOf(path))
  BY <1>0, NameBeginsFacts
<1>2. /\ a \in [1 .. n -> NameBegins(path)]
      /\ \A i, j \in 1 .. n : i < j => a[i] < a[j]
      /\ \A x \in NameBegins(path) : \E j \in 1 .. n : a[j] = x
  BY <1>1, NameBeginsFacts
<1>3. PICK L \in Nat : L = Len(path)
  BY PathFacts
<1>4. StartAt(path, k) = a[k] /\ a[k] \in NameBegins(path)
  BY <1>1, <1>2 DEF StartAt
<1>5. PICK q : q = pos_next_entry_name(path, a[k])
  OBVIOUS
<1>6. /\ q \in a[k] + 1 .. L /\ (q < L => q \in NameBegins(path))
      /\ \A x \in NameBegins(path) : x > a[k] => x >= q
  BY <1>3, <1>4, <1>5, NoStartBetween
<1>7. \A x \in NameBegins(path) : x \in 0 .. L - 1
  BY <1>3 DEF NameBegins
<1>8. CASE k < n
  <2>1. k + 1 \in 1 .. n
    BY <1>1, <1>8
  <2>2. a[k + 1] \in NameBegins(path) /\ a[k + 1] > a[k]
    BY <1>2, <2>1
  <2>3. a[k + 1] >= q /\ a[k + 1] \in 0 .. L - 1
    BY <1>6, <1>7, <2>2
  <2>4. PICK j \in 1 .. n : a[j] = q
    <3>1. q < L
      BY <1>4, <1>6, <1>7, <2>3
    <3> QED BY <1>2, <1>6, <3>1
  <2>5. ~(j <= k)
    <3> SUFFICES ASSUME j <= k PROVE FALSE
      OBVIOUS
    <3>1. a[j] <= a[k]
      <4>1. j = k \/ j < k
        BY <1>1
      <4> QED BY <1>1, <1>2, <1>4, <1>7, <4>1
    <3> QED BY <1>4, <1>6, <1>7, <2>4, <3>1
  <2>6. ~(k + 1 < j)
    <3> SUFFICES ASSUME k + 1 < j PROVE FALSE
      OBVIOUS
    <3>1. a[k + 1] < a[j]
      BY <1>2, <2>1
    <3> QED BY <1>4, <1>6, <1>7, <2>3, <2>4, <3>1
  <2>7. j = k + 1
    BY <1>1, <2>5, <2>6
  <2>8. StartAt(path, k + 1) = a[k + 1]
    BY <1>1, <2>1 DEF StartAt
  <2> QED BY <1>4, <1>5, <2>4, <2>7, <2>8
<1>9. CASE k = n
  <2>1. ~(q < L)
    <3> SUFFICES ASSUME q < L PROVE FALSE
      OBVIOUS
    <3>1. PICK j \in 1 .. n : a[j] = q
      BY <1>2, <1>6
    <3>2. j = k \/ j < k
      BY <1>1, <1>9
    <3>3. a[j] <= a[k]
      <4>1. CASE j = k
        BY <1>4, <1>7, <4>1
      <4>2. CASE j < k
        BY <1>1, <1>2, <1>4, <1>7, <4>2
      <4> QED BY <3>2, <4>1, <4>2, Zenon
    <3>4. q <= a[k] /\ q \in a[k] + 1 .. L /\ a[k] \in 0 .. L - 1
      BY <1>4, <1>6, <1>7, <3>1, <3>3, Zenon
    <3> QED BY ONLY <1>3, <3>4
  <2>2. q = L
    BY <1>4, <1>6, <1>7, <2>1
  <2>3. StartAt(path, k + 1) = L
    BY <1>1, <1>3, <1>9 DEF StartAt
  <2> QED BY <1>4, <1>5, <2>2, <2>3
<1> QED BY <1>1, <1>4, <1>8, <1>9

\* A lookup begins with the first name.
LEMMA FirstNameBegins ==
    ASSUME NEW path \in Seq(1 .. 255)
    PROVE  /\ CharAt(path, 0) = SLASH => /\ pos_next_entry_name(path, 0) = StartAt(path, 1)
                                         /\ StartAt(path, 1) > 0
           /\ CharAt(path, 0) # SLASH => StartAt(path, 1) = 0
<1>0. PICK a : a = NameStarts(path)
  OBVIOUS
<1>1. PICK n \in Nat : a = NameStarts(path) /\ n = Len(NamesOf(path))
  BY <1>0, NameBeginsFacts
<1>2. /\ a \in [1 .. n -> NameBegins(path)]
      /\ \A i, j \in 1 .. n : i < j => a[i] < a[j]
      /\ \A x \in NameBegins(path) : \E j \in 1 .. n : a[j] = x
  BY <1>1, NameBeginsFacts
<1>3. PICK L \in Nat : L = Len(path)
  BY PathFacts
<1>4. \A x \in NameBegins(path) : x \in 0 .. L - 1 /\ CharAt(path, x) # SLASH
  BY <1>3 DEF NameBegins
\* The least start is the first one.
<1>5. ASSUME NEW q \in 0 .. L, q < L => q \in NameBegins(path), \A x \in NameBegins(path) : x >= q
      PROVE  StartAt(path, 1) = q
  <2>1. CASE n = 0
    <3>1. ~(q < L)
      BY <1>2, <1>5, <2>1
    <3> QED BY <1>1, <1>3, <2>1, <3>1 DEF StartAt
  <2>2. CASE n # 0
    <3>1. 1 \in 1 .. n
      BY <2>2
    <3>2. a[1] \in NameBegins(path) /\ a[1] >= q /\ a[1] \in 0 .. L - 1
      BY <1>2, <1>4, <1>5, <3>1
    <3>3. PICK j \in 1 .. n : a[j] = q
      <4>1. q < L
        BY <1>5, <3>2
      <4> QED BY <1>2, <1>5, <4>1
    <3>4. ~(1 < j)
      <4> SUFFICES ASSUME 1 < j PROVE FALSE
        OBVIOUS
      <4>1. a[1] < a[j]
        BY <1>2, <3>1
      <4> QED BY <1>5, <3>2, <3>3, <4>1
    <3>5. j = 1
      BY <3>4
    <3>6. StartAt(path, 1) = a[1]
      BY <1>1, <3>1 DEF StartAt
    <3> QED BY <3>3, <3>5, <3>6
  <2> QED BY <2>1, <2>2
<1>6. CASE CharAt(path, 0) = SLASH
  <2>1. L > 0
    <3>1. L # 0
      BY <1>3, <1>6, PathFacts DEF SLASH
    <3> QED BY <3>1
  <2>2. PICK e : e = NameEnd(path, 0)
    OBVIOUS
  <2>3. e = 0
    <3>1. e \in 0 .. L /\ \A x \in 0 .. e - 1 : CharAt(path, x) # SLASH
      BY <1>3, <2>2, EndFacts
    <3>2. ~(0 \in 0 .. e - 1)
      BY <1>6, <3>1
    <3> QED BY <3>1, <3>2
  <2>4. PICK q : q = pos_next_entry_name(path, 0)
    OBVIOUS
  <2>5. /\ q \in 0 .. L /\ (q = L \/ CharAt(path, q) # SLASH)
        /\ \A x \in 0 .. q - 1 : CharAt(path, x) = SLASH
    BY <1>3, <2>2, <2>3, <2>4, NextFacts
  <2>6. q > 0
    BY <1>6, <2>1, <2>5
  <2>7. q < L => q \in NameBegins(path)
    <3>1. q - 1 \in 0 .. q - 1
      BY <2>5, <2>6
    <3> QED BY <1>3, <2>5, <3>1 DEF NameBegins
  <2>8. ASSUME NEW x \in NameBegins(path) PROVE x >= q
    <3>1. ~(x \in 0 .. q - 1)
      BY <1>4, <2>5, <2>8
    <3> QED BY <1>4, <2>5, <2>8, <3>1
  <2> QED BY <1>5, <1>6, <2>4, <2>5, <2>6, <2>7, <2>8
<1>7. CASE CharAt(path, 0) # SLASH
  <2>1. 0 < L => 0 \in NameBegins(path)
    BY <1>3, <1>7 DEF NameBegins
  <2>2. \A x \in NameBegins(path) : x >= 0
    BY <1>4
  <2> QED BY <1>3, <1>5, <1>7, <2>1, <2>2
<1> QED BY <1>6, <1>7

\* A name of the path is what lies between its start and its end.
LEMMA NameAt ==
    ASSUME NEW path \in Seq(1 .. 255), NEW k \in 1 .. Len(NamesOf(path)),
           NEW s, s = StartAt(path, k), NEW e, e = NameEnd(path, s)
    PROVE  /\ s \in 0 .. Len(path) - 1 /\ e \in s + 1 .. Len(path)
           /\ NamesOf(path)[k] = SubSeq(path, s + 1, e)
           /\ NamesOf(path)[k] \in Seq(Int) /\ Len(NamesOf(path)[k]) = e - s
           /\ \A i \in 1 .. e - s : NamesOf(path)[k][i] = CharAt(path, s + i - 1)
<1>0. PICK a : a = NameStarts(path)
  OBVIOUS
<1>1. PICK n \in Nat : a = NameStarts(path) /\ n = Len(NamesOf(path))
  BY <1>0, NameBeginsFacts
<1>2. PICK L \in Nat : L = Len(path)
  BY PathFacts
<1>3. s = a[k] /\ s \in NameBegins(path)
  BY <1>1, NextStart DEF StartAt
<1>4. s \in 0 .. L - 1 /\ CharAt(path, s) # SLASH
  BY <1>2, <1>3 DEF NameBegins
<1>5. e \in s .. L /\ (e = L \/ CharAt(path, e) = SLASH)
  BY <1>2, <1>4, EndFacts
<1>6. e \in s + 1 .. L
  <2>1. e # s
    BY <1>2, <1>4, <1>5
  <2> QED BY <1>2, <1>4, <1>5, <2>1
<1>7. PICK w : w = NamesOf(path)[k]
  OBVIOUS
<1>8. w = SubSeq(path, s + 1, e)
  <2>1. NamesOf(path) = [j \in 1 .. n |-> SubSeq(path, a[j] + 1, NameEnd(path, a[j]))]
    BY <1>1, NameBeginsFacts
  <2> QED BY <1>1, <1>3, <1>7, <2>1
<1>9. \A i \in s + 1 .. e : path[i] \in Int
  <2>1. ASSUME NEW i \in s + 1 .. e PROVE path[i] \in Int
    <3>1. i \in 1 .. Len(path)
      BY <1>2, <1>4, <1>6
    <3>2. path[i] \in 1 .. 255
      BY <3>1, ElementOfSeq
    <3>3. \A v \in 1 .. 255 : v \in Int
      OBVIOUS
    <3> QED BY <3>2, <3>3, Zenon
  <2> QED BY <2>1
<1>10. /\ w \in Seq(Int) /\ Len(w) = (IF s + 1 <= e THEN e - (s + 1) + 1 ELSE 0)
       /\ \A i \in 1 .. e - (s + 1) + 1 : w[i] = path[(s + 1) + i - 1]
  <2>1. s + 1 \in Int /\ e \in Int
    BY <1>2, <1>4, <1>6
  <2> QED BY <1>8, <1>9, <2>1, SubSeqProperties
<1>11. e - (s + 1) + 1 = e - s /\ s + 1 <= e
  BY <1>2, <1>4, <1>6
<1>12. ASSUME NEW i \in 1 .. e - s PROVE w[i] = CharAt(path, s + i - 1)
  <2>1. (s + 1) + i - 1 = (s + i - 1) + 1 /\ s + i - 1 \in 0 .. L - 1
    BY <1>2, <1>4, <1>6
  <2>2. CharAt(path, s + i - 1) = path[(s + i - 1) + 1]
    BY <1>2, <2>1, PathFacts
  <2> QED BY <1>10, <1>11, <2>1, <2>2
<1> QED BY <1>2, <1>4, <1>6, <1>7, <1>8, <1>10, <1>11, <1>12

\* A name that ends the path is its last one; behind the last name there is a '/' or nothing.
LEMMA LastName ==
    ASSUME NEW path \in Seq(1 .. 255), NEW k \in 1 .. Len(NamesOf(path)),
           NEW e, e = NameEnd(path, StartAt(path, k))
    PROVE  /\ e = Len(path) => k = Len(NamesOf(path)) /\ CharAt(path, Len(path) - 1) # SLASH
           /\ e < Len(path) /\ k = Len(NamesOf(path)) => CharAt(path, Len(path) - 1) = SLASH
<1>1. PICK n \in Nat : n = Len(NamesOf(path))
  BY NameBeginsFacts
<1>2. PICK L \in Nat : L = Len(path)
  BY PathFacts
<1>3. PICK s : s = StartAt(path, k)
  OBVIOUS
<1>4. s \in NameBegins(path) /\ s \in 0 .. L - 1 /\ e \in s + 1 .. L
  BY <1>2, <1>3, NextStart, NameAt
<1>5. PICK q : q = pos_next_entry_name(path, s) /\ q = StartAt(path, k + 1)
  BY <1>3, NextStart
<1>6. /\ q \in e .. L /\ \A x \in e .. q - 1 : CharAt(path, x) = SLASH
      /\ \A x \in s .. e - 1 : CharAt(path, x) # SLASH
  <2>1. s \in 0 .. Len(path)
    BY <1>2, <1>4
  <2>2. \A x \in s .. e - 1 : CharAt(path, x) # SLASH
    BY <1>3, <2>1, EndFacts
  <2>3. e = NameEnd(path, s) /\ q = pos_next_entry_name(path, s)
    BY <1>3, <1>5
  <2>4. /\ q \in e .. Len(path)
        /\ \A x \in e .. q - 1 : CharAt(path, x) = SLASH
    BY ONLY path \in Seq(1 .. 255), <2>1, <2>3, NextFacts
  <2> QED BY <1>2, <2>2, <2>4
<1>7. k < n => q < L
  <2> SUFFICES ASSUME k < n PROVE q < L
    OBVIOUS
  <2>1. k + 1 \in 1 .. Len(NamesOf(path))
    BY <1>1
  <2>2. q \in 0 .. L - 1
    BY <1>2, <1>5, <2>1, NameAt
  <2> QED BY <2>2
<1>8. k = n => q = L
  <2>1. k = n => ~(k + 1 <= n)
    BY <1>1
  <2> QED BY <1>1, <1>2, <1>5, <2>1 DEF StartAt
<1>9. CASE e = L
  <2>1. L - 1 \in s .. e - 1
    BY <1>2, <1>4, <1>9
  <2>2. k = n
    BY <1>1, <1>2, <1>4, <1>6, <1>7, <1>9
  <2> QED BY <1>1, <1>2, <1>6, <1>9, <2>1, <2>2
<1>10. CASE e < L
  <2>1. k = n => L - 1 \in e .. q - 1
    BY <1>2, <1>4, <1>8, <1>10
  <2> QED BY <1>1, <1>2, <1>6, <1>10, <2>1
<1> QED BY <1>2, <1>4, <1>9, <1>10

\* In a path whose length is a char, strlen counts from the position.
LEMMA TailOfShort ==
    ASSUME NEW path \in Seq(1 .. 255), Len(path) < CHAR_RANGE, NEW s \in 0 .. Len(path),
           NEW tail \in TailLengths(path, s)
    PROVE  tail = Len(path) - s
<1>1. PICK L \in Nat, C \in Nat \ {0} : L = Len(path) /\ C = CHAR_RANGE /\ L < C
  BY PathFacts, CharAssumption
<1>2. PICK W \in Nat \ {0} : W = 2 * C
  BY <1>1
<1>3. (0 * W + (s + C)) % W = s + C
  <2>1. s + C \in 0 .. W - 1 /\ 0 \in Nat
    BY <1>1, <1>2
  <2> QED BY <2>1, DivModUnique
<1>4. 0 * W + (s + C) = s + C
  BY <1>1, <1>2
<1>5. ((s + CHAR_RANGE) % (2 * CHAR_RANGE)) - CHAR_RANGE = s
  BY <1>1, <1>2, <1>3, <1>4
<1>6. tail \in {L - s} \cup 0 .. -s - 1
  BY <1>1, <1>5, Zenon DEF TailLengths
<1>7. 0 .. -s - 1 = {}
  BY <1>1
<1> QED BY <1>1, <1>6, <1>7

\* What entry_name_cmpr answers, in characters.
SameFrom(path, s, name) == \A i \in 1 .. Len(name) : CharAt(path, s + i - 1) = name[i]

LEMMA ComparedCharacters ==
    ASSUME NEW path \in Seq(1 .. 255), NEW s \in 0 .. Len(path), NEW name \in Seq(Int),
           NEW tail, tail = Len(path) - s,
           NEW c, c = entry_name_cmpr(name, path, s, tail)
    PROVE  /\ c = 1 \/ c = 0 \/ c = -1
           /\ c = 1 <=> Len(name) = tail /\ SameFrom(path, s, name)
           /\ c = 0 <=> /\ Len(name) < tail /\ SameFrom(path, s, name)
                       /\ CharAt(path, s + Len(name)) = SLASH
<1>1. PICK L \in Nat, m \in Nat : L = Len(path) /\ m = Len(name)
  BY PathFacts, LenProperties
<1>2. DOMAIN name = 1 .. m
  BY <1>1, LenProperties
<1>3. PICK compared : compared = {i \in DOMAIN name : s + i <= Len(path)}
  OBVIOUS
<1>4. PICK differ : differ = (\E i \in compared : path[s + i] # name[i])
  OBVIOUS
<1>5. c = IF m > tail \/ differ THEN -1
          ELSE IF tail = m THEN 1
          ELSE IF CharAt(path, s + Cardinality(compared)) = SLASH THEN 0 ELSE -1
  BY <1>1, <1>3, <1>4, Zenon DEF entry_name_cmpr
<1>6. CASE m > tail
  <2>1. c = -1 /\ ~(m = tail) /\ ~(m < tail)
    BY <1>1, <1>5, <1>6
  <2> QED BY <1>1, <2>1
<1>7. CASE ~(m > tail)
  <2>1. compared = 1 .. m
    BY <1>1, <1>2, <1>3, <1>7
  <2>2. Cardinality(compared) = m
    BY <2>1, FirstNumbers
  <2>3. ASSUME NEW i \in 1 .. m PROVE path[s + i] = CharAt(path, s + i - 1)
    <3>1. s + i - 1 \in 0 .. L - 1 /\ (s + i - 1) + 1 = s + i
      BY <1>1, <1>7
    <3> QED BY <1>1, <3>1, PathFacts
  <2>4. differ <=> ~SameFrom(path, s, name)
    BY <1>1, <1>4, <2>1, <2>3, Zenon DEF SameFrom
  <2>5. c = IF ~SameFrom(path, s, name) THEN -1
            ELSE IF tail = m THEN 1
            ELSE IF CharAt(path, s + m) = SLASH THEN 0 ELSE -1
    BY <1>5, <1>7, <2>2, <2>4, Zenon
  <2>6. m = tail \/ m < tail
    BY <1>1, <1>7
  <2>7. ~(m = tail /\ m < tail) /\ 1 # 0 /\ 1 # -1 /\ 0 # -1
    BY <1>1
  <2> QED BY <1>1, <2>5, <2>6, <2>7, Zenon
<1> QED BY <1>6, <1>7

\* The name of a directory entry is compared with one name of the path: 1 at the end of the
\* path, 0 in front of a '/'.
LEMMA ComparedNames ==
    ASSUME NEW path \in Seq(1 .. 255), NEW k \in 1 .. Len(NamesOf(path)),
           NEW s, s = StartAt(path, k), NEW name \in Seq(Int), name # <<>>,
           \A i \in 1 .. Len(name) : name[i] # SLASH,
           NEW c, c = entry_name_cmpr(name, path, s, Len(path) - s)
    PROVE  /\ c = 1 \/ c = 0 \/ c = -1
           /\ c = 1 <=> name = NamesOf(path)[k] /\ NameEnd(path, s) = Len(path)
           /\ c = 0 <=> name = NamesOf(path)[k] /\ NameEnd(path, s) < Len(path)
<1>1. PICK L \in Nat, m \in Nat \ {0} : L = Len(path) /\ m = Len(name)
  BY PathFacts, EmptySeq
<1>2. PICK e, w : e = NameEnd(path, s) /\ w = NamesOf(path)[k]
  OBVIOUS
<1>a. /\ s \in 0 .. Len(path) - 1 /\ e \in s + 1 .. Len(path)
      /\ w \in Seq(Int) /\ Len(w) = e - s
      /\ \A i \in 1 .. e - s : w[i] = CharAt(path, s + i - 1)
  BY ONLY path \in Seq(1 .. 255), k \in 1 .. Len(NamesOf(path)), s = StartAt(path, k),
          <1>2, NameAt
<1>3. /\ s \in 0 .. L - 1 /\ e \in s + 1 .. L /\ w \in Seq(Int) /\ Len(w) = e - s
      /\ \A i \in 1 .. e - s : w[i] = CharAt(path, s + i - 1)
  BY <1>1, <1>a, Zenon
<1>b. s \in 0 .. L - 1 /\ e \in s + 1 .. L
  BY <1>3
<1>0. PICK b \in Nat : b = s /\ b < L /\ e \in b + 1 .. L
  BY ONLY <1>1, <1>b
<1>4. /\ e = L \/ CharAt(path, e) = SLASH
      /\ \A x \in s .. e - 1 : CharAt(path, x) # SLASH
  <2>1. s \in 0 .. Len(path)
    BY <1>1, <1>3
  <2> QED BY <1>1, <1>2, <2>1, EndFacts
<1>5. PICK n \in Int : n = b + m
  BY <1>0, <1>1
<1>6. /\ c = 1 \/ c = 0 \/ c = -1
      /\ c = 1 <=> n = L /\ SameFrom(path, s, name)
      /\ c = 0 <=> n < L /\ SameFrom(path, s, name) /\ CharAt(path, n) = SLASH
  <2>1. PICK tail : tail = Len(path) - s
    OBVIOUS
  <2>2. s \in 0 .. Len(path)
    BY <1>1, <1>3
  <2>3. /\ c = 1 \/ c = 0 \/ c = -1
        /\ c = 1 <=> Len(name) = tail /\ SameFrom(path, s, name)
        /\ c = 0 <=> /\ Len(name) < tail /\ SameFrom(path, s, name)
                    /\ CharAt(path, s + Len(name)) = SLASH
    BY <2>1, <2>2, ComparedCharacters
  <2>4. (Len(name) = tail <=> n = L) /\ (Len(name) < tail <=> n < L)
    <3>1. tail = L - b
      BY <1>0, <1>1, <2>1
    <3>2. (m = L - b <=> n = L) /\ (m < L - b <=> n < L)
      BY ONLY <1>0, <1>1, <1>5
    <3> QED BY <1>1, <3>1, <3>2
  <2>5. n = s + Len(name)
    BY <1>0, <1>1, <1>5
  <2> QED BY <2>3, <2>4, <2>5
\* A name without '/' ends where the path has its next one.
<1>7. ASSUME SameFrom(path, s, name) PROVE n <= e \/ e = L
  <2> SUFFICES ASSUME e < n, e # L PROVE FALSE
    BY <1>0, <1>5
  <2>0. e < n /\ e # L
    OBVIOUS
  <2>1. e - s + 1 \in 1 .. m /\ s + (e - s + 1) - 1 = e
    <3>1. e - b + 1 \in 1 .. m /\ b + (e - b + 1) - 1 = e
      BY ONLY <1>0, <1>1, <1>5, <2>0
    <3> QED BY <1>0, <3>1
  <2>2. CharAt(path, e) = SLASH
    BY <1>4
  <2>3. name[e - s + 1] = CharAt(path, e)
    BY <1>1, <1>7, <2>1 DEF SameFrom
  <2>4. name[e - s + 1] # SLASH
    BY <1>1, <2>1
  <2> QED BY <2>2, <2>3, <2>4
<1>8. ASSUME SameFrom(path, s, name), n = e PROVE name = w
  <2>1. m = e - s
    <3>1. m = e - b
      BY ONLY <1>0, <1>1, <1>5, <1>8
    <3> QED BY <1>0, <3>1
  <2>2. ASSUME NEW i \in 1 .. m PROVE name[i] = w[i]
    BY <1>1, <1>3, <1>8, <2>1 DEF SameFrom
  <2> QED BY <1>1, <1>3, <2>1, <2>2, SeqEqual
<1>9. ASSUME name = w PROVE SameFrom(path, s, name) /\ n = e
  <2>1. m = e - s
    BY <1>1, <1>3, <1>9
  <2>2. SameFrom(path, s, name)
    BY <1>1, <1>3, <1>9, <2>1 DEF SameFrom
  <2>3. n = e
    <3>1. m = e - b
      BY <1>0, <2>1
    <3> QED BY ONLY <1>0, <1>1, <1>5, <3>1
  <2> QED BY <2>2, <2>3
<1>10. ASSUME c = 1 PROVE name = w /\ e = L
  <2>1. SameFrom(path, s, name) /\ n = L
    BY <1>6, <1>10
  <2>2. e = L
    BY <1>1, <1>3, <1>7, <2>1
  <2> QED BY <1>8, <2>1, <2>2
<1>11. ASSUME c = 0 PROVE name = w /\ e < L
  <2>1. SameFrom(path, s, name) /\ n < L /\ CharAt(path, n) = SLASH
    BY <1>6, <1>11
  <2>2. ~(n \in s .. e - 1)
    BY <1>4, <2>1
  <2>3. n = e
    <3>1. n >= b /\ n <= e
      BY ONLY <1>0, <1>1, <1>5, <1>7, <2>1
    <3>2. n \in b .. e
      BY ONLY <1>0, <1>5, <3>1
    <3>3. n \in b .. e - 1 \/ n = e
      BY ONLY <1>0, <1>5, <3>2
    <3> QED BY <1>0, <2>2, <3>3
  <2> QED BY <1>8, <2>1, <2>3
<1>12. ASSUME name = w, e = L PROVE c = 1
  BY <1>6, <1>9, <1>12
<1>13. ASSUME name = w, e < L PROVE c = 0
  <2>1. CharAt(path, e) = SLASH
    BY <1>1, <1>3, <1>4, <1>13
  <2> QED BY <1>6, <1>9, <1>13, <2>1
<1> QED BY <1>1, <1>2, <1>6, <1>10, <1>11, <1>12, <1>13

\* No name is at the end of the path.
LEMMA ComparedAtEnd ==
    ASSUME NEW path \in Seq(1 .. 255), NEW name \in Seq(Int), name # <<>>
    PROVE  entry_name_cmpr(name, path, Len(path), Len(path) - Len(path)) = -1
<1>1. PICK L \in Nat, m \in Nat \ {0} : L = Len(path) /\ m = Len(name)
  BY PathFacts, EmptySeq
<1>2. m > L - L
  BY <1>1
<1> QED BY <1>1, <1>2, Zenon DEF entry_name_cmpr
=============================================================================
