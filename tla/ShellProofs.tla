---------------------------- MODULE ShellProofs ----------------------------
(***************************************************************************)
(* Proofs about Shell, for every input, every set of disks, every length   *)
(* of the line buffer and every geometry.                                  *)
(***************************************************************************)
EXTENDS Shell, LayoutLemmas, SequenceTheorems

-----------------------------------------------------------------------------
(* Pieces of sequences.                                                    *)

\* A run of items of a sequence.
LEMMA RunFacts ==
    ASSUME NEW seq \in Seq(STRING), NEW p \in 1 .. Len(seq) + 1, NEW z \in p .. Len(seq) + 1,
           NEW w, w = SubSeq(seq, p, z - 1)
    PROVE  /\ w \in Seq(STRING) /\ Len(w) = z - p
           /\ \A i \in 1 .. z - p : w[i] = seq[p + i - 1]
<1>1. p \in Int /\ z \in Int /\ z - 1 \in Int
  OBVIOUS
<1>2. \A i \in p .. z - 1 : seq[i] \in STRING
  OBVIOUS
<1>3. /\ w \in Seq(STRING)
      /\ Len(w) = IF p <= z - 1 THEN (z - 1) - p + 1 ELSE 0
      /\ \A i \in 1 .. (z - 1) - p + 1 : w[i] = seq[p + i - 1]
  BY <1>1, <1>2, SubSeqProperties
<1>4. (z - 1) - p + 1 = z - p
  BY <1>1
<1>5. (IF p <= z - 1 THEN (z - 1) - p + 1 ELSE 0) = z - p
  BY <1>1
<1> QED BY <1>3, <1>4, <1>5

\* The items from p up to z.
Run(seq, p, z) == SubSeq(seq, p, z - 1)

LEMMA RunType ==
    ASSUME NEW seq \in Seq(STRING), NEW m, m = Len(seq),
           NEW p \in 1 .. m + 1, NEW z \in p .. m + 1, NEW w, w = Run(seq, p, z),
           NEW r, r = z - p
    PROVE  /\ w \in Seq(STRING) /\ Len(w) = r
           /\ \A i \in 1 .. r : w[i] = seq[p + i - 1]
  BY RunFacts DEF Run

\* A run of a run is a run.
LEMMA RunOfRun ==
    ASSUME NEW seq \in Seq(STRING), NEW s \in 1 .. Len(seq) + 1, NEW z \in s .. Len(seq) + 1,
           NEW p \in 1 .. z - s + 1, NEW q \in p .. z - s + 1
    PROVE  /\ Run(seq, s, z) \in Seq(STRING) /\ Len(Run(seq, s, z)) = z - s
           /\ Run(Run(seq, s, z), p, q) = Run(seq, s + p - 1, s + q - 1)
<1>1. PICK m \in Nat : m = Len(seq)
  OBVIOUS
<1>2. PICK a, b \in Int : a = s + p - 1 /\ b = s + q - 1
  OBVIOUS
<1>3. s \in 1 .. m + 1 /\ z \in s .. m + 1 /\ a \in 1 .. m + 1 /\ b \in a .. m + 1 /\ b - a = q - p
  BY <1>1, <1>2
<1>4. PICK u1, v1, w1 : u1 = Run(seq, s, z) /\ v1 = Run(u1, p, q) /\ w1 = Run(seq, a, b)
  OBVIOUS
<1>5. u1 \in Seq(STRING) /\ Len(u1) = z - s /\ \A i \in 1 .. z - s : u1[i] = seq[s + i - 1]
  BY <1>1, <1>3, <1>4, RunFacts DEF Run
<1>6. v1 \in Seq(STRING) /\ Len(v1) = q - p /\ \A i \in 1 .. q - p : v1[i] = u1[p + i - 1]
  <2>1. p \in 1 .. Len(u1) + 1 /\ q \in p .. Len(u1) + 1
    BY <1>3, <1>5
  <2> QED BY <1>4, <1>5, <2>1, RunFacts DEF Run
<1>7. w1 \in Seq(STRING) /\ Len(w1) = b - a /\ \A i \in 1 .. b - a : w1[i] = seq[a + i - 1]
  BY <1>1, <1>3, <1>4, RunFacts DEF Run
<1>8. ASSUME NEW i \in 1 .. q - p PROVE v1[i] = w1[i]
  <2>1. p + i - 1 \in 1 .. z - s /\ s + (p + i - 1) - 1 = a + i - 1
    BY <1>2, <1>3
  <2>2. u1[p + i - 1] = seq[a + i - 1]
    BY <1>5, <2>1
  <2> QED BY <1>3, <1>6, <1>7, <2>2
<1>9. v1 = w1
  BY <1>3, <1>6, <1>7, <1>8, SeqEqual
<1> QED BY <1>2, <1>4, <1>5, <1>9

\* Where the pieces of seq start, and where the one that starts at p has ended.
Starts(seq, separators) == {p \in DOMAIN seq : /\ seq[p] \notin separators
                                               /\ p = 1 \/ seq[p - 1] \in separators}
PieceEnd(seq, separators, p) ==
    Min({e \in p .. Len(seq) + 1 : e = Len(seq) + 1 \/ seq[e] \in separators})
Piece(seq, separators, p) == SubSeq(seq, p, PieceEnd(seq, separators, p) - 1)

LEMMA PieceEndFacts ==
    ASSUME NEW seq \in Seq(STRING), NEW separators, NEW p \in 1 .. Len(seq) + 1,
           NEW e, e = PieceEnd(seq, separators, p)
    PROVE  /\ e \in p .. Len(seq) + 1
           /\ e = Len(seq) + 1 \/ seq[e] \in separators
           /\ \A q \in p .. e - 1 : seq[q] \notin separators
<1> DEFINE E == {z \in p .. Len(seq) + 1 : z = Len(seq) + 1 \/ seq[z] \in separators}
<1>1. Len(seq) \in Nat
  OBVIOUS
<1>2. E \in SUBSET Nat /\ E # {}
  <2>1. Len(seq) + 1 \in E
    BY <1>1
  <2> QED BY <1>1, <2>1
<1>3. Min(E) \in E /\ \A y \in E : Min(E) <= y
  <2> HIDE DEF E
  <2> QED BY <1>2, MinOfNaturals
<1>4. e = Min(E)
  BY DEF PieceEnd
<1>5. e \in E /\ \A y \in E : e <= y
  BY <1>3, <1>4
<1>6. ASSUME NEW q \in p .. e - 1 PROVE seq[q] \notin separators
  <2>1. q \in p .. Len(seq) + 1 /\ q < e
    BY <1>1, <1>5
  <2>2. q \notin E
    BY <1>5, <2>1
  <2> QED BY <2>1, <2>2
<1> QED BY <1>5, <1>6

\* Nothing else is an end.
LEMMA PieceEndUnique ==
    ASSUME NEW seq \in Seq(STRING), NEW separators, NEW p \in 1 .. Len(seq) + 1,
           NEW e \in p .. Len(seq) + 1, e = Len(seq) + 1 \/ seq[e] \in separators,
           \A q \in p .. e - 1 : seq[q] \notin separators
    PROVE  e = PieceEnd(seq, separators, p)
<1>1. PICK z : z = PieceEnd(seq, separators, p)
  OBVIOUS
<1>2. /\ z \in p .. Len(seq) + 1
      /\ z = Len(seq) + 1 \/ seq[z] \in separators
      /\ \A q \in p .. z - 1 : seq[q] \notin separators
  BY <1>1, PieceEndFacts
<1>3. ~(z < e)
  BY <1>2
<1>4. ~(e < z)
  BY <1>2
<1> QED BY <1>1, <1>2, <1>3, <1>4

LEMMA StartsFacts ==
    ASSUME NEW seq \in Seq(STRING), NEW separators,
           NEW S, S = Starts(seq, separators), NEW a, a = Ascending(S)
    PROVE  /\ S \in SUBSET (1 .. Len(seq)) /\ IsFiniteSet(S) /\ Cardinality(S) \in Nat
           /\ a \in [1 .. Cardinality(S) -> S]
           /\ \A j, k \in 1 .. Cardinality(S) : j < k => a[j] < a[k]
           /\ \A x \in S : \E k \in 1 .. Cardinality(S) : a[k] = x
           /\ Pieces(seq, separators)
                = [k \in 1 .. Cardinality(S) |->
                      Piece(seq, separators, a[k])]
<1>1. S \in SUBSET (1 .. Len(seq)) /\ Len(seq) \in Nat
  BY DEF Starts
<1>2. IsFiniteSet(S)
  <2>1. IsFiniteSet(1 .. Len(seq))
    BY <1>1, FS_Interval
  <2> QED BY <1>1, <2>1, FS_Subset
<1>3. S \in SUBSET Int
  BY <1>1
<1>4. /\ Cardinality(S) \in Nat /\ a \in [1 .. Cardinality(S) -> S]
      /\ \A j, k \in 1 .. Cardinality(S) : j < k => a[j] < a[k]
      /\ \A x \in S : \E k \in 1 .. Cardinality(S) : a[k] = x
  BY <1>2, <1>3, AscendingFacts
<1>5. DOMAIN a = 1 .. Cardinality(S)
  BY <1>4
<1>6. Pieces(seq, separators)
        = [k \in DOMAIN a |-> Piece(seq, separators, a[k])]
  BY DEF Pieces, Piece, PieceEnd, Starts
<1> QED BY <1>1, <1>2, <1>4, <1>5, <1>6

LEMMA PiecesAre ==
    ASSUME NEW seq \in Seq(STRING), NEW separators,
           NEW S, S = Starts(seq, separators), NEW a, a = Ascending(S), NEW n, n = Cardinality(S)
    PROVE  Pieces(seq, separators) = [k \in 1 .. n |-> Piece(seq, separators, a[k])]
  BY StartsFacts

LEMMA StartsInOrder ==
    ASSUME NEW seq \in Seq(STRING), NEW separators,
           NEW S, S = Starts(seq, separators), NEW a, a = Ascending(S), NEW n, n = Cardinality(S)
    PROVE  /\ S \in SUBSET (1 .. Len(seq)) /\ a \in [1 .. n -> S]
           /\ \A j, k \in 1 .. n : j < k => a[j] < a[k]
           /\ \A x \in S : \E k \in 1 .. n : a[k] = x
<1>1. S \in SUBSET (1 .. Len(seq)) /\ IsFiniteSet(S)
  BY StartsFacts
<1>2. S \in SUBSET Int
  BY <1>1
<1> QED BY <1>1, <1>2, AscendingFacts

\* A piece has something in it.
LEMMA PiecesType ==
    ASSUME NEW seq \in Seq(STRING), NEW separators
    PROVE  /\ Pieces(seq, separators) \in Seq(Seq(STRING) \ {<<>>})
           /\ Len(Pieces(seq, separators)) = Cardinality(Starts(seq, separators))
<1>1. PICK S, a : S = Starts(seq, separators) /\ a = Ascending(S)
  OBVIOUS
<1>2. /\ S \in SUBSET (1 .. Len(seq)) /\ Cardinality(S) \in Nat
      /\ a \in [1 .. Cardinality(S) -> S]
      /\ Pieces(seq, separators)
           = [k \in 1 .. Cardinality(S) |->
                 Piece(seq, separators, a[k])]
  BY <1>1, StartsFacts
<1>3. ASSUME NEW k \in 1 .. Cardinality(S)
      PROVE  Piece(seq, separators, a[k]) \in Seq(STRING) \ {<<>>}
  <2>1. PICK p, e : p = a[k] /\ e = PieceEnd(seq, separators, p)
    OBVIOUS
  <2>2. p \in S /\ p \in 1 .. Len(seq) /\ seq[p] \notin separators
    BY <1>1, <1>2, <2>1 DEF Starts
  <2>3. e \in p .. Len(seq) + 1 /\ (e = Len(seq) + 1 \/ seq[e] \in separators)
    BY <2>1, <2>2, PieceEndFacts
  <2>4. e > p
    BY <2>2, <2>3
  <2>5. \A i \in p .. e - 1 : seq[i] \in STRING
    BY <2>2, <2>3
  <2>6. SubSeq(seq, p, e - 1) \in Seq(STRING) /\ Len(SubSeq(seq, p, e - 1)) = e - 1 - p + 1
    BY <2>2, <2>3, <2>4, <2>5, SubSeqProperties
  <2>7. SubSeq(seq, p, e - 1) # <<>>
    BY <2>2, <2>3, <2>4, <2>6
  <2> QED BY <2>1, <2>6, <2>7 DEF Piece
<1>4. PICK n \in Nat : n = Cardinality(S)
  BY <1>2
<1>5. Pieces(seq, separators) \in [1 .. n -> Seq(STRING) \ {<<>>}]
  BY <1>2, <1>3, <1>4
<1> QED BY <1>1, <1>4, <1>5

\* Separators that do not occur make no difference.
LEMMA PiecesAgree ==
    ASSUME NEW seq \in Seq(STRING), NEW A, NEW B,
           \A p \in DOMAIN seq : seq[p] \in A <=> seq[p] \in B
    PROVE  Pieces(seq, A) = Pieces(seq, B)
<1>1. Starts(seq, A) = Starts(seq, B)
  BY DEF Starts
<1>2. ASSUME NEW p \in 1 .. Len(seq) + 1 PROVE PieceEnd(seq, A, p) = PieceEnd(seq, B, p)
  <2>1. {z \in p .. Len(seq) + 1 : z = Len(seq) + 1 \/ seq[z] \in A}
          = {z \in p .. Len(seq) + 1 : z = Len(seq) + 1 \/ seq[z] \in B}
    OBVIOUS
  <2> QED BY <2>1 DEF PieceEnd
<1>3. PICK S, a : S = Starts(seq, A) /\ a = Ascending(S)
  OBVIOUS
<1>4. PICK n \in Nat : n = Cardinality(S)
  BY <1>3, StartsFacts
<1>5. Pieces(seq, A) = [k \in 1 .. n |-> Piece(seq, A, a[k])]
  BY <1>3, <1>4, StartsFacts
<1>8. S \in SUBSET (1 .. Len(seq)) /\ a \in [1 .. n -> S]
  BY <1>3, <1>4, StartsFacts
<1>6. Pieces(seq, B) = [k \in 1 .. n |-> Piece(seq, B, a[k])]
  BY <1>1, <1>3, <1>4, StartsFacts
<1>7. ASSUME NEW k \in 1 .. n PROVE Piece(seq, A, a[k]) = Piece(seq, B, a[k])
  <2>1. a[k] \in S
    BY <1>8
  <2>2. a[k] \in 1 .. Len(seq)
    BY <1>8, <2>1
  <2>3. a[k] \in 1 .. Len(seq) + 1
    BY <2>2
  <2>4. PieceEnd(seq, A, a[k]) = PieceEnd(seq, B, a[k])
    BY <1>2, <2>3
  <2> QED BY <2>4 DEF Piece
<1> QED BY <1>5, <1>6, <1>7

\* The first start is the first item that is no separator.
LEMMA FirstStart ==
    ASSUME NEW seq \in Seq(STRING), NEW separators, Pieces(seq, separators) # <<>>,
           NEW b, b = Min({p \in DOMAIN seq : seq[p] \notin separators}),
           NEW S, S = Starts(seq, separators), NEW a, a = Ascending(S)
    PROVE  /\ b \in S /\ Cardinality(S) >= 1 /\ a[1] = b
           /\ \A x \in S : b <= x
<1>1. PICK n \in Nat : n = Cardinality(S)
  BY StartsFacts
<1>2. /\ S \in SUBSET (1 .. Len(seq)) /\ a \in [1 .. n -> S]
      /\ \A j, k \in 1 .. n : j < k => a[j] < a[k]
      /\ \A x \in S : \E k \in 1 .. n : a[k] = x
  BY <1>1, StartsFacts
<1>3. n >= 1
  <2>1. PICK all : all = Pieces(seq, separators)
    OBVIOUS
  <2>2. all \in Seq(Seq(STRING) \ {<<>>}) /\ Len(all) = n
    BY <1>1, <2>1, PiecesType
  <2> QED BY <2>1, <2>2
<1> DEFINE W == {p \in DOMAIN seq : seq[p] \notin separators}
<1>4. W \in SUBSET Nat /\ a[1] \in W
  BY <1>2, <1>3 DEF Starts
<1>5. Min(W) \in W /\ \A y \in W : Min(W) <= y
  <2> HIDE DEF W
  <2> QED BY <1>4, MinOfNaturals
<1>6. b \in W /\ \A y \in W : b <= y
  BY <1>5
<1>7. b \in S
  <2>1. b \in DOMAIN seq /\ b - 1 \notin W
    <3>1. b \in Nat /\ b \in DOMAIN seq
      BY <1>6
    <3>2. ~(b <= b - 1)
      BY <3>1
    <3> QED BY <1>6, <3>1, <3>2
  <2>2. b = 1 \/ b - 1 \in DOMAIN seq
    BY <2>1
  <2>3. b = 1 \/ seq[b - 1] \in separators
    BY <2>1, <2>2
  <2> QED BY <1>6, <2>1, <2>3 DEF Starts
<1>8. \A x \in S : b <= x
  BY <1>6 DEF Starts
<1>9. PICK k \in 1 .. n : a[k] = b
  BY <1>2, <1>7
<1>10. a[1] = b
  <2>1. a[1] \in S /\ a[1] \in Int /\ b <= a[1] /\ b \in Int
    BY <1>2, <1>3, <1>7, <1>8
  <2>2. k = 1 \/ a[1] < a[k]
    BY <1>2, <1>3
  <2> QED BY <1>9, <2>1, <2>2
<1> QED BY <1>1, <1>3, <1>7, <1>8, <1>10

\* What is left of a sequence when e items are taken from its front.
IsRest(tail, seq, e) == /\ tail \in Seq(STRING) /\ Len(tail) = Len(seq) - e
                        /\ \A j \in 1 .. Len(tail) : tail[j] = seq[e + j]

\* Its pieces are pieces of the sequence.
LEMMA ShiftedPiece ==
    ASSUME NEW seq \in Seq(STRING), NEW separators, NEW tail, NEW e \in Nat,
           IsRest(tail, seq, e), NEW p \in e + 1 .. Len(seq), NEW q, q = p - e
    PROVE  Piece(tail, separators, q) = Piece(seq, separators, p)
<1>1. PICK y, z : y = PieceEnd(tail, separators, q) /\ z = PieceEnd(seq, separators, p)
  OBVIOUS
<1>2. PICK m \in Nat : m = Len(tail) /\ m + e = Len(seq) /\ tail \in Seq(STRING)
  <2>1. tail \in Seq(STRING) /\ Len(tail) = Len(seq) - e
    BY DEF IsRest
  <2>2. PICK j \in Nat : j = Len(tail)
    BY <2>1
  <2>3. PICK k \in Nat : k = Len(seq)
    OBVIOUS
  <2>4. j + e = k
    BY <2>1, <2>2, <2>3
  <2> QED BY <2>1, <2>2, <2>3, <2>4
<1>3. ASSUME NEW j \in 1 .. m PROVE tail[j] = seq[e + j]
  BY <1>2 DEF IsRest
<1>4. p \in 1 .. m + e + 1 /\ q \in 1 .. m + 1 /\ p = q + e
  BY <1>2
<1>5. z \in p .. m + e + 1
  BY <1>1, <1>2, <1>4, PieceEndFacts
<1>6. z = m + e + 1 \/ seq[z] \in separators
  BY <1>1, <1>2, <1>4, PieceEndFacts
<1>7. ASSUME NEW i \in p .. z - 1 PROVE seq[i] \notin separators
  BY <1>1, <1>2, <1>4, PieceEndFacts
<1>8. PICK d \in Int : d = z - e /\ d \in q .. m + 1 /\ z = d + e
  BY <1>4, <1>5
<1>9. d = m + 1 \/ tail[d] \in separators
  <2>1. d = m + 1 \/ (d \in 1 .. m /\ e + d = z /\ z # m + e + 1)
    BY <1>4, <1>8
  <2> QED BY <1>3, <1>6, <2>1
<1>10. ASSUME NEW i \in q .. d - 1 PROVE tail[i] \notin separators
  <2>1. i \in 1 .. m /\ e + i \in p .. z - 1
    BY <1>4, <1>8
  <2> QED BY <1>3, <1>7, <2>1
<1>11. y = d
  BY <1>1, <1>2, <1>4, <1>8, <1>9, <1>10, PieceEndUnique
<1>12. PICK v, w : v = SubSeq(seq, p, z - 1) /\ w = SubSeq(tail, q, d - 1)
  OBVIOUS
<1>13. v \in Seq(STRING) /\ Len(v) = z - p /\ \A i \in 1 .. z - p : v[i] = seq[p + i - 1]
  BY <1>2, <1>4, <1>5, <1>12, RunFacts
<1>14. w \in Seq(STRING) /\ Len(w) = d - q /\ \A i \in 1 .. d - q : w[i] = tail[q + i - 1]
  BY <1>2, <1>4, <1>8, <1>12, RunFacts
<1>15. z - p = d - q
  BY <1>4, <1>8
<1>16. ASSUME NEW i \in 1 .. d - q PROVE v[i] = w[i]
  <2>1. q + i - 1 \in 1 .. m /\ e + (q + i - 1) = p + i - 1
    BY <1>4, <1>8
  <2>2. tail[q + i - 1] = seq[p + i - 1]
    BY <1>3, <2>1
  <2> QED BY <1>13, <1>14, <1>15, <2>2
<1>17. v = w
  BY <1>13, <1>14, <1>15, <1>16, SeqEqual
<1> QED BY <1>1, <1>11, <1>12, <1>17 DEF Piece

\* What is behind the first piece and the separator after it has the other pieces.
LEMMA PiecesAfterFirst ==
    ASSUME NEW seq \in Seq(STRING), NEW separators
    PROVE  LET all   == Pieces(seq, separators)
               begin == Min({p \in DOMAIN seq : seq[p] \notin separators})
           IN  all # <<>> =>
                 all = <<all[1]>>
                         \o Pieces(SubSeq(seq, begin + Len(all[1]) + 1, Len(seq)), separators)
<1> DEFINE all == Pieces(seq, separators)
           b == Min({p \in DOMAIN seq : seq[p] \notin separators})
           tail == SubSeq(seq, b + Len(all[1]) + 1, Len(seq))
<1>0. SUFFICES ASSUME all # <<>> PROVE all = <<all[1]>> \o Pieces(tail, separators)
  OBVIOUS
<1> HIDE DEF all, b, tail
<1>1. PICK S, a : S = Starts(seq, separators) /\ a = Ascending(S)
  OBVIOUS
<1>2. PICK n \in Nat : n = Cardinality(S)
  BY <1>1, StartsFacts
<1>3. /\ S \in SUBSET (1 .. Len(seq)) /\ a \in [1 .. n -> S]
      /\ \A j, k \in 1 .. n : j < k => a[j] < a[k]
      /\ \A x \in S : \E k \in 1 .. n : a[k] = x
  BY <1>1, <1>2, StartsInOrder
<1>31. all = [k \in 1 .. n |-> Piece(seq, separators, a[k])]
  BY <1>1, <1>2, PiecesAre DEF all
<1>4. b \in S /\ n >= 1 /\ a[1] = b /\ \A x \in S : b <= x
  BY <1>0, <1>1, <1>2, FirstStart DEF all, b
<1>5. PICK m \in Nat : m = Len(seq)
  OBVIOUS
<1>6. \A x \in S : x \in 1 .. m /\ x \in Int
  BY <1>3, <1>5
<1>7. \A k \in 1 .. n : a[k] \in S /\ a[k] \in Int
  BY <1>3, <1>6
<1>8. \A x \in 1 .. m : x \in S <=> /\ seq[x] \notin separators
                                    /\ x = 1 \/ seq[x - 1] \in separators
  BY <1>1, <1>5 DEF Starts
<1>9. PICK e \in Nat : e = PieceEnd(seq, separators, b) /\ b \in 1 .. m /\ e \in b + 1 .. m + 1
  <2>1. b \in 1 .. m /\ seq[b] \notin separators
    BY <1>4, <1>6, <1>8
  <2>2. b \in 1 .. Len(seq) + 1
    BY <1>5, <2>1
  <2>3. PICK z : z = PieceEnd(seq, separators, b)
    OBVIOUS
  <2>4. /\ z \in b .. m + 1
        /\ \A q \in b .. z - 1 : seq[q] \notin separators
        /\ z = m + 1 \/ seq[z] \in separators
    BY <1>5, <2>2, <2>3, PieceEndFacts
  <2>5. z # b
    BY <2>1, <2>4
  <2>6. z \in Nat /\ z \in b + 1 .. m + 1
    BY <2>1, <2>4, <2>5
  <2> QED BY <2>1, <2>3, <2>6
<1>10. /\ e = m + 1 \/ seq[e] \in separators
       /\ \A q \in b .. e - 1 : seq[q] \notin separators
  <2>1. b \in 1 .. Len(seq) + 1
    BY <1>5, <1>9
  <2> QED BY <1>5, <1>9, <2>1, PieceEndFacts
<1>11. Len(all[1]) = e - b
  <2>1. 1 \in 1 .. n
    BY <1>4
  <2>2. all[1] = Piece(seq, separators, a[1])
    BY <1>31, <2>1
  <2>3. all[1] = SubSeq(seq, b, e - 1)
    BY <1>4, <1>9, <2>2 DEF Piece
  <2>4. b \in 1 .. Len(seq) + 1 /\ e \in b .. Len(seq) + 1
    BY <1>5, <1>9
  <2> QED BY <2>3, <2>4, RunFacts
<1>12. PICK t \in Nat : /\ t = Len(tail) /\ tail \in Seq(STRING)
                        /\ t = IF e = m + 1 THEN 0 ELSE m - e
                        /\ \A j \in 1 .. m - e : tail[j] = seq[e + j]
  <2>1. b + Len(all[1]) + 1 = e + 1
    BY <1>9, <1>11
  <2>2. CASE e = m + 1
    <3>1. tail = <<>>
      <4>1. m < e + 1 /\ e + 1 \in Int /\ m \in Int
        BY <2>2
      <4>2. SubSeq(seq, e + 1, m) = <<>>
        BY <4>1, SubSeqEmpty
      <4> QED BY <1>5, <2>1, <4>2 DEF tail
    <3>2. 1 .. m - e = {}
      BY <2>2
    <3> QED BY <2>2, <3>1, <3>2
  <2>3. CASE e # m + 1
    <3>1. e + 1 \in 1 .. m + 1 /\ m + 1 \in e + 1 .. m + 1 /\ (m + 1) - 1 = m
          /\ (m + 1) - (e + 1) = m - e /\ m - e \in Nat
      BY ONLY <1>9, <2>3, m \in Nat, e \in Nat
    <3>2. tail = SubSeq(seq, e + 1, (m + 1) - 1)
      BY <1>5, <2>1, <3>1 DEF tail
    <3>3. /\ tail \in Seq(STRING) /\ Len(tail) = (m + 1) - (e + 1)
          /\ \A j \in 1 .. (m + 1) - (e + 1) : tail[j] = seq[e + 1 + j - 1]
      <4>1. PICK p, z, w : p = e + 1 /\ z = m + 1 /\ w = tail
        OBVIOUS
      <4>2. p \in 1 .. Len(seq) + 1 /\ z \in p .. Len(seq) + 1 /\ w = SubSeq(seq, p, z - 1)
        BY <1>5, <3>1, <3>2, <4>1
      <4>3. w \in Seq(STRING) /\ Len(w) = z - p /\ \A j \in 1 .. z - p : w[j] = seq[p + j - 1]
        BY ONLY <4>2, RunFacts, seq \in Seq(STRING)
      <4> QED BY <4>1, <4>3
    <3>4. \A j \in 1 .. m - e : e + 1 + j - 1 = e + j
      OBVIOUS
    <3> QED BY <2>3, <3>1, <3>3, <3>4
  <2> QED BY <2>2, <2>3
<1>32. tail \in Seq(STRING) /\ Len(tail) = t
  BY <1>12
<1>13. PICK T : T = Starts(tail, separators)
  OBVIOUS
<1>14. T \in SUBSET (1 .. t)
  <2>1. DOMAIN tail = 1 .. t
    BY <1>32
  <2> QED BY <1>13, <2>1 DEF Starts
<1>15. ASSUME NEW j \in Int PROVE j \in T <=> j + e \in S /\ j >= 1
  <2>1. j \in T <=> /\ j \in 1 .. t /\ tail[j] \notin separators
                    /\ j = 1 \/ tail[j - 1] \in separators
    <3>1. DOMAIN tail = 1 .. t
      BY <1>32
    <3> QED BY <1>13, <3>1 DEF Starts
  <2>2. CASE j \in 1 .. t
    <3>1. t = (IF e = m + 1 THEN 0 ELSE m - e)
      BY <1>12
    <3>2. j \in 1 .. m - e /\ e # m + 1 /\ j + e \in 1 .. m /\ e + j = j + e /\ j >= 1 /\ j + e # 1
      BY <1>9, <2>2, <3>1
    <3>3. tail[j] = seq[j + e]
      BY <1>12, <3>2
    <3>4. j = 1 \/ tail[j - 1] = seq[j + e - 1]
      <4>1. j = 1 \/ (j - 1 \in 1 .. m - e /\ e + (j - 1) = j + e - 1)
        BY <3>2
      <4> QED BY <1>12, <4>1
    <3>5. j = 1 => seq[j + e - 1] \in separators
      <4>1. 1 + e - 1 = e
        OBVIOUS
      <4> QED BY <1>10, <3>2, <4>1
    <3>6. j + e \in S <=> seq[j + e] \notin separators /\ seq[j + e - 1] \in separators
      BY <1>8, <3>2
    <3>7. j \in T <=> seq[j + e] \notin separators /\ seq[j + e - 1] \in separators
      BY <2>1, <2>2, <3>3, <3>4, <3>5
    <3> QED BY <3>2, <3>6, <3>7
  <2>3. CASE j \notin 1 .. t
    <3>1. t = (IF e = m + 1 THEN 0 ELSE m - e)
      BY <1>12
    <3>2. j < 1 \/ ~(j + e \in 1 .. m)
      BY <1>9, <2>3, <3>1
    <3>3. j < 1 \/ j + e \notin S
      BY <1>6, <3>2
    <3> QED BY <2>1, <2>3, <3>3
  <2> QED BY <2>2, <2>3
<1>16. ASSUME NEW x \in S PROVE x = b \/ x > e
  <2> SUFFICES ASSUME x # b, x <= e PROVE FALSE
    BY <1>6
  <2>1. x \in 1 .. m /\ b <= x
    BY <1>4, <1>6
  <2>2. x > b /\ x # 1 /\ x - 1 \in b .. e - 1
    BY <1>9, <2>1
  <2>3. seq[x] \notin separators /\ seq[x - 1] \in separators
    BY <1>8, <2>1, <2>2
  <2> QED BY <1>10, <2>2, <2>3
<1> DEFINE f == [k \in 1 .. n - 1 |-> a[k + 1] - e]
<1>17. /\ T \in SUBSET Int /\ f \in [1 .. n - 1 -> T] /\ n - 1 \in Nat
       /\ \A j, k \in 1 .. n - 1 : j < k => f[j] < f[k]
       /\ \A x \in T : \E k \in 1 .. n - 1 : f[k] = x
  <2>1. T \in SUBSET Int /\ n - 1 \in Nat
    BY <1>4, <1>14
  <2>2. ASSUME NEW k \in 1 .. n - 1 PROVE a[k + 1] - e \in T
    <3>1. k + 1 \in 1 .. n /\ 1 \in 1 .. n /\ 1 < k + 1
      BY <1>4
    <3>2. a[1] < a[k + 1]
      BY <1>3, <3>1
    <3>3. a[k + 1] \in S /\ a[k + 1] \in Int
      BY <1>7, <3>1
    <3>4. a[k + 1] = b \/ a[k + 1] > e
      BY <1>16, <3>3
    <3>5. a[k + 1] > e
      BY <1>4, <1>9, <3>2, <3>3, <3>4
    <3>6. a[k + 1] - e \in Int /\ a[k + 1] - e >= 1 /\ (a[k + 1] - e) + e = a[k + 1]
      BY <3>3, <3>5
    <3> QED BY <1>15, <3>3, <3>6
  <2>3. f \in [1 .. n - 1 -> T]
    BY <2>2
  <2>4. ASSUME NEW j \in 1 .. n - 1, NEW k \in 1 .. n - 1, j < k PROVE f[j] < f[k]
    <3>1. j + 1 \in 1 .. n /\ k + 1 \in 1 .. n /\ j + 1 < k + 1
      BY <1>4, <2>4
    <3>2. a[j + 1] < a[k + 1]
      BY <1>3, <3>1
    <3>3. a[j + 1] \in Int /\ a[k + 1] \in Int
      BY <1>7, <3>1
    <3>4. a[j + 1] - e < a[k + 1] - e
      BY <3>2, <3>3
    <3> QED BY <3>4
  <2>5. ASSUME NEW x \in T PROVE \E k \in 1 .. n - 1 : f[k] = x
    <3>1. x \in Int /\ x + e \in S /\ x >= 1
      BY <1>15, <2>1
    <3>2. PICK k \in 1 .. n : a[k] = x + e
      BY <1>3, <3>1
    <3>3. k # 1
      BY <1>4, <1>9, <3>1, <3>2
    <3>4. k - 1 \in 1 .. n - 1 /\ (k - 1) + 1 = k
      BY <3>3
    <3>5. f[k - 1] = a[k] - e
      BY <3>4
    <3>6. a[k] - e = x
      BY <3>1, <3>2
    <3> QED BY <3>4, <3>5, <3>6
  <2> QED BY <2>1, <2>3, <2>4, <2>5
<1>18. \A k \in 1 .. n - 1 : f[k] = a[k + 1] - e
  OBVIOUS
<1> HIDE DEF f
<1>19. Cardinality(T) = n - 1 /\ f = Ascending(T)
  BY <1>17, AscendingUnique
<1>20. PICK others : others = Pieces(tail, separators)
  OBVIOUS
<1>21. others = [k \in 1 .. n - 1 |-> Piece(tail, separators, f[k])]
  <2>1. PICK g, j : g = Ascending(T) /\ j = Cardinality(T)
    OBVIOUS
  <2>2. tail \in Seq(STRING)
    BY <1>12
  <2>3. others = [k \in 1 .. Cardinality(T) |->
                    Piece(tail, separators, g[k])]
    BY <1>13, <1>20, <2>1, <2>2, StartsFacts
  <2> QED BY <1>19, <2>1, <2>3
<1>22. ASSUME NEW k \in 1 .. n - 1 PROVE others[k] = all[k + 1]
  <2>1. k + 1 \in 1 .. n
    BY <1>4
  <2>2. all[k + 1] = Piece(seq, separators, a[k + 1])
    BY <1>31, <2>1
  <2>3. others[k] = Piece(tail, separators, f[k])
    BY <1>21
  <2>4. f[k] = a[k + 1] - e /\ f[k] \in T
    BY <1>17, <1>18
  <2>5. PICK p, q : p = a[k + 1] /\ q = f[k]
    OBVIOUS
  <2>6. q = p - e /\ p \in Int /\ q \in 1 .. t
    BY <1>7, <1>14, <2>1, <2>4, <2>5
  <2>7. t = (IF e = m + 1 THEN 0 ELSE m - e)
    BY <1>12
  <2>8. t = m - e /\ p \in e + 1 .. m
    BY <1>9, <2>6, <2>7
  <2>9. IsRest(tail, seq, e)
    BY <1>5, <1>12, <2>8 DEF IsRest
  <2>10. p \in e + 1 .. Len(seq)
    BY <1>5, <2>8
  <2>11. Piece(tail, separators, q)
           = Piece(seq, separators, p)
    <3>1. PICK left : left = tail
      OBVIOUS
    <3>2. IsRest(left, seq, e) /\ q = p - e
      BY <2>6, <2>9, <3>1
    <3>3. Piece(left, separators, q) = Piece(seq, separators, p)
      BY <2>10, <3>2, ShiftedPiece
    <3> QED BY <3>1, <3>3
  <2> QED BY <2>2, <2>3, <2>5, <2>11
<1>23. PICK B : B = Seq(STRING) \ {<<>>}
  OBVIOUS
<1>24. all \in Seq(B) /\ Len(all) = n /\ others \in Seq(B) /\ Len(others) = n - 1
  BY <1>1, <1>2, <1>12, <1>13, <1>19, <1>20, <1>23, PiecesType DEF all
<1>25. PICK first : first = <<all[1]>>
  OBVIOUS
<1>26. first \in Seq(B) /\ Len(first) = 1 /\ first[1] = all[1]
  BY <1>4, <1>24, <1>25
<1>27. PICK joined : joined = first \o others
  OBVIOUS
<1>28. /\ joined \in Seq(B) /\ Len(joined) = n
       /\ \A i \in 1 .. n : joined[i] = IF i <= 1 THEN first[i] ELSE others[i - 1]
  <2>1. /\ joined \in Seq(B) /\ Len(joined) = Len(first) + Len(others)
        /\ \A i \in 1 .. Len(first) + Len(others) :
              joined[i] = IF i <= Len(first) THEN first[i] ELSE others[i - Len(first)]
    BY <1>24, <1>26, <1>27, ConcatProperties
  <2> QED BY <1>24, <1>26, <2>1
<1>29. ASSUME NEW i \in 1 .. n PROVE all[i] = joined[i]
  <2>1. CASE i = 1
    BY <1>26, <1>28, <2>1
  <2>2. CASE i # 1
    <3>1. i - 1 \in 1 .. n - 1 /\ (i - 1) + 1 = i
      BY <2>2
    <3>2. joined[i] = others[i - 1]
      BY <1>28, <2>2
    <3> QED BY <1>22, <3>1, <3>2
  <2> QED BY <2>1, <2>2
<1>30. all = joined
  BY <1>24, <1>28, <1>29, SeqEqual
<1> QED BY <1>20, <1>25, <1>27, <1>30

\* What fgets has read ends at its newline.
LEMMA NewlineIsCut ==
    ASSUME NEW line \in Seq(STRING), NEW w \in 0 .. Len(line),
           w = Len(line) \/ line[w + 1] = NL, \A i \in 1 .. w : line[i] # NL
    PROVE  BeforeNewline(line) = Run(line, 1, w + 1)
<1> DEFINE P == {p \in 0 .. Len(line) : p = Len(line) \/ line[p + 1] = NL}
<1>1. P \in SUBSET Nat /\ w \in P
  OBVIOUS
<1>2. Min(P) \in P /\ \A y \in P : Min(P) <= y
  <2> HIDE DEF P
  <2> QED BY <1>1, MinOfNaturals
<1>3. PICK q : q = Min(P)
  OBVIOUS
<1>4. q \in 0 .. Len(line) /\ (q = Len(line) \/ line[q + 1] = NL) /\ q <= w
  BY <1>1, <1>2, <1>3
<1>5. ~(q < w)
  BY <1>4
<1>6. q = w
  BY <1>4, <1>5
<1>7. Min(P) = w /\ (w + 1) - 1 = w
  BY <1>3, <1>6
<1>8. SubSeq(line, 1, Min(P)) = SubSeq(line, 1, (w + 1) - 1)
  BY <1>7
<1> QED BY <1>8 DEF BeforeNewline, Run

LEMMA BeforeNewlineType ==
    ASSUME NEW line \in Seq(STRING)
    PROVE  BeforeNewline(line) \in Seq(STRING)
<1> DEFINE P == {p \in 0 .. Len(line) : p = Len(line) \/ line[p + 1] = NL}
<1>1. P \in SUBSET Nat /\ Len(line) \in P
  OBVIOUS
<1>2. Min(P) \in P
  <2> HIDE DEF P
  <2> QED BY <1>1, MinOfNaturals
<1>3. PICK q : q = Min(P)
  OBVIOUS
<1>4. q \in 0 .. Len(line)
  BY <1>2, <1>3
<1>5. SubSeq(line, 1, (q + 1) - 1) \in Seq(STRING)
  <2>1. 1 \in 1 .. Len(line) + 1 /\ q + 1 \in 1 .. Len(line) + 1
    BY <1>4
  <2> QED BY <2>1, RunFacts
<1>6. (q + 1) - 1 = q
  BY <1>4
<1> QED BY <1>3, <1>5, <1>6 DEF BeforeNewline

\* The tokens are words with something in them.
LEMMA TokensType ==
    ASSUME NEW line \in Seq(STRING)
    PROVE  tokenize_input(line) \in Seq(Seq(STRING) \ {<<>>})
<1>1. PICK text : text = BeforeNewline(line) /\ text \in Seq(STRING)
  BY BeforeNewlineType
<1>2. PICK B : B = Seq(STRING) \ {<<>>}
  OBVIOUS
<1>3. PICK first : first = Pieces(text, {SP, TAB})
  OBVIOUS
<1>4. first \in Seq(B)
  BY <1>1, <1>2, <1>3, PiecesType
<1>5. CASE first = <<>>
  BY <1>1, <1>2, <1>3, <1>5 DEF tokenize_input
<1>6. CASE first # <<>>
  <2>1. PICK begin : begin = Min({p \in DOMAIN text : text[p] \notin {SP, TAB}})
    OBVIOUS
  <2>2. PICK tail : tail = SubSeq(text, begin + Len(first[1]) + 1, Len(text))
    OBVIOUS
  <2>3. tokenize_input(line) = <<first[1]>> \o Pieces(tail, {SP})
    BY <1>1, <1>3, <1>6, <2>1, <2>2 DEF tokenize_input
  <2>4. tail \in Seq(STRING)
    <3>1. begin \in Nat
      <4>1. PICK S, a : S = Starts(text, {SP, TAB}) /\ a = Ascending(S)
        OBVIOUS
      <4>2. begin \in S
        BY <1>1, <1>3, <1>6, <2>1, <4>1, FirstStart
      <4>3. S \in SUBSET (1 .. Len(text))
        BY <1>1, <4>1, StartsFacts
      <4> QED BY <4>2, <4>3
    <3>2. PICK k \in Nat : k = Len(first[1])
      BY <1>2, <1>4, <1>6
    <3>3. PICK s \in Nat : s = begin + Len(first[1]) + 1 /\ s >= 1
      BY <3>1, <3>2
    <3>4. PICK m \in Nat : m = Len(text)
      BY <1>1
    <3>5. \A i \in s .. m : text[i] \in STRING
      BY <1>1, <3>3, <3>4
    <3>6. SubSeq(text, s, m) \in Seq(STRING)
      BY <3>5, SubSeqProperties
    <3> QED BY <2>2, <3>3, <3>4, <3>6
  <2>5. PICK others, one : others = Pieces(tail, {SP}) /\ one = <<first[1]>>
    OBVIOUS
  <2>6. others \in Seq(B) /\ one \in Seq(B)
    BY <1>2, <1>4, <1>6, <2>4, <2>5, PiecesType
  <2>7. one \o others \in Seq(B)
    BY <2>6, ConcatProperties
  <2> QED BY <1>2, <2>3, <2>5, <2>7
<1> QED BY <1>5, <1>6

\* Without tabs they are the pieces between the spaces.
LEMMA TokensAreWords ==
    ASSUME NEW line \in Seq(STRING), NEW text, text = BeforeNewline(line), text \in Seq(STRING),
           \A p \in DOMAIN text : text[p] # TAB
    PROVE  tokenize_input(line) = Pieces(text, {SP})
<1> DEFINE all == Pieces(text, {SP})
           begin == Min({p \in DOMAIN text : text[p] \notin {SP}})
<1>1. Pieces(text, {SP, TAB}) = all
  BY PiecesAgree
<1>2. Min({p \in DOMAIN text : text[p] \notin {SP, TAB}}) = begin
  <2>1. {p \in DOMAIN text : text[p] \notin {SP, TAB}} = {p \in DOMAIN text : text[p] \notin {SP}}
    OBVIOUS
  <2> QED BY <2>1
<1>3. tokenize_input(line) = IF all = <<>> THEN <<>>
        ELSE <<all[1]>> \o Pieces(SubSeq(text, begin + Len(all[1]) + 1, Len(text)), {SP})
  BY <1>1, <1>2 DEF tokenize_input
<1>4. all # <<>> => all = <<all[1]>>
                            \o Pieces(SubSeq(text, begin + Len(all[1]) + 1, Len(text)), {SP})
  BY PiecesAfterFirst
<1> QED BY <1>3, <1>4

-----------------------------------------------------------------------------
(* Lines.                                                                  *)

\* Where the lines of a sequence end, and where line k starts.
EndSet(seq)       == {p \in DOMAIN seq : seq[p] = NL} \cup {Len(seq) + 1}
LineEnds(seq)     == Ascending(EndSet(seq))
LineStart(seq, k) == IF k = 1 THEN 1 ELSE LineEnds(seq)[k - 1] + 1

\* The end of the input is the last end.
EnumeratesEnds(a, n, E, m) == /\ E \in SUBSET (1 .. m + 1)
                              /\ a \in [1 .. n -> E] /\ a[n] = m + 1
                              /\ \A j, k \in 1 .. n : j < k => a[j] < a[k]
                              /\ \A x \in E : \E k \in 1 .. n : a[k] = x

LEMMA EndsInOrder ==
    ASSUME NEW seq \in Seq(STRING), NEW m, m = Len(seq), NEW E, E = EndSet(seq),
           NEW a, a = LineEnds(seq)
    PROVE  \E n \in Nat \ {0} : n = Cardinality(E) /\ EnumeratesEnds(a, n, E, m)
<1>1. m \in Nat /\ E \in SUBSET (1 .. m + 1) /\ m + 1 \in E
  BY DEF EndSet
<1>2. IsFiniteSet(E)
  <2>1. IsFiniteSet(1 .. m + 1)
    BY <1>1, FS_Interval
  <2> QED BY <1>1, <2>1, FS_Subset
<1>3. E \in SUBSET Int
  BY <1>1
<1>4. PICK n : n = Cardinality(E)
  OBVIOUS
<1>5. /\ n \in Nat /\ a \in [1 .. n -> E]
      /\ \A j, k \in 1 .. n : j < k => a[j] < a[k]
      /\ \A x \in E : \E k \in 1 .. n : a[k] = x
  <2>1. a = Ascending(E)
    BY DEF LineEnds
  <2> QED BY ONLY <1>2, <1>3, <1>4, <2>1, AscendingFacts
<1>6. PICK k \in 1 .. n : a[k] = m + 1
  BY <1>1, <1>5
<1>7. n \in 1 .. n
  BY <1>5, <1>6
<1>8. a[n] \in E /\ a[n] \in 1 .. m + 1
  <2>1. a \in [1 .. n -> E]
    BY <1>5
  <2>2. a[n] \in E
    BY <1>7, <2>1
  <2> QED BY <1>1, <2>2
<1>9. k = n
  <2> SUFFICES ASSUME k < n PROVE FALSE
    BY <1>5
  <2>1. a[k] < a[n]
    BY <1>5, <1>7
  <2> QED BY <1>1, <1>6, <1>8, <2>1
<1>10. n \in Nat \ {0} /\ E \in SUBSET (1 .. m + 1) /\ a[n] = m + 1
  BY <1>1, <1>5, <1>6, <1>7, <1>9
<1>11. EnumeratesEnds(a, n, E, m)
  BY <1>5, <1>10, Zenon DEF EnumeratesEnds
<1> QED BY <1>4, <1>10, <1>11

\* The line behind the first k of seq is s .. q - 1.
IsLineAt(seq, m, k, s, q) ==
    /\ k + 1 \in 1 .. Cardinality(EndSet(seq)) /\ s \in 1 .. m /\ q \in s .. m + 1
    /\ q = m + 1 \/ seq[q] = NL
    /\ \A i \in s .. q - 1 : seq[i] # NL
    /\ LineStart(seq, k + 2) = q + 1

\* As long as something is left behind the lines that are read, there is a next line.
LEMMA NextLine ==
    ASSUME NEW seq \in Seq(STRING), NEW m, m = Len(seq), NEW k \in 0 .. Cardinality(EndSet(seq)),
           NEW s, s = LineStart(seq, k + 1), Run(seq, s, m + 1) # <<>>,
           NEW q, q = LineEnds(seq)[k + 1]
    PROVE  IsLineAt(seq, m, k, s, q)
<1>1. PICK E, a : E = EndSet(seq) /\ a = LineEnds(seq)
  OBVIOUS
<1>0. PICK n \in Nat \ {0} : n = Cardinality(E) /\ EnumeratesEnds(a, n, E, m)
  BY <1>1, EndsInOrder
<1>2. /\ n = Cardinality(E) /\ E \in SUBSET (1 .. m + 1)
      /\ a \in [1 .. n -> E] /\ a[n] = m + 1
      /\ \A i, j \in 1 .. n : i < j => a[i] < a[j]
      /\ \A x \in E : \E j \in 1 .. n : a[j] = x
  BY <1>0 DEF EnumeratesEnds
<1>3. m \in Nat /\ k \in 0 .. n
  BY <1>1, <1>2
<1>4. \A j \in 1 .. n : a[j] \in E /\ a[j] \in 1 .. m + 1
  BY <1>2
<1>5. \A i, j \in 1 .. n : i < j => a[i] < a[j]
  BY <1>2
<1>6. s = IF k + 1 = 1 THEN 1 ELSE a[k + 1 - 1] + 1
  BY <1>1 DEF LineStart
<1>7. s \in Nat /\ s >= 1 /\ (k # 0 => s = a[k] + 1)
  <2>1. CASE k = 0
    BY <1>6, <2>1
  <2>2. CASE k # 0
    <3>1. k \in 1 .. n /\ k + 1 - 1 = k /\ k + 1 # 1
      BY <1>3, <2>2
    <3>2. a[k] \in 1 .. m + 1
      BY <1>4, <3>1
    <3> QED BY <1>3, <1>6, <3>1, <3>2
  <2> QED BY <2>1, <2>2
<1>8. s <= m
  <2>1. (m + 1) - 1 = m
    BY <1>3
  <2>2. m < s => SubSeq(seq, s, m) = <<>>
    BY <1>3, <1>7, SubSeqEmpty
  <2> QED BY <1>3, <1>7, <2>1, <2>2 DEF Run
<1>9. k # n
  BY <1>2, <1>3, <1>7, <1>8
<1>10. k + 1 \in 1 .. n
  BY <1>3, <1>9
<1>11. q = a[k + 1] /\ q \in E /\ q \in 1 .. m + 1
  BY <1>1, <1>4, <1>10
<1>12. q >= s
  <2>1. CASE k = 0
    BY <1>6, <1>11, <2>1
  <2>2. CASE k # 0
    <3>1. k \in 1 .. n /\ k < k + 1
      BY <1>3, <2>2
    <3>2. a[k] < a[k + 1] /\ a[k] \in 1 .. m + 1
      BY <1>4, <1>5, <1>10, <3>1
    <3> QED BY <1>3, <1>7, <1>11, <2>2, <3>2
  <2> QED BY <2>1, <2>2
<1>13. q = m + 1 \/ seq[q] = NL
  BY <1>1, <1>11 DEF EndSet
<1>14. ASSUME NEW i \in s .. q - 1 PROVE seq[i] # NL
  <2> SUFFICES ASSUME seq[i] = NL PROVE FALSE
    OBVIOUS
  <2>1. i \in 1 .. m /\ i \in Int /\ i < q /\ i >= s
    BY <1>3, <1>7, <1>11
  <2>2. i \in E
    BY <1>1, <2>1 DEF EndSet
  <2>3. PICK j \in 1 .. n : a[j] = i
    BY <1>2, <2>2
  <2>4. j < k + 1
    <3> SUFFICES ASSUME j >= k + 1 PROVE FALSE
      BY <1>3
    <3>1. j = k + 1 \/ a[k + 1] < a[j]
      BY <1>3, <1>5, <1>10
    <3> QED BY <1>11, <2>1, <2>3, <3>1
  <2>5. k # 0 /\ k \in 1 .. n /\ (j = k \/ j < k)
    BY <1>3, <1>10, <2>4
  <2>6. j = k \/ a[j] < a[k]
    BY <1>5, <2>5
  <2>7. a[k] \in 1 .. m + 1 /\ s = a[k] + 1
    BY <1>4, <1>7, <2>5
  <2> QED BY <2>1, <2>3, <2>6, <2>7
<1>15. LineStart(seq, k + 2) = q + 1
  <2>1. k + 2 # 1 /\ k + 2 - 1 = k + 1
    BY <1>3
  <2> QED BY <1>1, <1>11, <2>1 DEF LineStart
<1>16. s \in 1 .. m /\ q \in s .. m + 1
  BY <1>3, <1>7, <1>8, <1>11, <1>12
<1> QED BY <1>1, <1>2, <1>10, <1>13, <1>14, <1>15, <1>16 DEF IsLineAt

\* The words that fgets gives of what is left, and what it leaves.
LineRead == SubSeq(rest, 1, LineLength)
RestRead == SubSeq(rest, LineLength + 1, Len(rest))

LEMMA LineLengthType ==
    ASSUME rest \in Seq(STRING), rest # <<>>
    PROVE  LineLength \in 1 .. Len(rest)
<1> DEFINE M == {SHELL_CMD_SIZE - 1, Len(rest)} \cup {p \in DOMAIN rest : rest[p] = NL}
<1>1. PICK m \in Nat : m = Len(rest) /\ m >= 1
  OBVIOUS
<1>2. SHELL_CMD_SIZE \in Nat /\ SHELL_CMD_SIZE > 1
  BY ShellAssumption
<1>3. \A x \in M : x \in Nat /\ x >= 1
  BY <1>1, <1>2
<1>4. M \in SUBSET Nat /\ m \in M
  BY <1>1, <1>3
<1>5. Min(M) \in M /\ \A y \in M : Min(M) <= y
  <2> HIDE DEF M
  <2> QED BY <1>4, MinOfNaturals
<1>6. PICK x : x = Min(M)
  OBVIOUS
<1>7. x \in Nat /\ x >= 1 /\ x <= m
  BY <1>3, <1>4, <1>5, <1>6
<1> QED BY <1>1, <1>6, <1>7 DEF LineLength

\* fgets reads up to the end of a line that fits into its buffer, and then the next is due.
LEMMA ReadsTheLine ==
    ASSUME script \in Seq(STRING), NEW k \in 0 .. Cardinality(EndSet(script)),
           rest = Run(script, LineStart(script, k + 1), Len(script) + 1), rest # <<>>,
           Len(Line(k + 1)) < SHELL_CMD_SIZE - 1
    PROVE  /\ k + 1 \in 1 .. Cardinality(EndSet(script))
           /\ BeforeNewline(LineRead) = Line(k + 1)
           /\ RestRead = Run(script, LineStart(script, k + 2), Len(script) + 1)
<1>1. PICK m \in Nat : m = Len(script)
  OBVIOUS
<1>2. PICK s, q : s = LineStart(script, k + 1) /\ q = LineEnds(script)[k + 1]
  OBVIOUS
<1>3. rest = Run(script, s, m + 1)
  BY <1>1, <1>2
<1>4. /\ k + 1 \in 1 .. Cardinality(EndSet(script)) /\ s \in 1 .. m /\ q \in s .. m + 1
      /\ LineStart(script, k + 2) = q + 1
      /\ q = m + 1 \/ script[q] = NL
      /\ \A i \in s .. q - 1 : script[i] # NL
  <2>1. Run(script, s, m + 1) # <<>> /\ m = Len(script) /\ script \in Seq(STRING)
    BY <1>1, <1>3
  <2>2. IsLineAt(script, m, k, s, q)
    BY ONLY <1>2, <2>1, NextLine, k \in 0 .. Cardinality(EndSet(script))
  <2> QED BY <2>2 DEF IsLineAt
<1>5. q = m + 1 \/ script[q] = NL
  BY <1>4
<1>6. ASSUME NEW i \in s .. q - 1 PROVE script[i] # NL
  BY <1>4, <1>6
<1>7. PICK r, w \in Nat : r = m + 1 - s /\ w = q - s /\ r >= 1 /\ w <= r
  BY <1>4
<1>8. rest \in Seq(STRING) /\ Len(rest) = r /\ \A i \in 1 .. r : rest[i] = script[s + i - 1]
  <2>1. PICK z \in Int : z = m + 1
    OBVIOUS
  <2>2. s \in 1 .. m + 1 /\ z \in s .. m + 1 /\ r = z - s
    BY <1>4, <1>7, <2>1
  <2>3. rest = Run(script, s, z)
    BY <1>3, <2>1
  <2>4. PICK seq \in Seq(STRING) : seq = script
    OBVIOUS
  <2>5. PICK v : v = rest
    OBVIOUS
  <2>6. m = Len(seq) /\ v = Run(seq, s, z)
    BY <1>1, <2>3, <2>4, <2>5
  <2>7. v \in Seq(STRING) /\ Len(v) = r /\ \A i \in 1 .. r : v[i] = seq[s + i - 1]
    BY ONLY <2>2, <2>6, RunFacts, seq \in Seq(STRING) DEF Run
  <2> QED BY <2>4, <2>5, <2>7
<1>9. Line(k + 1) = Run(script, s, q)
  BY <1>2 DEF Line, LineStart, LineEnds, EndSet, Run
<1>10. w < SHELL_CMD_SIZE - 1 /\ SHELL_CMD_SIZE \in Nat
  <2>1. s \in 1 .. m + 1 /\ q \in s .. m + 1
    BY <1>4
  <2>2. Len(Run(script, s, q)) = w
    BY <1>1, <1>7, <2>1, RunType
  <2> QED BY <1>9, <2>2, ShellAssumption
<1>11. PICK L : L = LineLength
  OBVIOUS
<1>12. L \in 1 .. r
  BY <1>3, <1>8, <1>11, LineLengthType
<1>13. L = IF q = m + 1 THEN w ELSE w + 1
  <2> DEFINE M == {SHELL_CMD_SIZE - 1, Len(rest)} \cup {p \in DOMAIN rest : rest[p] = NL}
  <2>1. M \in SUBSET Nat /\ r \in M /\ SHELL_CMD_SIZE - 1 \in M
    BY <1>8, <1>10
  <2>2. Min(M) \in M /\ \A y \in M : Min(M) <= y
    <3> HIDE DEF M
    <3> QED BY <2>1, MinOfNaturals
  <2>3. L = Min(M)
    BY <1>11 DEF LineLength
  <2>4. L \in M /\ \A y \in M : L <= y
    BY <2>2, <2>3
  <2>5. ASSUME NEW i \in 1 .. r, rest[i] = NL PROVE i > w
    <3> SUFFICES ASSUME i <= w PROVE FALSE
      BY <1>7
    <3>1. s + i - 1 \in s .. q - 1
      BY <1>4, <1>7
    <3>2. rest[i] = script[s + i - 1]
      BY <1>8
    <3> QED BY <1>6, <2>5, <3>1, <3>2
  <2>6. L = SHELL_CMD_SIZE - 1 \/ L = r \/ (L \in 1 .. r /\ L > w)
    <3>1. DOMAIN rest = 1 .. r
      BY <1>8
    <3> QED BY <1>8, <2>4, <2>5, <3>1
  <2>7. CASE q = m + 1
    <3>1. w = r
      BY <1>4, <1>7, <2>7
    <3> QED BY <1>10, <1>12, <2>6, <2>7, <3>1
  <2>8. CASE q # m + 1
    <3>1. w + 1 \in 1 .. r /\ s + (w + 1) - 1 = q
      BY <1>4, <1>7, <2>8
    <3>2. rest[w + 1] = NL /\ DOMAIN rest = 1 .. r
      BY <1>5, <1>8, <2>8, <3>1
    <3>3. w + 1 \in M
      BY <3>1, <3>2
    <3>4. L <= w + 1
      BY <2>4, <3>3
    <3> QED BY <1>10, <1>12, <2>6, <2>8, <3>1, <3>4
  <2> QED BY <2>7, <2>8
<1>14. PICK line : line = LineRead
  OBVIOUS
<1>15. /\ line = Run(script, s, s + L) /\ line \in Seq(STRING) /\ Len(line) = L
       /\ \A i \in 1 .. L : line[i] = script[s + i - 1]
  <2>1. (L + 1) - 1 = L /\ L + 1 \in 1 .. r + 1 /\ 1 \in 1 .. r + 1 /\ L + 1 - 1 = L
    BY <1>12
  <2>2. line = Run(rest, 1, L + 1)
    BY <1>11, <1>14, <2>1 DEF LineRead, Run
  <2>3. s \in 1 .. m + 1 /\ m + 1 \in s .. m + 1 /\ 1 \in 1 .. (m + 1) - s + 1
        /\ L + 1 \in 1 .. (m + 1) - s + 1
    BY <1>4, <1>7, <1>12
  <2>4. Run(Run(script, s, m + 1), 1, L + 1) = Run(script, s + 1 - 1, s + (L + 1) - 1)
    BY <1>1, <2>3, RunOfRun
  <2>5. s + 1 - 1 = s /\ s + (L + 1) - 1 = s + L /\ s + L \in s .. m + 1 /\ (s + L) - s = L
    BY <1>4, <1>7, <1>12
  <2>6. line = Run(script, s, s + L)
    BY <1>3, <2>2, <2>4, <2>5
  <2>7. PICK z \in Int : z = s + L
    BY <2>5
  <2>8. z \in s .. m + 1 /\ L = z - s
    BY <2>5, <2>7
  <2>9. line = Run(script, s, z)
    BY <2>6, <2>7
  <2>10. /\ line \in Seq(STRING) /\ Len(line) = L
         /\ \A i \in 1 .. L : line[i] = script[s + i - 1]
    <3>1. PICK seq \in Seq(STRING) : seq = script
      OBVIOUS
    <3>2. m = Len(seq) /\ line = Run(seq, s, z) /\ s \in 1 .. m + 1
      BY <1>1, <2>3, <2>9, <3>1
    <3>3. /\ line \in Seq(STRING) /\ Len(line) = L
          /\ \A i \in 1 .. L : line[i] = seq[s + i - 1]
      BY <2>8, <3>2, RunFacts DEF Run
    <3> QED BY <3>1, <3>3
  <2> QED BY <2>6, <2>10
<1>16. BeforeNewline(line) = Run(script, s, q)
  <2>1. w \in 0 .. L
    BY <1>7, <1>12, <1>13
  <2>2. w = Len(line) \/ line[w + 1] = NL
    <3>1. w = L \/ (w + 1 \in 1 .. L /\ s + (w + 1) - 1 = q /\ q # m + 1)
      BY <1>4, <1>7, <1>12, <1>13
    <3> QED BY <1>5, <1>15, <3>1
  <2>3. ASSUME NEW i \in 1 .. w PROVE line[i] # NL
    <3>1. i \in 1 .. L
      BY <1>12, <2>1
    <3>2. s + i - 1 \in s .. q - 1
      BY <1>4, <1>7
    <3>3. line[i] = script[s + i - 1]
      BY <1>15, <3>1
    <3> QED BY <1>6, <3>2, <3>3
  <2>4. BeforeNewline(line) = Run(line, 1, w + 1)
    BY <1>15, <2>1, <2>2, <2>3, NewlineIsCut
  <2>5. s \in 1 .. m + 1 /\ s + L \in s .. m + 1 /\ 1 \in 1 .. (s + L) - s + 1
        /\ w + 1 \in 1 .. (s + L) - s + 1
    BY <1>4, <1>7, <1>12, <2>1
  <2>6. Run(Run(script, s, s + L), 1, w + 1) = Run(script, s + 1 - 1, s + (w + 1) - 1)
    BY <1>1, <2>5, RunOfRun
  <2>7. s + 1 - 1 = s /\ s + (w + 1) - 1 = q
    BY <1>4, <1>7
  <2> QED BY <1>15, <2>4, <2>6, <2>7
<1>17. RestRead = Run(script, q + 1, m + 1)
  <2>1. RestRead = Run(rest, L + 1, r + 1)
    <3>1. (r + 1) - 1 = r
      BY <1>7
    <3> QED BY <1>8, <1>11, <3>1 DEF RestRead, Run
  <2>2. s \in 1 .. m + 1 /\ m + 1 \in s .. m + 1 /\ L + 1 \in 1 .. (m + 1) - s + 1
        /\ r + 1 \in L + 1 .. (m + 1) - s + 1
    BY <1>4, <1>7, <1>12
  <2>3. Run(Run(script, s, m + 1), L + 1, r + 1) = Run(script, s + (L + 1) - 1, s + (r + 1) - 1)
    BY <1>1, <2>2, RunOfRun
  <2>4. s + (L + 1) - 1 = s + L /\ s + (r + 1) - 1 = m + 1
    BY <1>4, <1>7, <1>12
  <2>5. RestRead = Run(script, s + L, m + 1)
    BY <1>3, <2>1, <2>3, <2>4
  <2>6. CASE q = m + 1
    <3>1. s + L = m + 1 /\ (m + 1) - 1 = m /\ m < m + 1 /\ m < q + 1 /\ m \in Int
          /\ m + 1 \in Int /\ q + 1 \in Int
      BY <1>4, <1>7, <1>13, <2>6
    <3>2. SubSeq(script, m + 1, m) = <<>> /\ SubSeq(script, q + 1, m) = <<>>
      BY <3>1, SubSeqEmpty
    <3>3. Run(script, s + L, m + 1) = <<>> /\ Run(script, q + 1, m + 1) = <<>>
      BY <3>1, <3>2 DEF Run
    <3> QED BY <2>5, <3>3
  <2>7. CASE q # m + 1
    <3>1. s + L = q + 1
      BY <1>4, <1>7, <1>13, <2>7
    <3> QED BY <2>5, <3>1
  <2> QED BY <2>6, <2>7
<1> QED BY <1>1, <1>4, <1>9, <1>14, <1>16, <1>17

-----------------------------------------------------------------------------
(* Type correctness.                                                       *)

\* What is left is an end of the input, and nothing once fgets has met its end.
InputInv == /\ script \in Seq(STRING) /\ eof \in BOOLEAN /\ lines \in Nat
            /\ \E k \in 0 .. Len(script) : rest = SubSeq(script, k + 1, Len(script))
            /\ eof => rest = <<>>

\* Only the commands exit and quit answer EXIT_SHELL.
TurnInv == /\ pc \in {"read", "execute", "clean", "ended", "crashed"}
           /\ args \in Seq(Seq(STRING) \ {<<>>}) /\ error \in Int
           /\ pc = "clean" /\ error = EXIT_SHELL => args \in {<<(<<"exit">>)>>, <<(<<"quit">>)>>}

DiskInv == /\ \A d \in DOMAIN disks : IsImage(disks[d])
           /\ StructType(u) /\ (u.open => name \in DOMAIN disks) /\ (u.mounted => u.open)
           /\ reformatted \in BOOLEAN
           /\ StateIsOfTheDisk

ShellInv == InputInv /\ TurnInv /\ DiskInv

LEMMA ShellInvIsTyped == ShellInv => TypeOK /\ StateIsOfTheDisk
<1> SUFFICES ASSUME ShellInv PROVE TypeOK /\ StateIsOfTheDisk
  OBVIOUS
<1>1. \A k \in DOMAIN args : args[k] # <<>>
  BY DEF ShellInv, TurnInv
<1> QED BY <1>1 DEF ShellInv, InputInv, TurnInv, DiskInv, TypeOK

\* What is left of the input is a sequence of items.
LEMMA RestType ==
    ASSUME InputInv
    PROVE  /\ rest \in Seq(STRING)
           /\ \E k \in 0 .. Len(script) : rest = Run(script, k + 1, Len(script) + 1)
<1>1. PICK k \in 0 .. Len(script) : rest = SubSeq(script, k + 1, Len(script))
  BY DEF InputInv
<1>2. PICK seq \in Seq(STRING) : seq = script
  BY DEF InputInv
<1>3. PICK m \in Nat : m = Len(seq)
  OBVIOUS
<1>4. k + 1 \in 1 .. m + 1 /\ m + 1 \in k + 1 .. m + 1 /\ (m + 1) - 1 = m
  BY <1>2, <1>3
<1>5. PICK v : v = Run(seq, k + 1, m + 1)
  OBVIOUS
<1>6. v \in Seq(STRING)
  BY <1>3, <1>4, <1>5, RunFacts DEF Run
<1>7. v = rest
  BY <1>1, <1>2, <1>3, <1>4, <1>5 DEF Run
<1> QED BY <1>2, <1>3, <1>5, <1>6, <1>7

\* A command that answers anything but EXIT_SHELL leaves input and line alone.
LEMMA AnswerKeeps ==
    ASSUME InputInv, TurnInv, NEW code \in Int \ {EXIT_SHELL}, Answer(code)
    PROVE  InputInv' /\ TurnInv'
  BY DEF InputInv, TurnInv, Answer, input

LEMMA DiskKept ==
    ASSUME DiskInv, UNCHANGED disk PROVE DiskInv'
  BY DEF DiskInv, StateIsOfTheDisk, disk

LEMMA ShellInitial == Init => ShellInv
<1> SUFFICES ASSUME Init PROVE ShellInv
  OBVIOUS
<1>1. script \in Seq(STRING) /\ rest = script
  BY ShellAssumption DEF Init
<1>2. InputInv
  <2>1. 0 \in 0 .. Len(script) /\ rest = SubSeq(script, 0 + 1, Len(script))
    BY <1>1, SubSeqFull
  <2> QED BY <1>1, <2>1 DEF Init, InputInv
<1>3. TurnInv
  <2>1. <<>> \in Seq(Seq(STRING) \ {<<>>})
    OBVIOUS
  <2> QED BY <2>1 DEF Init, TurnInv
<1>4. DiskInv
  <2>1. StructType(u) /\ ~u.open /\ ~u.mounted
    BY ClosedType DEF Init
  <2> QED BY <2>1, ShellAssumption DEF Init, DiskInv, StateIsOfTheDisk
<1> QED BY <1>2, <1>3, <1>4 DEF ShellInv

\* Cutting off the line that is due leaves an end of the input.
LEMMA ReadKeepsInput ==
    ASSUME InputInv, rest # <<>>, NEW L, L = LineLength
    PROVE  \E k \in 0 .. Len(script) : SubSeq(rest, L + 1, Len(rest)) = SubSeq(script, k + 1, Len(script))
<1>1. PICK k \in 0 .. Len(script) : rest = Run(script, k + 1, Len(script) + 1)
  BY RestType
<1>2. PICK m \in Nat : m = Len(script) /\ script \in Seq(STRING)
  BY DEF InputInv
<1>3. PICK n \in Nat : n = Len(rest) /\ rest \in Seq(STRING)
  BY RestType
<1>4. L \in 1 .. n
  BY <1>3, LineLengthType
<1>5. n = m - k
  <2>1. PICK z \in Int : z = m + 1
    BY <1>2
  <2>2. PICK p \in Int : p = k + 1
    BY <1>2
  <2>3. p \in 1 .. m + 1 /\ z \in p .. m + 1 /\ m - k = z - p
    BY <1>2, <2>1, <2>2
  <2>4. PICK seq \in Seq(STRING) : seq = script
    BY <1>2
  <2>5. PICK v : v = rest
    OBVIOUS
  <2>6. m = Len(seq) /\ v = Run(seq, p, z)
    BY <1>1, <1>2, <2>1, <2>2, <2>4, <2>5
  <2>7. Len(v) = z - p
    BY <2>3, <2>6, RunFacts DEF Run
  <2> QED BY <1>3, <2>3, <2>5, <2>7
<1>6. /\ k + 1 \in 1 .. m + 1 /\ m + 1 \in k + 1 .. m + 1
      /\ L + 1 \in 1 .. (m + 1) - (k + 1) + 1 /\ n + 1 \in L + 1 .. (m + 1) - (k + 1) + 1
  BY <1>2, <1>4, <1>5
<1>7. Run(Run(script, k + 1, m + 1), L + 1, n + 1) = Run(script, (k + 1) + (L + 1) - 1, (k + 1) + (n + 1) - 1)
  BY <1>2, <1>6, RunOfRun
<1>8. /\ (k + 1) + (L + 1) - 1 = (k + L) + 1 /\ (k + 1) + (n + 1) - 1 = m + 1 /\ k + L \in 0 .. m
      /\ (n + 1) - 1 = n /\ (m + 1) - 1 = m
  BY <1>2, <1>4, <1>5
<1>9. Run(rest, L + 1, n + 1) = Run(script, (k + L) + 1, m + 1)
  BY <1>1, <1>2, <1>7, <1>8
<1>10. SubSeq(rest, L + 1, n) = SubSeq(script, (k + L) + 1, m)
  BY <1>8, <1>9 DEF Run
<1> QED BY <1>2, <1>3, <1>8, <1>10

LEMMA LineReadType ==
    ASSUME InputInv, rest # <<>>
    PROVE  LineRead \in Seq(STRING)
<1>1. PICK L : L = LineLength
  OBVIOUS
<1>2. PICK seq \in Seq(STRING) : seq = rest
  BY RestType
<1>3. PICK n \in Nat : n = Len(seq)
  OBVIOUS
<1>4. L \in 1 .. n
  BY <1>1, <1>2, <1>3, LineLengthType
<1>5. (L + 1) - 1 = L /\ L + 1 \in 1 .. n + 1 /\ 1 \in 1 .. n + 1
  BY <1>4
<1>6. LineRead = SubSeq(seq, 1, (L + 1) - 1)
  BY <1>1, <1>2, <1>5 DEF LineRead
<1> QED BY <1>3, <1>5, <1>6, RunFacts

LEMMA ReadLineStep == ShellInv /\ ReadLine => ShellInv'
<1> SUFFICES ASSUME ShellInv, ReadLine PROVE ShellInv'
  OBVIOUS
<1>1. PICK L : L = LineLength
  OBVIOUS
<1>2. PICK line, left : line = SubSeq(rest, 1, L) /\ left = SubSeq(rest, L + 1, Len(rest))
  OBVIOUS
<1>3. /\ rest # <<>> /\ args' = tokenize_input(line) /\ rest' = left /\ lines' = lines + 1
      /\ pc' = "execute" /\ error' = 0 /\ script' = script /\ UNCHANGED disk
  BY <1>1, <1>2 DEF ReadLine
<1>4. eof' \in BOOLEAN /\ (eof' => L = Len(rest))
  BY <1>1 DEF ReadLine
<1>5. InputInv /\ TurnInv /\ DiskInv
  BY DEF ShellInv
<1>6. rest \in Seq(STRING)
  BY <1>5, RestType
<1>7. L \in 1 .. Len(rest)
  BY <1>1, <1>3, <1>6, LineLengthType
<1>8. InputInv'
  <2>1. PICK k \in 0 .. Len(script) : left = SubSeq(script, k + 1, Len(script))
    BY <1>1, <1>2, <1>3, <1>5, ReadKeepsInput
  <2>2. eof' => left = <<>>
    <3> SUFFICES ASSUME eof' PROVE left = <<>>
      OBVIOUS
    <3>1. PICK n \in Nat : n = Len(rest)
      BY <1>6
    <3>2. L = n /\ n + 1 \in Int /\ n < n + 1
      BY <1>4, <3>1
    <3> QED BY <1>2, <3>1, <3>2, SubSeqEmpty
  <2> QED BY <1>3, <1>4, <1>5, <2>1, <2>2 DEF InputInv
<1>9. TurnInv'
  <2>1. line \in Seq(STRING)
    BY <1>1, <1>2, <1>3, <1>5, LineReadType DEF LineRead
  <2>2. args' \in Seq(Seq(STRING) \ {<<>>})
    BY <1>3, <2>1, TokensType
  <2> QED BY <1>3, <2>2 DEF TurnInv
<1>10. DiskInv'
  BY <1>3, <1>5, DiskKept
<1> QED BY <1>8, <1>9, <1>10 DEF ShellInv

\* The steps that leave the disks and the structure alone.
LEMMA QuietSteps ==
    ShellInv /\ (ReadNothing \/ EndTurn \/ Refused \/ DoNothing \/ DoPsb \/ UNCHANGED vars) => ShellInv'
<1> SUFFICES ASSUME ShellInv,
                    ReadNothing \/ EndTurn \/ Refused \/ DoNothing \/ DoPsb \/ UNCHANGED vars
             PROVE  ShellInv'
  OBVIOUS
<1>1. InputInv /\ TurnInv /\ DiskInv
  BY DEF ShellInv
<1>2. UNCHANGED disk
  BY DEF ReadNothing, EndTurn, Refused, DoNothing, DoPsb, vars, disk
<1>3. DiskInv'
  BY <1>1, <1>2, DiskKept
<1>4. CASE ReadNothing
  BY <1>1, <1>3, <1>4 DEF ReadNothing, ShellInv, InputInv, TurnInv, ERR_INVALID_CMD, EXIT_SHELL
<1>5. CASE EndTurn
  <2>1. <<>> \in Seq(Seq(STRING) \ {<<>>})
    OBVIOUS
  <2> QED BY <1>1, <1>3, <1>5, <2>1 DEF EndTurn, ShellInv, InputInv, TurnInv, input
<1>6. CASE Refused \/ DoNothing \/ DoPsb
  <2>1. PICK code \in Int \ {EXIT_SHELL} : Answer(code)
    BY <1>6 DEF Refused, DoNothing, DoPsb, EXIT_SHELL, ERR_WRONG_NMB_ARG, ERR_INVALID_CMD,
                ERR_DISK_NOT_MOUNT
  <2> QED BY <1>1, <1>3, <2>1, AnswerKeeps DEF ShellInv
<1>7. CASE UNCHANGED vars
  BY <1>1, <1>3, <1>7 DEF vars, ShellInv, InputInv, TurnInv
<1> QED BY <1>4, <1>5, <1>6, <1>7

LEMMA DoExitStep == ShellInv /\ DoExit => ShellInv'
<1> SUFFICES ASSUME ShellInv, DoExit PROVE ShellInv'
  OBVIOUS
<1>1. InputInv /\ TurnInv /\ DiskInv
  BY DEF ShellInv
<1>2. Answer(EXIT_SHELL) /\ u' = Closed /\ disks' = disks /\ reformatted' = reformatted
  BY DEF DoExit
<1>3. args \in {<<(<<"exit">>)>>, <<(<<"quit">>)>>}
  <2>1. PICK c \in {"exit", "quit"} : Runs(c)
    BY DEF DoExit
  <2>2. args # <<>> /\ args[1] = <<c>> /\ Len(args) - 1 = 0
    <3>1. Argc["exit"] = 0 /\ Argc["quit"] = 0
      BY DEF Argc
    <3>2. Argc[c] = 0
      BY <2>1, <3>1
    <3> QED BY <2>1, <3>2 DEF Runs
  <2>3. PICK S : S = Seq(STRING) \ {<<>>} /\ args \in Seq(S)
    BY <1>1 DEF TurnInv
  <2>4. Len(args) = 1
    BY <2>2, <2>3
  <2>5. args = <<args[1]>>
    <3>1. PICK a, one : a = args /\ one = <<args[1]>>
      OBVIOUS
    <3>2. a \in Seq(S) /\ one \in Seq(S) /\ Len(a) = 1 /\ Len(one) = 1 /\ one[1] = a[1]
      BY <2>3, <2>4, <3>1
    <3>3. \A i \in 1 .. 1 : a[i] = one[i]
      BY <3>2
    <3>4. a = one
      BY <3>2, <3>3, SeqEqual
    <3> QED BY <3>1, <3>4
  <2> QED BY <2>2, <2>5
<1>4. InputInv' /\ TurnInv'
  BY <1>1, <1>2, <1>3 DEF InputInv, TurnInv, Answer, input, EXIT_SHELL
<1>5. DiskInv'
  BY <1>1, <1>2, ClosedType DEF DiskInv, StateIsOfTheDisk
<1> QED BY <1>4, <1>5 DEF ShellInv

LEMMA DoMountStep == ShellInv /\ DoMount => ShellInv'
<1> SUFFICES ASSUME ShellInv, DoMount PROVE ShellInv'
  OBVIOUS
<1>1. InputInv /\ TurnInv /\ DiskInv
  BY DEF ShellInv
<1>2. PICK d : d = args[2]
  OBVIOUS
<1>3. reformatted' = FALSE /\ name' = d /\ disks' = disks
  BY <1>2 DEF DoMount
<1>4. CASE /\ d \in DOMAIN disks /\ u' = Mounted(disks[d])
           /\ buf' \in Windows(disks[d]) /\ Answer(mount_error(disks[d]))
  <2>1. PICK img : img = disks[d]
    OBVIOUS
  <2>2. IsImage(img)
    BY <1>1, <1>4, <2>1 DEF DiskInv
  <2>3. \A n \in DOMAIN img : img[n] \in Sector
    BY <2>2 DEF IsImage
  <2>4. PICK v : v = mount_result(img)
    OBVIOUS
  <2>5. StructType(v) /\ v.open /\ mount_error(img) \in Int
    BY <2>3, <2>4, MountResultType
  <2>6. mount_error(img) # EXIT_SHELL
    BY DEF mount_error, EXIT_SHELL, ERR_IO, ERR_BADBOOTSECTOR
  <2>7. u' = v
    BY <1>4, <2>1, <2>4 DEF Mounted
  <2>8. InputInv' /\ TurnInv'
    BY <1>1, <1>4, <2>1, <2>5, <2>6, AnswerKeeps
  <2>9. DOMAIN buf' \subseteq DOMAIN img /\ \A n \in DOMAIN buf' : buf'[n] = img[n]
    BY <1>4, <2>1 DEF Windows, Window, Nothing
  <2>10. disks'[name'] = img /\ name' \in DOMAIN disks'
    BY <1>3, <1>4, <2>1
  <2>11. StateIsOfTheDisk'
    BY <2>4, <2>7, <2>9, <2>10 DEF StateIsOfTheDisk
  <2>12. DiskInv'
    BY <1>1, <1>3, <2>5, <2>7, <2>10, <2>11 DEF DiskInv
  <2> QED BY <2>8, <2>12 DEF ShellInv
<1>5. CASE u' = NotOpened /\ Answer(ERR_IO)
  <2>1. InputInv' /\ TurnInv'
    BY <1>1, <1>5, AnswerKeeps DEF ERR_IO, EXIT_SHELL
  <2>2. DiskInv'
    BY <1>1, <1>3, <1>5, ClosedType DEF DiskInv, StateIsOfTheDisk, NotOpened
  <2> QED BY <2>1, <2>2 DEF ShellInv
<1> QED BY <1>2, <1>4, <1>5 DEF DoMount

\* The commands that only read fill the buffer with what is on the disk.
LEMMA BufferKeeps ==
    ASSUME DiskInv, UNCHANGED <<disks, u, name, reformatted>>,
           buf' # buf => /\ DOMAIN buf' \subseteq DOMAIN disks[name]
                         /\ \A n \in DOMAIN buf' : buf'[n] = disks[name][n]
    PROVE  DiskInv'
  BY DEF DiskInv, StateIsOfTheDisk

LEMMA DoPathStep == ShellInv /\ DoPath => ShellInv'
<1> SUFFICES ASSUME ShellInv, DoPath PROVE ShellInv'
  OBVIOUS
<1>1. InputInv /\ TurnInv /\ DiskInv
  BY DEF ShellInv
<1>2. PICK code \in Int \ {EXIT_SHELL} : Answer(code)
  BY DEF DoPath, EXIT_SHELL, ERR_DISK_NOT_MOUNT, ERR_BAD_PARAMETER, ERR_IO, ERR_CAT_ON_DIRECTORY
<1>3. buf' \in Windows(disks[name]) \cup {buf} /\ UNCHANGED <<disks, u, name, reformatted>>
  BY DEF DoPath
<1>4. DiskInv'
  BY <1>1, <1>3, BufferKeeps DEF Windows, Window, Nothing
<1> QED BY <1>1, <1>2, <1>4, AnswerKeeps DEF ShellInv

LEMMA DoIstatStep == ShellInv /\ DoIstat => ShellInv'
<1> SUFFICES ASSUME ShellInv, DoIstat PROVE ShellInv'
  OBVIOUS
<1>1. InputInv /\ TurnInv /\ DiskInv
  BY DEF ShellInv
<1>2. PICK code \in Int \ {EXIT_SHELL} : Answer(code)
  BY DEF DoIstat, EXIT_SHELL, ERR_DISK_NOT_MOUNT, ERR_INVALID_CMD
<1>3. PICK n : buf' = buf \/ buf' = Window(disks[name], n)
  BY DEF DoIstat
<1>4. UNCHANGED <<disks, u, name, reformatted>>
  BY DEF DoIstat
<1>5. DiskInv'
  BY <1>1, <1>3, <1>4, BufferKeeps DEF Window
<1> QED BY <1>1, <1>2, <1>5, AnswerKeeps DEF ShellInv

\* What mkfs does to the files, and the words that it takes its numbers from.
LEMMA MkfsWrites ==
    ASSUME DoMkfs, disks' # disks, NEW blocks, blocks = atoi(args[4]),
           NEW inodes, inodes = atoi(args[3]), NEW s, s = MkfsSuperblock(Uint16(blocks), Uint16(inodes))
    PROVE  /\ ~(blocks < 0) /\ ~(inodes < 0) /\ Answer(0) /\ UNCHANGED <<u, name, buf>>
           /\ disks' = [d \in DOMAIN disks \cup {args[2]} |->
                           IF d = args[2] THEN MkfsImage(s) ELSE disks[d]]
           /\ reformatted' = (reformatted \/ (u.open /\ name = args[2]))
  BY DEF DoMkfs, MkfsNumbers, disk
LEMMA AtoiType ==
    ASSUME NEW word PROVE atoi(word) \in Int
  BY ShellAssumption DEF atoi

LEMMA Uint16Type ==
    ASSUME NEW n \in Nat
    PROVE  /\ Uint16(n) \in Word
           /\ n \in Word => Uint16(n) = n
<1>1. PICK W \in Nat \ {0} : W = UINT16_MAX + 1
  BY WordFacts
<1>2. Uint16(n) = n % W /\ Word = 0 .. W - 1
  <2>1. UINT16_MAX = W - 1
    BY <1>1, WordFacts
  <2> QED BY <1>1, <2>1 DEF Uint16, Word
<1>3. Uint16(n) \in Word
  BY <1>2, DivModFacts
<1>4. ASSUME n \in Word PROVE Uint16(n) = n
  <2>1. 0 \in Nat /\ n \in 0 .. W - 1
    BY <1>2, <1>4
  <2>2. (0 * W + n) % W = n
    BY <1>1, <2>1, DivModUnique
  <2>3. 0 * W + n = n
    BY <1>1
  <2> QED BY <1>2, <2>2, <2>3
<1> QED BY <1>3, <1>4

LEMMA DoMkfsStep == ShellInv /\ DoMkfs => ShellInv'
<1> SUFFICES ASSUME ShellInv, DoMkfs PROVE ShellInv'
  OBVIOUS
<1>1. InputInv /\ TurnInv /\ DiskInv
  BY DEF ShellInv
<1>2. PICK code \in Int \ {EXIT_SHELL} : Answer(code)
  BY DEF DoMkfs, EXIT_SHELL, ERR_BAD_PARAMETER, ERR_NOT_ENOUGH_BLOCS, ERR_IO
<1>3. UNCHANGED <<u, name, buf>>
  BY DEF DoMkfs, disk
<1>4. CASE disks' = disks
  <2>1. reformatted' \in BOOLEAN /\ (reformatted => reformatted')
    BY <1>1 DEF DoMkfs, disk, DiskInv
  <2>2. DiskInv'
    BY <1>1, <1>3, <1>4, <2>1 DEF DiskInv, StateIsOfTheDisk
  <2> QED BY <1>1, <1>2, <2>2, AnswerKeeps DEF ShellInv
<1>5. CASE disks' # disks
  <2>1. PICK b, i, s, d : /\ b = atoi(args[4]) /\ i = atoi(args[3]) /\ d = args[2]
                          /\ s = MkfsSuperblock(Uint16(b), Uint16(i))
    OBVIOUS
  <2>2. /\ ~(b < 0) /\ ~(i < 0)
        /\ disks' = [e \in DOMAIN disks \cup {d} |-> IF e = d THEN MkfsImage(s) ELSE disks[e]]
        /\ reformatted' = (reformatted \/ (u.open /\ name = d))
    BY <1>5, <2>1, MkfsWrites
  <2>3. IsImage(MkfsImage(s))
    <3>1. b \in Nat /\ i \in Nat
      BY <2>1, <2>2, AtoiType
    <3>2. Uint16(b) \in Word /\ Uint16(i) \in Word
      BY <3>1, Uint16Type
    <3> QED BY <2>1, <3>2, MkfsImageType
  <2>4. \A e \in DOMAIN disks' : IsImage(disks'[e])
    BY <1>1, <2>2, <2>3 DEF DiskInv
  <2>5. DOMAIN disks \subseteq DOMAIN disks' /\ \A e \in DOMAIN disks : e # d => disks'[e] = disks[e]
    BY <2>2
  <2>6. /\ StructType(u) /\ (u.open => name \in DOMAIN disks) /\ (u.mounted => u.open)
        /\ reformatted' \in BOOLEAN
    BY <1>1, <2>2 DEF DiskInv
  <2>7. StateIsOfTheDisk'
    BY <1>1, <1>3, <2>2, <2>5, <2>6 DEF DiskInv, StateIsOfTheDisk
  <2>8. DiskInv'
    BY <1>3, <2>4, <2>5, <2>6, <2>7 DEF DiskInv
  <2> QED BY <1>1, <1>2, <2>8, AnswerKeeps DEF ShellInv
<1> QED BY <1>4, <1>5

LEMMA ShellStep == ShellInv /\ [Next]_vars => ShellInv'
  BY ReadLineStep, QuietSteps, DoExitStep, DoMountStep, DoPathStep, DoIstatStep, DoMkfsStep
     DEF Next

LEMMA ShellInductive == Spec => []ShellInv
  BY ShellInitial, ShellStep, PTL DEF Spec

\* Type correctness: what is left of stdin is an end of it, every image file stays an image,
\* and the structure of mountv6 names an image file while its stream is open.
THEOREM ShellTypeCorrect == Spec => []TypeOK
  BY ShellInductive, ShellInvIsTyped, PTL

\* do_mount unmounts, clears and reads again (shell.c:173, 180): no sequence of mounts, mkfs
\* and failed mounts makes the structure or the buffer hold what is not on the mounted disk,
\* unless mkfs has written that very disk since.
THEOREM MountedStateIsCurrent == Spec => []StateIsOfTheDisk
  BY ShellInductive, ShellInvIsTyped, PTL

\* The loop of main ends at exit, at quit or at the end of stdin, and only there.
THEOREM ShellReadsOn == Spec => EndsAtExitOrEnd
<1>1. ASSUME ShellInv, [Next]_vars
      PROVE  [pc' \in {"ended", "crashed"}
               => rest = <<>> \/ args \in {<<(<<"exit">>)>>, <<(<<"quit">>)>>}]_vars
  <2>1. InputInv /\ TurnInv
    BY <1>1 DEF ShellInv
  <2>2. SUFFICES ASSUME Next, pc' \in {"ended", "crashed"}
                 PROVE  rest = <<>> \/ args \in {<<(<<"exit">>)>>, <<(<<"quit">>)>>}
    BY <1>1
  <2>3. ReadNothing \/ EndTurn
    BY <2>2 DEF Next, ReadLine, Refused, DoNothing, DoExit, DoMkfs, DoMount, DoPath, DoIstat, DoPsb,
                Answer
  <2>4. CASE ReadNothing
    BY <2>4 DEF ReadNothing
  <2>5. CASE EndTurn
    <3>1. pc = "clean" /\ (eof \/ error = EXIT_SHELL)
      BY <2>2, <2>5 DEF EndTurn, Stops
    <3> QED BY <2>1, <3>1 DEF InputInv, TurnInv
  <2> QED BY <2>3, <2>4, <2>5
<1> QED BY <1>1, ShellInductive, PTL DEF Spec, EndsAtExitOrEnd

\* What mkfs was told is what a mount of the disk reads (shell.c:66): the numbers that are
\* passed to mountv6_mkfs by the wrong names arrive in the right places, and no other file is
\* touched.
THEOREM MkfsAsTyped == Spec => MkfsMakesWhatIsTyped
<1>1. ASSUME DoMkfs, disks' # disks
      PROVE  LET s == SuperblockAt(disks'[args[2]][SUPERBLOCK_SECTOR])
             IN  /\ \A d \in DOMAIN disks : d = args[2] \/ disks'[d] = disks[d]
                 /\ atoi(args[3]) <= UINT16_MAX => s.s_isize = atoi(args[3]) \div INODES_PER_SECTOR
                 /\ atoi(args[4]) <= UINT16_MAX => s.s_fsize = atoi(args[4])
  <2>1. PICK b, i, s, d : /\ b = atoi(args[4]) /\ i = atoi(args[3]) /\ d = args[2]
                          /\ s = MkfsSuperblock(Uint16(b), Uint16(i))
    OBVIOUS
  <2>2. /\ ~(b < 0) /\ ~(i < 0)
        /\ disks' = [e \in DOMAIN disks \cup {d} |-> IF e = d THEN MkfsImage(s) ELSE disks[e]]
    BY <1>1, <2>1, MkfsWrites
  <2>3. b \in Nat /\ i \in Nat
    BY <2>1, <2>2, AtoiType
  <2>4. PICK b16, i16 \in Word : b16 = Uint16(b) /\ i16 = Uint16(i)
    BY <2>3, Uint16Type
  <2>5. (b <= UINT16_MAX => b16 = b) /\ (i <= UINT16_MAX => i16 = i)
    <3>1. (b <= UINT16_MAX => b \in Word) /\ (i <= UINT16_MAX => i \in Word)
      BY <2>2, <2>3, WordFacts DEF Word
    <3> QED BY <2>3, <2>4, <3>1, Uint16Type
  <2>6. s.s_isize = i16 \div INODES_PER_SECTOR /\ s.s_fsize = b16
    BY <2>1, <2>4 DEF MkfsSuperblock
  <2>7. SuperblockAt(disks'[d][SUPERBLOCK_SECTOR]) = s
    <3>1. s \in Superblock
      BY <2>1, <2>4, MkfsSuperblockType DEF Superblock
    <3>2. disks'[d] = MkfsImage(s)
      BY <2>2
    <3>3. SUPERBLOCK_SECTOR \in DOMAIN MkfsImage(s)
      <4>1. MkfsInodeSectors(s) \in Nat
        <5>1. s.s_inode_start \in Nat /\ s.s_block_start \in Nat
          BY <3>1, WordFacts DEF Superblock
        <5>2. s.s_inode_start + s.s_block_start + 2 \in Nat
          BY <5>1
        <5> QED BY <5>2, PerSector, DivModFacts DEF MkfsInodeSectors
      <4> QED BY <4>1 DEF MkfsImage, SUPERBLOCK_SECTOR
    <3>4. MkfsImage(s)[SUPERBLOCK_SECTOR] = SuperblockSector(s)
      BY <3>3 DEF MkfsImage, BOOTBLOCK_SECTOR, SUPERBLOCK_SECTOR
    <3> QED BY <3>1, <3>2, <3>4, SuperblockRoundTrip
  <2>8. \A e \in DOMAIN disks : e = d \/ disks'[e] = disks[e]
    BY <2>2
  <2> QED BY <2>1, <2>5, <2>6, <2>7, <2>8
<1>2. ASSUME [Next]_vars, disks' # disks
      PROVE  DoMkfs
  BY <1>2 DEF Next, ReadLine, ReadNothing, EndTurn, Refused, DoNothing, DoExit, DoMount, DoPath,
              DoIstat, DoPsb, disk, vars
<1>3. ASSUME [Next]_vars
      PROVE  [disks' # disks =>
               LET s == SuperblockAt(disks'[args[2]][SUPERBLOCK_SECTOR])
               IN  /\ \A d \in DOMAIN disks : d = args[2] \/ disks'[d] = disks[d]
                   /\ atoi(args[3]) <= UINT16_MAX => s.s_isize = atoi(args[3]) \div INODES_PER_SECTOR
                   /\ atoi(args[4]) <= UINT16_MAX => s.s_fsize = atoi(args[4])]_vars
  BY <1>1, <1>2, <1>3
<1> QED BY <1>3, PTL DEF Spec, MkfsMakesWhatIsTyped

-----------------------------------------------------------------------------
(* The command is the line.                                                *)

\* No line that was read fills the buffer of fgets.
ShortLines == \A k \in 1 .. lines : Len(Line(k)) < SHELL_CMD_SIZE - 1

\* While the lines fit, fgets has taken that many of them, and the rest is what follows.
LineInv == ShortLines =>
    /\ lines \in 0 .. Cardinality(EndSet(script))
    /\ rest = Run(script, LineStart(script, lines + 1), Len(script) + 1)
    /\ pc = "execute" => TAB \in ToSet(Line(lines)) \/ args = Pieces(Line(lines), {SP})

LEMMA LineInitial == Init => LineInv
<1> SUFFICES ASSUME Init PROVE LineInv
  OBVIOUS
<1>1. script \in Seq(STRING) /\ rest = script /\ lines = 0 /\ pc = "read"
  BY ShellAssumption DEF Init
<1>2. PICK n \in Nat : n = Cardinality(EndSet(script))
  BY <1>1, EndsInOrder
<1>3. LineStart(script, 0 + 1) = 1
  BY DEF LineStart
<1>4. Run(script, 1, Len(script) + 1) = script
  <2>1. PICK m \in Nat : m = Len(script)
    BY <1>1
  <2>2. (m + 1) - 1 = m
    BY <2>1
  <2> QED BY <1>1, <2>1, <2>2, SubSeqFull DEF Run
<1> QED BY <1>1, <1>2, <1>3, <1>4 DEF LineInv

\* The words of the line that fgets gives, when it is the line that is due.
LEMMA LineIsCommand ==
    ASSUME NEW line \in Seq(STRING), NEW text \in Seq(STRING), text = BeforeNewline(line)
    PROVE  TAB \in ToSet(text) \/ tokenize_input(line) = Pieces(text, {SP})
<1>1. CASE \E p \in DOMAIN text : text[p] = TAB
  BY <1>1 DEF ToSet
<1>2. CASE \A p \in DOMAIN text : text[p] # TAB
  BY <1>2, TokensAreWords
<1> QED BY <1>1, <1>2

LEMMA ReadLineDue ==
    ASSUME InputInv, LineInv, ReadLine
    PROVE  LineInv'
<1>1. PICK n \in Nat : n = lines
  BY DEF InputInv
<1>2. PICK L : L = LineLength
  OBVIOUS
<1>3. /\ rest # <<>> /\ args' = tokenize_input(LineRead) /\ rest' = RestRead /\ lines' = n + 1
      /\ script' = script
  BY <1>1 DEF ReadLine, LineRead, RestRead
<1>4. SUFFICES ASSUME ShortLines' PROVE LineInv'
  BY DEF LineInv
<1>5. \A k \in 1 .. n + 1 : Len(Line(k)) < SHELL_CMD_SIZE - 1
  BY <1>3, <1>4 DEF ShortLines, Line
<1>6. ShortLines /\ Len(Line(n + 1)) < SHELL_CMD_SIZE - 1
  BY <1>1, <1>5 DEF ShortLines
<1>7. /\ n \in 0 .. Cardinality(EndSet(script))
      /\ rest = Run(script, LineStart(script, n + 1), Len(script) + 1)
  BY <1>1, <1>6 DEF LineInv
<1>8. /\ n + 1 \in 1 .. Cardinality(EndSet(script))
      /\ BeforeNewline(LineRead) = Line(n + 1)
      /\ RestRead = Run(script, LineStart(script, n + 2), Len(script) + 1)
  BY <1>3, <1>6, <1>7, ReadsTheLine DEF InputInv
<1>9. PICK line, text : line = LineRead /\ text = BeforeNewline(line)
  OBVIOUS
<1>10. line \in Seq(STRING)
  BY <1>3, <1>9, LineReadType
<1>11. TAB \in ToSet(text) \/ tokenize_input(line) = Pieces(text, {SP})
  BY <1>9, <1>10, BeforeNewlineType, LineIsCommand
<1>12. TAB \in ToSet(Line(n + 1)) \/ args' = Pieces(Line(n + 1), {SP})
  BY <1>3, <1>8, <1>9, <1>11
<1>13. (n + 1) + 1 = n + 2 /\ n + 1 \in 0 .. Cardinality(EndSet(script))
  BY <1>8
<1> QED BY <1>3, <1>8, <1>12, <1>13 DEF LineInv, Line

LEMMA LineStep ==
    ASSUME InputInv, LineInv, [Next]_vars
    PROVE  LineInv'
<1>1. CASE ReadLine
  BY <1>1, ReadLineDue
<1>2. CASE ~ReadLine
  <2>1. UNCHANGED <<script, rest, lines>> /\ (pc' = "execute" => pc = "execute" /\ args' = args)
    BY <1>2 DEF Next, vars, ReadNothing, EndTurn, Refused, DoNothing, DoExit, DoMkfs, DoMount, DoPath,
                DoIstat, DoPsb, Answer, input
  <2>2. ShortLines' => ShortLines
    BY <2>1 DEF ShortLines, Line
  <2> QED BY <2>1, <2>2 DEF LineInv, Line
<1> QED BY <1>1, <1>2

\* tokenize_input makes `a table of pointer to char' of the line that is due (shell.c:299), for
\* every input: after any number of lines and commands, what runs is the words of the line that
\* is due, unless a line has filled the buffer of fgets or this one has a tab.
THEOREM CommandsAreLines == Spec => []CommandIsLine
<1>1. Init => ShellInv /\ LineInv
  BY ShellInitial, LineInitial
<1>2. ShellInv /\ LineInv /\ [Next]_vars => (ShellInv /\ LineInv)'
  BY ShellStep, LineStep DEF ShellInv
<1>3. LineInv => CommandIsLine
  BY DEF LineInv, ShortLines, CommandIsLine
<1> QED BY <1>1, <1>2, <1>3, PTL DEF Spec
=============================================================================
