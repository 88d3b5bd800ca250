--------------------------- MODULE DirWalksProofs ---------------------------
(***************************************************************************)
(* Proofs about DirWalks, for every disk, every path and every set of      *)
(* sectors that fail.  But for the printed trees the directories may       *)
(* contain themselves.                                                     *)
(***************************************************************************)
EXTENDS DirWalks, LayoutLemmas

\* A stack of open readers of directories of the image.
IsStack(im, st) == \E S : st \in Seq(S) /\ \A frame \in S : Reader(im, frame.d)

IInv == /\ img \in Images
        /\ pc \in {"idle", "lookup", "opendir", "list", "tree"}
        /\ pc \in {"idle", "opendir"} <=> stack = <<>>
        /\ IsStack(img, stack)
        /\ ret \in Int
        /\ pc = "opendir" => ret \in Word

-----------------------------------------------------------------------------
(* Stacks.                                                                 *)

LEMMA EmptyIsStack == \A im : IsStack(im, <<>>)
<1> SUFFICES ASSUME NEW im PROVE IsStack(im, <<>>)
  OBVIOUS
<1>1. PICK S : S = {}
  OBVIOUS
<1>2. <<>> \in Seq(S) /\ \A frame \in S : Reader(im, frame.d)
  BY <1>1
<1> QED BY <1>2, Zenon DEF IsStack

LEMMA OneIsStack ==
    ASSUME NEW im, NEW d, Reader(im, d), NEW position, NEW prefix
    PROVE  IsStack(im, <<Frame(d, position, prefix)>>) /\ <<Frame(d, position, prefix)>> # <<>>
<1>1. PICK f : f = Frame(d, position, prefix)
  OBVIOUS
<1>2. f.d = d
  BY <1>1 DEF Frame
<1>3. <<f>> \in Seq({f}) /\ <<f>> # <<>>
  OBVIOUS
<1>4. IsStack(im, <<f>>)
  <2>1. PICK S : S = {f}
    OBVIOUS
  <2>2. <<f>> \in Seq(S) /\ \A frame \in S : Reader(im, frame.d)
    BY <1>2, <1>3, <2>1
  <2> QED BY <2>2, Zenon DEF IsStack
<1> QED BY <1>1, <1>3, <1>4

LEMMA JoinedStack ==
    ASSUME NEW im, NEW st, IsStack(im, st), NEW more, IsStack(im, more)
    PROVE  IsStack(im, st \o more) /\ (st # <<>> \/ more # <<>> => st \o more # <<>>)
<1>1. PICK S : st \in Seq(S) /\ \A frame \in S : Reader(im, frame.d)
  BY DEF IsStack
<1>2. PICK T : more \in Seq(T) /\ \A frame \in T : Reader(im, frame.d)
  BY DEF IsStack
<1> DEFINE U == S \cup T
<1>3. st \in Seq(U) /\ more \in Seq(U)
  BY <1>1, <1>2, SeqMonotonic
<1>4. \A frame \in U : Reader(im, frame.d)
  BY <1>1, <1>2
<1> HIDE DEF U
<1>5. st \o more \in Seq(U) /\ Len(st \o more) = Len(st) + Len(more)
  BY <1>3, ConcatProperties
<1>6. (st # <<>> => Len(st) \in Nat \ {0}) /\ (more # <<>> => Len(more) \in Nat \ {0})
      /\ Len(st) \in Nat /\ Len(more) \in Nat
  BY <1>3, EmptySeq, LenProperties
<1>7. Len(<<>>) = 0
  OBVIOUS
<1>8. st # <<>> \/ more # <<>> => st \o more # <<>>
  BY <1>5, <1>6, <1>7
<1> QED BY <1>4, <1>5, <1>8 DEF IsStack

LEMMA PoppedStack ==
    ASSUME NEW im, NEW st, IsStack(im, st), st # <<>>
    PROVE  /\ Reader(im, Last(st).d) /\ Reader(im, st[1].d)
           /\ IsStack(im, Front(st)) /\ Len(st) \in Nat \ {0}
           /\ Len(st) > 1 => Front(st) # <<>>
<1>1. PICK S : st \in Seq(S) /\ \A frame \in S : Reader(im, frame.d)
  BY DEF IsStack
<1>2. Len(st) \in Nat \ {0}
  BY <1>1, EmptySeq
<1>3. st[Len(st)] \in S /\ st[1] \in S
  BY <1>1, <1>2, ElementOfSeq
<1>4. Front(st) \in Seq(S) /\ Len(Front(st)) = Len(st) - 1
  <2>1. PICK n : n = Len(st) - 1
    OBVIOUS
  <2>2. n \in Int /\ 1 \in Int /\ n >= 0
    BY <1>2, <2>1
  <2>3. \A i \in 1 .. n : st[i] \in S
    BY <1>1, <1>2, <2>1, ElementOfSeq
  <2>4. SubSeq(st, 1, n) \in Seq(S) /\ Len(SubSeq(st, 1, n)) = IF 1 <= n THEN n - 1 + 1 ELSE 0
    BY <2>2, <2>3, SubSeqProperties
  <2>5. Len(SubSeq(st, 1, n)) = n
    BY <2>2, <2>4
  <2> QED BY <2>1, <2>4, <2>5 DEF Front
<1>5. Len(st) > 1 => Front(st) # <<>>
  <2>1. Len(<<>>) = 0
    OBVIOUS
  <2> QED BY <1>2, <1>4, <2>1
<1> QED BY <1>1, <1>2, <1>3, <1>4, <1>5 DEF IsStack, Last

LEMMA StackReaders ==
    ASSUME NEW im, NEW st, IsStack(im, st), NEW j \in DOMAIN st
    PROVE  Reader(im, st[j].d)
<1>1. PICK S : st \in Seq(S) /\ \A frame \in S : Reader(im, frame.d)
  BY DEF IsStack
<1>2. st[j] \in S
  BY <1>1, LenProperties, ElementOfSeq
<1> QED BY <1>1, <1>2

-----------------------------------------------------------------------------
(* The invariant.                                                          *)

LEMMA RootIsWord == ROOT_INUMBER \in Word /\ ROOT_INUMBER \in Int /\ Word \subseteq Int
  BY WordFacts DEF ROOT_INUMBER

LEMMA ReturnStep ==
    ASSUME img' \in Images, NEW code \in Int, Return(code)
    PROVE  IInv'
  BY EmptyIsStack DEF Return, IInv

LEMMA LookupReturnsStep ==
    ASSUME img' \in Images, NEW code \in Int, code > 0 => code \in Word, LookupReturns(code)
    PROVE  IInv'
<1>1. CASE Return(code)
  BY <1>1, ReturnStep
<1>2. CASE code > 0 /\ pc' = "opendir" /\ ret' = code /\ stack' = <<>>
  BY <1>2, EmptyIsStack DEF IInv
<1> QED BY <1>1, <1>2 DEF LookupReturns

LEMMA GoStep ==
    ASSUME img' \in Images, pc' \in {"lookup", "list", "tree"}, ret' \in Int,
           IsStack(img', stack'), stack' # <<>>
    PROVE  IInv'
  BY DEF IInv

LEMMA InvLookup == ASSUME IInv, Lookup PROVE IInv'
<1>0. PICK bad, start, path :
          LET open == direntv6_opendir(Visible(img, bad), MountedSuper(img), ROOT_INUMBER)
          IN  /\ IF start > 0 /\ start = Len(path) THEN LookupReturns(ROOT_INUMBER)
                 ELSE IF open.ret # 0 THEN LookupReturns(open.ret)
                 ELSE pc' = "lookup" /\ ret' = 0 /\ stack' = <<Frame(open.d, start, Root)>>
              /\ img' = img
  BY Zenon DEF Lookup, Opendir
<1>1. PICK open :
          /\ open = direntv6_opendir(Visible(img, bad), MountedSuper(img), ROOT_INUMBER)
          /\ IF start > 0 /\ start = Len(path) THEN LookupReturns(ROOT_INUMBER)
             ELSE IF open.ret # 0 THEN LookupReturns(open.ret)
             ELSE pc' = "lookup" /\ ret' = 0 /\ stack' = <<Frame(open.d, start, Root)>>
          /\ img' = img
  BY <1>0, Zenon
<1>2. img \in Images /\ IsImage(img)
  BY WalksAssumption DEF IInv
<1>3. open.ret \in Int /\ open.ret <= 0 /\ (open.ret = 0 => Reader(img, open.d))
  BY <1>1, <1>2, OpendirReads, RootIsWord
<1>4. CASE LookupReturns(ROOT_INUMBER)
  BY <1>1, <1>2, <1>4, LookupReturnsStep, RootIsWord
<1>5. CASE open.ret # 0 /\ LookupReturns(open.ret)
  BY <1>1, <1>2, <1>3, <1>5, LookupReturnsStep
<1>6. CASE open.ret = 0 /\ pc' = "lookup" /\ ret' = 0 /\ stack' = <<Frame(open.d, start, Root)>>
  BY <1>1, <1>2, <1>3, <1>6, OneIsStack, GoStep
<1> QED BY <1>1, <1>4, <1>5, <1>6

LEMMA InvLookupStep == ASSUME IInv, LookupStep PROVE IInv'
<1>1. PICK bad, bad2, r, s :
          /\ pc = "lookup" /\ img' = img /\ s = MountedSuper(img)
          /\ r = direntv6_readdir(Visible(img, bad), Last(stack).d)
          /\ \/ /\ LoopEnds(r)
                /\ IF Len(stack) = 1 THEN LookupReturns(ERR_INODE_OUTOF_RANGE)
                   ELSE stack' = Front(stack) /\ UNCHANGED <<pc, ret>>
             \/ /\ ~LoopEnds(r)
                /\ \E below \in {direntv6_opendir(Visible(img, bad2), s, r.child)} : \E tail :
                      LookupTurn(Last(stack), r, below, tail)
  BY Zenon DEF LookupStep, Readdir, Opendir
<1>2. img \in Images /\ IsImage(img) /\ stack # <<>> /\ IsStack(img, stack) /\ ret \in Int
  BY <1>1, WalksAssumption DEF IInv
<1>3. /\ Reader(img, Last(stack).d) /\ IsStack(img, Front(stack)) /\ Len(stack) \in Nat \ {0}
      /\ Len(stack) > 1 => Front(stack) # <<>>
  BY <1>2, PoppedStack
<1>4. Reader(img, r.d) /\ r.ret \in Int /\ (r.ret = 1 => r.child \in Word)
  BY <1>1, <1>2, <1>3, ReaddirReads
<1>5. CASE LookupReturns(ERR_INODE_OUTOF_RANGE)
  BY <1>1, <1>2, <1>5, LookupReturnsStep DEF ERR_INODE_OUTOF_RANGE
<1>6. CASE Len(stack) # 1 /\ stack' = Front(stack) /\ UNCHANGED <<pc, ret>>
  <2>0. PICK n : n = Len(stack)
    OBVIOUS
  <2>1. n \in Nat \ {0} /\ n # 1
    BY <1>3, <1>6, <2>0, Zenon
  <2>2. n > 1
    BY <2>1
  <2> QED BY <1>1, <1>2, <1>3, <1>6, <2>0, <2>2, GoStep
<1>7. ASSUME ~LoopEnds(r),
             NEW below, below = direntv6_opendir(Visible(img, bad2), s, r.child),
             NEW tail, LookupTurn(Last(stack), r, below, tail)
      PROVE  IInv'
  <2>1. r.child \in Word /\ r.child \in Int
    BY <1>4, <1>7, RootIsWord DEF LoopEnds
  <2>2. below.ret = 0 => Reader(img, below.d)
    BY <1>2, <1>7, <2>1, OpendirReads
  <2>3. CASE LookupReturns(r.child)
    BY <1>1, <1>2, <2>1, <2>3, LookupReturnsStep
  <2>4. ASSUME NEW position, NEW more, IsStack(img, more),
               stack' = Front(stack) \o <<Frame(r.d, position, Root)>> \o more,
               UNCHANGED <<pc, ret>>
        PROVE  IInv'
    <3>1. IsStack(img, <<Frame(r.d, position, Root)>>) /\ <<Frame(r.d, position, Root)>> # <<>>
      BY <1>4, OneIsStack
    <3>2. /\ IsStack(img, Front(stack) \o <<Frame(r.d, position, Root)>>)
          /\ Front(stack) \o <<Frame(r.d, position, Root)>> # <<>>
      BY <1>3, <3>1, JoinedStack
    <3>3. IsStack(img, stack') /\ stack' # <<>>
      BY <2>4, <3>2, JoinedStack
    <3> QED BY <1>1, <1>2, <2>4, <3>3, GoStep
  <2>5. \A next : IsStack(img, IF below.ret = 0 THEN <<Frame(below.d, next, Root)>> ELSE <<>>)
    BY <2>2, OneIsStack, EmptyIsStack
  <2> QED BY <1>7, <2>3, <2>4, <2>5, EmptyIsStack, Zenon DEF LookupTurn
<1> QED BY <1>1, <1>5, <1>6, <1>7

LEMMA InvListOpen == ASSUME IInv, ListOpen PROVE IInv'
<1>0. PICK bad \in IoFaults, bad2 \in IoFaults :
          LET code == inode_read(Visible(img, bad), MountedSuper(img), ret)
              open == direntv6_opendir(Visible(img, bad2), MountedSuper(img), ret)
          IN  /\ pc = "opendir"
              /\ IF code # 0 THEN Return(code)
                 ELSE IF open.ret # 0 THEN Return(open.ret)
                 ELSE pc' = "list" /\ ret' = 0 /\ stack' = <<Frame(open.d, 0, Root)>>
              /\ img' = img
  BY Zenon DEF ListOpen, Opendir
<1> DEFINE code == inode_read(Visible(img, bad), MountedSuper(img), ret)
           open == direntv6_opendir(Visible(img, bad2), MountedSuper(img), ret)
<1>1. /\ pc = "opendir" /\ img' = img
      /\ IF code # 0 THEN Return(code)
         ELSE IF open.ret # 0 THEN Return(open.ret)
         ELSE pc' = "list" /\ ret' = 0 /\ stack' = <<Frame(open.d, 0, Root)>>
  BY <1>0, Zenon
<1>2. img \in Images /\ IsImage(img) /\ ret \in Word
  BY <1>1, WalksAssumption DEF IInv
<1>3. open.ret \in Int /\ (open.ret = 0 => Reader(img, open.d))
  BY <1>1, <1>2, OpendirReads
<1>4. code \in Int
  BY <1>1, <1>2, ReadsTheInode
<1> HIDE DEF code, open
<1>5. CASE Return(code) \/ Return(open.ret)
  BY <1>1, <1>2, <1>3, <1>4, <1>5, ReturnStep
<1>6. CASE open.ret = 0 /\ pc' = "list" /\ ret' = 0 /\ stack' = <<Frame(open.d, 0, Root)>>
  BY <1>1, <1>2, <1>3, <1>6, OneIsStack, GoStep
<1> QED BY <1>1, <1>5, <1>6

LEMMA InvListStep == ASSUME IInv, ListStep PROVE IInv'
<1>1. PICK bad, r :
          /\ pc = "list" /\ img' = img
          /\ r = direntv6_readdir(Visible(img, bad), stack[1].d)
          /\ \/ stack' = <<Frame(r.d, 0, Root)>> /\ UNCHANGED <<pc, ret>>
             \/ Return(LoopReturns(r.ret))
  BY Zenon DEF ListStep, Readdir
<1>2. img \in Images /\ IsImage(img) /\ stack # <<>> /\ IsStack(img, stack) /\ ret \in Int
  BY <1>1, WalksAssumption DEF IInv
<1>3. Reader(img, r.d) /\ r.ret \in Int
  BY <1>1, <1>2, PoppedStack, ReaddirReads
<1>4. CASE stack' = <<Frame(r.d, 0, Root)>> /\ UNCHANGED <<pc, ret>>
  BY <1>1, <1>2, <1>3, <1>4, OneIsStack, GoStep
<1>5. CASE Return(LoopReturns(r.ret))
  BY <1>1, <1>2, <1>3, <1>5, ReturnStep DEF LoopReturns
<1> QED BY <1>1, <1>4, <1>5

LEMMA InvLsall == ASSUME IInv, Lsall PROVE IInv'
<1>1. PICK bad, open :
          /\ img' = img /\ img \in Images
          /\ open = direntv6_opendir(Visible(img, bad), MountedSuper(img), ROOT_INUMBER)
          /\ IF open.ret # 0 THEN Return(0)
             ELSE pc' = "tree" /\ ret' = 0 /\ stack' = <<Frame(open.d, 0, Root)>>
  BY Zenon DEF Lsall, Opendir, IInv
<1>2. IsImage(img)
  BY <1>1, WalksAssumption
<1>3. open.ret = 0 => Reader(img, open.d)
  BY <1>1, <1>2, OpendirReads, RootIsWord
<1>4. CASE Return(0)
  BY <1>1, <1>4, ReturnStep
<1>5. CASE open.ret = 0 /\ pc' = "tree" /\ ret' = 0 /\ stack' = <<Frame(open.d, 0, Root)>>
  BY <1>1, <1>3, <1>5, OneIsStack, GoStep
<1> QED BY <1>1, <1>4, <1>5

LEMMA InvTreeStep == ASSUME IInv, TreeStep PROVE IInv'
<1>1. PICK bad, bad2, r, s :
          /\ pc = "tree" /\ img' = img /\ s = MountedSuper(img)
          /\ r = direntv6_readdir(Visible(img, bad), Last(stack).d)
          /\ \/ r.ret = 1 /\ \E below \in {direntv6_opendir(Visible(img, bad2), s, r.child)} :
                                TreeTurn(Last(stack), r, below)
             \/ IF Len(stack) > 1 THEN stack' = Front(stack) /\ UNCHANGED <<pc, ret>>
                ELSE Return(LoopReturns(r.ret))
  BY Zenon DEF TreeStep, Readdir, Opendir
<1>2. img \in Images /\ IsImage(img) /\ stack # <<>> /\ IsStack(img, stack) /\ ret \in Int
  BY <1>1, WalksAssumption DEF IInv
<1>3. /\ Reader(img, Last(stack).d) /\ IsStack(img, Front(stack))
      /\ Len(stack) > 1 => Front(stack) # <<>>
  BY <1>2, PoppedStack
<1>4. Reader(img, r.d) /\ r.ret \in Int /\ (r.ret = 1 => r.child \in Word)
  BY <1>1, <1>2, <1>3, ReaddirReads
<1>5. CASE Return(LoopReturns(r.ret))
  BY <1>1, <1>2, <1>4, <1>5, ReturnStep DEF LoopReturns
<1>6. CASE Len(stack) > 1 /\ stack' = Front(stack) /\ UNCHANGED <<pc, ret>>
  BY <1>1, <1>2, <1>3, <1>6, GoStep
<1>7. ASSUME r.ret = 1, NEW below, below = direntv6_opendir(Visible(img, bad2), s, r.child),
             TreeTurn(Last(stack), r, below)
      PROVE  IInv'
  <2>1. PICK frame, path :
            /\ frame = Frame(r.d, 0, Last(stack).prefix)
            /\ stack' = Front(stack) \o Descend(frame, below, path) /\ UNCHANGED <<pc, ret>>
    BY <1>7, Zenon DEF TreeTurn
  <2>2. below.ret = 0 => Reader(img, below.d)
    BY <1>2, <1>4, <1>7, OpendirReads
  <2>3. IsStack(img, <<frame>>) /\ <<frame>> # <<>>
    BY <1>4, <2>1, OneIsStack
  <2>4. IsStack(img, IF below.ret = 0 THEN <<Frame(below.d, 0, path)>> ELSE <<>>)
    BY <2>2, OneIsStack, EmptyIsStack
  <2>5. IsStack(img, Descend(frame, below, path)) /\ Descend(frame, below, path) # <<>>
    BY <2>3, <2>4, JoinedStack DEF Descend
  <2>6. IsStack(img, stack') /\ stack' # <<>>
    BY <1>3, <2>1, <2>5, JoinedStack
  <2> QED BY <1>1, <1>2, <2>1, <2>6, GoStep
<1> QED BY <1>1, <1>5, <1>6, <1>7

LEMMA InvInit == Init => IInv
  BY EmptyIsStack DEF Init, IInv

LEMMA InvNext == IInv /\ [Next]_vars => IInv'
<1> SUFFICES ASSUME IInv, [Next]_vars PROVE IInv'
  OBVIOUS
<1>1. CASE Next
  BY <1>1, InvLookup, InvLsall, InvLookupStep, InvListOpen, InvListStep, InvTreeStep DEF Next, Step
<1>2. CASE UNCHANGED vars
  BY <1>2 DEF vars, IInv
<1> QED BY <1>1, <1>2

LEMMA InvShows == IInv => TypeOK /\ ReadersAreConsistent
<1> SUFFICES ASSUME IInv PROVE TypeOK /\ ReadersAreConsistent
  OBVIOUS
<1>1. \A j \in DOMAIN stack : Reader(img, stack[j].d)
  BY StackReaders DEF IInv
<1>2. TypeOK
  BY <1>1, ReaderIsConsistent DEF IInv, TypeOK
<1>3. ReadersAreConsistent
  BY <1>1, ReaderIsConsistent DEF ReadersAreConsistent
<1> QED BY <1>2, <1>3

-----------------------------------------------------------------------------
(* The inodes that a path leads to.                                        *)

\* The first m steps of the definition of Reached.
Leads(im, names, m, f) ==
    f = [k \in 0 .. m |-> IF k = 0 THEN {ROOT_INUMBER} ELSE Below(im, f[k - 1], names[k])]

LEMMA LeadsOnce == ASSUME NEW im, NEW names PROVE \E f : Leads(im, names, 0, f)
<1>1. PICK f : f = [k \in 0 .. 0 |-> {ROOT_INUMBER}]
  OBVIOUS
<1>2. \A k \in 0 .. 0 : k = 0
  OBVIOUS
<1>3. [k \in 0 .. 0 |-> IF k = 0 THEN {ROOT_INUMBER} ELSE Below(im, f[k - 1], names[k])] = f
  BY <1>1, <1>2, Zenon
<1> QED BY <1>3 DEF Leads

LEMMA LeadsFurther ==
    ASSUME NEW im, NEW names, NEW m \in Nat, NEW f, Leads(im, names, m, f)
    PROVE  \E g : Leads(im, names, m + 1, g)
<1>1. PICK last : last = Below(im, f[m], names[m + 1])
  OBVIOUS
<1>2. PICK g : g = [k \in 0 .. m + 1 |-> IF k = m + 1 THEN last ELSE f[k]]
  OBVIOUS
<1> DEFINE h(k) == IF k = 0 THEN {ROOT_INUMBER} ELSE Below(im, g[k - 1], names[k])
<1>3. ASSUME NEW k \in 0 .. m + 1 PROVE g[k] = h(k)
  <2>1. CASE k = m + 1
    <3>1. k # 0 /\ k - 1 = m /\ m \in 0 .. m + 1 /\ m # m + 1
      BY <2>1
    <3>2. g[k - 1] = f[m] /\ g[k] = last
      BY <1>2, <2>1, <3>1
    <3> QED BY <1>1, <2>1, <3>1, <3>2
  <2>2. CASE k = 0
    <3>1. 0 \in 0 .. m /\ 0 # m + 1
      OBVIOUS
    <3>2. f[0] = {ROOT_INUMBER}
      BY <3>1 DEF Leads
    <3> QED BY <1>2, <2>2, <3>1, <3>2
  <2>3. CASE k # m + 1 /\ k # 0
    <3>1. k \in 0 .. m /\ k - 1 \in 0 .. m + 1 /\ k - 1 # m + 1
      BY <2>3
    <3>2. f[k] = Below(im, f[k - 1], names[k])
      BY <2>3, <3>1 DEF Leads
    <3>3. g[k] = f[k] /\ g[k - 1] = f[k - 1]
      BY <1>2, <2>3, <3>1
    <3> QED BY <2>3, <3>2, <3>3
  <2> QED BY <2>1, <2>2, <2>3
<1>4. g = [k \in 0 .. m + 1 |-> h(k)]
  <2> HIDE DEF h
  <2>1. g = [k \in 0 .. m + 1 |-> g[k]]
    BY <1>2
  <2> QED BY <1>3, <2>1
<1>5. Leads(im, names, m + 1, g)
  BY <1>4 DEF Leads
<1> QED BY <1>5

\* By the least number of steps for which there would be none.
LEMMA LeadsAnyWhere ==
    ASSUME NEW im, NEW names, NEW n \in Nat PROVE \E f : Leads(im, names, n, f)
<1> DEFINE S == {m \in Nat : ~\E f : Leads(im, names, m, f)}
<1> SUFFICES ASSUME S # {} PROVE FALSE
  OBVIOUS
<1>1. PICK m : m \in S /\ \A y \in S : m <= y
  <2> HIDE DEF S
  <2>1. S \in SUBSET Nat
    BY DEF S
  <2> QED BY <2>1, MinOfNaturals
<1>2. m # 0
  BY <1>1, LeadsOnce
<1>3. m - 1 \in Nat /\ (m - 1) + 1 = m /\ ~(m <= m - 1)
  BY <1>1, <1>2
<1>4. PICK f : Leads(im, names, m - 1, f)
  BY <1>1, <1>3
<1>5. \E g : Leads(im, names, (m - 1) + 1, g)
  BY <1>3, <1>4, LeadsFurther
<1> QED BY <1>1, <1>3, <1>5

LEMMA ReachedFacts ==
    ASSUME NEW im, NEW names, Len(names) \in Nat, NEW at, at = Reached(im, names)
    PROVE  /\ at[0] = {ROOT_INUMBER}
           /\ \A k \in 1 .. Len(names) : at[k] = Below(im, at[k - 1], names[k])
<1>1. PICK n \in Nat : n = Len(names)
  OBVIOUS
<1>2. at = CHOOSE f : f = [k \in 0 .. Len(names) |-> IF k = 0 THEN {ROOT_INUMBER}
                                                   ELSE Below(im, f[k - 1], names[k])]
  BY DEF Reached
<1>3. at = CHOOSE f : Leads(im, names, n, f)
  BY <1>1, <1>2, Zenon DEF Leads
<1>4. Leads(im, names, n, at)
  BY <1>3, LeadsAnyWhere, Zenon
<1>5. at[0] = {ROOT_INUMBER}
  BY <1>4 DEF Leads
<1>6. ASSUME NEW k \in 1 .. n PROVE at[k] = Below(im, at[k - 1], names[k])
  <2>1. k \in 0 .. n /\ k # 0
    BY <1>6
  <2> QED BY <1>4, <2>1 DEF Leads
<1> QED BY <1>1, <1>5, <1>6

\* Nothing is below nothing.
LEMMA NothingBelow ==
    ASSUME NEW im, NEW names, Len(names) \in Nat, NEW j \in 0 .. Len(names),
           Reached(im, names)[j] = {}
    PROVE  Reached(im, names)[Len(names)] = {}
<1>0. PICK at : at = Reached(im, names)
  OBVIOUS
<1>1. PICK n \in Nat : n = Len(names) /\ at = Reached(im, names)
  BY <1>0
<1>2. \A k \in 1 .. n : at[k] = Below(im, at[k - 1], names[k])
  BY <1>1, ReachedFacts
<1>3. \A name : Below(im, {}, name) = {}
  BY DEF Below
<1> DEFINE S == {k \in Nat : j <= k /\ k <= n /\ at[k] # {}}
<1>4. S = {}
  <2> SUFFICES ASSUME S # {} PROVE FALSE
    OBVIOUS
  <2>1. PICK m : m \in S /\ \A y \in S : m <= y
    <3> HIDE DEF S
    <3>1. S \in SUBSET Nat
      BY DEF S
    <3> QED BY <3>1, MinOfNaturals
  <2>2. m # j
    BY <1>1, <2>1
  <2>3. m \in 1 .. n /\ m - 1 \in Nat /\ j <= m - 1 /\ m - 1 <= n /\ ~(m <= m - 1)
    BY <1>1, <2>1, <2>2
  <2>4. at[m - 1] = {}
    BY <2>1, <2>3
  <2> QED BY <1>2, <1>3, <2>1, <2>3, <2>4
<1> QED BY <1>1, <1>4

-----------------------------------------------------------------------------
(* The directories of the disk.                                            *)

LEMMA DirIsSound ==
    ASSUME DirectoriesAreSound, NEW im \in Images, NEW inr \in Word, IsDir(im, inr)
    PROVE  /\ SoundDirectory(im, InodeOf(im, inr)) /\ inr \in Directories(im)
           /\ IsImage(im) /\ NamesAreSound(im)
<1>1. IsImage(im)
  BY WalksAssumption
<1>2. PICK s : s = MountedSuper(im)
  OBVIOUS
<1>3. PICK i : i = InodeOf(im, inr)
  OBVIOUS
<1>4. i \in InodeType /\ Allocated(i)
  <2>1. PICK bad : bad = {}
    OBVIOUS
  <2>2. PICK disk : disk = Visible(im, bad)
    OBVIOUS
  <2>3. disk = im
    BY <1>1, <2>1, <2>2, ReadsTheInode
  <2>4. inode_read(disk, s, inr) = 0
    BY <1>2, <2>3 DEF IsDir
  <2>5. InodeNo(disk, s, inr) \in InodeType /\ Allocated(InodeNo(disk, s, inr))
    BY <1>1, <2>2, <2>4, ReadsTheInode
  <2> QED BY <1>2, <1>3, <2>3, <2>5 DEF InodeOf
<1>5. inr \in Directories(im) /\ IsDirectory(i)
  BY <1>3 DEF Directories, IsDir
<1>6. WholeEntries /\ IsPadded(im, i) /\ NamesAreSound(im)
  BY <1>3, <1>5 DEF DirectoriesAreSound
<1> QED BY <1>1, <1>3, <1>4, <1>5, <1>6 DEF SoundDirectory

\* An inode that opens as a directory is one, and when no sector fails each of them opens.
LEMMA OpensDir ==
    ASSUME DirectoriesAreSound, NEW im \in Images, NEW bad, NEW inr \in Word,
           NEW open, open = direntv6_opendir(Visible(im, bad), MountedSuper(im), inr)
    PROVE  /\ open.ret \in Int /\ open.ret <= 0
           /\ open.ret = 0 => /\ IsDir(im, inr) /\ Answered(im, open.d, InodeOf(im, inr))
                              /\ open.d.cur = 0
           /\ bad = {} /\ IsDir(im, inr) => open.ret = 0
<1>1. IsImage(im)
  BY WalksAssumption
<1>2. PICK s : s = MountedSuper(im)
  OBVIOUS
<1>3. PICK disk : disk = Visible(im, bad)
  OBVIOUS
<1>4. /\ open.ret \in Int /\ open.ret <= 0
      /\ open.ret = 0 => Reader(im, open.d)
  BY <1>1, OpendirReads
<1>5. PICK code : code = inode_read(disk, s, inr)
  OBVIOUS
<1>6. PICK node : node = IF code = 0 THEN InodeNo(disk, s, inr) ELSE NoFile.i_node
  OBVIOUS
<1>7. PICK fv6 : fv6 = [i_number |-> inr, offset |-> 0, i_node |-> node]
  OBVIOUS
<1>8. filev6_open(disk, s, inr, NoFile) = [ret |-> code, fv6 |-> fv6]
  BY <1>5, <1>6, <1>7, Zenon DEF filev6_open
<1>9. /\ open.ret = IF code # 0 THEN code
                    ELSE IF ~IsDirectory(node) THEN ERR_INVALID_DIRECTORY_INODE ELSE 0
      /\ open.d = [fv6 |-> fv6, dirs |-> ZeroSector, cur |-> 0, last |-> 0]
      /\ fv6.i_node = node /\ fv6.offset = 0
  BY <1>2, <1>3, <1>7, <1>8 DEF direntv6_opendir
<1>10. /\ code \in Int
       /\ code = 0 => /\ node \in InodeType /\ Allocated(node)
                      /\ node = InodeNo(im, s, inr) /\ inode_read(im, s, inr) = 0
       /\ bad = {} => disk = im
  BY <1>1, <1>3, <1>5, <1>6, ReadsTheInode
<1>11. ASSUME open.ret = 0
       PROVE  /\ IsDir(im, inr) /\ Answered(im, open.d, InodeOf(im, inr))
              /\ open.d.cur = 0
  <2>1. code = 0 /\ IsDirectory(node)
    BY <1>9, <1>11 DEF ERR_INVALID_DIRECTORY_INODE
  <2>2. node = InodeOf(im, inr) /\ IsDir(im, inr)
    BY <1>2, <1>10, <2>1 DEF InodeOf, IsDir
  <2>3. open.d.cur = 0 /\ open.d.fv6.i_node = node /\ open.d.fv6.offset = 0
    BY <1>9
  <2>4. node.i_size \in Nat /\ EntryCount(node) \in Nat
    BY <2>2, DirIsSound, SoundSize
  <2>5. 0 < node.i_size + SECTOR_SIZE /\ 0 <= EntryCount(node)
    BY <2>4, SectorSize
  <2>6. 0 .. 0 - 1 = {}
    OBVIOUS
  <2>7. Answered(im, open.d, node)
    BY <1>4, <1>11, <2>3, <2>5, <2>6 DEF Answered
  <2> QED BY <2>2, <2>3, <2>7
<1>12. ASSUME bad = {}, IsDir(im, inr) PROVE open.ret = 0
  <2>1. disk = im
    BY <1>10, <1>12
  <2>2. code = 0
    BY <1>2, <1>5, <1>12, <2>1 DEF IsDir
  <2>3. IsDirectory(node)
    BY <1>2, <1>6, <1>12, <2>1, <2>2 DEF IsDir, InodeOf
  <2> QED BY <1>9, <2>2, <2>3
<1> QED BY <1>4, <1>11, <1>12

\* Below one inode.
LEMMA BelowOne ==
    ASSUME NEW im, NEW inr, NEW name
    PROVE  /\ IsDir(im, inr) => Below(im, {inr}, name)
                = {e.d_inumber : e \in {c \in ToSet(Entries(im, inr)) : c.d_name = name}}
           /\ ~IsDir(im, inr) => Below(im, {inr}, name) = {}
<1>1. UNION {Children(im, x) : x \in {inr}} = Children(im, inr)
  OBVIOUS
<1>2. Below(im, {inr}, name)
          = {e.d_inumber : e \in {c \in Children(im, inr) : c.d_name = name}}
  BY <1>1, Zenon DEF Below
<1>3. ASSUME ~IsDir(im, inr) PROVE Below(im, {inr}, name) = {}
  BY <1>2, <1>3 DEF Children
<1>4. ASSUME IsDir(im, inr)
      PROVE  Below(im, {inr}, name)
                = {e.d_inumber : e \in {c \in ToSet(Entries(im, inr)) : c.d_name = name}}
  BY <1>2, <1>4 DEF Children
<1> QED BY <1>3, <1>4

\* The entry that readdir has answered is the only one with its name.
OnlyChild(im, inr, e) == Below(im, {inr}, e.d_name) = {e.d_inumber}

LEMMA BelowTheEntry ==
    ASSUME DirectoriesAreSound, NEW im \in Images, NEW inr \in Word, IsDir(im, inr),
           NEW k \in DOMAIN Entries(im, inr), NEW e, e = Entries(im, inr)[k]
    PROVE  /\ OnlyChild(im, inr, e)
           /\ e.d_name # <<>> /\ SLASH \notin ToSet(e.d_name)
<1>1. PICK en : en = Entries(im, inr)
  OBVIOUS
<1>2. /\ \A j \in DOMAIN en : en[j].d_name # <<>> /\ SLASH \notin ToSet(en[j].d_name)
      /\ \A i, j \in DOMAIN en : en[i].d_name = en[j].d_name => i = j
  <2>1. inr \in Directories(im) /\ NamesAreSound(im)
    BY DirIsSound
  <2> QED BY <1>1, <2>1, Zenon DEF NamesAreSound
<1>3. ToSet(en) = {en[j] : j \in DOMAIN en}
  BY DEF ToSet
<1>4. {c \in ToSet(en) : c.d_name = e.d_name} = {e}
  BY <1>1, <1>2, <1>3
<1>5. Below(im, {inr}, e.d_name)
        = {c.d_inumber : c \in {d \in ToSet(Entries(im, inr)) : d.d_name = e.d_name}}
  BY BelowOne
<1>6. Below(im, {inr}, e.d_name) = {e.d_inumber}
  BY <1>1, <1>4, <1>5
<1> QED BY <1>1, <1>2, <1>6 DEF OnlyChild

\* The first m slots of a directory that ends there have all its names.
LEMMA BelowNoSlot ==
    ASSUME NEW im, NEW inr, IsDir(im, inr), NEW m \in Nat, NEW name,
           Entries(im, inr) = [k \in 1 .. m |-> Slot(im, InodeOf(im, inr), k - 1)],
           \A c \in 0 .. m - 1 : Slot(im, InodeOf(im, inr), c).d_name # name
    PROVE  Below(im, {inr}, name) = {}
<1>1. PICK en : en = Entries(im, inr)
  OBVIOUS
<1>2. \A k \in DOMAIN en : en[k].d_name # name
  <2>1. ASSUME NEW k \in DOMAIN en PROVE en[k].d_name # name
    <3>1. k \in 1 .. m /\ en[k] = Slot(im, InodeOf(im, inr), k - 1)
      BY <1>1, <2>1
    <3>2. k - 1 \in 0 .. m - 1
      BY <3>1
    <3> QED BY <3>1, <3>2
  <2> QED BY <2>1
<1>3. ToSet(en) = {en[j] : j \in DOMAIN en}
  BY DEF ToSet
<1>4. {c \in ToSet(en) : c.d_name = name} = {}
  BY <1>2, <1>3
<1>5. Below(im, {inr}, name)
        = {c.d_inumber : c \in {d \in ToSet(Entries(im, inr)) : d.d_name = name}}
  BY BelowOne
<1> QED BY <1>1, <1>4, <1>5

-----------------------------------------------------------------------------
(* One reader of a lookup.                                                 *)

\* The reader is of the directory inr, in which the j-th name is looked up; or the path has
\* no such name, because it ends with '/'.
OnTheWay(im, path, frame, inr, j) ==
    /\ IsDir(im, inr) /\ Answered(im, frame.d, InodeOf(im, inr))
    /\ j \in 1 .. Len(NamesOf(path)) + 1
    /\ Reached(im, NamesOf(path))[j - 1] = {inr}
    /\ j > Len(NamesOf(path)) => Denotes(im, path) = {}

NamedBefore(im, inr, cur, name) ==
    \E c \in 0 .. cur - 1 : Slot(im, InodeOf(im, inr), c).d_name = name

\* No entry has matched yet; one has, and the position is that of the next name.
Searching(im, path, frame) == \E inr \in Word, j \in Nat :
    /\ OnTheWay(im, path, frame, inr, j) /\ frame.position = StartAt(path, j)
    /\ j <= Len(NamesOf(path)) => ~NamedBefore(im, inr, frame.d.cur, NamesOf(path)[j])
Passed(im, path, frame) == \E inr \in Word, j \in Nat :
    /\ OnTheWay(im, path, frame, inr, j) /\ frame.position = StartAt(path, j + 1)
    /\ j <= Len(NamesOf(path)) /\ NamedBefore(im, inr, frame.d.cur, NamesOf(path)[j])

\* What is answered for the reader of a directory.
LEMMA AnsweredEntry ==
    ASSUME DirectoriesAreSound, NEW im \in Images, NEW inr \in Word, IsDir(im, inr),
           NEW i, i = InodeOf(im, inr), NEW d, Answered(im, d, i), NEW bad,
           NEW r, r = direntv6_readdir(Visible(im, bad), d), r.ret = 1
    PROVE  /\ d.cur \in Nat /\ r.d.cur = d.cur + 1 /\ Answered(im, r.d, i)
           /\ r.name = Slot(im, i, d.cur).d_name /\ r.child = Slot(im, i, d.cur).d_inumber
           /\ r.name \in Seq(Int) /\ r.child \in Word /\ r.child # 0
           /\ \A c \in 0 .. d.cur : /\ c + 1 \in DOMAIN Entries(im, inr)
                                    /\ Entries(im, inr)[c + 1] = Slot(im, i, c)
<1>1. SoundDirectory(im, i) /\ IsImage(im)
  BY DirIsSound
<1>2. d.cur \in Nat
  <2>1. Reader(im, d)
    BY DEF Answered
  <2>2. d.cur \in 0 .. d.last
    BY <2>1, ReaderIsConsistent
  <2>3. \A x \in 0 .. d.last : x \in Int /\ x >= 0
    OBVIOUS
  <2> QED BY <2>2, <2>3
<1>3. PICK k \in Nat : k = d.cur
  BY <1>2
<1>4. EntryAnswered(im, r, i, k)
  <2>1. EntryAnswered(im, r, i, k) \/ Failed(im, r, i, bad)
    BY <1>1, <1>3, NextEntry
  <2> QED BY <2>1 DEF Failed
<1>5. /\ k < EntryCount(i) /\ Slot(im, i, k).d_inumber # 0
      /\ r.name = Slot(im, i, k).d_name /\ r.child = Slot(im, i, k).d_inumber
      /\ r.name \in Seq(Int) /\ r.child \in Word
      /\ r.d.cur = k + 1 /\ Answered(im, r.d, i)
  BY <1>4 DEF EntryAnswered, ERR_UNALLOCATED_INODE
<1>6. EntryCount(i) \in Nat /\ i.i_size \in Nat
  BY <1>1, SoundSize
<1>7. \A c \in 0 .. k : Slot(im, i, c).d_inumber # 0
  <2>1. \A c \in 0 .. (k + 1) - 1 : Slot(im, i, c).d_inumber # 0
    BY <1>5 DEF Answered
  <2>2. (k + 1) - 1 = k
    OBVIOUS
  <2> QED BY <2>1, <2>2
<1>8. ASSUME NEW c \in 0 .. k
      PROVE  c + 1 \in DOMAIN Entries(im, inr) /\ Entries(im, inr)[c + 1] = Slot(im, i, c)
  <2>1. c \in Nat /\ c < EntryCount(i)
    BY <1>5, <1>6
  <2>2. \A x \in 0 .. c : x \in 0 .. k
    OBVIOUS
  <2>3. c + 1 \in DOMAIN EntriesOf(im, i) /\ EntriesOf(im, i)[c + 1] = Slot(im, i, c)
    BY <1>6, <1>7, <2>1, <2>2, EntryIsListed
  <2> QED BY <2>3 DEF Entries
<1> QED BY <1>3, <1>5, <1>8

\* When nothing is answered, the directory is at its end, or a sector has failed.
LEMMA NothingAnswered ==
    ASSUME DirectoriesAreSound, NEW im \in Images, NEW inr \in Word, IsDir(im, inr),
           NEW i, i = InodeOf(im, inr), NEW d, Answered(im, d, i), NEW bad,
           NEW r, r = direntv6_readdir(Visible(im, bad), d), r.ret # 1
    PROVE  /\ d.cur \in Nat
           /\ \/ /\ r.ret = 0 \/ r.ret = ERR_UNALLOCATED_INODE
                 /\ Entries(im, inr) = [k \in 1 .. d.cur |-> Slot(im, i, k - 1)]
              \/ /\ r.ret # 0 /\ r.ret # ERR_UNALLOCATED_INODE
                 /\ ~(bad = {} /\ DirectoriesAreComplete)
<1>1. SoundDirectory(im, i) /\ IsImage(im) /\ inr \in Directories(im)
  BY DirIsSound
<1>2. d.cur \in Nat
  <2>1. Reader(im, d)
    BY DEF Answered
  <2>2. d.cur \in 0 .. d.last
    BY <2>1, ReaderIsConsistent
  <2>3. \A x \in 0 .. d.last : x \in Int /\ x >= 0
    OBVIOUS
  <2> QED BY <2>2, <2>3
<1>3. PICK k \in Nat : k = d.cur
  BY <1>2
<1>4. EntryAnswered(im, r, i, k) \/ Failed(im, r, i, bad)
  BY <1>1, <1>3, NextEntry
<1>5. CASE EntryAnswered(im, r, i, k)
  <2>1. /\ r.ret = 0 \/ r.ret = ERR_UNALLOCATED_INODE
        /\ k = EntryCount(i) \/ Slot(im, i, k).d_inumber = 0
    BY <1>5 DEF EntryAnswered
  <2>2. EntriesOf(im, i) = [c \in 1 .. k |-> Slot(im, i, c - 1)]
    BY <1>1, <1>3, <2>1, ListedAll
  <2> QED BY <1>3, <2>1, <2>2 DEF Entries
<1>6. CASE Failed(im, r, i, bad)
  <2>1. r.ret # 0 /\ r.ret # ERR_UNALLOCATED_INODE /\ (bad = {} => ~IsComplete(im, i))
    BY <1>6 DEF Failed
  <2>2. DirectoriesAreComplete => IsComplete(im, i)
    BY <1>1 DEF DirectoriesAreComplete
  <2> QED BY <1>3, <2>1, <2>2
<1> QED BY <1>4, <1>5, <1>6

LEMMA NamesAreWhole ==
    ASSUME NEW path \in Paths
    PROVE  path \in Seq(1 .. 255) /\ Len(NamesOf(path)) \in Nat /\ Len(path) \in Nat
<1>1. path \in Seq(1 .. 255)
  BY WalksAssumption
<1> QED BY <1>1, NameBeginsFacts, PathFacts

\* The search for the j-th name ends without it.
LEMMA SearchEnds ==
    ASSUME DirectoriesAreSound, NEW im \in Images, NEW path \in Paths,
           NEW frame, Searching(im, path, frame), NEW bad,
           NEW r, r = direntv6_readdir(Visible(im, bad), frame.d), r.ret # 1,
           bad = {}, DirectoriesAreComplete
    PROVE  Denotes(im, path) = {}
<1>1. PICK inr \in Word, j \in Nat :
          /\ OnTheWay(im, path, frame, inr, j)
          /\ j <= Len(NamesOf(path)) => ~NamedBefore(im, inr, frame.d.cur, NamesOf(path)[j])
  BY Zenon DEF Searching
<1>2. PICK i, names : i = InodeOf(im, inr) /\ names = NamesOf(path)
  OBVIOUS
<1>3. PICK n \in Nat : n = Len(names)
  BY <1>2, NamesAreWhole
<1>4. /\ IsDir(im, inr) /\ Answered(im, frame.d, i) /\ j \in 1 .. n + 1
      /\ Reached(im, names)[j - 1] = {inr}
      /\ j > n => Denotes(im, path) = {}
  BY <1>1, <1>2, <1>3 DEF OnTheWay
<1>5. CASE j > n
  BY <1>4, <1>5
<1>6. CASE ~(j > n)
  <2>1. PICK m \in Nat : m = frame.d.cur /\ Entries(im, inr) = [k \in 1 .. m |-> Slot(im, i, k - 1)]
    BY <1>2, <1>4, NothingAnswered
  <2>2. j \in 1 .. n /\ j <= n
    BY <1>4, <1>6
  <2>3. \A c \in 0 .. m - 1 : Slot(im, i, c).d_name # names[j]
    BY <1>1, <1>2, <1>3, <2>1, <2>2 DEF NamedBefore
  <2>4. Below(im, {inr}, names[j]) = {}
    BY <1>2, <1>4, <2>1, <2>3, BelowNoSlot
  <2>5. Reached(im, names)[j] = {}
    <3>1. PICK at : at = Reached(im, names)
      OBVIOUS
    <3>2. at[j] = Below(im, at[j - 1], names[j])
      BY <1>3, <2>2, <3>1, ReachedFacts
    <3> QED BY <1>4, <2>4, <3>1, <3>2
  <2>6. Reached(im, names)[Len(names)] = {}
    <3>1. j \in 0 .. Len(names)
      BY <1>3, <2>2
    <3> QED BY <1>3, <2>5, <3>1, NothingBelow
  <2> QED BY <1>2, <2>6 DEF Denotes
<1> QED BY <1>5, <1>6

\* The reader goes on in its directory.
LEMMA StillOnTheWay ==
    ASSUME NEW im, NEW path, NEW frame, NEW inr, NEW j, OnTheWay(im, path, frame, inr, j),
           NEW d, Answered(im, d, InodeOf(im, inr)), NEW position
    PROVE  OnTheWay(im, path, Frame(d, position, Root), inr, j)
  BY DEF OnTheWay, Frame

LEMMA FrameFields ==
    ASSUME NEW d, NEW position
    PROVE  Frame(d, position, Root).d = d /\ Frame(d, position, Root).position = position
  BY DEF Frame

\* A name that has been answered has no '/'.
LEMMA AnsweredName ==
    ASSUME DirectoriesAreSound, NEW im \in Images, NEW inr \in Word, IsDir(im, inr),
           NEW k \in DOMAIN Entries(im, inr), NEW name, name = Entries(im, inr)[k].d_name,
           name \in Seq(Int)
    PROVE  name # <<>> /\ \A x \in 1 .. Len(name) : name[x] # SLASH
<1>1. name # <<>> /\ SLASH \notin ToSet(name)
  BY BelowTheEntry
<1>2. ToSet(name) = {name[x] : x \in 1 .. Len(name)}
  <2>1. DOMAIN name = 1 .. Len(name)
    BY LenProperties
  <2> QED BY <2>1 DEF ToSet
<1> QED BY <1>1, <1>2

\* Behind the entry that matched no other one matches.
LEMMA PassedTurn ==
    ASSUME DirectoriesAreSound, LookupsAreNotMisled, NEW im \in Images, NEW path \in Paths, Len(path) < CHAR_RANGE,
           NEW frame, Passed(im, path, frame), NEW bad,
           NEW r, r = direntv6_readdir(Visible(im, bad), frame.d), r.ret = 1,
           NEW tail \in TailLengths(path, frame.position)
    PROVE  /\ entry_name_cmpr(r.name, path, frame.position, tail) = -1
           /\ Passed(im, path, Frame(r.d, frame.position, Root))
<1>1. PICK inr \in Word, j \in Nat :
          /\ OnTheWay(im, path, frame, inr, j) /\ frame.position = StartAt(path, j + 1)
          /\ j <= Len(NamesOf(path)) /\ NamedBefore(im, inr, frame.d.cur, NamesOf(path)[j])
  BY Zenon DEF Passed
<1>2. PICK i, names, s : i = InodeOf(im, inr) /\ names = NamesOf(path) /\ s = frame.position
  OBVIOUS
<1>3. PICK n \in Nat, L \in Nat : n = Len(names) /\ L = Len(path)
  BY <1>2, NamesAreWhole
<1>4. path \in Seq(1 .. 255)
  BY NamesAreWhole
<1>5. IsDir(im, inr) /\ Answered(im, frame.d, i) /\ j \in 1 .. n
  BY <1>1, <1>2, <1>3 DEF OnTheWay
<1>d. PICK d : d = frame.d
  OBVIOUS
<1>e. /\ d.cur \in Nat /\ r.d.cur = d.cur + 1 /\ Answered(im, r.d, i)
      /\ r.name = Slot(im, i, d.cur).d_name /\ r.name \in Seq(Int)
      /\ \A c \in 0 .. d.cur : /\ c + 1 \in DOMAIN Entries(im, inr)
                               /\ Entries(im, inr)[c + 1] = Slot(im, i, c)
  BY <1>2, <1>5, <1>d, AnsweredEntry
<1>k. PICK k \in Nat : k = d.cur
  BY <1>e
<1>6. /\ k = frame.d.cur /\ r.d.cur = k + 1 /\ Answered(im, r.d, i)
      /\ r.name = Slot(im, i, k).d_name /\ r.name \in Seq(Int)
      /\ \A c \in 0 .. k : /\ c + 1 \in DOMAIN Entries(im, inr)
                           /\ Entries(im, inr)[c + 1] = Slot(im, i, c)
  BY <1>d, <1>e, <1>k, Zenon
<1>7. PICK c \in 0 .. k - 1 : Slot(im, i, c).d_name = names[j]
  BY <1>1, <1>2, <1>6 DEF NamedBefore
<1>8. r.name # <<>> /\ \A x \in 1 .. Len(r.name) : r.name[x] # SLASH
  <2>1. PICK x, name : x = k + 1 /\ name = r.name
    OBVIOUS
  <2>0. k \in 0 .. k
    OBVIOUS
  <2>2. x \in DOMAIN Entries(im, inr) /\ name = Entries(im, inr)[x].d_name /\ name \in Seq(Int)
    BY <1>6, <2>0, <2>1, Zenon
  <2>3. name # <<>> /\ \A y \in 1 .. Len(name) : name[y] # SLASH
    BY <1>5, <2>2, AnsweredName
  <2> QED BY <2>1, <2>3
<1>9. Passed(im, path, Frame(r.d, s, Root))
  <2>1. PICK f : f = Frame(r.d, s, Root)
    OBVIOUS
  <2>2. f.d = r.d /\ f.position = s
    BY <2>1, FrameFields
  <2>3. OnTheWay(im, path, f, inr, j)
    BY <1>1, <1>2, <1>6, <2>1, StillOnTheWay
  <2>4. c \in 0 .. r.d.cur - 1
    BY <1>6
  <2>5. NamedBefore(im, inr, f.d.cur, names[j])
    BY <1>2, <1>7, <2>2, <2>4 DEF NamedBefore
  <2>6. Passed(im, path, f)
    BY <1>1, <1>2, <2>2, <2>3, <2>5, Zenon DEF Passed
  <2> QED BY <2>1, <2>6
<1>10. tail = L - s /\ s \in 0 .. L
  <2>1. s \in 0 .. L
    <3>1. CASE j + 1 <= n
      <4>1. j + 1 \in 1 .. Len(NamesOf(path))
        BY <1>2, <1>3, <1>5, <3>1
      <4>2. s \in 0 .. L - 1
        BY <1>1, <1>2, <1>3, <1>4, <4>1, NameAt
      <4> QED BY <1>3, <4>2
    <3>2. CASE ~(j + 1 <= n)
      <4>1. s = L
        BY <1>1, <1>2, <1>3, <3>2 DEF StartAt
      <4> QED BY <1>3, <4>1
    <3> QED BY <3>1, <3>2
  <2> QED BY <1>2, <1>3, <1>4, <2>1, TailOfShort
<1>11. entry_name_cmpr(r.name, path, s, tail) = -1
  <2>1. CASE j = n
    <3>1. s = Len(path) /\ tail = Len(path) - Len(path)
      <4>1. ~(j + 1 <= n)
        BY <1>3, <2>1
      <4> QED BY <1>1, <1>2, <1>3, <1>10, <4>1 DEF StartAt
    <3> QED BY <1>4, <1>6, <1>8, <3>1, ComparedAtEnd
  <2>2. CASE j # n
    <3>1. j + 1 \in 1 .. Len(NamesOf(path)) /\ j \in 1 .. n - 1
      BY <1>2, <1>3, <1>5, <2>2
    <3>2. r.name # names[j + 1]
      <4>1. inr \in Directories(im) /\ NeverMisled(im, path)
        BY <1>5, DirIsSound DEF LookupsAreNotMisled
      <4>2. PICK en : en = Entries(im, inr)
        OBVIOUS
      <4>3. \A x, y \in DOMAIN en : x < y /\ en[x].d_name = names[j] => en[y].d_name # names[j + 1]
        BY <1>2, <1>3, <3>1, <4>1, <4>2, Zenon DEF NeverMisled
      <4>4. c \in 0 .. k /\ k \in 0 .. k /\ c + 1 < k + 1
        BY <1>7
      <4>5. /\ c + 1 \in DOMAIN en /\ en[c + 1] = Slot(im, i, c)
            /\ k + 1 \in DOMAIN en /\ en[k + 1] = Slot(im, i, k)
        BY <1>6, <4>2, <4>4
      <4>6. en[k + 1].d_name # names[j + 1]
        BY <1>7, <4>3, <4>4, <4>5
      <4> QED BY <1>6, <4>5, <4>6
    <3>3. PICK found : found = entry_name_cmpr(r.name, path, s, Len(path) - s)
      OBVIOUS
    <3>4. s = StartAt(path, j + 1)
      BY <1>1, <1>2
    <3>5. /\ found = 1 \/ found = 0 \/ found = -1
          /\ found = 1 => r.name = NamesOf(path)[j + 1]
          /\ found = 0 => r.name = NamesOf(path)[j + 1]
      <4>1. PICK name : name = r.name
        OBVIOUS
      <4>2. name \in Seq(Int) /\ name # <<>> /\ \A x \in 1 .. Len(name) : name[x] # SLASH
        BY <1>6, <1>8, <4>1
      <4>3. found = entry_name_cmpr(name, path, s, Len(path) - s)
        BY <3>3, <4>1
      <4>4. j + 1 \in 1 .. Len(NamesOf(path))
        BY <3>1
      <4> QED BY ONLY <1>4, <3>4, <4>1, <4>2, <4>3, <4>4, ComparedNames
    <3> QED BY <1>2, <1>3, <1>10, <3>2, <3>3, <3>5
  <2> QED BY <2>1, <2>2
<1> QED BY <1>2, <1>9, <1>11

\* What the answer of entry_name_cmpr says of the rest of the walk.
Matched(im, path, frame, r, next, found) ==
    /\ found = 1 \/ found = 0 \/ found = -1
    /\ r.child \in Word /\ r.child # 0
    /\ found = 1 => Denotes(im, path) = {r.child}
    /\ found = 0 => Passed(im, path, Frame(r.d, next, Root))
    /\ found = -1 => Searching(im, path, Frame(r.d, frame.position, Root))

\* The directory in which the next name is looked up.
Entered(im, path, r, next, bad) ==
    LET below == direntv6_opendir(Visible(im, bad), MountedSuper(im), r.child)
    IN  /\ below.ret = 0 => Searching(im, path, Frame(below.d, next, Root))
        /\ below.ret # 0 /\ bad = {} => Denotes(im, path) = {}

\* A reader that begins: the next name is not among the first 0 entries.
LEMMA SearchBegins ==
    ASSUME NEW im, NEW path, NEW inr \in Word, NEW j \in Nat, NEW d,
           IsDir(im, inr), Answered(im, d, InodeOf(im, inr)), d.cur = 0,
           j \in 1 .. Len(NamesOf(path)) + 1, Reached(im, NamesOf(path))[j - 1] = {inr},
           j > Len(NamesOf(path)) => Denotes(im, path) = {},
           NEW position, position = StartAt(path, j)
    PROVE  Searching(im, path, Frame(d, position, Root))
<1>1. PICK f : f = Frame(d, position, Root)
  OBVIOUS
<1>2. f.d = d /\ f.position = position
  BY <1>1, FrameFields
<1>3. OnTheWay(im, path, f, inr, j)
  BY <1>2 DEF OnTheWay
<1>4. f.d.cur = 0 /\ 0 .. 0 - 1 = {}
  BY <1>2
<1>5. \A name : ~NamedBefore(im, inr, f.d.cur, name)
  BY <1>4 DEF NamedBefore
<1>6. Searching(im, path, f)
  BY <1>2, <1>3, <1>5, Zenon DEF Searching
<1> QED BY <1>1, <1>6

LEMMA SearchingTurn ==
    ASSUME DirectoriesAreSound, NEW im \in Images, NEW path \in Paths, Len(path) < CHAR_RANGE,
           NEW frame, Searching(im, path, frame), NEW bad,
           NEW r, r = direntv6_readdir(Visible(im, bad), frame.d), r.ret = 1,
           NEW tail \in TailLengths(path, frame.position),
           NEW found, found = entry_name_cmpr(r.name, path, frame.position, tail),
           NEW next, next = pos_next_entry_name(path, frame.position)
    PROVE  /\ Matched(im, path, frame, r, next, found)
           /\ \A bad2 : found = 0 => Entered(im, path, r, next, bad2)
<1>1. PICK inr \in Word, j \in Nat :
          /\ OnTheWay(im, path, frame, inr, j) /\ frame.position = StartAt(path, j)
          /\ j <= Len(NamesOf(path)) => ~NamedBefore(im, inr, frame.d.cur, NamesOf(path)[j])
  BY Zenon DEF Searching
<1>2. PICK i, names, s, d : i = InodeOf(im, inr) /\ names = NamesOf(path)
                           /\ s = frame.position /\ d = frame.d
  OBVIOUS
<1>3. PICK n \in Nat, L \in Nat : n = Len(names) /\ L = Len(path)
  BY <1>2, NamesAreWhole
<1>4. path \in Seq(1 .. 255)
  BY NamesAreWhole
<1>5. /\ IsDir(im, inr) /\ Answered(im, d, i) /\ j \in 1 .. n + 1
      /\ Reached(im, names)[j - 1] = {inr}
      /\ j > n => Denotes(im, path) = {}
  BY <1>1, <1>2, <1>3 DEF OnTheWay
<1>6. /\ d.cur \in Nat /\ r.d.cur = d.cur + 1 /\ Answered(im, r.d, i)
      /\ r.name = Slot(im, i, d.cur).d_name /\ r.child = Slot(im, i, d.cur).d_inumber
      /\ r.name \in Seq(Int) /\ r.child \in Word /\ r.child # 0
      /\ \A c \in 0 .. d.cur : /\ c + 1 \in DOMAIN Entries(im, inr)
                               /\ Entries(im, inr)[c + 1] = Slot(im, i, c)
  BY <1>2, <1>5, AnsweredEntry
<1>7. PICK k \in Nat : k = d.cur
  BY <1>6
<1>8. /\ k + 1 \in DOMAIN Entries(im, inr)
      /\ Entries(im, inr)[k + 1] = Slot(im, i, k) /\ r.d.cur = k + 1
  <2>1. k \in 0 .. d.cur
    BY <1>7
  <2> QED BY <1>6, <1>7, <2>1
<1>9. /\ r.name # <<>> /\ \A x \in 1 .. Len(r.name) : r.name[x] # SLASH
      /\ Below(im, {inr}, r.name) = {r.child}
  <2>1. PICK x, name : x = k + 1 /\ name = r.name
    OBVIOUS
  <2>2. PICK entry : entry = Entries(im, inr)[x]
    OBVIOUS
  <2>3. entry.d_name = name /\ entry.d_inumber = r.child /\ x \in DOMAIN Entries(im, inr)
    BY <1>6, <1>7, <1>8, <2>1, <2>2
  <2>4. name # <<>> /\ \A y \in 1 .. Len(name) : name[y] # SLASH
    BY <1>5, <1>6, <2>1, <2>2, <2>3, AnsweredName
  <2>5. Below(im, {inr}, entry.d_name) = {entry.d_inumber}
    <3>1. IsDir(im, inr) /\ x \in DOMAIN Entries(im, inr)
      BY <1>5, <2>3
    <3>2. OnlyChild(im, inr, entry)
      BY <2>2, <3>1, BelowTheEntry
    <3> QED BY <3>2 DEF OnlyChild
  <2> QED BY <2>1, <2>3, <2>4, <2>5
<1>10. PICK e : e = NameEnd(path, s)
  OBVIOUS
<1>11. /\ s \in 0 .. L
       /\ j <= n => s \in NameBegins(path) /\ s \in 0 .. L - 1 /\ e \in s + 1 .. L
  <2>1. CASE j <= n
    <3>1. j \in 1 .. Len(NamesOf(path))
      BY <1>2, <1>3, <1>5, <2>1
    <3>2. s \in NameBegins(path) /\ s \in 0 .. L - 1 /\ e \in s + 1 .. L
      BY <1>1, <1>2, <1>3, <1>4, <1>10, <3>1, NameAt, NextStart
    <3> QED BY <1>3, <3>2
  <2>2. CASE ~(j <= n)
    <3>1. s = L
      BY <1>1, <1>2, <1>3, <2>2 DEF StartAt
    <3> QED BY <1>3, <2>2, <3>1
  <2> QED BY <2>1, <2>2
<1>12. tail = Len(path) - s
  BY <1>2, <1>3, <1>4, <1>11, TailOfShort
<1>13. PICK f : f = Frame(r.d, s, Root)
  OBVIOUS
<1>14. f.d = r.d /\ f.position = s /\ OnTheWay(im, path, f, inr, j)
  BY <1>1, <1>2, <1>6, <1>13, FrameFields, StillOnTheWay
<1>15. CASE j > n
  <2>1. s = Len(path) /\ tail = Len(path) - Len(path)
    <3>1. ~(j <= n)
      BY <1>3, <1>15
    <3> QED BY <1>1, <1>2, <1>3, <1>12, <3>1 DEF StartAt
  <2>2. found = -1
    BY <1>2, <1>4, <1>6, <1>9, <2>1, ComparedAtEnd
  <2>3. ~(j <= Len(NamesOf(path)))
    BY <1>2, <1>3, <1>15
  <2>4. Searching(im, path, f)
    BY <1>1, <1>2, <1>14, <2>3, Zenon DEF Searching
  <2>5. -1 # 0 /\ -1 # 1
    OBVIOUS
  <2> QED BY <1>2, <1>6, <1>13, <2>2, <2>4, <2>5 DEF Matched
<1>16. CASE ~(j > n)
  <2>1. j \in 1 .. n /\ j \in 1 .. Len(NamesOf(path)) /\ j <= n
    BY <1>2, <1>3, <1>5, <1>16
  <2>2. /\ found = 1 \/ found = 0 \/ found = -1
        /\ found = 1 <=> r.name = names[j] /\ e = L
        /\ found = 0 <=> r.name = names[j] /\ e < L
    <3>1. PICK name : name = r.name
      OBVIOUS
    <3>2. name \in Seq(Int) /\ name # <<>> /\ \A x \in 1 .. Len(name) : name[x] # SLASH
      BY <1>6, <1>9, <3>1
    <3>3. s = StartAt(path, j) /\ found = entry_name_cmpr(name, path, s, Len(path) - s)
      BY <1>1, <1>2, <1>12, <3>1
    <3>4. /\ found = 1 \/ found = 0 \/ found = -1
          /\ found = 1 <=> name = NamesOf(path)[j] /\ NameEnd(path, s) = Len(path)
          /\ found = 0 <=> name = NamesOf(path)[j] /\ NameEnd(path, s) < Len(path)
      BY ONLY <1>4, <2>1, <3>2, <3>3, ComparedNames
    <3> QED BY <1>2, <1>3, <1>10, <3>1, <3>4
  <2>3. /\ e = L => j = n /\ CharAt(path, L - 1) # SLASH
        /\ e < L /\ j = n => CharAt(path, L - 1) = SLASH
    BY <1>1, <1>2, <1>3, <1>4, <1>10, <2>1, LastName
  <2>4. r.name = names[j] => Reached(im, names)[j] = {r.child}
    <3>1. PICK at : at = Reached(im, names)
      OBVIOUS
    <3>2. at[j] = Below(im, at[j - 1], names[j])
      BY <1>3, <2>1, <3>1, ReachedFacts
    <3> QED BY <1>5, <1>9, <3>1, <3>2
  <2>5. /\ path # <<>> /\ Last(path) = CharAt(path, L - 1)
        /\ names # <<>>
    <3>1. L > 0 /\ L - 1 \in 0 .. L - 1 /\ (L - 1) + 1 = L
      BY <1>11, <2>1
    <3>2. CharAt(path, L - 1) = path[L]
      BY <1>3, <1>4, <3>1, PathFacts
    <3>3. Len(<<>>) = 0
      OBVIOUS
    <3>4. n # 0
      BY <2>1
    <3> QED BY <1>3, <3>1, <3>2, <3>3, <3>4 DEF Last
  <2>6. CharAt(path, L - 1) = SLASH => Denotes(im, path) = {}
    BY <1>2, <2>5 DEF Denotes
  <2>7. ASSUME found = 1 PROVE Denotes(im, path) = {r.child}
    <3>1. j = n /\ Last(path) # SLASH /\ r.name = names[j]
      BY <2>2, <2>3, <2>5, <2>7
    <3> QED BY <1>2, <1>3, <2>4, <2>5, <3>1 DEF Denotes
  <2>8. next = StartAt(path, j + 1)
    BY <1>1, <1>4, <2>1, NextStart
  <2>9. ASSUME found = 0 PROVE Passed(im, path, Frame(r.d, next, Root))
    <3>1. PICK g : g = Frame(r.d, next, Root)
      OBVIOUS
    <3>2. g.d = r.d /\ g.position = next /\ OnTheWay(im, path, g, inr, j)
      BY <1>1, <1>2, <1>6, <3>1, FrameFields, StillOnTheWay
    <3>3. Slot(im, i, k).d_name = names[j] /\ k \in 0 .. (k + 1) - 1
      BY <1>6, <1>7, <2>2, <2>9
    <3>4. NamedBefore(im, inr, g.d.cur, names[j])
      BY <1>2, <1>8, <3>2, <3>3 DEF NamedBefore
    <3>5. j <= Len(NamesOf(path))
      BY <1>2, <1>3, <2>1
    <3>6. Passed(im, path, g)
      BY <1>2, <2>8, <3>2, <3>4, <3>5, Zenon DEF Passed
    <3> QED BY <3>1, <3>6
  <2>10. ASSUME found = -1 PROVE Searching(im, path, f)
    <3>1. r.name # names[j]
      <4>1. found # 1 /\ found # 0
        BY <2>10
      <4>2. e = L \/ e < L
        BY <1>11, <2>1
      <4> QED BY <2>2, <4>1, <4>2
    <3>2. ~NamedBefore(im, inr, d.cur, names[j])
      BY <1>1, <1>2, <1>3, <2>1
    <3>3. ~NamedBefore(im, inr, k + 1, names[j])
      <4>1. ASSUME NEW c \in 0 .. (k + 1) - 1 PROVE Slot(im, i, c).d_name # names[j]
        <5>1. c \in 0 .. k - 1 \/ c = k
          BY <4>1
        <5>2. c \in 0 .. k - 1 => Slot(im, i, c).d_name # names[j]
          BY <1>2, <1>7, <3>2 DEF NamedBefore
        <5>3. c = k => Slot(im, i, c).d_name # names[j]
          BY <1>6, <1>7, <3>1
        <5> QED BY <5>1, <5>2, <5>3
      <4> QED BY <1>2, <4>1 DEF NamedBefore
    <3>4. ~NamedBefore(im, inr, f.d.cur, names[j])
      BY <1>8, <1>14, <3>3
    <3> QED BY <1>1, <1>2, <1>14, <3>4, Zenon DEF Searching
  <2>11. ASSUME NEW bad2, found = 0 PROVE Entered(im, path, r, next, bad2)
    <3>1. PICK below : below = direntv6_opendir(Visible(im, bad2), MountedSuper(im), r.child)
      OBVIOUS
    <3>2. /\ below.ret = 0 => /\ IsDir(im, r.child) /\ below.d.cur = 0
                              /\ Answered(im, below.d, InodeOf(im, r.child))
          /\ bad2 = {} /\ IsDir(im, r.child) => below.ret = 0
      BY <1>6, <3>1, OpensDir
    <3>3. r.name = names[j] /\ e < L
      BY <2>2, <2>11
    <3>4. Reached(im, names)[j] = {r.child} /\ (j = n => Denotes(im, path) = {})
      BY <2>3, <2>4, <2>6, <3>3
    <3>5. ASSUME below.ret = 0 PROVE Searching(im, path, Frame(below.d, next, Root))
      <4>1. j + 1 \in Nat /\ j + 1 \in 1 .. n + 1 /\ (j + 1) - 1 = j /\ (j + 1 > n => j = n)
        BY <2>1
      <4>2. /\ j + 1 \in 1 .. Len(NamesOf(path)) + 1
            /\ Reached(im, NamesOf(path))[(j + 1) - 1] = {r.child}
            /\ j + 1 > Len(NamesOf(path)) => Denotes(im, path) = {}
        BY <1>2, <1>3, <3>4, <4>1
      <4>3. r.child \in Word
        BY <1>6
      <4> QED BY <2>8, <3>2, <3>5, <4>1, <4>2, <4>3, SearchBegins
    <3>6. ASSUME below.ret # 0, bad2 = {} PROVE Denotes(im, path) = {}
      <4>1. ~IsDir(im, r.child)
        BY <3>2, <3>6
      <4>2. CASE j = n
        BY <3>4, <4>2
      <4>3. CASE j # n
        <5>1. j + 1 \in 1 .. n /\ (j + 1) - 1 = j
          BY <2>1, <4>3
        <5>2. Below(im, {r.child}, names[j + 1]) = {}
          BY <4>1, BelowOne
        <5>3. Reached(im, names)[j + 1] = {}
          <6>1. PICK at : at = Reached(im, names)
            OBVIOUS
          <6>2. at[j + 1] = Below(im, at[(j + 1) - 1], names[j + 1])
            BY <1>3, <5>1, <6>1, ReachedFacts
          <6> QED BY <3>4, <5>1, <5>2, <6>1, <6>2
        <5>4. j + 1 \in 0 .. Len(names)
          BY <1>3, <5>1
        <5>5. Reached(im, names)[Len(names)] = {}
          BY <1>3, <5>3, <5>4, NothingBelow
        <5> QED BY <1>2, <5>5 DEF Denotes
      <4> QED BY <4>2, <4>3
    <3> QED BY <3>1, <3>5, <3>6 DEF Entered
  <2> QED BY <1>2, <1>6, <1>13, <2>2, <2>7, <2>9, <2>10, <2>11 DEF Matched
<1> QED BY <1>15, <1>16

-----------------------------------------------------------------------------
(* The stack of a lookup.                                                  *)

LEMMA FrontFacts ==
    ASSUME NEW S, NEW st \in Seq(S), st # <<>>
    PROVE  /\ Len(st) \in Nat \ {0} /\ Front(st) \in Seq(S) /\ Len(Front(st)) = Len(st) - 1
           /\ \A x \in 1 .. Len(st) - 1 : Front(st)[x] = st[x]
           /\ Last(st) = st[Len(st)]
<1>1. Len(st) \in Nat \ {0}
  BY EmptySeq
<1>2. PICK n \in Nat : n = Len(st) - 1
  BY <1>1
<1>3. \A x \in 1 .. n : st[x] \in S
  BY <1>1, <1>2, ElementOfSeq
<1>4. PICK f : f = SubSeq(st, 1, n)
  OBVIOUS
<1>5. /\ f \in Seq(S) /\ Len(f) = (IF 1 <= n THEN n - 1 + 1 ELSE 0)
      /\ \A x \in 1 .. n - 1 + 1 : f[x] = st[1 + x - 1]
  BY <1>2, <1>3, <1>4, SubSeqProperties
<1>6. Len(f) = n /\ \A x \in 1 .. n : f[x] = st[x]
  BY <1>2, <1>5
<1>7. f = Front(st)
  BY <1>2, <1>4 DEF Front
<1> QED BY <1>1, <1>2, <1>5, <1>6, <1>7 DEF Last

LEMMA AddedTop ==
    ASSUME NEW S, NEW st \in Seq(S), NEW f
    PROVE  /\ st \o <<f>> \in Seq(S \cup {f}) /\ Len(st \o <<f>>) = Len(st) + 1
           /\ Len(st) \in Nat
           /\ \A x \in 1 .. Len(st) : (st \o <<f>>)[x] = st[x]
           /\ (st \o <<f>>)[Len(st) + 1] = f
  OBVIOUS

\* The readers below the one that is at work have passed the entry that matched; so has this
\* one when the lookup in that entry has failed.
Missed(im, path, walk) == walk.clean /\ DirectoriesAreComplete => Denotes(im, path) = {}
Searches(im, path, st, walk) ==
    /\ \A x \in 1 .. Len(st) - 1 : Passed(im, path, st[x])
    /\ \/ Searching(im, path, st[Len(st)])
       \/ Passed(im, path, st[Len(st)]) /\ Missed(im, path, walk)

LEMMA SearchesPopped ==
    ASSUME NEW im, NEW path, NEW st, IsStack(im, st), st # <<>>, Len(st) # 1,
           NEW walk, NEW after, Searches(im, path, st, walk), Missed(im, path, after)
    PROVE  Searches(im, path, Front(st), after)
<1>1. PICK S : st \in Seq(S)
  BY DEF IsStack
<1>2. /\ Len(st) \in Nat \ {0} /\ Len(Front(st)) = Len(st) - 1
      /\ \A x \in 1 .. Len(st) - 1 : Front(st)[x] = st[x]
  BY <1>1, FrontFacts
<1>f. PICK f : f = Front(st)
  OBVIOUS
<1>3. PICK n \in Nat : n = Len(st) - 1 /\ f = Front(st)
  BY <1>2, <1>f
<1>4. n \in 1 .. Len(st) - 1 /\ Len(f) = n /\ f[n] = st[n]
  BY <1>2, <1>3
<1>5. \A x \in 1 .. Len(st) - 1 : Passed(im, path, st[x])
  BY DEF Searches
<1>6. \A x \in 1 .. n - 1 : Passed(im, path, f[x])
  <2>1. \A x \in 1 .. n - 1 : x \in 1 .. Len(st) - 1 /\ f[x] = st[x]
    BY <1>2, <1>3
  <2> QED BY <1>5, <2>1
<1>7. Passed(im, path, f[n])
  BY <1>4, <1>5
<1> QED BY <1>3, <1>4, <1>6, <1>7 DEF Searches

LEMMA SearchesTurned ==
    ASSUME NEW im, NEW path, NEW st, IsStack(im, st), st # <<>>,
           NEW walk, Searches(im, path, st, walk), NEW after, NEW f,
           Searching(im, path, f) \/ (Passed(im, path, f) /\ Missed(im, path, after))
    PROVE  Searches(im, path, Front(st) \o <<f>> \o <<>>, after)
<1>1. PICK S : st \in Seq(S)
  BY DEF IsStack
<1>2. /\ Len(st) \in Nat \ {0} /\ Front(st) \in Seq(S) /\ Len(Front(st)) = Len(st) - 1
      /\ \A x \in 1 .. Len(st) - 1 : Front(st)[x] = st[x]
  BY <1>1, FrontFacts
<1>3. PICK b : b = Front(st)
  OBVIOUS
<1>4. PICK t : t = b \o <<f>>
  OBVIOUS
<1>5. /\ t \in Seq(S \cup {f}) /\ Len(t) = Len(b) + 1
      /\ \A x \in 1 .. Len(b) : t[x] = b[x]
      /\ t[Len(b) + 1] = f
  BY <1>2, <1>3, <1>4, AddedTop
<1>6. t \o <<>> = t
  BY <1>5, ConcatEmptySeq
<1>7. Len(t) = Len(st) /\ t[Len(t)] = f /\ \A x \in 1 .. Len(t) - 1 : t[x] = st[x]
  BY <1>2, <1>3, <1>5
<1>8. \A x \in 1 .. Len(t) - 1 : Passed(im, path, t[x])
  BY <1>7 DEF Searches
<1>9. Searches(im, path, t, after)
  BY <1>7, <1>8 DEF Searches
<1> QED BY <1>3, <1>4, <1>6, <1>9

LEMMA SearchesEntered ==
    ASSUME NEW im, NEW path, NEW st, IsStack(im, st), st # <<>>,
           NEW walk, Searches(im, path, st, walk), NEW after, NEW f, NEW g,
           Passed(im, path, f), Searching(im, path, g)
    PROVE  Searches(im, path, Front(st) \o <<f>> \o <<g>>, after)
<1>1. PICK S : st \in Seq(S)
  BY DEF IsStack
<1>2. /\ Len(st) \in Nat \ {0} /\ Front(st) \in Seq(S) /\ Len(Front(st)) = Len(st) - 1
      /\ \A x \in 1 .. Len(st) - 1 : Front(st)[x] = st[x]
  BY <1>1, FrontFacts
<1>3. PICK b : b = Front(st)
  OBVIOUS
<1>4. PICK t : t = b \o <<f>>
  OBVIOUS
<1>5. /\ t \in Seq(S \cup {f}) /\ Len(t) = Len(b) + 1
      /\ \A x \in 1 .. Len(b) : t[x] = b[x]
      /\ t[Len(b) + 1] = f
  BY <1>2, <1>3, <1>4, AddedTop
<1>6. PICK u : u = t \o <<g>>
  OBVIOUS
<1>7. /\ Len(u) = Len(t) + 1 /\ Len(t) \in Nat
      /\ \A x \in 1 .. Len(t) : u[x] = t[x]
      /\ u[Len(t) + 1] = g
  BY <1>5, <1>6, AddedTop
<1>8. Len(u) = Len(st) + 1 /\ u[Len(u)] = g /\ u[Len(st)] = f
  BY <1>2, <1>3, <1>5, <1>7
<1>9. ASSUME NEW x \in 1 .. Len(u) - 1 PROVE Passed(im, path, u[x])
  <2>1. CASE x = Len(st)
    BY <1>8, <2>1
  <2>2. CASE x # Len(st)
    <3>1. x \in 1 .. Len(st) - 1
      BY <1>2, <1>8, <2>2
    <3>2. u[x] = st[x]
      BY <1>2, <1>3, <1>5, <1>7, <3>1
    <3> QED BY <3>1, <3>2 DEF Searches
  <2> QED BY <2>1, <2>2
<1>10. Searches(im, path, u, after)
  BY <1>8, <1>9 DEF Searches
<1> QED BY <1>3, <1>4, <1>6, <1>10

-----------------------------------------------------------------------------
(* The invariant of lookups and listings.                                  *)

\* What do_inode may answer, what fs_readdir has listed so far, and what it lists.
Answers(im, path, walk, code) ==
    walk.clean /\ DirectoriesAreComplete
        => IF Denotes(im, path) = {} THEN code < 0 ELSE code \in Denotes(im, path)
Lists(im, path, d, names) == \E inr \in Word :
    /\ inr \in Denotes(im, path) /\ IsDir(im, inr) /\ Answered(im, d, InodeOf(im, inr))
    /\ names = [k \in 1 .. d.cur |-> Slot(im, InodeOf(im, inr), k - 1).d_name]
Listed(im, path, names) == \E inr \in Denotes(im, path) :
    /\ IsDir(im, inr)
    /\ names = [k \in DOMAIN Entries(im, inr) |-> Entries(im, inr)[k].d_name]

WInv ==
    /\ op = [kind |-> op.kind, path |-> op.path, clean |-> op.clean]
    /\ pc = "lookup" => op.kind \in {"inode", "readdir"}
    /\ pc \in {"opendir", "list"} => op.kind = "readdir"
    /\ pc \in {"lookup", "opendir", "list"} => op.path \in Paths
    /\ pc = "tree" => op.kind = "lsall"
    /\ pc \in {"lookup", "opendir"} => out = <<>>
    /\ Len(op.path) < CHAR_RANGE =>
          /\ pc = "lookup" => Searches(img, op.path, stack, op)
          /\ pc = "opendir" => ret \in Denotes(img, op.path)
          /\ pc = "list" => Lists(img, op.path, stack[1].d, out)
          /\ pc = "idle" /\ op.kind = "inode" => Answers(img, op.path, op, ret)
          /\ pc = "idle" /\ op.kind = "readdir" /\ ret = 0 => Listed(img, op.path, out)

LEMMA WInit == Init => WInv
  BY DEF Init, WInv

\* A sector that fails is remembered.
LEMMA FaultsKept ==
    ASSUME op = [kind |-> op.kind, path |-> op.path, clean |-> op.clean],
           NEW bad, Faults(bad)
    PROVE  /\ op' = [kind |-> op'.kind, path |-> op'.path, clean |-> op'.clean]
           /\ op'.kind = op.kind /\ op'.path = op.path
           /\ op'.clean => op.clean /\ bad = {}
<1>1. op' = [op EXCEPT !.clean = op.clean /\ bad = {}]
  BY Zenon DEF Faults
<1>2. op' = [kind |-> op.kind, path |-> op.path, clean |-> op.clean /\ bad = {}]
  BY <1>1, Zenon
<1>3. op'.clean => op.clean /\ bad = {}
  BY <1>2, Zenon
<1> QED BY <1>2, <1>3, Zenon

\* A lookup answers, and a listing ends.
LEMMA ReturnsOk ==
    ASSUME op' = [kind |-> op'.kind, path |-> op'.path, clean |-> op'.clean],
           op'.kind \in {"inode", "readdir"}, op'.path \in Paths, out' = <<>>,
           NEW code \in Int, LookupReturns(code),
           Len(op'.path) < CHAR_RANGE =>
              /\ code # 0
              /\ code > 0 => code \in Denotes(img', op'.path)
              /\ ~(code > 0) => Missed(img', op'.path, op')
    PROVE  WInv'
<1>1. CASE op'.kind = "readdir" /\ code > 0 /\ pc' = "opendir" /\ ret' = code
  BY <1>1 DEF WInv
<1>2. CASE ~(op'.kind = "readdir" /\ code > 0) /\ pc' = "idle" /\ ret' = code
  <2>1. ASSUME Len(op'.path) < CHAR_RANGE
        PROVE  Answers(img', op'.path, op', ret')
    <3>1. CASE code > 0
      <4>1. ret' \in Denotes(img', op'.path)
        BY <1>2, <2>1, <3>1
      <4> QED BY <4>1 DEF Answers
    <3>2. CASE ~(code > 0)
      <4>1. ret' < 0 /\ Missed(img', op'.path, op')
        BY <1>2, <2>1, <3>2
      <4> QED BY <4>1 DEF Answers, Missed
    <3> QED BY <3>1, <3>2
  <2>2. Len(op'.path) < CHAR_RANGE => ret' # 0
    BY <1>2
  <2> QED BY <1>2, <2>1, <2>2 DEF WInv
<1> QED BY <1>1, <1>2 DEF LookupReturns, Return

LEMMA RootDenoted ==
    ASSUME NEW im, NEW path \in Paths,
           NEW start, start = IF CharAt(path, 0) = SLASH THEN pos_next_entry_name(path, 0) ELSE 0
    PROVE  /\ start = StartAt(path, 1)
           /\ start > 0 /\ start = Len(path) => Denotes(im, path) = {ROOT_INUMBER}
           /\ ~(start > 0 /\ start = Len(path)) /\ Len(NamesOf(path)) < 1
                 => Denotes(im, path) = {}
           /\ Reached(im, NamesOf(path))[1 - 1] = {ROOT_INUMBER}
<1>1. PICK names : names = NamesOf(path)
  OBVIOUS
<1>2. PICK n \in Nat : n = Len(names)
  BY <1>1, NamesAreWhole
<1>3. PICK L \in Nat : L = Len(path)
  BY NamesAreWhole
<1>4. path \in Seq(1 .. 255)
  BY NamesAreWhole
<1>5. start = StartAt(path, 1)
  BY <1>4, FirstNameBegins
<1>6. n >= 1 => start < L
  <2> SUFFICES ASSUME n >= 1 PROVE start < L
    OBVIOUS
  <2>1. 1 \in 1 .. Len(NamesOf(path))
    BY <1>1, <1>2
  <2>2. start \in 0 .. L - 1
    BY <1>3, <1>4, <1>5, <2>1, NameAt
  <2> QED BY <1>3, <2>2
<1>7. n < 1 => start = L
  BY <1>1, <1>2, <1>3, <1>5 DEF StartAt
<1>8. Reached(im, names)[0] = {ROOT_INUMBER}
  BY <1>2, ReachedFacts
<1>9. n < 1 => names = <<>> /\ n = 0
  <2>1. names = [k \in 1 .. n |-> SubSeq(path, NameStarts(path)[k] + 1,
                                         NameEnd(path, NameStarts(path)[k]))]
    BY <1>1, <1>2, <1>4, NameBeginsFacts
  <2>2. n < 1 => n = 0 /\ 1 .. n = {}
    BY <1>2
  <2>3. n < 1 => names = <<>>
    BY <2>1, <2>2
  <2> QED BY <2>2, <2>3
<1>10. ASSUME start > 0, start = L PROVE Denotes(im, path) = {ROOT_INUMBER}
  <2>1. n < 1
    BY <1>2, <1>3, <1>6, <1>10
  <2>2. path # <<>>
    <3>1. Len(<<>>) = 0
      OBVIOUS
    <3> QED BY <1>3, <1>10, <3>1
  <2> QED BY <1>1, <1>2, <1>8, <1>9, <2>1, <2>2 DEF Denotes
<1>11. ASSUME ~(start > 0 /\ start = L), n < 1 PROVE Denotes(im, path) = {}
  <2>1. L = 0
    BY <1>3, <1>7, <1>11
  <2>2. path = <<>>
    BY <1>3, <1>4, <2>1, EmptySeq
  <2> QED BY <2>2 DEF Denotes
<1>12. 1 - 1 = 0
  OBVIOUS
<1> QED BY <1>1, <1>2, <1>3, <1>5, <1>8, <1>10, <1>11, <1>12

LEMMA WLookup == ASSUME DirectoriesAreSound, IInv, WInv, Lookup PROVE WInv'
<1>1. PICK kind \in {"inode", "readdir"}, path \in Paths, bad \in IoFaults :
          LET start == IF CharAt(path, 0) = SLASH THEN pos_next_entry_name(path, 0) ELSE 0
              open  == direntv6_opendir(Visible(img, bad), MountedSuper(img), ROOT_INUMBER)
          IN  /\ op' = [kind |-> kind, path |-> path, clean |-> bad = {}]
              /\ out' = <<>>
              /\ IF start > 0 /\ start = Len(path) THEN LookupReturns(ROOT_INUMBER)
                 ELSE IF open.ret # 0 THEN LookupReturns(open.ret)
                 ELSE pc' = "lookup" /\ ret' = 0 /\ stack' = <<Frame(open.d, start, Root)>>
              /\ img' = img
  BY Zenon DEF Lookup, Opendir
<1>2. PICK start : start = IF CharAt(path, 0) = SLASH THEN pos_next_entry_name(path, 0) ELSE 0
  OBVIOUS
<1>3. PICK open : open = direntv6_opendir(Visible(img, bad), MountedSuper(img), ROOT_INUMBER)
  OBVIOUS
<1>4. /\ op' = [kind |-> kind, path |-> path, clean |-> bad = {}] /\ out' = <<>> /\ img' = img
      /\ IF start > 0 /\ start = Len(path) THEN LookupReturns(ROOT_INUMBER)
         ELSE IF open.ret # 0 THEN LookupReturns(open.ret)
         ELSE pc' = "lookup" /\ ret' = 0 /\ stack' = <<Frame(open.d, start, Root)>>
  BY <1>1, <1>2, <1>3, Zenon
<1>5. /\ op' = [kind |-> op'.kind, path |-> op'.path, clean |-> op'.clean]
      /\ op'.kind = kind /\ op'.path = path
      /\ op'.clean => bad = {}
  BY <1>4, Zenon
<1>6. img \in Images
  BY DEF IInv
<1>7. PICK n \in Nat : n = Len(NamesOf(path))
  BY NamesAreWhole
<1>8. /\ start = StartAt(path, 1)
      /\ start > 0 /\ start = Len(path) => Denotes(img, path) = {ROOT_INUMBER}
      /\ ~(start > 0 /\ start = Len(path)) /\ n < 1 => Denotes(img, path) = {}
      /\ Reached(img, NamesOf(path))[1 - 1] = {ROOT_INUMBER}
  BY <1>2, <1>7, RootDenoted
<1>9. /\ open.ret \in Int /\ open.ret <= 0
      /\ open.ret = 0 => /\ IsDir(img, ROOT_INUMBER) /\ open.d.cur = 0
                         /\ Answered(img, open.d, InodeOf(img, ROOT_INUMBER))
      /\ bad = {} /\ IsDir(img, ROOT_INUMBER) => open.ret = 0
  BY <1>3, <1>6, RootIsWord, OpensDir
<1>10. CASE start > 0 /\ start = Len(path) /\ LookupReturns(ROOT_INUMBER)
  <2>1. ROOT_INUMBER \in Int /\ ROOT_INUMBER # 0 /\ ROOT_INUMBER > 0
    BY DEF ROOT_INUMBER
  <2>2. ROOT_INUMBER \in Denotes(img', op'.path)
    BY <1>4, <1>5, <1>8, <1>10
  <2> QED BY <1>4, <1>5, <1>10, <2>1, <2>2, ReturnsOk
<1>11. CASE ~(start > 0 /\ start = Len(path)) /\ open.ret # 0 /\ LookupReturns(open.ret)
  <2>1. Missed(img', op'.path, op')
    <3> SUFFICES ASSUME op'.clean PROVE Denotes(img, path) = {}
      BY <1>4, <1>5 DEF Missed
    <3>1. ~IsDir(img, ROOT_INUMBER)
      BY <1>5, <1>9, <1>11
    <3>2. CASE n < 1
      BY <1>8, <1>11, <3>2
    <3>3. CASE ~(n < 1)
      <4>1. PICK names : names = NamesOf(path)
        OBVIOUS
      <4>2. 1 \in 1 .. Len(names) /\ 1 \in 0 .. Len(names)
        BY <1>7, <3>3, <4>1
      <4>3. PICK at : at = Reached(img, names)
        OBVIOUS
      <4>4. at[1] = Below(img, at[1 - 1], names[1])
        BY <1>7, <4>1, <4>2, <4>3, ReachedFacts
      <4>5. Below(img, {ROOT_INUMBER}, names[1]) = {}
        BY <3>1, BelowOne
      <4>6. Reached(img, names)[1] = {}
        BY <1>8, <4>1, <4>3, <4>4, <4>5
      <4>7. Reached(img, names)[Len(names)] = {}
        BY <1>7, <4>1, <4>2, <4>6, NothingBelow
      <4> QED BY <4>1, <4>7 DEF Denotes
    <3> QED BY <3>2, <3>3
  <2>2. ~(open.ret > 0)
    BY <1>9
  <2> QED BY <1>4, <1>5, <1>9, <1>11, <2>1, <2>2, ReturnsOk
<1>12. CASE /\ ~(start > 0 /\ start = Len(path)) /\ open.ret = 0
            /\ pc' = "lookup" /\ ret' = 0 /\ stack' = <<Frame(open.d, start, Root)>>
  <2>1. PICK f : f = Frame(open.d, start, Root)
    OBVIOUS
  <2>2. 1 \in Nat /\ 1 \in 1 .. n + 1 /\ (1 > n => n < 1)
    BY <1>7
  <2>3. Searching(img, path, f)
    <3>1. /\ 1 \in 1 .. Len(NamesOf(path)) + 1
          /\ 1 > Len(NamesOf(path)) => Denotes(img, path) = {}
      BY <1>7, <1>8, <1>12, <2>2
    <3> QED BY <1>8, <1>9, <1>12, <2>1, <2>2, <3>1, RootIsWord, SearchBegins
  <2>4. PICK st : st = <<f>>
    OBVIOUS
  <2>5. Len(st) = 1 /\ st[Len(st)] = f /\ 1 .. Len(st) - 1 = {}
    BY <2>4
  <2>6. Searches(img, path, st, op')
    BY <2>3, <2>5 DEF Searches
  <2>7. stack' = st
    BY <1>12, <2>1, <2>4
  <2> QED BY <1>4, <1>5, <1>12, <2>6, <2>7 DEF WInv
<1> QED BY <1>4, <1>10, <1>11, <1>12

LEMMA WGoes ==
    ASSUME op' = [kind |-> op'.kind, path |-> op'.path, clean |-> op'.clean],
           op'.kind \in {"inode", "readdir"}, op'.path \in Paths, out' = <<>>, pc' = "lookup",
           Len(op'.path) < CHAR_RANGE => Searches(img', op'.path, stack', op')
    PROVE  WInv'
  BY DEF WInv

\* One turn of the loop, for a path whose length is a char.
Turned(im, path, st, top, r, next, below, found, after) ==
    /\ found = 1 => r.child \in Denotes(im, path) /\ r.child # 0
    /\ found = 0 => Searches(im, path, Front(st) \o <<Frame(r.d, next, Root)>> \o
          (IF below.ret = 0 THEN <<Frame(below.d, next, Root)>> ELSE <<>>), after)
    /\ found = -1 => Searches(im, path,
                         Front(st) \o <<Frame(r.d, top.position, Root)>> \o <<>>, after)

LEMMA TurnOk ==
    ASSUME DirectoriesAreSound, LookupsAreNotMisled, NEW im \in Images, NEW path \in Paths, Len(path) < CHAR_RANGE,
           NEW st, IsStack(im, st), st # <<>>, NEW walk, Searches(im, path, st, walk),
           NEW bad, NEW bad2, NEW after, after.clean => walk.clean /\ bad \cup bad2 = {},
           NEW top, top = Last(st),
           NEW r, r = direntv6_readdir(Visible(im, bad), top.d), r.ret = 1,
           NEW tail \in TailLengths(path, top.position),
           NEW found, found = entry_name_cmpr(r.name, path, top.position, tail),
           NEW next, next = pos_next_entry_name(path, top.position),
           NEW below, below = direntv6_opendir(Visible(im, bad2), MountedSuper(im), r.child)
    PROVE  Turned(im, path, st, top, r, next, below, found, after)
<1>1. Searching(im, path, top) \/ (Passed(im, path, top) /\ Missed(im, path, walk))
  <2>1. top = st[Len(st)]
    BY DEF Last
  <2> QED BY <2>1 DEF Searches
<1>2. Missed(im, path, walk) => Missed(im, path, after)
  BY DEF Missed
<1>3. CASE Passed(im, path, top) /\ Missed(im, path, walk)
  <2>1. found = -1 /\ Passed(im, path, Frame(r.d, top.position, Root))
    BY <1>3, PassedTurn
  <2>2. -1 # 0 /\ -1 # 1
    OBVIOUS
  <2> QED BY <1>2, <1>3, <2>1, <2>2, SearchesTurned DEF Turned
<1>4. CASE Searching(im, path, top)
  <2>1. /\ Matched(im, path, top, r, next, found)
        /\ found = 0 => Entered(im, path, r, next, bad2)
    BY <1>4, SearchingTurn
  <2>2. found = 1 => r.child \in Denotes(im, path) /\ r.child # 0
    BY <2>1 DEF Matched
  <2>3. found = -1 => Searches(im, path,
                          Front(st) \o <<Frame(r.d, top.position, Root)>> \o <<>>, after)
    BY <2>1, SearchesTurned DEF Matched
  <2>4. PICK f : f = Frame(r.d, next, Root)
    OBVIOUS
  <2>5. CASE found = 0 /\ below.ret = 0
    <3>1. PICK g : g = Frame(below.d, next, Root)
      OBVIOUS
    <3>2. Passed(im, path, f) /\ Searching(im, path, g)
      BY <2>1, <2>4, <2>5, <3>1 DEF Matched, Entered
    <3>3. Searches(im, path, Front(st) \o <<f>> \o <<g>>, after)
      BY <3>2, SearchesEntered
    <3> QED BY <2>2, <2>3, <2>4, <2>5, <3>1, <3>3 DEF Turned
  <2>6. CASE found = 0 /\ below.ret # 0
    <3>1. Passed(im, path, f)
      BY <2>1, <2>4, <2>6 DEF Matched
    <3>2. bad2 = {} => Denotes(im, path) = {}
      BY <2>1, <2>6 DEF Entered
    <3>3. after.clean => bad2 = {}
      OBVIOUS
    <3>4. Missed(im, path, after)
      BY <3>2, <3>3, Zenon DEF Missed
    <3>5. Searches(im, path, Front(st) \o <<f>> \o <<>>, after)
      BY <3>1, <3>4, SearchesTurned
    <3> QED BY <2>2, <2>3, <2>4, <2>6, <3>5 DEF Turned
  <2> QED BY <2>2, <2>3, <2>5, <2>6 DEF Turned
<1> QED BY <1>1, <1>3, <1>4

\* The end of the loop.
LEMMA EndOk ==
    ASSUME DirectoriesAreSound, NEW im \in Images, NEW path \in Paths,
           NEW st, NEW walk, Searches(im, path, st, walk),
           NEW bad, NEW bad2, NEW after, after.clean => walk.clean /\ bad \cup bad2 = {},
           NEW r, r = direntv6_readdir(Visible(im, bad), Last(st).d), r.ret # 1
    PROVE  Missed(im, path, after)
<1>1. PICK top : top = Last(st)
  OBVIOUS
<1>2. Searching(im, path, top) \/ (Passed(im, path, top) /\ Missed(im, path, walk))
  <2>1. top = st[Len(st)]
    BY <1>1 DEF Last
  <2> QED BY <2>1 DEF Searches
<1>3. CASE Missed(im, path, walk)
  BY <1>3 DEF Missed
<1>4. CASE Searching(im, path, top)
  <2>1. bad = {} /\ DirectoriesAreComplete => Denotes(im, path) = {}
    BY <1>1, <1>4, SearchEnds
  <2>2. after.clean => bad = {}
    OBVIOUS
  <2> QED BY <2>1, <2>2, Zenon DEF Missed
<1> QED BY <1>2, <1>3, <1>4

LEMMA WLookupStep ==
    ASSUME DirectoriesAreSound, LookupsAreNotMisled, IInv, WInv, LookupStep PROVE WInv'
<1>1. PICK bad \in IoFaults, bad2 \in IoFaults :
          /\ pc = "lookup" /\ Faults(bad \cup bad2)
          /\ \E r \in {direntv6_readdir(Visible(img, bad), Last(stack).d)} :
                \/ /\ LoopEnds(r)
                   /\ IF Len(stack) = 1 THEN LookupReturns(ERR_INODE_OUTOF_RANGE)
                      ELSE stack' = Front(stack) /\ UNCHANGED <<pc, ret>>
                \/ /\ ~LoopEnds(r)
                   /\ \E below \in {direntv6_opendir(Visible(img, bad2), MountedSuper(img),
                                                      r.child)},
                         tail \in TailLengths(op.path, Last(stack).position) :
                            LookupTurn(Last(stack), r, below, tail)
          /\ UNCHANGED <<img, out>>
  BY Zenon DEF LookupStep, Readdir, Opendir
<1>2. PICK top : top = Last(stack)
  OBVIOUS
<1>3. PICK r : /\ r = direntv6_readdir(Visible(img, bad), top.d)
               /\ \/ /\ LoopEnds(r)
                     /\ IF Len(stack) = 1 THEN LookupReturns(ERR_INODE_OUTOF_RANGE)
                        ELSE stack' = Front(stack) /\ UNCHANGED <<pc, ret>>
                  \/ /\ ~LoopEnds(r)
                     /\ \E below \in {direntv6_opendir(Visible(img, bad2), MountedSuper(img),
                                                        r.child)},
                           tail \in TailLengths(op.path, top.position) :
                              LookupTurn(top, r, below, tail)
  BY <1>1, <1>2, Zenon
<1>4. /\ pc = "lookup" /\ img' = img /\ out' = <<>>
      /\ op.kind \in {"inode", "readdir"} /\ op.path \in Paths
      /\ Len(op.path) < CHAR_RANGE => Searches(img, op.path, stack, op)
      /\ op = [kind |-> op.kind, path |-> op.path, clean |-> op.clean]
  BY <1>1 DEF WInv
<1>5. /\ op' = [kind |-> op'.kind, path |-> op'.path, clean |-> op'.clean]
      /\ op'.kind = op.kind /\ op'.path = op.path
      /\ op'.clean => op.clean /\ bad \cup bad2 = {}
  BY <1>1, <1>4, FaultsKept
<1>6. img \in Images /\ stack # <<>> /\ IsStack(img, stack)
  BY <1>4 DEF IInv
<1>7. CASE LoopEnds(r)
  <2>1. Len(op.path) < CHAR_RANGE => Missed(img, op.path, op')
    <3> SUFFICES ASSUME Len(op.path) < CHAR_RANGE PROVE Missed(img, op.path, op')
      OBVIOUS
    <3>1. r.ret # 1 /\ Searches(img, op.path, stack, op)
      BY <1>4, <1>7 DEF LoopEnds
    <3>2. r = direntv6_readdir(Visible(img, bad), Last(stack).d)
      BY <1>2, <1>3
    <3>3. (op'.clean => op.clean /\ bad \cup bad2 = {}) /\ op.path \in Paths /\ img \in Images
      BY <1>4, <1>5, <1>6, Zenon
    <3> QED BY ONLY DirectoriesAreSound, <3>1, <3>2, <3>3, EndOk, Zenon
  <2>2. CASE LookupReturns(ERR_INODE_OUTOF_RANGE)
    <3>1. /\ ERR_INODE_OUTOF_RANGE \in Int /\ ERR_INODE_OUTOF_RANGE # 0
          /\ ~(ERR_INODE_OUTOF_RANGE > 0)
      BY DEF ERR_INODE_OUTOF_RANGE
    <3> QED BY <1>4, <1>5, <2>1, <2>2, <3>1, ReturnsOk
  <2>3. CASE Len(stack) # 1 /\ stack' = Front(stack) /\ UNCHANGED <<pc, ret>>
    <3>1. Len(op.path) < CHAR_RANGE => Searches(img, op.path, Front(stack), op')
      BY <1>4, <1>6, <2>1, <2>3, SearchesPopped
    <3> QED BY <1>4, <1>5, <2>3, <3>1, WGoes
  <2> QED BY <1>3, <1>7, <2>2, <2>3
<1>8. CASE ~LoopEnds(r)
  <2>0. PICK below : below = direntv6_opendir(Visible(img, bad2), MountedSuper(img), r.child)
    OBVIOUS
  <2>1. PICK tail \in TailLengths(op.path, top.position) :
            /\ below = direntv6_opendir(Visible(img, bad2), MountedSuper(img), r.child)
            /\ LookupTurn(top, r, below, tail)
    BY <1>3, <1>8, <2>0, Zenon
  <2>2. PICK found : found = entry_name_cmpr(r.name, op.path, top.position, tail)
    OBVIOUS
  <2>3. PICK next : next = pos_next_entry_name(op.path, top.position)
    OBVIOUS
  <2>4. \/ found = 1 /\ LookupReturns(r.child)
        \/ /\ found = 0 /\ UNCHANGED <<pc, ret>>
           /\ stack' = Front(stack) \o <<Frame(r.d, next, Root)>> \o
                           IF below.ret = 0 THEN <<Frame(below.d, next, Root)>> ELSE <<>>
        \/ /\ found = -1 /\ UNCHANGED <<pc, ret>>
           /\ stack' = Front(stack) \o <<Frame(r.d, top.position, Root)>> \o <<>>
    BY <2>1, <2>2, <2>3, Zenon DEF LookupTurn
  <2>5. r.ret = 1
    BY <1>8 DEF LoopEnds
  <2>6. ASSUME Len(op.path) < CHAR_RANGE
        PROVE  /\ found = 1 => r.child \in Denotes(img, op.path) /\ r.child # 0
               /\ found = 0 => Searches(img, op.path, Front(stack) \o <<Frame(r.d, next, Root)>> \o
                      IF below.ret = 0 THEN <<Frame(below.d, next, Root)>> ELSE <<>>, op')
               /\ found = -1 => Searches(img, op.path,
                      Front(stack) \o <<Frame(r.d, top.position, Root)>> \o <<>>, op')
    <3>1. (op'.clean => op.clean /\ bad \cup bad2 = {}) /\ Searches(img, op.path, stack, op)
      BY <1>4, <1>5, <2>6, Zenon
    <3>2. r = direntv6_readdir(Visible(img, bad), top.d) /\ op.path \in Paths
      BY <1>3, <1>4
    <3>3. Turned(img, op.path, stack, top, r, next, below, found, op')
      BY ONLY DirectoriesAreSound, LookupsAreNotMisled, <1>2, <1>6, <2>1, <2>2, <2>3, <2>5,
              <2>6, <3>1, <3>2, TurnOk, Zenon
    <3> QED BY <3>3, Zenon DEF Turned
  <2>7. CASE found = 1 /\ LookupReturns(r.child)
    <3>1. r.child \in Int /\ ~(r.child # 0 /\ ~(r.child > 0))
      <4>1. Reader(img, top.d) /\ IsImage(img)
        BY <1>2, <1>6, PoppedStack, WalksAssumption
      <4>2. r.child \in Word
        BY <1>3, <2>5, <4>1, ReaddirReads
      <4>3. \A x \in Word : x \in Int /\ ~(x # 0 /\ ~(x > 0))
        BY WordFacts
      <4> QED BY <4>2, <4>3
    <3> QED BY <1>4, <1>5, <2>6, <2>7, <3>1, ReturnsOk
  <2>8. CASE /\ found = 0 /\ UNCHANGED <<pc, ret>>
             /\ stack' = Front(stack) \o <<Frame(r.d, next, Root)>> \o
                             IF below.ret = 0 THEN <<Frame(below.d, next, Root)>> ELSE <<>>
    BY <1>4, <1>5, <2>6, <2>8, WGoes
  <2>9. CASE /\ found = -1 /\ UNCHANGED <<pc, ret>>
             /\ stack' = Front(stack) \o <<Frame(r.d, top.position, Root)>> \o <<>>
    BY <1>4, <1>5, <2>6, <2>9, WGoes
  <2> QED BY <2>4, <2>7, <2>8, <2>9
<1> QED BY <1>7, <1>8

LEMMA WListOpen == ASSUME DirectoriesAreSound, IInv, WInv, ListOpen PROVE WInv'
<1>1. PICK bad \in IoFaults, bad2 \in IoFaults :
          LET code == inode_read(Visible(img, bad), MountedSuper(img), ret)
              open == direntv6_opendir(Visible(img, bad2), MountedSuper(img), ret)
          IN  /\ pc = "opendir" /\ Faults(bad \cup bad2)
              /\ IF code # 0 THEN Return(code)
                 ELSE IF open.ret # 0 THEN Return(open.ret)
                 ELSE pc' = "list" /\ ret' = 0 /\ stack' = <<Frame(open.d, 0, Root)>>
              /\ UNCHANGED <<img, out>>
  BY Zenon DEF ListOpen, Opendir
<1>2. PICK code : code = inode_read(Visible(img, bad), MountedSuper(img), ret)
  OBVIOUS
<1>3. PICK open : open = direntv6_opendir(Visible(img, bad2), MountedSuper(img), ret)
  OBVIOUS
<1>4. /\ pc = "opendir" /\ Faults(bad \cup bad2) /\ img' = img /\ out' = out
      /\ \/ code # 0 /\ Return(code)
         \/ open.ret # 0 /\ Return(open.ret)
         \/ open.ret = 0 /\ pc' = "list" /\ ret' = 0 /\ stack' = <<Frame(open.d, 0, Root)>>
  BY <1>1, <1>2, <1>3, Zenon
<1>5. /\ op.kind = "readdir" /\ op.path \in Paths /\ out = <<>>
      /\ op = [kind |-> op.kind, path |-> op.path, clean |-> op.clean]
      /\ Len(op.path) < CHAR_RANGE => ret \in Denotes(img, op.path)
  BY <1>4 DEF WInv
<1>6. /\ op' = [kind |-> op'.kind, path |-> op'.path, clean |-> op'.clean]
      /\ op'.kind = "readdir" /\ op'.path = op.path /\ op'.path \in Paths
  BY <1>4, <1>5, FaultsKept
<1>7. CASE \E c : c # 0 /\ Return(c)
  BY <1>6, <1>7 DEF Return, WInv
<1>8. CASE open.ret = 0 /\ pc' = "list" /\ ret' = 0 /\ stack' = <<Frame(open.d, 0, Root)>>
  <2>1. img \in Images /\ ret \in Word
    BY <1>4 DEF IInv
  <2>2. IsDir(img, ret) /\ Answered(img, open.d, InodeOf(img, ret)) /\ open.d.cur = 0
    BY <1>3, <1>8, <2>1, OpensDir
  <2>3. stack'[1].d = open.d
    <3>1. PICK f : f = Frame(open.d, 0, Root)
      OBVIOUS
    <3> QED BY <1>8, <3>1, FrameFields
  <2>4. out = [k \in 1 .. open.d.cur |-> Slot(img, InodeOf(img, ret), k - 1).d_name]
    <3>1. 1 .. open.d.cur = {}
      BY <2>2
    <3> QED BY <1>5, <3>1
  <2>5. Len(op.path) < CHAR_RANGE => Lists(img, op.path, open.d, out)
    BY <1>5, <2>1, <2>2, <2>4 DEF Lists
  <2> QED BY <1>4, <1>6, <1>8, <2>3, <2>5 DEF WInv
<1> QED BY <1>4, <1>7, <1>8

\* One more name.
LEMMA OneMore ==
    ASSUME NEW im, NEW i, NEW m \in Nat, NEW name, name = Slot(im, i, m).d_name,
           NEW names, names = [k \in 1 .. m |-> Slot(im, i, k - 1).d_name]
    PROVE  Append(names, name) = [k \in 1 .. m + 1 |-> Slot(im, i, k - 1).d_name]
<1> DEFINE g(k) == Slot(im, i, k - 1).d_name
<1>1. name = g(m + 1) /\ names = [k \in 1 .. m |-> g(k)]
  <2>1. (m + 1) - 1 = m
    OBVIOUS
  <2> QED BY <2>1
<1> HIDE DEF g
<1>2. Append(names, name) = [k \in 1 .. m + 1 |-> g(k)]
  BY <1>1
<1> QED BY <1>2 DEF g

LEMMA WListStep == ASSUME DirectoriesAreSound, IInv, WInv, ListStep PROVE WInv'
<1>1. PICK bad \in IoFaults :
          /\ pc = "list" /\ Faults(bad)
          /\ \E r \in {direntv6_readdir(Visible(img, bad), stack[1].d)} :
                \/ /\ r.ret = 1 /\ out' = Append(out, r.name)
                   /\ stack' = <<Frame(r.d, 0, Root)>> /\ UNCHANGED <<pc, ret>>
                \/ r.ret # 1 /\ Return(LoopReturns(r.ret)) /\ UNCHANGED out
          /\ UNCHANGED img
  BY Zenon DEF ListStep, Readdir
<1>2. PICK d : d = stack[1].d
  OBVIOUS
<1>3. PICK r : /\ r = direntv6_readdir(Visible(img, bad), d)
               /\ \/ /\ r.ret = 1 /\ out' = Append(out, r.name)
                     /\ stack' = <<Frame(r.d, 0, Root)>> /\ UNCHANGED <<pc, ret>>
                  \/ r.ret # 1 /\ Return(LoopReturns(r.ret)) /\ out' = out
  BY <1>1, <1>2, Zenon
<1>4. /\ pc = "list" /\ img' = img /\ op.kind = "readdir" /\ op.path \in Paths
      /\ op = [kind |-> op.kind, path |-> op.path, clean |-> op.clean]
      /\ Len(op.path) < CHAR_RANGE => Lists(img, op.path, d, out)
  BY <1>1, <1>2 DEF WInv
<1>5. /\ op' = [kind |-> op'.kind, path |-> op'.path, clean |-> op'.clean]
      /\ op'.kind = "readdir" /\ op'.path = op.path /\ op'.path \in Paths
  BY <1>1, <1>4, FaultsKept
<1>6. img \in Images
  BY DEF IInv
<1>7. CASE /\ r.ret = 1 /\ out' = Append(out, r.name)
           /\ stack' = <<Frame(r.d, 0, Root)>> /\ UNCHANGED <<pc, ret>>
  <2>1. stack'[1].d = r.d
    <3>1. PICK f : f = Frame(r.d, 0, Root)
      OBVIOUS
    <3> QED BY <1>7, <3>1, FrameFields
  <2>2. ASSUME Len(op.path) < CHAR_RANGE PROVE Lists(img, op.path, r.d, out')
    <3>1. PICK inr \in Word :
              /\ inr \in Denotes(img, op.path) /\ IsDir(img, inr)
              /\ Answered(img, d, InodeOf(img, inr))
              /\ out = [k \in 1 .. d.cur |-> Slot(img, InodeOf(img, inr), k - 1).d_name]
      BY <1>4, <2>2, Zenon DEF Lists
    <3>2. PICK i : i = InodeOf(img, inr)
      OBVIOUS
    <3>3. /\ d.cur \in Nat /\ r.d.cur = d.cur + 1 /\ Answered(img, r.d, i)
          /\ r.name = Slot(img, i, d.cur).d_name
      BY <1>3, <1>6, <1>7, <3>1, <3>2, AnsweredEntry
    <3>4. Append(out, r.name) = [k \in 1 .. d.cur + 1 |-> Slot(img, i, k - 1).d_name]
      BY <3>1, <3>2, <3>3, OneMore
    <3>5. out' = [k \in 1 .. r.d.cur |-> Slot(img, i, k - 1).d_name]
      BY <1>7, <3>3, <3>4
    <3> QED BY <3>1, <3>2, <3>3, <3>5, Zenon DEF Lists
  <2> QED BY <1>4, <1>5, <1>7, <2>1, <2>2 DEF WInv
<1>8. CASE r.ret # 1 /\ Return(LoopReturns(r.ret)) /\ out' = out
  <2>1. ASSUME Len(op.path) < CHAR_RANGE, LoopReturns(r.ret) = 0
        PROVE  Listed(img, op.path, out)
    <3>1. PICK inr \in Word :
              /\ inr \in Denotes(img, op.path) /\ IsDir(img, inr)
              /\ Answered(img, d, InodeOf(img, inr))
              /\ out = [k \in 1 .. d.cur |-> Slot(img, InodeOf(img, inr), k - 1).d_name]
      BY <1>4, <2>1, Zenon DEF Lists
    <3>2. PICK i : i = InodeOf(img, inr)
      OBVIOUS
    <3>3. r.ret = 0 \/ r.ret = ERR_UNALLOCATED_INODE
      BY <2>1 DEF LoopReturns
    <3>4. PICK m \in Nat : m = d.cur /\ Entries(img, inr) = [k \in 1 .. m |-> Slot(img, i, k - 1)]
      BY <1>3, <1>6, <1>8, <3>1, <3>2, <3>3, NothingAnswered
    <3>5. PICK en : en = Entries(img, inr)
      OBVIOUS
    <3>6. DOMAIN en = 1 .. m /\ \A k \in 1 .. m : en[k] = Slot(img, i, k - 1)
      BY <3>4, <3>5
    <3>7. [k \in DOMAIN en |-> en[k].d_name] = [k \in 1 .. m |-> Slot(img, i, k - 1).d_name]
      BY <3>6
    <3>8. out = [k \in DOMAIN en |-> en[k].d_name]
      BY <3>1, <3>2, <3>4, <3>7
    <3> QED BY <3>1, <3>5, <3>8, Zenon DEF Listed
  <2>2. pc' = "idle" /\ ret' = LoopReturns(r.ret)
    BY <1>8 DEF Return
  <2> QED BY <1>4, <1>5, <1>8, <2>1, <2>2 DEF WInv
<1> QED BY <1>3, <1>7, <1>8

\* lsall looks up no path.
LEMMA WLsall == ASSUME Lsall PROVE WInv'
<1>1. PICK bad \in IoFaults :
          /\ op' = [kind |-> "lsall", path |-> <<>>, clean |-> bad = {}]
          /\ pc' = "idle" \/ pc' = "tree"
  BY Zenon DEF Lsall, Return
<1>2. /\ op' = [kind |-> op'.kind, path |-> op'.path, clean |-> op'.clean]
      /\ op'.kind = "lsall"
  BY <1>1, Zenon
<1> QED BY <1>1, <1>2 DEF WInv

LEMMA WTreeStep == ASSUME WInv, TreeStep PROVE WInv'
<1>1. PICK bad : pc = "tree" /\ Faults(bad) /\ (pc' = "tree" \/ pc' = "idle")
  BY Zenon DEF TreeStep, TreeTurn, Return
<1>2. op = [kind |-> op.kind, path |-> op.path, clean |-> op.clean] /\ op.kind = "lsall"
  BY <1>1 DEF WInv
<1>3. /\ op' = [kind |-> op'.kind, path |-> op'.path, clean |-> op'.clean]
      /\ op'.kind = "lsall"
  BY <1>1, <1>2, FaultsKept
<1> QED BY <1>1, <1>3 DEF WInv

LEMMA WNext ==
    DirectoriesAreSound /\ LookupsAreNotMisled /\ IInv /\ WInv /\ [Next]_vars => WInv'
<1> SUFFICES ASSUME DirectoriesAreSound, LookupsAreNotMisled, IInv, WInv, [Next]_vars PROVE WInv'
  OBVIOUS
<1>1. CASE Next
  BY <1>1, WLookup, WLsall, WLookupStep, WListOpen, WListStep, WTreeStep DEF Next, Step
<1>2. CASE UNCHANGED vars
  BY <1>2 DEF vars, WInv
<1> QED BY <1>1, <1>2

LEMMA WShows == WInv => ListIsComplete /\ (DirectoriesAreComplete => LookupIsExact)
<1> SUFFICES ASSUME WInv PROVE ListIsComplete /\ (DirectoriesAreComplete => LookupIsExact)
  OBVIOUS
<1>1. ListIsComplete
  BY Zenon DEF WInv, ListIsComplete, Listed
<1>2. ASSUME DirectoriesAreComplete PROVE LookupIsExact
  BY <1>2, Zenon DEF WInv, LookupIsExact, Answers
<1> QED BY <1>1, <1>2

-----------------------------------------------------------------------------
(* The levels of a tree.                                                   *)

TheRoot == [path |-> Root, inr |-> ROOT_INUMBER]
NodesUnder(im, nodes) == UNION {NodesBelow(im, n) : n \in nodes}

\* The first m steps of the definition of TreeLevels.
Grows(im, m, f) == f = [k \in 0 .. m |-> IF k = 0 THEN {TheRoot} ELSE NodesUnder(im, f[k - 1])]

LEMMA GrowsOnce == ASSUME NEW im PROVE \E f : Grows(im, 0, f)
<1>1. PICK f : f = [k \in 0 .. 0 |-> {TheRoot}]
  OBVIOUS
<1>2. \A k \in 0 .. 0 : k = 0
  OBVIOUS
<1>3. [k \in 0 .. 0 |-> IF k = 0 THEN {TheRoot} ELSE NodesUnder(im, f[k - 1])] = f
  BY <1>1, <1>2, Zenon
<1> QED BY <1>3 DEF Grows

LEMMA GrowsFurther ==
    ASSUME NEW im, NEW m \in Nat, NEW f, Grows(im, m, f)
    PROVE  \E g : Grows(im, m + 1, g)
<1>1. PICK last : last = NodesUnder(im, f[m])
  OBVIOUS
<1>2. PICK g : g = [k \in 0 .. m + 1 |-> IF k = m + 1 THEN last ELSE f[k]]
  OBVIOUS
<1> DEFINE h(k) == IF k = 0 THEN {TheRoot} ELSE NodesUnder(im, g[k - 1])
<1>3. ASSUME NEW k \in 0 .. m + 1 PROVE g[k] = h(k)
  <2>1. CASE k = m + 1
    <3>1. k # 0 /\ k - 1 = m /\ m \in 0 .. m + 1 /\ m # m + 1
      BY <2>1
    <3>2. g[k - 1] = f[m] /\ g[k] = last
      BY <1>2, <2>1, <3>1
    <3> QED BY <1>1, <2>1, <3>1, <3>2
  <2>2. CASE k = 0
    <3>1. 0 \in 0 .. m /\ 0 # m + 1
      OBVIOUS
    <3>2. f[0] = {TheRoot}
      BY <3>1 DEF Grows
    <3> QED BY <1>2, <2>2, <3>1, <3>2
  <2>3. CASE k # m + 1 /\ k # 0
    <3>1. k \in 0 .. m /\ k - 1 \in 0 .. m + 1 /\ k - 1 # m + 1
      BY <2>3
    <3>2. f[k] = NodesUnder(im, f[k - 1])
      BY <2>3, <3>1 DEF Grows
    <3>3. g[k] = f[k] /\ g[k - 1] = f[k - 1]
      BY <1>2, <2>3, <3>1
    <3> QED BY <2>3, <3>2, <3>3
  <2> QED BY <2>1, <2>2, <2>3
<1>4. g = [k \in 0 .. m + 1 |-> h(k)]
  <2> HIDE DEF h
  <2>1. g = [k \in 0 .. m + 1 |-> g[k]]
    BY <1>2
  <2> QED BY <1>3, <2>1
<1>5. Grows(im, m + 1, g)
  BY <1>4 DEF Grows
<1> QED BY <1>5

\* By the least number of levels for which there would be none.
LEMMA GrowsAnyWhere == ASSUME NEW im, NEW n \in Nat PROVE \E f : Grows(im, n, f)
<1> DEFINE S == {m \in Nat : ~\E f : Grows(im, m, f)}
<1> SUFFICES ASSUME S # {} PROVE FALSE
  OBVIOUS
<1>1. PICK m : m \in S /\ \A y \in S : m <= y
  <2> HIDE DEF S
  <2>1. S \in SUBSET Nat
    BY DEF S
  <2> QED BY <2>1, MinOfNaturals
<1>2. m # 0
  BY <1>1, GrowsOnce
<1>3. m - 1 \in Nat /\ (m - 1) + 1 = m /\ ~(m <= m - 1)
  BY <1>1, <1>2
<1>4. PICK f : Grows(im, m - 1, f)
  BY <1>1, <1>3
<1>5. \E g : Grows(im, (m - 1) + 1, g)
  BY <1>3, <1>4, GrowsFurther
<1> QED BY <1>1, <1>3, <1>5

\* Each level of the tree is defined, and follows from the one above.
LEMMA LevelFacts ==
    ASSUME NEW im, NEW n \in Nat, n = TreeDepth(im), NEW at, at = TreeLevels(im)
    PROVE  /\ at[0] = {TheRoot}
           /\ \A k \in 1 .. n : at[k] = NodesUnder(im, at[k - 1])
<1>1. at = CHOOSE f : f = [k \in 0 .. n |-> IF k = 0 THEN {TheRoot} ELSE NodesUnder(im, f[k - 1])]
  BY Zenon DEF TreeLevels, TheRoot, NodesUnder
<1>2. at = CHOOSE f : Grows(im, n, f)
  BY <1>1, Zenon DEF Grows
<1>3. Grows(im, n, at)
  BY <1>2, GrowsAnyWhere, Zenon
<1>4. at[0] = {TheRoot}
  BY <1>3 DEF Grows
<1>5. ASSUME NEW k \in 1 .. n PROVE at[k] = NodesUnder(im, at[k - 1])
  <2>1. k \in 0 .. n /\ k # 0
    BY <1>5
  <2> QED BY <1>3, <2>1 DEF Grows
<1> QED BY <1>4, <1>5

LEMMA DepthIsNat == ASSUME NEW im \in Images PROVE TreeDepth(im) \in Nat
<1>1. im[SUPERBLOCK_SECTOR] \in Sector
  BY WalksAssumption DEF IsImage
<1>2. MountedSuper(im).s_isize \in Word
  BY <1>1, SuperblockType DEF MountedSuper
<1>3. PICK n \in Nat, p \in Nat : n = MountedSuper(im).s_isize /\ p = INODES_PER_SECTOR
  BY <1>2, PerSector, WordFacts
<1>4. n * p \in Nat
  OBVIOUS
<1> QED BY <1>3, <1>4 DEF TreeDepth

\* What an entry of a directory of the tree leads to is in the tree.
LEMMA NodeFacts ==
    ASSUME NEW im \in Images
    PROVE  /\ TheRoot \in TreeNodes(im)
           /\ im \in Trees /\ TreesEnd =>
                 \A n \in TreeNodes(im) : NodesBelow(im, n) \subseteq TreeNodes(im)
<1>0. PICK at : at = TreeLevels(im)
  OBVIOUS
<1>1. PICK d \in Nat : d = TreeDepth(im) /\ at = TreeLevels(im)
  BY <1>0, DepthIsNat
<1>2. at[0] = {TheRoot} /\ \A k \in 1 .. d : at[k] = NodesUnder(im, at[k - 1])
  BY <1>1, LevelFacts
<1>3. TreeNodes(im) = UNION {at[k] : k \in 0 .. d}
  BY <1>1 DEF TreeNodes
<1>4. TheRoot \in TreeNodes(im)
  <2>1. 0 \in 0 .. d
    OBVIOUS
  <2> QED BY <1>2, <1>3, <2>1
<1>5. ASSUME im \in Trees, TreesEnd, NEW n \in TreeNodes(im), NEW m \in NodesBelow(im, n)
      PROVE  m \in TreeNodes(im)
  <2>1. PICK k \in 0 .. d : n \in at[k]
    BY <1>3
  <2>2. IsDir(im, n.inr)
    <3> SUFFICES ASSUME ~IsDir(im, n.inr) PROVE FALSE
      OBVIOUS
    <3>1. Children(im, n.inr) = {}
      BY DEF Children
    <3> QED BY <1>5, <3>1 DEF NodesBelow
  <2>3. k # d
    BY <1>1, <1>5, <2>1, <2>2 DEF TreesEnd
  <2>4. k + 1 \in 1 .. d /\ k + 1 \in 0 .. d /\ (k + 1) - 1 = k
    BY <2>3
  <2>5. at[k + 1] = NodesUnder(im, at[k])
    BY <1>2, <2>4
  <2>6. m \in at[k + 1]
    BY <1>5, <2>1, <2>5 DEF NodesUnder
  <2> QED BY <1>3, <2>4, <2>6
<1> QED BY <1>4, <1>5

\* A part of the tree that has its root and what its directories hold is the tree.
LEMMA ClosedIsAll ==
    ASSUME NEW im \in Images, NEW N \in SUBSET TreeNodes(im), TheRoot \in N,
           \A n \in N : IsDir(im, n.inr) => NodesBelow(im, n) \subseteq N
    PROVE  N = TreeNodes(im)
<1>0. PICK at : at = TreeLevels(im)
  OBVIOUS
<1>1. PICK d \in Nat : d = TreeDepth(im) /\ at = TreeLevels(im)
  BY <1>0, DepthIsNat
<1>2. at[0] = {TheRoot} /\ \A k \in 1 .. d : at[k] = NodesUnder(im, at[k - 1])
  BY <1>1, LevelFacts
<1>3. TreeNodes(im) = UNION {at[k] : k \in 0 .. d}
  BY <1>1 DEF TreeNodes
<1>4. \A n \in N : NodesBelow(im, n) \subseteq N
  <2> SUFFICES ASSUME NEW n \in N, ~IsDir(im, n.inr) PROVE NodesBelow(im, n) \subseteq N
    OBVIOUS
  <2>1. Children(im, n.inr) = {}
    BY DEF Children
  <2> QED BY <2>1 DEF NodesBelow
<1> DEFINE S == {k \in Nat : k <= d /\ ~(at[k] \subseteq N)}
<1>5. S = {}
  <2> SUFFICES ASSUME S # {} PROVE FALSE
    OBVIOUS
  <2>1. PICK m : m \in S /\ \A y \in S : m <= y
    <3> HIDE DEF S
    <3>1. S \in SUBSET Nat
      BY DEF S
    <3> QED BY <3>1, MinOfNaturals
  <2>2. m # 0
    BY <1>2, <2>1
  <2>3. m \in 1 .. d /\ m - 1 \in Nat /\ m - 1 <= d /\ ~(m <= m - 1)
    BY <1>1, <2>1, <2>2
  <2>4. at[m - 1] \subseteq N
    BY <2>1, <2>3
  <2>5. at[m] \subseteq N
    BY <1>2, <1>4, <2>3, <2>4 DEF NodesUnder
  <2> QED BY <2>1, <2>5
<1>6. \A k \in 0 .. d : at[k] \subseteq N
  BY <1>5
<1> QED BY <1>3, <1>6

-----------------------------------------------------------------------------
(* Lines and stacks.                                                       *)

Routes == Seq(Seq(Int))

\* A path with one name more: its last name, and the path that holds it.
LEMMA LongerRoute ==
    ASSUME NEW s \in Routes, NEW w \in Seq(Int), NEW p, p = Append(s, w)
    PROVE  /\ p \in Routes /\ p # <<>> /\ Front(p) = s /\ Last(p) = w
           /\ Len(p) = Len(s) + 1 /\ Len(s) \in Nat
<1>1. PICK n \in Nat : n = Len(s)
  BY LenProperties DEF Routes
<1>2. p \in Routes /\ Len(p) = n + 1 /\ \A k \in 1 .. n : p[k] = s[k]
  BY <1>1, AppendProperties DEF Routes
<1>3. p[n + 1] = w
  BY <1>1, AppendProperties DEF Routes
<1>4. p # <<>>
  <2>1. Len(<<>>) = 0
    OBVIOUS
  <2> QED BY <1>1, <1>2, <2>1
<1>5. Front(p) \in Routes /\ Len(Front(p)) = n /\ (\A k \in 1 .. n : Front(p)[k] = p[k])
      /\ Last(p) = w
  <2>1. /\ Front(p) \in Seq(Seq(Int)) /\ Len(Front(p)) = Len(p) - 1
        /\ \A x \in 1 .. Len(p) - 1 : Front(p)[x] = p[x]
        /\ Last(p) = p[Len(p)]
    BY <1>2, <1>4, FrontFacts DEF Routes
  <2> QED BY <1>2, <1>3, <2>1 DEF Routes
<1>6. Front(p) = s
  BY <1>1, <1>2, <1>5, SeqEqual DEF Routes
<1> QED BY <1>1, <1>2, <1>4, <1>5, <1>6

\* No line comes twice.
Once(lines) == /\ \E S : lines \in Seq(S)
               /\ IsFiniteSet(ToSet(lines)) /\ Len(lines) = Cardinality(ToSet(lines))

LEMMA OneLine == ASSUME NEW l PROVE Once(<<l>>) /\ ToSet(<<l>>) = {l}
<1>1. <<l>> \in Seq({l}) /\ Len(<<l>>) = 1 /\ ToSet(<<l>>) = {l}
  BY DEF ToSet
<1>2. IsFiniteSet({l}) /\ Cardinality({l}) = 1
  BY FS_Singleton
<1> QED BY <1>1, <1>2 DEF Once

\* A line that is new leaves each line once.
LEMMA OneMoreLine ==
    ASSUME NEW lines, Once(lines), NEW l, l \notin ToSet(lines)
    PROVE  Once(Append(lines, l)) /\ ToSet(Append(lines, l)) = ToSet(lines) \cup {l}
<1>1. PICK S : lines \in Seq(S)
  BY DEF Once
<1>2. PICK T : T = S \cup {l}
  OBVIOUS
<1>3. lines \in Seq(T) /\ l \in T
  BY <1>1, <1>2, SeqMonotonic
<1>4. PICK n \in Nat : n = Len(lines) /\ DOMAIN lines = 1 .. n
  BY <1>1, LenProperties
<1>5. PICK more : more = Append(lines, l)
  OBVIOUS
<1>6. /\ more \in Seq(T) /\ Len(more) = n + 1
      /\ \A k \in 1 .. n : more[k] = lines[k]
      /\ more[n + 1] = l
  BY <1>3, <1>4, <1>5, AppendProperties
<1>7. DOMAIN more = 1 .. n + 1
  BY <1>6, LenProperties
<1>8. ToSet(more) = ToSet(lines) \cup {l}
  <2>1. ASSUME NEW k \in 1 .. n + 1 PROVE more[k] \in ToSet(lines) \cup {l}
    <3>1. k \in 1 .. n \/ k = n + 1
      BY <1>4
    <3> QED BY <1>4, <1>6, <3>1 DEF ToSet
  <2>2. ASSUME NEW k \in 1 .. n PROVE lines[k] \in ToSet(more)
    <3>1. k \in 1 .. n + 1
      BY <1>4
    <3> QED BY <1>6, <1>7, <3>1 DEF ToSet
  <2>3. l \in ToSet(more)
    <3>1. n + 1 \in 1 .. n + 1
      BY <1>4
    <3> QED BY <1>6, <1>7, <3>1 DEF ToSet
  <2> QED BY <1>4, <1>7, <2>1, <2>2, <2>3 DEF ToSet
<1>9. IsFiniteSet(ToSet(more)) /\ Cardinality(ToSet(more)) = Cardinality(ToSet(lines)) + 1
  BY <1>8, FS_AddElement DEF Once
<1>10. n = Cardinality(ToSet(lines))
  BY <1>4 DEF Once
<1>11. Once(more)
  BY <1>6, <1>9, <1>10 DEF Once
<1> QED BY <1>5, <1>8, <1>11

\* The frames of a stack whose top has had a turn, and of one that has lost its top.
GoneOn(st, st2, k, f, more) ==
    /\ Len(st2) = k + Len(more) /\ st2[k] = f
    /\ \A x \in 1 .. k - 1 : st2[x] = st[x]
    /\ \A x \in 1 .. Len(more) : st2[k + x] = more[x]
Lost(st, st2, k) == Len(st2) = k - 1 /\ \A x \in 1 .. k - 1 : st2[x] = st[x]

\* A reader that is closed: the stack loses its top.
LEMMA LostTop ==
    ASSUME NEW im, NEW st, IsStack(im, st), st # <<>>
    PROVE  /\ Len(st) \in Nat \ {0} /\ Last(st) = st[Len(st)]
           /\ Lost(st, Front(st), Len(st))
           /\ Len(st) = 1 => Lost(st, <<>>, Len(st))
<1>1. PICK S : st \in Seq(S)
  BY DEF IsStack
<1>2. /\ Len(st) \in Nat \ {0} /\ Front(st) \in Seq(S) /\ Len(Front(st)) = Len(st) - 1
      /\ \A x \in 1 .. Len(st) - 1 : Front(st)[x] = st[x]
      /\ Last(st) = st[Len(st)]
  BY <1>1, FrontFacts
<1>3. Len(st) = 1 => Lost(st, <<>>, Len(st))
  <2>1. Len(<<>>) = 1 - 1 /\ 1 .. 1 - 1 = {}
    OBVIOUS
  <2> QED BY <2>1 DEF Lost
<1> QED BY <1>2, <1>3 DEF Lost

\* A turn of the loop: the top moves on, and may get a reader above it.
LEMMA TurnedTop ==
    ASSUME NEW im, NEW st, IsStack(im, st), st # <<>>, NEW f, NEW below, NEW path
    PROVE  GoneOn(st, Front(st) \o Descend(f, below, path), Len(st), f,
                  IF below.ret = 0 THEN <<Frame(below.d, 0, path)>> ELSE <<>>)
<1>1. PICK S : st \in Seq(S)
  BY DEF IsStack
<1>2. PICK more, g : /\ more = IF below.ret = 0 THEN <<Frame(below.d, 0, path)>> ELSE <<>>
                     /\ g = Frame(below.d, 0, path)
  OBVIOUS
<1>fr. PICK fr : fr = Front(st)
  OBVIOUS
<1>3. PICK k \in Nat \ {0} : /\ k = Len(st) /\ fr = Front(st)
                             /\ fr \in Seq(S) /\ Len(fr) = k - 1
                             /\ \A x \in 1 .. k - 1 : fr[x] = st[x]
  BY <1>1, <1>fr, FrontFacts
<1>4. PICK T : T = S \cup {f} \cup {g}
  OBVIOUS
<1>5. fr \in Seq(T) /\ <<f>> \in Seq(T) /\ Len(<<f>>) = 1 /\ <<f>>[1] = f
  BY <1>3, <1>4, SeqMonotonic
<1>6. more \in Seq(T) /\ Len(more) \in Nat
  <2>1. <<g>> \in Seq(T) /\ Len(<<g>>) = 1 /\ <<>> \in Seq(T) /\ Len(<<>>) = 0
    BY <1>4
  <2>2. more = <<g>> \/ more = <<>>
    BY <1>2
  <2>3. 0 \in Nat /\ 1 \in Nat
    OBVIOUS
  <2> QED BY <2>1, <2>2, <2>3, Zenon
<1>7. PICK up : up = <<f>> \o more
  OBVIOUS
<1>8. /\ up \in Seq(T) /\ Len(up) = 1 + Len(more)
      /\ \A i \in 1 .. 1 + Len(more) : up[i] = IF i <= 1 THEN <<f>>[i] ELSE more[i - 1]
  BY <1>5, <1>6, <1>7, ConcatProperties
<1>9. PICK st2 : st2 = fr \o up
  OBVIOUS
<1>10. /\ Len(st2) = (k - 1) + (1 + Len(more))
       /\ \A i \in 1 .. (k - 1) + (1 + Len(more)) :
             st2[i] = IF i <= k - 1 THEN fr[i] ELSE up[i - (k - 1)]
  <2>1. /\ Len(st2) = Len(fr) + Len(up)
        /\ \A i \in 1 .. Len(fr) + Len(up) :
              st2[i] = IF i <= Len(fr) THEN fr[i] ELSE up[i - Len(fr)]
    BY ONLY <1>5, <1>8, <1>9, ConcatProperties
  <2>2. Len(fr) = k - 1 /\ Len(up) = 1 + Len(more)
    BY <1>3, <1>8
  <2> QED BY <2>1, <2>2, Zenon
<1>11. st2[k] = f
  <2>1. k \in 1 .. (k - 1) + (1 + Len(more)) /\ ~(k <= k - 1) /\ k - (k - 1) = 1
        /\ 1 \in 1 .. 1 + Len(more)
    BY <1>6
  <2> QED BY <1>5, <1>8, <1>10, <2>1
<1>12. ASSUME NEW x \in 1 .. k - 1 PROVE st2[x] = st[x]
  <2>1. x \in 1 .. (k - 1) + (1 + Len(more)) /\ x <= k - 1
    BY <1>6
  <2> QED BY <1>3, <1>10, <2>1
<1>13. ASSUME NEW x \in 1 .. Len(more) PROVE st2[k + x] = more[x]
  <2>1. k + x \in 1 .. (k - 1) + (1 + Len(more)) /\ ~(k + x <= k - 1)
        /\ (k + x) - (k - 1) = x + 1 /\ x + 1 \in 1 .. 1 + Len(more) /\ ~(x + 1 <= 1)
        /\ (x + 1) - 1 = x
    BY <1>6
  <2> QED BY <1>8, <1>10, <2>1
<1>14. GoneOn(st, st2, k, f, more)
  BY <1>6, <1>10, <1>11, <1>12, <1>13 DEF GoneOn
<1>15. st2 = Front(st) \o Descend(f, below, path)
  BY <1>2, <1>3, <1>7, <1>9 DEF Descend
<1> QED BY <1>2, <1>3, <1>14, <1>15

-----------------------------------------------------------------------------
(* The part of the tree that has been printed.                             *)

\* The node of the c-th slot of a directory, and the names that a reader has answered.
NodeAt(im, n, c) == LET e == Slot(im, InodeOf(im, n.inr), c)
                    IN  [path |-> Append(n.path, e.d_name), inr |-> e.d_inumber]
NamesRead(im, frame) == {Slot(im, frame.d.fv6.i_node, c).d_name : c \in 0 .. frame.d.cur - 1}

\* The frame reads the directory of this node.
ReadsNode(im, frame, n) ==
    /\ n \in TreeNodes(im) /\ n.path = frame.prefix
    /\ n.inr \in Word /\ IsDir(im, n.inr) /\ Answered(im, frame.d, InodeOf(im, n.inr))

\* What has been printed has its directory printed before it; and while this one is being
\* read, it is one of the entries that its reader has answered.
OnTheTree(im, p) == p \in Routes /\ \E n \in TreeNodes(im) : n.path = p
Framed(im, st, x, paths) ==
    /\ st[x].prefix \in paths /\ Len(st[x].prefix) = x - 1
    /\ \E n : ReadsNode(im, st[x], n)
Grown(im, st, p, paths) == p # <<>> =>
    /\ Front(p) \in paths
    /\ \A x \in 1 .. Len(st) : st[x].prefix = Front(p) => Last(p) \in NamesRead(im, st[x])
Drawn(im, st, paths) ==
    /\ \A p \in paths : OnTheTree(im, p) /\ Grown(im, st, p, paths)
    /\ \A x \in 1 .. Len(st) : Framed(im, st, x, paths)

\* When no sector fails: everything in a directory that is printed is printed, or the
\* directory is still being read, and what its reader has answered is printed.
Held(im, frame, n, nodes) ==
    /\ frame.prefix = n.path /\ frame.d.fv6.i_node = InodeOf(im, n.inr)
    /\ \A c \in 0 .. frame.d.cur - 1 : NodeAt(im, n, c) \in nodes
Covered(im, st, n, nodes) == IsDir(im, n.inr) =>
    NodesBelow(im, n) \subseteq nodes \/ \E x \in 1 .. Len(st) : Held(im, st[x], n, nodes)
Shown(im, st, lines) == \E nodes \in SUBSET TreeNodes(im) :
    /\ lines = {NodeLine(im, n) : n \in nodes} /\ TheRoot \in nodes
    /\ \A n \in nodes : Covered(im, st, n, nodes)

\* The reader of the node n has answered its c-th slot.
IsNextNode(im, top, r, n, c) ==
    /\ ReadsNode(im, top, n) /\ c = top.d.cur /\ c \in Nat
    /\ r.d.cur = c + 1 /\ Answered(im, r.d, InodeOf(im, n.inr))
    /\ r.name = Slot(im, InodeOf(im, n.inr), c).d_name
    /\ r.child = Slot(im, InodeOf(im, n.inr), c).d_inumber
    /\ r.name \in Seq(Int) /\ r.child \in Word /\ r.child # 0
    /\ NodeAt(im, n, c) \in TreeNodes(im)

IsNew(im, top, r, path, paths) == \E n, c : IsNextNode(im, top, r, n, c) /\ path \notin paths

\* What a turn of the loop prints is a node of the tree, and was not printed before.
LEMMA NewNode ==
    ASSUME DirectoriesAreSound, TreesEnd, NEW im \in Images, im \in Trees,
           NEW st, NEW paths, Drawn(im, st, paths), NEW k \in Nat \ {0}, k = Len(st),
           NEW top, top = st[k], NEW bad,
           NEW r, r = direntv6_readdir(Visible(im, bad), top.d), r.ret = 1,
           NEW path, path = Append(top.prefix, r.name)
    PROVE  IsNew(im, top, r, path, paths)
<1>1. Framed(im, st, k, paths)
  BY DEF Drawn
<1>2. PICK n : ReadsNode(im, top, n)
  BY <1>1 DEF Framed
<1>i. PICK i : i = InodeOf(im, n.inr)
  OBVIOUS
<1>3. PICK inr \in Word : inr = n.inr /\ i = InodeOf(im, n.inr)
  BY <1>2, <1>i DEF ReadsNode
<1>4. IsDir(im, inr) /\ Answered(im, top.d, i) /\ n \in TreeNodes(im) /\ n.path = top.prefix
  BY <1>2, <1>3 DEF ReadsNode
<1>5. PICK d : d = top.d
  OBVIOUS
<1>6. /\ d.cur \in Nat /\ r.d.cur = d.cur + 1 /\ Answered(im, r.d, i)
      /\ r.name = Slot(im, i, d.cur).d_name /\ r.child = Slot(im, i, d.cur).d_inumber
      /\ r.name \in Seq(Int) /\ r.child \in Word /\ r.child # 0
      /\ \A c \in 0 .. d.cur : /\ c + 1 \in DOMAIN Entries(im, inr)
                               /\ Entries(im, inr)[c + 1] = Slot(im, i, c)
  BY <1>3, <1>4, <1>5, AnsweredEntry
<1>7. PICK k2 \in Nat : k2 = d.cur
  BY <1>6
<1>8. PICK e : e = Slot(im, i, k2)
  OBVIOUS
<1>9. e \in Children(im, inr)
  <2>1. k2 \in 0 .. d.cur
    BY <1>7
  <2>2. k2 + 1 \in DOMAIN Entries(im, inr) /\ Entries(im, inr)[k2 + 1] = e
    BY <1>6, <1>8, <2>1
  <2>3. e \in ToSet(Entries(im, inr))
    BY <2>2, Zenon DEF ToSet
  <2> QED BY <1>4, <2>3 DEF Children
<1>10. NodeAt(im, n, k2) \in NodesBelow(im, n)
  <2>1. NodeAt(im, n, k2) = [path |-> Append(n.path, e.d_name), inr |-> e.d_inumber]
    BY <1>3, <1>8 DEF NodeAt
  <2>2. e \in Children(im, n.inr)
    BY <1>3, <1>9
  <2> QED BY <2>1, <2>2 DEF NodesBelow
<1>11. NodeAt(im, n, k2) \in TreeNodes(im)
  BY <1>4, <1>10, NodeFacts
<1>12. top.prefix \in Routes
  BY <1>1 DEF Framed, Drawn, OnTheTree
<1>13. path \notin paths
  <2> SUFFICES ASSUME path \in paths PROVE FALSE
    OBVIOUS
  <2>1. path # <<>> /\ Front(path) = top.prefix /\ Last(path) = r.name
    BY <1>6, <1>12, LongerRoute
  <2>2. Last(path) \in NamesRead(im, top)
    <3>1. Grown(im, st, path, paths) /\ k \in 1 .. Len(st)
      BY DEF Drawn
    <3> QED BY <2>1, <3>1 DEF Grown
  <2>3. d.fv6.i_node = i
    BY <1>4, <1>5 DEF Answered
  <2>4. PICK c \in 0 .. k2 - 1 : r.name = Slot(im, i, c).d_name
    BY <1>5, <1>7, <2>1, <2>2, <2>3 DEF NamesRead
  <2>5. c \in 0 .. d.cur /\ k2 \in 0 .. d.cur /\ c + 1 # k2 + 1
    BY <1>7
  <2>6. PICK en : en = Entries(im, inr)
    OBVIOUS
  <2>7. /\ c + 1 \in DOMAIN en /\ en[c + 1].d_name = r.name
        /\ k2 + 1 \in DOMAIN en /\ en[k2 + 1].d_name = r.name
    BY <1>6, <1>7, <2>4, <2>5, <2>6
  <2>8. \A j, l \in DOMAIN en : en[j].d_name = en[l].d_name => j = l
    <3>1. inr \in Directories(im) /\ NamesAreSound(im)
      BY <1>4, DirIsSound
    <3> QED BY <2>6, <3>1, Zenon DEF NamesAreSound
  <2> QED BY <2>5, <2>7, <2>8
<1>14. IsNextNode(im, top, r, n, k2)
  <2>1. k2 = top.d.cur /\ InodeOf(im, n.inr) = i
    BY <1>3, <1>5, <1>7
  <2> QED BY <1>2, <1>6, <1>7, <1>11, <2>1, Zenon DEF IsNextNode
<1> QED BY <1>13, <1>14, Zenon DEF IsNew

LEMMA NamesReadAre ==
    ASSUME NEW im, NEW frame, NEW i, frame.d.fv6.i_node = i, NEW c, frame.d.cur = c
    PROVE  NamesRead(im, frame) = {Slot(im, i, x).d_name : x \in 0 .. c - 1}
  BY Zenon DEF NamesRead

LEMMA OneMoreSlot ==
    ASSUME NEW c \in Nat, NEW c1, c1 = c + 1
    PROVE  \A x : x \in 0 .. c1 - 1 <=> x \in 0 .. c - 1 \/ x = c
  OBVIOUS

\* A turn of the loop.
Turns(im, st, top, bad, bad2, r, path, below, st2) ==
    /\ Len(st) \in Nat \ {0} /\ top = st[Len(st)]
    /\ r = direntv6_readdir(Visible(im, bad), top.d) /\ r.ret = 1
    /\ path = Append(top.prefix, r.name)
    /\ below = direntv6_opendir(Visible(im, bad2), MountedSuper(im), r.child)
    /\ GoneOn(st, st2, Len(st), Frame(r.d, 0, top.prefix),
              IF below.ret = 0 THEN <<Frame(below.d, 0, path)>> ELSE <<>>)

\* The paths after a turn of the loop.
LEMMA DrawnFurther ==
    ASSUME DirectoriesAreSound, TreesEnd, NEW im \in Images, im \in Trees,
           NEW st, NEW paths, Drawn(im, st, paths),
           NEW top, NEW bad, NEW bad2, NEW r, NEW path, NEW below, NEW st2,
           Turns(im, st, top, bad, bad2, r, path, below, st2),
           NEW paths2, paths2 = paths \cup {path}
    PROVE  Drawn(im, st2, paths2) /\ IsNew(im, top, r, path, paths)
<1>t. PICK k \in Nat \ {0} :
          /\ k = Len(st) /\ top = st[k]
          /\ r = direntv6_readdir(Visible(im, bad), top.d) /\ r.ret = 1
          /\ path = Append(top.prefix, r.name)
          /\ below = direntv6_opendir(Visible(im, bad2), MountedSuper(im), r.child)
          /\ GoneOn(st, st2, k, Frame(r.d, 0, top.prefix),
                    IF below.ret = 0 THEN <<Frame(below.d, 0, path)>> ELSE <<>>)
  BY DEF Turns
<1>u. PICK f : f = Frame(r.d, 0, top.prefix)
  OBVIOUS
<1>v. GoneOn(st, st2, k, f, IF below.ret = 0 THEN <<Frame(below.d, 0, path)>> ELSE <<>>)
  BY <1>t, <1>u
<1> USE <1>t, <1>u, <1>v
<1>a. IsNew(im, top, r, path, paths)
  BY NewNode
<1>0. PICK n, c : IsNextNode(im, top, r, n, c) /\ path \notin paths
  BY ONLY <1>a, Zenon DEF IsNew
<1>1. /\ ReadsNode(im, top, n) /\ c = top.d.cur /\ c \in Nat
      /\ r.d.cur = c + 1 /\ Answered(im, r.d, InodeOf(im, n.inr))
      /\ r.name = Slot(im, InodeOf(im, n.inr), c).d_name
      /\ r.child = Slot(im, InodeOf(im, n.inr), c).d_inumber
      /\ r.name \in Seq(Int) /\ r.child \in Word
      /\ NodeAt(im, n, c) \in TreeNodes(im) /\ path \notin paths
  BY <1>0, Zenon DEF IsNextNode
<1>2. PICK m, i : m = NodeAt(im, n, c) /\ i = InodeOf(im, n.inr)
  BY Zenon
<1>3. Framed(im, st, k, paths) /\ top.prefix \in paths /\ Len(top.prefix) = k - 1
  BY DEF Drawn, Framed
<1>4. top.prefix \in Routes /\ n.path = top.prefix /\ n \in TreeNodes(im)
  BY <1>1, <1>3 DEF Drawn, OnTheTree, ReadsNode
<1>5. /\ path \in Routes /\ path # <<>> /\ Front(path) = top.prefix /\ Last(path) = r.name
      /\ Len(path) = Len(top.prefix) + 1
  <2>1. PICK s, w : s = top.prefix /\ w = r.name
    OBVIOUS
  <2>2. s \in Routes /\ w \in Seq(Int) /\ path = Append(s, w)
    BY <1>1, <1>4, <2>1
  <2> QED BY ONLY <2>1, <2>2, LongerRoute
<1>6. m.path = path /\ m.inr = r.child /\ m \in TreeNodes(im)
  BY <1>1, <1>2, <1>4 DEF NodeAt
<1>7. PICK more : more = IF below.ret = 0 THEN <<Frame(below.d, 0, path)>> ELSE <<>>
  OBVIOUS
<1>8. /\ Len(st2) = k + Len(more) /\ st2[k] = f /\ \A x \in 1 .. k - 1 : st2[x] = st[x]
      /\ \A x \in 1 .. Len(more) : st2[k + x] = more[x]
  BY <1>7 DEF GoneOn
<1>9. /\ f.prefix = top.prefix /\ f.d = r.d /\ ReadsNode(im, f, n)
  BY <1>1 DEF Frame, ReadsNode
<1>10. NamesRead(im, f) = NamesRead(im, top) \cup {r.name}
  <2>1. top.d.fv6.i_node = i /\ f.d.fv6.i_node = i
    BY <1>1, <1>2, <1>9, Zenon DEF ReadsNode, Answered
  <2>2. c \in Nat /\ top.d.cur = c /\ f.d.cur = c + 1 /\ r.name = Slot(im, i, c).d_name
    BY <1>1, <1>2, <1>9, Zenon
  <2>3. PICK c1 : c1 = c + 1
    OBVIOUS
  <2>4. NamesRead(im, f) = {Slot(im, i, x).d_name : x \in 0 .. c1 - 1}
    BY ONLY <2>1, <2>2, <2>3, NamesReadAre
  <2>5. NamesRead(im, top) = {Slot(im, i, x).d_name : x \in 0 .. c - 1}
    BY ONLY <2>1, <2>2, NamesReadAre
  <2>6. \A x : x \in 0 .. c1 - 1 <=> x \in 0 .. c - 1 \/ x = c
    BY ONLY <2>2, <2>3, OneMoreSlot
  <2> QED BY ONLY <2>2, <2>4, <2>5, <2>6
<1>11. /\ \/ below.ret = 0 /\ Len(st2) = k + 1
          \/ below.ret # 0 /\ Len(st2) = k
       /\ below.ret = 0 => /\ st2[k + 1].prefix = path
                           /\ ReadsNode(im, st2[k + 1], m)
  <2>1. CASE below.ret = 0
    <3>1. more = <<Frame(below.d, 0, path)>> /\ Len(more) = 1 /\ more[1] = Frame(below.d, 0, path)
      BY <1>7, <2>1
    <3>2. 1 \in 1 .. Len(more)
      BY <3>1
    <3>3. st2[k + 1] = Frame(below.d, 0, path) /\ Len(st2) = k + 1
      BY <1>8, <3>1, <3>2
    <3>4. st2[k + 1].prefix = path /\ st2[k + 1].d = below.d
      BY <3>3 DEF Frame
    <3>5. IsDir(im, r.child) /\ Answered(im, below.d, InodeOf(im, r.child))
      BY <1>1, <2>1, OpensDir
    <3> QED BY <1>1, <1>6, <2>1, <3>3, <3>4, <3>5 DEF ReadsNode
  <2>2. CASE below.ret # 0
    <3>1. Len(more) = 0
      BY <1>7, <2>2
    <3> QED BY <1>8, <2>2, <3>1
  <2> QED BY <2>1, <2>2
<1>12. \A x \in 1 .. Len(st2) : x \in 1 .. k - 1 \/ x = k \/ (x = k + 1 /\ below.ret = 0)
  <2>1. PICK e : e = Len(st2)
    OBVIOUS
  <2>2. PICK b : b = below.ret
    OBVIOUS
  <2>3. (b = 0 /\ e = k + 1) \/ (b # 0 /\ e = k)
    BY <1>11, <2>1, <2>2, Zenon
  <2>4. \A x \in 1 .. e : x \in 1 .. k - 1 \/ x = k \/ (x = k + 1 /\ b = 0)
    BY ONLY k \in Nat \ {0}, <2>3
  <2> QED BY ONLY <2>1, <2>2, <2>4, Zenon
<1>13. ASSUME NEW x \in 1 .. Len(st2) PROVE Framed(im, st2, x, paths \cup {path})
  <2>1. CASE x \in 1 .. k - 1
    <3>1. Framed(im, st, x, paths)
      BY <2>1 DEF Drawn
    <3> QED BY <1>8, <2>1, <3>1 DEF Framed
  <2>2. CASE x = k
    BY <1>3, <1>8, <1>9, <2>2 DEF Framed
  <2>3. CASE x = k + 1 /\ below.ret = 0
    <3>1. Len(path) = x - 1
      BY <1>3, <1>5, <2>3
    <3> QED BY <1>11, <2>3, <3>1 DEF Framed
  <2> QED BY <1>12, <2>1, <2>2, <2>3
<1>14. ASSUME NEW p \in paths PROVE Grown(im, st2, p, paths \cup {path})
  <2> SUFFICES ASSUME p # <<>>
               PROVE  /\ Front(p) \in paths
                      /\ \A x \in 1 .. Len(st2) : st2[x].prefix = Front(p)
                                                  => Last(p) \in NamesRead(im, st2[x])
    BY DEF Grown
  <2>1. /\ Front(p) \in paths
        /\ \A x \in 1 .. k : st[x].prefix = Front(p) => Last(p) \in NamesRead(im, st[x])
    BY DEF Drawn, Grown
  <2>2. ASSUME NEW x \in 1 .. Len(st2), st2[x].prefix = Front(p)
        PROVE  Last(p) \in NamesRead(im, st2[x])
    <3>1. CASE x \in 1 .. k - 1
      <4>1. x \in 1 .. k /\ st2[x] = st[x]
        BY <1>8, <3>1
      <4> QED BY <2>1, <2>2, <4>1
    <3>2. CASE x = k
      <4>1. k \in 1 .. k
        OBVIOUS
      <4>2. Last(p) \in NamesRead(im, top)
        BY <1>8, <1>9, <2>1, <2>2, <3>2, <4>1
      <4> QED BY <1>8, <1>10, <3>2, <4>2
    <3>3. CASE x = k + 1 /\ below.ret = 0
      <4>1. path = Front(p) /\ path \notin paths
        BY <1>1, <1>11, <2>2, <3>3, Zenon
      <4> QED BY <2>1, <4>1, Zenon
    <3> QED BY <1>12, <3>1, <3>2, <3>3
  <2> QED BY <2>1, <2>2
<1>15. Grown(im, st2, path, paths \cup {path})
  <2>1. ASSUME NEW x \in 1 .. Len(st2), st2[x].prefix = Front(path)
        PROVE  Last(path) \in NamesRead(im, st2[x])
    <3>1. Len(st2[x].prefix) = x - 1
      BY <1>13 DEF Framed
    <3>2. x = k
      BY <1>3, <1>5, <2>1, <3>1
    <3> QED BY <1>5, <1>8, <1>10, <3>2
  <2> QED BY <1>3, <1>5, <2>1 DEF Grown
<1>16. OnTheTree(im, path)
  BY <1>5, <1>6 DEF OnTheTree
<1>17. \A p \in paths : OnTheTree(im, p)
  BY DEF Drawn
<1>18. Drawn(im, st2, paths \cup {path})
  BY <1>13, <1>14, <1>15, <1>16, <1>17 DEF Drawn
<1> QED BY <1>a, <1>18

LEMMA HeldOn ==
    ASSUME NEW im, NEW f, NEW n, NEW nodes, NEW nodes2, nodes \subseteq nodes2, Held(im, f, n, nodes)
    PROVE  Held(im, f, n, nodes2)
  BY DEF Held

\* What has been printed after a turn of the loop, when no sector fails.
LEMMA ShownFurther ==
    ASSUME DirectoriesAreSound, TreesEnd, NEW im \in Images, im \in Trees,
           NEW st, NEW paths, Drawn(im, st, paths),
           NEW top, NEW bad, NEW bad2, bad2 = {}, NEW r, NEW path, NEW below, NEW st2,
           Turns(im, st, top, bad, bad2, r, path, below, st2),
           NEW lines, Shown(im, st, lines),
           NEW line, line = Line(IF below.ret = 0 THEN "DIR" ELSE "FIL", path),
           NEW lines2, lines2 = lines \cup {line}
    PROVE  Shown(im, st2, lines2)
<1>t. PICK k \in Nat \ {0} :
          /\ k = Len(st) /\ top = st[k]
          /\ r = direntv6_readdir(Visible(im, bad), top.d) /\ r.ret = 1
          /\ path = Append(top.prefix, r.name)
          /\ below = direntv6_opendir(Visible(im, bad2), MountedSuper(im), r.child)
          /\ GoneOn(st, st2, k, Frame(r.d, 0, top.prefix),
                    IF below.ret = 0 THEN <<Frame(below.d, 0, path)>> ELSE <<>>)
  BY DEF Turns
<1>u. PICK f : f = Frame(r.d, 0, top.prefix)
  OBVIOUS
<1>v. GoneOn(st, st2, k, f, IF below.ret = 0 THEN <<Frame(below.d, 0, path)>> ELSE <<>>)
  BY <1>t, <1>u
<1> USE <1>t, <1>u, <1>v
<1>a. IsNew(im, top, r, path, paths)
  BY NewNode
<1>0. PICK n, c : IsNextNode(im, top, r, n, c)
  BY ONLY <1>a, Zenon DEF IsNew
<1>1. /\ ReadsNode(im, top, n) /\ c = top.d.cur /\ c \in Nat
      /\ r.d.cur = c + 1 /\ Answered(im, r.d, InodeOf(im, n.inr))
      /\ r.name = Slot(im, InodeOf(im, n.inr), c).d_name
      /\ r.child = Slot(im, InodeOf(im, n.inr), c).d_inumber
      /\ r.child \in Word /\ NodeAt(im, n, c) \in TreeNodes(im)
  BY <1>0, Zenon DEF IsNextNode
<1>2. PICK m, i : m = NodeAt(im, n, c) /\ i = InodeOf(im, n.inr)
  BY Zenon
<1>3. n.path = top.prefix /\ top.d.fv6.i_node = i /\ r.d.fv6.i_node = i
  BY <1>1, <1>2, Zenon DEF ReadsNode, Answered
<1>4. m.path = path /\ m.inr = r.child /\ m \in TreeNodes(im)
  BY <1>1, <1>2, <1>3 DEF NodeAt
<1>5. /\ below.ret = 0 <=> IsDir(im, m.inr)
      /\ below.ret = 0 => below.d.fv6.i_node = InodeOf(im, m.inr) /\ below.d.cur = 0
  <2>1. PICK inr \in Word : inr = r.child
    BY <1>1
  <2>2. below = direntv6_opendir(Visible(im, bad2), MountedSuper(im), inr)
    BY <2>1
  <2>3. /\ below.ret = 0 => /\ IsDir(im, inr) /\ Answered(im, below.d, InodeOf(im, inr))
                            /\ below.d.cur = 0
        /\ bad2 = {} /\ IsDir(im, inr) => below.ret = 0
    BY ONLY DirectoriesAreSound, im \in Images, <2>1, <2>2, OpensDir
  <2>4. m.inr = inr /\ bad2 = {}
    BY <1>4, <2>1
  <2> QED BY ONLY <2>3, <2>4, Zenon DEF Answered
<1>7. line = NodeLine(im, m)
  BY <1>4, <1>5, Zenon DEF NodeLine
<1>8. PICK nodes \in SUBSET TreeNodes(im) :
          /\ lines = {NodeLine(im, y) : y \in nodes} /\ TheRoot \in nodes
          /\ \A y \in nodes : Covered(im, st, y, nodes)
  BY Zenon DEF Shown
<1>9. PICK nodes2 : nodes2 = nodes \cup {m}
  OBVIOUS
<1>10. nodes2 \in SUBSET TreeNodes(im) /\ TheRoot \in nodes2 /\ nodes \subseteq nodes2
  BY <1>4, <1>8, <1>9
<1>11. lines \cup {line} = {NodeLine(im, y) : y \in nodes2}
  BY ONLY <1>7, <1>8, <1>9
<1>12. PICK more : more = IF below.ret = 0 THEN <<Frame(below.d, 0, path)>> ELSE <<>>
  OBVIOUS
<1>13. /\ Len(st2) = k + Len(more) /\ st2[k] = f /\ \A x \in 1 .. k - 1 : st2[x] = st[x]
       /\ \A x \in 1 .. Len(more) : st2[k + x] = more[x]
  BY <1>12 DEF GoneOn
<1>14. f.prefix = top.prefix /\ f.d = r.d
  BY DEF Frame
<1>15. below.ret = 0 => /\ k + 1 \in 1 .. Len(st2)
                        /\ st2[k + 1].prefix = path /\ st2[k + 1].d = below.d
  <2> SUFFICES ASSUME below.ret = 0
               PROVE  /\ k + 1 \in 1 .. Len(st2)
                      /\ st2[k + 1].prefix = path /\ st2[k + 1].d = below.d
    OBVIOUS
  <2>1. more = <<Frame(below.d, 0, path)>> /\ Len(more) = 1 /\ more[1] = Frame(below.d, 0, path)
    BY <1>12
  <2>2. 1 \in 1 .. Len(more)
    BY <2>1
  <2>3. st2[k + 1] = Frame(below.d, 0, path) /\ Len(st2) = k + 1
    BY <1>13, <2>1, <2>2
  <2> QED BY <2>3 DEF Frame
<1>16. \A x \in 1 .. k : x \in 1 .. Len(st2)
  <2>1. Len(more) \in Nat
    <3>1. Len(<<Frame(below.d, 0, path)>>) = 1 /\ Len(<<>>) = 0
      OBVIOUS
    <3> QED BY <1>12, <3>1
  <2>2. PICK j \in Nat : j = Len(more)
    BY <2>1
  <2>3. PICK e : e = Len(st2)
    OBVIOUS
  <2>4. e = k + j
    BY <1>13, <2>2, <2>3
  <2>5. 1 .. k \subseteq 1 .. e
    BY ONLY k \in Nat \ {0}, j \in Nat, <2>4
  <2> QED BY <2>3, <2>5
<1>17. Covered(im, st2, m, nodes2)
  <2> SUFFICES ASSUME IsDir(im, m.inr)
               PROVE  \E x \in 1 .. Len(st2) : Held(im, st2[x], m, nodes2)
    BY DEF Covered
  <2>1. PICK g : g = st2[k + 1]
    OBVIOUS
  <2>2. /\ k + 1 \in 1 .. Len(st2) /\ g.prefix = m.path
        /\ g.d.fv6.i_node = InodeOf(im, m.inr) /\ g.d.cur = 0
    BY <1>4, <1>5, <1>15, <2>1
  <2>3. 0 .. g.d.cur - 1 = {}
    <3>1. PICK c0 : c0 = g.d.cur
      OBVIOUS
    <3>2. c0 = 0
      BY <2>2, <3>1
    <3>3. 0 .. c0 - 1 = {}
      BY ONLY <3>2
    <3> QED BY <3>1, <3>3
  <2>4. Held(im, g, m, nodes2)
    BY <2>2, <2>3 DEF Held
  <2> QED BY <2>1, <2>2, <2>4
<1>18. ASSUME NEW y \in nodes PROVE Covered(im, st2, y, nodes2)
  <2> SUFFICES ASSUME IsDir(im, y.inr), ~(NodesBelow(im, y) \subseteq nodes)
               PROVE  \E x \in 1 .. Len(st2) : Held(im, st2[x], y, nodes2)
    BY <1>10 DEF Covered
  <2>1. PICK x \in 1 .. k : Held(im, st[x], y, nodes)
    <3>1. Covered(im, st, y, nodes)
      BY <1>8
    <3> QED BY <3>1 DEF Covered
  <2>2. CASE x \in 1 .. k - 1
    <3>1. Held(im, st2[x], y, nodes2)
      BY <1>10, <1>13, <2>1, <2>2, HeldOn
    <3> QED BY <1>16, <3>1
  <2>3. CASE x = k
    <3>1. /\ top.prefix = y.path /\ InodeOf(im, y.inr) = i
          /\ \A x2 \in 0 .. c - 1 : NodeAt(im, y, x2) \in nodes
      BY <1>1, <1>3, <2>1, <2>3 DEF Held
    <3>2. NodeAt(im, y, c) = m
      BY <1>2, <1>3, <3>1 DEF NodeAt
    <3>3. PICK g : g = f
      OBVIOUS
    <3>4. g.prefix = y.path /\ g.d.fv6.i_node = InodeOf(im, y.inr) /\ g.d.cur = c + 1
      BY <1>1, <1>3, <1>14, <3>1, <3>3, Zenon
    <3>5. \A x2 \in 0 .. g.d.cur - 1 : x2 \in 0 .. c - 1 \/ x2 = c
      BY ONLY <1>1, <3>4, OneMoreSlot, Zenon
    <3>6. \A x2 \in 0 .. g.d.cur - 1 : NodeAt(im, y, x2) \in nodes2
      BY <1>9, <3>1, <3>2, <3>5, Zenon
    <3>7. Held(im, g, y, nodes2)
      BY <3>4, <3>6, Zenon DEF Held
    <3>8. k \in 1 .. Len(st2)
      <4>1. k \in 1 .. k
        BY ONLY k \in Nat \ {0}
      <4> QED BY ONLY <1>16, <4>1, Zenon
    <3>9. st2[k] = g
      BY <1>13, <3>3
    <3>10. Held(im, st2[k], y, nodes2)
      BY ONLY <3>7, <3>9, Zenon
    <3> QED BY ONLY <3>8, <3>10, Zenon
  <2>4. x \in 1 .. k - 1 \/ x = k
    BY ONLY k \in Nat \ {0}, x \in 1 .. k
  <2> QED BY <2>2, <2>3, <2>4, Zenon
<1>19. \A y \in nodes2 : Covered(im, st2, y, nodes2)
  BY <1>9, <1>17, <1>18, Zenon
<1>20. Shown(im, st2, lines \cup {line})
  BY ONLY <1>10, <1>11, <1>19, Zenon DEF Shown
<1> QED BY <1>20

LEMMA DrawnLost ==
    ASSUME NEW im, NEW st, NEW paths, Drawn(im, st, paths), NEW k \in Nat \ {0}, k = Len(st),
           NEW st2, Lost(st, st2, k)
    PROVE  Drawn(im, st2, paths)
<1>1. Len(st2) = k - 1 /\ \A x \in 1 .. Len(st2) : x \in 1 .. Len(st) /\ st2[x] = st[x]
  BY DEF Lost
<1>2. \A x \in 1 .. Len(st2) : Framed(im, st2, x, paths)
  BY <1>1 DEF Drawn, Framed
<1>3. \A p \in paths : Grown(im, st2, p, paths)
  BY <1>1 DEF Drawn, Grown
<1> QED BY <1>2, <1>3 DEF Drawn

\* A reader that is at the end of its directory, and no sector failed: all of it is printed.
LEMMA ShownLost ==
    ASSUME DirectoriesAreSound, DirectoriesAreComplete, NEW im \in Images,
           NEW st, NEW paths, Drawn(im, st, paths), NEW k \in Nat \ {0}, k = Len(st),
           NEW top, top = st[k], NEW bad, bad = {},
           NEW r, r = direntv6_readdir(Visible(im, bad), top.d), r.ret # 1,
           NEW st2, Lost(st, st2, k),
           NEW lines, Shown(im, st, lines)
    PROVE  Shown(im, st2, lines) /\ LoopReturns(r.ret) = 0
<1>1. Framed(im, st, k, paths)
  BY DEF Drawn
<1>2. PICK n : ReadsNode(im, top, n)
  BY <1>1 DEF Framed
<1>i. PICK i : i = InodeOf(im, n.inr)
  OBVIOUS
<1>3. PICK inr \in Word : inr = n.inr /\ i = InodeOf(im, n.inr)
  BY <1>2, <1>i DEF ReadsNode
<1>4. IsDir(im, inr) /\ Answered(im, top.d, i) /\ n.path = top.prefix /\ top.d.fv6.i_node = i
  BY <1>2, <1>3 DEF ReadsNode, Answered
<1>5. PICK d : d = top.d
  OBVIOUS
<1>6. /\ d.cur \in Nat /\ (r.ret = 0 \/ r.ret = ERR_UNALLOCATED_INODE)
      /\ Entries(im, inr) = [x \in 1 .. d.cur |-> Slot(im, i, x - 1)]
  BY <1>3, <1>4, <1>5, NothingAnswered
<1>7. PICK c \in Nat : c = d.cur
  BY <1>6
<1>8. PICK nodes \in SUBSET TreeNodes(im) :
          /\ lines = {NodeLine(im, y) : y \in nodes} /\ TheRoot \in nodes
          /\ \A y \in nodes : Covered(im, st, y, nodes)
  BY Zenon DEF Shown
<1>9. Len(st2) = k - 1 /\ \A x \in 1 .. k - 1 : st2[x] = st[x]
  BY DEF Lost
<1>10. ASSUME NEW y \in nodes PROVE Covered(im, st2, y, nodes)
  <2> SUFFICES ASSUME IsDir(im, y.inr), ~(\E x \in 1 .. Len(st2) : Held(im, st2[x], y, nodes))
               PROVE  NodesBelow(im, y) \subseteq nodes
    BY DEF Covered
  <2> SUFFICES ASSUME NEW x \in 1 .. k, Held(im, st[x], y, nodes)
               PROVE  NodesBelow(im, y) \subseteq nodes
    <3>1. Covered(im, st, y, nodes)
      BY <1>8
    <3> QED BY <3>1 DEF Covered
  <2>1. x = k
    <3>1. x \in 1 .. k - 1 => FALSE
      BY <1>9
    <3> QED BY <3>1
  <2>2. /\ InodeOf(im, y.inr) = i
        /\ \A x2 \in 0 .. c - 1 : NodeAt(im, y, x2) \in nodes
    BY <1>4, <1>5, <1>7, <2>1 DEF Held
  <2>3. Entries(im, y.inr) = Entries(im, inr)
    BY <1>3, <2>2 DEF Entries
  <2>4. PICK en : en = Entries(im, y.inr)
    OBVIOUS
  <2>5. DOMAIN en = 1 .. c /\ \A x2 \in 1 .. c : en[x2] = Slot(im, i, x2 - 1)
    BY <1>6, <1>7, <2>3, <2>4
  <2>6. ASSUME NEW e \in Children(im, y.inr)
        PROVE  [path |-> Append(y.path, e.d_name), inr |-> e.d_inumber] \in nodes
    <3>1. e \in ToSet(en)
      BY <2>4, <2>6 DEF Children
    <3>2. PICK x2 \in 1 .. c : e = Slot(im, i, x2 - 1)
      BY <2>5, <3>1 DEF ToSet
    <3>3. x2 - 1 \in 0 .. c - 1
      OBVIOUS
    <3>4. NodeAt(im, y, x2 - 1) \in nodes
      BY <2>2, <3>3
    <3> QED BY <2>2, <3>2, <3>4 DEF NodeAt
  <2> QED BY <2>6 DEF NodesBelow
<1>11. Shown(im, st2, lines)
  BY ONLY <1>8, <1>10, Zenon DEF Shown
<1>12. LoopReturns(r.ret) = 0
  BY <1>6 DEF LoopReturns
<1> QED BY <1>11, <1>12

-----------------------------------------------------------------------------
(* The invariant of lsall.                                                 *)

PathsOf(lines) == {l.path : l \in ToSet(lines)}
Printed(im, st, lines, walk, code) ==
    /\ im \in Trees /\ Once(lines) /\ Drawn(im, st, PathsOf(lines))
    /\ walk.clean /\ DirectoriesAreComplete => code = 0 /\ Shown(im, st, ToSet(lines))

\* The lines of a lsall that runs, or ended, are a part of the tree as Printed describes it.
TInv ==
    /\ op = [kind |-> op.kind, path |-> op.path, clean |-> op.clean]
    /\ pc \in {"lookup", "opendir", "list"} => op.kind # "lsall"
    /\ pc = "tree" => op.kind = "lsall" /\ ret = 0
    /\ pc = "tree" \/ (pc = "idle" /\ op.kind = "lsall") => Printed(img, stack, out, op, ret)

LEMMA TInit == Init => TInv
  BY DEF Init, TInv

\* A walk of another kind.
OtherWalk == /\ op' = [kind |-> op'.kind, path |-> op'.path, clean |-> op'.clean]
             /\ op'.kind # "lsall" /\ pc' # "tree"

LEMMA OtherWalkOk == ASSUME OtherWalk PROVE TInv'
  BY DEF OtherWalk, TInv

LEMMA TLookup == ASSUME Lookup PROVE TInv'
<1>1. PICK kind \in {"inode", "readdir"}, path \in Paths, bad \in IoFaults :
          /\ op' = [kind |-> kind, path |-> path, clean |-> bad = {}]
          /\ pc' \in {"idle", "opendir", "lookup"}
  BY Zenon DEF Lookup, LookupReturns, Return
<1>2. /\ op' = [kind |-> op'.kind, path |-> op'.path, clean |-> op'.clean]
      /\ op'.kind = kind
  BY <1>1, Zenon
<1>3. op'.kind # "lsall" /\ pc' # "tree"
  BY <1>1, <1>2
<1> QED BY <1>2, <1>3, OtherWalkOk DEF OtherWalk

LEMMA TOthers == ASSUME TInv, LookupStep \/ ListOpen \/ ListStep PROVE TInv'
<1>1. PICK bad : /\ pc \in {"lookup", "opendir", "list"} /\ Faults(bad)
                 /\ pc' \in {"idle", "lookup", "opendir", "list"}
  <2>1. CASE LookupStep
    BY <2>1, Zenon DEF LookupStep, LookupTurn, LookupReturns, Return
  <2>2. CASE ListOpen
    BY <2>2, Zenon DEF ListOpen, Return
  <2>3. CASE ListStep
    BY <2>3, Zenon DEF ListStep, Return
  <2> QED BY <2>1, <2>2, <2>3
<1>2. op = [kind |-> op.kind, path |-> op.path, clean |-> op.clean] /\ op.kind # "lsall"
  BY <1>1 DEF TInv
<1>3. /\ op' = [kind |-> op'.kind, path |-> op'.path, clean |-> op'.clean]
      /\ op'.kind # "lsall"
  BY <1>1, <1>2, FaultsKept
<1> QED BY <1>1, <1>3, OtherWalkOk DEF OtherWalk

LEMMA LineFields == ASSUME NEW kind, NEW path PROVE Line(kind, path).path = path
  BY DEF Line

\* The root alone has been printed, and is about to be read if it is a directory.
LEMMA RootPrinted ==
    ASSUME DirectoriesAreSound, NEW im \in Images, im \in Trees, NEW bad,
           NEW open, open = direntv6_opendir(Visible(im, bad), MountedSuper(im), ROOT_INUMBER),
           NEW line, line = Line(IF open.ret = 0 THEN "DIR" ELSE "FIL", Root),
           NEW st, st = IF open.ret = 0 THEN <<Frame(open.d, 0, Root)>> ELSE <<>>,
           NEW walk, walk.clean => bad = {}
    PROVE  Printed(im, st, <<line>>, walk, 0)
<1>1. Once(<<line>>) /\ ToSet(<<line>>) = {line}
  BY OneLine
<1>2. PICK paths : paths = {Root}
  OBVIOUS
<1>3. PathsOf(<<line>>) = paths
  <2>1. line.path = Root
    BY LineFields
  <2> QED BY <1>1, <1>2, <2>1 DEF PathsOf
<1>4. PICK inr \in Word : inr = ROOT_INUMBER
  BY RootIsWord
<1>5. /\ open.ret = 0 => /\ IsDir(im, inr) /\ Answered(im, open.d, InodeOf(im, inr))
                         /\ open.d.cur = 0
      /\ bad = {} /\ IsDir(im, inr) => open.ret = 0
  BY <1>4, OpensDir
<1>6. PICK n : n = TheRoot
  OBVIOUS
<1>7. n.path = Root /\ n.inr = inr /\ n \in TreeNodes(im)
  BY <1>4, <1>6, NodeFacts DEF TheRoot
<1>8. PICK g : g = Frame(open.d, 0, Root)
  OBVIOUS
<1>9. g.prefix = Root /\ g.d = open.d
  BY <1>8 DEF Frame
<1>10. /\ open.ret # 0 => st = <<>> /\ Len(st) = 0
       /\ open.ret = 0 => st = <<g>> /\ Len(st) = 1 /\ st[1] = g
  BY <1>8
<1>11. Root \in Routes /\ Len(Root) = 0
  BY DEF Routes, Root
<1>12. OnTheTree(im, Root) /\ Grown(im, st, Root, paths)
  BY <1>7, <1>11 DEF OnTheTree, Grown, Root
<1>13. ASSUME NEW x \in 1 .. Len(st) PROVE Framed(im, st, x, paths)
  <2>1. open.ret = 0 /\ x = 1 /\ st[x] = g
    BY <1>10
  <2>2. ReadsNode(im, g, n)
    BY <1>5, <1>7, <1>9, <2>1 DEF ReadsNode
  <2>3. g.prefix \in paths /\ Len(g.prefix) = x - 1
    BY <1>2, <1>9, <1>11, <2>1
  <2> QED BY <2>1, <2>2, <2>3 DEF Framed
<1>14. Drawn(im, st, paths)
  BY <1>2, <1>12, <1>13 DEF Drawn
<1>15. ASSUME bad = {} PROVE Shown(im, st, {line})
  <2>1. open.ret = 0 <=> IsDir(im, inr)
    BY <1>5, <1>15
  <2>2. line = NodeLine(im, n)
    BY <1>7, <2>1, Zenon DEF NodeLine
  <2>3. PICK nodes : nodes = {n}
    OBVIOUS
  <2>4. {line} = {NodeLine(im, y) : y \in nodes} /\ nodes \in SUBSET TreeNodes(im) /\ TheRoot \in nodes
    BY <1>6, <1>7, <2>2, <2>3
  <2>5. Covered(im, st, n, nodes)
    <3> SUFFICES ASSUME IsDir(im, n.inr) PROVE \E x \in 1 .. Len(st) : Held(im, st[x], n, nodes)
      BY DEF Covered
    <3>1. open.ret = 0 /\ 1 \in 1 .. Len(st) /\ st[1] = g
      BY <1>7, <1>10, <2>1
    <3>2. /\ g.prefix = n.path /\ g.d.fv6.i_node = InodeOf(im, n.inr) /\ g.d.cur = 0
      BY <1>5, <1>7, <1>9, <3>1 DEF Answered
    <3>3. 0 .. g.d.cur - 1 = {}
      BY <3>2
    <3>4. Held(im, g, n, nodes)
      BY <3>2, <3>3 DEF Held
    <3> QED BY <3>1, <3>4
  <2>6. \A y \in nodes : Covered(im, st, y, nodes)
    BY <2>3, <2>5
  <2> QED BY ONLY <2>4, <2>6, Zenon DEF Shown
<1> QED BY <1>1, <1>3, <1>14, <1>15, Zenon DEF Printed

LEMMA TLsall == ASSUME DirectoriesAreSound, IInv, Lsall PROVE TInv'
<1>1. PICK bad \in IoFaults :
          /\ img \in Trees /\ img' = img
          /\ op' = [kind |-> "lsall", path |-> <<>>, clean |-> bad = {}]
          /\ LET open == direntv6_opendir(Visible(img, bad), MountedSuper(img), ROOT_INUMBER)
             IN  IF open.ret # 0 THEN out' = <<Line("FIL", Root)>> /\ Return(0)
                 ELSE /\ out' = <<Line("DIR", Root)>>
                      /\ pc' = "tree" /\ ret' = 0 /\ stack' = <<Frame(open.d, 0, Root)>>
  BY Zenon DEF Lsall, Opendir
<1>2. PICK open : open = direntv6_opendir(Visible(img, bad), MountedSuper(img), ROOT_INUMBER)
  OBVIOUS
<1>3. \/ open.ret # 0 /\ out' = <<Line("FIL", Root)>> /\ Return(0)
      \/ /\ open.ret = 0 /\ out' = <<Line("DIR", Root)>>
         /\ pc' = "tree" /\ ret' = 0 /\ stack' = <<Frame(open.d, 0, Root)>>
  BY <1>1, <1>2, Zenon
<1>4. PICK line, st : /\ line = Line(IF open.ret = 0 THEN "DIR" ELSE "FIL", Root)
                      /\ st = IF open.ret = 0 THEN <<Frame(open.d, 0, Root)>> ELSE <<>>
  OBVIOUS
<1>5. /\ out' = <<line>> /\ stack' = st /\ ret' = 0
      /\ pc' \in {"idle", "tree"}
  BY <1>3, <1>4, Zenon DEF Return
<1>6. /\ op' = [kind |-> op'.kind, path |-> op'.path, clean |-> op'.clean]
      /\ op'.kind = "lsall" /\ (op'.clean => bad = {})
  BY <1>1, Zenon
<1>7. img \in Images
  BY DEF IInv
<1>8. Printed(img, st, <<line>>, op', 0)
  BY <1>1, <1>2, <1>4, <1>6, <1>7, RootPrinted
<1>9. Printed(img', stack', out', op', ret')
  BY <1>1, <1>5, <1>8, Zenon
<1>10. /\ pc' \in {"lookup", "opendir", "list"} => op'.kind # "lsall"
       /\ pc' = "tree" => op'.kind = "lsall" /\ ret' = 0
  BY <1>5, <1>6
<1> QED BY <1>6, <1>9, <1>10, Zenon DEF TInv

\* One more line.
LEMMA PrintedFurther ==
    ASSUME DirectoriesAreSound, TreesEnd, NEW im \in Images, NEW st,
           NEW lines, NEW walk, Printed(im, st, lines, walk, 0),
           NEW top, NEW bad, NEW bad2, NEW r, NEW path, NEW below, NEW st2,
           Turns(im, st, top, bad, bad2, r, path, below, st2),
           NEW line, line = Line(IF below.ret = 0 THEN "DIR" ELSE "FIL", path),
           NEW walk2, walk2.clean => walk.clean /\ bad \cup bad2 = {}
    PROVE  Printed(im, st2, Append(lines, line), walk2, 0)
<1>1. /\ im \in Trees /\ Once(lines) /\ Drawn(im, st, PathsOf(lines))
      /\ walk.clean /\ DirectoriesAreComplete => Shown(im, st, ToSet(lines))
  BY Zenon DEF Printed
<1>2. PICK paths, set : paths = PathsOf(lines) /\ set = ToSet(lines)
  OBVIOUS
<1>3. PICK paths2, set2 : paths2 = paths \cup {path} /\ set2 = set \cup {line}
  OBVIOUS
<1>4. Drawn(im, st, paths)
  BY <1>1, <1>2
<1>5. Drawn(im, st2, paths2) /\ IsNew(im, top, r, path, paths)
  BY <1>1, <1>3, <1>4, DrawnFurther
<1>6. path \notin paths
  BY <1>5, Zenon DEF IsNew
<1>7. line.path = path
  BY LineFields
<1>8. line \notin set
  BY <1>2, <1>6, <1>7 DEF PathsOf
<1>9. PICK more : more = Append(lines, line)
  OBVIOUS
<1>10. Once(more) /\ ToSet(more) = set2
  BY <1>1, <1>2, <1>3, <1>8, <1>9, OneMoreLine
<1>11. PathsOf(more) = paths2
  <2>1. ToSet(more) = set \cup {line} /\ ToSet(lines) = set /\ line.path = path
    BY <1>2, <1>3, <1>7, <1>10
  <2>2. PathsOf(more) = PathsOf(lines) \cup {path}
    BY ONLY <2>1 DEF PathsOf
  <2> QED BY <1>2, <1>3, <2>2
<1>12. ASSUME walk2.clean, DirectoriesAreComplete PROVE Shown(im, st2, set2)
  <2>1. bad2 = {} /\ Shown(im, st, set)
    BY <1>1, <1>2, <1>12
  <2> QED BY <1>1, <1>3, <1>4, <2>1, ShownFurther
<1>13. Printed(im, st2, more, walk2, 0)
  BY <1>1, <1>5, <1>10, <1>11, <1>12, Zenon DEF Printed
<1> QED BY <1>9, <1>13

\* One reader less.
LEMMA PrintedLess ==
    ASSUME DirectoriesAreSound, NEW im \in Images, NEW st, IsStack(im, st), st # <<>>,
           NEW lines, NEW walk, Printed(im, st, lines, walk, 0),
           NEW top, top = Last(st), NEW bad,
           NEW r, r = direntv6_readdir(Visible(im, bad), top.d), r.ret # 1,
           NEW st2, Lost(st, st2, Len(st)),
           NEW code, code = 0 \/ code = LoopReturns(r.ret),
           NEW walk2, walk2.clean => walk.clean /\ bad = {}
    PROVE  Printed(im, st2, lines, walk2, code)
<1>1. /\ im \in Trees /\ Once(lines) /\ Drawn(im, st, PathsOf(lines))
      /\ walk.clean /\ DirectoriesAreComplete => Shown(im, st, ToSet(lines))
  BY Zenon DEF Printed
<1>2. PICK k \in Nat \ {0} : k = Len(st) /\ top = st[k]
  BY LostTop
<1>3. Lost(st, st2, k)
  BY <1>2
<1>4. PICK paths, set : paths = PathsOf(lines) /\ set = ToSet(lines)
  OBVIOUS
<1>5. Drawn(im, st, paths)
  BY <1>1, <1>4
<1>6. Drawn(im, st2, paths)
  BY <1>2, <1>3, <1>5, DrawnLost
<1>7. ASSUME walk2.clean, DirectoriesAreComplete PROVE code = 0 /\ Shown(im, st2, set)
  <2>1. bad = {} /\ Shown(im, st, set)
    BY <1>1, <1>4, <1>7
  <2>2. Shown(im, st2, set) /\ LoopReturns(r.ret) = 0
    BY <1>2, <1>3, <1>5, <1>7, <2>1, ShownLost
  <2> QED BY <2>2
<1> QED BY <1>1, <1>4, <1>6, <1>7, Zenon DEF Printed

\* A turn of the loop of the innermost direntv6_print_tree, or its end.
LEMMA TTreeStep == ASSUME DirectoriesAreSound, TreesEnd, IInv, TInv, TreeStep PROVE TInv'
<1>1. PICK bad \in IoFaults, bad2 \in IoFaults :
          /\ pc = "tree" /\ Faults(bad \cup bad2) /\ img' = img
          /\ \E r \in {direntv6_readdir(Visible(img, bad), Last(stack).d)} :
                \/ /\ r.ret = 1
                   /\ \E below \in {direntv6_opendir(Visible(img, bad2), MountedSuper(img), r.child)} :
                         TreeTurn(Last(stack), r, below)
                \/ /\ r.ret # 1 /\ UNCHANGED out
                   /\ IF Len(stack) > 1 THEN stack' = Front(stack) /\ UNCHANGED <<pc, ret>>
                      ELSE Return(LoopReturns(r.ret))
  BY Zenon DEF TreeStep, Readdir, Opendir
<1>2. PICK top : top = Last(stack)
  OBVIOUS
<1>3. PICK r : /\ r = direntv6_readdir(Visible(img, bad), top.d)
               /\ \/ /\ r.ret = 1
                     /\ \E below \in {direntv6_opendir(Visible(img, bad2), MountedSuper(img), r.child)} :
                           TreeTurn(top, r, below)
                  \/ /\ r.ret # 1 /\ out' = out
                     /\ IF Len(stack) > 1 THEN stack' = Front(stack) /\ UNCHANGED <<pc, ret>>
                        ELSE Return(LoopReturns(r.ret))
  BY <1>1, <1>2, Zenon
<1>4. /\ op = [kind |-> op.kind, path |-> op.path, clean |-> op.clean]
      /\ op.kind = "lsall" /\ ret = 0 /\ Printed(img, stack, out, op, ret)
  BY <1>1, Zenon DEF TInv
<1>5. /\ op' = [kind |-> op'.kind, path |-> op'.path, clean |-> op'.clean]
      /\ op'.kind = op.kind /\ (op'.clean => op.clean /\ bad \cup bad2 = {})
  BY <1>1, <1>4, FaultsKept
<1>6. op'.kind = "lsall"
  BY <1>4, <1>5
<1>7. Printed(img, stack, out, op, 0)
  BY <1>4
<1>8. img \in Images /\ IsStack(img, stack) /\ stack # <<>>
  BY <1>1 DEF IInv
<1>9. CASE /\ r.ret = 1
           /\ \E below \in {direntv6_opendir(Visible(img, bad2), MountedSuper(img), r.child)} :
                 TreeTurn(top, r, below)
  <2>1. PICK below : /\ below = direntv6_opendir(Visible(img, bad2), MountedSuper(img), r.child)
                     /\ TreeTurn(top, r, below)
    BY <1>9
  <2>2. PICK path, line : /\ path = Append(top.prefix, r.name)
                          /\ line = Line(IF below.ret = 0 THEN "DIR" ELSE "FIL", path)
    OBVIOUS
  <2>3. PICK st2 : st2 = Front(stack) \o Descend(Frame(r.d, 0, top.prefix), below, path)
    OBVIOUS
  <2>4. stack' = st2 /\ out' = Append(out, line) /\ pc' = pc /\ ret' = ret
    BY <2>1, <2>2, <2>3, Zenon DEF TreeTurn
  <2>5. Printed(img, st2, Append(out, line), op', 0)
    <3>1. PICK walk2, st, lines, walk :
              walk2 = op' /\ st = stack /\ lines = out /\ walk = op
      BY Zenon
    <3>2. Printed(img, st, lines, walk, 0) /\ (walk2.clean => walk.clean /\ bad \cup bad2 = {})
      BY <1>5, <1>7, <3>1, Zenon
    <3>3. Turns(img, st, top, bad, bad2, r, path, below, st2)
      <4>1. Len(st) \in Nat \ {0} /\ top = st[Len(st)]
        BY <1>2, <1>8, <3>1, LostTop
      <4>2. GoneOn(st, st2, Len(st), Frame(r.d, 0, top.prefix),
                   IF below.ret = 0 THEN <<Frame(below.d, 0, path)>> ELSE <<>>)
        BY <1>8, <2>3, <3>1, TurnedTop
      <4> QED BY <1>3, <1>9, <2>1, <2>2, <4>1, <4>2, Zenon DEF Turns
    <3>4. Printed(img, st2, Append(lines, line), walk2, 0)
      BY <1>8, <2>2, <3>2, <3>3, PrintedFurther
    <3> QED BY <3>1, <3>4
  <2>6. Printed(img', stack', out', op', ret')
    BY <1>1, <1>4, <2>4, <2>5, Zenon
  <2>7. pc' = "tree" /\ ret' = 0
    BY <1>1, <1>4, <2>4
  <2> QED BY <1>5, <1>6, <2>6, <2>7 DEF TInv
<1>10. CASE /\ r.ret # 1 /\ out' = out
            /\ IF Len(stack) > 1 THEN stack' = Front(stack) /\ UNCHANGED <<pc, ret>>
               ELSE Return(LoopReturns(r.ret))
  <2>1. /\ Len(stack) \in Nat \ {0} /\ Lost(stack, Front(stack), Len(stack))
        /\ Len(stack) = 1 => Lost(stack, <<>>, Len(stack))
    BY <1>8, LostTop
  <2>2. \/ stack' = Front(stack) /\ pc' = pc /\ ret' = ret
        \/ Len(stack) = 1 /\ Return(LoopReturns(r.ret))
    <3>1. PICK k : k = Len(stack)
      OBVIOUS
    <3>2. k > 1 \/ k = 1
      <4>1. k \in Nat \ {0}
        BY <2>1, <3>1
      <4> QED BY ONLY <4>1
    <3> QED BY <1>10, <3>1, <3>2, Zenon
  <2>3. /\ Lost(stack, stack', Len(stack)) /\ (ret' = 0 \/ ret' = LoopReturns(r.ret))
        /\ pc' = "idle" \/ (pc' = "tree" /\ ret' = 0)
    BY <1>1, <1>4, <2>1, <2>2, Zenon DEF Return
  <2>4. PICK st2, code, walk2 : st2 = stack' /\ code = ret' /\ walk2 = op'
    OBVIOUS
  <2>5. Printed(img, st2, out, walk2, code)
    <3>1. /\ Lost(stack, st2, Len(stack)) /\ (code = 0 \/ code = LoopReturns(r.ret))
          /\ walk2.clean => op.clean /\ bad = {}
      BY <1>5, <2>3, <2>4
    <3> QED BY <1>2, <1>3, <1>7, <1>8, <1>10, <3>1, PrintedLess
  <2>6. Printed(img', stack', out', op', ret')
    BY <1>1, <1>10, <2>4, <2>5, Zenon
  <2> QED BY <1>5, <1>6, <2>3, <2>6 DEF TInv
<1> QED BY <1>3, <1>9, <1>10, Zenon

LEMMA TNext == DirectoriesAreSound /\ TreesEnd /\ IInv /\ TInv /\ [Next]_vars => TInv'
<1> SUFFICES ASSUME DirectoriesAreSound, TreesEnd, IInv, TInv, [Next]_vars PROVE TInv'
  OBVIOUS
<1>1. CASE Next
  BY <1>1, TLookup, TLsall, TOthers, TTreeStep DEF Next, Step
<1>2. CASE UNCHANGED vars
  BY <1>2 DEF vars, TInv
<1> QED BY <1>1, <1>2

\* When the last reader is closed and no sector failed, nothing of the tree is missing.
LEMMA TShows == DirectoriesAreComplete /\ IInv /\ TInv => TreeIsExact
<1> SUFFICES ASSUME DirectoriesAreComplete, IInv, TInv, pc = "idle", op.kind = "lsall"
             PROVE  /\ Len(out) = Cardinality(ToSet(out))
                    /\ {line.path : line \in ToSet(out)} \subseteq {line.path : line \in TreeLines}
                    /\ op.clean => ret = 0 /\ ToSet(out) = TreeLines
  BY Zenon DEF TreeIsExact
<1>1. stack = <<>> /\ img \in Images
  BY DEF IInv
<1>2. /\ Once(out) /\ Drawn(img, <<>>, PathsOf(out))
      /\ op.clean => ret = 0 /\ Shown(img, <<>>, ToSet(out))
  BY <1>1, Zenon DEF TInv, Printed
<1>3. Len(out) = Cardinality(ToSet(out))
  BY <1>2 DEF Once
<1>4. ASSUME NEW l \in ToSet(out) PROVE \E line \in TreeLines : line.path = l.path
  <2>1. OnTheTree(img, l.path)
    BY <1>2 DEF Drawn, PathsOf
  <2>2. PICK n \in TreeNodes(img) : n.path = l.path
    BY <2>1 DEF OnTheTree
  <2>3. NodeLine(img, n) \in TreeLines /\ NodeLine(img, n).path = n.path
    BY LineFields DEF TreeLines, NodeLine
  <2> QED BY <2>2, <2>3
<1>5. ASSUME op.clean PROVE ToSet(out) = TreeLines
  <2>1. PICK nodes \in SUBSET TreeNodes(img) :
            /\ ToSet(out) = {NodeLine(img, n) : n \in nodes} /\ TheRoot \in nodes
            /\ \A n \in nodes : Covered(img, <<>>, n, nodes)
    BY <1>2, <1>5, Zenon DEF Shown
  <2>2. 1 .. Len(<<>>) = {}
    OBVIOUS
  <2>3. \A n \in nodes : IsDir(img, n.inr) => NodesBelow(img, n) \subseteq nodes
    BY <2>1, <2>2, Zenon DEF Covered
  <2>4. nodes = TreeNodes(img)
    BY <1>1, <2>1, <2>3, ClosedIsAll
  <2> QED BY <2>1, <2>4 DEF TreeLines
<1> QED BY <1>2, <1>3, <1>4, <1>5

-----------------------------------------------------------------------------
(* The theorems.                                                           *)

\* Every reader that a walk keeps open reads a directory, and its counters are in range.
THEOREM WalksTypeCorrect == Spec => []TypeOK
  BY InvInit, InvNext, InvShows, PTL DEF Spec

\* direntv6.h:20-25, however deep the walk, whatever the disk holds, whatever sectors fail:
\* in every open reader `last' counts the entries of the sectors read so far, `dirs' is the
\* last one of these sectors, and at most one sector of entries is still to be answered.
THEOREM OpenReadersAreConsistent == Spec => []ReadersAreConsistent
  BY InvInit, InvNext, InvShows, PTL DEF Spec

\* fs.c:157, `list all file in the folder', whatever sectors fail and however long the lookup:
\* a listing that does not fail has every entry of the directory before its first free one,
\* once and in order.
THEOREM ListingsAreComplete ==
    ASSUME DirectoriesAreSound, LookupsAreNotMisled
    PROVE  Spec => []ListIsComplete
<1>1. Init => IInv /\ WInv
  BY InvInit, WInit
<1>2. IInv /\ WInv /\ [Next]_vars => (IInv /\ WInv)'
  BY InvNext, WNext
<1>3. IInv /\ WInv => ListIsComplete
  BY WShows
<1> QED BY <1>1, <1>2, <1>3, PTL DEF Spec

\* direntv6.h:55-59, on disks whose directories may contain themselves, for paths of any
\* shape: without failing sectors a lookup answers the inode number of the path, and a
\* negative number when there is none.
THEOREM LookupsAreExact ==
    ASSUME DirectoriesAreSound, DirectoriesAreComplete, LookupsAreNotMisled
    PROVE  Spec => []LookupIsExact
<1>1. Init => IInv /\ WInv
  BY InvInit, WInit
<1>2. IInv /\ WInv /\ [Next]_vars => (IInv /\ WInv)'
  BY InvNext, WNext
<1>3. IInv /\ WInv => LookupIsExact
  BY WShows
<1> QED BY <1>1, <1>2, <1>3, PTL DEF Spec

\* direntv6.h:42, on every disk whose tree ends: whatever sectors fail, lsall prints no path
\* that the tree does not have and none twice; without failing sectors it prints them all.
THEOREM TreesAreExact ==
    ASSUME DirectoriesAreSound, DirectoriesAreComplete, TreesEnd
    PROVE  Spec => []TreeIsExact
<1>1. Init => IInv /\ TInv
  BY InvInit, TInit
<1>2. IInv /\ TInv /\ [Next]_vars => (IInv /\ TInv)'
  BY InvNext, TNext
<1>3. IInv /\ TInv => TreeIsExact
  BY TShows
<1> QED BY <1>1, <1>2, <1>3, PTL DEF Spec
=============================================================================
