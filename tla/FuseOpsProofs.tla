--------------------------- MODULE FuseOpsProofs ---------------------------
(***************************************************************************)
(* Proofs about FuseOps, for any number of threads, every disk and every   *)
(* request: whatever the other threads do to the stream; and of the        *)
(* operations that run alone, on every sound disk, what they answer.       *)
(***************************************************************************)
EXTENDS FuseOps, LayoutLemmas, SequenceTheorems

Calls == {"idle", "done", "open_root", "lookup", "fill_inode", "opendir", "list", "open", "data"}

IsTable(f) == f = [t \in Threads |-> f[t]]

IsSequence(s) == \E S : s \in Seq(S)

IsFile(f) == /\ f = [i_number |-> f.i_number, i_node |-> f.i_node, offset |-> f.offset]
             /\ f.i_node \in InodeType /\ Allocated(f.i_node)
             /\ \E k \in Nat : f.offset = k * SECTOR_SIZE

\* What holds of the operation, of the library call, and of the readers of one thread.
OpOK(o) == /\ DOMAIN o = {"kind", "path", "size", "offset", "inr", "out", "ret", "alone"}
           /\ o.inr \in Word /\ o.offset \in Nat /\ o.ret \in Int /\ IsSequence(o.out)

IoOK(i) == /\ i.want \in Nat \cup {-1} /\ DOMAIN i.got \subseteq i.tried
           /\ SectorsOnly(i.got)

ReaderOK(call, reader) == /\ \E m \in Nat : Counts(reader, m)
                          /\ call \in {"lookup", "list"} => IsDirReader(reader)

FileOK(call, file) == call = "data" => IsFile(file)

ThreadOK(t) == /\ pc[t] \in Calls
               /\ OpOK(op[t])
               /\ IoOK(io[t])
               /\ ReaderOK(pc[t], d[t])
               /\ FileOK(pc[t], fv6[t])

IInv == /\ pos \in Nat
        /\ IsTable(pc) /\ IsTable(op) /\ IsTable(io) /\ IsTable(d) /\ IsTable(fv6)
        /\ \A t \in Threads : ThreadOK(t)

-----------------------------------------------------------------------------
(* One thread moves.                                                       *)

\* g differs from f at t only.
Moves(f, g, t) == IsTable(g) /\ \A o \in Threads : o # t => g[o] = f[o]

LEMMA TableStays ==
    ASSUME NEW f, IsTable(f), NEW g, g = f, NEW t
    PROVE  Moves(f, g, t)
  BY DEF Moves

LEMMA TableMoves ==
    ASSUME NEW f, IsTable(f), NEW t \in Threads
    PROVE  \A x : Moves(f, [f EXCEPT ![t] = x], t) /\ [f EXCEPT ![t] = x][t] = x
<1>1. DOMAIN f = Threads
  BY DEF IsTable
<1> SUFFICES ASSUME NEW x PROVE Moves(f, [f EXCEPT ![t] = x], t) /\ [f EXCEPT ![t] = x][t] = x
  OBVIOUS
<1>2. PICK g : g = [f EXCEPT ![t] = x]
  OBVIOUS
<1>3. g = [o \in Threads |-> g[o]] /\ g[t] = x /\ \A o \in Threads : o # t => g[o] = f[o]
  BY <1>1, <1>2
<1> QED BY <1>2, <1>3 DEF Moves, IsTable

LEMMA OneThread ==
    ASSUME IInv, NEW t \in Threads, pos' \in Nat,
           Moves(pc, pc', t), Moves(op, op', t), Moves(io, io', t), Moves(d, d', t),
           Moves(fv6, fv6', t), ThreadOK(t)'
    PROVE  IInv'
<1>1. ASSUME NEW o \in Threads, o # t PROVE ThreadOK(o)'
  <2>1. pc'[o] = pc[o] /\ op'[o] = op[o] /\ io'[o] = io[o] /\ d'[o] = d[o] /\ fv6'[o] = fv6[o]
    BY <1>1 DEF Moves
  <2>2. ThreadOK(o)
    BY DEF IInv
  <2> QED BY <2>1, <2>2 DEF ThreadOK
<1>2. /\ IsTable(pc)' /\ IsTable(op)' /\ IsTable(io)' /\ IsTable(d)' /\ IsTable(fv6)'
  BY DEF Moves, IsTable
<1> QED BY <1>1, <1>2 DEF IInv

LEMMA NoIoOK == IoOK(NoIo)
  BY DEF IoOK, NoIo, NoSectors, SectorsOnly

LEMMA EmptyIsSequence == IsSequence(<<>>) /\ \A x : IsSequence(<<x>>)
<1>1. PICK S : S = {}
  OBVIOUS
<1>2. <<>> \in Seq(S)
  OBVIOUS
<1>3. ASSUME NEW x PROVE \E T : <<x>> \in Seq(T)
  <2>1. PICK T : T = {x}
    OBVIOUS
  <2>2. <<x>> \in Seq(T)
    BY <2>1
  <2> QED BY <2>2, Zenon
<1> QED BY <1>2, <1>3, Zenon DEF IsSequence

LEMMA AppendIsSequence ==
    ASSUME NEW s, IsSequence(s), NEW x PROVE IsSequence(Append(s, x)) /\ Len(s) \in Nat
<1>1. PICK S : s \in Seq(S)
  BY DEF IsSequence
<1>2. PICK T : T = S \cup {x}
  OBVIOUS
<1>3. s \in Seq(T) /\ x \in T
  BY <1>1, <1>2, SeqMonotonic
<1>4. Append(s, x) \in Seq(T) /\ Len(s) \in Nat
  BY <1>3, AppendProperties, LenProperties
<1> QED BY <1>4, Zenon DEF IsSequence

LEMMA NoReaderOK == \A call : call \notin {"lookup", "list"} => ReaderOK(call, NoReader)
<1>1. PICK reader : reader = NoReader
  OBVIOUS
<1>2. /\ reader = [fv6 |-> reader.fv6, dirs |-> reader.dirs, cur |-> reader.cur, last |-> reader.last]
      /\ reader.cur = 0 /\ reader.last = 0 /\ reader.fv6 = NoFile
  BY <1>1 DEF NoReader
<1>3. /\ NoFile = [i_number |-> NoFile.i_number, i_node |-> NoFile.i_node, offset |-> NoFile.offset]
      /\ NoFile.offset = 0
  BY DEF NoFile
<1>4. 0 * SECTOR_SIZE = 0 /\ 0 * DIRENTRIES_PER_SECTOR = 0 /\ DIRENTRIES_PER_SECTOR \in Nat
  BY SectorSize, EntriesPerSector
<1>5. Counts(reader, 0)
  BY <1>2, <1>3, <1>4 DEF Counts
<1> QED BY <1>1, <1>5 DEF ReaderOK

LEMMA RootIsWord == ROOT_INUMBER \in Word /\ 0 \in Word /\ Word \subseteq Nat
  BY WordFacts DEF ROOT_INUMBER

LEMMA NoOpOK == OpOK(NoOp)
  BY EmptyIsSequence, RootIsWord DEF OpOK, NoOp

LEMMA AnswersOK ==
    ASSUME IInv, NEW t \in Threads, NEW code \in Int, NEW out, IsSequence(out), Answers(t, code, out)
    PROVE  /\ Moves(pc, pc', t) /\ pc'[t] = "done"
           /\ Moves(op, op', t) /\ OpOK(op'[t])
<1>1. OpOK(op[t]) /\ IsTable(pc) /\ IsTable(op)
  BY DEF IInv, ThreadOK
<1>2. PICK o : o = [op[t] EXCEPT !.ret = code, !.out = out]
  OBVIOUS
<1>3. /\ DOMAIN o = DOMAIN op[t] /\ o.inr = op[t].inr /\ o.offset = op[t].offset
      /\ o.ret = code /\ o.out = out
  BY <1>1, <1>2 DEF OpOK
<1>4. op' = [op EXCEPT ![t] = o]
  BY <1>1, <1>2 DEF Answers, IsTable
<1>5. OpOK(o)
  BY <1>1, <1>3 DEF OpOK
<1>6. pc' = [pc EXCEPT ![t] = "done"]
  BY DEF Answers
<1> QED BY <1>1, <1>4, <1>5, <1>6, TableMoves, TableStays

\* A step of t inside an operation, at the return of a library call.
LEMMA ReturnStep ==
    ASSUME IInv, NEW t \in Threads, NEW call, Returns(t, call),
           Moves(pc, pc', t), pc'[t] \in Calls, Moves(op, op', t), OpOK(op'[t]),
           Moves(d, d', t), ReaderOK(pc'[t], d'[t]), Moves(fv6, fv6', t), FileOK(pc'[t], fv6'[t])
    PROVE  IInv'
<1>1. Moves(io, io', t) /\ io'[t] = NoIo /\ pos' \in Nat
  <2>1. Moves(io, io', t) /\ io'[t] = NoIo
    BY TableMoves, TableStays DEF IInv, Returns
  <2>2. pos' \in Nat
    BY TableMoves, TableStays DEF IInv, Returns
  <2> QED BY <2>1, <2>2
<1>2. ThreadOK(t)'
  BY <1>1, NoIoOK DEF ThreadOK
<1> QED BY <1>1, <1>2, OneThread

\* What a thread has when its library call returns.
LEMMA AtReturn ==
    ASSUME IInv, NEW t \in Threads, NEW call, Returns(t, call)
    PROVE  /\ pc[t] = call /\ SectorsOnly(io[t].got)
           /\ OpOK(op[t]) /\ op[t].inr \in Word /\ IsSequence(op[t].out) /\ op[t].offset \in Nat
           /\ IsTable(pc) /\ IsTable(op) /\ IsTable(d) /\ IsTable(fv6)
           /\ \E m \in Nat : Counts(d[t], m)
           /\ call \in {"lookup", "list"} => IsDirReader(d[t])
           /\ call = "data" => IsFile(fv6[t])
  BY DEF IInv, ThreadOK, Returns, OpOK, IoOK, ReaderOK, FileOK

-----------------------------------------------------------------------------
(* The sectors that a library call reads have numbers.                     *)

LEMMA SuperIsWords == Super \in Superblock
<1>1. Disk[SUPERBLOCK_SECTOR] \in Sector
  BY FuseAssumption, ImageIsPrefix
<1> QED BY <1>1, SuperblockType DEF Super, MountedSuper, Superblock

LEMMA BlockNeedsNumbers ==
    ASSUME NEW file, IsFile(file), NEW got, SectorsOnly(got)
    PROVE  BlockNeeds(file, got) \subseteq Nat
<1>1. PICK k \in Nat : file.offset = k * SECTOR_SIZE
  BY DEF IsFile
<1>2. PICK i, off : i = file.i_node /\ off = file.offset \div SECTOR_SIZE
  OBVIOUS
<1>3. i \in InodeType /\ Allocated(i) /\ off = k /\ i.i_size \in Nat /\ k * SECTOR_SIZE \in Nat
  BY <1>1, <1>2, SectorOfStart, SectorSize, SizeIsNat DEF IsFile
<1>4. CASE file.offset >= i.i_size
  BY <1>2, <1>4 DEF BlockNeeds
<1>5. CASE ~(file.offset >= i.i_size)
  <2>1. PICK sect : sect = inode_findsector(got, i, off)
    OBVIOUS
  <2>2. k * SECTOR_SIZE < i.i_size
    BY <1>1, <1>3, <1>5
  <2>3. sect \in Int
    BY <1>3, <2>1, <2>2, FindsSomeSector
  <2>4. off \div ADDRESSES_PER_SECTOR < ADDR_SMALL_LENGTH => AddressSector(i, off) \in Nat
    <3>1. off \div ADDRESSES_PER_SECTOR \in Nat
      <4>1. off \in Nat /\ ADDRESSES_PER_SECTOR \in Nat \ {0}
        BY <1>3, LayoutFacts
      <4> QED BY <4>1, DivModFacts
    <3>2. off \div ADDRESSES_PER_SECTOR < ADDR_SMALL_LENGTH
             => off \div ADDRESSES_PER_SECTOR \in 0 .. ADDR_SMALL_LENGTH - 1
      BY <3>1, LayoutAssumption
    <3>3. \A v \in Word : v \in Nat
      BY WordFacts
    <3> QED BY <1>3, <3>2, <3>3, Zenon DEF AddressSector, InodeType
  <2>5. BlockNeeds(file, got) \subseteq
            (IF off \div ADDRESSES_PER_SECTOR < ADDR_SMALL_LENGTH THEN {AddressSector(i, off)} ELSE {})
               \cup (IF sect >= 0 THEN {sect} ELSE {})
    BY <1>2, <2>1, Zenon DEF BlockNeeds
  <2>6. (IF sect >= 0 THEN {sect} ELSE {}) \subseteq Nat
    BY <2>3
  <2> QED BY <2>4, <2>5, <2>6
<1> QED BY <1>4, <1>5

LEMMA NeedsNumbers ==
    ASSUME IInv, NEW t \in Threads
    PROVE  Needs(t) \subseteq Nat
<1>1. /\ op[t].inr \in Word /\ SectorsOnly(io[t].got)
      /\ pc[t] \in {"lookup", "list"} => IsDirReader(d[t]) /\ \E m \in Nat : Counts(d[t], m)
      /\ pc[t] = "data" => IsFile(fv6[t])
  BY DEF IInv, ThreadOK, OpOK, IoOK, ReaderOK, FileOK
<1>2. InodeNeeds(op[t].inr) \subseteq Nat
  <2>1. \A inr \in Word : inr \div INODES_PER_SECTOR \in Nat
    BY WordFacts, PerSector, DivModFacts
  <2>2. Super.s_inode_start \in Nat
    BY SuperIsWords, WordFacts DEF Superblock
  <2>3. \A inr \in Word : InodeSector(Super, inr) \in Nat
    BY <2>1, <2>2 DEF InodeSector
  <2> QED BY <1>1, <2>3 DEF InodeNeeds
<1>3. pc[t] \in {"lookup", "list"} => IsFile(d[t].fv6)
  BY <1>1 DEF IsFile, IsDirReader, Counts
<1>4. pc[t] \in {"lookup", "list"} => EntryNeeds(d[t], io[t].got) \subseteq Nat
  BY <1>1, <1>3, BlockNeedsNumbers DEF EntryNeeds
<1>5. pc[t] = "data" => BlockNeeds(fv6[t], io[t].got) \subseteq Nat
  BY <1>1, BlockNeedsNumbers
<1> QED BY <1>2, <1>4, <1>5, Zenon DEF Needs

-----------------------------------------------------------------------------
(* The steps.                                                              *)

LEMMA InvBegin == ASSUME IInv, NEW t \in Threads, Begin(t) PROVE IInv'
<1> DEFINE others == {o \in Threads \ {t} : pc[o] \notin {"idle", "done"}}
<1>0. PICK c \in Requests :
          /\ pc[t] = "idle"
          /\ pc' = [pc EXCEPT ![t] = IF c.path = <<SLASH>> THEN "fill_inode" ELSE "open_root"]
          /\ op' = [o \in Threads |->
                       IF o = t
                       THEN [NoOp EXCEPT !.kind = c.kind, !.path = c.path, !.size = c.size,
                                         !.offset = c.offset, !.inr = ROOT_INUMBER,
                                         !.alone = others = {}]
                       ELSE [op[o] EXCEPT !.alone = @ /\ o \notin others]]
          /\ UNCHANGED <<pos, io, d, fv6>>
  BY DEF Begin
<1> HIDE DEF others
<1>1. PICK o :
          /\ pc' = [pc EXCEPT ![t] = IF c.path = <<SLASH>> THEN "fill_inode" ELSE "open_root"]
          /\ o = [NoOp EXCEPT !.kind = c.kind, !.path = c.path, !.size = c.size,
                              !.offset = c.offset, !.inr = ROOT_INUMBER, !.alone = others = {}]
          /\ op' = [u \in Threads |->
                       IF u = t THEN o ELSE [op[u] EXCEPT !.alone = @ /\ u \notin others]]
          /\ UNCHANGED <<pos, io, d, fv6>>
  BY <1>0, Zenon
<1>2. /\ DOMAIN o = DOMAIN NoOp /\ o.inr = ROOT_INUMBER /\ o.offset = c.offset
      /\ o.out = <<>> /\ o.ret = 0
  BY <1>1 DEF NoOp
<1>3. OpOK(o)
  BY <1>2, NoOpOK, RootIsWord, FuseAssumption DEF OpOK, NoOp
<1>4. ASSUME NEW u \in Threads, u # t PROVE ThreadOK(u)'
  <2>1. ThreadOK(u)
    BY DEF IInv
  <2>2. PICK a : op'[u] = [op[u] EXCEPT !.alone = a]
    BY <1>1, <1>4, Zenon
  <2>3. OpOK(op'[u])
    BY <2>1, <2>2 DEF ThreadOK, OpOK
  <2>4. pc'[u] = pc[u]
    BY <1>1, <1>4 DEF IInv, IsTable
  <2> QED BY <1>1, <2>1, <2>3, <2>4 DEF ThreadOK
<1>5. Moves(pc, pc', t) /\ pc'[t] \in {"fill_inode", "open_root"}
  <2>1. PICK next \in {"fill_inode", "open_root"} : pc' = [pc EXCEPT ![t] = next]
    BY <1>1, Zenon
  <2> QED BY <2>1, TableMoves DEF IInv
<1>6. ThreadOK(t)'
  <2>1. ThreadOK(t)
    BY DEF IInv
  <2>2. op'[t] = o
    BY <1>1
  <2> QED BY <1>1, <1>3, <1>5, <2>1, <2>2 DEF ThreadOK, Calls, ReaderOK, FileOK
<1>7. IsTable(op)' /\ IsTable(pc)'
  BY <1>1, <1>5 DEF IsTable, Moves
<1> QED BY <1>1, <1>4, <1>6, <1>7, ZenonT(40) DEF IInv, IsTable

LEMMA InvSeek == ASSUME IInv, NEW t \in Threads, Seek(t) PROVE IInv'
<1>1. PICK n \in Needs(t) : /\ pos' = n /\ io' = [io EXCEPT ![t].want = n]
                            /\ UNCHANGED <<pc, op, d, fv6>>
  BY DEF Seek
<1>2. n \in Nat
  BY NeedsNumbers
<1>3. ThreadOK(t) /\ IsTable(io)
  BY DEF IInv
<1>4. PICK i : i = [io[t] EXCEPT !.want = n]
  OBVIOUS
<1>5. io' = [io EXCEPT ![t] = i]
  BY <1>1, <1>3, <1>4 DEF IsTable
<1>6. IoOK(i)
  BY <1>2, <1>3, <1>4 DEF ThreadOK, IoOK
<1>7. Moves(io, io', t) /\ io'[t] = i
  BY <1>3, <1>5, TableMoves, TableStays
<1>8. ThreadOK(t)'
  BY <1>1, <1>3, <1>6, <1>7 DEF ThreadOK
<1> QED BY <1>1, <1>2, <1>7, <1>8, OneThread, TableMoves, TableStays DEF IInv

LEMMA InvFread == ASSUME IInv, NEW t \in Threads, Fread(t) PROVE IInv'
<1>1. ThreadOK(t) /\ IsTable(io) /\ pos \in Nat
  BY DEF IInv
<1>2. PICK i, n :
          /\ \/ /\ pos \in DOMAIN Disk /\ pos' = pos + 1
                /\ i = [tried |-> io[t].tried \cup {n}, want |-> -1,
                        got |-> Gets(io[t].got, n, Disk[pos])]
             \/ /\ pos' = pos
                /\ i = [tried |-> io[t].tried \cup {n}, want |-> -1, got |-> io[t].got]
          /\ io' = [io EXCEPT ![t] = i]
          /\ UNCHANGED <<pc, op, d, fv6>>
  BY Zenon DEF Fread
<1>3. IoOK(i)
  <2>1. CASE /\ pos \in DOMAIN Disk
             /\ i = [tried |-> io[t].tried \cup {n}, want |-> -1,
                     got |-> Gets(io[t].got, n, Disk[pos])]
    <3>1. Disk[pos] \in Sector
      BY <2>1, FuseAssumption DEF IsImage
    <3>2. SectorsOnly(Gets(io[t].got, n, Disk[pos]))
          /\ DOMAIN Gets(io[t].got, n, Disk[pos]) = {n} \cup DOMAIN io[t].got
      BY <1>1, <3>1 DEF Gets, SectorsOnly, ThreadOK, IoOK
    <3> QED BY <1>1, <2>1, <3>2 DEF ThreadOK, IoOK
  <2>2. CASE i = [tried |-> io[t].tried \cup {n}, want |-> -1, got |-> io[t].got]
    BY <1>1, <2>2 DEF ThreadOK, IoOK
  <2> QED BY <1>2, <2>1, <2>2
<1>4. Moves(io, io', t) /\ io'[t] = i
  BY <1>1, <1>2, TableMoves, TableStays
<1>5. ThreadOK(t)'
  BY <1>1, <1>2, <1>3, <1>4 DEF ThreadOK
<1>6. pos' \in Nat
  BY <1>1, <1>2
<1> QED BY <1>2, <1>4, <1>5, <1>6, OneThread, TableMoves, TableStays DEF IInv

LEMMA InvOpendir == ASSUME IInv, NEW t \in Threads, Opendir(t) PROVE IInv'
<1>0. PICK call \in {"open_root", "opendir"} :
          /\ Returns(t, call)
          /\ \E r \in {direntv6_opendir(io[t].got, Super, op[t].inr)} :
                \/ r.ret # 0 /\ Answers(t, r.ret, <<>>) /\ UNCHANGED d
                \/ /\ r.ret = 0
                   /\ d' = [d EXCEPT ![t] = r.d]
                   /\ Proceeds(t, IF call = "opendir" THEN "list" ELSE "lookup")
                   /\ UNCHANGED op
          /\ UNCHANGED fv6
  BY Zenon DEF Opendir
<1>1. PICK r :
          /\ Returns(t, call)
          /\ r = direntv6_opendir(io[t].got, Super, op[t].inr)
          /\ \/ r.ret # 0 /\ Answers(t, r.ret, <<>>) /\ UNCHANGED d
             \/ /\ r.ret = 0
                /\ d' = [d EXCEPT ![t] = r.d]
                /\ Proceeds(t, IF call = "opendir" THEN "list" ELSE "lookup")
                /\ UNCHANGED op
          /\ UNCHANGED fv6
  BY <1>0, Zenon
<1>2. /\ SectorsOnly(io[t].got) /\ OpOK(op[t]) /\ op[t].inr \in Word
      /\ IsTable(pc) /\ IsTable(op) /\ IsTable(d) /\ IsTable(fv6)
      /\ \E m \in Nat : Counts(d[t], m)
  BY <1>1, AtReturn
<1>3. r.ret \in Int /\ Counts(r.d, 0) /\ (r.ret = 0 => IsDirReader(r.d))
  BY <1>1, <1>2, OpendirCounts
<1>4. Moves(fv6, fv6', t)
  BY <1>1, <1>2, TableMoves, TableStays
<1>5. CASE Answers(t, r.ret, <<>>) /\ UNCHANGED d
  <2>1. /\ Moves(pc, pc', t) /\ pc'[t] = "done" /\ Moves(op, op', t) /\ OpOK(op'[t])
    BY <1>3, <1>5, AnswersOK, EmptyIsSequence
  <2>2. Moves(d, d', t) /\ d' = d
    BY <1>2, <1>5, TableMoves, TableStays
  <2>3. ReaderOK(pc'[t], d'[t]) /\ FileOK(pc'[t], fv6'[t]) /\ pc'[t] \in Calls
    BY <1>2, <2>1, <2>2 DEF ReaderOK, FileOK, Calls
  <2> QED BY <1>1, <1>4, <2>1, <2>2, <2>3, ReturnStep
<1>6. CASE /\ r.ret = 0
           /\ d' = [d EXCEPT ![t] = r.d]
           /\ Proceeds(t, IF call = "opendir" THEN "list" ELSE "lookup")
           /\ UNCHANGED op
  <2>0. PICK next \in {"list", "lookup"} : pc' = [pc EXCEPT ![t] = next]
    BY <1>6, Zenon DEF Proceeds
  <2>1. Moves(pc, pc', t) /\ pc'[t] \in {"list", "lookup"}
    BY <1>2, <2>0, TableMoves
  <2>2. Moves(d, d', t) /\ d'[t] = r.d /\ Moves(op, op', t) /\ op' = op
    <3>1. Moves(d, d', t) /\ d'[t] = r.d
      BY <1>2, <1>6, TableMoves, TableStays
    <3>2. Moves(op, op', t) /\ op' = op
      BY <1>2, <1>6, TableMoves, TableStays
    <3> QED BY <3>1, <3>2
  <2>3. ReaderOK(pc'[t], d'[t]) /\ FileOK(pc'[t], fv6'[t]) /\ pc'[t] \in Calls
    <3>1. 0 \in Nat
      OBVIOUS
    <3> QED BY <1>3, <1>6, <2>1, <2>2, <3>1 DEF ReaderOK, FileOK, Calls
  <2> QED BY <1>1, <1>2, <1>4, <2>1, <2>2, <2>3, ReturnStep
<1> QED BY <1>1, <1>5, <1>6

\* A call of direntv6_readdir.
LEMMA ReaddirKeeps ==
    ASSUME IInv, NEW t \in Threads, NEW call \in {"lookup", "list"}, Returns(t, call),
           NEW r, r = direntv6_readdir(io[t].got, d[t]), d' = [d EXCEPT ![t] = r.d]
    PROVE  /\ r.ret \in Int /\ (r.ret = 1 => r.child \in Word)
           /\ Moves(d, d', t) /\ \A c : ReaderOK(c, d'[t])
<1>1. PICK m \in Nat : Counts(d[t], m)
  BY AtReturn
<1>2. SectorsOnly(io[t].got) /\ IsDirReader(d[t]) /\ IsTable(d)
  BY AtReturn
<1>3. /\ r.ret \in Int /\ (r.ret = 1 => r.child \in Word) /\ IsDirReader(r.d)
      /\ Counts(r.d, m) \/ Counts(r.d, 0) \/ Counts(r.d, m + 1)
  BY <1>1, <1>2, ReaddirCounts
<1>4. \E k \in Nat : Counts(r.d, k)
  <2>1. 0 \in Nat /\ m + 1 \in Nat
    OBVIOUS
  <2> QED BY <1>3, <2>1
<1>5. Moves(d, d', t) /\ d'[t] = r.d
  BY <1>2, TableMoves, TableStays
<1> QED BY <1>3, <1>4, <1>5 DEF ReaderOK

LEMMA InvLookup == ASSUME IInv, NEW t \in Threads, Lookup(t) PROVE IInv'
<1>1. PICK r :
          /\ Returns(t, "lookup")
          /\ r = direntv6_readdir(io[t].got, d[t])
          /\ d' = [d EXCEPT ![t] = r.d]
          /\ \/ SearchEnds(r.ret) /\ Answers(t, ERR_INODE_OUTOF_RANGE, <<>>)
             \/ /\ ~SearchEnds(r.ret)
                /\ op' = [op EXCEPT ![t].inr = r.child]
                /\ Proceeds(t, "fill_inode")
             \/ UNCHANGED <<pc, op>>
          /\ UNCHANGED fv6
  BY Zenon DEF Lookup
<1>2. /\ OpOK(op[t]) /\ IsTable(pc) /\ IsTable(op) /\ IsTable(fv6) /\ pc[t] = "lookup"
  BY <1>1, AtReturn
<1>3. /\ r.ret \in Int /\ (r.ret = 1 => r.child \in Word)
      /\ Moves(d, d', t) /\ \A c : ReaderOK(c, d'[t])
  BY <1>1, ReaddirKeeps
<1>4. Moves(fv6, fv6', t)
  BY <1>1, <1>2, TableMoves, TableStays
<1>5. CASE Answers(t, ERR_INODE_OUTOF_RANGE, <<>>)
  <2>1. /\ Moves(pc, pc', t) /\ pc'[t] = "done" /\ Moves(op, op', t) /\ OpOK(op'[t])
    BY <1>5, AnswersOK, EmptyIsSequence DEF ERR_INODE_OUTOF_RANGE
  <2>2. FileOK(pc'[t], fv6'[t]) /\ pc'[t] \in Calls
    BY <2>1 DEF FileOK, Calls
  <2> QED BY <1>1, <1>3, <1>4, <2>1, <2>2, ReturnStep
<1>6. CASE /\ ~SearchEnds(r.ret)
           /\ op' = [op EXCEPT ![t].inr = r.child]
           /\ Proceeds(t, "fill_inode")
  <2>1. PICK o : o = [op[t] EXCEPT !.inr = r.child]
    OBVIOUS
  <2>2. op' = [op EXCEPT ![t] = o]
    BY <1>2, <1>6, <2>1 DEF IsTable
  <2>3. r.child \in Word
    BY <1>3, <1>6 DEF SearchEnds
  <2>4. OpOK(o)
    BY <1>2, <2>1, <2>3 DEF OpOK
  <2>5. Moves(op, op', t) /\ op'[t] = o /\ Moves(pc, pc', t) /\ pc'[t] = "fill_inode"
    <3>1. Moves(op, op', t) /\ op'[t] = o
      BY <1>2, <2>2, TableMoves
    <3>2. Moves(pc, pc', t) /\ pc'[t] = "fill_inode"
      BY <1>2, <1>6, <2>2, TableMoves, TableStays DEF Proceeds
    <3> QED BY <3>1, <3>2
  <2>6. FileOK(pc'[t], fv6'[t]) /\ pc'[t] \in Calls
    BY <2>5 DEF FileOK, Calls
  <2> QED BY <1>1, <1>3, <1>4, <2>4, <2>5, <2>6, ReturnStep
<1>7. CASE UNCHANGED <<pc, op>>
  <2>1. Moves(op, op', t) /\ op' = op /\ Moves(pc, pc', t) /\ pc'[t] = "lookup"
    <3>1. Moves(op, op', t) /\ op' = op
      BY <1>2, <1>7, TableMoves, TableStays
    <3>2. Moves(pc, pc', t) /\ pc'[t] = "lookup"
      BY <1>2, <1>7, TableMoves, TableStays
    <3> QED BY <3>1, <3>2
  <2>2. FileOK(pc'[t], fv6'[t]) /\ pc'[t] \in Calls
    BY <2>1 DEF FileOK, Calls
  <2> QED BY <1>1, <1>2, <1>3, <1>4, <2>1, <2>2, ReturnStep
<1> QED BY <1>1, <1>5, <1>6, <1>7

LEMMA InvFillInode == ASSUME IInv, NEW t \in Threads, FillInode(t) PROVE IInv'
<1>0. PICK code, x, call :
          /\ Returns(t, "fill_inode")
          /\ code = inode_read(io[t].got, Super, op[t].inr)
          /\ call = IF op[t].kind = "readdir" THEN "opendir" ELSE "open"
          /\ \/ Answers(t, code, <<>>)
             \/ Answers(t, 0, <<x>>)
             \/ Proceeds(t, call) /\ UNCHANGED op
          /\ UNCHANGED <<d, fv6>>
  BY Zenon DEF FillInode
<1>1. /\ Returns(t, "fill_inode")
      /\ code = inode_read(io[t].got, Super, op[t].inr)
      /\ call \in {"opendir", "open"}
      /\ \/ Answers(t, code, <<>>)
         \/ Answers(t, 0, <<x>>)
         \/ Proceeds(t, call) /\ UNCHANGED op
      /\ UNCHANGED <<d, fv6>>
  BY <1>0
<1>2. /\ SectorsOnly(io[t].got) /\ OpOK(op[t]) /\ op[t].inr \in Word
      /\ IsTable(pc) /\ IsTable(op) /\ IsTable(d) /\ IsTable(fv6)
      /\ \E m \in Nat : Counts(d[t], m)
  BY <1>1, AtReturn
<1>3. code \in Int
  BY <1>1, <1>2, ReadsSomeInode
<1>4. Moves(fv6, fv6', t) /\ Moves(d, d', t)
  <2>1. Moves(fv6, fv6', t)
    BY <1>1, <1>2, TableMoves, TableStays
  <2>2. Moves(d, d', t)
    BY <1>1, <1>2, TableMoves, TableStays
  <2> QED BY <2>1, <2>2
<1>5. CASE Answers(t, code, <<>>) \/ Answers(t, 0, <<x>>)
  <2>1. /\ Moves(pc, pc', t) /\ pc'[t] = "done" /\ Moves(op, op', t) /\ OpOK(op'[t])
    BY <1>3, <1>5, AnswersOK, EmptyIsSequence
  <2>2. ReaderOK(pc'[t], d'[t]) /\ FileOK(pc'[t], fv6'[t]) /\ pc'[t] \in Calls
    BY <1>1, <1>2, <2>1 DEF ReaderOK, FileOK, Calls
  <2> QED BY <1>1, <1>4, <2>1, <2>2, ReturnStep
<1>6. CASE Proceeds(t, call) /\ UNCHANGED op
  <2>1. Moves(op, op', t) /\ op' = op /\ Moves(pc, pc', t) /\ pc'[t] = call
    <3>1. Moves(op, op', t) /\ op' = op
      BY <1>2, <1>6, TableMoves, TableStays DEF Proceeds
    <3>2. Moves(pc, pc', t) /\ pc'[t] = call
      BY <1>2, <1>6, TableMoves, TableStays DEF Proceeds
    <3> QED BY <3>1, <3>2
  <2>2. ReaderOK(pc'[t], d'[t]) /\ FileOK(pc'[t], fv6'[t]) /\ pc'[t] \in Calls
    BY <1>1, <1>2, <2>1 DEF ReaderOK, FileOK, Calls
  <2> QED BY <1>1, <1>2, <1>4, <2>1, <2>2, ReturnStep
<1> QED BY <1>1, <1>5, <1>6

LEMMA InvList == ASSUME IInv, NEW t \in Threads, List(t) PROVE IInv'
<1>1. PICK r, code :
          /\ Returns(t, "list")
          /\ r = direntv6_readdir(io[t].got, d[t])
          /\ d' = [d EXCEPT ![t] = r.d]
          /\ code = IF r.ret = ERR_UNALLOCATED_INODE THEN 0 ELSE r.ret
          /\ \/ op' = [op EXCEPT ![t].out = Append(@, r.name)] /\ UNCHANGED pc
             \/ Answers(t, code, op[t].out)
          /\ UNCHANGED fv6
  BY Zenon DEF List
<1>2. /\ OpOK(op[t]) /\ IsSequence(op[t].out)
      /\ IsTable(pc) /\ IsTable(op) /\ IsTable(fv6) /\ pc[t] = "list"
  BY <1>1, AtReturn
<1>3. r.ret \in Int /\ Moves(d, d', t) /\ \A c : ReaderOK(c, d'[t])
  BY <1>1, ReaddirKeeps
<1>4. Moves(fv6, fv6', t) /\ code \in Int
  <2>1. Moves(fv6, fv6', t)
    BY <1>1, <1>2, <1>3, TableMoves, TableStays
  <2>2. code \in Int
    BY <1>1, <1>2, <1>3, TableMoves, TableStays
  <2> QED BY <2>1, <2>2
<1>5. CASE Answers(t, code, op[t].out)
  <2>1. /\ Moves(pc, pc', t) /\ pc'[t] = "done" /\ Moves(op, op', t) /\ OpOK(op'[t])
    BY <1>2, <1>4, <1>5, AnswersOK
  <2>2. FileOK(pc'[t], fv6'[t]) /\ pc'[t] \in Calls
    BY <2>1 DEF FileOK, Calls
  <2> QED BY <1>1, <1>3, <1>4, <2>1, <2>2, ReturnStep
<1>6. CASE op' = [op EXCEPT ![t].out = Append(@, r.name)] /\ UNCHANGED pc
  <2>1. PICK out : out = Append(op[t].out, r.name)
    OBVIOUS
  <2>2. IsSequence(out)
    BY <1>2, <2>1, AppendIsSequence
  <2>3. PICK o : o = [op[t] EXCEPT !.out = out]
    OBVIOUS
  <2>4. op' = [op EXCEPT ![t] = o]
    BY <1>2, <1>6, <2>1, <2>3 DEF IsTable
  <2>5. OpOK(o)
    BY <1>2, <2>2, <2>3 DEF OpOK
  <2>6. Moves(op, op', t) /\ op'[t] = o /\ Moves(pc, pc', t) /\ pc'[t] = "list"
    <3>1. Moves(op, op', t) /\ op'[t] = o
      BY <1>2, <2>4, TableMoves
    <3>2. Moves(pc, pc', t) /\ pc'[t] = "list"
      BY <1>2, <1>6, <2>4, TableMoves, TableStays
    <3> QED BY <3>1, <3>2
  <2>7. FileOK(pc'[t], fv6'[t]) /\ pc'[t] \in Calls
    BY <2>6 DEF FileOK, Calls
  <2> QED BY <1>1, <1>3, <1>4, <2>5, <2>6, <2>7, ReturnStep
<1> QED BY <1>1, <1>5, <1>6

LEMMA InvOpen == ASSUME IInv, NEW t \in Threads, Open(t) PROVE IInv'
<1>1. PICK r, seek :
          /\ Returns(t, "open")
          /\ r = filev6_open(io[t].got, Super, op[t].inr, NoFile)
          /\ seek = filev6_lseek(r.fv6, op[t].offset * SECTOR_SIZE)
          /\ \/ Answers(t, r.ret, <<>>) /\ UNCHANGED fv6
             \/ Answers(t, 0, <<>>) /\ UNCHANGED fv6
             \/ /\ r.ret = 0 /\ seek.ret = 0
                /\ fv6' = [fv6 EXCEPT ![t] = seek.fv6]
                /\ Proceeds(t, "data")
                /\ UNCHANGED op
          /\ UNCHANGED d
  BY Zenon DEF Open
<1>2. /\ SectorsOnly(io[t].got) /\ OpOK(op[t]) /\ op[t].inr \in Word /\ op[t].offset \in Nat
      /\ IsTable(pc) /\ IsTable(op) /\ IsTable(d) /\ IsTable(fv6)
      /\ \E m \in Nat : Counts(d[t], m)
  BY <1>1, AtReturn
<1>3. PICK code, node : code = inode_read(io[t].got, Super, op[t].inr)
                        /\ node = InodeNo(io[t].got, Super, op[t].inr)
  OBVIOUS
<1>4. code \in Int /\ (code = 0 => node \in InodeType /\ Allocated(node))
  BY <1>2, <1>3, ReadsSomeInode
<1>5. r.ret = code /\ (code = 0 => r.fv6 = [i_number |-> op[t].inr, i_node |-> node, offset |-> 0])
  BY <1>1, <1>3 DEF filev6_open
<1>6. Moves(d, d', t) /\ d' = d
  BY <1>1, <1>2, TableMoves, TableStays
<1>7. CASE (Answers(t, r.ret, <<>>) \/ Answers(t, 0, <<>>)) /\ UNCHANGED fv6
  <2>1. /\ Moves(pc, pc', t) /\ pc'[t] = "done" /\ Moves(op, op', t) /\ OpOK(op'[t])
    BY <1>4, <1>5, <1>7, AnswersOK, EmptyIsSequence
  <2>2. ReaderOK(pc'[t], d'[t]) /\ FileOK(pc'[t], fv6'[t]) /\ pc'[t] \in Calls
    BY <1>2, <1>6, <2>1 DEF ReaderOK, FileOK, Calls
  <2> QED BY <1>1, <1>2, <1>6, <1>7, <2>1, <2>2, TableStays, ReturnStep
<1>8. CASE /\ r.ret = 0 /\ seek.ret = 0
           /\ fv6' = [fv6 EXCEPT ![t] = seek.fv6]
           /\ Proceeds(t, "data")
           /\ UNCHANGED op
  <2>1. Moves(op, op', t) /\ op' = op /\ Moves(pc, pc', t) /\ pc'[t] = "data"
    <3>1. Moves(op, op', t) /\ op' = op
      BY <1>2, <1>8, TableMoves, TableStays DEF Proceeds
    <3>2. Moves(pc, pc', t) /\ pc'[t] = "data"
      BY <1>2, <1>8, TableMoves, TableStays DEF Proceeds
    <3> QED BY <3>1, <3>2
  <2>2. Moves(fv6, fv6', t) /\ fv6'[t] = seek.fv6
    BY <1>2, <1>8, TableMoves, TableStays
  <2>3. PICK g, offset : g = r.fv6 /\ offset = op[t].offset * SECTOR_SIZE
    OBVIOUS
  <2>4. seek.fv6 = [g EXCEPT !.offset = offset]
    <3>1. seek = filev6_lseek(g, offset)
      BY <1>1, <2>3
    <3>2. \/ seek.ret = ERR_OFFSET_OUT_OF_RANGE
          \/ seek.fv6 = [g EXCEPT !.offset = offset]
      BY <3>1 DEF filev6_lseek
    <3> QED BY <1>8, <3>2 DEF ERR_OFFSET_OUT_OF_RANGE
  <2>5. /\ g = [i_number |-> g.i_number, i_node |-> g.i_node, offset |-> g.offset]
        /\ g.i_node = node
    BY <1>5, <1>8, <2>3
  <2>6. PICK f : f = seek.fv6
    OBVIOUS
  <2>7. /\ f = [i_number |-> f.i_number, i_node |-> f.i_node, offset |-> f.offset]
        /\ f.i_node = g.i_node /\ f.offset = offset
    BY <2>4, <2>5, <2>6, MovedCursor
  <2>8. IsFile(f)
    BY <1>2, <1>4, <1>5, <1>8, <2>3, <2>5, <2>7 DEF IsFile
  <2>9. ReaderOK(pc'[t], d'[t]) /\ FileOK(pc'[t], fv6'[t]) /\ pc'[t] \in Calls
    BY <1>2, <1>6, <2>1, <2>2, <2>6, <2>8 DEF ReaderOK, FileOK, Calls
  <2> QED BY <1>1, <1>2, <1>6, <2>1, <2>2, <2>9, ReturnStep
<1> QED BY <1>1, <1>7, <1>8

\* A call of filev6_readblock.
LEMMA ReadblockKeeps ==
    ASSUME NEW disk, SectorsOnly(disk), NEW f, IsFile(f), NEW r, r = filev6_readblock(disk, f)
    PROVE  r.ret \in Int /\ IsFile(r.fv6)
<1>1. PICK k \in Nat : f.offset = k * SECTOR_SIZE
  BY DEF IsFile
<1>2. PICK i, sect : i = f.i_node /\ sect = inode_findsector(disk, i, k)
  OBVIOUS
<1>3. /\ i \in InodeType /\ Allocated(i) /\ i.i_size \in Nat /\ k * SECTOR_SIZE \in Nat
      /\ f.offset \div SECTOR_SIZE = k
  BY <1>1, <1>2, SectorOfStart, SectorSize, SizeIsNat DEF IsFile
<1>4. ASSUME NEW n \in Nat, NEW g, g = [f EXCEPT !.offset = n * SECTOR_SIZE]
      PROVE  IsFile(g)
  <2>1. f = [i_number |-> f.i_number, i_node |-> f.i_node, offset |-> f.offset]
    BY DEF IsFile
  <2>2. /\ g = [i_number |-> g.i_number, i_node |-> g.i_node, offset |-> g.offset]
        /\ g.i_node = f.i_node /\ g.offset = n * SECTOR_SIZE
    BY <1>4, <2>1, MovedCursor
  <2> QED BY <2>2 DEF IsFile
<1>5. CASE f.offset >= i.i_size
  <2>1. r.ret = 0 /\ r.fv6 = [f EXCEPT !.offset = 0]
    BY <1>2, <1>5 DEF filev6_readblock
  <2>2. 0 * SECTOR_SIZE = 0 /\ 0 \in Nat
    BY SectorSize
  <2>3. r.fv6 = [f EXCEPT !.offset = 0 * SECTOR_SIZE]
    BY <2>1, <2>2
  <2> QED BY <1>4, <2>1, <2>2, <2>3
<1>6. CASE ~(f.offset >= i.i_size)
  <2>1. sect \in Int /\ sect = inode_findsector(disk, i, f.offset \div SECTOR_SIZE)
    <3>1. k * SECTOR_SIZE < i.i_size
      BY <1>1, <1>3, <1>6
    <3> QED BY <1>2, <1>3, <3>1, FindsSomeSector
  <2>2. r = IF sect < 0 THEN [ret |-> sect, data |-> ZeroSector, fv6 |-> f]
            ELSE IF sect \notin DOMAIN disk THEN [ret |-> ERR_IO, data |-> ZeroSector, fv6 |-> f]
            ELSE [ret |-> SECTOR_SIZE, data |-> disk[sect],
                  fv6 |-> [f EXCEPT !.offset = @ + SECTOR_SIZE]]
    BY <1>2, <1>6, <2>1, Zenon DEF filev6_readblock
  <2>3. CASE sect < 0 \/ sect \notin DOMAIN disk
    BY <2>1, <2>2, <2>3 DEF ERR_IO
  <2>4. CASE ~(sect < 0) /\ sect \in DOMAIN disk
    <3>1. r.ret = SECTOR_SIZE /\ r.fv6 = [f EXCEPT !.offset = f.offset + SECTOR_SIZE]
      BY <2>2, <2>4
    <3>2. f.offset + SECTOR_SIZE = (k + 1) * SECTOR_SIZE /\ k + 1 \in Nat
      BY <1>1, SectorSize
    <3>3. r.fv6 = [f EXCEPT !.offset = (k + 1) * SECTOR_SIZE]
      BY <3>1, <3>2
    <3> QED BY <1>4, <3>1, <3>2, <3>3, SectorSize
  <2> QED BY <2>3, <2>4
<1> QED BY <1>5, <1>6

LEMMA InvData == ASSUME IInv, NEW t \in Threads, Data(t) PROVE IInv'
<1>1. PICK r, out :
          /\ Returns(t, "data")
          /\ r = filev6_readblock(io[t].got, fv6[t])
          /\ out = IF r.ret = SECTOR_SIZE THEN Append(op[t].out, UpToNul(r.data)) ELSE op[t].out
          /\ fv6' = [fv6 EXCEPT ![t] = r.fv6]
          /\ \/ op' = [op EXCEPT ![t].out = out] /\ UNCHANGED pc
             \/ Answers(t, Len(out) * SECTOR_SIZE, out)
             \/ Answers(t, r.ret, out)
          /\ UNCHANGED d
  BY Zenon DEF Data
<1>2. /\ SectorsOnly(io[t].got) /\ OpOK(op[t]) /\ IsSequence(op[t].out) /\ pc[t] = "data"
      /\ IsTable(pc) /\ IsTable(op) /\ IsTable(d) /\ IsTable(fv6) /\ IsFile(fv6[t])
      /\ \E m \in Nat : Counts(d[t], m)
  BY <1>1, AtReturn
<1>3. r.ret \in Int /\ IsFile(r.fv6)
  BY <1>1, <1>2, ReadblockKeeps
<1>4. IsSequence(out)
  BY <1>1, <1>2, AppendIsSequence
<1>5. Len(out) * SECTOR_SIZE \in Int
  <2>1. Len(out) \in Nat
    BY <1>4, AppendIsSequence
  <2> QED BY <2>1, SectorSize
<1>6. /\ Moves(d, d', t) /\ d' = d /\ Moves(fv6, fv6', t) /\ fv6'[t] = r.fv6
  <2>1. Moves(d, d', t) /\ d' = d
    BY <1>1, <1>2, TableMoves, TableStays
  <2>2. Moves(fv6, fv6', t) /\ fv6'[t] = r.fv6
    BY <1>1, <1>2, TableMoves, TableStays
  <2> QED BY <2>1, <2>2
<1>7. \A c : c \notin {"lookup", "list"} => ReaderOK(c, d'[t])
  BY <1>2, <1>6 DEF ReaderOK
<1>8. \A c : FileOK(c, fv6'[t])
  BY <1>3, <1>6 DEF FileOK
<1>9. CASE Answers(t, Len(out) * SECTOR_SIZE, out) \/ Answers(t, r.ret, out)
  <2>1. /\ Moves(pc, pc', t) /\ pc'[t] = "done" /\ Moves(op, op', t) /\ OpOK(op'[t])
    BY <1>3, <1>4, <1>5, <1>9, AnswersOK
  <2>2. pc'[t] \in Calls
    BY <2>1 DEF Calls
  <2> QED BY <1>1, <1>6, <1>7, <1>8, <2>1, <2>2, ReturnStep
<1>10. CASE op' = [op EXCEPT ![t].out = out] /\ UNCHANGED pc
  <2>1. PICK o : o = [op[t] EXCEPT !.out = out]
    OBVIOUS
  <2>2. op' = [op EXCEPT ![t] = o]
    BY <1>2, <1>10, <2>1 DEF IsTable
  <2>3. OpOK(o)
    BY <1>2, <1>4, <2>1 DEF OpOK
  <2>4. Moves(op, op', t) /\ op'[t] = o /\ Moves(pc, pc', t) /\ pc'[t] = "data"
    <3>1. Moves(op, op', t) /\ op'[t] = o
      BY <1>2, <2>2, TableMoves
    <3>2. Moves(pc, pc', t) /\ pc'[t] = "data"
      BY <1>2, <1>10, <2>2, TableMoves, TableStays
    <3> QED BY <3>1, <3>2
  <2>5. pc'[t] \in Calls
    BY <2>4 DEF Calls
  <2> QED BY <1>1, <1>6, <1>7, <1>8, <2>3, <2>4, <2>5, ReturnStep
<1> QED BY <1>1, <1>9, <1>10

LEMMA InvFinish == ASSUME IInv, NEW t \in Threads, Finish(t) PROVE IInv'
<1>1. /\ pc' = [pc EXCEPT ![t] = "idle"] /\ op' = [op EXCEPT ![t] = NoOp]
      /\ d' = [d EXCEPT ![t] = NoReader] /\ fv6' = [fv6 EXCEPT ![t] = NoFile]
      /\ UNCHANGED <<pos, io>>
  BY DEF Finish
<1>2. /\ Moves(pc, pc', t) /\ pc'[t] = "idle" /\ Moves(op, op', t) /\ op'[t] = NoOp
      /\ Moves(d, d', t) /\ d'[t] = NoReader /\ Moves(fv6, fv6', t) /\ Moves(io, io', t)
  <2>1. Moves(pc, pc', t) /\ pc'[t] = "idle"
    BY <1>1, TableMoves, TableStays DEF IInv
  <2>2. Moves(op, op', t) /\ op'[t] = NoOp
    BY <1>1, TableMoves, TableStays DEF IInv
  <2>3. Moves(d, d', t) /\ d'[t] = NoReader
    BY <1>1, TableMoves, TableStays DEF IInv
  <2>4. Moves(fv6, fv6', t)
    BY <1>1, TableMoves, TableStays DEF IInv
  <2>5. Moves(io, io', t)
    BY <1>1, TableMoves, TableStays DEF IInv
  <2> QED BY <2>1, <2>2, <2>3, <2>4, <2>5
<1>3. ThreadOK(t)'
  BY <1>1, <1>2, NoOpOK, NoReaderOK DEF IInv, ThreadOK, Calls, FileOK
<1>4. pos' \in Nat
  BY <1>1 DEF IInv
<1> QED BY <1>2, <1>3, <1>4, OneThread

LEMMA InvInit == Init => IInv
<1> SUFFICES ASSUME Init PROVE IInv
  OBVIOUS
<1>1. ASSUME NEW t \in Threads PROVE ThreadOK(t)
  <2>1. pc[t] = "idle" /\ op[t] = NoOp /\ io[t] = NoIo /\ d[t] = NoReader
    BY DEF Init
  <2> QED BY <2>1, NoOpOK, NoIoOK, NoReaderOK DEF ThreadOK, Calls, FileOK
<1> QED BY <1>1 DEF Init, IInv, IsTable

LEMMA InvNext == IInv /\ [Next]_vars => IInv'
<1> SUFFICES ASSUME IInv, [Next]_vars PROVE IInv'
  OBVIOUS
<1>1. CASE Next
  BY <1>1, InvBegin, InvSeek, InvFread, InvOpendir, InvLookup, InvFillInode, InvList, InvOpen,
     InvData, InvFinish DEF Next, Work
<1>2. CASE UNCHANGED vars
  BY <1>2 DEF vars, IInv, IsTable, ThreadOK
<1> QED BY <1>1, <1>2

-----------------------------------------------------------------------------
(* An operation that nobody disturbs: its invariant.                       *)

\* What a call has got that tried to read these sectors and was not disturbed.
Seen(tried) == Visible(Disk, DOMAIN Disk \ tried)

\* What an undisturbed operation has established when it is in a library call.
Phase(call, o, reader, file) ==
    LET i == Node(o.inr)
        has == Len(o.out)
    IN  /\ call \in {"open_root", "lookup"} => o.path # <<SLASH>> /\ o.inr = ROOT_INUMBER
        /\ call \in {"open_root", "lookup", "fill_inode", "opendir", "open"} => o.out = <<>>
        /\ call = "lookup" =>
              /\ Answered(Disk, reader, i)
              /\ \A k \in 0 .. reader.cur - 1 : Slot(Disk, i, k).d_name # Tail(o.path)
        /\ call \in {"fill_inode", "opendir", "open", "list", "data"} => o.inr \in Denotes(o.path)
        /\ call \in {"opendir", "open", "list", "data"} => Live(o.inr)
        /\ call \in {"opendir", "list"} => o.kind = "readdir"
        /\ call \in {"open", "data"} => o.kind \notin {"getattr", "readdir"}
        /\ call = "list" =>
              /\ IsDirectory(i) /\ Answered(Disk, reader, i)
              /\ o.out = [k \in 1 .. reader.cur |-> Slot(Disk, i, k - 1).d_name]
        /\ call = "data" =>
              /\ file = [i_number |-> file.i_number, i_node |-> i,
                         offset |-> (o.offset + has) * SECTOR_SIZE]
              /\ has < o.size /\ o.offset + has <= SectorsOf(i.i_size)
              /\ o.out = [k \in 1 .. has |-> UpToNul(FileBlock(Disk, i, o.offset + k - 1))]

\* Nobody else has begun an operation, and the stream is where this one put it.
Calm(t) ==
    /\ \A o \in Threads : o # t => pc[o] \in {"idle", "done"}
    /\ io[t].want # -1 => pos = io[t].want
    /\ io[t].got = Seen(io[t].tried)
    /\ op[t].path \in Seq(1 .. 255) /\ op[t].path # <<>> /\ op[t].size \in Nat \ {0}
    /\ Phase(pc[t], op[t], d[t], fv6[t])

Exact(o) == IF Denotes(o.path) = {} THEN o.ret < 0
            ELSE \E inr \in Denotes(o.path) : RightAnswer(o, inr)

CalmOK(t) ==
    /\ pc[t] \in {"idle", "done"} => io[t] = NoIo
    /\ op[t].alone =>
          /\ pc[t] \notin {"idle", "done"} => Calm(t)
          /\ pc[t] = "done" => Exact(op[t])

AloneInv == \A t \in Threads : CalmOK(t)

-----------------------------------------------------------------------------
(* A call that has tried the sectors it needs returns what the disk says.  *)

LEMMA SeenFacts ==
    ASSUME NEW tried
    PROVE  /\ DOMAIN Seen(tried) = DOMAIN Disk \cap tried
           /\ \A n \in tried : n \in DOMAIN Seen(tried) <=> n \in DOMAIN Disk
           /\ \A n \in DOMAIN Seen(tried) : Seen(tried)[n] = Disk[n]
  BY DEF Seen, Visible

LEMMA SameInode ==
    ASSUME NEW inr, NEW tried, NEW got, got = Seen(tried), InodeNeeds(inr) \subseteq tried
    PROVE  /\ inode_read(got, Super, inr) = inode_read(Disk, Super, inr)
           /\ inode_read(Disk, Super, inr) = 0 => InodeNo(got, Super, inr) = InodeNo(Disk, Super, inr)
           /\ filev6_open(got, Super, inr, NoFile) = filev6_open(Disk, Super, inr, NoFile)
           /\ direntv6_opendir(got, Super, inr) = direntv6_opendir(Disk, Super, inr)
<1> DEFINE n == InodeSector(Super, inr)
           code == inode_read(Disk, Super, inr)
<1>1. OutOfInodes(Super, inr) \/ n \in tried
  BY DEF InodeNeeds
<1>2. OutOfInodes(Super, inr) \/ (n \in DOMAIN got <=> n \in DOMAIN Disk)
  BY <1>1, SeenFacts
<1>3. n \in DOMAIN got => InodeNo(got, Super, inr) = InodeNo(Disk, Super, inr)
  <2>1. n \in DOMAIN got => got[n] = Disk[n]
    BY SeenFacts
  <2> QED BY <2>1, Zenon DEF InodeNo
<1>4. inode_read(got, Super, inr) = code
  BY <1>2, <1>3, Zenon DEF inode_read, Allocated
<1>5. code = 0 => ~OutOfInodes(Super, inr) /\ n \in DOMAIN Disk
  BY DEF inode_read, ERR_INODE_OUTOF_RANGE, ERR_IO
<1>6. code = 0 => InodeNo(got, Super, inr) = InodeNo(Disk, Super, inr)
  BY <1>2, <1>3, <1>5
<1> HIDE DEF code, n
<1>7. filev6_open(got, Super, inr, NoFile) = filev6_open(Disk, Super, inr, NoFile)
  BY <1>4, <1>6, Zenon DEF filev6_open, code
<1>8. direntv6_opendir(got, Super, inr) = direntv6_opendir(Disk, Super, inr)
  BY <1>7, Zenon DEF direntv6_opendir
<1> QED BY <1>4, <1>6, <1>7, <1>8 DEF code

LEMMA SameSector ==
    ASSUME NEW i, NEW k, NEW tried, NEW got, got = Seen(tried),
           ~IsSmall(i) /\ ~(i.i_size > EXTRA_LARGE_FILE) /\ ~(k \div ADDRESSES_PER_SECTOR >= ADDR_SMALL_LENGTH)
              => AddressSector(i, k) \in tried
    PROVE  inode_findsector(got, i, k) = inode_findsector(Disk, i, k)
<1> DEFINE a == AddressSector(i, k)
<1>1. a \in tried => (a \in DOMAIN got <=> a \in DOMAIN Disk)
  BY SeenFacts
<1>2. a \in DOMAIN got => got[a] = Disk[a]
  BY SeenFacts
<1> HIDE DEF a
<1>3. CASE IsSmall(i) \/ i.i_size > EXTRA_LARGE_FILE \/ k \div ADDRESSES_PER_SECTOR >= ADDR_SMALL_LENGTH
  BY <1>3, Zenon DEF inode_findsector
<1>4. CASE a \in tried
  BY <1>1, <1>2, <1>4, Zenon DEF inode_findsector, a
<1> QED BY <1>3, <1>4 DEF a

LEMMA SameBlock ==
    ASSUME NEW f, IsFile(f), NEW tried, NEW got, got = Seen(tried), BlockNeeds(f, got) \subseteq tried
    PROVE  filev6_readblock(got, f) = filev6_readblock(Disk, f)
<1> DEFINE i    == f.i_node
           off  == f.offset \div SECTOR_SIZE
           sect == inode_findsector(got, i, off)
<1>1. /\ i \in InodeType /\ Allocated(i) /\ i.i_size \in Nat /\ EXTRA_LARGE_FILE \in Nat
      /\ off \in Nat /\ off * SECTOR_SIZE = f.offset
  <2>1. PICK k \in Nat : f.offset = k * SECTOR_SIZE
    BY DEF IsFile
  <2>2. off = k
    BY <2>1, SectorOfStart
  <2> QED BY <2>1, <2>2, SizeIsNat, ExtraLargeIsNat DEF IsFile
<1>2. CASE f.offset >= i.i_size
  BY <1>2, Zenon DEF filev6_readblock
<1>3. CASE ~(f.offset >= i.i_size)
  <2>0. SectorsOnly(got)
    BY VisibleSectors, FuseAssumption DEF Seen
  <2>1. sect \in Int
    <3>1. off * SECTOR_SIZE < i.i_size
      BY <1>1, <1>3, SectorSize
    <3> HIDE DEF i, off
    <3> QED BY <1>1, <2>0, <3>1, FindsSomeSector
  <2>2. off \div ADDRESSES_PER_SECTOR \in Int /\ ADDR_SMALL_LENGTH \in Int
    <3> HIDE DEF off
    <3> QED BY <1>1, LayoutFacts, LayoutAssumption, DivModFacts
  <2>3. (IF /\ ~IsSmall(i) /\ i.i_size <= EXTRA_LARGE_FILE
            /\ off \div ADDRESSES_PER_SECTOR < ADDR_SMALL_LENGTH
         THEN {AddressSector(i, off)} ELSE {}) \cup (IF sect >= 0 THEN {sect} ELSE {}) \subseteq tried
    BY <1>3, Zenon DEF BlockNeeds
  <2>4. ~(sect < 0) => sect \in tried
    <3> HIDE DEF sect
    <3>1. ~(sect < 0) => sect >= 0
      BY <2>1
    <3> QED BY <2>3, <3>1
  <2>5. sect = inode_findsector(Disk, i, off)
    <3>1. ~IsSmall(i) /\ ~(i.i_size > EXTRA_LARGE_FILE) /\ ~(off \div ADDRESSES_PER_SECTOR >= ADDR_SMALL_LENGTH)
              => AddressSector(i, off) \in tried
      <4>1. ~(i.i_size > EXTRA_LARGE_FILE) => i.i_size <= EXTRA_LARGE_FILE
        BY <1>1
      <4>2. ~(off \div ADDRESSES_PER_SECTOR >= ADDR_SMALL_LENGTH) => off \div ADDRESSES_PER_SECTOR < ADDR_SMALL_LENGTH
        BY <2>2
      <4> HIDE DEF i, off, sect
      <4> QED BY <2>3, <4>1, <4>2
    <3> HIDE DEF i, off
    <3> QED BY <3>1, SameSector
  <2>6. ~(sect < 0) => (sect \in DOMAIN got <=> sect \in DOMAIN Disk)
    <3> HIDE DEF sect
    <3> QED BY <2>4, SeenFacts
  <2>7. ~(sect < 0) /\ sect \in DOMAIN got => got[sect] = Disk[sect]
    <3> HIDE DEF sect
    <3> QED BY SeenFacts
  <2> DEFINE result(x) == IF sect < 0 THEN [ret |-> sect, data |-> ZeroSector, fv6 |-> f]
                          ELSE IF sect \notin DOMAIN x THEN [ret |-> ERR_IO, data |-> ZeroSector, fv6 |-> f]
                          ELSE [ret |-> SECTOR_SIZE, data |-> x[sect],
                                fv6 |-> [f EXCEPT !.offset = @ + SECTOR_SIZE]]
  <2>8. filev6_readblock(got, f) = result(got)
    BY <1>3, Zenon DEF filev6_readblock
  <2>9. filev6_readblock(Disk, f) = result(Disk)
    BY <1>3, <2>5, Zenon DEF filev6_readblock
  <2>10. result(got) = result(Disk)
    <3> HIDE DEF sect
    <3> QED BY <2>6, <2>7, Zenon
  <2> QED BY <2>8, <2>9, <2>10
<1> QED BY <1>2, <1>3

LEMMA SameEntry ==
    ASSUME NEW reader, IsDirReader(reader), NEW m \in Nat, Counts(reader, m),
           NEW tried, NEW got, got = Seen(tried), EntryNeeds(reader, got) \subseteq tried
    PROVE  direntv6_readdir(got, reader) = direntv6_readdir(Disk, reader)
<1>1. CASE reader.cur < reader.last
  BY <1>1, Zenon DEF direntv6_readdir
<1>2. CASE ~(reader.cur < reader.last)
  <2>1. IsFile(reader.fv6)
    BY DEF IsFile, IsDirReader, Counts
  <2>2. BlockNeeds(reader.fv6, got) \subseteq tried
    BY <1>2 DEF EntryNeeds
  <2>3. filev6_readblock(got, reader.fv6) = filev6_readblock(Disk, reader.fv6)
    BY <2>1, <2>2, SameBlock
  <2> QED BY <2>3, Zenon DEF direntv6_readdir
<1> QED BY <1>1, <1>2

-----------------------------------------------------------------------------
(* The directories of the disk.                                            *)

LEMMA DiskFacts == IsImage(Disk) /\ SectorsOnly(Disk) /\ Visible(Disk, {}) = Disk
<1>1. IsImage(Disk)
  BY FuseAssumption
<1>2. Visible(Disk, {}) = Disk
  BY <1>1, VisibleFacts
<1>3. SectorsOnly(Visible(Disk, {}))
  BY <1>1, VisibleSectors
<1> QED BY <1>1, <1>2, <1>3

LEMMA LiveNode ==
    ASSUME NEW inr \in Word, Live(inr), NEW i, i = Node(inr)
    PROVE  i \in InodeType /\ Allocated(i) /\ i.i_size \in Nat
<1>1. i \in InodeType /\ Allocated(i)
  BY DiskFacts, ReadsSomeInode DEF Live, Node
<1> QED BY <1>1, SizeIsNat

\* A call on a file of the disk: its end, or the next sector.
LEMMA DiskBlock ==
    ASSUME FilesComplete, NEW inr \in Word, Live(inr), NEW i, i = Node(inr), NEW k \in Nat,
           NEW f, f = [i_number |-> f.i_number, i_node |-> i, offset |-> k * SECTOR_SIZE],
           NEW r, r = filev6_readblock(Disk, f)
    PROVE  \/ r.ret = 0 /\ ~(k * SECTOR_SIZE < i.i_size)
           \/ /\ r.ret = SECTOR_SIZE /\ k * SECTOR_SIZE < i.i_size
              /\ r.data = FileBlock(Disk, i, k) /\ r.data \in Sector
              /\ r.fv6 = [i_number |-> r.fv6.i_number, i_node |-> i,
                          offset |-> (k + 1) * SECTOR_SIZE]
<1>1. i \in InodeType /\ Allocated(i) /\ IsComplete(Disk, i)
  BY LiveNode DEF FilesComplete
<1> QED BY <1>1, DiskFacts, NextBlock

LEMMA NodeIsSound ==
    ASSUME DiskIsSound, NEW inr \in Word, Live(inr), NEW i, i = Node(inr), IsDirectory(i)
    PROVE  SoundDirectory(Disk, i) /\ IsComplete(Disk, i)
  BY LiveNode DEF DiskIsSound, FilesComplete, DirectoriesPadded, SoundDirectory

\* A call on a directory of the disk: its end, or the next entry.
LEMMA DiskEntry ==
    ASSUME DiskIsSound, NEW inr \in Word, Live(inr), NEW i, i = Node(inr), IsDirectory(i),
           NEW reader, Answered(Disk, reader, i), NEW k, k = reader.cur,
           NEW r, r = direntv6_readdir(Disk, reader)
    PROVE  EntryAnswered(Disk, r, i, k)
<1>1. SoundDirectory(Disk, i) /\ IsComplete(Disk, i)
  BY NodeIsSound
<1>2. EntryAnswered(Disk, r, i, k) \/ Failed(Disk, r, i, {})
  BY <1>1, DiskFacts, NextEntry
<1> QED BY <1>1, <1>2 DEF Failed

-----------------------------------------------------------------------------
(* Names.                                                                  *)

\* Behind the '/' that a path begins with, its name is the whole rest.
LEMMA NameMatches ==
    ASSUME NEW path \in Seq(1 .. 255), path # <<>>, NEW name \in Seq(Int)
    PROVE  entry_name_cmpr(name, path, 1, Len(path) - 1) = 1 <=> name = Tail(path)
<1>1. PICK n \in Nat, m \in Nat : n = Len(name) /\ m = Len(path) - 1
  <2>1. Len(path) \in Nat /\ Len(path) # 0 /\ Len(name) \in Nat
    BY EmptySeq
  <2>2. Len(path) - 1 \in Nat
    BY <2>1
  <2> QED BY <2>1, <2>2
<1>2. PICK tail : tail = Tail(path)
  OBVIOUS
<1>3. tail \in Seq(1 .. 255) /\ Len(tail) = m /\ \A p \in 1 .. m : tail[p] = path[p + 1]
  BY <1>1, <1>2, HeadTailProperties
<1>4. PICK differs : differs \in BOOLEAN /\ (differs <=> \E p \in {q \in DOMAIN name : 1 + q <= Len(path)} : path[1 + p] # name[p])
  BY Zenon
<1>5. entry_name_cmpr(name, path, 1, Len(path) - 1) = 1 <=> n <= m /\ ~differs /\ m = n
  <2>1. PICK next : next = CharAt(path, 1 + Cardinality({q \in DOMAIN name : 1 + q <= Len(path)}))
    OBVIOUS
  <2>2. PICK ret : ret = entry_name_cmpr(name, path, 1, Len(path) - 1)
    OBVIOUS
  <2>3. ret = IF n > m \/ differs THEN -1 ELSE IF m = n THEN 1 ELSE IF next = SLASH THEN 0 ELSE -1
    BY <1>1, <1>4, <2>1, <2>2, Zenon DEF entry_name_cmpr
  <2> QED BY <2>2, <2>3
<1>6. ASSUME m = n PROVE ~differs <=> \A p \in 1 .. n : tail[p] = name[p]
  <2>1. DOMAIN name = 1 .. n
    BY <1>1
  <2>2. \A p \in 1 .. n : 1 + p <= Len(path) /\ path[1 + p] = tail[p]
    BY <1>1, <1>3, <1>6
  <2> QED BY <1>4, <2>1, <2>2
<1>7. name = tail <=> m = n /\ \A p \in 1 .. n : tail[p] = name[p]
  <2>1. tail \in Seq(Int)
    <3>1. (1 .. 255) \subseteq Int
      OBVIOUS
    <3> QED BY <1>3, <3>1, Zenon, SeqMonotonic
  <2> QED BY <1>1, <1>3, <2>1, SeqEqual
<1>8. entry_name_cmpr(name, path, 1, Len(path) - 1) = 1 <=> m = n /\ ~differs
  BY <1>1, <1>5
<1> QED BY <1>2, <1>6, <1>7, <1>8, Zenon

\* The inode that a name in the root denotes.
LEMMA NameDenotes ==
    ASSUME NEW path, path # <<SLASH>>, NEW inr
    PROVE  inr \in Denotes(path) <=> \E j \in DOMAIN RootEntries :
               RootEntries[j].d_name = Tail(path) /\ inr = RootEntries[j].d_inumber
  BY Zenon DEF Denotes

LEMMA RootDenotes == Denotes(<<SLASH>>) = {ROOT_INUMBER}
  BY DEF Denotes

-----------------------------------------------------------------------------
(* A step of one thread, and what the others know.                         *)

\* A thread that moves leaves every undisturbed one as it is.
LEMMA OthersKeep ==
    ASSUME IInv, AloneInv, NEW t \in Threads,
           Moves(pc, pc', t), Moves(op, op', t), Moves(io, io', t), Moves(d, d', t),
           Moves(fv6, fv6', t), pc[t] \in {"idle", "done"} => pos' = pos /\ pc'[t] = "idle",
           NEW o \in Threads, o # t
    PROVE  CalmOK(o)'
<1>1. pc'[o] = pc[o] /\ op'[o] = op[o] /\ io'[o] = io[o] /\ d'[o] = d[o] /\ fv6'[o] = fv6[o]
  BY DEF Moves
<1>2. CalmOK(o)
  BY DEF AloneInv
<1>3. ASSUME op[o].alone, pc[o] \notin {"idle", "done"} PROVE Calm(o)'
  <2>1. Calm(o)
    BY <1>2, <1>3, Zenon DEF CalmOK
  <2>2. pc[t] \in {"idle", "done"} /\ \A u \in Threads : u # o => pc[u] \in {"idle", "done"}
    BY <2>1 DEF Calm
  <2>3. pos' = pos /\ pc'[t] = "idle"
    BY <2>2
  <2>4. ASSUME NEW u \in Threads, u # o PROVE pc'[u] \in {"idle", "done"}
    BY <2>2, <2>3, <2>4 DEF Moves
  <2>5. Phase(pc'[o], op'[o], d'[o], fv6'[o])
    <3>1. Phase(pc[o], op[o], d[o], fv6[o])
      BY <2>1 DEF Calm
    <3> QED BY <1>1, <3>1
  <2>6. /\ io'[o].want # -1 => pos' = io'[o].want
        /\ io'[o].got = Seen(io'[o].tried)
        /\ op'[o].path \in Seq(1 .. 255) /\ op'[o].path # <<>> /\ op'[o].size \in Nat \ {0}
    BY <1>1, <2>1, <2>3 DEF Calm
  <2> QED BY <2>4, <2>5, <2>6, Zenon DEF Calm
<1>4. /\ pc'[o] \in {"idle", "done"} => io'[o] = NoIo
      /\ op'[o].alone /\ pc'[o] = "done" => Exact(op'[o])
  BY <1>1, <1>2, Zenon DEF CalmOK
<1>5. op'[o].alone /\ pc'[o] \notin {"idle", "done"} => Calm(o)'
  BY <1>1, <1>3, Zenon
<1> QED BY <1>4, <1>5, Zenon DEF CalmOK

LEMMA NothingSeen == NoIo.got = Seen({}) /\ NoIo.tried = {} /\ NoIo.want = -1
<1>1. Seen({}) = NoSectors
  BY DEF Seen, Visible, NoSectors
<1> QED BY <1>1 DEF NoIo

\* What an undisturbed operation has when its library call returns.
LEMMA AtCalmReturn ==
    ASSUME AloneInv, NEW t \in Threads, NEW call, call \notin {"idle", "done"}, Returns(t, call),
           op[t].alone
    PROVE  /\ \A u \in Threads : u # t => pc[u] \in {"idle", "done"}
           /\ io[t].got = Seen(io[t].tried) /\ Needs(t) \subseteq io[t].tried
           /\ op[t].path \in Seq(1 .. 255) /\ op[t].path # <<>> /\ op[t].size \in Nat \ {0}
           /\ pc[t] = call /\ Phase(call, op[t], d[t], fv6[t])
<1>1. pc[t] = call /\ Needs(t) \subseteq io[t].tried
  BY DEF Returns
<1>2. Calm(t)
  BY <1>1, Zenon DEF AloneInv, CalmOK
<1> QED BY <1>1, <1>2 DEF Calm

\* A library call returns, and another one begins.
LEMMA CallStep ==
    ASSUME IInv, AloneInv, NEW t \in Threads, NEW call, call \notin {"idle", "done"}, Returns(t, call),
           Moves(pc, pc', t), Moves(op, op', t), Moves(d, d', t), Moves(fv6, fv6', t),
           pc'[t] \notin {"idle", "done"},
           op'[t].alone = op[t].alone, op'[t].path = op[t].path, op'[t].size = op[t].size,
           op[t].alone => Phase(pc'[t], op'[t], d'[t], fv6'[t])
    PROVE  AloneInv'
<1>1. Moves(io, io', t) /\ io'[t] = NoIo /\ pc[t] = call
  <2>1. io' = [io EXCEPT ![t] = NoIo] /\ pc[t] = call /\ IsTable(io)
    BY DEF Returns, IInv
  <2> QED BY <2>1, TableMoves
<1>2. ASSUME op[t].alone PROVE Calm(t)'
  <2>1. /\ \A u \in Threads : u # t => pc[u] \in {"idle", "done"}
        /\ op[t].path \in Seq(1 .. 255) /\ op[t].path # <<>> /\ op[t].size \in Nat \ {0}
    BY <1>2, AtCalmReturn
  <2>2. ASSUME NEW u \in Threads, u # t PROVE pc'[u] \in {"idle", "done"}
    BY <2>1, <2>2 DEF Moves
  <2>3. io'[t].want = -1 /\ io'[t].got = Seen(io'[t].tried)
    BY <1>1, NothingSeen
  <2>4. op'[t].path \in Seq(1 .. 255) /\ op'[t].path # <<>> /\ op'[t].size \in Nat \ {0}
    BY <2>1
  <2>5. Phase(pc'[t], op'[t], d'[t], fv6'[t])
    BY <1>2, Zenon
  <2> QED BY <2>2, <2>3, <2>4, <2>5, Zenon DEF Calm
<1>3. CalmOK(t)'
  BY <1>2, Zenon DEF CalmOK
<1>4. ASSUME NEW o \in Threads, o # t PROVE CalmOK(o)'
  BY <1>1, <1>4, OthersKeep
<1> QED BY <1>3, <1>4, Zenon DEF AloneInv

\* A library call returns, and with it the operation ends.
LEMMA AnswerStep ==
    ASSUME IInv, AloneInv, NEW t \in Threads, NEW call, call \notin {"idle", "done"}, Returns(t, call),
           NEW code, NEW out, Answers(t, code, out), Moves(d, d', t), Moves(fv6, fv6', t),
           op[t].alone => \A o : (/\ o.path = op[t].path /\ o.kind = op[t].kind
                                  /\ o.size = op[t].size /\ o.offset = op[t].offset
                                  /\ o.ret = code /\ o.out = out) => Exact(o)
    PROVE  AloneInv'
<1>1. Moves(io, io', t) /\ io'[t] = NoIo /\ pc[t] = call
  <2>1. io' = [io EXCEPT ![t] = NoIo] /\ pc[t] = call /\ IsTable(io)
    BY DEF Returns, IInv
  <2> QED BY <2>1, TableMoves
<1>2. PICK o : o = [op[t] EXCEPT !.ret = code, !.out = out]
  OBVIOUS
<1>3. OpOK(op[t]) /\ IsTable(op) /\ IsTable(pc)
  BY DEF IInv, ThreadOK
<1>4. /\ o.path = op[t].path /\ o.kind = op[t].kind /\ o.size = op[t].size
      /\ o.offset = op[t].offset /\ o.ret = code /\ o.out = out
  BY <1>2, <1>3 DEF OpOK
<1>5. o.alone = op[t].alone
  BY <1>2, <1>3, Zenon DEF OpOK
<1>6. op' = [op EXCEPT ![t] = o]
  BY <1>2, <1>3 DEF Answers, IsTable
<1>7. pc' = [pc EXCEPT ![t] = "done"]
  BY DEF Answers
<1>8. Moves(pc, pc', t) /\ pc'[t] = "done" /\ Moves(op, op', t) /\ op'[t] = o
  <2>1. Moves(pc, pc', t) /\ pc'[t] = "done"
    BY <1>3, <1>7, TableMoves
  <2>2. Moves(op, op', t) /\ op'[t] = o
    BY <1>3, <1>6, TableMoves
  <2> QED BY <2>1, <2>2
<1>9. op[t].alone => Exact(op'[t])
  BY <1>4, <1>8, Zenon
<1>10. CalmOK(t)'
  BY <1>1, <1>5, <1>8, <1>9, Zenon DEF CalmOK
<1>11. ASSUME NEW u \in Threads, u # t PROVE CalmOK(u)'
  BY <1>1, <1>8, <1>11, OthersKeep
<1> QED BY <1>10, <1>11, Zenon DEF AloneInv

-----------------------------------------------------------------------------
(* Operations begin and end, and sectors are read.                         *)

LEMMA ExactIsOfFields ==
    ASSUME NEW o, NEW p, p.path = o.path, p.kind = o.kind, p.size = o.size, p.offset = o.offset,
           p.ret = o.ret, p.out = o.out, Exact(o)
    PROVE  Exact(p)
<1>1. \A inr : RightAnswer(o, inr) => RightAnswer(p, inr)
  BY ZenonT(40) DEF RightAnswer
<1> QED BY <1>1, Zenon DEF Exact

LEMMA CalmBegin == ASSUME IInv, AloneInv, NEW t \in Threads, Begin(t) PROVE AloneInv'
<1> DEFINE others == {o \in Threads \ {t} : pc[o] \notin {"idle", "done"}}
<1>0. PICK c \in Requests :
          /\ pc[t] = "idle"
          /\ pc' = [pc EXCEPT ![t] = IF c.path = <<SLASH>> THEN "fill_inode" ELSE "open_root"]
          /\ op' = [o \in Threads |->
                       IF o = t
                       THEN [NoOp EXCEPT !.kind = c.kind, !.path = c.path, !.size = c.size,
                                         !.offset = c.offset, !.inr = ROOT_INUMBER,
                                         !.alone = others = {}]
                       ELSE [op[o] EXCEPT !.alone = @ /\ o \notin others]]
          /\ UNCHANGED <<pos, io, d, fv6>>
  BY DEF Begin
<1>1. PICK call : call = IF c.path = <<SLASH>> THEN "fill_inode" ELSE "open_root"
  OBVIOUS
<1>2. Moves(pc, pc', t) /\ pc'[t] = call
  <2>1. pc' = [pc EXCEPT ![t] = call] /\ IsTable(pc)
    BY <1>0, <1>1 DEF IInv
  <2> QED BY <2>1, TableMoves
<1>3. call \notin {"idle", "done"} /\ pc[t] = "idle" /\ pos' = pos /\ io' = io /\ d' = d /\ fv6' = fv6
  BY <1>0, <1>1
<1>4. PICK o : /\ o = [NoOp EXCEPT !.kind = c.kind, !.path = c.path, !.size = c.size,
                                   !.offset = c.offset, !.inr = ROOT_INUMBER,
                                   !.alone = others = {}]
               /\ op'[t] = o
  BY <1>0, Zenon
<1>5. o.path = c.path /\ o.size = c.size /\ o.inr = ROOT_INUMBER /\ o.out = <<>>
  <2> HIDE DEF others
  <2> QED BY <1>4 DEF NoOp
<1>6. o.alone = (others = {})
  <2> HIDE DEF others
  <2> QED BY <1>4, Zenon DEF NoOp
<1>7. ASSUME op'[t].alone PROVE Calm(t)'
  <2>1. others = {}
    BY <1>4, <1>6, <1>7, Zenon
  <2>2. ASSUME NEW u \in Threads, u # t PROVE pc'[u] \in {"idle", "done"}
    <3>1. pc[u] \in {"idle", "done"}
      BY <2>1, <2>2
    <3> QED BY <1>2, <2>2, <3>1 DEF Moves
  <2>3. io'[t].want = -1 /\ io'[t].got = Seen(io'[t].tried)
    <3>1. io[t] = NoIo
      BY <1>3 DEF AloneInv, CalmOK
    <3> QED BY <1>3, <3>1, NothingSeen
  <2>4. op'[t].path \in Seq(1 .. 255) /\ op'[t].path # <<>> /\ op'[t].size \in Nat \ {0}
    <3>1. c.path \in Seq(1 .. 255) /\ CharAt(c.path, 0) = SLASH /\ c.size \in Nat \ {0}
      BY FuseAssumption
    <3>2. c.path # <<>>
      BY <3>1 DEF CharAt, SLASH
    <3> QED BY <1>4, <1>5, <3>1, <3>2
  <2>5. Phase(pc'[t], op'[t], d'[t], fv6'[t])
    <3>1. CASE c.path = <<SLASH>>
      <4>1. call = "fill_inode" /\ ROOT_INUMBER \in Denotes(c.path)
        BY <1>1, <3>1, RootDenotes
      <4> QED BY <1>2, <1>4, <1>5, <4>1 DEF Phase
    <3>2. CASE c.path # <<SLASH>>
      <4>1. call = "open_root"
        BY <1>1, <3>2
      <4> QED BY <1>2, <1>4, <1>5, <3>2, <4>1 DEF Phase
    <3> QED BY <3>1, <3>2
  <2> QED BY <2>2, <2>3, <2>4, <2>5, Zenon DEF Calm
<1>8. CalmOK(t)'
  <2>1. pc'[t] \notin {"idle", "done"}
    BY <1>2, <1>3
  <2> QED BY <1>7, <2>1, Zenon DEF CalmOK
<1>9. ASSUME NEW u \in Threads, u # t PROVE CalmOK(u)'
  <2>1. pc'[u] = pc[u] /\ io'[u] = io[u] /\ CalmOK(u)
    BY <1>2, <1>3, <1>9 DEF Moves, AloneInv
  <2>2. op'[u] = [op[u] EXCEPT !.alone = @ /\ u \notin others]
    BY <1>0, <1>9, Zenon
  <2>3. OpOK(op[u])
    BY DEF IInv, ThreadOK
  <2>4. op'[u].alone <=> op[u].alone /\ u \notin others
    BY <2>2, <2>3, Zenon DEF OpOK
  <2>5. /\ op'[u].path = op[u].path /\ op'[u].kind = op[u].kind /\ op'[u].size = op[u].size
        /\ op'[u].offset = op[u].offset /\ op'[u].ret = op[u].ret /\ op'[u].out = op[u].out
    <3>1. PICK a : op'[u] = [op[u] EXCEPT !.alone = a]
      BY <2>2, Zenon
    <3> QED BY <2>3, <3>1 DEF OpOK
  <2>6. op'[u].alone => pc[u] \in {"idle", "done"}
    BY <1>9, <2>4, Zenon
  <2>7. op'[u].alone /\ pc[u] = "done" => Exact(op'[u])
    <3>1. op'[u].alone /\ pc[u] = "done" => Exact(op[u])
      BY <2>1, <2>4, Zenon DEF CalmOK
    <3> QED BY <2>5, <3>1, Zenon, ExactIsOfFields
  <2>8. pc[u] \in {"idle", "done"} => io[u] = NoIo
    BY <2>1, Zenon DEF CalmOK
  <2> QED BY <2>1, <2>6, <2>7, <2>8, Zenon DEF CalmOK
<1> QED BY <1>8, <1>9, Zenon DEF AloneInv

LEMMA SeenMore ==
    ASSUME NEW tried, NEW n
    PROVE  /\ n \in DOMAIN Disk => Gets(Seen(tried), n, Disk[n]) = Seen(tried \cup {n})
           /\ n \notin DOMAIN Disk => Seen(tried) = Seen(tried \cup {n})
<1>1. \A T : Seen(T) = [k \in DOMAIN Disk \cap T |-> Disk[k]]
  <2> SUFFICES ASSUME NEW T PROVE Seen(T) = [k \in DOMAIN Disk \cap T |-> Disk[k]]
    OBVIOUS
  <2>1. DOMAIN Disk \ (DOMAIN Disk \ T) = DOMAIN Disk \cap T
    OBVIOUS
  <2> QED BY <2>1, Zenon DEF Seen, Visible
<1>2. ASSUME n \in DOMAIN Disk PROVE Gets(Seen(tried), n, Disk[n]) = Seen(tried \cup {n})
  <2>1. PICK s : s = Seen(tried)
    OBVIOUS
  <2>2. DOMAIN s = DOMAIN Disk \cap tried /\ \A k \in DOMAIN s : s[k] = Disk[k]
    BY <1>1, <2>1
  <2>3. {n} \cup DOMAIN s = DOMAIN Disk \cap (tried \cup {n})
    BY <1>2, <2>2
  <2>4. \A k \in {n} \cup DOMAIN s : (IF k = n THEN Disk[n] ELSE s[k]) = Disk[k]
    BY <2>2
  <2>5. Gets(s, n, Disk[n]) = [k \in DOMAIN Disk \cap (tried \cup {n}) |-> Disk[k]]
    BY <2>3, <2>4, Zenon DEF Gets
  <2> QED BY <1>1, <2>1, <2>5
<1>3. ASSUME n \notin DOMAIN Disk PROVE Seen(tried) = Seen(tried \cup {n})
  <2>1. DOMAIN Disk \cap tried = DOMAIN Disk \cap (tried \cup {n})
    BY <1>3
  <2> QED BY <1>1, <2>1
<1> QED BY <1>2, <1>3

\* A step inside a library call: the sectors seen change, and nothing else does.
LEMMA ReadStep ==
    ASSUME IInv, AloneInv, NEW t \in Threads, pc[t] \notin {"idle", "done"}, Moves(io, io', t),
           UNCHANGED <<pc, op, d, fv6>>,
           op[t].alone => /\ io'[t].want # -1 => pos' = io'[t].want
                          /\ io'[t].got = Seen(io'[t].tried)
    PROVE  AloneInv'
<1>1. IsTable(pc) /\ IsTable(op) /\ IsTable(d) /\ IsTable(fv6)
  BY DEF IInv
<1>2. Moves(pc, pc', t) /\ Moves(op, op', t) /\ Moves(d, d', t) /\ Moves(fv6, fv6', t)
  <2>1. Moves(pc, pc', t)
    BY <1>1, TableStays
  <2>2. Moves(op, op', t)
    BY <1>1, TableStays
  <2>3. Moves(d, d', t)
    BY <1>1, TableStays
  <2>4. Moves(fv6, fv6', t)
    BY <1>1, TableStays
  <2> QED BY <2>1, <2>2, <2>3, <2>4
<1>3. ASSUME op[t].alone PROVE Calm(t)'
  <2>1. Calm(t)
    BY <1>3, Zenon DEF AloneInv, CalmOK
  <2>2. (io'[t].want # -1 => pos' = io'[t].want) /\ io'[t].got = Seen(io'[t].tried)
    BY <1>3, Zenon
  <2> QED BY <2>1, <2>2 DEF Calm
<1>4. CalmOK(t)'
  BY <1>3, Zenon DEF CalmOK
<1>5. ASSUME NEW o \in Threads, o # t PROVE CalmOK(o)'
  BY <1>2, <1>5, OthersKeep
<1> QED BY <1>4, <1>5, Zenon DEF AloneInv

LEMMA CalmSeek == ASSUME IInv, AloneInv, NEW t \in Threads, Seek(t) PROVE AloneInv'
<1>1. PICK n : /\ pc[t] \notin {"idle", "done"} /\ io[t].want = -1
               /\ pos' = n /\ io' = [io EXCEPT ![t].want = n]
               /\ UNCHANGED <<pc, op, d, fv6>>
  BY DEF Seek
<1>2. PICK i : i = [io[t] EXCEPT !.want = n]
  OBVIOUS
<1>3. IsTable(io) /\ io' = [io EXCEPT ![t] = i]
  BY <1>1, <1>2 DEF IInv, IsTable
<1>4. Moves(io, io', t) /\ io'[t] = i
  BY <1>3, TableMoves
<1>5. i.want \in {n, -1} /\ i.got = io[t].got /\ i.tried = io[t].tried
  BY <1>1, <1>2
<1>6. ASSUME op[t].alone PROVE i.got = Seen(i.tried)
  <2>1. Calm(t)
    BY <1>1, <1>6, Zenon DEF AloneInv, CalmOK
  <2> QED BY <1>5, <2>1 DEF Calm
<1>7. i.want # -1 => pos' = i.want
  BY <1>1, <1>5
<1>8. op[t].alone => (io'[t].want # -1 => pos' = io'[t].want) /\ io'[t].got = Seen(io'[t].tried)
  BY <1>4, <1>6, <1>7, Zenon
<1> QED BY <1>1, <1>4, <1>8, ReadStep

LEMMA CalmFread == ASSUME IInv, AloneInv, NEW t \in Threads, Fread(t) PROVE AloneInv'
<1>1. PICK i, n :
          /\ n = io[t].want /\ n # -1
          /\ \/ /\ pos \in DOMAIN Disk
                /\ i = [tried |-> io[t].tried \cup {n}, want |-> -1,
                        got |-> Gets(io[t].got, n, Disk[pos])]
             \/ /\ pos \notin DOMAIN Disk
                /\ i = [tried |-> io[t].tried \cup {n}, want |-> -1, got |-> io[t].got]
          /\ io' = [io EXCEPT ![t] = i]
          /\ UNCHANGED <<pc, op, d, fv6>>
  BY Zenon DEF Fread
<1>2. Moves(io, io', t) /\ io'[t] = i
  <2>1. IsTable(io)
    BY DEF IInv
  <2> QED BY <1>1, <2>1, TableMoves
<1>3. pc[t] \notin {"idle", "done"}
  <2>1. pc[t] \in {"idle", "done"} => io[t] = NoIo
    BY DEF AloneInv, CalmOK
  <2> QED BY <1>1, <2>1, NothingSeen
<1>4. ASSUME op[t].alone PROVE i.want = -1 /\ i.got = Seen(i.tried)
  <2>1. Calm(t)
    BY <1>3, <1>4, Zenon DEF AloneInv, CalmOK
  <2>2. pos = n /\ io[t].got = Seen(io[t].tried)
    BY <1>1, <2>1 DEF Calm
  <2>3. i.want = -1 /\ i.tried = io[t].tried \cup {n}
        /\ i.got = IF n \in DOMAIN Disk THEN Gets(Seen(io[t].tried), n, Disk[n]) ELSE Seen(io[t].tried)
    BY <1>1, <2>2
  <2>4. PICK tried : tried = io[t].tried
    OBVIOUS
  <2>5. i.got = Seen(tried \cup {n})
    BY <2>3, <2>4, SeenMore, Zenon
  <2> QED BY <2>3, <2>4, <2>5
<1>5. op[t].alone => /\ io'[t].want # -1 => pos' = io'[t].want
                     /\ io'[t].got = Seen(io'[t].tried)
  BY <1>2, <1>4, Zenon
<1> QED BY <1>1, <1>2, <1>3, <1>5, ReadStep

LEMMA CalmFinish == ASSUME IInv, AloneInv, NEW t \in Threads, Finish(t) PROVE AloneInv'
<1>1. /\ pc[t] = "done" /\ pos' = pos /\ io' = io
      /\ pc' = [pc EXCEPT ![t] = "idle"] /\ op' = [op EXCEPT ![t] = NoOp]
      /\ d' = [d EXCEPT ![t] = NoReader] /\ fv6' = [fv6 EXCEPT ![t] = NoFile]
  BY DEF Finish
<1>2. IsTable(pc) /\ IsTable(op) /\ IsTable(d) /\ IsTable(fv6) /\ IsTable(io)
  BY DEF IInv
<1>3. /\ Moves(pc, pc', t) /\ pc'[t] = "idle" /\ Moves(op, op', t)
      /\ Moves(d, d', t) /\ Moves(fv6, fv6', t) /\ Moves(io, io', t)
  <2>1. Moves(pc, pc', t) /\ pc'[t] = "idle"
    BY <1>1, <1>2, TableMoves
  <2>2. Moves(op, op', t)
    BY <1>1, <1>2, TableMoves
  <2>3. Moves(d, d', t)
    BY <1>1, <1>2, TableMoves
  <2>4. Moves(fv6, fv6', t)
    BY <1>1, <1>2, TableMoves
  <2>5. Moves(io, io', t)
    BY <1>1, <1>2, TableStays
  <2> QED BY <2>1, <2>2, <2>3, <2>4, <2>5
<1>4. CalmOK(t)'
  <2>1. io'[t] = NoIo
    BY <1>1 DEF AloneInv, CalmOK
  <2> QED BY <1>3, <2>1, Zenon DEF CalmOK
<1>5. ASSUME NEW o \in Threads, o # t PROVE CalmOK(o)'
  BY <1>1, <1>3, <1>5, OthersKeep
<1> QED BY <1>4, <1>5, Zenon DEF AloneInv

-----------------------------------------------------------------------------
(* Directories are opened, searched and listed.                            *)

\* A directory of the disk opens with nothing answered yet, and nothing else opens.
LEMMA OpensDirectory ==
    ASSUME NEW inr \in Word, Live(inr), NEW i, i = Node(inr),
           NEW r, r = direntv6_opendir(Disk, Super, inr)
    PROVE  /\ IsDirectory(i) => r.ret = 0 /\ r.d.cur = 0 /\ Answered(Disk, r.d, i)
           /\ ~IsDirectory(i) => r.ret = ERR_INVALID_DIRECTORY_INODE
<1>1. PICK open : open = filev6_open(Disk, Super, inr, NoFile)
  OBVIOUS
<1>2. open.ret = 0 /\ open.fv6.i_node = i /\ open.fv6.offset = 0
  BY <1>1 DEF filev6_open, Live, Node
<1>3. r = [ret |-> IF open.ret # 0 THEN open.ret
                   ELSE IF ~IsDirectory(open.fv6.i_node) THEN ERR_INVALID_DIRECTORY_INODE ELSE 0,
           d |-> [fv6 |-> open.fv6, dirs |-> ZeroSector, cur |-> 0, last |-> 0]]
  BY <1>1, Zenon DEF direntv6_opendir
<1>4. r.ret = IF ~IsDirectory(i) THEN ERR_INVALID_DIRECTORY_INODE ELSE 0
  BY <1>2, <1>3
<1>5. r.d.fv6.i_node = i /\ r.d.fv6.offset = 0 /\ r.d.cur = 0
  BY <1>2, <1>3
<1>6. r.ret = 0 => Reader(Disk, r.d)
  BY DiskFacts, OpendirReads
<1>7. 0 < i.i_size + SECTOR_SIZE /\ 0 <= EntryCount(i)
  BY LiveNode, EntryCountIsNat, SectorSize
<1>8. r.ret = 0 => Answered(Disk, r.d, i)
  BY <1>5, <1>6, <1>7 DEF Answered
<1> QED BY <1>4, <1>5, <1>8

LEMMA RootIsSound ==
    ASSUME DiskIsSound
    PROVE  /\ ROOT_INUMBER \in Word /\ Live(ROOT_INUMBER) /\ IsDirectory(Node(ROOT_INUMBER))
           /\ SoundDirectory(Disk, Node(ROOT_INUMBER)) /\ Node(ROOT_INUMBER).i_size \in Nat
           /\ RootEntries = EntriesOf(Disk, Node(ROOT_INUMBER))
<1>1. ROOT_INUMBER \in Word /\ Live(ROOT_INUMBER) /\ IsDirectory(Node(ROOT_INUMBER))
  BY RootIsWord DEF DiskIsSound, RootIsDirectory
<1>2. SoundDirectory(Disk, Node(ROOT_INUMBER)) /\ Node(ROOT_INUMBER).i_size \in Nat
  BY <1>1, LiveNode, NodeIsSound
<1> QED BY <1>1, <1>2 DEF RootEntries, Node

\* A search that ends has compared all names in the root.
LEMMA NotFound ==
    ASSUME DiskIsSound, NEW path, path # <<SLASH>>, NEW i, i = Node(ROOT_INUMBER),
           NEW reader, Answered(Disk, reader, i), NEW m, m = reader.cur,
           m = EntryCount(i) \/ Slot(Disk, i, m).d_inumber = 0,
           \A k \in 0 .. m - 1 : Slot(Disk, i, k).d_name # Tail(path)
    PROVE  Denotes(path) = {}
<1>1. m \in Nat /\ RootEntries = [k \in 1 .. m |-> Slot(Disk, i, k - 1)]
  BY RootIsSound, ListedAll
<1>2. ASSUME NEW j \in DOMAIN RootEntries PROVE RootEntries[j].d_name # Tail(path)
  <2>1. j \in 1 .. m /\ RootEntries[j] = Slot(Disk, i, j - 1)
    BY <1>1
  <2>2. j - 1 \in 0 .. m - 1
    BY <1>1, <2>1
  <2> QED BY <2>1, <2>2
<1> QED BY <1>2, NameDenotes, Zenon

\* A name that is found is the path's.
LEMMA Found ==
    ASSUME DiskIsSound, NEW path, path # <<SLASH>>, NEW i, i = Node(ROOT_INUMBER),
           NEW reader, Answered(Disk, reader, i), NEW k, k + 1 = reader.cur, k \in Nat, k < EntryCount(i),
           Slot(Disk, i, k).d_name = Tail(path)
    PROVE  Slot(Disk, i, k).d_inumber \in Denotes(path)
<1>1. \A j \in 0 .. k : Slot(Disk, i, j).d_inumber # 0
  <2>1. k = reader.cur - 1
    BY DEF Answered
  <2> QED BY <2>1 DEF Answered
<1>2. k + 1 \in DOMAIN RootEntries /\ RootEntries[k + 1] = Slot(Disk, i, k)
  BY <1>1, RootIsSound, EntryIsListed
<1> QED BY <1>2, NameDenotes

LEMMA CalmOpendir ==
    ASSUME DiskIsSound, IInv, AloneInv, NEW t \in Threads, Opendir(t) PROVE AloneInv'
<1>0. PICK call \in {"open_root", "opendir"} :
          /\ Returns(t, call)
          /\ \E r \in {direntv6_opendir(io[t].got, Super, op[t].inr)} :
                \/ r.ret # 0 /\ Answers(t, r.ret, <<>>) /\ UNCHANGED d
                \/ /\ r.ret = 0
                   /\ d' = [d EXCEPT ![t] = r.d]
                   /\ Proceeds(t, IF call = "opendir" THEN "list" ELSE "lookup")
                   /\ UNCHANGED op
          /\ UNCHANGED fv6
  BY Zenon DEF Opendir
<1>1. PICK r, next :
          /\ Returns(t, call)
          /\ r = direntv6_opendir(io[t].got, Super, op[t].inr)
          /\ next = IF call = "opendir" THEN "list" ELSE "lookup"
          /\ \/ r.ret # 0 /\ Answers(t, r.ret, <<>>) /\ UNCHANGED d
             \/ /\ r.ret = 0
                /\ d' = [d EXCEPT ![t] = r.d]
                /\ Proceeds(t, next)
                /\ UNCHANGED op
          /\ UNCHANGED fv6
  BY <1>0, Zenon
<1>2. /\ op[t].inr \in Word /\ IsTable(pc) /\ IsTable(op) /\ IsTable(d) /\ IsTable(fv6)
      /\ call \notin {"idle", "done"}
  BY <1>1, AtReturn
<1>3. Moves(fv6, fv6', t)
  BY <1>1, <1>2, TableStays
<1>4. PICK o, i : o = op[t] /\ i = Node(o.inr)
  OBVIOUS
\* Undisturbed, the call has opened an inode of the disk.
<1>5. ASSUME op[t].alone
      PROVE  /\ Phase(call, o, d[t], fv6[t]) /\ Live(o.inr)
             /\ IsDirectory(i) => r.ret = 0 /\ r.d.cur = 0 /\ Answered(Disk, r.d, i)
             /\ ~IsDirectory(i) => r.ret = ERR_INVALID_DIRECTORY_INODE
             /\ call = "open_root" => IsDirectory(i)
  <2>1. /\ io[t].got = Seen(io[t].tried) /\ Needs(t) \subseteq io[t].tried
        /\ pc[t] = call /\ Phase(call, o, d[t], fv6[t])
    BY <1>1, <1>2, <1>4, <1>5, AtCalmReturn
  <2>2. InodeNeeds(o.inr) \subseteq io[t].tried
    BY <1>4, <2>1 DEF Needs
  <2>3. r = direntv6_opendir(Disk, Super, o.inr)
    BY <1>1, <1>4, <2>1, <2>2, SameInode
  <2>4. Live(o.inr) /\ (call = "open_root" => IsDirectory(i))
    <3>1. \/ call = "open_root" /\ o.inr = ROOT_INUMBER
          \/ call = "opendir" /\ Live(o.inr)
      BY <2>1 DEF Phase
    <3> QED BY <1>4, <3>1, RootIsSound
  <2>5. /\ IsDirectory(i) => r.ret = 0 /\ r.d.cur = 0 /\ Answered(Disk, r.d, i)
        /\ ~IsDirectory(i) => r.ret = ERR_INVALID_DIRECTORY_INODE
    BY <1>2, <1>4, <2>3, <2>4, OpensDirectory
  <2> QED BY <2>1, <2>4, <2>5
<1>6. CASE r.ret # 0 /\ Answers(t, r.ret, <<>>) /\ UNCHANGED d
  <2>1. Moves(d, d', t)
    BY <1>2, <1>6, TableStays
  <2>2. ASSUME op[t].alone,
               NEW a, a.path = o.path, a.kind = o.kind, a.size = o.size, a.offset = o.offset,
               a.ret = r.ret, a.out = <<>>
        PROVE  Exact(a)
    <3>1. call = "opendir" /\ ~IsDirectory(i) /\ a.ret = ERR_INVALID_DIRECTORY_INODE
      BY <1>5, <1>6, <2>2
    <3>2. o.inr \in Denotes(o.path) /\ o.kind = "readdir" /\ Live(o.inr)
      BY <1>5, <2>2, <3>1 DEF Phase
    <3>3. RightAnswer(a, o.inr)
      BY <1>4, <2>2, <3>1, <3>2, Zenon DEF RightAnswer, Live, Node
    <3> QED BY <2>2, <3>2, <3>3 DEF Exact
  <2>3. op[t].alone => \A a : (/\ a.path = op[t].path /\ a.kind = op[t].kind
                               /\ a.size = op[t].size /\ a.offset = op[t].offset
                               /\ a.ret = r.ret /\ a.out = <<>>) => Exact(a)
    BY <1>4, <2>2, Zenon
  <2> QED BY <1>1, <1>2, <1>3, <1>6, <2>1, <2>3, AnswerStep
<1>7. CASE /\ r.ret = 0 /\ d' = [d EXCEPT ![t] = r.d] /\ Proceeds(t, next) /\ UNCHANGED op
  <2>1. Moves(pc, pc', t) /\ pc'[t] = next
    BY <1>2, <1>7, TableMoves DEF Proceeds
  <2>2. Moves(d, d', t) /\ d'[t] = r.d
    BY <1>2, <1>7, TableMoves
  <2>3. Moves(op, op', t) /\ op' = op
    BY <1>2, <1>7, TableStays
  <2>4. next \in {"list", "lookup"} /\ (next = "list" <=> call = "opendir")
    BY <1>1
  <2>5. ASSUME op[t].alone PROVE Phase(next, o, r.d, fv6'[t])
    <3>1. IsDirectory(i) /\ r.d.cur = 0 /\ Answered(Disk, r.d, i) /\ Live(o.inr)
          /\ Phase(call, o, d[t], fv6[t])
      BY <1>5, <1>7, <2>5 DEF ERR_INVALID_DIRECTORY_INODE
    <3>2. CASE next = "list"
      <4>1. /\ o.out = <<>> /\ o.inr \in Denotes(o.path) /\ o.kind = "readdir"
        BY <2>4, <3>1, <3>2 DEF Phase
      <4>2. o.out = [k \in 1 .. r.d.cur |-> Slot(Disk, i, k - 1).d_name]
        BY <3>1, <4>1
      <4> QED BY <1>4, <3>1, <3>2, <4>1, <4>2 DEF Phase
    <3>3. CASE next = "lookup"
      <4>1. call = "open_root"
        BY <1>2, <2>4, <3>3
      <4>2. o.path # <<SLASH>> /\ o.inr = ROOT_INUMBER /\ o.out = <<>>
        BY <3>1, <4>1 DEF Phase
      <4>3. \A k \in 0 .. r.d.cur - 1 : FALSE
        BY <3>1
      <4> QED BY <1>4, <3>1, <3>3, <4>2, <4>3 DEF Phase
    <3> QED BY <2>4, <3>2, <3>3
  <2>6. op[t].alone => Phase(pc'[t], op'[t], d'[t], fv6'[t])
    BY <1>4, <2>1, <2>2, <2>3, <2>5, Zenon
  <2>7. pc'[t] \notin {"idle", "done"}
    BY <2>1, <2>4
  <2> QED BY <1>1, <1>2, <1>3, <2>1, <2>2, <2>3, <2>6, <2>7, CallStep
<1> QED BY <1>1, <1>6, <1>7

LEMMA CalmLookup ==
    ASSUME DiskIsSound, IInv, AloneInv, NEW t \in Threads, Lookup(t) PROVE AloneInv'
<1>1. PICK r, found :
          /\ Returns(t, "lookup")
          /\ r = direntv6_readdir(io[t].got, d[t])
          /\ found = entry_name_cmpr(r.name, op[t].path, 1, Len(op[t].path) - 1)
          /\ d' = [d EXCEPT ![t] = r.d]
          /\ \/ SearchEnds(r.ret) /\ Answers(t, ERR_INODE_OUTOF_RANGE, <<>>)
             \/ /\ ~SearchEnds(r.ret) /\ found = 1
                /\ op' = [op EXCEPT ![t].inr = r.child]
                /\ Proceeds(t, "fill_inode")
             \/ ~SearchEnds(r.ret) /\ found # 1 /\ UNCHANGED <<pc, op>>
          /\ UNCHANGED fv6
  BY Zenon DEF Lookup
<1>2. /\ OpOK(op[t]) /\ IsTable(pc) /\ IsTable(op) /\ IsTable(d) /\ IsTable(fv6)
      /\ pc[t] = "lookup" /\ IsDirReader(d[t])
  BY <1>1, AtReturn
<1>3. Moves(fv6, fv6', t)
  BY <1>1, <1>2, TableStays
<1>4. Moves(d, d', t) /\ d'[t] = r.d
  BY <1>1, <1>2, TableMoves
<1>5. PICK o, i, k : o = op[t] /\ i = Node(ROOT_INUMBER) /\ k = d[t].cur
  OBVIOUS
<1>6. ASSUME op[t].alone
      PROVE  /\ o.path # <<SLASH>> /\ o.inr = ROOT_INUMBER /\ o.out = <<>>
             /\ o.path \in Seq(1 .. 255) /\ o.path # <<>>
             /\ Answered(Disk, d[t], i) /\ \A j \in 0 .. k - 1 : Slot(Disk, i, j).d_name # Tail(o.path)
             /\ EntryAnswered(Disk, r, i, k)
  <2>1. /\ io[t].got = Seen(io[t].tried) /\ Needs(t) \subseteq io[t].tried
        /\ o.path \in Seq(1 .. 255) /\ o.path # <<>> /\ Phase("lookup", o, d[t], fv6[t])
    BY <1>1, <1>5, <1>6, AtCalmReturn
  <2>2. EntryNeeds(d[t], io[t].got) \subseteq io[t].tried
    BY <1>2, <2>1 DEF Needs
  <2>3. r = direntv6_readdir(Disk, d[t])
    <3>1. PICK m \in Nat : Counts(d[t], m)
      BY <1>1, AtReturn
    <3> QED BY <1>1, <1>2, <2>1, <2>2, <3>1, SameEntry
  <2>4. /\ o.path # <<SLASH>> /\ o.inr = ROOT_INUMBER /\ o.out = <<>> /\ Answered(Disk, d[t], i)
        /\ \A j \in 0 .. k - 1 : Slot(Disk, i, j).d_name # Tail(o.path)
    BY <1>5, <2>1 DEF Phase
  <2>5. EntryAnswered(Disk, r, i, k)
    BY <1>5, <2>3, <2>4, RootIsSound, DiskEntry
  <2> QED BY <2>1, <2>4, <2>5
\* A name that is answered is compared with the path.
<1>7. ASSUME op[t].alone, r.ret = 1
      PROVE  /\ k \in Nat /\ k < EntryCount(i) /\ r.d.cur = k + 1 /\ Answered(Disk, r.d, i)
             /\ r.child = Slot(Disk, i, k).d_inumber
             /\ found = 1 <=> Slot(Disk, i, k).d_name = Tail(o.path)
  <2>1. /\ k < EntryCount(i) /\ r.name = Slot(Disk, i, k).d_name /\ r.child = Slot(Disk, i, k).d_inumber
        /\ r.d.cur = k + 1 /\ Answered(Disk, r.d, i)
    BY <1>6, <1>7 DEF EntryAnswered, ERR_UNALLOCATED_INODE
  <2>2. k \in Nat
    <3>1. PICK m \in Nat : Counts(d[t], m)
      BY <1>1, AtReturn
    <3>2. k \in 0 .. d[t].last /\ d[t].last \in Nat
      BY <1>5, <3>1, CountersAgree
    <3> QED BY <3>2
  <2>3. r.name \in Seq(Int)
    BY <1>6, <1>7 DEF EntryAnswered, ERR_UNALLOCATED_INODE
  <2>4. found = 1 <=> r.name = Tail(o.path)
    BY <1>1, <1>5, <1>6, <1>7, <2>3, NameMatches
  <2> QED BY <2>1, <2>2, <2>4
<1>8. CASE SearchEnds(r.ret) /\ Answers(t, ERR_INODE_OUTOF_RANGE, <<>>)
  <2>1. ASSUME op[t].alone, NEW a, a.path = o.path, a.ret = ERR_INODE_OUTOF_RANGE
        PROVE  Exact(a)
    <3>1. k = EntryCount(i) \/ Slot(Disk, i, k).d_inumber = 0
      BY <1>6, <1>8, <2>1 DEF EntryAnswered, SearchEnds
    <3>2. Denotes(o.path) = {}
      <4>1. PICK path, reader : path = o.path /\ reader = d[t]
        OBVIOUS
      <4>2. /\ path # <<SLASH>> /\ i = Node(ROOT_INUMBER) /\ Answered(Disk, reader, i) /\ k = reader.cur
            /\ k = EntryCount(i) \/ Slot(Disk, i, k).d_inumber = 0
            /\ \A j \in 0 .. k - 1 : Slot(Disk, i, j).d_name # Tail(path)
        BY <1>5, <1>6, <2>1, <3>1, <4>1
      <4>3. Denotes(path) = {}
        BY ONLY <4>2, NotFound, DiskIsSound
      <4> QED BY <4>1, <4>3
    <3>3. a.ret < 0
      BY <2>1 DEF ERR_INODE_OUTOF_RANGE
    <3> QED BY <2>1, <3>2, <3>3 DEF Exact
  <2>2. op[t].alone => \A a : (/\ a.path = op[t].path /\ a.kind = op[t].kind
                               /\ a.size = op[t].size /\ a.offset = op[t].offset
                               /\ a.ret = ERR_INODE_OUTOF_RANGE /\ a.out = <<>>) => Exact(a)
    BY <1>5, <2>1, Zenon
  <2> QED BY <1>1, <1>3, <1>4, <1>8, <2>2, AnswerStep
<1>9. CASE /\ ~SearchEnds(r.ret) /\ found = 1
           /\ op' = [op EXCEPT ![t].inr = r.child]
           /\ Proceeds(t, "fill_inode")
  <2>1. PICK p : p = [o EXCEPT !.inr = r.child]
    OBVIOUS
  <2>2. op' = [op EXCEPT ![t] = p]
    BY <1>2, <1>5, <1>9, <2>1 DEF IsTable
  <2>3. p.path = o.path /\ p.size = o.size /\ p.out = o.out /\ p.inr = r.child
    BY <1>2, <1>5, <2>1 DEF OpOK
  <2>4. p.alone = o.alone
    BY <1>2, <1>5, <2>1, Zenon DEF OpOK
  <2>5. Moves(op, op', t) /\ op'[t] = p
    BY <1>2, <2>2, TableMoves
  <2>6. Moves(pc, pc', t) /\ pc'[t] = "fill_inode"
    BY <1>2, <1>9, TableMoves DEF Proceeds
  <2>7. ASSUME op[t].alone PROVE Phase("fill_inode", p, r.d, fv6'[t])
    <3>1. r.ret = 1
      BY <1>9 DEF SearchEnds
    <3>2. /\ k \in Nat /\ k < EntryCount(i) /\ r.d.cur = k + 1 /\ Answered(Disk, r.d, i)
          /\ r.child = Slot(Disk, i, k).d_inumber /\ Slot(Disk, i, k).d_name = Tail(o.path)
      BY <1>7, <1>9, <2>7, <3>1
    <3>3. o.path # <<SLASH>> /\ o.out = <<>>
      BY <1>6, <2>7
    <3>4. r.child \in Denotes(o.path)
      BY <1>5, <3>2, <3>3, Found
    <3> QED BY <2>3, <3>3, <3>4 DEF Phase
  <2>8. op[t].alone => Phase(pc'[t], op'[t], d'[t], fv6'[t])
    BY <1>4, <2>5, <2>6, <2>7, Zenon
  <2> QED BY <1>1, <1>3, <1>4, <1>5, <2>3, <2>4, <2>5, <2>6, <2>8, CallStep
<1>10. CASE ~SearchEnds(r.ret) /\ found # 1 /\ UNCHANGED <<pc, op>>
  <2>1. Moves(op, op', t) /\ op' = op
    BY <1>2, <1>10, TableStays
  <2>2. Moves(pc, pc', t) /\ pc'[t] = "lookup"
    BY <1>2, <1>10, TableStays
  <2>3. ASSUME op[t].alone PROVE Phase("lookup", o, r.d, fv6'[t])
    <3>1. r.ret = 1
      BY <1>10 DEF SearchEnds
    <3>2. /\ k \in Nat /\ r.d.cur = k + 1 /\ Answered(Disk, r.d, i) /\ Slot(Disk, i, k).d_name # Tail(o.path)
      BY <1>7, <1>10, <2>3, <3>1
    <3>3. ASSUME NEW j \in 0 .. r.d.cur - 1 PROVE Slot(Disk, i, j).d_name # Tail(o.path)
      <4>1. j = k \/ j \in 0 .. k - 1
        BY <3>2
      <4> QED BY <1>6, <2>3, <3>2, <4>1
    <3>4. o.path # <<SLASH>> /\ o.inr = ROOT_INUMBER /\ o.out = <<>>
      BY <1>6, <2>3
    <3> QED BY <1>5, <3>2, <3>3, <3>4 DEF Phase
  <2>4. op[t].alone => Phase(pc'[t], op'[t], d'[t], fv6'[t])
    BY <1>4, <1>5, <2>1, <2>2, <2>3, Zenon
  <2> QED BY <1>1, <1>3, <1>4, <2>1, <2>2, <2>4, CallStep
<1> QED BY <1>1, <1>8, <1>9, <1>10

LEMMA CalmFillInode == ASSUME IInv, AloneInv, NEW t \in Threads, FillInode(t) PROVE AloneInv'
<1>1. PICK code, node, next :
          /\ Returns(t, "fill_inode")
          /\ code = inode_read(io[t].got, Super, op[t].inr)
          /\ node = InodeNo(io[t].got, Super, op[t].inr)
          /\ next = IF op[t].kind = "readdir" THEN "opendir" ELSE "open"
          /\ \/ code # 0 /\ Answers(t, code, <<>>)
             \/ code = 0 /\ op[t].kind = "getattr" /\ Answers(t, 0, <<node>>)
             \/ code = 0 /\ op[t].kind # "getattr" /\ Proceeds(t, next) /\ UNCHANGED op
          /\ UNCHANGED <<d, fv6>>
  BY Zenon DEF FillInode
<1>2. /\ SectorsOnly(io[t].got) /\ op[t].inr \in Word
      /\ IsTable(pc) /\ IsTable(op) /\ IsTable(d) /\ IsTable(fv6) /\ pc[t] = "fill_inode"
  BY <1>1, AtReturn
<1>3. Moves(fv6, fv6', t)
  BY <1>1, <1>2, TableStays
<1>4. Moves(d, d', t)
  BY <1>1, <1>2, TableStays
<1>5. PICK o, i : o = op[t] /\ i = Node(o.inr)
  OBVIOUS
<1>6. code \in Int /\ code <= 0
  BY <1>1, <1>2, ReadsSomeInode
<1>7. ASSUME op[t].alone
      PROVE  /\ o.inr \in Denotes(o.path) /\ o.out = <<>>
             /\ code = inode_read(Disk, Super, o.inr) /\ (code = 0 => node = i /\ Live(o.inr))
  <2>1. /\ io[t].got = Seen(io[t].tried) /\ Needs(t) \subseteq io[t].tried
        /\ Phase("fill_inode", o, d[t], fv6[t])
    BY <1>1, <1>5, <1>7, AtCalmReturn
  <2>2. InodeNeeds(o.inr) \subseteq io[t].tried
    BY <1>2, <1>5, <2>1 DEF Needs
  <2>3. /\ inode_read(io[t].got, Super, o.inr) = inode_read(Disk, Super, o.inr)
        /\ inode_read(Disk, Super, o.inr) = 0
             => InodeNo(io[t].got, Super, o.inr) = InodeNo(Disk, Super, o.inr)
    BY <2>1, <2>2, SameInode
  <2>4. o.inr \in Denotes(o.path) /\ o.out = <<>>
    BY <2>1 DEF Phase
  <2> QED BY <1>1, <1>5, <2>3, <2>4 DEF Live, Node
<1>8. CASE code # 0 /\ Answers(t, code, <<>>)
  <2>1. ASSUME op[t].alone, NEW a, a.path = o.path, a.ret = code
        PROVE  Exact(a)
    <3>1. RightAnswer(a, o.inr)
      <4>1. a.ret < 0
        BY <1>6, <1>8, <2>1
      <4>2. inode_read(Disk, Super, o.inr) # 0
        BY <1>7, <1>8, <2>1
      <4> QED BY <4>1, <4>2, Zenon DEF RightAnswer
    <3> QED BY <1>7, <2>1, <3>1 DEF Exact
  <2>2. op[t].alone => \A a : (/\ a.path = op[t].path /\ a.kind = op[t].kind
                               /\ a.size = op[t].size /\ a.offset = op[t].offset
                               /\ a.ret = code /\ a.out = <<>>) => Exact(a)
    BY <1>5, <2>1, Zenon
  <2> QED BY <1>1, <1>3, <1>4, <1>8, <2>2, AnswerStep
<1>9. CASE code = 0 /\ op[t].kind = "getattr" /\ Answers(t, 0, <<node>>)
  <2>1. ASSUME op[t].alone,
               NEW a, a.path = o.path, a.kind = o.kind, a.ret = 0, a.out = <<node>>
        PROVE  Exact(a)
    <3>1. RightAnswer(a, o.inr)
      <4>1. inode_read(Disk, Super, o.inr) = 0 /\ node = InodeNo(Disk, Super, o.inr)
        BY <1>5, <1>7, <1>9, <2>1 DEF Node
      <4>2. a.kind = "getattr"
        BY <1>5, <1>9, <2>1
      <4> QED BY <2>1, <4>1, <4>2, Zenon DEF RightAnswer
    <3> QED BY <1>7, <2>1, <3>1 DEF Exact
  <2>2. op[t].alone => \A a : (/\ a.path = op[t].path /\ a.kind = op[t].kind
                               /\ a.size = op[t].size /\ a.offset = op[t].offset
                               /\ a.ret = 0 /\ a.out = <<node>>) => Exact(a)
    BY <1>5, <2>1, Zenon
  <2> QED BY <1>1, <1>3, <1>4, <1>9, <2>2, AnswerStep
<1>10. CASE code = 0 /\ op[t].kind # "getattr" /\ Proceeds(t, next) /\ UNCHANGED op
  <2>1. Moves(pc, pc', t) /\ pc'[t] = next
    BY <1>2, <1>10, TableMoves DEF Proceeds
  <2>2. Moves(op, op', t) /\ op' = op
    BY <1>2, <1>10, TableStays
  <2>3. next \in {"opendir", "open"} /\ (next = "opendir" <=> o.kind = "readdir") /\ o.kind # "getattr"
    BY <1>1, <1>5, <1>10
  <2>4. ASSUME op[t].alone PROVE Phase(next, o, d'[t], fv6'[t])
    <3>1. o.inr \in Denotes(o.path) /\ o.out = <<>> /\ Live(o.inr)
      BY <1>7, <1>10, <2>4
    <3>2. CASE next = "opendir"
      BY <2>3, <3>1, <3>2 DEF Phase
    <3>3. CASE next = "open"
      BY <2>3, <3>1, <3>3 DEF Phase
    <3> QED BY <2>3, <3>2, <3>3
  <2>5. op[t].alone => Phase(pc'[t], op'[t], d'[t], fv6'[t])
    BY <1>5, <2>1, <2>2, <2>4, Zenon
  <2>6. pc'[t] \notin {"idle", "done"}
    BY <2>1, <2>3
  <2> QED BY <1>1, <1>3, <1>4, <2>1, <2>2, <2>5, <2>6, CallStep
<1> QED BY <1>1, <1>8, <1>9, <1>10

LEMMA CalmList == ASSUME DiskIsSound, IInv, AloneInv, NEW t \in Threads, List(t) PROVE AloneInv'
<1>1. PICK r, code :
          /\ Returns(t, "list")
          /\ r = direntv6_readdir(io[t].got, d[t])
          /\ d' = [d EXCEPT ![t] = r.d]
          /\ code = IF r.ret = ERR_UNALLOCATED_INODE THEN 0 ELSE r.ret
          /\ \/ r.ret = 1 /\ op' = [op EXCEPT ![t].out = Append(@, r.name)] /\ UNCHANGED pc
             \/ r.ret # 1 /\ Answers(t, code, op[t].out)
          /\ UNCHANGED fv6
  BY Zenon DEF List
<1>2. /\ OpOK(op[t]) /\ IsTable(pc) /\ IsTable(op) /\ IsTable(d) /\ IsTable(fv6)
      /\ pc[t] = "list" /\ IsDirReader(d[t]) /\ op[t].inr \in Word
  BY <1>1, AtReturn
<1>3. Moves(fv6, fv6', t)
  BY <1>1, <1>2, TableStays
<1>4. Moves(d, d', t) /\ d'[t] = r.d
  BY <1>1, <1>2, TableMoves, Zenon
<1>5. PICK m \in Nat : Counts(d[t], m)
  BY <1>1, AtReturn
<1>6. PICK o, i, k : o = op[t] /\ i = Node(o.inr) /\ k = d[t].cur
  OBVIOUS
<1>7. k \in Nat
  <2>1. k \in 0 .. d[t].last /\ d[t].last \in Nat
    BY <1>5, <1>6, CountersAgree
  <2> QED BY <2>1
<1>8. ASSUME op[t].alone
      PROVE  /\ o.inr \in Denotes(o.path) /\ Live(o.inr) /\ o.kind = "readdir" /\ IsDirectory(i)
             /\ Answered(Disk, d[t], i) /\ o.out = [j \in 1 .. k |-> Slot(Disk, i, j - 1).d_name]
             /\ EntryAnswered(Disk, r, i, k)
  <2>1. /\ io[t].got = Seen(io[t].tried) /\ Needs(t) \subseteq io[t].tried
        /\ Phase("list", o, d[t], fv6[t])
    BY <1>1, <1>6, <1>8, AtCalmReturn
  <2>2. EntryNeeds(d[t], io[t].got) \subseteq io[t].tried
    BY <1>2, <2>1 DEF Needs
  <2>3. r = direntv6_readdir(Disk, d[t])
    BY <1>1, <1>2, <1>5, <2>1, <2>2, SameEntry
  <2>4. /\ o.inr \in Denotes(o.path) /\ Live(o.inr) /\ o.kind = "readdir" /\ IsDirectory(i)
        /\ Answered(Disk, d[t], i) /\ o.out = [j \in 1 .. k |-> Slot(Disk, i, j - 1).d_name]
    BY <1>6, <2>1 DEF Phase
  <2>5. EntryAnswered(Disk, r, i, k)
    BY <1>2, <1>6, <2>3, <2>4, DiskEntry
  <2> QED BY <2>4, <2>5
<1>9. CASE r.ret # 1 /\ Answers(t, code, op[t].out)
  <2>1. ASSUME op[t].alone,
               NEW a, a.path = o.path, a.kind = o.kind, a.ret = code, a.out = o.out
        PROVE  Exact(a)
    <3>1. /\ k = EntryCount(i) \/ Slot(Disk, i, k).d_inumber = 0
          /\ code = 0
      BY <1>1, <1>8, <1>9, <2>1 DEF EntryAnswered
    <3>2. EntriesOf(Disk, i) = [j \in 1 .. k |-> Slot(Disk, i, j - 1)]
      <4>1. PICK reader, inr : reader = d[t] /\ inr = o.inr
        OBVIOUS
      <4>2. /\ inr \in Word /\ Live(inr) /\ i = Node(inr) /\ Answered(Disk, reader, i) /\ k = reader.cur
            /\ k = EntryCount(i) \/ Slot(Disk, i, k).d_inumber = 0
        BY <1>2, <1>6, <1>8, <2>1, <3>1, <4>1
      <4>3. IsDirectory(i)
        BY <1>8, <2>1
      <4>4. SoundDirectory(Disk, i)
        BY ONLY <4>2, <4>3, NodeIsSound, DiskIsSound
      <4> QED BY ONLY <4>2, <4>4, ListedAll
    <3>3. PICK names : names = EntriesOf(Disk, i)
      OBVIOUS
    <3>4. [j \in DOMAIN names |-> names[j].d_name] = [j \in 1 .. k |-> Slot(Disk, i, j - 1).d_name]
      BY <3>2, <3>3
    <3>5. a.out = [j \in DOMAIN names |-> names[j].d_name]
      BY <1>8, <2>1, <3>4
    <3>6. /\ inode_read(Disk, Super, o.inr) = 0 /\ i = InodeNo(Disk, Super, o.inr)
          /\ a.kind = "readdir" /\ a.ret = 0
      BY <1>6, <1>8, <2>1, <3>1 DEF Live, Node
    <3>7. a.kind # "getattr"
      BY <3>6
    <3>8. RightAnswer(a, o.inr)
      BY <1>8, <2>1, <3>3, <3>5, <3>6, <3>7, Zenon DEF RightAnswer
    <3> QED BY <1>8, <2>1, <3>8 DEF Exact
  <2>2. op[t].alone => \A a : (/\ a.path = op[t].path /\ a.kind = op[t].kind
                               /\ a.size = op[t].size /\ a.offset = op[t].offset
                               /\ a.ret = code /\ a.out = op[t].out) => Exact(a)
    BY <1>6, <2>1, Zenon
  <2> QED BY <1>1, <1>3, <1>4, <1>9, <2>2, AnswerStep
<1>10. CASE r.ret = 1 /\ op' = [op EXCEPT ![t].out = Append(@, r.name)] /\ UNCHANGED pc
  <2>1. PICK p : p = [o EXCEPT !.out = Append(o.out, r.name)]
    OBVIOUS
  <2>2. op' = [op EXCEPT ![t] = p]
    BY <1>2, <1>6, <1>10, <2>1 DEF IsTable
  <2>3. /\ p.path = o.path /\ p.size = o.size /\ p.out = Append(o.out, r.name) /\ p.inr = o.inr
        /\ p.kind = o.kind
    BY <1>2, <1>6, <2>1 DEF OpOK
  <2>4. p.alone = o.alone
    BY <1>2, <1>6, <2>1, Zenon DEF OpOK
  <2>5. Moves(op, op', t) /\ op'[t] = p
    BY <1>2, <2>2, TableMoves
  <2>6. Moves(pc, pc', t) /\ pc'[t] = "list"
    BY <1>2, <1>10, TableStays
  <2>7. ASSUME op[t].alone PROVE Phase("list", p, r.d, fv6'[t])
    <3>1. r.name = Slot(Disk, i, k).d_name /\ r.d.cur = k + 1 /\ Answered(Disk, r.d, i)
      BY <1>8, <1>10, <2>7 DEF EntryAnswered, ERR_UNALLOCATED_INODE
    <3>2. Append(o.out, r.name) = [j \in 1 .. k + 1 |-> Slot(Disk, i, j - 1).d_name]
      <4>1. \A j \in 1 .. k + 1 : j - 1 = k <=> j = k + 1
        BY <1>7
      <4> QED BY <1>7, <1>8, <2>7, <3>1, <4>1
    <3>3. p.out = [j \in 1 .. r.d.cur |-> Slot(Disk, i, j - 1).d_name]
      BY <2>3, <3>1, <3>2
    <3>4. i = Node(p.inr) /\ p.inr \in Denotes(p.path) /\ Live(p.inr) /\ p.kind = "readdir" /\ IsDirectory(i)
      BY <1>6, <1>8, <2>3, <2>7
    <3> QED BY <3>1, <3>3, <3>4 DEF Phase
  <2>8. op[t].alone => Phase(pc'[t], op'[t], d'[t], fv6'[t])
    BY <1>4, <2>5, <2>6, <2>7, Zenon
  <2> QED BY <1>1, <1>3, <1>4, <1>6, <2>3, <2>4, <2>5, <2>6, <2>8, CallStep
<1> QED BY <1>1, <1>9, <1>10

-----------------------------------------------------------------------------
(* Files are read.                                                         *)

LEMMA OffsetInSectors ==
    ASSUME NEW size \in Nat, NEW k \in Nat
    PROVE  /\ SectorsOf(size) \in Nat
           /\ k * SECTOR_SIZE < size => k + 1 <= SectorsOf(size)
           /\ ~(k * SECTOR_SIZE < size) => k >= SectorsOf(size)
           /\ k * SECTOR_SIZE <= size => k <= SectorsOf(size)
<1>1. PICK n \in Nat : n = SectorsOf(size)
  BY SectorBeforeEnd
<1>2. k * SECTOR_SIZE < size <=> k \in 0 .. n - 1
  BY <1>1, SectorBeforeEnd
<1>3. PICK x \in Nat : x = k * SECTOR_SIZE
  BY SectorSize
<1>4. k # 0 /\ x <= size => k - 1 \in 0 .. n - 1
  <2> SUFFICES ASSUME k # 0, x <= size PROVE k - 1 \in 0 .. n - 1
    OBVIOUS
  <2>1. PICK j \in Nat : j + 1 = k
    <3>1. k - 1 \in Nat /\ (k - 1) + 1 = k
      OBVIOUS
    <3> QED BY <3>1
  <2>2. x = j * SECTOR_SIZE + SECTOR_SIZE
    BY <1>3, <2>1, SectorOfStart
  <2>3. j * SECTOR_SIZE \in Nat /\ SECTOR_SIZE \in Nat \ {0}
    BY SectorSize
  <2>4. j * SECTOR_SIZE < size
    BY <2>2, <2>3
  <2>5. j \in 0 .. n - 1
    BY <1>1, <2>4, SectorBeforeEnd
  <2> QED BY <2>1, <2>5
<1>5. x <= size => k <= n
  BY <1>4
<1> QED BY <1>1, <1>2, <1>3, <1>5

\* The answer a has the first sectors of the file from the offset on, and with n sectors there are no more to have.
Has(a, i, offset, has) ==
    /\ a.out = [k \in 1 .. has |-> UpToNul(FileBlock(Disk, i, offset + k - 1))]
    /\ a.ret = has * SECTOR_SIZE
HasAll(n, size, offset, has) ==
    \/ offset + has = n /\ has < size
    \/ has = size /\ offset + has <= n
    \/ has = 0 /\ offset >= n

\* The first sectors from the offset on, as many as were asked for or as there are.
LEMMA ReadIsRight ==
    ASSUME NEW inr \in Word, Live(inr), NEW i, i = Node(inr), NEW n, n = SectorsOf(i.i_size),
           NEW a, a.kind \notin {"getattr", "readdir"}, NEW size \in Nat \ {0}, a.size = size,
           NEW offset \in Nat, a.offset = offset, NEW has \in Nat,
           Has(a, i, offset, has), HasAll(n, size, offset, has)
    PROVE  RightAnswer(a, inr)
<1> USE DEF Has, HasAll
<1>1. n \in Nat
  BY LiveNode, SectorBeforeEnd
<1>2. PICK blocks, count : /\ blocks = FileBlocks(Disk, i)
                           /\ count = IF n - offset < size THEN n - offset ELSE size
  OBVIOUS
<1>3. 1 .. count = 1 .. has
  BY <1>1, <1>2
<1>4. ASSUME NEW k \in 1 .. has
      PROVE  blocks[offset + k - 1] = FileBlock(Disk, i, offset + k - 1)
  <2>1. PICK b : b = offset + k - 1
    OBVIOUS
  <2>2. b \in 0 .. n - 1
    BY <1>1, <2>1
  <2> QED BY <1>2, <2>1, <2>2 DEF FileBlocks
<1>5. a.out = [k \in 1 .. count |-> UpToNul(blocks[offset + k - 1])]
  BY <1>3, <1>4
<1>6. Len(a.out) = has
  <2>1. PICK s : s = a.out
    OBVIOUS
  <2>2. s = [k \in 1 .. has |-> s[k]]
    BY <2>1
  <2>3. Len(s) = has
    BY ONLY <2>2, has \in Nat
  <2> QED BY <2>1, <2>3
<1>7. inode_read(Disk, Super, inr) = 0 /\ i = InodeNo(Disk, Super, inr)
  BY DEF Live, Node
<1>8. a.kind # "getattr" /\ a.kind # "readdir"
  OBVIOUS
<1> QED BY <1>2, <1>5, <1>6, <1>7, <1>8, ZenonT(40) DEF RightAnswer

LEMMA CalmOpen == ASSUME IInv, AloneInv, NEW t \in Threads, Open(t) PROVE AloneInv'
<1>1. PICK r, seek :
          /\ Returns(t, "open")
          /\ r = filev6_open(io[t].got, Super, op[t].inr, NoFile)
          /\ seek = filev6_lseek(r.fv6, op[t].offset * SECTOR_SIZE)
          /\ \/ r.ret # 0 /\ Answers(t, r.ret, <<>>) /\ UNCHANGED fv6
             \/ r.ret = 0 /\ seek.ret # 0 /\ Answers(t, 0, <<>>) /\ UNCHANGED fv6
             \/ /\ r.ret = 0 /\ seek.ret = 0
                /\ fv6' = [fv6 EXCEPT ![t] = seek.fv6]
                /\ Proceeds(t, "data")
                /\ UNCHANGED op
          /\ UNCHANGED d
  BY Zenon DEF Open
<1>2. /\ op[t].inr \in Word /\ op[t].offset \in Nat /\ pc[t] = "open"
      /\ IsTable(pc) /\ IsTable(op) /\ IsTable(d) /\ IsTable(fv6)
  BY <1>1, AtReturn
<1>3. Moves(d, d', t)
  BY <1>1, <1>2, TableStays
<1>4. PICK o, i, start : o = op[t] /\ i = Node(o.inr) /\ start = o.offset * SECTOR_SIZE
  OBVIOUS
<1>5. ASSUME op[t].alone
      PROVE  /\ o.inr \in Denotes(o.path) /\ Live(o.inr) /\ o.out = <<>>
             /\ o.kind \notin {"getattr", "readdir"} /\ o.size \in Nat \ {0}
             /\ r.ret = 0 /\ i.i_size \in Nat /\ start \in Nat
             /\ seek.ret # 0 => start > i.i_size
             /\ seek.ret = 0 => /\ start <= i.i_size
                                /\ seek.fv6 = [i_number |-> o.inr, i_node |-> i, offset |-> start]
  <2>1. /\ io[t].got = Seen(io[t].tried) /\ Needs(t) \subseteq io[t].tried
        /\ o.size \in Nat \ {0} /\ Phase("open", o, d[t], fv6[t])
    BY <1>1, <1>4, <1>5, AtCalmReturn
  <2>2. InodeNeeds(o.inr) \subseteq io[t].tried
    BY <1>2, <1>4, <2>1 DEF Needs
  <2>3. r = filev6_open(Disk, Super, o.inr, NoFile)
    BY <1>1, <1>4, <2>1, <2>2, SameInode
  <2>4. /\ o.inr \in Denotes(o.path) /\ Live(o.inr) /\ o.out = <<>>
        /\ o.kind \notin {"getattr", "readdir"}
    BY <2>1 DEF Phase
  <2>5. r.ret = 0 /\ r.fv6 = [i_number |-> o.inr, offset |-> 0, i_node |-> i]
    BY <1>4, <2>3, <2>4 DEF filev6_open, Live, Node
  <2>6. i.i_size \in Nat /\ start \in Nat
    <3>1. i.i_size \in Nat
      BY <1>2, <1>4, <2>4, LiveNode
    <3>2. start \in Nat
      BY <1>2, <1>4, SectorSize
    <3> QED BY <3>1, <3>2
  <2>7. PICK f : f = [i_number |-> o.inr, i_node |-> i, offset |-> 0]
    OBVIOUS
  <2>8. f = r.fv6 /\ f.i_node = i /\ [f EXCEPT !.offset = start]
                                       = [i_number |-> o.inr, i_node |-> i, offset |-> start]
    BY <2>5, <2>7
  <2>9. seek = IF start > i.i_size \/ start < 0 THEN [ret |-> ERR_OFFSET_OUT_OF_RANGE, fv6 |-> f]
               ELSE [ret |-> 0, fv6 |-> [f EXCEPT !.offset = start]]
    BY <1>1, <1>4, <2>8, Zenon DEF filev6_lseek
  <2>10. /\ seek.ret # 0 => start > i.i_size
         /\ seek.ret = 0 => start <= i.i_size /\ seek.fv6 = [f EXCEPT !.offset = start]
    BY <2>6, <2>9 DEF ERR_OFFSET_OUT_OF_RANGE
  <2> QED BY <2>1, <2>4, <2>5, <2>6, <2>8, <2>10
<1>6. CASE r.ret # 0 /\ Answers(t, r.ret, <<>>) /\ UNCHANGED fv6
  <2>1. Moves(fv6, fv6', t)
    BY <1>2, <1>6, TableStays
  <2>2. op[t].alone => \A a : (/\ a.path = op[t].path /\ a.kind = op[t].kind
                               /\ a.size = op[t].size /\ a.offset = op[t].offset
                               /\ a.ret = r.ret /\ a.out = <<>>) => Exact(a)
    BY <1>5, <1>6, Zenon
  <2> QED BY <1>1, <1>3, <1>6, <2>1, <2>2, AnswerStep
<1>7. CASE r.ret = 0 /\ seek.ret # 0 /\ Answers(t, 0, <<>>) /\ UNCHANGED fv6
  <2>1. Moves(fv6, fv6', t)
    BY <1>2, <1>7, TableStays
  <2>2. ASSUME op[t].alone,
               NEW a, a.path = o.path, a.kind = o.kind, a.size = o.size, a.offset = o.offset,
               a.ret = 0, a.out = <<>>
        PROVE  Exact(a)
    <3>1. PICK n \in Nat : n = SectorsOf(i.i_size) /\ o.offset >= n
      <4>1. ~(o.offset * SECTOR_SIZE < i.i_size)
        BY <1>4, <1>5, <1>7, <2>2
      <4> QED BY <1>2, <1>4, <1>5, <2>2, <4>1, OffsetInSectors
    <3>0. PICK has \in Nat : has = 0
      OBVIOUS
    <3>2. a.out = [k \in 1 .. has |-> UpToNul(FileBlock(Disk, i, o.offset + k - 1))]
      BY <2>2, <3>0
    <3>3. a.ret = has * SECTOR_SIZE
      BY <2>2, <3>0, SectorSize
    <3>4. RightAnswer(a, o.inr)
      <4>1. PICK inr, size, offset : inr = o.inr /\ size = o.size /\ offset = o.offset
        OBVIOUS
      <4>2. /\ inr \in Word /\ Live(inr) /\ i = Node(inr) /\ n = SectorsOf(i.i_size)
            /\ a.kind \notin {"getattr", "readdir"} /\ size \in Nat \ {0} /\ a.size = size
            /\ offset \in Nat /\ a.offset = offset /\ offset >= n
        BY <1>2, <1>4, <1>5, <2>2, <3>1, <4>1
      <4>3. Has(a, i, offset, has)
        BY <3>2, <3>3, <4>1 DEF Has
      <4>4. HasAll(n, size, offset, has)
        BY <3>0, <4>2 DEF HasAll
      <4>5. RightAnswer(a, inr)
        BY ONLY <4>2, <4>3, <4>4, n \in Nat, has \in Nat, ReadIsRight
      <4> QED BY <4>1, <4>5
    <3> QED BY <1>5, <2>2, <3>4 DEF Exact
  <2>3. op[t].alone => \A a : (/\ a.path = op[t].path /\ a.kind = op[t].kind
                               /\ a.size = op[t].size /\ a.offset = op[t].offset
                               /\ a.ret = 0 /\ a.out = <<>>) => Exact(a)
    BY <1>4, <2>2, Zenon
  <2> QED BY <1>1, <1>3, <1>7, <2>1, <2>3, AnswerStep
<1>8. CASE /\ r.ret = 0 /\ seek.ret = 0 /\ fv6' = [fv6 EXCEPT ![t] = seek.fv6]
           /\ Proceeds(t, "data") /\ UNCHANGED op
  <2>1. Moves(pc, pc', t) /\ pc'[t] = "data"
    BY <1>2, <1>8, TableMoves DEF Proceeds
  <2>2. Moves(fv6, fv6', t) /\ fv6'[t] = seek.fv6
    BY <1>2, <1>8, TableMoves
  <2>3. Moves(op, op', t) /\ op' = op
    BY <1>2, <1>8, TableStays
  <2>4. ASSUME op[t].alone PROVE Phase("data", o, d'[t], seek.fv6)
    <3>1. PICK f : f = seek.fv6 /\ f = [i_number |-> o.inr, i_node |-> i, offset |-> start]
      BY <1>5, <1>8, <2>4
    <3>2. Len(o.out) = 0 /\ o.out = [k \in 1 .. 0 |-> UpToNul(FileBlock(Disk, i, o.offset + k - 1))]
      BY <1>5, <2>4
    <3>3. o.offset + 0 = o.offset /\ 0 < o.size /\ o.offset <= SectorsOf(i.i_size)
      <4>1. PICK size \in Nat, offset \in Nat : size = i.i_size /\ offset = o.offset
        BY <1>2, <1>4, <1>5, <2>4
      <4>2. offset * SECTOR_SIZE <= size
        BY <1>4, <1>5, <1>8, <2>4, <4>1
      <4>3. offset <= SectorsOf(size)
        BY <4>2, OffsetInSectors
      <4>4. 0 < o.size
        BY <1>5, <2>4
      <4> QED BY <4>1, <4>3, <4>4
    <3>4. f = [i_number |-> f.i_number, i_node |-> i, offset |-> (o.offset + Len(o.out)) * SECTOR_SIZE]
      BY <1>4, <3>1, <3>2, <3>3
    <3>5. /\ o.inr \in Denotes(o.path) /\ Live(o.inr) /\ o.kind \notin {"getattr", "readdir"}
      BY <1>5, <2>4
    <3> QED BY <1>4, <3>1, <3>2, <3>3, <3>4, <3>5 DEF Phase
  <2>5. op[t].alone => Phase(pc'[t], op'[t], d'[t], fv6'[t])
    BY <1>4, <2>1, <2>2, <2>3, <2>4, Zenon
  <2> QED BY <1>1, <1>3, <2>1, <2>2, <2>3, <2>5, CallStep
<1> QED BY <1>1, <1>6, <1>7, <1>8

LEMMA CalmData == ASSUME DiskIsSound, IInv, AloneInv, NEW t \in Threads, Data(t) PROVE AloneInv'
<1>1. PICK r, out :
          /\ Returns(t, "data")
          /\ r = filev6_readblock(io[t].got, fv6[t])
          /\ out = IF r.ret = SECTOR_SIZE THEN Append(op[t].out, UpToNul(r.data)) ELSE op[t].out
          /\ fv6' = [fv6 EXCEPT ![t] = r.fv6]
          /\ \/ /\ r.ret = SECTOR_SIZE /\ Len(out) < op[t].size
                /\ op' = [op EXCEPT ![t].out = out]
                /\ UNCHANGED pc
             \/ /\ r.ret >= 0 /\ (r.ret = SECTOR_SIZE => Len(out) >= op[t].size)
                /\ Answers(t, Len(out) * SECTOR_SIZE, out)
             \/ r.ret < 0 /\ Answers(t, r.ret, out)
          /\ UNCHANGED d
  BY Zenon DEF Data
<1>2. /\ op[t].inr \in Word /\ op[t].offset \in Nat /\ pc[t] = "data" /\ OpOK(op[t])
      /\ IsTable(pc) /\ IsTable(op) /\ IsTable(d) /\ IsTable(fv6) /\ IsFile(fv6[t])
      /\ IsSequence(op[t].out)
  BY <1>1, AtReturn
<1>3. Moves(d, d', t)
  BY <1>1, <1>2, TableStays
<1>4. Moves(fv6, fv6', t) /\ fv6'[t] = r.fv6
  BY <1>1, <1>2, TableMoves
<1>5. PICK o, i, n, offset, size, has :
          /\ o = op[t] /\ i = Node(o.inr) /\ n = SectorsOf(i.i_size)
          /\ offset = o.offset /\ size = o.size /\ has = Len(o.out)
  OBVIOUS
<1>6. has \in Nat /\ offset \in Nat
  BY <1>2, <1>5 DEF IsSequence
<1>7. ASSUME op[t].alone
      PROVE  /\ o.inr \in Denotes(o.path) /\ Live(o.inr) /\ o.kind \notin {"getattr", "readdir"}
             /\ size \in Nat \ {0} /\ n \in Nat /\ has < size /\ offset + has <= n
             /\ o.out = [k \in 1 .. has |-> UpToNul(FileBlock(Disk, i, offset + k - 1))]
             /\ \/ r.ret = 0 /\ offset + has = n
                \/ /\ r.ret = SECTOR_SIZE /\ offset + has + 1 <= n
                   /\ r.data = FileBlock(Disk, i, offset + has)
                   /\ r.fv6 = [i_number |-> r.fv6.i_number, i_node |-> i,
                               offset |-> (offset + has + 1) * SECTOR_SIZE]
  <2>1. /\ io[t].got = Seen(io[t].tried) /\ Needs(t) \subseteq io[t].tried
        /\ size \in Nat \ {0} /\ Phase("data", o, d[t], fv6[t])
    BY <1>1, <1>5, <1>7, AtCalmReturn
  <2>2. BlockNeeds(fv6[t], io[t].got) \subseteq io[t].tried
    BY <1>2, <2>1 DEF Needs
  <2>3. r = filev6_readblock(Disk, fv6[t])
    BY <1>1, <1>2, <2>1, <2>2, SameBlock
  <2>4. /\ o.inr \in Denotes(o.path) /\ Live(o.inr) /\ o.kind \notin {"getattr", "readdir"}
        /\ fv6[t] = [i_number |-> fv6[t].i_number, i_node |-> i,
                     offset |-> (offset + has) * SECTOR_SIZE]
        /\ has < size /\ offset + has <= n
        /\ o.out = [k \in 1 .. has |-> UpToNul(FileBlock(Disk, i, offset + k - 1))]
    BY <1>5, <2>1 DEF Phase
  <2>5. PICK k \in Nat : k = offset + has
    BY <1>6
  <2>6. PICK f : f = fv6[t] /\ f = [i_number |-> f.i_number, i_node |-> i, offset |-> k * SECTOR_SIZE]
    BY <2>4, <2>5
  <2>7. \/ r.ret = 0 /\ ~(k * SECTOR_SIZE < i.i_size)
        \/ /\ r.ret = SECTOR_SIZE /\ k * SECTOR_SIZE < i.i_size
           /\ r.data = FileBlock(Disk, i, k)
           /\ r.fv6 = [i_number |-> r.fv6.i_number, i_node |-> i, offset |-> (k + 1) * SECTOR_SIZE]
    <3>1. PICK inr \in Word : Live(inr) /\ i = Node(inr)
      BY <1>2, <1>5, <2>4
    <3>2. FilesComplete
      BY DEF DiskIsSound
    <3>3. r = filev6_readblock(Disk, f)
      BY <2>3, <2>6
    <3> QED BY ONLY <2>6, <3>1, <3>2, <3>3, k \in Nat, inr \in Word, DiskBlock
  <2>8. i.i_size \in Nat
    BY <1>2, <1>5, <2>4, LiveNode
  <2>9. /\ n \in Nat
        /\ k * SECTOR_SIZE < i.i_size => k + 1 <= n
        /\ ~(k * SECTOR_SIZE < i.i_size) => k >= n
    BY <1>5, <2>8, OffsetInSectors
  <2>10. k <= n
    BY <2>4, <2>5
  <2>11. \/ r.ret = 0 /\ k = n
         \/ /\ r.ret = SECTOR_SIZE /\ k + 1 <= n /\ r.data = FileBlock(Disk, i, k)
            /\ r.fv6 = [i_number |-> r.fv6.i_number, i_node |-> i, offset |-> (k + 1) * SECTOR_SIZE]
    <3>1. CASE k * SECTOR_SIZE < i.i_size
      BY <2>7, <2>9, <3>1
    <3>2. CASE ~(k * SECTOR_SIZE < i.i_size)
      <4>1. k = n
        BY <2>9, <2>10, <3>2
      <4> QED BY <2>7, <3>2, <4>1
    <3> QED BY <3>1, <3>2
  <2> QED BY <2>1, <2>4, <2>5, <2>9, <2>11
<1>8. PICK more : more = Len(out)
  OBVIOUS
\* What the operation has got after the call.
<1>9. ASSUME op[t].alone
      PROVE  /\ out = [k \in 1 .. more |-> UpToNul(FileBlock(Disk, i, offset + k - 1))]
             /\ more \in Nat /\ r.ret >= 0
             /\ r.ret # SECTOR_SIZE => more = has /\ offset + more = n
             /\ r.ret = SECTOR_SIZE => /\ more = has + 1 /\ offset + more <= n
                                       /\ r.fv6 = [i_number |-> r.fv6.i_number, i_node |-> i,
                                                   offset |-> (offset + more) * SECTOR_SIZE]
  <2>1. CASE r.ret # SECTOR_SIZE
    <3>1. out = o.out /\ more = has /\ r.ret = 0 /\ offset + has = n
      BY <1>1, <1>5, <1>7, <1>8, <1>9, <2>1
    <3>2. out = [k \in 1 .. more |-> UpToNul(FileBlock(Disk, i, offset + k - 1))]
      BY <1>7, <1>9, <3>1
    <3> QED BY <1>6, <2>1, <3>1, <3>2
  <2>2. CASE r.ret = SECTOR_SIZE
    <3>1. PICK x : x = UpToNul(r.data) /\ out = Append(o.out, x)
      BY <1>1, <1>5, <2>2
    <3>2. PICK s : s = o.out /\ s = [k \in 1 .. has |-> s[k]]
                   /\ \A k \in 1 .. has : s[k] = UpToNul(FileBlock(Disk, i, offset + k - 1))
      BY <1>7, <1>9
    <3>3. out = [k \in 1 .. has + 1 |-> IF k = has + 1 THEN x ELSE s[k]]
      <4>1. out = Append([k \in 1 .. has |-> s[k]], x)
        BY <3>1, <3>2
      <4> QED BY ONLY <1>6, <4>1
    <3>4. more = has + 1
      BY ONLY <1>6, <1>8, <3>3
    <3>5. /\ 0 # SECTOR_SIZE /\ SECTOR_SIZE \in Nat
      BY SectorSize
    <3>6. /\ r.data = FileBlock(Disk, i, offset + has) /\ offset + has + 1 <= n
          /\ r.fv6 = [i_number |-> r.fv6.i_number, i_node |-> i,
                      offset |-> (offset + has + 1) * SECTOR_SIZE]
      BY <1>7, <1>9, <2>2, <3>5
    <3>7. offset + more - 1 = offset + has /\ offset + has + 1 = offset + more
      BY <1>6, <3>4
    <3>8. x = UpToNul(FileBlock(Disk, i, offset + more - 1))
      BY <3>1, <3>6, <3>7
    <3>9. \A k \in 1 .. more : k # more => k \in 1 .. has
      BY <1>6, <3>4
    <3>10. out = [k \in 1 .. more |-> IF k = more THEN x ELSE s[k]]
      BY <3>3, <3>4
    <3>11. out = [k \in 1 .. more |-> UpToNul(FileBlock(Disk, i, offset + k - 1))]
      BY ONLY <3>2, <3>8, <3>9, <3>10
    <3>12. more \in Nat /\ r.ret >= 0 /\ offset + more <= n
      BY <1>6, <2>2, <3>4, <3>5, <3>6, <3>7
    <3> QED BY <2>2, <3>4, <3>6, <3>7, <3>11, <3>12
  <2> QED BY <2>1, <2>2
<1>10. CASE r.ret < 0 /\ Answers(t, r.ret, out)
  <2>1. ~op[t].alone
    BY <1>7, <1>10, SectorSize
  <2> QED BY <1>1, <1>3, <1>4, <1>10, <2>1, AnswerStep
<1>11. CASE /\ r.ret >= 0 /\ (r.ret = SECTOR_SIZE => Len(out) >= op[t].size)
            /\ Answers(t, Len(out) * SECTOR_SIZE, out)
  <2>1. ASSUME op[t].alone,
               NEW a, a.path = o.path, a.kind = o.kind, a.size = o.size, a.offset = o.offset,
               a.ret = more * SECTOR_SIZE, a.out = out
        PROVE  Exact(a)
    <3>1. Has(a, i, offset, more)
      BY <1>9, <2>1 DEF Has
    <3>2. HasAll(n, size, offset, more)
      <4>1. has < size /\ size \in Nat
        BY <1>7, <2>1
      <4>2. CASE r.ret # SECTOR_SIZE
        BY <1>9, <2>1, <4>1, <4>2 DEF HasAll
      <4>3. CASE r.ret = SECTOR_SIZE
        <5>1. more >= size /\ more = has + 1 /\ offset + more <= n
          BY <1>5, <1>8, <1>9, <1>11, <2>1, <4>3
        <5>2. more = size
          BY <1>6, <4>1, <5>1
        <5> QED BY <5>1, <5>2 DEF HasAll
      <4> QED BY <4>2, <4>3
    <3>3. PICK inr \in Word : inr = o.inr
      BY <1>2, <1>5
    <3>4. /\ Live(inr) /\ i = Node(inr) /\ n = SectorsOf(i.i_size) /\ a.kind \notin {"getattr", "readdir"}
          /\ size \in Nat \ {0} /\ a.size = size /\ a.offset = offset /\ more \in Nat
      BY <1>5, <1>7, <1>9, <2>1, <3>3
    <3>5. RightAnswer(a, inr)
      BY ONLY <1>6, <3>1, <3>2, <3>4, inr \in Word, ReadIsRight
    <3> QED BY <1>7, <2>1, <3>3, <3>5 DEF Exact
  <2>2. op[t].alone => \A a : (/\ a.path = op[t].path /\ a.kind = op[t].kind
                               /\ a.size = op[t].size /\ a.offset = op[t].offset
                               /\ a.ret = more * SECTOR_SIZE /\ a.out = out) => Exact(a)
    BY <1>5, <2>1, Zenon
  <2>3. Answers(t, more * SECTOR_SIZE, out)
    BY <1>8, <1>11
  <2> QED BY <1>1, <1>3, <1>4, <2>2, <2>3, AnswerStep
<1>12. CASE /\ r.ret = SECTOR_SIZE /\ Len(out) < op[t].size
            /\ op' = [op EXCEPT ![t].out = out]
            /\ UNCHANGED pc
  <2>1. PICK p : p = [o EXCEPT !.out = out]
    OBVIOUS
  <2>2. op' = [op EXCEPT ![t] = p]
    BY <1>2, <1>5, <1>12, <2>1 DEF IsTable
  <2>3. /\ p.path = o.path /\ p.size = o.size /\ p.out = out /\ p.inr = o.inr
        /\ p.kind = o.kind /\ p.offset = o.offset
    BY <1>2, <1>5, <2>1 DEF OpOK
  <2>4. p.alone = o.alone
    BY <1>2, <1>5, <2>1, Zenon DEF OpOK
  <2>5. Moves(op, op', t) /\ op'[t] = p
    BY <1>2, <2>2, TableMoves
  <2>6. Moves(pc, pc', t) /\ pc'[t] = "data"
    BY <1>2, <1>12, TableStays
  <2>7. ASSUME op[t].alone PROVE Phase("data", p, d'[t], r.fv6)
    <3>1. /\ p.inr \in Denotes(p.path) /\ Live(p.inr) /\ p.kind \notin {"getattr", "readdir"}
          /\ i = Node(p.inr)
      BY <1>5, <1>7, <2>3, <2>7
    <3>2. /\ more < p.size /\ p.offset = offset /\ offset + more <= n /\ n = SectorsOf(i.i_size)
          /\ Len(p.out) = more
          /\ r.fv6 = [i_number |-> r.fv6.i_number, i_node |-> i, offset |-> (offset + more) * SECTOR_SIZE]
          /\ p.out = [k \in 1 .. more |-> UpToNul(FileBlock(Disk, i, offset + k - 1))]
      BY <1>5, <1>8, <1>9, <1>12, <2>3, <2>7
    <3> QED BY <3>1, <3>2 DEF Phase
  <2>8. op[t].alone => Phase(pc'[t], op'[t], d'[t], fv6'[t])
    BY <1>4, <2>5, <2>6, <2>7, Zenon
  <2> QED BY <1>1, <1>3, <1>4, <1>5, <2>3, <2>4, <2>5, <2>6, <2>8, CallStep
<1> QED BY <1>1, <1>10, <1>11, <1>12

-----------------------------------------------------------------------------
(* Whatever happens, an undisturbed operation stays so.                    *)

LEMMA AloneInit == Init => AloneInv
<1> SUFFICES ASSUME Init, NEW t \in Threads PROVE CalmOK(t)
  BY DEF AloneInv
<1>1. pc[t] = "idle" /\ io[t] = NoIo
  BY DEF Init
<1>2. pc[t] # "done"
  BY <1>1
<1> QED BY <1>1, <1>2, Zenon DEF CalmOK

LEMMA CalmNext == ASSUME DiskIsSound PROVE IInv /\ AloneInv /\ [Next]_vars => AloneInv'
<1> SUFFICES ASSUME IInv, AloneInv, [Next]_vars PROVE AloneInv'
  OBVIOUS
<1>1. CASE Next
  BY <1>1, CalmBegin, CalmSeek, CalmFread, CalmOpendir, CalmLookup, CalmFillInode, CalmList,
     CalmOpen, CalmData, CalmFinish DEF Next, Work
<1>2. CASE UNCHANGED vars
  <2>1. pc' = pc /\ io' = io /\ pos' = pos /\ op' = op /\ d' = d /\ fv6' = fv6
    BY <1>2 DEF vars
  <2>2. \A t \in Threads : Calm(t) => Calm(t)'
    BY <2>1 DEF Calm
  <2>3. ASSUME NEW t \in Threads PROVE CalmOK(t)'
    <3>1. CalmOK(t) /\ (Calm(t) => Calm(t)')
      BY <2>2 DEF AloneInv
    <3> QED BY <2>1, <3>1, Zenon DEF CalmOK
  <2> QED BY <2>3, Zenon DEF AloneInv
<1> QED BY <1>1, <1>2

-----------------------------------------------------------------------------
(* The theorems.                                                           *)

\* What a thread reads in a file is an allocated inode, and what it reads entries of is a
\* directory, even when a race made it read the wrong sector for that inode.
THEOREM FuseTypeCorrect == Spec => []TypeOK
<1>1. IInv => TypeOK
  BY DEF IInv, ThreadOK, TypeOK, Calls, OpOK, IoOK, ReaderOK, FileOK, IsFile, IsDirReader
<1> QED BY <1>1, InvInit, InvNext, PTL DEF Spec

\* Races over the stream spare the counters of every directory reader: whatever sectors a
\* call gets, the position in the directory, the entries read and the file's cursor agree.
THEOREM RacesSpareTheReaders == Spec => []RacesSpareReaders
<1>1. IInv => RacesSpareReaders
  BY CountersAgree DEF IInv, ThreadOK, ReaderOK, RacesSpareReaders
<1> QED BY <1>1, InvInit, InvNext, PTL DEF Spec

\* An operation during which no other one runs answers what the disk says: of a path that no
\* entry of the root has, an error; of the others the inode, the entries, or the sectors that
\* were asked for.  So a race spoils the operations that take part in it and no later one,
\* although they share the stream that it has moved.
THEOREM UndisturbedOperations == ASSUME DiskIsSound PROVE Spec => []UndisturbedIsExact
<1>1. AloneInv => UndisturbedIsExact
  <2> SUFFICES ASSUME AloneInv, NEW t \in Threads, pc[t] = "done", op[t].alone PROVE Exact(op[t])
    BY Zenon DEF UndisturbedIsExact, Exact
  <2> QED BY Zenon DEF AloneInv, CalmOK
<1>2. IInv /\ AloneInv /\ [Next]_vars => AloneInv'
  BY CalmNext
<1> QED BY <1>1, <1>2, InvInit, InvNext, AloneInit, PTL DEF Spec
=============================================================================
