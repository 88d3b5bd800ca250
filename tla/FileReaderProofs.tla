-------------------------- MODULE FileReaderProofs --------------------------
(***************************************************************************)
(* Proofs about FileReader, for every disk, every set of sectors that fail *)
(* in a call, and every geometry.                                          *)
(***************************************************************************)
EXTENDS FileReader, LayoutLemmas

\* The seeks that FUSE makes: to the start of a sector.
AlignedSeeks == \A offset \in Offsets : \E k \in Int : offset = k * SECTOR_SIZE

\* No number follows the last inode so closely that inode_read takes it (inode.c:94).
NumbersInRegion == \A im \in Images, inr \in Inumbers :
    \/ inr \in RegionInodes(MountedSuper(im))
    \/ OutOfInodes(MountedSuper(im), inr)

Aligned == \E k \in Nat : fv6.offset = k * SECTOR_SIZE
-----------------------------------------------------------------------------
(* Type correctness.                                                       *)

\* filev6.c: whatever calls fail, an open file is an allocated inode of the disk, and its
\* cursor is at most a sector past its end.
THEOREM FileReaderTypeCorrect == Spec => []TypeOK
<1>1. Init => TypeOK
  <2> SUFFICES ASSUME Init PROVE TypeOK
    OBVIOUS
  <2>1. NoInode \in InodeType
    BY WordFacts DEF NoInode, InodeType
  <2> QED BY <2>1, WordFacts DEF Init, TypeOK, NoFile
<1>2. TypeOK /\ [Next]_vars => TypeOK'
  <2> SUFFICES ASSUME TypeOK, [Next]_vars PROVE TypeOK'
    OBVIOUS
  <2>0. SECTOR_SIZE \in Nat \ {0} /\ fv6.i_node.i_size \in Nat
    BY SectorSize, SizeIsNat DEF TypeOK
  <2>1. CASE Open
    <3>1. PICK inr \in Inumbers, bad \in IoFaults :
              LET r == filev6_open(Visible(img, bad), MountedSuper(img), inr, fv6)
              IN  fv6' = r.fv6 /\ ready' = (r.ret = 0) /\ img' = img
      BY <2>1 DEF Open
    <3> DEFINE disk == Visible(img, bad)
               s == MountedSuper(img)
    <3>2. inr \in Word /\ IsImage(img)
      BY ReaderAssumption DEF TypeOK
    <3>3. inode_read(disk, s, inr) = 0 =>
              InodeNo(disk, s, inr) \in InodeType /\ Allocated(InodeNo(disk, s, inr))
      BY <3>2, ReadsTheInode, Zenon
    <3>4. /\ fv6' = [i_number |-> inr, offset |-> 0,
                     i_node |-> IF inode_read(disk, s, inr) = 0 THEN InodeNo(disk, s, inr)
                                ELSE fv6.i_node]
          /\ ready' = (inode_read(disk, s, inr) = 0)
      BY <3>1 DEF filev6_open
    <3> HIDE DEF disk, s
    <3>5. fv6'.i_node \in InodeType /\ (ready' => Allocated(fv6'.i_node))
      BY <3>3, <3>4 DEF TypeOK
    <3>6. fv6'.i_node.i_size \in Nat
      BY <3>5, SizeIsNat
    <3> QED BY <2>0, <3>1, <3>2, <3>4, <3>5, <3>6 DEF TypeOK
  <2>2. CASE ReadBlock
    <3>1. PICK bad \in IoFaults :
              /\ ready /\ ready' = ready /\ img' = img
              /\ fv6' = filev6_readblock(Visible(img, bad), fv6).fv6
      BY <2>2 DEF ReadBlock
    <3>2. \/ fv6' = fv6
          \/ fv6' = [fv6 EXCEPT !.offset = 0]
          \/ ~(fv6.offset >= fv6.i_node.i_size) /\ fv6' = [fv6 EXCEPT !.offset = @ + SECTOR_SIZE]
      BY <3>1 DEF filev6_readblock
    <3> QED BY <2>0, <3>1, <3>2 DEF TypeOK
  <2>3. CASE LSeek
    <3>1. PICK offset \in Offsets : /\ ready /\ ready' = ready /\ img' = img
                                    /\ fv6' = filev6_lseek(fv6, offset).fv6
      BY <2>3 DEF LSeek
    <3>2. \/ fv6' = fv6
          \/ ~(offset > fv6.i_node.i_size \/ offset < 0) /\ fv6' = [fv6 EXCEPT !.offset = offset]
      BY <3>1 DEF filev6_lseek
    <3> QED BY <2>0, <3>1, <3>2, ReaderAssumption DEF TypeOK
  <2>4. CASE UNCHANGED vars
    BY <2>4 DEF TypeOK, vars
  <2> QED BY <2>1, <2>2, <2>3, <2>4 DEF Next
<1> QED BY <1>1, <1>2, PTL DEF Spec
-----------------------------------------------------------------------------
(* The reader implements the stream.                                       *)

Blocks == FileBlocks(img, fv6.i_node)

LEMMA BlocksDomain ==
    ASSUME TypeOK, NEW k \in Nat
    PROVE  k \in DOMAIN Blocks <=> k * SECTOR_SIZE < fv6.i_node.i_size
<1>1. fv6.i_node.i_size \in Nat
  BY SizeIsNat DEF TypeOK
<1>2. DOMAIN Blocks = 0 .. SectorsOf(fv6.i_node.i_size) - 1
  BY DEF Blocks, FileBlocks
<1> QED BY <1>1, <1>2, SectorBeforeEnd

LEMMA OpenIsStream ==
    ASSUME TypeOK, NumbersInRegion, Open
    PROVE  Aligned' /\ Stream!Next
<1>1. PICK inr \in Inumbers, bad \in IoFaults :
          LET r == filev6_open(Visible(img, bad), MountedSuper(img), inr, fv6)
          IN  /\ fv6' = r.fv6 /\ img' = img
              /\ last' = [op |-> "open", arg |-> inr, bad |-> bad, ret |-> r.ret,
                          data |-> ZeroSector]
  BY DEF Open
<1> DEFINE disk == Visible(img, bad)
           s == MountedSuper(img)
           ret == inode_read(disk, s, inr)
<1>2. inr \in Word /\ IsImage(img) /\ img \in Images
  BY ReaderAssumption DEF TypeOK
<1>3. /\ ret \in Int /\ ret <= 0
      /\ ret = 0 => /\ InodeNo(disk, s, inr) = InodeNo(img, s, inr)
                    /\ inode_read(img, s, inr) = 0 /\ ~OutOfInodes(s, inr)
      /\ bad = {} => disk = img
  BY <1>2, ReadsTheInode
<1>4. /\ fv6'.offset = 0
      /\ fv6'.i_node = IF ret = 0 THEN InodeNo(disk, s, inr) ELSE fv6.i_node
      /\ last'.op = "open" /\ last'.arg = inr /\ last'.bad = bad /\ last'.ret = ret
  BY <1>1 DEF filev6_open
<1> HIDE DEF disk
<1>5. ret = 0 => inr \in LiveInodes(img, s)
  BY <1>2, <1>3 DEF LiveInodes, NumbersInRegion
<1>6. inr \in LiveInodes(img, s) /\ bad = {} => ret = 0
  BY <1>3 DEF LiveInodes
<1> HIDE DEF ret, s
<1>7. 0 \div SECTOR_SIZE = 0 /\ 0 * SECTOR_SIZE = 0 /\ 0 \in Nat
  BY SectorSize, SectorOfStart
<1>8. Aligned'
  BY <1>4, <1>7 DEF Aligned
<1>9. Stream!Open
  <2>1. ret = 0 => FileBlocks(img', fv6'.i_node) = FileBlocks(img, InodeNo(img, s, inr))
    BY <1>1, <1>3, <1>4
  <2>2. ret # 0 => ret < 0 /\ FileBlocks(img', fv6'.i_node) = FileBlocks(img, fv6.i_node)
    BY <1>1, <1>3, <1>4
  <2>3. fv6'.offset \div SECTOR_SIZE = 0
    BY <1>4, <1>7
  <2> QED BY <1>4, <1>5, <1>6, <2>1, <2>2, <2>3 DEF Stream!Open, s
<1>10. img' = img
  BY <1>1
<1> QED BY <1>8, <1>9, <1>10 DEF Stream!Next

LEMMA ReadIsStream ==
    ASSUME TypeOK, Aligned, ReadBlock
    PROVE  Aligned' /\ Stream!Next
<1>1. PICK bad \in IoFaults :
          LET r == filev6_readblock(Visible(img, bad), fv6)
          IN  /\ ready /\ fv6' = r.fv6 /\ img' = img
              /\ last' = [op |-> "readblock", arg |-> fv6.offset, bad |-> bad, ret |-> r.ret,
                          data |-> r.data]
  BY DEF ReadBlock
<1>2. PICK k \in Nat : fv6.offset = k * SECTOR_SIZE
  BY DEF Aligned
<1> DEFINE disk == Visible(img, bad)
           i == fv6.i_node
           sect == inode_findsector(disk, i, k)
<1>3. /\ IsImage(img) /\ i \in InodeType /\ Allocated(i) /\ i.i_size \in Nat
      /\ fv6 \in [i_number : Word, i_node : InodeType, offset : Nat]
  BY <1>1, ReaderAssumption, SizeIsNat DEF TypeOK
<1>4. /\ fv6.offset \div SECTOR_SIZE = k
      /\ fv6.offset + SECTOR_SIZE = (k + 1) * SECTOR_SIZE
      /\ ((k + 1) * SECTOR_SIZE) \div SECTOR_SIZE = k + 1
      /\ 0 * SECTOR_SIZE = 0 /\ 0 \div SECTOR_SIZE = 0
  BY <1>2, SectorOfStart, SectorSize
<1>5. k * SECTOR_SIZE < i.i_size <=> ~(fv6.offset >= i.i_size)
  BY <1>2, <1>3
<1>6. k \in DOMAIN Blocks <=> ~(fv6.offset >= i.i_size)
  BY <1>5, BlocksDomain
<1>7. k \in DOMAIN Blocks => Blocks[k] = FileBlock(img, i, k)
  BY DEF Blocks, FileBlocks
<1>8. last'.op = "readblock" /\ last'.bad = bad /\ img' = img
  BY <1>1
<1>9. SECTOR_SIZE \in Nat \ {0}
  BY SectorSize
<1>10. CASE fv6.offset >= i.i_size
  <2>1. last'.ret = 0 /\ fv6' = [fv6 EXCEPT !.offset = 0]
    BY <1>1, <1>10 DEF filev6_readblock
  <2>2. fv6'.offset = 0 /\ fv6'.i_node = fv6.i_node
    BY <1>3, <2>1
  <2>3. Stream!AtEnd
    BY <1>4, <1>6, <1>10, <2>1, <2>2 DEF Stream!AtEnd, Blocks
  <2> QED BY <1>4, <1>8, <2>2, <2>3 DEF Aligned, Stream!Next, Stream!Read
<1>11. CASE ~(fv6.offset >= i.i_size) /\ ~(sect < 0) /\ sect \in DOMAIN disk
  <2>1. /\ last'.ret = SECTOR_SIZE /\ last'.data = disk[sect]
        /\ fv6' = [fv6 EXCEPT !.offset = @ + SECTOR_SIZE]
    BY <1>1, <1>4, <1>11 DEF filev6_readblock
  <2>0. last'.ret > 0
    BY <1>9, <2>1
  <2>2. fv6'.offset = (k + 1) * SECTOR_SIZE /\ fv6'.i_node = fv6.i_node
    BY <1>3, <1>4, <2>1
  <2>3. FileBlock(img, i, k) = disk[sect] /\ disk[sect] \in Sector
    BY <1>3, <1>5, <1>11, FindsTheSector
  <2> HIDE DEF disk, sect
  <2>4. Blocks[k] # Missing /\ last'.data = Blocks[k] /\ k \in DOMAIN Blocks
    BY <1>6, <1>7, <1>11, <2>1, <2>3, MissingIsNoSector
  <2>5. fv6'.offset \div SECTOR_SIZE = (fv6.offset \div SECTOR_SIZE) + 1
    BY <1>4, <2>2
  <2>6. Stream!Deliver
    BY <1>4, <2>0, <2>1, <2>4, <2>5, Zenon DEF Stream!Deliver, Blocks
  <2> QED BY <1>8, <2>2, <2>6 DEF Aligned, Stream!Next, Stream!Read
<1>12. CASE ~(fv6.offset >= i.i_size) /\ (sect < 0 \/ sect \notin DOMAIN disk)
  <2>1. last'.ret < 0 /\ fv6' = fv6
    BY <1>1, <1>4, <1>12 DEF filev6_readblock, ERR_IO
  <2>2. bad = {} => FileBlock(img, i, k) = Missing
    BY <1>3, <1>5, <1>12, FindsTheSector
  <2>3. k \in DOMAIN Blocks /\ (bad = {} => Blocks[k] = Missing)
    BY <1>6, <1>7, <1>12, <2>2
  <2>4. Stream!Fail
    BY <1>4, <1>8, <2>1, <2>3 DEF Stream!Fail, Blocks
  <2> QED BY <1>2, <1>8, <2>1, <2>4 DEF Aligned, Stream!Next, Stream!Read
<1> QED BY <1>10, <1>11, <1>12

LEMMA SeekIsStream ==
    ASSUME TypeOK, Aligned, AlignedSeeks, LSeek
    PROVE  Aligned' /\ Stream!Next
<1>1. PICK offset \in Offsets :
          LET r == filev6_lseek(fv6, offset)
          IN  /\ fv6' = r.fv6 /\ img' = img
              /\ last' = [op |-> "lseek", arg |-> offset, bad |-> {}, ret |-> r.ret,
                          data |-> ZeroSector]
  BY DEF LSeek
<1>2. PICK j \in Int : offset = j * SECTOR_SIZE
  BY DEF AlignedSeeks
<1> DEFINE i == fv6.i_node
<1>3. /\ i.i_size \in Nat /\ SECTOR_SIZE \in Nat \ {0} /\ offset \in Int
      /\ fv6 \in [i_number : Word, i_node : InodeType, offset : Nat]
  BY ReaderAssumption, SizeIsNat, SectorSize DEF TypeOK
<1>4. last'.op = "lseek" /\ last'.arg = offset /\ img' = img
  BY <1>1
<1>5. CASE offset > i.i_size \/ offset < 0
  <2>1. last'.ret < 0 /\ fv6' = fv6
    BY <1>1, <1>5 DEF filev6_lseek, ERR_OFFSET_OUT_OF_RANGE
  <2>2. ASSUME NEW k \in DOMAIN Blocks PROVE offset # k * SECTOR_SIZE
    <3>1. k \in Nat
      BY <1>3, SectorBeforeEnd DEF Blocks, FileBlocks
    <3>2. k * SECTOR_SIZE < i.i_size
      BY <3>1, BlocksDomain
    <3>3. k * SECTOR_SIZE \in Nat
      BY <1>3, <3>1
    <3> QED BY <1>3, <1>5, <3>2, <3>3
  <2>3. Stream!Seek
    BY <1>4, <2>1, <2>2 DEF Stream!Seek, Blocks
  <2> QED BY <1>4, <2>1, <2>3 DEF Aligned, Stream!Next
<1>6. CASE ~(offset > i.i_size \/ offset < 0)
  <2>1. last'.ret = 0 /\ fv6' = [fv6 EXCEPT !.offset = offset]
    BY <1>1, <1>6 DEF filev6_lseek
  <2>2. fv6'.offset = offset /\ fv6'.i_node = fv6.i_node
    BY <1>3, <2>1
  <2>3. j \in Nat
    <3>1. ASSUME j < 0 PROVE FALSE
      <4>1. j * SECTOR_SIZE < 0
        BY <1>3, <3>1
      <4> QED BY <1>2, <1>3, <1>6, <4>1
    <3> QED BY <3>1
  <2>4. offset \div SECTOR_SIZE = j
    BY <1>2, <2>3, SectorOfStart
  <2>5. j \in DOMAIN Blocks \/ j - 1 \in DOMAIN Blocks \/ j = 0
    <3>1. CASE j * SECTOR_SIZE < i.i_size
      BY <2>3, <3>1, BlocksDomain
    <3>2. CASE j # 0 /\ ~(j * SECTOR_SIZE < i.i_size)
      <4>1. j - 1 \in Nat
        BY <2>3, <3>2
      <4>2. (j - 1) * SECTOR_SIZE + SECTOR_SIZE = (j - 1 + 1) * SECTOR_SIZE
            /\ (j - 1) * SECTOR_SIZE \in Nat
        BY <1>3, <4>1, SectorOfStart
      <4>3. (j - 1) * SECTOR_SIZE < i.i_size
        BY <1>2, <1>3, <1>6, <2>3, <4>2
      <4> QED BY <4>1, <4>3, BlocksDomain
    <3> QED BY <3>1, <3>2
  <2>6. Stream!Seek
    BY <1>2, <1>4, <2>1, <2>2, <2>4, <2>5 DEF Stream!Seek, Blocks
  <2> QED BY <1>2, <1>4, <2>2, <2>3, <2>6 DEF Aligned, Stream!Next
<1> QED BY <1>5, <1>6

\* filev6.h:25-48: on every disk and whatever sectors fail, the calls on one struct filev6
\* deliver the sectors of the opened file in order, each once, tell the end once per pass,
\* and lose nothing by a call that fails.  The count of filev6.h:46 is claimed of no sector.
THEOREM FileIsStream ==
    ASSUME AlignedSeeks, NumbersInRegion
    PROVE  Spec => RefinesFileStream
<1>1. Init => Stream!Init /\ Aligned
  <2> SUFFICES ASSUME Init PROVE Stream!Init /\ Aligned
    OBVIOUS
  <2>1. fv6.offset = 0
    BY DEF Init, NoFile
  <2>2. 0 \div SECTOR_SIZE = 0 /\ 0 * SECTOR_SIZE = 0 /\ 0 \in Nat
    BY SectorOfStart, SectorSize
  <2> QED BY <2>1, <2>2 DEF Stream!Init, Aligned
<1>2. TypeOK /\ Aligned /\ [Next]_vars => Aligned' /\ [Stream!Next]_(Stream!vars)
  <2> SUFFICES ASSUME TypeOK, Aligned, [Next]_vars
               PROVE  Aligned' /\ [Stream!Next]_(Stream!vars)
    OBVIOUS
  <2>1. CASE Open
    BY <2>1, OpenIsStream
  <2>2. CASE ReadBlock
    BY <2>2, ReadIsStream
  <2>3. CASE LSeek
    BY <2>3, SeekIsStream
  <2>4. CASE UNCHANGED vars
    BY <2>4 DEF vars, Stream!vars, Aligned
  <2> QED BY <2>1, <2>2, <2>3, <2>4 DEF Next
<1> QED BY <1>1, <1>2, FileReaderTypeCorrect, PTL DEF Spec, RefinesFileStream, Stream!Spec
=============================================================================
