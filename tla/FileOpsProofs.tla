--------------------------- MODULE FileOpsProofs ---------------------------
(***************************************************************************)
(* Proofs about FileOps, for every disk, every request and every set of    *)
(* sectors that fail in a call: what the operations that read a file have  *)
(* delivered when they end.                                                *)
(***************************************************************************)
EXTENDS FileOps, LayoutLemmas, SequenceTheorems

\* Each file of the disks has its sectors on the disk.
FilesComplete == \A im \in Images, inr \in Inumbers :
    inode_read(im, MountedSuper(im), inr) = 0 =>
        LET i == InodeNo(im, MountedSuper(im), inr)
        IN  \A k \in DOMAIN FileBlocks(im, i) : FileBlock(im, i, k) # Missing

Loops == {"fs_read", "cat", "sha"}

IsOp(o) == /\ o = [kind |-> o.kind, inr |-> o.inr, size |-> o.size, offset |-> o.offset,
                   clean |-> o.clean]
           /\ o.kind # "scan" => o.inr \in Word
           /\ o.size \in Nat \ {0} /\ o.offset \in Nat
           /\ o.kind \in {"cat", "sha"} => o.offset = 0

\* cat and fs_read copy a sector up to its first zero byte.
Shown(kind, sector) == IF kind = "sha" THEN sector ELSE UpToNul(sector)

\* Sector k lies before the end of the file.
Inside(k) == k * SECTOR_SIZE < Inode.i_size

\* What was delivered are the sectors of the file from op.offset on.
Delivered == /\ Inode \in InodeType /\ Allocated(Inode)
             /\ got \in Seq(Sector)
             /\ \A j \in 1 .. Len(got) :
                   /\ Inside(op.offset + j - 1)
                   /\ got[j] = Shown(op.kind, FileBlock(img, Inode, op.offset + j - 1))

\* The cursor stands behind what was delivered.
Reading == /\ Delivered
           /\ op.inr \in Inumbers /\ inode_read(img, MountedSuper(img), op.inr) = 0
           /\ fv6 = [i_number |-> fv6.i_number, i_node |-> Inode,
                     offset |-> (op.offset + Len(got)) * SECTOR_SIZE]
           /\ op.kind = "fs_read" => Len(got) < op.size

AtEnd == ~Inside(op.offset + Len(got))

\* What an operation has delivered when it ends well.
Ended == /\ op.kind = "fs_read" /\ ret >= 0 =>
                /\ Delivered /\ ret = Len(got) * SECTOR_SIZE
                /\ Len(got) = op.size \/ (Len(got) < op.size /\ AtEnd)
         /\ op.kind = "cat" /\ ret = 0 => Delivered /\ AtEnd
         /\ op.kind = "sha" => Delivered /\ (FilesComplete /\ op.clean => AtEnd)

IInv == /\ img \in Images
        /\ pc \in {"idle", "scan"} \cup Loops
        /\ pc # "idle" => op.kind = pc
        /\ IsOp(op)
        /\ pc \in Loops => Reading
        /\ pc = "idle" => Ended
        /\ ret \in Int
-----------------------------------------------------------------------------
(* One sector.                                                             *)

LEMMA UpToNulType == ASSUME NEW sector \in Sector PROVE UpToNul(sector) \in Sector
<1>1. \A w \in Words : sector[w] \in Word
  BY DEF Sector
<1> QED BY <1>1, WordFacts, Zenon DEF UpToNul, Sector

-----------------------------------------------------------------------------
(* An operation opens its file.                                            *)

LEMMA OpenedFile ==
    ASSUME img \in Images, NEW inr \in Inumbers, NEW bad, NEW open, open = Opened(inr, bad)
    PROVE  /\ FillInode(inr, bad) \in Int /\ FillInode(inr, bad) <= 0
           /\ open.ret = FillInode(inr, bad)
           /\ open.ret = 0 =>
                 /\ inode_read(img, MountedSuper(img), inr) = 0
                 /\ InodeNo(img, MountedSuper(img), inr) \in InodeType
                 /\ Allocated(InodeNo(img, MountedSuper(img), inr))
                 /\ open.fv6 = [i_number |-> inr, offset |-> 0,
                                i_node |-> InodeNo(img, MountedSuper(img), inr)]
<1> DEFINE disk == Visible(img, bad)
           s == MountedSuper(img)
           code == inode_read(disk, s, inr)
<1>1. IsImage(img) /\ inr \in Word
  BY OpsAssumption
<1>2. /\ code \in Int /\ code <= 0
      /\ code = 0 => /\ InodeNo(disk, s, inr) \in InodeType
                     /\ Allocated(InodeNo(disk, s, inr))
                     /\ InodeNo(disk, s, inr) = InodeNo(img, s, inr)
                     /\ inode_read(img, s, inr) = 0
  BY <1>1, ReadsTheInode
<1>3. open = [ret |-> code,
              fv6 |-> [i_number |-> inr, offset |-> 0,
                       i_node |-> IF code = 0 THEN InodeNo(disk, s, inr) ELSE NoFile.i_node]]
  BY Zenon DEF Opened, filev6_open
<1>4. FillInode(inr, bad) = code
  BY DEF FillInode
<1> HIDE DEF code, disk
<1> QED BY <1>2, <1>3, <1>4

LEMMA NothingDelivered ==
    ASSUME Inode' \in InodeType, Allocated(Inode'), got' = <<>>
    PROVE  Delivered' /\ Len(got') = 0
<1>1. got' \in Seq(Sector) /\ Len(got') = 0
  BY EmptySeq
<1>2. 1 .. Len(got') = {}
  BY <1>1
<1> QED BY <1>1, <1>2 DEF Delivered

LEMMA OperationIsOp ==
    ASSUME NEW kind, NEW inr, NEW clean, NEW o, o = Operation(kind, inr, clean), inr \in Word
    PROVE  IsOp(o) /\ o.kind = kind /\ o.inr = inr /\ o.offset = 0 /\ o.size = 1 /\ o.clean = clean
<1>1. /\ o.kind = kind /\ o.inr = inr /\ o.offset = 0 /\ o.size = 1 /\ o.clean = clean
      /\ o = [kind |-> o.kind, inr |-> o.inr, size |-> o.size, offset |-> o.offset,
              clean |-> o.clean]
  BY DEF Operation
<1> QED BY <1>1 DEF IsOp

\* A whole file is read from its start.
LEMMA StartsReading ==
    ASSUME IInv, NEW inr \in Inumbers, NEW bad,
           Opened(inr, bad).ret = 0, fv6' = Opened(inr, bad).fv6,
           NEW kind \in Loops \ {"fs_read"}, NEW clean, op' = Operation(kind, inr, clean),
           pc' = kind, got' = <<>>, ret' = 0, img' = img
    PROVE  IInv'
<1> DEFINE i == InodeNo(img, MountedSuper(img), inr)
<1>1. img \in Images /\ inr \in Word
  BY OpsAssumption DEF IInv
<1>2. PICK open : open = Opened(inr, bad)
  OBVIOUS
<1>3. /\ inode_read(img, MountedSuper(img), inr) = 0 /\ i \in InodeType /\ Allocated(i)
      /\ fv6' = [i_number |-> inr, offset |-> 0, i_node |-> i]
  <2>1. open.ret = 0 /\ fv6' = open.fv6
    BY <1>2
  <2> QED BY <1>1, <1>2, <2>1, OpenedFile
<1>4. IsOp(op') /\ op'.kind = kind /\ op'.inr = inr /\ op'.offset = 0
  BY <1>1, OperationIsOp
<1>5. Inode' = i
  BY <1>4 DEF Inode
<1>6. Delivered' /\ Len(got') = 0
  BY <1>3, <1>5, NothingDelivered
<1>7. (op'.offset + Len(got')) * SECTOR_SIZE = 0
  BY <1>4, <1>6, SectorSize
<1> HIDE DEF i
<1>8. Reading'
  <2>1. fv6' = [i_number |-> fv6'.i_number, i_node |-> Inode',
                offset |-> (op'.offset + Len(got')) * SECTOR_SIZE]
    BY <1>3, <1>5, <1>7
  <2>2. op'.inr \in Inumbers /\ inode_read(img', MountedSuper(img'), op'.inr) = 0
    BY <1>3, <1>4
  <2>3. op'.kind # "fs_read"
    BY <1>4
  <2> QED BY <1>6, <2>1, <2>2, <2>3 DEF Reading
<1>9. pc' \in Loops /\ pc' # "idle" /\ op'.kind = pc'
  BY <1>4 DEF Loops
<1> QED BY <1>1, <1>4, <1>8, <1>9 DEF IInv

LEMMA CatStarts == ASSUME IInv, Cat PROVE IInv'
<1>a. PICK inr \in Inumbers, bad \in IoFaults, bad2 \in IoFaults :
          LET inode == InodeNo(Visible(img, bad), MountedSuper(img), inr)
              open  == Opened(inr, bad2)
              code  == IF FillInode(inr, bad) # 0 THEN FillInode(inr, bad)
                       ELSE IF IsDirectory(inode) THEN ERR_CAT_ON_DIRECTORY ELSE OpenCode(open)
          IN  /\ op' = Operation("cat", inr, bad = {} /\ bad2 = {})
              /\ \/ code # 0 /\ Return(code) /\ got' = <<>> /\ UNCHANGED fv6
                 \/ code = 0 /\ Enter("cat", open.fv6)
              /\ UNCHANGED img
  BY Zenon DEF Cat
<1>1. PICK open, code, clean :
          /\ open = Opened(inr, bad2)
          /\ code = IF FillInode(inr, bad) # 0 THEN FillInode(inr, bad)
                    ELSE IF IsDirectory(InodeNo(Visible(img, bad), MountedSuper(img), inr))
                         THEN ERR_CAT_ON_DIRECTORY ELSE OpenCode(open)
          /\ op' = Operation("cat", inr, clean)
          /\ \/ code # 0 /\ Return(code)
             \/ code = 0 /\ Enter("cat", open.fv6)
          /\ img' = img
  BY <1>a, Zenon
<1>2. img \in Images /\ inr \in Word /\ ERR_CAT_ON_DIRECTORY \in Int /\ ERR_CAT_ON_DIRECTORY # 0
  BY OpsAssumption DEF IInv, ERR_CAT_ON_DIRECTORY
<1>3. FillInode(inr, bad) \in Int /\ open.ret \in Int
  BY <1>1, <1>2, OpenedFile
<1>4. IsOp(op') /\ op'.kind = "cat" /\ op'.inr = inr
  BY <1>1, <1>2, OperationIsOp
<1>5. CASE code # 0 /\ Return(code)
  <2>1. pc' = "idle" /\ ret' = code /\ code \in Int
    BY <1>1, <1>2, <1>3, <1>5 DEF Return, OpenCode
  <2>2. Ended'
    BY <1>4, <1>5, <2>1 DEF Ended
  <2> QED BY <1>1, <1>2, <1>4, <2>1, <2>2 DEF IInv, Loops
<1>6. CASE code = 0 /\ Enter("cat", open.fv6)
  <2>1. open.ret = 0
    BY <1>1, <1>2, <1>6 DEF OpenCode
  <2>2. pc' = "cat" /\ fv6' = open.fv6 /\ got' = <<>> /\ ret' = 0
    BY <1>6 DEF Enter
  <2> QED BY <1>1, <2>1, <2>2, StartsReading DEF Loops
<1> QED BY <1>1, <1>5, <1>6

LEMMA ShaStarts == ASSUME IInv, Sha PROVE IInv'
<1>a. PICK inr \in Inumbers, bad \in IoFaults, bad2 \in IoFaults :
          LET inode == InodeNo(Visible(img, bad), MountedSuper(img), inr)
              open  == Opened(inr, bad2)
              reads == /\ FillInode(inr, bad) = 0
                       /\ (inode.i_mode \div IFDIR) % 2 = 0 /\ open.ret = 0
          IN  /\ op' = Operation(IF reads THEN "sha" ELSE "no_sha", inr, bad = {} /\ bad2 = {})
              /\ \/ reads /\ Enter("sha", open.fv6)
                 \/ ~reads /\ Return(FillInode(inr, bad)) /\ got' = <<>> /\ UNCHANGED fv6
              /\ UNCHANGED img
  BY Zenon DEF Sha
<1>b. PICK open, clean : open = Opened(inr, bad2) /\ clean = (bad = {} /\ bad2 = {})
  OBVIOUS
<1>1. PICK kind \in {"sha", "no_sha"} :
          /\ open = Opened(inr, bad2)
          /\ op' = Operation(kind, inr, clean)
          /\ \/ kind = "sha" /\ open.ret = 0 /\ Enter("sha", open.fv6)
             \/ kind = "no_sha" /\ Return(FillInode(inr, bad))
          /\ img' = img
  <2>1. CASE op' = Operation("sha", inr, clean) /\ open.ret = 0 /\ Enter("sha", open.fv6)
    BY <1>a, <1>b, <2>1
  <2>2. CASE op' = Operation("no_sha", inr, clean) /\ Return(FillInode(inr, bad))
    BY <1>a, <1>b, <2>2
  <2> QED BY <1>a, <1>b, <2>1, <2>2, Zenon
<1>2. img \in Images /\ inr \in Word
  BY OpsAssumption DEF IInv
<1>3. FillInode(inr, bad) \in Int
  BY <1>1, <1>2, OpenedFile
<1>4. CASE kind = "no_sha" /\ Return(FillInode(inr, bad))
  <2>1. IsOp(op') /\ op'.kind = "no_sha" /\ op'.inr = inr
    BY <1>1, <1>2, <1>4, OperationIsOp
  <2>2. pc' = "idle" /\ ret' \in Int
    BY <1>3, <1>4 DEF Return
  <2>3. Ended'
    BY <2>1 DEF Ended
  <2> QED BY <1>1, <1>2, <2>1, <2>2, <2>3 DEF IInv, Loops
<1>5. CASE kind = "sha" /\ open.ret = 0 /\ Enter("sha", open.fv6)
  <2>1. pc' = "sha" /\ fv6' = open.fv6 /\ got' = <<>> /\ ret' = 0
    BY <1>5 DEF Enter
  <2> QED BY <1>1, <1>5, <2>1, StartsReading DEF Loops
<1> QED BY <1>1, <1>4, <1>5

LEMMA GetattrKeeps == ASSUME IInv, Getattr PROVE IInv'
<1>1. PICK inr \in Inumbers, bad \in IoFaults :
          /\ op' = Operation("getattr", inr, bad = {})
          /\ Return(FillInode(inr, bad)) /\ img' = img
  BY Zenon DEF Getattr
<1>2. img \in Images /\ inr \in Word
  BY OpsAssumption DEF IInv
<1>3. IsOp(op') /\ op'.kind = "getattr"
  <2>1. PICK clean : op' = Operation("getattr", inr, clean)
    BY <1>1
  <2> QED BY <1>2, <2>1, OperationIsOp
<1>4. pc' = "idle" /\ ret' \in Int
  BY <1>1, <1>2, OpenedFile DEF Return
<1>5. Ended'
  BY <1>3 DEF Ended
<1> QED BY <1>1, <1>2, <1>3, <1>4, <1>5 DEF IInv, Loops

LEMMA ScanKeeps == ASSUME IInv, Scan \/ ScanStep PROVE IInv'
<1>1. img' = img /\ img \in Images
  BY DEF IInv, Scan, ScanStep
<1>2. CASE Scan
  <2>1. PICK clean : op' = Operation("scan", 0, clean) /\ pc' = "scan" /\ ret' = 0
    BY <1>2, Zenon DEF Scan, Enter
  <2>2. IsOp(op') /\ op'.kind = "scan"
    BY <2>1, WordFacts, OperationIsOp
  <2> QED BY <1>1, <2>1, <2>2 DEF IInv, Loops
<1>3. CASE ScanStep
  <2>1. op.kind = "scan" /\ pc = "scan" /\ IsOp(op) /\ ret \in Int
    BY <1>3 DEF IInv, ScanStep
  <2>2. \/ op' = op
        \/ op' = [op EXCEPT !.offset = @ + 1]
        \/ \E clean : op' = [op EXCEPT !.clean = clean]
    BY <1>3, Zenon DEF ScanStep
  <2>3. IsOp(op') /\ op'.kind = "scan"
    BY <2>1, <2>2 DEF IsOp
  <2>4. pc' \in {"idle", "scan"} /\ ret' \in Int
    <3>1. (pc' = pc /\ ret' = ret) \/ Return(0) \/ Return(ERR_IO)
      BY <1>3, Zenon DEF ScanStep
    <3> QED BY <2>1, <3>1 DEF Return, ERR_IO
  <2>5. Ended'
    BY <2>3 DEF Ended
  <2> QED BY <1>1, <2>3, <2>4, <2>5 DEF IInv, Loops
<1> QED BY <1>2, <1>3

\* A seek to the start of a sector is refused exactly behind the end of the file.
LEMMA SeeksSector ==
    ASSUME NEW i, i.i_size \in Nat, NEW k \in Nat,
           NEW f, f = [i_number |-> f.i_number, i_node |-> i, offset |-> f.offset],
           NEW seek, seek = filev6_lseek(f, k * SECTOR_SIZE)
    PROVE  \/ /\ seek.ret = 0
              /\ seek.fv6 = [i_number |-> seek.fv6.i_number, i_node |-> i,
                             offset |-> k * SECTOR_SIZE]
           \/ seek.ret # 0 /\ ~(k * SECTOR_SIZE < i.i_size)
<1>1. PICK start \in Nat : start = k * SECTOR_SIZE
  BY SectorSize
<1>2. PICK g : g = [f EXCEPT !.offset = start]
  OBVIOUS
<1>3. f.i_node = i
  OBVIOUS
<1>4. seek = IF start > i.i_size \/ start < 0
             THEN [ret |-> ERR_OFFSET_OUT_OF_RANGE, fv6 |-> f] ELSE [ret |-> 0, fv6 |-> g]
  BY <1>1, <1>2, <1>3, Zenon DEF filev6_lseek
<1>5. g = [i_number |-> g.i_number, i_node |-> i, offset |-> start]
  BY <1>2, <1>3, MovedCursor
<1>6. CASE start > i.i_size
  BY <1>1, <1>4, <1>6 DEF ERR_OFFSET_OUT_OF_RANGE
<1>7. CASE ~(start > i.i_size)
  <2>1. seek.ret = 0 /\ seek.fv6 = g
    BY <1>1, <1>4, <1>7
  <2> QED BY <1>1, <1>5, <2>1
<1> QED BY <1>6, <1>7

LEMMA FsReadStarts == ASSUME IInv, FsRead PROVE IInv'
<1>1. PICK inr \in Inumbers, request \in Requests, bad \in IoFaults, bad2 \in IoFaults :
          LET open == Opened(inr, bad2)
              seek == filev6_lseek(open.fv6, request[2] * SECTOR_SIZE)
              code == IF FillInode(inr, bad) # 0 THEN FillInode(inr, bad) ELSE OpenCode(open)
          IN  /\ pc = "idle"
              /\ op' = [kind |-> "fs_read", inr |-> inr, size |-> request[1],
                        offset |-> request[2], clean |-> bad = {} /\ bad2 = {}]
              /\ \/ code # 0 /\ Return(code) /\ got' = <<>> /\ UNCHANGED fv6
                 \/ code = 0 /\ seek.ret # 0 /\ Return(0) /\ got' = <<>> /\ UNCHANGED fv6
                 \/ code = 0 /\ seek.ret = 0 /\ Enter("fs_read", seek.fv6)
              /\ UNCHANGED img
  BY Zenon DEF FsRead
<1>2. PICK open, clean : open = Opened(inr, bad2) /\ clean = (bad = {} /\ bad2 = {})
  OBVIOUS
<1>3. PICK seek, code :
          /\ seek = filev6_lseek(open.fv6, request[2] * SECTOR_SIZE)
          /\ code = IF FillInode(inr, bad) # 0 THEN FillInode(inr, bad) ELSE OpenCode(open)
  OBVIOUS
<1>4. /\ open = Opened(inr, bad2)
      /\ seek = filev6_lseek(open.fv6, request[2] * SECTOR_SIZE)
      /\ code = IF FillInode(inr, bad) # 0 THEN FillInode(inr, bad) ELSE OpenCode(open)
      /\ op' = [kind |-> "fs_read", inr |-> inr, size |-> request[1],
                offset |-> request[2], clean |-> clean]
      /\ \/ code # 0 /\ Return(code)
         \/ code = 0 /\ seek.ret # 0 /\ Return(0) /\ got' = <<>>
         \/ code = 0 /\ seek.ret = 0 /\ Enter("fs_read", seek.fv6)
      /\ img' = img
  BY <1>1, <1>2, <1>3, Zenon
<1> DEFINE i == InodeNo(img, MountedSuper(img), inr)
<1>5. /\ img \in Images /\ inr \in Word /\ inr \in Inumbers
      /\ request[1] \in Nat \ {0} /\ request[2] \in Nat
  BY OpsAssumption DEF IInv
<1>6. /\ FillInode(inr, bad) \in Int /\ FillInode(inr, bad) <= 0
      /\ open.ret \in Int /\ open.ret <= 0
      /\ open.ret = 0 =>
            /\ inode_read(img, MountedSuper(img), inr) = 0 /\ i \in InodeType /\ Allocated(i)
            /\ open.fv6 = [i_number |-> inr, offset |-> 0, i_node |-> i]
  <2>1. /\ FillInode(inr, bad) \in Int /\ FillInode(inr, bad) <= 0
    BY <1>5, OpenedFile
  <2>2. FillInode(inr, bad2) \in Int /\ FillInode(inr, bad2) <= 0 /\ open.ret = FillInode(inr, bad2)
    BY <1>4, <1>5, OpenedFile
  <2>3. open.ret = 0 =>
            /\ inode_read(img, MountedSuper(img), inr) = 0 /\ i \in InodeType /\ Allocated(i)
            /\ open.fv6 = [i_number |-> inr, offset |-> 0, i_node |-> i]
    BY <1>4, <1>5, OpenedFile
  <2> QED BY <2>1, <2>2, <2>3
<1>7. code \in Int /\ code <= 0 /\ (code = 0 => open.ret = 0)
  BY <1>4, <1>6 DEF OpenCode
<1>8. /\ op'.kind = "fs_read" /\ op'.inr = inr /\ op'.size = request[1] /\ op'.offset = request[2]
      /\ op' = [kind |-> op'.kind, inr |-> op'.inr, size |-> op'.size, offset |-> op'.offset,
                clean |-> op'.clean]
  BY <1>4
<1>9. IsOp(op') /\ op'.size \in Nat \ {0} /\ op'.offset \in Nat
  BY <1>5, <1>8 DEF IsOp
<1>10. Inode' = i
  BY <1>4, <1>8 DEF Inode
<1> HIDE DEF i
<1>11. CASE code # 0 /\ Return(code)
  <2>1. pc' = "idle" /\ ret' = code /\ ret' < 0
    BY <1>7, <1>11 DEF Return
  <2>2. Ended'
    BY <1>7, <1>8, <2>1 DEF Ended
  <2> QED BY <1>4, <1>5, <1>7, <1>8, <1>9, <2>1, <2>2 DEF IInv, Loops
<1>12. CASE code = 0 /\ open.ret = 0 /\ got' = <<>>
  <2>1. i.i_size \in Nat /\ i \in InodeType /\ Allocated(i)
    BY <1>6, <1>12, SizeIsNat
  <2>2. Delivered' /\ Len(got') = 0
    BY <1>10, <1>12, <2>1, NothingDelivered
  <2>3. op'.offset + Len(got') = request[2]
    BY <1>5, <1>8, <2>2
  <2>4. PICK f : f = open.fv6
    OBVIOUS
  <2>5. f = [i_number |-> f.i_number, i_node |-> i, offset |-> f.offset]
    BY <1>6, <1>12, <2>4
  <2>6. \/ /\ seek.ret = 0
           /\ seek.fv6 = [i_number |-> seek.fv6.i_number, i_node |-> i,
                          offset |-> request[2] * SECTOR_SIZE]
        \/ seek.ret # 0 /\ ~(request[2] * SECTOR_SIZE < i.i_size)
    BY <1>4, <1>5, <2>1, <2>4, <2>5, SeeksSector
  <2>7. CASE seek.ret # 0 /\ Return(0)
    <3>1. pc' = "idle" /\ ret' = 0
      BY <2>7 DEF Return
    <3>2. AtEnd'
      BY <1>10, <2>3, <2>6, <2>7 DEF AtEnd, Inside
    <3>3. Len(got') * SECTOR_SIZE = 0 /\ Len(got') < op'.size
      BY <1>9, <2>2, SectorSize
    <3>4. Ended'
      BY <1>8, <2>2, <3>1, <3>2, <3>3 DEF Ended
    <3> QED BY <1>4, <1>5, <1>8, <1>9, <3>1, <3>4 DEF IInv, Loops
  <2>8. CASE seek.ret = 0 /\ Enter("fs_read", seek.fv6)
    <3>1. pc' = "fs_read" /\ ret' = 0 /\ fv6' = seek.fv6
      BY <2>8 DEF Enter
    <3>2. fv6' = [i_number |-> fv6'.i_number, i_node |-> Inode',
                  offset |-> (op'.offset + Len(got')) * SECTOR_SIZE]
      BY <1>10, <2>3, <2>6, <2>8, <3>1
    <3>3. op'.inr \in Inumbers /\ inode_read(img', MountedSuper(img'), op'.inr) = 0
      BY <1>4, <1>5, <1>6, <1>8, <1>12
    <3>4. Len(got') < op'.size
      BY <1>9, <2>2
    <3>5. Reading'
      BY <2>2, <3>2, <3>3, <3>4 DEF Reading
    <3> QED BY <1>4, <1>5, <1>8, <1>9, <3>1, <3>5 DEF IInv, Loops
  <2> QED BY <1>4, <1>12, <2>7, <2>8
<1>13. code = 0 => open.ret = 0
  BY <1>7
<1>14. Enter("fs_read", seek.fv6) => got' = <<>>
  BY DEF Enter
<1> QED BY <1>4, <1>11, <1>12, <1>13, <1>14

-----------------------------------------------------------------------------
(* A loop goes round.                                                      *)

LEMMA OpStays ==
    ASSUME IsOp(op), NEW clean, op' = [op EXCEPT !.clean = clean]
    PROVE  /\ IsOp(op') /\ op'.kind = op.kind /\ op'.inr = op.inr /\ op'.size = op.size
           /\ op'.offset = op.offset /\ op'.clean = clean
<1>1. /\ op'.kind = op.kind /\ op'.inr = op.inr /\ op'.size = op.size
      /\ op'.offset = op.offset /\ op'.clean = clean
      /\ op' = [kind |-> op'.kind, inr |-> op'.inr, size |-> op'.size, offset |-> op'.offset,
                clean |-> op'.clean]
  BY DEF IsOp
<1> QED BY <1>1 DEF IsOp

LEMMA ShownType ==
    ASSUME NEW kind, NEW sector \in Sector PROVE Shown(kind, sector) \in Sector
  BY UpToNulType DEF Shown

\* What was delivered stays the content of the file.
LEMMA DeliveredStays ==
    ASSUME Delivered, IsOp(op), NEW clean, op' = [op EXCEPT !.clean = clean],
           img' = img, got' = got
    PROVE  Delivered' /\ AtEnd' = AtEnd
<1>1. /\ op'.kind = op.kind /\ op'.inr = op.inr /\ op'.offset = op.offset
  BY OpStays
<1>2. Inode' = Inode
  BY <1>1 DEF Inode
<1>3. \A k : Inside(k)' = Inside(k)
  BY <1>2 DEF Inside
<1>4. Delivered'
  BY <1>1, <1>2, <1>3 DEF Delivered
<1>5. AtEnd' = AtEnd
  BY <1>1, <1>2 DEF AtEnd, Inside
<1> QED BY <1>4, <1>5

\* One more sector of it.
LEMMA DeliveredGrows ==
    ASSUME Delivered, IsOp(op), NEW clean, op' = [op EXCEPT !.clean = clean], img' = img,
           NEW block \in Sector, block = FileBlock(img, Inode, op.offset + Len(got)),
           Inside(op.offset + Len(got)), got' = Append(got, Shown(op.kind, block))
    PROVE  Delivered' /\ Len(got') = Len(got) + 1
<1>1. op'.kind = op.kind /\ op'.inr = op.inr /\ op'.offset = op.offset /\ op.offset \in Nat
  BY OpStays DEF IsOp
<1>2. Inode' = Inode
  BY <1>1 DEF Inode
<1>3. PICK shown \in Sector : shown = Shown(op.kind, block)
  BY ShownType
<1>4. /\ got' \in Seq(Sector) /\ Len(got') = Len(got) + 1 /\ Len(got) \in Nat
      /\ \A j \in 1 .. Len(got) : got'[j] = got[j]
      /\ got'[Len(got) + 1] = shown
  BY <1>3, AppendProperties DEF Delivered
<1>5. ASSUME NEW j \in 1 .. Len(got')
      PROVE  /\ Inside(op.offset + j - 1)'
             /\ got'[j] = Shown(op'.kind, FileBlock(img', Inode', op'.offset + j - 1))
  <2>1. CASE j \in 1 .. Len(got)
    <3>1. /\ Inside(op.offset + j - 1)
          /\ got[j] = Shown(op.kind, FileBlock(img, Inode, op.offset + j - 1))
      BY <2>1 DEF Delivered
    <3>2. Inside(op.offset + j - 1)' = Inside(op.offset + j - 1)
      BY <1>1, <1>2 DEF Inside
    <3> QED BY <1>1, <1>2, <1>4, <2>1, <3>1, <3>2
  <2>2. CASE j = Len(got) + 1
    <3>1. op.offset + j - 1 = op.offset + Len(got)
      BY <1>1, <1>4, <2>2
    <3>2. Inside(op.offset + j - 1)' = Inside(op.offset + Len(got))
      BY <1>1, <1>2, <3>1 DEF Inside
    <3>3. got'[j] = shown
      BY <1>4, <2>2
    <3> QED BY <1>1, <1>2, <1>3, <3>1, <3>2, <3>3
  <2> QED BY <1>4, <2>1, <2>2
<1> QED BY <1>2, <1>4, <1>5 DEF Delivered

\* The next sector is delivered, or the file ends here, or a sector could not be read; on
\* a complete file that is one that failed.
LEMMA LoopReads ==
    ASSUME IInv, pc \in Loops, NEW bad, NEW r, r = filev6_readblock(Visible(img, bad), fv6)
    PROVE  /\ op.offset \in Nat /\ Len(got) \in Nat
           /\ \/ r.ret = 0 /\ AtEnd
              \/ /\ r.ret = SECTOR_SIZE /\ Inside(op.offset + Len(got))
                 /\ r.data \in Sector /\ r.data = FileBlock(img, Inode, op.offset + Len(got))
                 /\ r.fv6 = [i_number |-> r.fv6.i_number, i_node |-> Inode,
                             offset |-> (op.offset + Len(got) + 1) * SECTOR_SIZE]
              \/ /\ r.ret \in Int /\ r.ret < 0
                 /\ FilesComplete => bad # {}
<1>1. /\ IsImage(img) /\ img \in Images /\ Reading /\ op.offset \in Nat
      /\ Inode \in InodeType /\ Allocated(Inode) /\ got \in Seq(Sector)
  BY OpsAssumption DEF IInv, Reading, Delivered, IsOp
<1>2. Len(got) \in Nat
  BY <1>1, LenProperties
<1>3. PICK k \in Nat : k = op.offset + Len(got)
  BY <1>1, <1>2
<1>4. fv6 = [i_number |-> fv6.i_number, i_node |-> Inode, offset |-> k * SECTOR_SIZE]
  BY <1>1, <1>3 DEF Reading
<1>5. PICK i : i = Inode
  OBVIOUS
<1>6. \/ r.ret = 0 /\ ~(k * SECTOR_SIZE < i.i_size)
      \/ /\ r.ret = SECTOR_SIZE /\ k * SECTOR_SIZE < i.i_size
         /\ r.data = FileBlock(img, i, k) /\ r.data \in Sector
         /\ r.fv6 = [i_number |-> r.fv6.i_number, i_node |-> i, offset |-> (k + 1) * SECTOR_SIZE]
      \/ /\ r.ret \in Int /\ r.ret < 0 /\ k * SECTOR_SIZE < i.i_size /\ r.fv6 = fv6
         /\ bad = {} => FileBlock(img, i, k) = Missing
  BY <1>1, <1>4, <1>5, ReadsSectorK
<1>7. FilesComplete /\ k * SECTOR_SIZE < i.i_size => FileBlock(img, i, k) # Missing
  <2> SUFFICES ASSUME FilesComplete, k * SECTOR_SIZE < i.i_size
               PROVE  FileBlock(img, i, k) # Missing
    OBVIOUS
  <2>1. op.inr \in Inumbers /\ inode_read(img, MountedSuper(img), op.inr) = 0
    BY <1>1 DEF Reading
  <2>2. i = InodeNo(img, MountedSuper(img), op.inr) /\ i.i_size \in Nat
    BY <1>1, <1>5, SizeIsNat DEF Inode
  <2>3. k \in DOMAIN FileBlocks(img, i)
    BY <2>2, SectorBeforeEnd DEF FileBlocks
  <2> QED BY <1>1, <2>1, <2>2, <2>3 DEF FilesComplete
<1> QED BY <1>1, <1>2, <1>3, <1>5, <1>6, <1>7 DEF AtEnd, Inside

\* The cursor follows what was delivered.
LEMMA LoopGoesOn ==
    ASSUME IInv, pc \in Loops, NEW clean, op' = [op EXCEPT !.clean = clean], img' = img,
           Inside(op.offset + Len(got)),
           NEW block \in Sector, block = FileBlock(img, Inode, op.offset + Len(got)),
           got' = Append(got, Shown(op.kind, block)),
           fv6' = [i_number |-> fv6'.i_number, i_node |-> Inode,
                   offset |-> (op.offset + Len(got) + 1) * SECTOR_SIZE]
    PROVE  /\ Delivered' /\ Len(got') = Len(got) + 1
           /\ op.kind = "fs_read" => Len(got') <= op.size
           /\ (op.kind = "fs_read" => Len(got') < op.size) => Reading'
<1>1. /\ Reading /\ IsOp(op) /\ op.offset \in Nat /\ op.size \in Nat
      /\ op'.kind = op.kind /\ op'.inr = op.inr /\ op'.size = op.size /\ op'.offset = op.offset
  BY OpStays DEF IInv, IsOp
<1>2. Delivered' /\ Len(got') = Len(got) + 1
  BY <1>1, DeliveredGrows DEF Reading
<1>3. Len(got) \in Nat
  BY <1>1, LenProperties DEF Reading, Delivered
<1>4. Inode' = Inode
  BY <1>1 DEF Inode
<1>5. op.offset + Len(got) + 1 = op'.offset + Len(got')
  <2>1. PICK a, n \in Nat : a = op.offset /\ n = Len(got)
    BY <1>1, <1>3
  <2>2. op'.offset = a /\ Len(got') = n + 1
    BY <1>1, <1>2, <2>1
  <2>3. op.offset + Len(got) + 1 = a + n + 1
    BY <2>1
  <2>4. op'.offset + Len(got') = a + (n + 1)
    BY <2>2, Zenon
  <2>5. a + n + 1 = a + (n + 1)
    OBVIOUS
  <2> QED BY <2>3, <2>4, <2>5, Zenon
<1>6. op.kind = "fs_read" => Len(got') <= op.size
  BY <1>1, <1>2, <1>3 DEF Reading
<1>7. fv6' = [i_number |-> fv6'.i_number, i_node |-> Inode',
              offset |-> (op'.offset + Len(got')) * SECTOR_SIZE]
  BY <1>4, <1>5
<1>8. op'.inr \in Inumbers /\ inode_read(img', MountedSuper(img'), op'.inr) = 0
  BY <1>1 DEF Reading
<1>9. (op.kind = "fs_read" => Len(got') < op.size) => Reading'
  BY <1>1, <1>2, <1>7, <1>8 DEF Reading
<1> QED BY <1>2, <1>6, <1>9

LEMMA FsReadGoes == ASSUME IInv, FsReadStep PROVE IInv'
<1>1. PICK bad \in IoFaults :
          LET r == filev6_readblock(Visible(img, bad), fv6)
          IN  /\ pc = "fs_read"
              /\ fv6' = r.fv6
              /\ \/ /\ r.ret = SECTOR_SIZE
                    /\ got' = Append(got, UpToNul(r.data))
                    /\ IF FsReadGoesOn(Len(got')) THEN UNCHANGED <<pc, ret>>
                       ELSE Return(Len(got') * SECTOR_SIZE)
                 \/ r.ret = 0 /\ Return(Len(got) * SECTOR_SIZE) /\ UNCHANGED got
                 \/ r.ret < 0 /\ Return(r.ret) /\ UNCHANGED got
              /\ op' = [op EXCEPT !.clean = @ /\ bad = {}]
              /\ UNCHANGED img
  BY Zenon DEF FsReadStep
<1>2. PICK r, clean : /\ r = filev6_readblock(Visible(img, bad), fv6)
                      /\ op' = [op EXCEPT !.clean = clean]
  BY <1>1, Zenon
<1>3. /\ pc = "fs_read" /\ fv6' = r.fv6 /\ img' = img
      /\ \/ /\ r.ret = SECTOR_SIZE
            /\ got' = Append(got, UpToNul(r.data))
            /\ IF FsReadGoesOn(Len(got')) THEN UNCHANGED <<pc, ret>>
               ELSE Return(Len(got') * SECTOR_SIZE)
         \/ r.ret = 0 /\ Return(Len(got) * SECTOR_SIZE) /\ got' = got
         \/ r.ret < 0 /\ Return(r.ret) /\ got' = got
  BY <1>1, <1>2, Zenon
<1>4. /\ pc \in Loops /\ op.kind = "fs_read" /\ IsOp(op) /\ Reading /\ img \in Images
      /\ ret \in Int
  BY <1>3 DEF IInv, Loops
<1>5. /\ IsOp(op') /\ op'.kind = "fs_read" /\ op'.size = op.size /\ op.size \in Nat
  BY <1>2, <1>4, OpStays DEF IsOp
<1>6. /\ op.offset \in Nat /\ Len(got) \in Nat
      /\ \/ r.ret = 0 /\ AtEnd
         \/ /\ r.ret = SECTOR_SIZE /\ Inside(op.offset + Len(got))
            /\ r.data \in Sector /\ r.data = FileBlock(img, Inode, op.offset + Len(got))
            /\ r.fv6 = [i_number |-> r.fv6.i_number, i_node |-> Inode,
                        offset |-> (op.offset + Len(got) + 1) * SECTOR_SIZE]
         \/ r.ret \in Int /\ r.ret < 0
  BY <1>2, <1>4, LoopReads
<1>7. SECTOR_SIZE \in Nat \ {0} /\ ~(SECTOR_SIZE < 0) /\ SECTOR_SIZE # 0
  BY SectorSize
<1>8. CASE r.ret = SECTOR_SIZE
  <2>1. /\ got' = Append(got, Shown(op.kind, r.data))
        /\ \/ Len(got') < op.size /\ pc' = pc /\ ret' = ret
           \/ ~(Len(got') < op.size) /\ Return(Len(got') * SECTOR_SIZE)
    BY <1>3, <1>4, <1>7, <1>8 DEF Shown, FsReadGoesOn
  <2>2. /\ Delivered' /\ Len(got') = Len(got) + 1 /\ Len(got') <= op.size
        /\ Len(got') < op.size => Reading'
    BY <1>2, <1>3, <1>4, <1>6, <1>7, <1>8, <2>1, LoopGoesOn
  <2>3. CASE Len(got') < op.size /\ pc' = pc /\ ret' = ret
    BY <1>3, <1>4, <1>5, <2>2, <2>3 DEF IInv, Loops
  <2>4. CASE ~(Len(got') < op.size) /\ Return(Len(got') * SECTOR_SIZE)
    <3>1. pc' = "idle" /\ ret' = Len(got') * SECTOR_SIZE /\ Len(got') = op'.size
      BY <1>5, <1>6, <2>2, <2>4 DEF Return
    <3>2. Ended'
      BY <1>5, <2>2, <3>1 DEF Ended
    <3>3. ret' \in Int
      BY <1>5, <1>7, <3>1
    <3> QED BY <1>3, <1>4, <1>5, <3>1, <3>2, <3>3 DEF IInv, Loops
  <2> QED BY <2>1, <2>3, <2>4
<1>9. CASE r.ret = 0 /\ Return(Len(got) * SECTOR_SIZE) /\ got' = got
  <2>1. pc' = "idle" /\ ret' = Len(got') * SECTOR_SIZE /\ ret' \in Int
    BY <1>6, <1>7, <1>9 DEF Return
  <2>2. Delivered' /\ AtEnd' = AtEnd
    BY <1>2, <1>3, <1>4, <1>9, DeliveredStays DEF Reading
  <2>3. AtEnd /\ Len(got') < op'.size
    BY <1>4, <1>5, <1>6, <1>7, <1>9 DEF Reading
  <2>4. Ended'
    BY <1>5, <2>1, <2>2, <2>3 DEF Ended
  <2> QED BY <1>3, <1>4, <1>5, <2>1, <2>4 DEF IInv, Loops
<1>10. CASE r.ret < 0 /\ Return(r.ret) /\ got' = got
  <2>1. pc' = "idle" /\ ret' = r.ret /\ ret' \in Int /\ ret' < 0
    BY <1>6, <1>7, <1>10 DEF Return
  <2>2. Ended'
    BY <1>5, <2>1 DEF Ended
  <2> QED BY <1>3, <1>4, <1>5, <2>1, <2>2 DEF IInv, Loops
<1> QED BY <1>3, <1>8, <1>9, <1>10

LEMMA CatGoes == ASSUME IInv, CatStep PROVE IInv'
<1>1. PICK bad \in IoFaults :
          LET r == filev6_readblock(Visible(img, bad), fv6)
          IN  /\ pc = "cat"
              /\ fv6' = r.fv6
              /\ \/ r.ret = SECTOR_SIZE /\ got' = Append(got, UpToNul(r.data))
                    /\ UNCHANGED <<pc, ret>>
                 \/ r.ret # SECTOR_SIZE /\ Return(r.ret) /\ UNCHANGED got
              /\ op' = [op EXCEPT !.clean = @ /\ bad = {}]
              /\ UNCHANGED img
  BY Zenon DEF CatStep
<1>2. PICK r, clean : /\ r = filev6_readblock(Visible(img, bad), fv6)
                      /\ op' = [op EXCEPT !.clean = clean]
  BY <1>1, Zenon
<1>3. /\ pc = "cat" /\ fv6' = r.fv6 /\ img' = img
      /\ \/ r.ret = SECTOR_SIZE /\ got' = Append(got, UpToNul(r.data)) /\ pc' = pc /\ ret' = ret
         \/ r.ret # SECTOR_SIZE /\ Return(r.ret) /\ got' = got
  BY <1>1, <1>2, Zenon
<1>4. /\ pc \in Loops /\ op.kind = "cat" /\ IsOp(op) /\ Reading /\ img \in Images /\ ret \in Int
  BY <1>3 DEF IInv, Loops
<1>5. IsOp(op') /\ op'.kind = "cat"
  BY <1>2, <1>4, OpStays
<1>6. /\ op.offset \in Nat /\ Len(got) \in Nat
      /\ \/ r.ret = 0 /\ AtEnd
         \/ /\ r.ret = SECTOR_SIZE /\ Inside(op.offset + Len(got))
            /\ r.data \in Sector /\ r.data = FileBlock(img, Inode, op.offset + Len(got))
            /\ r.fv6 = [i_number |-> r.fv6.i_number, i_node |-> Inode,
                        offset |-> (op.offset + Len(got) + 1) * SECTOR_SIZE]
         \/ r.ret \in Int /\ r.ret < 0
  BY <1>2, <1>4, LoopReads
<1>7. SECTOR_SIZE \in Nat \ {0} /\ ~(SECTOR_SIZE < 0) /\ SECTOR_SIZE # 0
  BY SectorSize
<1>8. CASE r.ret = SECTOR_SIZE
  <2>1. got' = Append(got, Shown(op.kind, r.data)) /\ pc' = pc /\ ret' = ret
    BY <1>3, <1>4, <1>8 DEF Shown
  <2>2. Reading'
    BY <1>2, <1>3, <1>4, <1>6, <1>7, <1>8, <2>1, LoopGoesOn
  <2> QED BY <1>3, <1>4, <1>5, <2>1, <2>2 DEF IInv, Loops
<1>9. CASE r.ret # SECTOR_SIZE /\ Return(r.ret) /\ got' = got
  <2>1. pc' = "idle" /\ ret' = r.ret /\ ret' \in Int /\ (ret' = 0 => AtEnd)
    BY <1>6, <1>9 DEF Return
  <2>2. Delivered' /\ AtEnd' = AtEnd
    BY <1>2, <1>3, <1>4, <1>9, DeliveredStays DEF Reading
  <2>3. Ended'
    BY <1>5, <2>1, <2>2 DEF Ended
  <2> QED BY <1>3, <1>4, <1>5, <2>1, <2>3 DEF IInv, Loops
<1> QED BY <1>3, <1>8, <1>9

LEMMA ShaGoes == ASSUME IInv, ShaStep PROVE IInv'
<1>1. PICK bad \in IoFaults :
          LET r == filev6_readblock(Visible(img, bad), fv6)
          IN  /\ pc = "sha"
              /\ fv6' = r.fv6
              /\ \/ ShaGoesOn(r.ret) /\ got' = Append(got, r.data) /\ UNCHANGED <<pc, ret>>
                 \/ ~ShaGoesOn(r.ret) /\ Return(0) /\ UNCHANGED got
              /\ op' = [op EXCEPT !.clean = @ /\ bad = {}]
              /\ UNCHANGED img
  BY Zenon DEF ShaStep
<1>2. PICK r, clean : /\ r = filev6_readblock(Visible(img, bad), fv6)
                      /\ clean = (op.clean /\ bad = {}) /\ op' = [op EXCEPT !.clean = clean]
  BY <1>1, Zenon
<1>3. /\ pc = "sha" /\ fv6' = r.fv6 /\ img' = img
      /\ \/ r.ret = SECTOR_SIZE /\ got' = Append(got, r.data) /\ pc' = pc /\ ret' = ret
         \/ r.ret # SECTOR_SIZE /\ Return(0) /\ got' = got
  BY <1>1, <1>2, Zenon DEF ShaGoesOn
<1>4. /\ pc \in Loops /\ op.kind = "sha" /\ IsOp(op) /\ Reading /\ img \in Images /\ ret \in Int
  BY <1>3 DEF IInv, Loops
<1>5. IsOp(op') /\ op'.kind = "sha" /\ op'.clean = clean
  BY <1>2, <1>4, OpStays
<1>6. /\ op.offset \in Nat /\ Len(got) \in Nat
      /\ \/ r.ret = 0 /\ AtEnd
         \/ /\ r.ret = SECTOR_SIZE /\ Inside(op.offset + Len(got))
            /\ r.data \in Sector /\ r.data = FileBlock(img, Inode, op.offset + Len(got))
            /\ r.fv6 = [i_number |-> r.fv6.i_number, i_node |-> Inode,
                        offset |-> (op.offset + Len(got) + 1) * SECTOR_SIZE]
         \/ r.ret \in Int /\ r.ret < 0 /\ (FilesComplete => bad # {})
  BY <1>2, <1>4, LoopReads
<1>7. SECTOR_SIZE \in Nat \ {0} /\ ~(SECTOR_SIZE < 0) /\ SECTOR_SIZE # 0
  BY SectorSize
<1>8. CASE r.ret = SECTOR_SIZE
  <2>1. got' = Append(got, Shown(op.kind, r.data)) /\ pc' = pc /\ ret' = ret
    BY <1>3, <1>4, <1>8 DEF Shown
  <2>2. Reading'
    BY <1>2, <1>3, <1>4, <1>6, <1>7, <1>8, <2>1, LoopGoesOn
  <2> QED BY <1>3, <1>4, <1>5, <2>1, <2>2 DEF IInv, Loops
<1>9. CASE r.ret # SECTOR_SIZE /\ Return(0) /\ got' = got
  <2>1. pc' = "idle" /\ ret' = 0
    BY <1>9 DEF Return
  <2>2. Delivered' /\ AtEnd' = AtEnd
    BY <1>2, <1>3, <1>4, <1>9, DeliveredStays DEF Reading
  <2>3. AtEnd \/ (FilesComplete => bad # {})
    BY <1>6, <1>9
  <2>4. clean => bad = {}
    BY <1>2, Zenon
  <2>5. FilesComplete /\ op'.clean => AtEnd'
    <3>1. SUFFICES ASSUME FilesComplete, clean PROVE AtEnd
      BY <1>5, <2>2
    <3> QED BY <2>3, <2>4, <3>1
  <2>6. Ended'
    BY <1>5, <2>2, <2>5 DEF Ended
  <2> QED BY <1>3, <1>4, <1>5, <2>1, <2>6 DEF IInv, Loops
<1> QED BY <1>3, <1>8, <1>9

LEMMA IInvHolds == Spec => []IInv
<1>1. Init => IInv
  <2> SUFFICES ASSUME Init PROVE IInv
    OBVIOUS
  <2>1. PICK clean : /\ op = Operation("none", 0, clean) /\ img \in Images /\ pc = "idle"
                     /\ ret = 0
    BY Zenon DEF Init
  <2>2. IsOp(op) /\ op.kind = "none"
    BY <2>1, WordFacts, OperationIsOp
  <2>3. Ended
    BY <2>2 DEF Ended
  <2> QED BY <2>1, <2>2, <2>3 DEF IInv, Loops
<1>2. IInv /\ [Next]_vars => IInv'
  <2> SUFFICES ASSUME IInv, [Next]_vars PROVE IInv'
    OBVIOUS
  <2>1. CASE FsRead
    BY <2>1, FsReadStarts
  <2>2. CASE Cat
    BY <2>2, CatStarts
  <2>3. CASE Sha
    BY <2>3, ShaStarts
  <2>4. CASE Getattr
    BY <2>4, GetattrKeeps
  <2>5. CASE Scan \/ ScanStep
    BY <2>5, ScanKeeps
  <2>6. CASE FsReadStep
    BY <2>6, FsReadGoes
  <2>7. CASE CatStep
    BY <2>7, CatGoes
  <2>8. CASE ShaStep
    BY <2>8, ShaGoes
  <2>9. CASE UNCHANGED vars
    <3>1. /\ img' = img /\ pc' = pc /\ op' = op /\ fv6' = fv6 /\ got' = got /\ ret' = ret
      BY <2>9 DEF vars
    <3>2. Delivered' = Delivered /\ AtEnd' = AtEnd
      BY <3>1 DEF Delivered, AtEnd, Inside, Inode
    <3>3. Reading' = Reading /\ Ended' = Ended
      BY <3>1, <3>2 DEF Reading, Ended, Inode
    <3> QED BY <3>1, <3>3 DEF IInv
  <2> QED BY <2>1, <2>2, <2>3, <2>4, <2>5, <2>6, <2>7, <2>8, <2>9 DEF Next, Step
<1> QED BY <1>1, <1>2, PTL DEF Spec

\* While a loop runs, its file is an allocated inode and its cursor a position in it.
THEOREM FileOpsTypeCorrect == Spec => []TypeOK
<1>1. IInv => TypeOK
  <2> SUFFICES ASSUME IInv PROVE TypeOK
    OBVIOUS
  <2>1. ASSUME pc \in Loops PROVE Allocated(fv6.i_node) /\ fv6.offset \in Nat
    <3>1. Reading /\ IsOp(op)
      BY <2>1 DEF IInv
    <3>2. Len(got) \in Nat /\ op.offset \in Nat /\ Allocated(Inode)
      BY <3>1, LenProperties DEF Reading, Delivered, IsOp
    <3>3. PICK k \in Nat : k = op.offset + Len(got)
      BY <3>2
    <3>4. k * SECTOR_SIZE \in Nat
      BY SectorSize
    <3>5. fv6.i_node = Inode /\ fv6.offset = k * SECTOR_SIZE
      BY <3>1, <3>3 DEF Reading
    <3> QED BY <3>2, <3>4, <3>5
  <2> QED BY <2>1 DEF IInv, TypeOK, Loops
<1> QED BY <1>1, IInvHolds, PTL

-----------------------------------------------------------------------------
(* What the operations have delivered.                                     *)

\* A complete delivery is the request, up to the end of the file.
LEMMA DeliversTheRequest ==
    ASSUME Delivered, op.offset \in Nat, NEW size \in Nat,
           \/ Len(got) = size
           \/ Len(got) < size /\ AtEnd
           \/ Len(got) <= size /\ size = SectorsOf(Inode.i_size) /\ AtEnd
    PROVE  /\ DOMAIN Requested(size, op.offset) = 1 .. Len(got)
           /\ \A j \in 1 .. Len(got) :
                 /\ Requested(size, op.offset)[j] = FileBlock(img, Inode, op.offset + j - 1)
                 /\ op.offset + j - 1 \in DOMAIN FileBlocks(img, Inode)
<1> DEFINE N == SectorsOf(Inode.i_size)
           n == Len(got)
           count == N - op.offset
           top == IF count < size THEN count ELSE size
<1>1. Inode.i_size \in Nat /\ n \in Nat /\ op.offset \in Nat
  BY SizeIsNat, LenProperties DEF Delivered
<1>2. N \in Nat
  BY <1>1, SectorBeforeEnd
<1>3. \A k \in Nat : Inside(k) <=> k \in 0 .. N - 1
  BY <1>1, SectorBeforeEnd DEF Inside
<1>4. AtEnd => N <= op.offset + n
  BY <1>1, <1>2, <1>3 DEF AtEnd
<1>5. \A j \in 1 .. n : op.offset + j - 1 \in 0 .. N - 1
  BY <1>1, <1>3 DEF Delivered
<1>6. n > 0 => op.offset + n <= N
  BY <1>1, <1>2, <1>5
<1> HIDE DEF N
<1>7. 1 .. top = 1 .. n
  <2>1. CASE n > 0
    BY <1>1, <1>2, <1>4, <1>6, <2>1 DEF N
  <2>2. CASE n = 0
    BY <1>1, <1>2, <1>4, <2>2 DEF N
  <2> QED BY <1>1, <2>1, <2>2
<1>8. Requested(size, op.offset)
         = [j \in 1 .. top |-> FileBlocks(img, Inode)[op.offset + j - 1]]
  BY Zenon DEF Requested, N
<1>9. DOMAIN FileBlocks(img, Inode) = 0 .. N - 1
  BY DEF FileBlocks, N
<1>10. \A k \in 0 .. N - 1 : FileBlocks(img, Inode)[k] = FileBlock(img, Inode, k)
  BY DEF FileBlocks, N
<1> HIDE DEF top, n
<1>11. DOMAIN Requested(size, op.offset) = 1 .. n
  BY <1>7, <1>8
<1>12. ASSUME NEW j \in 1 .. n
       PROVE  /\ Requested(size, op.offset)[j] = FileBlock(img, Inode, op.offset + j - 1)
              /\ op.offset + j - 1 \in DOMAIN FileBlocks(img, Inode)
  BY <1>5, <1>7, <1>8, <1>9, <1>10, <1>12
<1> QED BY <1>11, <1>12 DEF n

\* Two sequences with the same elements.
LEMMA SameSequence ==
    ASSUME NEW S, NEW s \in Seq(S), NEW f, f = [j \in DOMAIN f |-> f[j]],
           DOMAIN f = 1 .. Len(s), \A j \in 1 .. Len(s) : f[j] = s[j]
    PROVE  s = f
<1>1. s = [j \in 1 .. Len(s) |-> s[j]]
  BY LenProperties
<1> QED BY <1>1

LEMMA RequestedIsFunction ==
    ASSUME NEW size, NEW offset, NEW f, f = Requested(size, offset)
    PROVE  f = [j \in DOMAIN f |-> f[j]]
  BY Zenon DEF Requested

\* Of a text, cat and fs_read show all that they read.
LEMMA TextIsShown ==
    ASSUME Delivered, op.offset \in Nat, op.kind # "sha", IsText, NEW size \in Nat,
           \/ Len(got) = size
           \/ Len(got) < size /\ AtEnd
           \/ Len(got) <= size /\ size = SectorsOf(Inode.i_size) /\ AtEnd
    PROVE  got = Requested(size, op.offset)
<1>1. PICK f : f = Requested(size, op.offset)
  OBVIOUS
<1>2. /\ DOMAIN f = 1 .. Len(got)
      /\ \A j \in 1 .. Len(got) :
            /\ f[j] = FileBlock(img, Inode, op.offset + j - 1)
            /\ op.offset + j - 1 \in DOMAIN FileBlocks(img, Inode)
  BY <1>1, DeliversTheRequest
<1>3. ASSUME NEW j \in 1 .. Len(got) PROVE f[j] = got[j]
  <2>1. PICK k : k = op.offset + j - 1
    OBVIOUS
  <2>2. k \in DOMAIN FileBlocks(img, Inode) /\ FileBlocks(img, Inode)[k] = FileBlock(img, Inode, k)
    BY <1>2, <2>1 DEF FileBlocks
  <2>3. UpToNul(FileBlock(img, Inode, k)) = FileBlock(img, Inode, k)
    BY <2>2, Zenon DEF IsText
  <2>4. got[j] = UpToNul(FileBlock(img, Inode, k))
    BY <2>1 DEF Delivered, Shown
  <2> QED BY <1>2, <2>1, <2>3, <2>4
<1>4. f = [j \in DOMAIN f |-> f[j]]
  BY <1>1, RequestedIsFunction
<1> QED BY <1>1, <1>2, <1>3, <1>4, SameSequence DEF Delivered

\* fs.c:224: whatever sectors fail, a fs_read of a text that answers no error has delivered
\* the sectors of its request up to the end of the file, each once and in order.
THEOREM FsReadDeliversTheRequest == Spec => []ReadsUntilSizeOrEnd
<1>1. IInv => ReadsUntilSizeOrEnd
  <2> SUFFICES ASSUME IInv, pc = "idle", op.kind = "fs_read", ret >= 0, IsText
               PROVE  got = Requested(op.size, op.offset) /\ ret = Len(got) * SECTOR_SIZE
    BY DEF ReadsUntilSizeOrEnd
  <2>1. /\ Delivered /\ ret = Len(got) * SECTOR_SIZE
        /\ Len(got) = op.size \/ (Len(got) < op.size /\ AtEnd)
    BY DEF IInv, Ended
  <2>2. op.offset \in Nat /\ op.size \in Nat
    BY DEF IInv, IsOp
  <2> QED BY <2>1, <2>2, TextIsShown
<1> QED BY <1>1, IInvHolds, PTL

\* A delivery from the start of the file is no longer than the file.
LEMMA NoLongerThanFile ==
    ASSUME Delivered, op.offset = 0
    PROVE  SectorsOf(Inode.i_size) \in Nat /\ Len(got) <= SectorsOf(Inode.i_size)
<1>1. Inode.i_size \in Nat /\ Len(got) \in Nat
  BY SizeIsNat, LenProperties DEF Delivered
<1>2. SectorsOf(Inode.i_size) \in Nat
  BY <1>1, SectorBeforeEnd
<1>3. CASE Len(got) > 0
  <2>1. PICK k \in Nat : k = op.offset + Len(got) - 1
    BY <1>1, <1>3
  <2>2. Inside(k)
    BY <1>1, <1>3, <2>1 DEF Delivered
  <2>3. k \in 0 .. SectorsOf(Inode.i_size) - 1
    BY <1>1, <2>2, SectorBeforeEnd DEF Inside
  <2> QED BY <1>1, <1>2, <2>1, <2>3
<1>4. CASE Len(got) = 0
  BY <1>2, <1>4
<1> QED BY <1>1, <1>3, <1>4, <1>2

\* A cat of a text that answers 0 has shown the file, all of it and nothing twice.
THEOREM CatIsTheFile == Spec => []CatShowsFile
<1>1. IInv => CatShowsFile
  <2> SUFFICES ASSUME IInv, pc = "idle", op.kind = "cat", ret = 0, IsText
               PROVE  got = Requested(SectorsOf(Inode.i_size), 0)
    BY DEF CatShowsFile
  <2>1. Delivered /\ AtEnd /\ op.offset = 0
    BY DEF IInv, Ended, IsOp
  <2>2. SectorsOf(Inode.i_size) \in Nat /\ Len(got) <= SectorsOf(Inode.i_size)
    BY <2>1, NoLongerThanFile
  <2>3. PICK size : size = SectorsOf(Inode.i_size)
    OBVIOUS
  <2>4. got = Requested(size, op.offset)
    BY <2>1, <2>2, <2>3, TextIsShown
  <2> QED BY <2>1, <2>3, <2>4
<1> QED BY <1>1, IInvHolds, PTL

\* The whole file, as a sequence.
LEMMA ContentOfTheFile ==
    ASSUME Inode \in InodeType, NEW N, N = SectorsOf(Inode.i_size),
           NEW content, content = Requested(N, 0)
    PROVE  /\ N \in Nat /\ DOMAIN content = 1 .. N /\ Len(content) = N
           /\ \A j \in 1 .. N : content[j] = FileBlock(img, Inode, j - 1)
<1>1. Inode.i_size \in Nat
  BY SizeIsNat
<1>2. N \in Nat /\ N - 0 = N
  BY <1>1, SectorBeforeEnd
<1>3. content = [j \in 1 .. N |-> FileBlocks(img, Inode)[j - 1]]
  <2>1. content = [j \in 1 .. (IF N - 0 < N THEN N - 0 ELSE N) |->
                      FileBlocks(img, Inode)[0 + j - 1]]
    BY Zenon DEF Requested
  <2>2. (IF N - 0 < N THEN N - 0 ELSE N) = N
    BY <1>2
  <2>3. \A j \in 1 .. N : 0 + j - 1 = j - 1
    BY <1>2
  <2> QED BY <2>1, <2>2, <2>3
<1>4. \A k \in 0 .. N - 1 : FileBlocks(img, Inode)[k] = FileBlock(img, Inode, k)
  BY DEF FileBlocks
<1>5. \A j \in 1 .. N : content[j] = FileBlock(img, Inode, j - 1)
  BY <1>2, <1>3, <1>4
<1>6. DOMAIN content = 1 .. N /\ Len(content) = N
  BY <1>2, <1>3
<1> QED BY <1>2, <1>5, <1>6

\* sha.h:27: what print_sha_inode hashes is the content of the inode, or when sectors fail a
\* part of it from the start; of a file that has all its sectors, the content when none fail.
THEOREM ShaIsOfTheContent ==
    ASSUME FilesComplete
    PROVE  Spec => []ShaOfTheContent
<1>1. IInv => ShaOfTheContent
  <2> SUFFICES ASSUME IInv, pc = "idle", op.kind = "sha",
                      NEW content, content = Requested(SectorsOf(Inode.i_size), 0)
               PROVE  IsPrefix(got, content) /\ (op.clean => got = content)
    BY DEF ShaOfTheContent
  <2>1. Delivered /\ (op.clean => AtEnd) /\ op.offset = 0
    BY DEF IInv, Ended, IsOp
  <2>2. PICK N : N = SectorsOf(Inode.i_size)
    OBVIOUS
  <2>3. /\ N \in Nat /\ DOMAIN content = 1 .. N /\ Len(content) = N
        /\ \A j \in 1 .. N : content[j] = FileBlock(img, Inode, j - 1)
    BY <2>1, <2>2, ContentOfTheFile DEF Delivered
  <2>4. Len(got) <= N /\ got \in Seq(Sector) /\ Len(got) \in Nat
    BY <2>1, <2>2, NoLongerThanFile, LenProperties DEF Delivered
  <2>5. \A j \in 1 .. Len(got) : got[j] = content[j]
    <3> SUFFICES ASSUME NEW j \in 1 .. Len(got) PROVE got[j] = content[j]
      OBVIOUS
    <3>1. got[j] = FileBlock(img, Inode, op.offset + j - 1)
      BY <2>1 DEF Delivered, Shown
    <3>2. op.offset + j - 1 = j - 1 /\ j \in 1 .. N
      BY <2>1, <2>3, <2>4
    <3> QED BY <2>3, <3>1, <3>2
  <2>6. IsPrefix(got, content)
    <3>1. \A j \in 1 .. Len(got) : got[j] \in Sector
      BY <2>4, ElementOfSeq
    <3>2. PICK part : part = SubSeq(content, 1, Len(got))
      OBVIOUS
    <3>3. /\ part \in Seq(Sector)
          /\ Len(part) = Len(got)
          /\ \A j \in 1 .. Len(got) : part[j] = got[j]
      <4>1. PICK n \in Int : n = Len(got) /\ n >= 0
        BY <2>4
      <4>2. \A j \in 1 .. n : content[j] \in Sector
        BY <2>5, <3>1, <4>1
      <4>3. /\ SubSeq(content, 1, n) \in Seq(Sector)
            /\ Len(SubSeq(content, 1, n)) = IF 1 <= n THEN n - 1 + 1 ELSE 0
            /\ \A j \in 1 .. n - 1 + 1 : SubSeq(content, 1, n)[j] = content[1 + j - 1]
        <5>1. 1 \in Int
          OBVIOUS
        <5> QED BY <4>2, <5>1, SubSeqProperties
      <4>4. part \in Seq(Sector) /\ Len(part) = n
        BY <3>2, <4>1, <4>3
      <4>5. \A j \in 1 .. n : part[j] = content[j]
        <5>1. \A j \in 1 .. n : j \in 1 .. n - 1 + 1 /\ 1 + j - 1 = j
          OBVIOUS
        <5> QED BY <3>2, <4>1, <4>3, <5>1
      <4> QED BY <2>5, <4>1, <4>4, <4>5
    <3>4. part = got
      BY <2>4, <3>3, SeqEqual
    <3>5. SubSeq(got, 1, Len(got)) = got
      BY <2>4, SubSeqFull
    <3> QED BY <2>3, <2>4, <3>2, <3>4, <3>5 DEF IsPrefix
  <2>7. ASSUME op.clean PROVE got = content
    <3>1. AtEnd
      BY <2>1, <2>7, Zenon
    <3>2. ~(Len(got) * SECTOR_SIZE < Inode.i_size) /\ Inode.i_size \in Nat
      <4>1. op.offset + Len(got) = Len(got)
        BY <2>1, <2>4
      <4> QED BY <2>1, <3>1, <4>1, SizeIsNat DEF AtEnd, Inside, Delivered
    <3>3. ~(Len(got) \in 0 .. N - 1)
      BY <2>2, <2>4, <3>2, SectorBeforeEnd
    <3>4. Len(got) = N
      BY <2>3, <2>4, <3>3
    <3>5. content = [j \in DOMAIN content |-> content[j]]
      BY RequestedIsFunction
    <3> QED BY <2>3, <2>4, <2>5, <3>4, <3>5, SameSequence
  <2> QED BY <2>6, <2>7
<1> QED BY <1>1, IInvHolds, PTL

-----------------------------------------------------------------------------
(* The scan of the inodes.                                                 *)

ScanLines == [number : Nat, kind : {"DIR", "FIL"}, size : Int]

\* The live inodes of the first k sectors of the region.
LiveBelow(im, k) == {inr \in LiveInodes(im, MountedSuper(im)) : inr \div INODES_PER_SECTOR < k}

\* The n lines are about numbers of S, in order, and have the sizes of their inodes.
ListsSome(lines, n, im, S) ==
    /\ \A j \in 1 .. n : /\ lines[j].number \in S
                         /\ lines[j].size
                              = InodeNo(im, MountedSuper(im), lines[j].number).i_size % SIZE1_RANGE
    /\ \A j, l \in 1 .. n : j < l => lines[j].number < lines[l].number

\* They are about every number of S.
ListsAll(lines, n, im, S) == /\ ListsSome(lines, n, im, S)
                             /\ \A x \in S : \E j \in 1 .. n : lines[j].number = x

\* inode j of sector k of the region has the number k * INODES_PER_SECTOR + j.
LEMMA LiveOfSector ==
    ASSUME NEW im, IsImage(im), SUPERBLOCK_SECTOR \in DOMAIN im, NEW s, s = MountedSuper(im),
           NEW k \in Nat, k < s.s_isize, NEW sector, sector = im[s.s_inode_start + k],
           s.s_inode_start + k \in DOMAIN im, NEW j \in 0 .. INODES_PER_SECTOR - 1,
           NEW inr, inr = k * INODES_PER_SECTOR + j
    PROVE  /\ inr \in Nat /\ inr \div INODES_PER_SECTOR = k /\ inr % INODES_PER_SECTOR = j
           /\ InodeNo(im, s, inr) = InodeAt(sector, j)
           /\ inr \in LiveInodes(im, s) <=> Allocated(InodeAt(sector, j))
<1>1. PICK W \in Nat \ {0} : W = INODES_PER_SECTOR
  BY PerSector
<1>2. s \in Superblock /\ s.s_isize \in Nat /\ s.s_inode_start \in Nat
  <2>1. im[SUPERBLOCK_SECTOR] \in Sector
    BY DEF IsImage
  <2>2. s \in Superblock
    BY <2>1, SuperblockType DEF MountedSuper, Superblock
  <2> QED BY <2>2, WordFacts DEF Superblock
<1>3. inr \div W = k /\ inr % W = j
  BY <1>1, DivModUnique
<1>4. inr \in Nat /\ inr < s.s_isize * W
  <2>1. j \in Nat /\ j < W
    BY <1>1
  <2>2. (k + 1) * W <= s.s_isize * W /\ (k + 1) * W = k * W + W /\ k * W \in Nat
    BY <1>1, <1>2
  <2>3. s.s_isize * W \in Nat /\ inr = k * W + j
    BY <1>1, <1>2
  <2> QED BY <1>1, <2>1, <2>2, <2>3
<1>5. inr \in RegionInodes(s)
  <2>1. s.s_isize * W \in Nat
    BY <1>1, <1>2
  <2>2. inr \in 0 .. s.s_isize * W - 1
    BY <1>4, <2>1
  <2> QED BY <1>1, <2>2 DEF RegionInodes
<1>6. InodeSector(s, inr) = s.s_inode_start + k
  BY <1>1, <1>3 DEF InodeSector
<1>7. InodeNo(im, s, inr) = InodeAt(sector, j)
  BY <1>1, <1>3, <1>6 DEF InodeNo
<1> QED BY <1>1, <1>2, <1>3, <1>4, <1>5, <1>6, <1>7, LiveInode

\* The lines of one sector.
LEMMA LinesOfSector ==
    ASSUME NEW im, IsImage(im), SUPERBLOCK_SECTOR \in DOMAIN im, NEW s, s = MountedSuper(im),
           NEW k \in Nat, k < s.s_isize, s.s_inode_start + k \in DOMAIN im,
           NEW lines, lines = InodeLines(im[s.s_inode_start + k], k),
           NEW S, S = {inr \in LiveInodes(im, s) : inr \div INODES_PER_SECTOR = k}
    PROVE  lines \in Seq(ScanLines) /\ ListsAll(lines, Len(lines), im, S)
<1>1. PICK W \in Nat \ {0} : W = INODES_PER_SECTOR
  BY PerSector
<1>2. PICK sector : sector = im[s.s_inode_start + k] /\ sector \in Sector
  BY DEF IsImage
<1>3. PICK live : live = {j \in 0 .. W - 1 : Allocated(InodeAt(sector, j))}
  OBVIOUS
<1>4. PICK a, n : a = Ascending(live) /\ n = Cardinality(live)
  OBVIOUS
<1>5. /\ n \in Nat /\ a \in [1 .. n -> live] /\ \A j, l \in 1 .. n : j < l => a[j] < a[l]
      /\ \A x \in live : \E l \in 1 .. n : a[l] = x
  <2>1. IsFiniteSet(0 .. W - 1)
    BY <1>1, FS_Interval
  <2>2. live \in SUBSET (0 .. W - 1) /\ live \in SUBSET Int
    BY <1>1, <1>3
  <2>3. IsFiniteSet(live)
    BY <2>1, <2>2, FS_Subset
  <2> QED BY <1>4, <2>2, <2>3, AscendingFacts
<1>6. lines = [l \in 1 .. n |-> InodeLine(InodeAt(sector, a[l]), k * W + a[l])]
  <2> DEFINE L == {j \in 0 .. INODES_PER_SECTOR - 1 : Allocated(InodeAt(sector, j))}
  <2>1. lines = InodeLines(sector, k)
    BY <1>2
  <2>2. lines = [l \in 1 .. Cardinality(L) |->
                    InodeLine(InodeAt(sector, Ascending(L)[l]),
                              k * INODES_PER_SECTOR + Ascending(L)[l])]
    BY <2>1, Zenon DEF InodeLines
  <2>3. L = live
    BY <1>1, <1>3
  <2> HIDE DEF L
  <2> QED BY <1>1, <1>4, <2>2, <2>3
<1>7. ASSUME NEW l \in 1 .. n
      PROVE  /\ a[l] \in 0 .. W - 1 /\ Allocated(InodeAt(sector, a[l]))
             /\ lines[l] = InodeLine(InodeAt(sector, a[l]), k * W + a[l])
  BY <1>3, <1>5, <1>6
<1>8. ASSUME NEW l \in 1 .. n
      PROVE  /\ lines[l] \in ScanLines /\ lines[l].number = k * W + a[l]
             /\ lines[l].number \in S
             /\ lines[l].size = InodeNo(im, s, lines[l].number).i_size % SIZE1_RANGE
  <2>1. PICK j \in 0 .. W - 1 : j = a[l] /\ Allocated(InodeAt(sector, j))
    BY <1>7
  <2>2. PICK inr : inr = k * INODES_PER_SECTOR + j
    OBVIOUS
  <2>3. /\ inr \in Nat /\ inr \div W = k /\ InodeNo(im, s, inr) = InodeAt(sector, j)
        /\ inr \in LiveInodes(im, s)
    <3>1. j \in 0 .. INODES_PER_SECTOR - 1
      BY <1>1
    <3>2. /\ inr \in Nat /\ inr \div INODES_PER_SECTOR = k
          /\ InodeNo(im, s, inr) = InodeAt(sector, j)
          /\ inr \in LiveInodes(im, s) <=> Allocated(InodeAt(sector, j))
      BY <1>2, <2>2, <3>1, LiveOfSector
    <3> QED BY <1>1, <2>1, <3>2
  <2>4. PICK i : i = InodeAt(sector, j)
    OBVIOUS
  <2>5. lines[l] = InodeLine(i, inr)
    BY <1>1, <1>7, <2>1, <2>2, <2>4
  <2>6. lines[l].number = inr /\ lines[l].size = i.i_size % SIZE1_RANGE
    BY <2>5 DEF InodeLine
  <2>7. i.i_size \in Nat
    BY <1>1, <1>2, <2>1, <2>4, InodeAtType, SizeIsNat
  <2>8. i.i_size % SIZE1_RANGE \in Int
    BY <2>7, OpsAssumption
  <2>9. lines[l] \in ScanLines
    <3>1. PICK kind \in {"DIR", "FIL"} :
              lines[l] = [number |-> inr, kind |-> kind, size |-> i.i_size % SIZE1_RANGE]
      BY <2>5 DEF InodeLine
    <3> QED BY <2>3, <2>8, <3>1 DEF ScanLines
  <2> QED BY <1>1, <2>1, <2>2, <2>3, <2>4, <2>6, <2>9
<1>9. lines \in Seq(ScanLines) /\ Len(lines) = n
  <2>1. lines = [l \in 1 .. n |-> lines[l]]
    BY <1>6
  <2>2. lines \in [1 .. n -> ScanLines]
    BY <1>8, <2>1
  <2> QED BY <1>5, <2>2
<1>10. ASSUME NEW j \in 1 .. n, NEW l \in 1 .. n, j < l PROVE lines[j].number < lines[l].number
  <2>1. PICK x, y \in Nat : x = a[j] /\ y = a[l] /\ x < y
    <3>1. a[j] < a[l]
      BY <1>5, <1>10
    <3>2. a[j] \in Nat /\ a[l] \in Nat
      BY <1>1, <1>7
    <3> QED BY <3>1, <3>2
  <2>2. k * W \in Nat
    BY <1>1
  <2>3. k * W + x < k * W + y
    BY <2>1, <2>2
  <2> QED BY <1>8, <2>1, <2>3
<1>11. ASSUME NEW x \in S PROVE \E l \in 1 .. n : lines[l].number = x
  <2>1. s \in Superblock
    <3>1. im[SUPERBLOCK_SECTOR] \in Sector
      BY DEF IsImage
    <3> QED BY <3>1, SuperblockType DEF MountedSuper, Superblock
  <2>2. x \in RegionInodes(s) /\ x \in LiveInodes(im, s) /\ x \div W = k
    BY <1>1, <2>1, LiveInode
  <2>3. x \in Nat
    BY <2>1, <2>2, InRegion
  <2>4. PICK j \in 0 .. W - 1 : j = x % W /\ x = k * W + j
    <3>1. x % W \in 0 .. W - 1 /\ x = W * k + (x % W) /\ W * k = k * W
      <4>1. x % W \in 0 .. W - 1 /\ x = W * (x \div W) + (x % W)
        BY <2>3, DivModFacts
      <4>2. W * k = k * W
        BY <1>1
      <4> QED BY <2>2, <4>1, <4>2
    <3> QED BY <3>1
  <2>5. Allocated(InodeAt(sector, j))
    BY <1>1, <1>2, <2>2, <2>4, LiveOfSector
  <2>6. PICK l \in 1 .. n : a[l] = j
    BY <1>3, <1>5, <2>4, <2>5
  <2> QED BY <1>8, <2>4, <2>6
<1> QED BY <1>8, <1>9, <1>10, <1>11 DEF ListsAll, ListsSome

\* A number of an earlier sector is less.
LEMMA EarlierIsLess ==
    ASSUME NEW x \in Nat, NEW y \in Nat, NEW W \in Nat \ {0}, x \div W < y \div W
    PROVE  x < y
<1>1. x \div W \in Nat /\ y \div W \in Nat
  BY DivModFacts
<1>2. SUFFICES ASSUME y <= x PROVE FALSE
  OBVIOUS
<1>3. y \div W <= x \div W
  BY <1>2, DivMonotone
<1> QED BY <1>1, <1>3

LEMMA ScanGoesOn ==
    ASSUME NEW im, IsImage(im), SUPERBLOCK_SECTOR \in DOMAIN im, NEW s, s = MountedSuper(im),
           NEW k \in Nat, k < s.s_isize, s.s_inode_start + k \in DOMAIN im,
           NEW before \in Seq(ScanLines), ListsAll(before, Len(before), im, LiveBelow(im, k)),
           NEW lines, lines = InodeLines(im[s.s_inode_start + k], k),
           NEW after, after = before \o lines
    PROVE  after \in Seq(ScanLines) /\ ListsAll(after, Len(after), im, LiveBelow(im, k + 1))
<1>1. PICK W \in Nat \ {0} : W = INODES_PER_SECTOR
  BY PerSector
<1>2. PICK S, B, T : /\ S = {inr \in LiveInodes(im, s) : inr \div INODES_PER_SECTOR = k}
                     /\ B = LiveBelow(im, k) /\ T = LiveBelow(im, k + 1)
  OBVIOUS
<1>3. \A x \in LiveInodes(im, s) : x \in Nat /\ x \div W \in Nat
  <2>1. s \in Superblock
    <3>1. im[SUPERBLOCK_SECTOR] \in Sector
      BY DEF IsImage
    <3> QED BY <3>1, SuperblockType DEF MountedSuper, Superblock
  <2> QED BY <1>1, <2>1, LiveInode, InRegion
<1>4. /\ \A x \in B : x \in T /\ x \in Nat /\ x \div W < k
      /\ \A x \in S : x \in T /\ x \in Nat /\ x \div W = k
      /\ \A x \in T : x \in B \/ x \in S
  <2>1. /\ \A x : x \in B <=> x \in LiveInodes(im, s) /\ x \div W < k
        /\ \A x : x \in S <=> x \in LiveInodes(im, s) /\ x \div W = k
        /\ \A x : x \in T <=> x \in LiveInodes(im, s) /\ x \div W < k + 1
    BY <1>1, <1>2, Zenon DEF LiveBelow
  <2>2. \A q \in Nat : q < k + 1 <=> q < k \/ q = k
    OBVIOUS
  <2>3. \A x \in LiveInodes(im, s) : x \div W < k + 1 <=> x \div W < k \/ x \div W = k
    BY <1>3, <2>2
  <2> QED BY <1>3, <2>1, <2>3, Zenon
<1>5. lines \in Seq(ScanLines) /\ ListsAll(lines, Len(lines), im, S)
  BY <1>2, LinesOfSector
<1>6. PICK n, m \in Nat : n = Len(before) /\ m = Len(lines)
  BY <1>5
<1>7. /\ after \in Seq(ScanLines) /\ Len(after) = n + m
      /\ \A j \in 1 .. n : after[j] = before[j]
      /\ \A j \in 1 .. m : after[n + j] = lines[j]
  <2>1. /\ after \in Seq(ScanLines) /\ Len(after) = n + m
        /\ \A j \in 1 .. n + m : after[j] = IF j <= n THEN before[j] ELSE lines[j - n]
    BY <1>5, <1>6, ConcatProperties
  <2>2. \A j \in 1 .. n : j \in 1 .. n + m /\ j <= n
    BY <1>6
  <2>3. \A j \in 1 .. m : n + j \in 1 .. n + m /\ ~(n + j <= n) /\ (n + j) - n = j
    BY <1>6
  <2> QED BY <2>1, <2>2, <2>3
<1>8. \A j \in 1 .. n + m : j \in 1 .. n \/ \E l \in 1 .. m : j = n + l
  <2> SUFFICES ASSUME NEW j \in 1 .. n + m, ~(j <= n) PROVE j - n \in 1 .. m /\ j = n + (j - n)
    BY <1>6
  <2> QED BY <1>6
<1>9. ListsAll(before, n, im, B) /\ ListsAll(lines, m, im, S)
  BY <1>2, <1>5, <1>6
<1>10. ASSUME NEW j \in 1 .. n + m
       PROVE  /\ after[j].number \in T
              /\ after[j].size = InodeNo(im, s, after[j].number).i_size % SIZE1_RANGE
  <2>1. CASE j \in 1 .. n
    <3>1. after[j] = before[j]
      BY <1>7, <2>1
    <3>2. /\ before[j].number \in B
          /\ before[j].size = InodeNo(im, s, before[j].number).i_size % SIZE1_RANGE
      BY <1>9, <2>1 DEF ListsAll, ListsSome
    <3> QED BY <1>4, <3>1, <3>2, Zenon
  <2>2. ASSUME NEW l \in 1 .. m, j = n + l
        PROVE  /\ after[j].number \in T
               /\ after[j].size = InodeNo(im, s, after[j].number).i_size % SIZE1_RANGE
    <3>1. after[j] = lines[l]
      BY <1>7, <2>2
    <3>2. /\ lines[l].number \in S
          /\ lines[l].size = InodeNo(im, s, lines[l].number).i_size % SIZE1_RANGE
      BY <1>9 DEF ListsAll, ListsSome
    <3> QED BY <1>4, <3>1, <3>2, Zenon
  <2> QED BY <1>8, <2>1, <2>2
<1>11. ASSUME NEW j \in 1 .. n + m, NEW l \in 1 .. n + m, j < l
       PROVE  after[j].number < after[l].number
  <2>1. CASE l \in 1 .. n
    <3>1. j \in 1 .. n
      BY <1>6, <1>11, <2>1
    <3> QED BY <1>7, <1>9, <1>11, <2>1, <3>1 DEF ListsAll, ListsSome
  <2>2. ASSUME NEW c \in 1 .. m, l = n + c, j \in 1 .. n
        PROVE  after[j].number < after[l].number
    <3>1. before[j].number \in B /\ lines[c].number \in S
      BY <1>9, <2>2 DEF ListsAll, ListsSome
    <3>2. PICK x, y : x = before[j].number /\ y = lines[c].number
      OBVIOUS
    <3>3. x \in Nat /\ y \in Nat /\ x \div W < y \div W
      BY <1>4, <3>1, <3>2
    <3>4. x < y
      BY <3>3, EarlierIsLess
    <3> QED BY <1>7, <2>2, <3>2, <3>4
  <2>3. ASSUME NEW b \in 1 .. m, NEW c \in 1 .. m, j = n + b, l = n + c
        PROVE  after[j].number < after[l].number
    <3>1. b < c
      BY <1>6, <1>11, <2>3
    <3>2. lines[b].number < lines[c].number
      BY <1>9, <3>1 DEF ListsAll, ListsSome
    <3> QED BY <1>7, <2>3, <3>2
  <2> QED BY <1>8, <2>1, <2>2, <2>3
<1>12. ASSUME NEW x \in T PROVE \E j \in 1 .. n + m : after[j].number = x
  <2>1. CASE x \in B
    <3>1. PICK j \in 1 .. n : before[j].number = x
      BY <1>9, <2>1 DEF ListsAll
    <3>2. j \in 1 .. n + m
      BY <1>6
    <3> QED BY <1>7, <3>1, <3>2
  <2>2. CASE x \in S
    <3>1. PICK j \in 1 .. m : lines[j].number = x
      BY <1>9, <2>2 DEF ListsAll
    <3>2. n + j \in 1 .. n + m
      BY <1>6
    <3> QED BY <1>7, <3>1, <3>2
  <2> QED BY <1>4, <2>1, <2>2
<1>13. PICK N : N = n + m /\ N = Len(after)
  BY <1>7
<1>14. ListsAll(after, N, im, T)
  BY <1>10, <1>11, <1>12, <1>13 DEF ListsAll, ListsSome
<1> QED BY <1>2, <1>7, <1>13, <1>14

\* A scan has listed the live inodes of the sectors that it has read.
HasListed == /\ got \in Seq(ScanLines) /\ op.offset \in 0 .. MountedSuper(img).s_isize
           /\ ListsAll(got, Len(got), img, LiveBelow(img, op.offset))

\* It ends behind the last sector, or at one that it cannot read.
ScanEnded == IF ret = 0 THEN op.offset = MountedSuper(img).s_isize
             ELSE /\ op.offset < MountedSuper(img).s_isize
                  /\ op.clean => MountedSuper(img).s_inode_start + op.offset \notin DOMAIN img

ScanInv == op.kind = "scan" => HasListed /\ (pc = "idle" => ScanEnded)

LEMMA ScanBegins == ASSUME IInv, Scan PROVE ScanInv'
<1>1. PICK clean : op' = Operation("scan", 0, clean) /\ pc' = "scan" /\ got' = <<>> /\ img' = img
  BY Zenon DEF Scan, Enter
<1>2. op'.offset = 0
  BY <1>1, WordFacts, OperationIsOp
<1>3. PICK s : s = MountedSuper(img) /\ s \in Superblock /\ s.s_isize \in Nat
  <2>1. img[SUPERBLOCK_SECTOR] \in Sector
    BY OpsAssumption DEF IInv, IsImage
  <2>2. MountedSuper(img) \in Superblock
    BY <2>1, SuperblockType DEF MountedSuper, Superblock
  <2> QED BY <2>2, WordFacts DEF Superblock
<1>4. got' \in Seq(ScanLines) /\ Len(got') = 0
  BY <1>1
<1>5. LiveBelow(img, 0) = {}
  <2> SUFFICES ASSUME NEW x \in LiveBelow(img, 0) PROVE FALSE
    OBVIOUS
  <2>1. x \in LiveInodes(img, s) /\ x \div INODES_PER_SECTOR < 0
    BY <1>3 DEF LiveBelow
  <2>2. x \div INODES_PER_SECTOR \in Nat
    BY <1>3, <2>1, LiveInode, InRegion
  <2> QED BY <2>1, <2>2
<1>6. ListsAll(got', 0, img, LiveBelow(img, 0))
  BY <1>5 DEF ListsAll, ListsSome
<1>7. HasListed'
  BY <1>1, <1>2, <1>3, <1>4, <1>6 DEF HasListed
<1> QED BY <1>1, <1>7 DEF ScanInv

LEMMA ScanContinues == ASSUME IInv, ScanInv, ScanStep PROVE ScanInv'
<1>1. PICK bad \in IoFaults :
        LET n == MountedSuper(img).s_inode_start + op.offset
        IN  /\ pc = "scan"
            /\ \/ /\ op.offset >= MountedSuper(img).s_isize
                  /\ Return(0)
                  /\ UNCHANGED <<op, got>>
               \/ /\ op.offset < MountedSuper(img).s_isize /\ n \in DOMAIN img \ bad
                  /\ got' = got \o InodeLines(img[n], op.offset)
                  /\ op' = [op EXCEPT !.offset = @ + 1]
                  /\ UNCHANGED <<pc, ret>>
               \/ /\ op.offset < MountedSuper(img).s_isize /\ n \notin DOMAIN img \ bad
                  /\ Return(ERR_IO)
                  /\ op' = [op EXCEPT !.clean = @ /\ bad = {}]
                  /\ UNCHANGED got
            /\ UNCHANGED <<img, fv6>>
  BY Zenon DEF ScanStep
<1>2. PICK k, s, n : /\ k = op.offset /\ s = MountedSuper(img) /\ n = s.s_inode_start + k
  OBVIOUS
<1>3. PICK clean : clean = (op.clean /\ bad = {})
  OBVIOUS
<1>4. /\ pc = "scan" /\ img' = img
      /\ \/ k >= s.s_isize /\ Return(0) /\ op' = op /\ got' = got
         \/ /\ k < s.s_isize /\ n \in DOMAIN img
            /\ got' = got \o InodeLines(img[n], k) /\ op' = [op EXCEPT !.offset = @ + 1] /\ pc' = pc
         \/ /\ k < s.s_isize /\ n \notin DOMAIN img \ bad /\ Return(ERR_IO)
            /\ op' = [op EXCEPT !.clean = clean] /\ got' = got
  BY <1>1, <1>2, <1>3, Zenon
<1>5. op.kind = "scan" /\ IsOp(op) /\ IsImage(img) /\ SUPERBLOCK_SECTOR \in DOMAIN img
  BY <1>4, OpsAssumption DEF IInv
<1>6. /\ got \in Seq(ScanLines) /\ k \in 0 .. s.s_isize /\ k \in Nat
      /\ ListsAll(got, Len(got), img, LiveBelow(img, k))
  BY <1>2, <1>5 DEF ScanInv, HasListed, IsOp
<1>7. s.s_isize \in Nat
  <2>1. img[SUPERBLOCK_SECTOR] \in Sector
    BY <1>5 DEF IsImage
  <2>2. s \in Superblock
    BY <1>2, <2>1, SuperblockType DEF MountedSuper, Superblock
  <2> QED BY <2>2, WordFacts DEF Superblock
<1>8. CASE k >= s.s_isize /\ Return(0) /\ op' = op /\ got' = got
  <2>1. k = s.s_isize /\ ret' = 0
    BY <1>6, <1>7, <1>8 DEF Return
  <2>2. HasListed'
    BY <1>2, <1>4, <1>6, <1>8 DEF HasListed
  <2>3. ScanEnded'
    BY <1>2, <1>4, <1>8, <2>1 DEF ScanEnded
  <2> QED BY <2>2, <2>3 DEF ScanInv
<1>9. CASE /\ k < s.s_isize /\ n \in DOMAIN img
           /\ got' = got \o InodeLines(img[n], k) /\ op' = [op EXCEPT !.offset = @ + 1] /\ pc' = pc
  <2>1. PICK after : after = got \o InodeLines(img[n], k)
    OBVIOUS
  <2>2. after \in Seq(ScanLines) /\ ListsAll(after, Len(after), img, LiveBelow(img, k + 1))
    BY <1>2, <1>5, <1>6, <1>9, <2>1, ScanGoesOn
  <2>3. op'.offset = k + 1 /\ op'.kind = "scan" /\ got' = after /\ pc' # "idle"
    BY <1>2, <1>4, <1>5, <1>9, <2>1 DEF IsOp
  <2>4. k + 1 \in 0 .. s.s_isize
    BY <1>6, <1>7, <1>9
  <2>5. HasListed'
    BY <1>2, <1>4, <2>2, <2>3, <2>4 DEF HasListed
  <2> QED BY <2>3, <2>5 DEF ScanInv
<1>10. CASE /\ k < s.s_isize /\ n \notin DOMAIN img \ bad /\ Return(ERR_IO)
            /\ op' = [op EXCEPT !.clean = clean] /\ got' = got
  <2>1. op'.clean = clean /\ op'.offset = k /\ op'.kind = "scan" /\ ret' = ERR_IO
    BY <1>2, <1>5, <1>10, OpStays DEF Return
  <2>2. HasListed'
    BY <1>2, <1>4, <1>6, <1>10, <2>1 DEF HasListed
  <2>3. clean => bad = {}
    BY <1>3, Zenon
  <2>4. op'.clean => n \notin DOMAIN img
    <3>1. SUFFICES ASSUME clean PROVE n \notin DOMAIN img
      BY <2>1
    <3>2. bad = {}
      BY <2>3, <3>1, Zenon
    <3> QED BY <1>10, <3>2
  <2>5. ScanEnded'
    BY <1>2, <1>4, <1>10, <2>1, <2>4 DEF ScanEnded, ERR_IO
  <2> QED BY <2>2, <2>5 DEF ScanInv
<1> QED BY <1>4, <1>8, <1>9, <1>10

\* No other operation is a scan.
LEMMA OthersDoNotScan ==
    ASSUME IInv, FsRead \/ Cat \/ Sha \/ Getattr \/ FsReadStep \/ CatStep \/ ShaStep
    PROVE  op'.kind # "scan"
<1>1. CASE FsReadStep \/ CatStep \/ ShaStep
  <2>1. PICK clean : op' = [op EXCEPT !.clean = clean]
    BY <1>1, Zenon DEF FsReadStep, CatStep, ShaStep
  <2>2. pc \in Loops /\ op.kind = pc /\ IsOp(op)
    BY <1>1 DEF IInv, FsReadStep, CatStep, ShaStep, Loops
  <2> QED BY <2>1, <2>2, OpStays DEF Loops
<1>2. CASE FsRead
  <2>1. PICK inr \in Inumbers, request \in Requests, bad \in IoFaults, bad2 \in IoFaults :
          LET open == Opened(inr, bad2)
              seek == filev6_lseek(open.fv6, request[2] * SECTOR_SIZE)
              code == IF FillInode(inr, bad) # 0 THEN FillInode(inr, bad) ELSE OpenCode(open)
          IN  /\ pc = "idle"
              /\ op' = [kind |-> "fs_read", inr |-> inr, size |-> request[1],
                        offset |-> request[2], clean |-> bad = {} /\ bad2 = {}]
              /\ \/ code # 0 /\ Return(code) /\ got' = <<>> /\ UNCHANGED fv6
                 \/ code = 0 /\ seek.ret # 0 /\ Return(0) /\ got' = <<>> /\ UNCHANGED fv6
                 \/ code = 0 /\ seek.ret = 0 /\ Enter("fs_read", seek.fv6)
              /\ UNCHANGED img
    BY <1>2, Zenon DEF FsRead
  <2>2. op'.kind = "fs_read"
    BY <2>1
  <2> QED BY <2>2
<1>3. CASE Cat
  <2>1. PICK inr, clean : op' = Operation("cat", inr, clean)
    BY <1>3, Zenon DEF Cat
  <2> QED BY <2>1 DEF Operation
<1>4. CASE Sha
  <2>1. PICK reads, inr, clean : op' = Operation(IF reads THEN "sha" ELSE "no_sha", inr, clean)
    BY <1>4, Zenon DEF Sha
  <2>2. op'.kind = IF reads THEN "sha" ELSE "no_sha"
    BY <2>1, Zenon DEF Operation
  <2> QED BY <2>2
<1>5. CASE Getattr
  <2>1. PICK inr, clean : op' = Operation("getattr", inr, clean)
    BY <1>5, Zenon DEF Getattr
  <2> QED BY <2>1 DEF Operation
<1> QED BY <1>1, <1>2, <1>3, <1>4, <1>5

LEMMA ScanInvHolds == Spec => [](IInv /\ ScanInv)
<1>1. Init => ScanInv
  <2> SUFFICES ASSUME Init PROVE ScanInv
    OBVIOUS
  <2>1. PICK clean : op = Operation("none", 0, clean)
    BY Zenon DEF Init
  <2>2. op.kind # "scan"
    BY <2>1 DEF Operation
  <2> QED BY <2>2 DEF ScanInv
<1>2. IInv /\ ScanInv /\ [Next]_vars => ScanInv'
  <2> SUFFICES ASSUME IInv, ScanInv, [Next]_vars PROVE ScanInv'
    OBVIOUS
  <2>1. CASE FsRead \/ Cat \/ Sha \/ Getattr \/ FsReadStep \/ CatStep \/ ShaStep
    BY <2>1, OthersDoNotScan DEF ScanInv
  <2>2. CASE Scan
    BY <2>2, ScanBegins
  <2>3. CASE ScanStep
    BY <2>3, ScanContinues
  <2>4. CASE UNCHANGED vars
    BY <2>4 DEF vars, ScanInv, HasListed, ScanEnded
  <2> QED BY <2>1, <2>2, <2>3, <2>4 DEF Next, Step
<1> QED BY <1>1, <1>2, IInvHolds, PTL DEF Spec

\* inode.h:70, `read all inodes from disk and print out their content': on every disk, the lines
\* of a scan are about exactly the allocated inodes of the sectors that it has read, in the
\* order of their numbers and each with the size of its own inode; and when no sector fails and
\* the disk has the whole region, it has read them all.
THEOREM ScanIsComplete == Spec => []ScanListsLive
<1>1. ASSUME IInv, ScanInv, pc = "idle", op.kind = "scan",
             NEW s, s = MountedSuper(img),
             NEW seen, seen = IF ret = 0 THEN s.s_isize ELSE op.offset,
             NEW live, live = {inr \in LiveInodes(img, s) : inr \div INODES_PER_SECTOR < seen}
      PROVE  /\ op.clean /\ s.s_inode_start + s.s_isize - 1 \in DOMAIN img => ret = 0
             /\ [k \in DOMAIN got |-> got[k].number] = Ascending(live)
             /\ \A k \in DOMAIN got :
                   LET size == InodeNo(img, s, got[k].number).i_size
                   IN  size < SIZE1_RANGE => got[k].size = size
  <2>1. HasListed /\ ScanEnded /\ IsImage(img) /\ SUPERBLOCK_SECTOR \in DOMAIN img
    BY <1>1, OpsAssumption DEF ScanInv, IInv
  <2>2. s \in Superblock /\ s.s_isize \in Nat /\ s.s_inode_start \in Nat
    <3>1. img[SUPERBLOCK_SECTOR] \in Sector
      BY <2>1 DEF IsImage
    <3>2. s \in Superblock
      BY <1>1, <3>1, SuperblockType DEF MountedSuper, Superblock
    <3> QED BY <3>2, WordFacts DEF Superblock
  <2>3. live = LiveBelow(img, op.offset)
    BY <1>1, <2>1 DEF ScanEnded, LiveBelow
  <2>4. PICK n \in Nat : n = Len(got) /\ DOMAIN got = 1 .. n
    BY <2>1 DEF HasListed
  <2>5. ListsAll(got, n, img, live)
    BY <2>1, <2>3, <2>4 DEF HasListed
  <2>6. \A x \in live : x \in Nat /\ x \in LiveInodes(img, s)
    BY <1>1, <2>2, LiveInode, InRegion
  <2>7. ASSUME op.clean, s.s_inode_start + s.s_isize - 1 \in DOMAIN img PROVE ret = 0
    <3>1. SUFFICES ASSUME ret # 0 PROVE FALSE
      OBVIOUS
    <3>2. op.offset < s.s_isize /\ s.s_inode_start + op.offset \notin DOMAIN img
      BY <1>1, <2>1, <2>7, <3>1, Zenon DEF ScanEnded
    <3>3. op.offset \in Nat
      BY <1>1, <2>1 DEF HasListed
    <3>4. PICK a, b \in Nat : a = s.s_inode_start + op.offset /\ b = s.s_inode_start + s.s_isize - 1
                              /\ a <= b
      BY <2>2, <3>2, <3>3
    <3> QED BY <2>1, <2>7, <3>2, <3>4 DEF IsImage
  <2>8. [k \in DOMAIN got |-> got[k].number] = Ascending(live)
    <3>1. PICK f : f = [k \in 1 .. n |-> got[k].number]
      OBVIOUS
    <3>2. /\ f \in [1 .. n -> live] /\ \A j, k \in 1 .. n : j < k => f[j] < f[k]
          /\ \A x \in live : \E k \in 1 .. n : f[k] = x
      BY <2>5, <3>1 DEF ListsAll, ListsSome
    <3>3. live \in SUBSET Int
      BY <2>6
    <3>4. f = Ascending(live)
      BY <3>2, <3>3, AscendingUnique
    <3> QED BY <2>4, <3>1, <3>4
  <2>9. ASSUME NEW k \in DOMAIN got, NEW size, size = InodeNo(img, s, got[k].number).i_size,
               size < SIZE1_RANGE
        PROVE  got[k].size = size
    <3>1. PICK x : x = got[k].number
      OBVIOUS
    <3>2. x \in live /\ got[k].size = size % SIZE1_RANGE
      BY <1>1, <2>4, <2>5, <2>9, <3>1 DEF ListsAll, ListsSome
    <3>3. InodeNo(img, s, x) \in InodeType
      BY <2>1, <2>2, <2>6, <3>2, LiveInodeType
    <3>4. size \in Nat
      BY <2>9, <3>1, <3>3, SizeIsNat
    <3>5. PICK W \in Nat \ {0} : W = SIZE1_RANGE
      BY OpsAssumption
    <3>6. size \in 0 .. W - 1 /\ 0 * W + size = size /\ 0 \in Nat
      BY <2>9, <3>4, <3>5
    <3>7. (0 * W + size) % W = size
      BY <3>6, DivModUnique
    <3> QED BY <3>2, <3>5, <3>6, <3>7
  <2> QED BY <2>7, <2>8, <2>9
<1>2. IInv /\ ScanInv => ScanListsLive
  BY <1>1 DEF ScanListsLive
<1> QED BY <1>2, ScanInvHolds, PTL
=============================================================================
