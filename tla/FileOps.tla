------------------------------ MODULE FileOps ------------------------------
(***************************************************************************)
(* The operations that read a whole file or a part of it: fs_read and      *)
(* fs_getattr of fs.c, do_cat and do_sha of shell.c with print_sha_inode   *)
(* of sha.c, each with its own struct filev6; and inode_scan_print, which  *)
(* reads the inodes.  A step is one turn of a loop.  The path is already   *)
(* an inode number (DirWalks has the lookup).  A read of FUSE asks for     *)
(* whole sectors.                                                          *)
(***************************************************************************)
EXTENDS FileV6, SortedSets, Sequences, SequencesExt

CONSTANTS Images, Inumbers, IoFaults,   \* as in FileReader
          Requests,     \* the <<size, offset>> of a fs_read, in sectors
          SIZE1_RANGE   \* 2^16 in the code: the range of i_size1, and of what %hu prints

ASSUME OpsAssumption ==
    /\ \A im \in Images : IsImage(im) /\ SUPERBLOCK_SECTOR \in DOMAIN im
    /\ Inumbers \subseteq Word
    /\ Requests \subseteq (Nat \ {0}) \X Nat
    /\ {} \in IoFaults
    /\ SIZE1_RANGE \in Nat \ {0}

ERR_CAT_ON_DIRECTORY == 5

VARIABLES img,
          pc,     \* "idle", or the operation whose loop runs
          op,     \* [kind, inr, size, offset, clean] of the last operation; clean: no
                  \* sector failed in it
          fv6,    \* the file that it opened
          got,    \* what it delivered: sectors of the buffer, of the output or of the
                  \* digest, or lines about inodes
          ret     \* what it returned

vars == <<img, pc, op, fv6, got, ret>>

Operation(kind, inr, clean) == [kind |-> kind, inr |-> inr, size |-> 1, offset |-> 0, clean |-> clean]

Init == /\ img \in Images
        /\ pc = "idle"
        /\ op = Operation("none", 0, TRUE)
        /\ fv6 = NoFile
        /\ got = <<>>
        /\ ret = 0

\* An operation begins, and goes into its loop or ends at once.
Enter(kind, file) == pc' = kind /\ fv6' = file /\ got' = <<>> /\ ret' = 0
Return(code)      == pc' = "idle" /\ ret' = code

\* fill_inode reads the inode, filev6_open reads it again.
FillInode(inr, bad) == inode_read(Visible(img, bad), MountedSuper(img), inr)
Opened(inr, bad) == filev6_open(Visible(img, bad), MountedSuper(img), inr, NoFile)

\* A slip: the result of filev6_open is not looked at.
OpenCodeIgnored(open) == 0

OpenCode(open) == open.ret

\* A seek that is refused makes fs_read return 0, the end of the file.
FsRead == \E inr \in Inumbers, request \in Requests, bad, bad2 \in IoFaults :
    LET open == Opened(inr, bad2)
        seek == filev6_lseek(open.fv6, request[2] * SECTOR_SIZE)
        code == IF FillInode(inr, bad) # 0 THEN FillInode(inr, bad) ELSE OpenCode(open)
    IN  /\ pc = "idle"
        /\ op' = [kind |-> "fs_read", inr |-> inr, size |-> request[1], offset |-> request[2],
                  clean |-> bad = {} /\ bad2 = {}]
        /\ \/ code # 0 /\ Return(code) /\ got' = <<>> /\ UNCHANGED fv6
           \/ code = 0 /\ seek.ret # 0 /\ Return(0) /\ got' = <<>> /\ UNCHANGED fv6
           \/ code = 0 /\ seek.ret = 0 /\ Enter("fs_read", seek.fv6)
        /\ UNCHANGED img

Cat == \E inr \in Inumbers, bad, bad2 \in IoFaults :
    LET inode == InodeNo(Visible(img, bad), MountedSuper(img), inr)
        open  == Opened(inr, bad2)
        code  == IF FillInode(inr, bad) # 0 THEN FillInode(inr, bad)
                 ELSE IF IsDirectory(inode) THEN ERR_CAT_ON_DIRECTORY ELSE OpenCode(open)
    IN  /\ pc = "idle"
        /\ op' = Operation("cat", inr, bad = {} /\ bad2 = {})
        /\ \/ code # 0 /\ Return(code) /\ got' = <<>> /\ UNCHANGED fv6
           \/ code = 0 /\ Enter("cat", open.fv6)
        /\ UNCHANGED img

\* print_sha_inode returns nothing, so that do_sha answers 0 when the second read of the
\* inode fails; a directory has no digest, and nor has a block device (its mode has IFDIR).
Sha == \E inr \in Inumbers, bad, bad2 \in IoFaults :
    LET inode == InodeNo(Visible(img, bad), MountedSuper(img), inr)
        open  == Opened(inr, bad2)
        reads == /\ FillInode(inr, bad) = 0
                 /\ (inode.i_mode \div IFDIR) % 2 = 0 /\ open.ret = 0
    IN  /\ pc = "idle"
        /\ op' = Operation(IF reads THEN "sha" ELSE "no_sha", inr, bad = {} /\ bad2 = {})
        /\ \/ reads /\ Enter("sha", open.fv6)
           \/ ~reads /\ Return(FillInode(inr, bad)) /\ got' = <<>> /\ UNCHANGED fv6
        /\ UNCHANGED img

\* st_size is i_size1 alone: got holds it.
Getattr == \E inr \in Inumbers, bad \in IoFaults :
    LET inode == InodeNo(Visible(img, bad), MountedSuper(img), inr)
    IN  /\ pc = "idle"
        /\ op' = Operation("getattr", inr, bad = {})
        /\ Return(FillInode(inr, bad))
        /\ got' = IF FillInode(inr, bad) = 0 THEN <<inode.i_size % SIZE1_RANGE>> ELSE <<>>
        /\ UNCHANGED <<img, fv6>>

\* A slip: the loop of fs_read reads one sector too many.
FsReadGoesOnTooFar(sectors) == sectors <= op.size

FsReadGoesOn(sectors) == sectors < op.size

\* One turn of the loop: what was read so far is lost when a sector fails.
FsReadStep == \E bad \in IoFaults :
    LET r == filev6_readblock(Visible(img, bad), fv6)
    IN  /\ pc = "fs_read"
        /\ fv6' = r.fv6
        /\ \/ /\ r.ret = SECTOR_SIZE
              /\ got' = Append(got, UpToNul(r.data))
              /\ IF FsReadGoesOn(Len(got')) THEN UNCHANGED <<pc, ret>>
                 ELSE Return(Len(got') * SECTOR_SIZE)
           \/ r.ret = 0 /\ Return(Len(got) * SECTOR_SIZE) /\ UNCHANGED got
           \/ r.ret < 0 /\ Return(r.ret) /\ UNCHANGED got
        /\ op' = [op EXCEPT !.clean = @ /\ bad = {}]
        /\ UNCHANGED img

\* A slip: the loop ends at an error, and not at the end of the file.
CatStepOverEnd == \E bad \in IoFaults :
    LET r == filev6_readblock(Visible(img, bad), fv6)
    IN  /\ pc = "cat"
        /\ fv6' = r.fv6
        /\ \/ r.ret >= 0 /\ got' = <<UpToNul(r.data)>> /\ UNCHANGED <<pc, ret>>
           \/ r.ret < 0 /\ Return(r.ret) /\ UNCHANGED got
        /\ op' = [op EXCEPT !.clean = @ /\ bad = {}]
        /\ UNCHANGED img

CatStep == \E bad \in IoFaults :
    LET r == filev6_readblock(Visible(img, bad), fv6)
    IN  /\ pc = "cat"
        /\ fv6' = r.fv6
        /\ \/ r.ret = SECTOR_SIZE /\ got' = Append(got, UpToNul(r.data)) /\ UNCHANGED <<pc, ret>>
           \/ r.ret # SECTOR_SIZE /\ Return(r.ret) /\ UNCHANGED got
        /\ op' = [op EXCEPT !.clean = @ /\ bad = {}]
        /\ UNCHANGED img

\* A slip: the place in the buffer moves on also when nothing was read.
ShaGoesOnAtError(ret_code) == ret_code # 0

ShaGoesOn(ret_code) == ret_code = SECTOR_SIZE

\* The digest is printed whatever ended the loop.
ShaStep == \E bad \in IoFaults :
    LET r == filev6_readblock(Visible(img, bad), fv6)
    IN  /\ pc = "sha"
        /\ fv6' = r.fv6
        /\ \/ ShaGoesOn(r.ret) /\ got' = Append(got, r.data) /\ UNCHANGED <<pc, ret>>
           \/ ~ShaGoesOn(r.ret) /\ Return(0) /\ UNCHANGED got
        /\ op' = [op EXCEPT !.clean = @ /\ bad = {}]
        /\ UNCHANGED img

\* The loop variable i of inode_scan_print is op.offset.
Scan == /\ pc = "idle"
        /\ op' = Operation("scan", 0, TRUE)
        /\ Enter("scan", NoFile)
        /\ UNCHANGED img

InodeLine(inode, number) ==
    [number |-> number, kind |-> IF (inode.i_mode \div IFDIR) % 2 = 1 THEN "DIR" ELSE "FIL",
     size |-> inode.i_size % SIZE1_RANGE]

\* A slip: the inodes are numbered within their sector.
InodeLinesOfSector(sector, i) ==
    LET live == {j \in 0 .. INODES_PER_SECTOR - 1 : Allocated(InodeAt(sector, j))}
    IN  [k \in 1 .. Cardinality(live) |->
            LET j == Ascending(live)[k] IN InodeLine(InodeAt(sector, j), j)]

\* inode_print_one for each inode of a sector.
InodeLines(sector, i) ==
    LET live == {j \in 0 .. INODES_PER_SECTOR - 1 : Allocated(InodeAt(sector, j))}
    IN  [k \in 1 .. Cardinality(live) |->
            LET j == Ascending(live)[k]
            IN  InodeLine(InodeAt(sector, j), i * INODES_PER_SECTOR + j)]

ScanStep == \E bad \in IoFaults :
    LET n == MountedSuper(img).s_inode_start + op.offset
    IN  /\ pc = "scan"
        /\ \/ /\ op.offset >= MountedSuper(img).s_isize
              /\ Return(0)
              /\ UNCHANGED <<op, got>>
           \/ /\ op.offset < MountedSuper(img).s_isize /\ n \in DOMAIN img \ bad
              /\ got' = got \o InodeLines(img[n], op.offset)
              /\ op' = [op EXCEPT !.offset = @ + 1]
              /\ UNCHANGED <<pc, ret>>
           \/ /\ op.offset < MountedSuper(img).s_isize /\ n \notin DOMAIN img \ bad
              /\ Return(ERR_IO)
              /\ op' = [op EXCEPT !.clean = @ /\ bad = {}]
              /\ UNCHANGED got
        /\ UNCHANGED <<img, fv6>>

Step == FsReadStep \/ CatStep \/ ShaStep \/ ScanStep
Next == FsRead \/ Cat \/ Sha \/ Getattr \/ Scan \/ Step

\* A loop that runs goes on: nothing in it waits.
Spec == Init /\ [][Next]_vars /\ WF_vars(Step)

-----------------------------------------------------------------------------
TypeOK == /\ img \in Images
          /\ pc \in {"idle", "fs_read", "cat", "sha", "scan"}
          /\ pc # "idle" => op.kind = pc
          /\ pc \notin {"idle", "scan"} => Allocated(fv6.i_node) /\ fv6.offset \in Nat
          /\ ret \in Int

Inode == InodeNo(img, MountedSuper(img), op.inr)

\* The sectors of the file that lie in a request, one after the other.
Requested(size, offset) ==
    LET blocks == FileBlocks(img, Inode)
        count  == SectorsOf(Inode.i_size) - offset
    IN  [k \in 1 .. (IF count < size THEN count ELSE size) |-> blocks[offset + k - 1]]

\* No zero byte but at the end of a sector.
IsText == LET blocks == FileBlocks(img, Inode)
          IN  \A k \in DOMAIN blocks : UpToNul(blocks[k]) = blocks[k]

\* fs.c:224, `Read the data until buf size or end of file': a fs_read of a text that does not
\* fail has delivered the sectors of its request, all of them up to the end of the file, and
\* has counted them.  (Of a sector with a zero byte in it, fs.c:229 copies the part before.)
ReadsUntilSizeOrEnd ==
    pc = "idle" /\ op.kind = "fs_read" /\ ret >= 0 /\ IsText
        => got = Requested(op.size, op.offset) /\ ret = Len(got) * SECTOR_SIZE

\* do_cat answers 0 when it has shown the text, all of it and nothing twice.
CatShowsFile ==
    pc = "idle" /\ op.kind = "cat" /\ ret = 0 /\ IsText
        => got = Requested(SectorsOf(Inode.i_size), 0)

\* inode.h:70, `read all inodes from disk and print out their content'.  The lines of a scan
\* are about the inodes that inode_read finds allocated, in order, with their sizes (of
\* those that fit in 16 bits); all of them when it answers 0, and else those of the sectors
\* before the one that failed.
ScanListsLive ==
    pc = "idle" /\ op.kind = "scan" =>
        LET s    == MountedSuper(img)
            seen == IF ret = 0 THEN s.s_isize ELSE op.offset
            live == {inr \in LiveInodes(img, s) : inr \div INODES_PER_SECTOR < seen}
        IN  /\ op.clean /\ s.s_inode_start + s.s_isize - 1 \in DOMAIN img => ret = 0
            /\ [k \in DOMAIN got |-> got[k].number] = Ascending(live)
            /\ \A k \in DOMAIN got :
                  LET size == InodeNo(img, s, got[k].number).i_size
                  IN  size < SIZE1_RANGE => got[k].size = size

\* Every operation ends: readblock goes back to the start of the file when it answers 0, so
\* that a loop that missed that answer would go round for ever.
OperationsEnd == pc # "idle" ~> pc = "idle"

\* sha.h:27: what print_sha_inode prints is the digest of the content of the inode.  When
\* sectors fail it is that of a part of the content, with what was in the buffer behind it.
ShaOfTheContent ==
    pc = "idle" /\ op.kind = "sha"
        => LET content == Requested(SectorsOf(Inode.i_size), 0)
           IN  IsPrefix(got, content) /\ (op.clean => got = content)
=============================================================================
