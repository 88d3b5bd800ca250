----------------------------- MODULE FileReader -----------------------------
(***************************************************************************)
(* The calls that a program makes on one struct filev6 (filev6.c): opens,  *)
(* reads and seeks in any order, on a disk some of whose sectors fail      *)
(* during a call.  No call of the shell, of FUSE or of test-file.c writes  *)
(* to the disk while it has a file open.                                   *)
(***************************************************************************)
EXTENDS FileV6

CONSTANTS Images,       \* the disks
          Inumbers,     \* the inode numbers that are opened
          Offsets,      \* the arguments of filev6_lseek
          IoFaults      \* the sets of sectors that can fail during a call

ASSUME ReaderAssumption ==
    /\ \A im \in Images : IsImage(im) /\ SUPERBLOCK_SECTOR \in DOMAIN im
    /\ Inumbers \subseteq Word
    /\ Offsets \subseteq Int
    /\ {} \in IoFaults

VARIABLES img,
          fv6,
          ready,        \* the last filev6_open returned 0
          last          \* [op, arg, bad, ret, data] of the last call

vars == <<img, fv6, ready, last>>

Init == /\ img \in Images
        /\ fv6 = NoFile
        /\ ready = FALSE
        /\ last = [op |-> "none", arg |-> 0, bad |-> {}, ret |-> 0, data |-> ZeroSector]

Open == \E inr \in Inumbers, bad \in IoFaults :
    LET r == filev6_open(Visible(img, bad), MountedSuper(img), inr, fv6)
    IN  /\ fv6' = r.fv6
        /\ ready' = (r.ret = 0)
        /\ last' = [op |-> "open", arg |-> inr, bad |-> bad, ret |-> r.ret, data |-> ZeroSector]
        /\ UNCHANGED img

\* No caller reads through a structure whose open failed.
ReadBlock == \E bad \in IoFaults :
    LET r == filev6_readblock(Visible(img, bad), fv6)
    IN  /\ ready
        /\ fv6' = r.fv6
        /\ last' = [op |-> "readblock", arg |-> fv6.offset, bad |-> bad, ret |-> r.ret,
                     data |-> r.data]
        /\ UNCHANGED <<img, ready>>

LSeek == \E offset \in Offsets :
    LET r == filev6_lseek(fv6, offset)
    IN  /\ ready
        /\ fv6' = r.fv6
        /\ last' = [op |-> "lseek", arg |-> offset, bad |-> {}, ret |-> r.ret,
                     data |-> ZeroSector]
        /\ UNCHANGED <<img, ready>>

Next == Open \/ ReadBlock \/ LSeek

Spec == Init /\ [][Next]_vars

-----------------------------------------------------------------------------
\* An open file is an allocated inode of the disk; the cursor is at most a sector past its end.
TypeOK == /\ img \in Images
          /\ fv6 \in [i_number : Word, i_node : InodeType, offset : Nat]
          /\ ready => /\ Allocated(fv6.i_node)
                      /\ fv6.offset < fv6.i_node.i_size + SECTOR_SIZE

Stream == INSTANCE FileStream WITH
    BLOCK_SIZE <- SECTOR_SIZE, Absent <- Missing,
    files  <- [inr \in LiveInodes(img, MountedSuper(img)) |->
                   FileBlocks(img, InodeNo(img, MountedSuper(img), inr))],
    blocks <- FileBlocks(img, fv6.i_node),
    next   <- fv6.offset \div SECTOR_SIZE,
    answer <- last

\* filev6.h:25-48, for seeks to the start of a sector: whatever calls fail, the sectors of
\* the file that was opened are delivered in order, and its end is told once per pass.
\* The count that filev6.h:46 announces for a partly used last sector is not part of it.
RefinesFileStream == Stream!Spec
=============================================================================
