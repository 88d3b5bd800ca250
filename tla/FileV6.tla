------------------------------- MODULE FileV6 -------------------------------
(***************************************************************************)
(* The part of filev6.c that reads, as operators: a struct filev6 goes in  *)
(* and comes out beside the value returned.  `disk' is the image as the    *)
(* call finds it: the sectors that cannot be read now are not in it.       *)
(***************************************************************************)
EXTENDS UnixV6

\* The values of a struct inode.
InodeType == [i_mode : Word, i_size : Word, i_addr : [0 .. ADDR_SMALL_LENGTH - 1 -> Word]]

\* Before the first open the code fills the structure with 255; nothing reads it.
NoInode == [i_mode |-> 0, i_size |-> 0, i_addr |-> [k \in 0 .. ADDR_SMALL_LENGTH - 1 |-> 0]]
NoFile  == [i_number |-> 0, i_node |-> NoInode, offset |-> 0]

\* u->s, which mountv6 read from the image.
MountedSuper(img) == SuperblockAt(img[SUPERBLOCK_SECTOR])

\* (i_mode & IFMT) == IFDIR
IsDirectory(i) == (i.i_mode \div 8192) % 4 = 2

\* When the inode cannot be read, the number and the offset have changed all the same.
filev6_open(disk, s, inr, fv6) ==
    LET ret == inode_read(disk, s, inr)
    IN  [ret |-> ret,
         fv6 |-> [i_number |-> inr, offset |-> 0,
                  i_node |-> IF ret = 0 THEN InodeNo(disk, s, inr) ELSE fv6.i_node]]

\* A slip: the cursor moves before the sector is read.
ReadblockMovesFirst(disk, fv6) ==
    LET sect == inode_findsector(disk, fv6.i_node, fv6.offset \div SECTOR_SIZE)
        Moved == [fv6 EXCEPT !.offset = @ + SECTOR_SIZE]
    IN  IF fv6.offset >= fv6.i_node.i_size
        THEN [ret |-> 0, data |-> ZeroSector, fv6 |-> [fv6 EXCEPT !.offset = 0]]
        ELSE IF sect < 0 THEN [ret |-> sect, data |-> ZeroSector, fv6 |-> Moved]
        ELSE IF sect \notin DOMAIN disk THEN [ret |-> ERR_IO, data |-> ZeroSector, fv6 |-> Moved]
        ELSE [ret |-> SECTOR_SIZE, data |-> disk[sect], fv6 |-> Moved]

\* A slip: the end of the file is taken for a sector that follows it.
ReadblockPastEnd(disk, fv6) ==
    LET sect == inode_findsector(disk, fv6.i_node, fv6.offset \div SECTOR_SIZE)
    IN  IF fv6.offset > fv6.i_node.i_size
        THEN [ret |-> 0, data |-> ZeroSector, fv6 |-> [fv6 EXCEPT !.offset = 0]]
        ELSE IF sect < 0 THEN [ret |-> sect, data |-> ZeroSector, fv6 |-> fv6]
        ELSE IF sect \notin DOMAIN disk THEN [ret |-> ERR_IO, data |-> ZeroSector, fv6 |-> fv6]
        ELSE [ret |-> SECTOR_SIZE, data |-> disk[sect],
              fv6 |-> [fv6 EXCEPT !.offset = @ + SECTOR_SIZE]]

\* data is what is copied to buf, and tells nothing when ret is not SECTOR_SIZE.
filev6_readblock(disk, fv6) ==
    LET sect == inode_findsector(disk, fv6.i_node, fv6.offset \div SECTOR_SIZE)
    IN  IF fv6.offset >= fv6.i_node.i_size
        THEN [ret |-> 0, data |-> ZeroSector, fv6 |-> [fv6 EXCEPT !.offset = 0]]
        ELSE IF sect < 0 THEN [ret |-> sect, data |-> ZeroSector, fv6 |-> fv6]
        ELSE IF sect \notin DOMAIN disk THEN [ret |-> ERR_IO, data |-> ZeroSector, fv6 |-> fv6]
        ELSE [ret |-> SECTOR_SIZE, data |-> disk[sect],
              fv6 |-> [fv6 EXCEPT !.offset = @ + SECTOR_SIZE]]

\* A slip: a negative offset is let through.
LseekUnchecked(fv6, offset) ==
    IF offset > fv6.i_node.i_size
    THEN [ret |-> ERR_OFFSET_OUT_OF_RANGE, fv6 |-> fv6]
    ELSE [ret |-> 0, fv6 |-> [fv6 EXCEPT !.offset = offset]]

filev6_lseek(fv6, offset) ==
    IF offset > fv6.i_node.i_size \/ offset < 0
    THEN [ret |-> ERR_OFFSET_OUT_OF_RANGE, fv6 |-> fv6]
    ELSE [ret |-> 0, fv6 |-> [fv6 EXCEPT !.offset = offset]]

ZeroByte(word) == word % 256 = 0 \/ word \div 256 = 0

\* memcpy of strlen(data) + 1 bytes, and printf("%s"), stop at the first zero byte; a word
\* has its low byte first.  The rest of the destination is zeroes.
UpToNul(sector) == [w \in Words |->
    IF sector[w] % 256 = 0 \/ \E v \in 0 .. w - 1 : ZeroByte(sector[v]) THEN 0 ELSE sector[w]]

-----------------------------------------------------------------------------
(* The content of a file, as the layout defines it (unixv6fs.h): what the  *)
(* readers must deliver.                                                   *)

\* The number of sectors that hold a file of this size.
SectorsOf(size) == (size + SECTOR_SIZE - 1) \div SECTOR_SIZE

\* The number of the k-th sector; -1 where the file has none.
FileSector(img, i, k) ==
    IF IsSmall(i) THEN i.i_addr[k]
    ELSE IF i.i_size <= EXTRA_LARGE_FILE /\ AddressSector(i, k) \in DOMAIN img
         THEN img[AddressSector(i, k)][k % ADDRESSES_PER_SECTOR]
         ELSE -1

\* Not a sector.
Missing == [w \in {} |-> 0]

FileBlock(img, i, k) == IF FileSector(img, i, k) \in DOMAIN img
                        THEN img[FileSector(img, i, k)] ELSE Missing

FileBlocks(img, i) == [k \in 0 .. SectorsOf(i.i_size) - 1 |-> FileBlock(img, i, k)]

\* The file has all its sectors on the disk.
IsComplete(img, i) == Missing \notin {FileBlocks(img, i)[k] : k \in DOMAIN FileBlocks(img, i)}
=============================================================================
