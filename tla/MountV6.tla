------------------------------ MODULE MountV6 ------------------------------
(***************************************************************************)
(* mount.c as operators: the image that mountv6_mkfs writes, and what      *)
(* mountv6 makes of an image.  The bitmaps are the number pools that       *)
(* BmBlock implements.                                                     *)
(***************************************************************************)
EXTENDS UnixV6, NumberSet

\* struct unix_filesystem with f = NULL; `mounted': mountv6 returned 0.
Closed == [open |-> FALSE, mounted |-> FALSE, s |-> NoSuperblock, ibm |-> NoPool, fbm |-> NoPool]

-----------------------------------------------------------------------------
(* What mountv6_mkfs writes.                                               *)

MkfsSuperblock(num_blocks, num_inodes) ==
    LET isize == num_inodes \div INODES_PER_SECTOR
    IN  [s_isize |-> isize, s_fsize |-> num_blocks,
         s_inode_start |-> SUPERBLOCK_SECTOR + 1, s_block_start |-> SUPERBLOCK_SECTOR + 1 + isize]

\* tot_inodes and n_inode_sector of the code.
MkfsInodeSectors(s) == (s.s_inode_start + s.s_block_start + 2) \div INODES_PER_SECTOR

MkfsImage(s) ==
    [n \in 0 .. SUPERBLOCK_SECTOR + 1 + MkfsInodeSectors(s) |->
        IF n = BOOTBLOCK_SECTOR THEN [ZeroSector EXCEPT ![0] = BOOTBLOCK_MAGIC_NUM]
        ELSE IF n = SUPERBLOCK_SECTOR THEN SuperblockSector(s)
        ELSE IF n = SUPERBLOCK_SECTOR + 1 THEN PutNewInode(ZeroSector, ROOT_INUMBER, IALLOC + IFDIR)
        ELSE ZeroSector]

-----------------------------------------------------------------------------
(* What mountv6 reads.                                                     *)

\* A slip: the range of the inode bitmap ends one number early.
NewIbmOneShort(s) == NewPool(s.s_inode_start, s.s_isize * INODES_PER_SECTOR - 2)

NewIbm(s) == NewPool(s.s_inode_start, s.s_isize * INODES_PER_SECTOR - 1)
NewFbm(s) == NewPool(s.s_block_start + 1, s.s_fsize - 1)

\* A slip: the loop over the inode sectors ends before the last one.
ScannedButLastSector(img, s) ==
    {inr \in RegionInodes(s) : /\ InodeSector(s, inr) \in DOMAIN img
                               /\ InodeSector(s, inr) < s.s_inode_start + s.s_isize - 1}

\* fill_ibm and fill_fbm return, silently, at the first inode sector they cannot read.
Scanned(img, s) ==
    {inr \in RegionInodes(s) : \A n \in s.s_inode_start .. InodeSector(s, inr) : n \in DOMAIN img}

ScannedLive(img, s) == {inr \in Scanned(img, s) : Allocated(InodeNo(img, s, inr))}

fill_ibm(img, s) == TakeAll(NewIbm(s), ScannedLive(img, s))

\* A slip: the index is counted up before the sector is looked for.
SectorsAfterFirst(img, i) ==
    {inode_findsector(img, i, off) : off \in
        {o \in 1 .. ADDR_SMALL_LENGTH * ADDRESSES_PER_SECTOR - 1 :
            \A p \in 1 .. o : inode_findsector(img, i, p) > 0}}

\* The do-while of fill_fbm: the sectors of a file up to the first that is 0 or an error.
FileSectors(img, i) ==
    {inode_findsector(img, i, off) : off \in
        {o \in 0 .. ADDR_SMALL_LENGTH * ADDRESSES_PER_SECTOR - 1 :
            \A p \in 0 .. o : inode_findsector(img, i, p) > 0}}

fill_fbm(img, s) ==
    TakeAll(NewFbm(s), UNION {FileSectors(img, InodeNo(img, s, inr)) : inr \in ScannedLive(img, s)})

\* What mountv6 returns once the file is open: the first check that fails.
mount_error(img) ==
    IF BOOTBLOCK_SECTOR \notin DOMAIN img THEN ERR_IO
    ELSE IF Magic(img[BOOTBLOCK_SECTOR]) # BOOTBLOCK_MAGIC_NUM THEN ERR_BADBOOTSECTOR
    ELSE IF SUPERBLOCK_SECTOR \notin DOMAIN img THEN ERR_IO
    ELSE LET s == SuperblockAt(img[SUPERBLOCK_SECTOR])
         IN  IF NewIbm(s) = NoPool \/ NewFbm(s) = NoPool THEN ERR_IO ELSE 0

\* The structure as mountv6 leaves it: after an error the stream stays open.
mount_result(img) ==
    LET error == mount_error(img)
        got   == /\ {BOOTBLOCK_SECTOR, SUPERBLOCK_SECTOR} \subseteq DOMAIN img
                 /\ error # ERR_BADBOOTSECTOR
        s     == IF got THEN SuperblockAt(img[SUPERBLOCK_SECTOR]) ELSE NoSuperblock
    IN  [open |-> TRUE, mounted |-> error = 0, s |-> s,
         ibm |-> IF error = 0 THEN fill_ibm(img, s) ELSE NewIbm(s),
         fbm |-> IF error = 0 THEN fill_fbm(img, s) ELSE NewFbm(s)]
=============================================================================
