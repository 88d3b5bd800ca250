------------------------------- MODULE UnixV6 -------------------------------
(***************************************************************************)
(* The on-disk layout of unixv6fs.h and the code that only reads it        *)
(* (inode.c).  An image is a function from sector numbers 0..n-1 to        *)
(* sectors, a sector a function from positions to 16-bit words; the boot   *)
(* block, the superblock, inodes and addresses are ways to look at the     *)
(* same words, because nothing in the code checks what a sector holds.     *)
(* Fields that no code reads or writes are left out of the two structures, *)
(* and the word i_size stands for i_size0 and i_size1 (inode_getsize).     *)
(* A sector_read that fails is a sector that is not in the DOMAIN.         *)
(***************************************************************************)
EXTENDS Integers

CONSTANTS INODES_PER_SECTOR,   \* 16 in the code
          ADDR_SMALL_LENGTH    \* 8 in the code

\* The superblock's four words and the root inode must fit in a sector, and a large file have
\* an address to spare: EXTRA_LARGE_FILE is no less than the size of a small file.
ASSUME LayoutAssumption == /\ INODES_PER_SECTOR \in Nat /\ INODES_PER_SECTOR > 1
                           /\ ADDR_SMALL_LENGTH \in Nat /\ ADDR_SMALL_LENGTH > 1

ERR_IO                == -126
ERR_BADBOOTSECTOR     == -125
ERR_INODE_OUTOF_RANGE == -124
ERR_UNALLOCATED_INODE == -121
ERR_FILE_TOO_LARGE    == -118
ERR_OFFSET_OUT_OF_RANGE == -117
ERR_BAD_PARAMETER     == -116
ERR_NOT_ENOUGH_BLOCS  == -115
ERR_NOMEM             == -127

INODE_WORDS          == 2 + ADDR_SMALL_LENGTH             \* i_mode, i_size, i_addr
ADDRESSES_PER_SECTOR == INODES_PER_SECTOR * INODE_WORDS
SECTOR_SIZE          == 2 * ADDRESSES_PER_SECTOR          \* ADDRESS_SIZE is 2 bytes
EXTRA_LARGE_FILE     == (ADDR_SMALL_LENGTH - 1) * ADDRESSES_PER_SECTOR * SECTOR_SIZE

BOOTBLOCK_SECTOR    == 0
SUPERBLOCK_SECTOR   == 1
BOOTBLOCK_MAGIC_NUM == 7       \* (uint8_t)0407
ROOT_INUMBER        == 1
IALLOC == 32768
IFDIR  == 16384

UINT16_MAX == 65535
Word   == 0 .. UINT16_MAX
Words  == 0 .. ADDRESSES_PER_SECTOR - 1
Sector == [Words -> Word]
ZeroSector == [w \in Words |-> 0]

IsImage(img) == \E n \in 0 .. UINT16_MAX : img \in [0 .. n - 1 -> Sector]

\* An image without the sectors that cannot be read now.
Visible(img, bad) == [n \in DOMAIN img \ bad |-> img[n]]

-----------------------------------------------------------------------------
(* The views of a sector.                                                  *)

NoSuperblock == [s_isize |-> 0, s_fsize |-> 0, s_inode_start |-> 0, s_block_start |-> 0]

SuperblockAt(sector) == [s_isize |-> sector[0], s_fsize |-> sector[1],
                         s_inode_start |-> sector[2], s_block_start |-> sector[3]]

SuperblockSector(s) == [ZeroSector EXCEPT ![0] = s.s_isize, ![1] = s.s_fsize,
                                          ![2] = s.s_inode_start, ![3] = s.s_block_start]

\* BOOTBLOCK_MAGIC_NUM_OFFSET is the low byte of the first word.
Magic(sector) == sector[0] % 256

InodeAt(sector, j) ==
    LET base == j * INODE_WORDS
    IN  [i_mode |-> sector[base], i_size |-> sector[base + 1],
         i_addr |-> [k \in 0 .. ADDR_SMALL_LENGTH - 1 |-> sector[base + 2 + k]]]

\* A new inode is all zeroes but for its mode.
PutNewInode(sector, j, mode) ==
    [w \in Words |-> IF w \div INODE_WORDS # j THEN sector[w]
                     ELSE IF w = j * INODE_WORDS THEN mode ELSE 0]

Allocated(i) == (i.i_mode \div IALLOC) % 2 = 1

-----------------------------------------------------------------------------
(* inode.c, the functions that do not write.                               *)

\* A slip: the sector within the region, taken for the sector of the disk.
InodeSectorOfRegion(s, inr) == inr \div INODES_PER_SECTOR

InodeSector(s, inr) == s.s_inode_start + inr \div INODES_PER_SECTOR

InodeNo(img, s, inr) == InodeAt(img[InodeSector(s, inr)], inr % INODES_PER_SECTOR)

\* The range test of inode_read and inode_write, as the code has it.
OutOfInodes(s, inr) == inr \div INODES_PER_SECTOR > s.s_isize

\* What inode_read returns; on 0 the inode is InodeNo(img, s, inr).
inode_read(img, s, inr) ==
    IF OutOfInodes(s, inr) THEN ERR_INODE_OUTOF_RANGE
    ELSE IF InodeSector(s, inr) \notin DOMAIN img THEN ERR_IO
    ELSE IF Allocated(InodeNo(img, s, inr)) THEN 0 ELSE ERR_UNALLOCATED_INODE

\* The size, not ILARG, tells direct from indirect addressing.
IsSmall(i) == i.i_size < ADDR_SMALL_LENGTH * SECTOR_SIZE

AddressSector(i, off) == i.i_addr[off \div ADDRESSES_PER_SECTOR]

\* i_size is 24 bits wide, so that the test for a negative size never fires.
inode_findsector(img, i, off) ==
    IF off < 0 THEN ERR_BAD_PARAMETER
    ELSE IF ~Allocated(i) THEN ERR_UNALLOCATED_INODE
    ELSE IF i.i_size > EXTRA_LARGE_FILE THEN ERR_FILE_TOO_LARGE
    ELSE IF IsSmall(i)
         THEN IF off > i.i_size \div SECTOR_SIZE THEN ERR_OFFSET_OUT_OF_RANGE ELSE i.i_addr[off]
    ELSE IF off \div ADDRESSES_PER_SECTOR >= ADDR_SMALL_LENGTH THEN ERR_OFFSET_OUT_OF_RANGE
    ELSE IF AddressSector(i, off) \notin DOMAIN img THEN ERR_IO
    ELSE img[AddressSector(i, off)][off % ADDRESSES_PER_SECTOR]

\* The sectors of the inode region.
InodeRegionOf(s) == s.s_inode_start .. s.s_inode_start + s.s_isize - 1

\* The numbers of the inode region, and those of them that the image marks as allocated.
RegionInodes(s)   == 0 .. s.s_isize * INODES_PER_SECTOR - 1
LiveInodes(img, s) == {inr \in RegionInodes(s) : inode_read(img, s, inr) = 0}
=============================================================================
