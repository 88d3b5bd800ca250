------------------------------ MODULE MCDisks ------------------------------
(***************************************************************************)
(* How the instances write down small disks: with 2 inodes per sector and  *)
(* 2 addresses per inode, a sector has 8 words, a file is large from 32    *)
(* bytes on, and data starts behind the inodes, which start at sector 2.   *)
(***************************************************************************)
EXTENDS UnixV6, Sequences

SectorOf(words) == [w \in Words |-> IF w < Len(words) THEN words[w + 1] ELSE 0]

FreeInode == <<0, 0, 0, 0>>
FileInode(size, a, b) == <<IALLOC, size, a, b>>
DirInode(size, a, b)  == <<IALLOC + IFDIR, size, a, b>>

\* A sector of text: no byte of it is zero.
Text(n) == [w \in 1 .. ADDRESSES_PER_SECTOR |-> 257 * (16 * n + w)]

\* The disk with these inodes, and these data sectors behind them.
DiskOf(inodes, data) ==
    LET isize  == (Len(inodes) + 1) \div 2
        super  == <<isize, 2 + isize + Len(data), 2, 2 + isize>>
        inode(k) == IF k \in DOMAIN inodes THEN inodes[k] ELSE FreeInode
        sectors == <<(<<BOOTBLOCK_MAGIC_NUM>>), super>>
                   \o [k \in 1 .. isize |-> inode(2 * k - 1) \o inode(2 * k)] \o data
    IN  [n \in 0 .. Len(sectors) - 1 |-> SectorOf(sectors[n + 1])]
=============================================================================
