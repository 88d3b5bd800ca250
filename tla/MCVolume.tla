------------------------------ MODULE MCVolume ------------------------------
(***************************************************************************)
(* Instances of Volume for TLC.  With 2 inodes per sector and 2 addresses  *)
(* per inode a sector has 8 words and 16 bytes, a file is large from 32    *)
(* bytes on, and the inodes of a disk are in 2 or 3 sectors.               *)
(***************************************************************************)
EXTENDS Volume, Sequences

SectorOf(words) == [w \in Words |-> IF w < Len(words) THEN words[w + 1] ELSE 0]
ImageOf(sectors) == [n \in 0 .. Len(sectors) - 1 |-> SectorOf(sectors[n + 1])]

Boot  == <<BOOTBLOCK_MAGIC_NUM>>
Super(isize, fsize, istart, bstart) == <<isize, fsize, istart, bstart>>
FreeInode      == <<0, 0, 0, 0>>
DirInode(a)    == <<IALLOC + IFDIR, SECTOR_SIZE, a, 0>>
FileInode(size, a, b) == <<IALLOC, size, a, b>>
Data == <<65535, 40000>>    \* its first word, seen as an i_mode, has IALLOC set

MCEmpty     == ImageOf(<<>>)
MCForeign   == ImageOf(<<Data, Data>>)
MCTruncated == ImageOf(<<Boot>>)
MCFormatted == MkfsImage(MkfsSuperblock(9, 4))

\* A root directory, a file of two sectors that leaves a free inode beside it.
MCSmallFiles == ImageOf(<<Boot, Super(2, 9, 2, 4), FreeInode \o DirInode(5),
                          FileInode(24, 6, 7) \o FreeInode, <<>>, Data, Data, Data>>)

\* A file that its size makes large: sector 6 holds the addresses 7 and 8.
MCLargeFile == ImageOf(<<Boot, Super(2, 9, 2, 4), FreeInode \o DirInode(5),
                         FreeInode \o FileInode(32, 6, 0), <<>>, Data, <<7, 8>>, Data, Data>>)

MCImages == {MCEmpty, MCForeign, MCTruncated, MCFormatted, MCSmallFiles, MCLargeFile}
MCOneDisk  == {MCSmallFiles}
MCNoDisk   == {MCEmpty}

\* A disk of 4 inodes, one that is too small, and one whose inodes fill no sector.
MCMkfsArgs == {<<9, 4>>, <<5, 4>>, <<9, 1>>}
\* Two sectors of inodes, when a sector has nine.
MCTwoSectors == {<<20, 18>>}
MCNoMkfs == {}

MCModes == {IALLOC, IALLOC + IFDIR}
MCOneMode == {IALLOC}

MCNoFaults == {{}}
\* During a call the superblock and the first inode sector fail, or the second one.
MCFaults == {{}, {1, 2}, {3}}
MCReadFaults == {{}, {3}}

MCNoDirect == {}
=============================================================================
