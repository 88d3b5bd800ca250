---------------------------- MODULE MCFileReader ----------------------------
(***************************************************************************)
(* Instances of FileReader for TLC, with sectors of 8 words (16 bytes).    *)
(***************************************************************************)
EXTENDS FileReader, MCDisks

\* A file of a sector and a half, an empty one, one that fills two sectors less a byte.
MCSmall == DiskOf(<<FreeInode, FileInode(24, 4, 5), FileInode(0, 0, 0), FileInode(31, 5, 6)>>, <<Text(1), Text(2), Text(3)>>)

\* Large files: of two sectors, of three sectors and a word, and one whose address sector
\* is past the end of the disk.
MCLarge == DiskOf(<<FreeInode, FileInode(32, 5, 0), FileInode(50, 6, 0), FileInode(40, 99, 0)>>,
                  <<Text(1), <<4, 7>>, <<4, 7, 8, 99>>, Text(2), Text(3)>>)

\* A file larger than the code reads, and the largest one.
MCExtra == DiskOf(<<FreeInode, FileInode(129, 5, 5), FileInode(128, 5, 0), FreeInode>>,
                  <<Text(1), <<4, 4, 4, 6, 4, 4, 4, 4>>, Text(2)>>)

MCImages == {MCSmall, MCLarge, MCExtra}
\* The numbers of the region, and one that is far from it.
MCInumbers == 0 .. 3 \cup {40}
MCAligned  == {-16, 0, 16, 32, 48, 112}
\* During a call an inode sector, the second data sector or the third one fails.
MCFaults == {{}, {2}, {5}, {6}}
=============================================================================
