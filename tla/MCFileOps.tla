----------------------------- MODULE MCFileOps -----------------------------
(***************************************************************************)
(* Instances of FileOps for TLC, with sectors of 8 words (16 bytes).       *)
(***************************************************************************)
EXTENDS FileOps, MCDisks

\* A file of three sectors and a bit, one of a full sector; a directory.
MCText == DiskOf(<<FreeInode, DirInode(16, 4, 0), FileInode(50, 5, 0), FileInode(16, 6, 0)>>,
                 <<Text(1), <<6, 7, 6, 8>>, Text(2), Text(3), Text(4)>>)

\* Its first sector has a zero byte in it.
MCBinary == DiskOf(<<FreeInode, FileInode(24, 4, 5), FreeInode, FreeInode>>,
                   <<<<257, 513, 3, 257, 257, 257, 257, 257>>, Text(2)>>)

MCImages == {MCText, MCBinary}
MCInumbers == {0, 1, 2, 3, 40}
MCRequests == {<<1, 0>>, <<2, 0>>, <<2, 2>>, <<4, 1>>, <<1, 3>>, <<2, 5>>}
MCNoFaults == {{}}
\* During a call an inode sector, the address sector or a data sector fails.
MCFaults == {{}, {3}, {5}, {8}}
=============================================================================
