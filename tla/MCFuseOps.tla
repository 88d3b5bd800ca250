----------------------------- MODULE MCFuseOps -----------------------------
(***************************************************************************)
(* The instance of FuseOps for TLC: two threads.                           *)
(***************************************************************************)
EXTENDS FuseOps, MCDisks

CONSTANTS t1, t2

MCThreads == {t1, t2}

\* The root, with one file, of two sectors behind a sector of addresses.  Each of the two
\* inodes is where a read of the wrong inode sector looks for the other.
SmallDisk == DiskOf(<<FreeInode, DirInode(4, 4, 0), FreeInode, FileInode(32, 5, 0)>>,
                    <<<<3, 98>>, <<6, 7>>, Text(1), Text(2)>>)

\* With CHOOSE TLC computes the image once, and not in every state.
MCDisk == CHOOSE img \in {SmallDisk} : IsImage(img)

Request(kind, path, size, offset) == [kind |-> kind, path |-> path, size |-> size, offset |-> offset]

\* /x does not exist; the read of /b gets its last sector, and then the end of the file.
MCRequests == {Request("getattr", <<SLASH, 120>>, 1, 0), Request("readdir", <<SLASH>>, 1, 0),
               Request("read", <<SLASH, 98>>, 2, 1)}

\* The disk of the instance is one that FuseOpsProofs!UndisturbedOperations speaks of.
ASSUME SoundDisk == DiskIsSound
=============================================================================
