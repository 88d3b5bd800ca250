----------------------------- MODULE MCDirWalks -----------------------------
(***************************************************************************)
(* Instances of DirWalks for TLC: 4 entries of 4 bytes in a sector.        *)
(***************************************************************************)
EXTENDS DirWalks, MCDisks

Entry(name, inr) == <<inr, name>>
a == 97  b == 98  f == 102  x == 120  y == 121  q == 113  dot == 46
dots == dot + 256 * dot
n46  == 52 + 256 * 54     \* the name `46'
s == SLASH

\* The root has two sectors of entries; a fills its sector; a/y is empty; b has a free entry
\* between two others; f is a file.
MCTree == DiskOf(<<FreeInode, DirInode(20, 5, 6), DirInode(16, 7, 0), FileInode(16, 8, 0),
                   DirInode(0, 0, 0), DirInode(12, 9, 0)>>,
                 <<Entry(a, 2) \o Entry(f, 3) \o Entry(50, 3) \o Entry(51, 3), Entry(b, 5),
                   Entry(x, 3) \o Entry(y, 4) \o Entry(52, 5) \o Entry(n46, 3), Text(1),
                   Entry(54, 3) \o Entry(q, 0) \o Entry(x, 3)>>)

\* Directories that name themselves and the one above.
MCCycle == DiskOf(<<FreeInode, DirInode(8, 4, 0), DirInode(12, 5, 0), FileInode(0, 0, 0)>>,
                  <<Entry(dot, 1) \o Entry(a, 2), Entry(dot, 2) \o Entry(dots, 1) \o Entry(x, 3)>>)

MCImages == {MCTree, MCCycle}
MCTrees  == {MCTree}

\* The last two have CHAR_RANGE characters and more, /././.q and /a/../a/x.
MCPaths == {<<>>, <<s>>, <<s, a>>, <<a, s>>, <<s, b>>, <<s, q>>, <<s, s, a, s, s, x>>, <<a, s, y>>,
            <<s, a, s, q>>, <<s, f, s, x>>, <<s, b, s, x>>, <<s, a, s, 52, 54>>, <<s, a, s, 52, s, 54>>,
            <<s, dot, s, dot, s, dot, q>>, <<s, a, s, dot, dot, s, a, s, x>>}
\* There is no f in the directory a, but one in the root, after a.
MCStale == {<<s, a, s, f>>}

\* The theorems about walks hold for these directories and paths.
ASSUME SoundDirectories == DirectoriesAreSound /\ DirectoriesAreComplete /\ TreesEnd
ASSUME SoundPaths == Paths = MCPaths => LookupsAreNotMisled

MCNoFaults == {{}}
\* During a call an inode sector, or one of the sectors of entries, fails.
MCFaults == {{}, {3}, {6}, {7}}
=============================================================================
