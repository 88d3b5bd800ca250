------------------------------ MODULE DirWalks ------------------------------
(***************************************************************************)
(* The walks through directories: the lookup of a path (direntv6.c), the   *)
(* listing of a directory by fs_readdir (fs.c), and the tree printed by    *)
(* lsall (shell.c).  A step is a call of direntv6_readdir with what is     *)
(* done with its answer; the calls that are under way are on a stack.      *)
(***************************************************************************)
EXTENDS DirentV6, SequencesExt, FiniteSets

CONSTANTS Images, Trees,      \* the disks, and those whose directories have no cycle: on
                              \* another one lsall recurses until the program dies
          Paths,              \* sequences of characters
          IoFaults            \* as in FileReader

ASSUME WalksAssumption ==
    /\ \A im \in Images : IsImage(im) /\ SUPERBLOCK_SECTOR \in DOMAIN im
    /\ Trees \subseteq Images
    /\ \A path \in Paths : path \in Seq(1 .. 255)
    /\ {} \in IoFaults

VARIABLES img,
          pc,     \* "idle", "lookup", "opendir", "list" or "tree"
          op,     \* [kind, path, clean] of the last walk; clean: no sector failed in it
          stack,  \* of [d, position, prefix]: the position in the path, the path so far
          out,    \* what was listed, in order
          ret

vars == <<img, pc, op, stack, out, ret>>

Frame(d, position, prefix) == [d |-> d, position |-> position, prefix |-> prefix]
Root == <<>>

Init == /\ img \in Images
        /\ pc = "idle"
        /\ op = [kind |-> "none", path |-> <<>>, clean |-> TRUE]
        /\ stack = <<>>
        /\ out = <<>>
        /\ ret = 0

Opendir(inr, bad) == direntv6_opendir(Visible(img, bad), MountedSuper(img), inr)
Readdir(d, bad)   == direntv6_readdir(Visible(img, bad), d)
Faults(bad)       == op' = [op EXCEPT !.clean = @ /\ bad = {}]

Return(code) == pc' = "idle" /\ ret' = code /\ stack' = <<>>

\* direntv6_dirlookup has answered: fs_readdir goes on with the inode that it found.
LookupReturns(code) ==
    IF op'.kind = "readdir" /\ code > 0
    THEN pc' = "opendir" /\ ret' = code /\ stack' = <<>>
    ELSE Return(code)

\* do_inode (kind "inode") or fs_readdir (kind "readdir") with a path: only a '/' at its
\* start is skipped here.
Lookup == \E kind \in {"inode", "readdir"}, path \in Paths, bad \in IoFaults :
    LET start == IF CharAt(path, 0) = SLASH THEN pos_next_entry_name(path, 0) ELSE 0
        open  == Opendir(ROOT_INUMBER, bad)
    IN  /\ pc = "idle"
        /\ op' = [kind |-> kind, path |-> path, clean |-> bad = {}]
        /\ out' = <<>>
        /\ IF start > 0 /\ start = Len(path) THEN LookupReturns(ROOT_INUMBER)
           ELSE IF open.ret # 0 THEN LookupReturns(open.ret)
           ELSE pc' = "lookup" /\ ret' = 0 /\ stack' = <<Frame(open.d, start, Root)>>
        /\ UNCHANGED img

\* A slip: the loop goes on at the end of the directory, where readdir starts again.
LoopEndsAtError(r) == r.ret < 0

LoopEnds(r) == r.ret # 1

\* One turn of the loop of direntv6_dirlookup_core.  The position moves on when an entry
\* matches, and stays there when the lookup in that entry fails.
LookupTurn(top, r, below, tail) ==
    LET found == entry_name_cmpr(r.name, op.path, top.position, tail)
        next  == pos_next_entry_name(op.path, top.position)
        Go(position, more) == /\ stack' = Front(stack) \o <<Frame(r.d, position, Root)>> \o more
                              /\ UNCHANGED <<pc, ret>>
    IN  \/ found = 1 /\ LookupReturns(r.child)
        \/ found = 0 /\ Go(next, IF below.ret = 0 THEN <<Frame(below.d, next, Root)>> ELSE <<>>)
        \/ found = -1 /\ Go(top.position, <<>>)

LookupStep == \E bad, bad2 \in IoFaults :
    /\ pc = "lookup"
    /\ Faults(bad \cup bad2)
    /\ \E r \in {Readdir(Last(stack).d, bad)} :
          \/ /\ LoopEnds(r)
             /\ IF Len(stack) = 1 THEN LookupReturns(ERR_INODE_OUTOF_RANGE)
                ELSE stack' = Front(stack) /\ UNCHANGED <<pc, ret>>
          \/ /\ ~LoopEnds(r)
             /\ \E below \in {Opendir(r.child, bad2)},
                   tail \in TailLengths(op.path, Last(stack).position) :
                   LookupTurn(Last(stack), r, below, tail)
    /\ UNCHANGED <<img, out>>

\* fs_readdir after the lookup: fill_inode reads the inode, then the directory is opened.
ListOpen == \E bad, bad2 \in IoFaults :
    LET code == inode_read(Visible(img, bad), MountedSuper(img), ret)
        open == Opendir(ret, bad2)
    IN  /\ pc = "opendir"
        /\ Faults(bad \cup bad2)
        /\ IF code # 0 THEN Return(code)
           ELSE IF open.ret # 0 THEN Return(open.ret)
           ELSE pc' = "list" /\ ret' = 0 /\ stack' = <<Frame(open.d, 0, Root)>>
        /\ UNCHANGED <<img, out>>

\* A slip: any answer but 1 ends the listing as its last entry does.
LoopReturnsZero(code) == 0

\* A free entry ends the loop of fs_readdir and of print_tree as the end of the file does.
LoopReturns(code) == IF code = ERR_UNALLOCATED_INODE THEN 0 ELSE code

\* One turn of the loop of fs_readdir.
ListStep == \E bad \in IoFaults :
    /\ pc = "list"
    /\ Faults(bad)
    /\ \E r \in {Readdir(stack[1].d, bad)} :
          \/ /\ r.ret = 1
             /\ out' = Append(out, r.name)
             /\ stack' = <<Frame(r.d, 0, Root)>> /\ UNCHANGED <<pc, ret>>
          \/ r.ret # 1 /\ Return(LoopReturns(r.ret)) /\ UNCHANGED out
    /\ UNCHANGED img

Line(kind, prefix) == [kind |-> kind, path |-> prefix]

\* do_lsall.  What cannot be opened as a directory is printed as a file.
Lsall == \E bad \in IoFaults :
    LET open == Opendir(ROOT_INUMBER, bad)
    IN  /\ pc = "idle" /\ img \in Trees
        /\ op' = [kind |-> "lsall", path |-> <<>>, clean |-> bad = {}]
        /\ IF open.ret # 0 THEN out' = <<Line("FIL", Root)>> /\ Return(0)
           ELSE /\ out' = <<Line("DIR", Root)>>
                /\ pc' = "tree" /\ ret' = 0 /\ stack' = <<Frame(open.d, 0, Root)>>
        /\ UNCHANGED img

\* A slip: the directory that is printed takes the reader of the one that holds it.
DescendSharesReader(frame, below, path) ==
    IF below.ret = 0 THEN <<Frame(below.d, 0, path)>> ELSE <<frame>>

Descend(frame, below, path) ==
    <<frame>> \o IF below.ret = 0 THEN <<Frame(below.d, 0, path)>> ELSE <<>>

\* One turn of the loop of direntv6_print_tree: nobody looks at what the inner calls return.
TreeTurn(top, r, below) ==
    LET path == Append(top.prefix, r.name)
    IN  /\ stack' = Front(stack) \o Descend(Frame(r.d, 0, top.prefix), below, path)
        /\ out' = Append(out, Line(IF below.ret = 0 THEN "DIR" ELSE "FIL", path))
        /\ UNCHANGED <<pc, ret>>

TreeStep == \E bad, bad2 \in IoFaults :
    /\ pc = "tree"
    /\ Faults(bad \cup bad2)
    /\ \E r \in {Readdir(Last(stack).d, bad)} :
          \/ r.ret = 1 /\ \E below \in {Opendir(r.child, bad2)} : TreeTurn(Last(stack), r, below)
          \/ /\ r.ret # 1 /\ UNCHANGED out
             /\ IF Len(stack) > 1 THEN stack' = Front(stack) /\ UNCHANGED <<pc, ret>>
                ELSE Return(LoopReturns(r.ret))
    /\ UNCHANGED img

Step == LookupStep \/ ListOpen \/ ListStep \/ TreeStep
Next == Lookup \/ Lsall \/ Step

\* A walk that has begun goes on: nothing in it waits.
Spec == Init /\ [][Next]_vars /\ WF_vars(Step)

-----------------------------------------------------------------------------
(* What the directories of the disk say.                                   *)

InodeOf(im, inr) == InodeNo(im, MountedSuper(im), inr)
IsDir(im, inr)   == inode_read(im, MountedSuper(im), inr) = 0 /\ IsDirectory(InodeOf(im, inr))

Entries(im, inr)  == EntriesOf(im, InodeOf(im, inr))
Children(im, inr) == IF IsDir(im, inr) THEN ToSet(Entries(im, inr)) ELSE {}

\* The inodes that have this name in one of the directories.
Below(im, inrs, name) ==
    {e.d_inumber : e \in {c \in UNION {Children(im, inr) : inr \in inrs} : c.d_name = name}}

\* The inodes that the first k of the names lead to: one, or none.
Reached(im, names) ==
    LET at[k \in 0 .. Len(names)] ==
          IF k = 0 THEN {ROOT_INUMBER} ELSE Below(im, at[k - 1], names[k])
    IN  at

\* Below the root, a path that ends with '/' denotes nothing, and nor does the empty path.
Denotes(im, path) == IF path # <<>> /\ (NamesOf(path) = <<>> \/ Last(path) # SLASH)
                     THEN Reached(im, NamesOf(path))[Len(NamesOf(path))] ELSE {}

\* The tree below the root, level by level: the directories and files with their paths.  No
\* path of a tree is longer than it has inodes.
TreeDepth(im) == MountedSuper(im).s_isize * INODES_PER_SECTOR
NodesBelow(im, n) == {[path |-> Append(n.path, e.d_name), inr |-> e.d_inumber] :
                         e \in Children(im, n.inr)}
TreeLevels(im) ==
    LET level[k \in 0 .. TreeDepth(im)] ==
          IF k = 0 THEN {[path |-> Root, inr |-> ROOT_INUMBER]}
          ELSE UNION {NodesBelow(im, n) : n \in level[k - 1]}
    IN  level
TreeNodes(im) == UNION {TreeLevels(im)[k] : k \in 0 .. TreeDepth(im)}

NodeLine(im, n) == Line(IF IsDir(im, n.inr) THEN "DIR" ELSE "FIL", n.path)
TreeLines == {NodeLine(img, n) : n \in TreeNodes(img)}

-----------------------------------------------------------------------------
(* What the theorems about walks assume of the disks.                      *)

Directories(im) == {inr \in Word : IsDir(im, inr)}

\* The names in a directory are not empty, have no '/' and differ.
NamesAreSound(im) == \A inr \in Directories(im) : LET entries == Entries(im, inr) IN
    /\ \A k \in DOMAIN entries :
          entries[k].d_name # <<>> /\ SLASH \notin ToSet(entries[k].d_name)
    /\ \A j, k \in DOMAIN entries : entries[j].d_name = entries[k].d_name => j = k

DirectoriesAreSound ==
    /\ WholeEntries
    /\ \A im \in Images : /\ NamesAreSound(im)
                          /\ \A inr \in Directories(im) : IsPadded(im, InodeOf(im, inr))

DirectoriesAreComplete ==
    \A im \in Images : \A inr \in Directories(im) : IsComplete(im, InodeOf(im, inr))

\* When the lookup in an entry fails, the names behind it are compared with the next name
\* of the path (direntv6.c:263), and none of them is this one.
NeverMisled(im, path) == \A inr \in Directories(im), m \in 1 .. Len(NamesOf(path)) - 1 :
    LET entries == Entries(im, inr)
        names   == NamesOf(path)
    IN  \A j, k \in DOMAIN entries : j < k /\ entries[j].d_name = names[m]
                                       => entries[k].d_name # names[m + 1]
LookupsAreNotMisled ==
    \A im \in Images, path \in Paths : Len(path) < CHAR_RANGE => NeverMisled(im, path)

\* No directory contains itself, at any depth: with more levels than inodes one would.
TreesEnd == \A im \in Trees : \A n \in TreeLevels(im)[TreeDepth(im)] : ~IsDir(im, n.inr)

-----------------------------------------------------------------------------
TypeOK == /\ img \in Images
          /\ pc \in {"idle", "lookup", "opendir", "list", "tree"}
          /\ pc \in {"idle", "opendir"} <=> stack = <<>>
          /\ \A j \in DOMAIN stack : /\ stack[j].d.cur \in 0 .. stack[j].d.last
                                     /\ IsDirectory(stack[j].d.fv6.i_node)
          /\ ret \in Int

\* direntv6.h:20-25: in every reader that is open, whatever reads failed, last counts the
\* entries of the sectors read so far, and dirs is the last one of these sectors.
ReadersAreConsistent == \A j \in DOMAIN stack :
    LET d == stack[j].d
    IN  /\ d.last * SECTOR_SIZE = d.fv6.offset * DIRENTRIES_PER_SECTOR
        /\ d.last - d.cur <= DIRENTRIES_PER_SECTOR
        /\ d.last > 0 => d.dirs = FileBlock(img, d.fv6.i_node, d.fv6.offset \div SECTOR_SIZE - 1)

\* direntv6.h:55-59: without failing sectors a lookup answers the inode number of the path,
\* however many '/' are in it, and a negative number when there is none; for paths whose
\* length is a char (direntv6.c:185 casts the position).
LookupIsExact ==
    pc = "idle" /\ op.kind = "inode" /\ op.clean /\ Len(op.path) < CHAR_RANGE
        => IF Denotes(img, op.path) = {} THEN ret < 0 ELSE ret \in Denotes(img, op.path)

\* fs.c:157, `list all file in the folder': a listing that does not fail has every entry
\* of the directory before its first free one, once and in order, even when sectors failed.
ListIsComplete ==
    pc = "idle" /\ op.kind = "readdir" /\ ret = 0 /\ Len(op.path) < CHAR_RANGE
        => \E inr \in Denotes(img, op.path) :
              /\ IsDir(img, inr)
              /\ out = [k \in DOMAIN Entries(img, inr) |-> Entries(img, inr)[k].d_name]

\* Whatever sectors fail, every line of lsall has a path of the tree, and none comes twice;
\* without failing sectors every directory and every file of the tree is there.
TreeIsExact ==
    pc = "idle" /\ op.kind = "lsall" =>
        /\ Len(out) = Cardinality(ToSet(out))
        /\ {line.path : line \in ToSet(out)} \subseteq {line.path : line \in TreeLines}
        /\ op.clean => ret = 0 /\ ToSet(out) = TreeLines

\* Every walk ends: a lookup on any disk, even when directories contain themselves, because
\* each call that it makes has used up a name of the path.
WalksEnd == pc # "idle" ~> pc = "idle"
=============================================================================
