------------------------------ MODULE FuseOps ------------------------------
(***************************************************************************)
(* fs_getattr, fs_readdir and fs_read of fs.c as fuse_main runs them: in   *)
(* several threads, each with readers of its own, over the one stream      *)
(* fs.f.  A call of the library (inode_read, filev6_readblock, ...) reads  *)
(* its sectors one by one, a fseek and a fread for each, and then returns; *)
(* in between, the other threads move the stream.  A library call sees the *)
(* sectors that it got under the numbers that it asked for, which is how   *)
(* a race shows; a sector that a call has read is not read again in it.    *)
(*   A path is '/' or a name in the root: DirWalks has the longer ones.    *)
(* No sector fails and nothing writes.                                     *)
(***************************************************************************)
EXTENDS DirentV6

CONSTANTS Threads,
          Disk,      \* the image
          Requests      \* [kind, path, size, offset]: what may be asked for, in sectors

ASSUME FuseAssumption ==
    /\ IsImage(Disk) /\ SUPERBLOCK_SECTOR \in DOMAIN Disk
    /\ \A c \in Requests : /\ c.kind \in {"getattr", "readdir", "read"}
                        /\ c.path \in Seq(1 .. 255) /\ CharAt(c.path, 0) = SLASH
                        /\ c.size \in Nat \ {0} /\ c.offset \in Nat

\* A path is the root or one name in it.
ASSUME PathsAssumption == \A c \in Requests : \A k \in 2 .. Len(c.path) : c.path[k] # SLASH

VARIABLES
    pos,      \* the position of the stream, in sectors
    pc,       \* pc[t]: "idle", the library call that t is in, or "done"
    io,       \* io[t]: the sectors that t has tried to read in this library call, and got,
              \* and the one that its fread is due for, or -1
    op,       \* op[t]: the arguments of the operation, the inode it found, what it returned
              \* so far, its answer; alone: no other operation has run at the same time
    d, fv6    \* d[t], fv6[t]: its directory_reader and its file

vars == <<pos, pc, io, op, d, fv6>>

NoSectors == [n \in {} |-> ZeroSector]
NoIo      == [tried |-> {}, got |-> NoSectors, want |-> -1]
NoOp      == [kind |-> "none", path |-> <<>>, size |-> 1, offset |-> 0, inr |-> 0, out |-> <<>>,
              ret |-> 0, alone |-> TRUE]
NoReader  == [fv6 |-> NoFile, dirs |-> ZeroSector, cur |-> 0, last |-> 0]

Super == MountedSuper(Disk)

Init == /\ pos = 0
        /\ pc = [t \in Threads |-> "idle"]
        /\ io = [t \in Threads |-> NoIo]
        /\ op = [t \in Threads |-> NoOp]
        /\ d = [t \in Threads |-> NoReader]
        /\ fv6 = [t \in Threads |-> NoFile]

\* libfuse hands an operation to a thread.  The path '/' is the root without a lookup.
Begin(t) == \E c \in Requests :
    LET others == {o \in Threads \ {t} : pc[o] \notin {"idle", "done"}}
    IN  /\ pc[t] = "idle"
        /\ pc' = [pc EXCEPT ![t] = IF c.path = <<SLASH>> THEN "fill_inode" ELSE "open_root"]
        /\ op' = [o \in Threads |->
                     IF o = t THEN [NoOp EXCEPT !.kind = c.kind, !.path = c.path, !.size = c.size,
                                                !.offset = c.offset, !.inr = ROOT_INUMBER,
                                                !.alone = others = {}]
                     ELSE [op[o] EXCEPT !.alone = @ /\ o \notin others]]
        /\ UNCHANGED <<pos, io, d, fv6>>

-----------------------------------------------------------------------------
(* The sectors that a library call reads.                                  *)

\* inode_read reads one sector.
InodeNeeds(inr) == IF OutOfInodes(Super, inr) THEN {} ELSE {InodeSector(Super, inr)}

\* filev6_readblock reads the sector of addresses, if the file is large, and then the
\* sector of the file.
BlockNeeds(file, got) ==
    LET i    == file.i_node
        off  == file.offset \div SECTOR_SIZE
        sect == inode_findsector(got, i, off)
        addresses == /\ ~IsSmall(i) /\ i.i_size <= EXTRA_LARGE_FILE
                     /\ off \div ADDRESSES_PER_SECTOR < ADDR_SMALL_LENGTH
    IN  IF file.offset >= i.i_size THEN {}
        ELSE (IF addresses THEN {AddressSector(i, off)} ELSE {}) \cup (IF sect >= 0 THEN {sect} ELSE {})

\* direntv6_readdir reads when the sector that it holds is used up.
EntryNeeds(reader, got) == IF reader.cur < reader.last THEN {} ELSE BlockNeeds(reader.fv6, got)

Needs(t) == IF pc[t] \in {"open_root", "fill_inode", "opendir", "open"} THEN InodeNeeds(op[t].inr)
            ELSE IF pc[t] \in {"lookup", "list"} THEN EntryNeeds(d[t], io[t].got)
            ELSE IF pc[t] = "data" THEN BlockNeeds(fv6[t], io[t].got)
            ELSE {}

\* A slip: the stream is taken to be where the last read of this thread left it.
SeekUnlessFirst(t) ==
    /\ pc[t] \notin {"idle", "done"} /\ io[t].want = -1
    /\ \E n \in Needs(t) \ io[t].tried :
          /\ pos' = IF io[t].tried = {} THEN n ELSE pos
          /\ io' = [io EXCEPT ![t].want = n]
    /\ UNCHANGED <<pc, op, d, fv6>>

\* The fseek of sector_read.
Seek(t) ==
    /\ pc[t] \notin {"idle", "done"} /\ io[t].want = -1
    /\ \E n \in Needs(t) \ io[t].tried :
          /\ pos' = n
          /\ io' = [io EXCEPT ![t].want = n]
    /\ UNCHANGED <<pc, op, d, fv6>>

Gets(got, n, sector) == [m \in {n} \cup DOMAIN got |-> IF m = n THEN sector ELSE got[m]]

\* The fread of sector_read, wherever the stream is now; past the end of the disk it fails.
Fread(t) ==
    LET n == io[t].want
    IN  /\ n # -1
        /\ \/ /\ pos \in DOMAIN Disk
              /\ io' = [io EXCEPT ![t] = [tried |-> @.tried \cup {n}, want |-> -1,
                                         got |-> Gets(@.got, n, Disk[pos])]]
              /\ pos' = pos + 1
           \/ /\ pos \notin DOMAIN Disk
              /\ io' = [io EXCEPT ![t] = [tried |-> @.tried \cup {n}, want |-> -1, got |-> @.got]]
              /\ UNCHANGED pos
        /\ UNCHANGED <<pc, op, d, fv6>>

-----------------------------------------------------------------------------
(* What an operation does when its library call returns.                   *)

Returns(t, call) == /\ pc[t] = call
                    /\ io[t].want = -1 /\ Needs(t) \subseteq io[t].tried
                    /\ io' = [io EXCEPT ![t] = NoIo]
                    /\ UNCHANGED pos

Proceeds(t, call) == pc' = [pc EXCEPT ![t] = call]

Answers(t, code, out) ==
    /\ pc' = [pc EXCEPT ![t] = "done"]
    /\ op' = [op EXCEPT ![t].ret = code, ![t].out = out]

\* direntv6_opendir of the root, or of the directory to list.
Opendir(t) == \E call \in {"open_root", "opendir"} :
    /\ Returns(t, call)
    /\ \E r \in {direntv6_opendir(io[t].got, Super, op[t].inr)} :
          \/ r.ret # 0 /\ Answers(t, r.ret, <<>>) /\ UNCHANGED d
          \/ /\ r.ret = 0
             /\ d' = [d EXCEPT ![t] = r.d]
             /\ Proceeds(t, IF call = "opendir" THEN "list" ELSE "lookup")
             /\ UNCHANGED op
    /\ UNCHANGED fv6

\* A slip: the end of the directory does not end the search.
SearchEndsAtError(ret) == ret < 0

SearchEnds(ret) == ret # 1

\* One turn of the loop of direntv6_dirlookup_core.
Lookup(t) ==
    /\ Returns(t, "lookup")
    /\ \E r \in {direntv6_readdir(io[t].got, d[t])} :
          LET found == entry_name_cmpr(r.name, op[t].path, 1, Len(op[t].path) - 1) = 1
          IN  /\ d' = [d EXCEPT ![t] = r.d]
              /\ \/ SearchEnds(r.ret) /\ Answers(t, ERR_INODE_OUTOF_RANGE, <<>>)
                 \/ /\ ~SearchEnds(r.ret) /\ found
                    /\ op' = [op EXCEPT ![t].inr = r.child]
                    /\ Proceeds(t, "fill_inode")
                 \/ ~SearchEnds(r.ret) /\ ~found /\ UNCHANGED <<pc, op>>
    /\ UNCHANGED fv6

\* fill_inode has the inode; fs_getattr is done with it.
FillInode(t) ==
    /\ Returns(t, "fill_inode")
    /\ \E code \in {inode_read(io[t].got, Super, op[t].inr)} :
          \/ code # 0 /\ Answers(t, code, <<>>)
          \/ /\ code = 0 /\ op[t].kind = "getattr"
             /\ Answers(t, 0, <<InodeNo(io[t].got, Super, op[t].inr)>>)
          \/ /\ code = 0 /\ op[t].kind # "getattr"
             /\ Proceeds(t, IF op[t].kind = "readdir" THEN "opendir" ELSE "open")
             /\ UNCHANGED op
    /\ UNCHANGED <<d, fv6>>

\* One turn of the loop of fs_readdir: a free entry ends it as the end of the directory.
List(t) ==
    /\ Returns(t, "list")
    /\ \E r \in {direntv6_readdir(io[t].got, d[t])} :
          /\ d' = [d EXCEPT ![t] = r.d]
          /\ \/ /\ r.ret = 1
                /\ op' = [op EXCEPT ![t].out = Append(@, r.name)]
                /\ UNCHANGED pc
             \/ /\ r.ret # 1
                /\ Answers(t, IF r.ret = ERR_UNALLOCATED_INODE THEN 0 ELSE r.ret, op[t].out)
    /\ UNCHANGED fv6

\* filev6_open and filev6_lseek of fs_read.
Open(t) ==
    /\ Returns(t, "open")
    /\ \E r \in {filev6_open(io[t].got, Super, op[t].inr, NoFile)} :
          LET seek == filev6_lseek(r.fv6, op[t].offset * SECTOR_SIZE)
          IN  \/ r.ret # 0 /\ Answers(t, r.ret, <<>>) /\ UNCHANGED fv6
              \/ r.ret = 0 /\ seek.ret # 0 /\ Answers(t, 0, <<>>) /\ UNCHANGED fv6
              \/ /\ r.ret = 0 /\ seek.ret = 0
                 /\ fv6' = [fv6 EXCEPT ![t] = seek.fv6]
                 /\ Proceeds(t, "data")
                 /\ UNCHANGED op
    /\ UNCHANGED d

\* One turn of the loop of fs_read.
Data(t) ==
    /\ Returns(t, "data")
    /\ \E r \in {filev6_readblock(io[t].got, fv6[t])} :
          LET out == IF r.ret = SECTOR_SIZE THEN Append(op[t].out, UpToNul(r.data)) ELSE op[t].out
          IN  /\ fv6' = [fv6 EXCEPT ![t] = r.fv6]
              /\ \/ /\ r.ret = SECTOR_SIZE /\ Len(out) < op[t].size
                    /\ op' = [op EXCEPT ![t].out = out]
                    /\ UNCHANGED pc
                 \/ /\ r.ret >= 0 /\ (r.ret = SECTOR_SIZE => Len(out) >= op[t].size)
                    /\ Answers(t, Len(out) * SECTOR_SIZE, out)
                 \/ r.ret < 0 /\ Answers(t, r.ret, out)
    /\ UNCHANGED d

\* The answer goes back to libfuse; the readers were on the stack of the operation.
Finish(t) ==
    /\ pc[t] = "done"
    /\ pc' = [pc EXCEPT ![t] = "idle"]
    /\ op' = [op EXCEPT ![t] = NoOp]
    /\ d' = [d EXCEPT ![t] = NoReader]
    /\ fv6' = [fv6 EXCEPT ![t] = NoFile]
    /\ UNCHANGED <<pos, io>>

Work(t) == \/ Fread(t) \/ Seek(t) \/ Opendir(t) \/ Lookup(t) \/ FillInode(t) \/ List(t)
           \/ Open(t) \/ Data(t) \/ Finish(t)

Next == \E t \in Threads : Begin(t) \/ Work(t)

\* Every thread that has an operation gets to run.
Spec == Init /\ [][Next]_vars /\ \A t \in Threads : WF_vars(Work(t))

-----------------------------------------------------------------------------
TypeOK ==
    /\ pos \in Nat
    /\ \A t \in Threads :
          /\ pc[t] \in {"idle", "done", "open_root", "lookup", "fill_inode", "opendir", "list",
                        "open", "data"}
          /\ io[t].want \in Nat \cup {-1} /\ DOMAIN io[t].got \subseteq io[t].tried
          /\ pc[t] = "data" => Allocated(fv6[t].i_node)
          /\ pc[t] \in {"lookup", "list"} => IsDirectory(d[t].fv6.i_node)
          /\ op[t].ret \in Int

\* Whatever the other threads do to the stream, the three counters of a directory reader and
\* of its file agree: a wrong sector spoils what is read, and never the reader.
RacesSpareReaders == \A t \in Threads :
    /\ d[t].last * SECTOR_SIZE = d[t].fv6.offset * DIRENTRIES_PER_SECTOR
    /\ d[t].cur <= d[t].last /\ d[t].last - d[t].cur <= DIRENTRIES_PER_SECTOR

RootEntries == EntriesOf(Disk, InodeNo(Disk, Super, ROOT_INUMBER))

\* The inodes that a path denotes.
Denotes(path) == IF path = <<SLASH>> THEN {ROOT_INUMBER}
                 ELSE {e.d_inumber : e \in {RootEntries[k] : k \in {j \in DOMAIN RootEntries :
                                                RootEntries[j].d_name = Tail(path)}}}

\* What the operation answers when nobody disturbs it.
RightAnswer(o, inr) ==
    LET i      == InodeNo(Disk, Super, inr)
        blocks == FileBlocks(Disk, i)
        left   == SectorsOf(i.i_size) - o.offset
        count  == IF left < o.size THEN left ELSE o.size
        names  == EntriesOf(Disk, i)
    IN  IF inode_read(Disk, Super, inr) # 0 THEN o.ret < 0
        ELSE IF o.kind = "getattr" THEN o.ret = 0 /\ o.out = <<i>>
        ELSE IF o.kind = "readdir"
             THEN IF IsDirectory(i) THEN o.ret = 0 /\ o.out = [k \in DOMAIN names |-> names[k].d_name]
                  ELSE o.ret = ERR_INVALID_DIRECTORY_INODE
        ELSE /\ o.out = [k \in 1 .. count |-> UpToNul(blocks[o.offset + k - 1])]
             /\ o.ret = Len(o.out) * SECTOR_SIZE

\* What the theorem about undisturbed operations assumes of the disk.
Node(inr) == InodeNo(Disk, Super, inr)
Live(inr) == inode_read(Disk, Super, inr) = 0

\* Each file has its sectors on the disk, and the root is a directory.
FilesComplete == \A inr \in Word : Live(inr) => IsComplete(Disk, Node(inr))
RootIsDirectory == Live(ROOT_INUMBER) /\ IsDirectory(Node(ROOT_INUMBER))
DirectoriesPadded == \A inr \in Word :
    Live(inr) /\ IsDirectory(Node(inr)) => IsPadded(Disk, Node(inr))

DiskIsSound == FilesComplete /\ RootIsDirectory /\ WholeEntries /\ DirectoriesPadded

\* An operation during which no other one runs is exact, whatever the operations before it
\* did to the stream: a race spoils the operations that take part in it, and no later one.
UndisturbedIsExact == \A t \in Threads :
    pc[t] = "done" /\ op[t].alone =>
        IF Denotes(op[t].path) = {} THEN op[t].ret < 0
        ELSE \E inr \in Denotes(op[t].path) : RightAnswer(op[t], inr)

\* Every operation ends, also when it gets wrong sectors for inodes, addresses and entries.
OperationsEnd == \A t \in Threads : pc[t] # "idle" ~> pc[t] = "idle"
=============================================================================
