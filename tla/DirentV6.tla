------------------------------ MODULE DirentV6 ------------------------------
(***************************************************************************)
(* The calls of direntv6.c on one struct directory_reader, and its         *)
(* functions on paths, as operators.                                       *)
(*   A path is a sequence of characters; positions in it count from 0, as  *)
(* in C.  A directory entry takes two words here: the inode number, and    *)
(* the characters of the name (DIRENT_MAXLEN is 2, not 14).                *)
(***************************************************************************)
EXTENDS FileV6, SortedSets, Sequences, FiniteSets, FiniteSetsExt

CONSTANT CHAR_RANGE     \* 128 in the code: a char is one of -CHAR_RANGE .. CHAR_RANGE - 1

ASSUME CharAssumption == CHAR_RANGE \in Nat \ {0}

ERR_INVALID_DIRECTORY_INODE == -122

SLASH == 47

DIRENT_WORDS == 2
DIRENTRIES_PER_SECTOR == ADDRESSES_PER_SECTOR \div DIRENT_WORDS

\* The characters up to the first zero byte; the low byte comes first.
Name(word) == IF word % 256 = 0 THEN <<>>
              ELSE IF word \div 256 = 0 THEN <<word>> ELSE <<word % 256, word \div 256>>

DirentAt(sector, j) == [d_inumber |-> sector[DIRENT_WORDS * j],
                        d_name    |-> Name(sector[DIRENT_WORDS * j + 1])]

\* A slip: any file is opened as a directory.
OpendirAnyFile(disk, s, inr) ==
    LET open == filev6_open(disk, s, inr, NoFile)
    IN  [ret |-> open.ret, d |-> [fv6 |-> open.fv6, dirs |-> ZeroSector, cur |-> 0, last |-> 0]]

\* On an error the caller's structure is as it was, and no caller uses it.
direntv6_opendir(disk, s, inr) ==
    LET open == filev6_open(disk, s, inr, NoFile)
    IN  [ret |-> IF open.ret # 0 THEN open.ret
                 ELSE IF ~IsDirectory(open.fv6.i_node) THEN ERR_INVALID_DIRECTORY_INODE ELSE 0,
         d |-> [fv6 |-> open.fv6, dirs |-> ZeroSector, cur |-> 0, last |-> 0]]

\* What readdir does once d holds the sector of the entry d.cur.
ReadEntry(d) ==
    LET entry == DirentAt(d.dirs, d.cur % DIRENTRIES_PER_SECTOR)
    IN  IF entry.d_inumber = 0
        THEN [ret |-> ERR_UNALLOCATED_INODE, d |-> d, name |-> <<>>, child |-> 0]
        ELSE [ret |-> 1, d |-> [d EXCEPT !.cur = @ + 1],
              name |-> entry.d_name, child |-> entry.d_inumber]

\* Slips: the number of entries read so far is not kept, or counts this sector alone.
LoadedKeepsLast(d, block) == [d EXCEPT !.fv6 = block.fv6, !.dirs = block.data]
LoadedCountsOneSector(d, block) ==
    [d EXCEPT !.fv6 = block.fv6, !.dirs = block.data, !.last = DIRENTRIES_PER_SECTOR]

Loaded(d, block) == [d EXCEPT !.fv6 = block.fv6, !.dirs = block.data,
                              !.last = @ + DIRENTRIES_PER_SECTOR]

\* name and child tell nothing when ret is not 1.
direntv6_readdir(disk, d) ==
    LET block == filev6_readblock(disk, d.fv6)
    IN  IF d.cur > d.last \/ d.cur < 0 \/ d.last < 0
        THEN [ret |-> ERR_BAD_PARAMETER, d |-> d, name |-> <<>>, child |-> 0]
        ELSE IF d.cur < d.last THEN ReadEntry(d)
        ELSE IF block.ret < 0 THEN [ret |-> block.ret, d |-> d, name |-> <<>>, child |-> 0]
        ELSE IF block.ret = 0
             THEN [ret |-> 0, d |-> [d EXCEPT !.fv6 = block.fv6, !.cur = 0, !.last = 0],
                   name |-> <<>>, child |-> 0]
        ELSE ReadEntry(Loaded(d, block))

-----------------------------------------------------------------------------
(* The entries of a directory, as the layout defines them.                 *)

\* The k-th entry of a directory, from 0, whatever its size.
Slot(img, i, k) ==
    DirentAt(FileBlock(img, i, k \div DIRENTRIES_PER_SECTOR), k % DIRENTRIES_PER_SECTOR)

\* The number of entries that the size of a directory counts.
EntryCount(i) == i.i_size \div (2 * DIRENT_WORDS)

\* The entries of a directory, in order, up to the first free one.
EntriesOf(img, i) ==
    LET slots == [k \in 1 .. EntryCount(i) |-> Slot(img, i, k - 1)]
        used  == {k \in DOMAIN slots : \A j \in 1 .. k : slots[j].d_inumber # 0}
    IN  SubSeq(slots, 1, Cardinality(used))

\* What the exact results need: the entries fill a sector, as 32 entries of 16 bytes do in
\* the code, and behind the last entry of a directory that ends within a sector there is a
\* free one, because the last sector is counted whole (direntv6.c:79).
WholeEntries == SECTOR_SIZE = DIRENTRIES_PER_SECTOR * (2 * DIRENT_WORDS)
IsPadded(img, i) == i.i_size % SECTOR_SIZE # 0 => Slot(img, i, EntryCount(i)).d_inumber = 0

-----------------------------------------------------------------------------
(* Paths.                                                                  *)

CharAt(entry, p) == IF p < Len(entry) THEN entry[p + 1] ELSE 0

\* strlen(entry + (char)position): what lies before the string is not known, and may hold
\* the zero byte that ends the count.
TailLengths(entry, position) ==
    LET cast == ((position + CHAR_RANGE) % (2 * CHAR_RANGE)) - CHAR_RANGE
    IN  {Len(entry) - cast} \cup 0 .. -cast - 1

\* 1: name is the end of the path, 0: a '/' follows it in the path, -1: it is not there.
\* tail is what strlen answers.
entry_name_cmpr(name, entry, position, tail) ==
    LET compared == {i \in DOMAIN name : position + i <= Len(entry)}
    IN  IF Len(name) > tail \/ \E i \in compared : entry[position + i] # name[i] THEN -1
        ELSE IF tail = Len(name) THEN 1
        ELSE IF CharAt(entry, position + Cardinality(compared)) = SLASH THEN 0 ELSE -1

\* A slip: one '/' is skipped, not all of them.
PosNextOneSlash(entry, position) ==
    LET slash == Min({p \in position .. Len(entry) : p = Len(entry) \/ CharAt(entry, p) = SLASH})
    IN  IF slash = Len(entry) THEN slash ELSE slash + 1

\* The position of the next name; the length of the path when there is none.
pos_next_entry_name(entry, position) ==
    LET slash == Min({p \in position .. Len(entry) : p = Len(entry) \/ CharAt(entry, p) = SLASH})
    IN  Min({p \in slash .. Len(entry) : p = Len(entry) \/ CharAt(entry, p) # SLASH})

-----------------------------------------------------------------------------
(* The names in a path, as its reader understands them.                    *)

\* The positions at which the names start, in order, and the end of the name at p.
NameStarts(path) == Ascending({p \in 0 .. Len(path) - 1 :
                                  /\ CharAt(path, p) # SLASH
                                  /\ p = 0 \/ CharAt(path, p - 1) = SLASH})
NameEnd(path, p) == Min({e \in p .. Len(path) : e = Len(path) \/ CharAt(path, e) = SLASH})

NamesOf(path) == [k \in DOMAIN NameStarts(path) |->
                     SubSeq(path, NameStarts(path)[k] + 1, NameEnd(path, NameStarts(path)[k]))]
=============================================================================
