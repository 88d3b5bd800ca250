# A verification development for UNIX-v6-Filesystem

This directory holds TLA+ modules that model the C program under `src/src/`, TLC
configurations that check them on small instances, and theorems that TLAPS proves for
every value of their constants. Line numbers below are those of the files in `src/src/`.

## 1. The system

The program is a user-space implementation of the UNIX v6 file system on an image file.
A caller (the shell, the FUSE daemon or a test program) holds one `struct
unix_filesystem`: a stdio stream, a copy of the superblock, and two bitmaps.

| component | state | operations | who calls it |
|---|---|---|---|
| sector layer (`sector.c`) | the stdio stream `u->f`: its position and its buffer | `sector_read`, `sector_write`: a `fseek`, then a `fread` or `fwrite` | everything below |
| bitmaps (`bmblock.c`) | `min`, `max`, a vector of 64-bit words | `bm_alloc`, `bm_get`, `bm_set`, `bm_clear`, `bm_find_next` | mount, inodes |
| layout (`unixv6fs.h`) | the image: boot sector, superblock, inode sectors, data sectors | none | all |
| mount (`mount.c`) | `u->f`, `u->s`, `u->ibm`, `u->fbm` | `mountv6` (with `fill_ibm`, `fill_fbm`), `umountv6`, `mountv6_mkfs` | shell, FUSE, tests |
| inodes (`inode.c`) | the inode sectors, `u->ibm` | `inode_read`, `inode_findsector`, `inode_alloc`, `inode_write`, `inode_scan_print` | files, directories |
| files (`filev6.c`) | `struct filev6`: number, inode, offset | `filev6_open`, `filev6_readblock`, `filev6_lseek`, `filev6_create` | directories, FUSE, shell |
| directories (`direntv6.c`) | `struct directory_reader`: a file, one sector of entries, `cur`, `last` | `direntv6_opendir`, `direntv6_readdir`, `direntv6_dirlookup`, `direntv6_print_tree`, `direntv6_create` (unfinished) | FUSE, shell |
| FUSE (`fs.c`) | the global `fs` | `fs_getattr`, `fs_readdir`, `fs_open`, `fs_read` | libfuse, in several threads |
| shell (`shell.c`) | the global `u` | a loop of lines; the commands `mkfs`, `mount`, `lsall`, `psb`, `cat`, `sha`, `inode`, `istat`, `mkdir`, `add`, `exit` | its user |
| `sha.c`, `error.c`, `test-*.c` | none | printing, messages, test programs | |

Components interact by calls and through two shared things: the stream (every layer moves
its position) and the image, whose sectors are not typed: the code reads any sector as
whatever it expects there.

What is hard here:

* **Threads.** `fuse_main` runs the FUSE operations in several threads on one stream; a
  sector access is two stdio calls with nothing that keeps others out in between.
* **Stops.** `sector_write` answers 0 when the sector is in the stream's buffer. The next
  `fseek` or `fclose` writes it; if the process stops before, it is lost.
* **Sectors that fail.** A call can fail on any one of its reads and writes; several
  results are ignored (`fill_ibm`, `fill_fbm`, the last writes of `mountv6_mkfs`).
* **Two views of the same fact.** The inode bitmap is filled at mount and afterwards kept
  by `inode_alloc` alone, the mode bits on the disk are changed by `inode_write` alone.
* **Readers with several counters.** A directory reader has the cursor of its file, the
  number of entries read and the number of entries delivered, and holds one sector; a
  failed read, the end of the file (which rewinds the cursor) and a free entry each leave
  them in another relation. A lookup recurses with a position of its own in every call.
* **Text input.** The shell cuts its input with a buffer of `fgets` and the hidden state of
  `strtok`; numbers are cut to 16 bits before they are tested; three places order the
  numbers of inodes and of blocks differently.
* **Boundaries.** Sector numbers, inode numbers, region sizes and bitmap ranges are mixed
  in several places (`mount.c` 116, 118, 230; `inode.c` 94, 214; `bmblock.c` 15).

What makes each component correct: a sector call transfers the sector that it names and no
other; a bitmap is a set of numbers, whatever its packing; the inode bitmap equals the
live and the promised inodes; an allocation gives a fresh number or the region is full;
only `mkfs` writes outside of the inode region; the volume is a table of inodes of which a
stop loses at most the last acknowledged change; what the shell has in memory is of the
disk that it last mounted; the command that runs is the line that was typed; a file is delivered sector by sector,
each once and in order; a path leads to the inode that its names lead to; a listing and a
tree are complete, or say that they are not; and every walk and loop ends.

## 2. The modules

| module | models | refines |
|---|---|---|
| `NumberSet`, `NumberPool` | what `bmblock.h` promises: a pool of numbers as a set | |
| `BmBlock` | `bmblock.c`, vector by vector | `NumberPool` |
| `UnixV6` | the layout and the functions of `inode.c` that only read | |
| `MountV6` | `mount.c`, as operators: what `mountv6_mkfs` writes, what `mountv6` makes of an image | |
| `Volume` | `mount.c` as calls, `inode_alloc`, `inode_write`, `filev6_create`, the buffer of the stream | `InodeStore` |
| `InodeStore` | what the inode layer promises: a table of inodes | |
| `SectorIO` | `sector.c` over the stdio stream, call by call and thread by thread | `SectorStore` |
| `SectorStore` | what `sector.h` promises: a store of sectors with atomic access | |
| `FileV6` | the part of `filev6.c` that reads, as operators, and the content of a file as the layout defines it | |
| `FileReader` | the calls of a program on one `struct filev6` | `FileStream` |
| `FileStream` | what `filev6.h` promises to a reader, sector by sector | |
| `FileOps` | `fs_read`, `fs_getattr` (`fs.c`), `cat` and `sha` (`shell.c`, `sha.c`), `inode_scan_print` (`inode.c`) | |
| `DirentV6` | `direntv6_opendir`, `direntv6_readdir`, and the functions on paths, character by character, as operators | |
| `DirWalks` | `direntv6_dirlookup`, `fs_readdir`, `direntv6_print_tree` | |
| `FuseOps` | `fs_getattr`, `fs_readdir`, `fs_read` in several threads over one stream | |
| `Shell` | `shell.c`: the loop, the tokenizer, the command table, the commands | |
| `MCBmBlock`, `MCVolume`, `MCSectorIO`, `MCFileReader`, `MCFileOps`, `MCDirWalks`, `MCFuseOps`, `MCShell`; `MCDisks` | the instances for TLC; how they write down small disks | |
| `SortedSets` | the order in which a loop with an ascending counter meets the elements of a set | |
| `LayoutLemmas` | lemmas about the operators of `UnixV6`, `MountV6`, `FileV6`, `DirentV6`, `SortedSets`: the layout, a directory read entry by entry, the names in a path | |
| `BaseLayerProofs` | the proofs about `BmBlock` and `SectorIO`, on which everything else stands | |
| `VolumeProofs`, `FileReaderProofs`, `FileOpsProofs`, `DirWalksProofs`, `FuseOpsProofs`, `ShellProofs` | the proofs about the module of that name | |

**BmBlock.** `bmb` is the pointer to a `struct bmblock_array` (`Null` or the structure); a
vector is the set of the positions of its one bits. Each exported function is an operator
of its name and an action of one caller. `RefinesNumberPool` maps `bmb` to the set of its
marked numbers. `Volume` uses the abstract pools of `NumberSet`: the refinement, which is
proved, is what makes that sound.

**UnixV6.** An image is a function from sector numbers to sectors and a sector a function
from positions to 16-bit words. The superblock, an inode, a sector of addresses are views
of the same words (`SuperblockAt`, `InodeAt`), as they are in the C code, which casts. The
number of inodes per sector and of addresses per inode are constants (16 and 8 in the
code); the fields that no code uses are dropped, and `i_size0`/`i_size1` are one word. A
sector past the end of the file, or one that fails, is a sector outside of the DOMAIN.

**Volume.** `file` is the image as the operating system holds it, `wbuf` the sector that is
in the stream's buffer, `u` the structure of `mount.h`; `granted`, `missed` (the sectors that
failed during the mount) and `last` are history.
A library call is one step, with its error paths: `Mkfs`, `Mount`, `MountFopenFails`,
`Umount`, `InodeAlloc`, `InodeRead`, `FileCreate`; `Crash` loses `wbuf`. During a call a
set `bad` of sectors (from the constant `IoFaults`) can be neither read nor written. That
one call is one step is justified by the callers: the shell and the tests have one thread,
and the FUSE operations only read. The steps keep the order of the code where it shows:
the flush by `fseek` comes before the read, `fill_ibm` stops at the first failing sector,
`mountv6` leaves the stream open when it fails.

**SectorIO.** Here the steps are the stdio calls (each holds the lock of the stream), for a
set of threads. Each of `fseek`, `fread` and `fwrite` that is in `Failing` may fail, and the
call then ends with `ERR_IO`: `fseek` before it moves, with the buffer as it was, the
transfers at a position that C leaves indeterminate. `SectorStore` allows an error for a
sector of the image only then (`answer.failed`). `Volume` abstracts from it: a write is
pending until the next call.

**FileV6, FileReader.** `filev6_readblock` and its neighbours take a structure and give it
back beside the value returned; `disk` is the image without the sectors that fail during
the call. `FileReader` makes the calls in any order; only a structure whose last open
succeeded is read or moved, which is what every caller does. `RefinesFileStream` maps the
cursor to the number of the next sector and the inode to the sequence of its sectors
(`FileBlocks`, where `Missing` stands for a sector that the disk does not have). It says
which sector a call delivers; how many of its bytes are the file's is left out (section 3).

**FileOps.** An operation opens the file (`fill_inode` and `filev6_open` read the inode
twice, and each can fail) and its loop takes one step per `filev6_readblock`. The path is
already an inode number, the disk is mounted. FUSE asks for whole sectors, so that
`size / SECTOR_SIZE` and `offset` are numbers of sectors; the zero byte that `strlen + 1`
copies behind a full last sector is left out. Text is what `printf("%s")` and `strlen` let
through: the words of a sector up to its first zero byte.

The scan of the inodes takes a step per inode sector. Its lines are records: the number,
the kind and the 16 bits of the size that are printed.

**DirentV6, DirWalks.** A directory entry is two words, the inode number and one word that
stands for the 14 characters of the name (two characters here); a path is a sequence of
characters, and a position in it is a number that `entry_name_cmpr` casts to a `char` of
`-CHAR_RANGE .. CHAR_RANGE - 1` (128 in the code): what `strlen` finds before the string is
a nondeterministic choice (`TailLengths`). The recursion of the lookup and of the tree is a
stack of frames, each with its reader, its position in the path or its prefix; a step is
one turn of the loop of the innermost call. `NamesOf`, `Reached`, `EntriesOf` and
`TreeLines` are the reference definitions: the names in a path, the inodes that the first of
them lead to, the entries of a directory, the lines of the tree. `Lsall` starts only on the disks of
`Trees`, whose directories have no cycle: on another disk the code recurses until the
stack is exhausted.

**FuseOps.** The operations of `FileOps` and `DirWalks` once more, now at the grain of the
stdio calls: a library call of thread `t` (`pc[t]`) needs some sectors (`Needs`), makes a
`Seek` and a `Fread` for each, and returns (`Opendir`, `Lookup`, `FillInode`, `List`,
`Open`, `Data`). `io[t].got` is the disk as this call saw it: the sector that the call
asked for as number `n` is what the `Fread` found wherever the stream was (`Gets`), and the
operators of `UnixV6`, `FileV6` and `DirentV6` are then applied to `got` in place of the
disk. So what one module says about the operations with sectors that fail, this one says
about the same operators with sectors that are wrong. A path is `/` or one name
(`PathsAssumption`); files of any layout.

**Shell.** Here the loop of `shell_loop` is the only actor. A line is read and cut
(`ReadLine`), one command runs (`Do...`, `Refused`), and the turn ends (`EndTurn`). The
input is a sequence of items; an item is a separator or a piece of a word, since all that
the code asks of a word is which command, file or number it is, and how long. `u` and what
`mountv6` makes of a disk are those of `MountV6`; `buf` are the sectors in the read buffer of
`u->f`, in aligned windows of `BUF_SECTORS`. `mkfs` writes through another stream, and
neither `u` nor `buf` knows: `reformatted` remembers it. `fgets` and `fopen` may fail
(`ReadNothing` at the end of the input, `DoMkfs`, `DoMount`).

Each module also defines a few *slips* (marked as such): plausible mistakes in one
definition, used to confirm that each property notices one.

## 3. The runs

Liveness is claimed of the loops only (`OperationsEnd`, `WalksEnd`), under `WF_vars(Step)`:
a loop that has begun calls no function that waits, so that its next turn always comes. In
`FuseOps` that is `WF_vars(Work(t))` for each thread `t`: the lock of the stream is held for
one stdio call only, and the system schedules every thread that can run. No
fairness is assumed of the calls themselves, which a user makes or not, nor of sectors: any
sector of `IoFaults` may fail in every call.

| run | cfg | what it shows | bounds |
|---|---|---|---|
| `bitmap` | `BmBlock.cfg` | `BmTypeOK`, `RefinesNumberPool` | vectors of 3 bits, numbers 0..7: one to three vectors, partly used last vector, ranges that do not start at 0, numbers outside of the range |
| `volume` | `Volume.cfg` | `TypeOK`, `MarkedIffLiveOrGranted`, `NoMemMeansFull`, `ContentIsMarked`, `AllocFresh`, `OnlyInodesChange`, `RefinesInodeStore` | 2 inodes per sector, 2 inode sectors; six starting images (empty, foreign, truncated, formatted, small files, a large file), formats that succeed, that have too few blocks, and whose disk cannot be mounted; in any call the superblock and the first inode sector fail, or the second inode sector |
| `sector_io` | `SectorIO.cfg` | `TypeOK`, `RefinesSectorStore` | one thread, 3 sectors, 2 contents, reads past the end; any `fseek`, `fread` or `fwrite` may fail, the process may stop at any step |
| `file_reader` | `FileReader.cfg` | `TypeOK`, `RefinesFileStream` | three disks: small files (empty, partly used last sector, a byte less than two sectors), large files (two and four sectors, an address past the disk, an address sector past the disk), the largest file and one that is too large; seeks to starts of sectors before, in and behind the file; an inode sector or a data sector fails |
| `file_ops` | `FileOps.cfg` | `TypeOK`, `ReadsUntilSizeOrEnd`, `CatShowsFile`, `ShaOfTheContent`, `ScanListsLive`, `OperationsEnd` | a directory, a file of four sectors through an address sector, a file of exactly one, a file with a zero byte in it; requests inside, across and behind the end |
| `dir_walks` | `DirWalks.cfg` | `TypeOK`, `ReadersAreConsistent`, `LookupIsExact`, `ListIsComplete`, `TreeIsExact`, `WalksEnd` | a tree of depth 3 with a directory of two sectors, one that fills its sector and an empty one; directories that name themselves and their parent; paths with several `/` at every place and one that is longer than a `char` counts (`CHAR_RANGE` 8); an inode sector or a sector of entries fails |
| `shell` | `Shell.cfg` | `TypeOK`, `StateIsOfTheDisk`, `CommandIsLine`, `EndsAtExitOrEnd`, `MkfsMakesWhatIsTyped` | all sessions of three out of 12 commands on a good disk, a bad one and a name without a file; refused numbers; stubs; 9 inputs that are hard to cut (empty, blanks, tabs, longer than the buffer of 11, no newline at the end); a stream buffer of 2 sectors |
| `fuse_ops` | `FuseOps.cfg` | `TypeOK`, `RacesSpareReaders`, `UndisturbedIsExact`, `OperationsEnd` | two threads, any number of operations: a getattr of a name that does not exist, a listing of the root, a read of a file across an address sector up to its end; the inodes of the root and of the file are in two sectors at the same place, so that a wrong sector gives the other one |

Allocation is bounded by the region (four inodes), so that all these state spaces are
finite without a bound on the number of calls; the disks of the readers do not change, so
that those are too. Two inode sectors of two inodes are the smallest
region in which a create has a neighbour in its sector and another sector beside it, and in
which `fill_ibm` can fail on the first or on a later sector. With four entries in a sector,
a directory of five has a full sector and a partly used one.

Each of the other runs shows one disagreement between the code and what it says of itself:

| run | property | what TLC finds |
|---|---|---|
| `partial_bitmaps` | `AllocFreshOnceMounted` | an inode sector cannot be read during the mount; `mountv6` answers 0 and `inode_alloc` gives the number of a live inode (`mount.c` 28) |
| `fuse_threads` | `RefinesSectorStore` | with two threads that only read, on a disk whose sectors differ, one moves the stream between the `fseek` and the `fread` of the other, whose call answers 0 with the content of a sector that it did not ask for (`sector.c` 17) |
| `mkfs_region` | `GrantedCanBeCreated` | `mkfs` writes the first of two inode sectors only; `inode_alloc` gives the first number of the second one, and `filev6_create` of it answers `ERR_IO` (`mount.c` 230) |
| `stale_position` | `LookupIsExact` | `/a/f` is found although `a` has no `f`: a lookup that fails in `a` leaves the position moved (`direntv6.c` 263) |

### Where the properties end

Several properties carry a condition, and some disks are not among the instances, because
the code does not do there what one expects. The models do what the code does in each case:

* `NoMemMeansFull` needs the inode region to start at sector 2: the least number of the
  bitmap is `s_inode_start`, a sector number (`mount.c` 116).
* `ContentIsMarked` is about content and files without holes: the address sectors of large
  files stay free in the block bitmap, and so does what follows a hole (`mount.c` 65).
* The properties of the bitmaps and of allocation are about mounts in which no sector
  failed (`missed = {}`), whatever fails later: `fill_ibm` and `fill_fbm` end silently at a
  sector that they cannot read, which `partial_bitmaps` shows.
* The number of inode sectors that `mountv6_mkfs` writes comes from sector numbers
  (`mount.c` 230): with 16 inodes in a sector it is too small from 32 inodes on. In
  `mkfs_region` a sector has 9, the least number for which the second of two inode sectors
  is left out as well; in `volume`, where it has 2, the formula writes more than the region.
* `OnlyInodesChange`, and what is said of the inode bitmap, is about creates with numbers
  that `inode_alloc` gave (`DirectInodes` is empty): `inode_write` lets the number that
  follows the region pass (`inode.c` 214), and a create with it writes the first data
  sector, against `unixv6fs.h` 35; a create with another number of the caller's own
  (`test-inodes.c` 11) leaves the bitmap behind the disk.
* A sector number 0 is a hole by `inode.h` 91, and `filev6_readblock` reads the boot sector
  in its place (`filev6.c` 56). `RefinesFileStream` counts that sector as the file's.
* `RefinesFileStream` says which sector a read delivers and that the answer is positive. It
  does not say that the answer is "the number of bytes of the file read" (`filev6.h` 46):
  the code answers 512 for a partly used last sector too (`filev6.c` 70). A seek into the
  middle of a sector reads its start (`filev6.c` 55), and is left out.
* `ReadsUntilSizeOrEnd` and `CatShowsFile` are about texts: `fs_read` and `cat` stop at the
  first zero byte of a sector (`fs.c` 229, `shell.c` 225). `ShaOfTheContent` is not.
* When a sector fails, `sha` prints a digest all the same (`sha.c` 84) and `lsall` answers 0
  for a tree cut short (`direntv6.c` 148): `ShaOfTheContent` then claims a prefix, and
  `TreeIsExact` that no line is wrong and none comes twice.
* `ListIsComplete` is about the entries before the first free one, which ends a listing
  (`direntv6.c` 83, `fs.c` 165), and about directories with zeroes behind their size: the
  last sector is counted whole (`direntv6.c` 79).
* `fs_getattr` reports `i_size1` alone (`fs.c` 118) and a scan prints 16 bits: the models
  truncate, and `ScanListsLive` speaks of the sizes that fit.
* `LookupIsExact` is about paths of less than 128 characters (`direntv6.c` 185); what the
  lookup of a longer one answers depends on what lies before it in memory.
* `StateIsOfTheDisk` ends where `mkfs` writes the mounted disk: afterwards the superblock,
  the bitmaps and the read buffer are of the old file system until the next `mount`.
* `CommandIsLine` excepts a line that is as long as the buffer of `fgets`, whose rest runs
  as a command, and one with tabs, which separate only the first word.
* `EndsAtExitOrEnd` counts as an end what happens when the input ends behind a newline: the
  loop reads through `args`, which is `NULL` by then (`shell.c` 409).
* `MkfsMakesWhatIsTyped` is about numbers of 16 bits: others are cut before they are tested
  (`shell.c` 168).
* `inode` is the one command that does not ask whether a disk is mounted (`shell.c` 238), so
  that it answers 1 for `/` without one; `istat` prints an inode that was not read when
  `inode_read` fails (`shell.c` 275). `DoPath` and `DoIstat` have it; no property does.
* `UndisturbedIsExact` speaks of operations that ran alone. One that did not may answer
  another file's bytes or inode, or an error: `fuse_threads` shows the cause.
* `LookupIsExact` holds for paths whose names, after a lookup below an entry has failed, do
  not occur again behind it; `stale_position` shows the other case.

## 4. The theorems

TLAPS proves the following for every value of the constants that satisfies the ASSUMEs of
the modules (`BmBlock`, `UnixV6`, ...) and the hypotheses named here: any geometry, any
disk, any set of failing sectors, any number of threads or depth of a walk. A hypothesis is
stated only where a run or a line of the code shows that the claim fails without it.

| theorem | property | hypotheses |
|---|---|---|
| `BmTypeCorrect`, `BmImplementsPool` | `BmTypeOK`, `RefinesNumberPool` | |
| `SectorTypeCorrect` | `TypeOK` of `SectorIO` | `OneThread`, or threads that only read |
| `SectorAccessIsAtomic` | `RefinesSectorStore` | `OneThread` |
| `VolumeTypeCorrect`, `OnlyInodesEverChange` | `TypeOK`, `OnlyInodesChange` | `AllocatedOnly` |
| `BitmapIsAccurate` | `MarkedIffLiveOrGranted` | `AllocatedOnly` |
| `AllocationIsFresh` | `AllocFresh` | the same, the region starts at sector 2 or later |
| `NoMemOnlyWhenFull` | `NoMemMeansFull` | the same, the region starts at sector 2 |
| `VolumeIsInodeStore` | `RefinesInodeStore` | `AllocatedOnly`, region from 2 on, `BehindIsFree` |
| `ContentIsAlwaysMarked` | `ContentIsMarked` | `AllocatedOnly`, region from 2 on, `FilesInside` |
| `FileReaderTypeCorrect` | `TypeOK` of `FileReader` | |
| `FileIsStream` | `RefinesFileStream` | `AlignedSeeks`, `NumbersInRegion` |
| `FileOpsTypeCorrect` | `TypeOK` of `FileOps` | |
| `FsReadDeliversTheRequest`, `CatIsTheFile` | `ReadsUntilSizeOrEnd`, `CatShowsFile` | |
| `ShaIsOfTheContent` | `ShaOfTheContent` | `FilesComplete` |
| `ScanIsComplete` | `ScanListsLive` | |
| `WalksTypeCorrect`, `OpenReadersAreConsistent` | `TypeOK`, `ReadersAreConsistent` of `DirWalks` | |
| `ListingsAreComplete` | `ListIsComplete` | `DirectoriesAreSound`, `LookupsAreNotMisled` |
| `LookupsAreExact` | `LookupIsExact` | the same, `DirectoriesAreComplete` |
| `TreesAreExact` | `TreeIsExact` | `DirectoriesAreSound`, `DirectoriesAreComplete`, `TreesEnd` |
| `FuseTypeCorrect`, `RacesSpareTheReaders` | `TypeOK`, `RacesSpareReaders` of `FuseOps` | |
| `UndisturbedOperations` | `UndisturbedIsExact` | `DiskIsSound` |
| `ShellTypeCorrect`, `MountedStateIsCurrent` | `TypeOK`, `StateIsOfTheDisk` of `Shell` | |
| `CommandsAreLines`, `ShellReadsOn`, `MkfsAsTyped` | `CommandIsLine`, `EndsAtExitOrEnd`, `MkfsMakesWhatIsTyped` | |

The hypotheses, and why each is there:

* `OneThread`: two different threads do not exist. `fuse_threads` shows the other case.
* `AllocatedOnly`: creates use numbers that `inode_alloc` gave; with the number behind the
  region, `inode_write` writes a data sector (section 3).
* The start of the region, of the disks that hold a file system: a region at sector 0 or 1
  overlaps the superblock, so that a create could change the superblock itself; and the
  least number of the inode bitmap is that sector number.
* `BehindIsFree`: no number behind the region reads as an allocated inode. `inode_read` lets
  the first one pass (`inode.c` 94), and what it finds there is no entry of the table.
* `FilesInside`: no size is above `EXTRA_LARGE_FILE`, and the address sectors of large files
  are on the disk and outside of the inode region; a create in such a sector would change
  what belongs to another file.
* `AlignedSeeks`, `NumbersInRegion`: seeks to starts of sectors, numbers of the region.
* `FilesComplete`: the files have all their sectors. `sha` prints a digest also when the
  disk ends within the file.
* `DiskIsSound`, of the disk that FUSE has mounted: the files have all their sectors (of the
  others `fs_read` answers an error, for which `RightAnswer` has no sectors to show); number
  1 is a directory; the entries fill a sector (`WholeEntries`: 32 of 16 bytes in the code;
  the model's constants could choose otherwise); and behind the last entry of a directory
  that ends within a sector there is a free one (`DirectoriesPadded`), since the last sector
  is counted whole (`direntv6.c` 79). `MCFuseOps` assumes it of its disk, so that TLC
  evaluates it.
* `DirectoriesAreSound`, of the directories of every disk: whole entries and a free one
  behind the last, as before (`IsPadded`); the names in a directory are not empty, have no
  `/` and differ (`NamesAreSound`), as a file system has them: `entry_name_cmpr` would take
  `a/b` for two names of the path, and of two entries with one name the second is looked up
  from a position that has moved on. Nothing is asked of the shape of the tree: directories
  may contain themselves, share entries, or have entries that name no inode.
* `LookupsAreNotMisled`, of the paths shorter than a `char` counts: behind an entry with the
  name that is looked up there is none with the name that follows it in the path
  (`NeverMisled`). That is the line between `dir_walks` and `stale_position`: where it does
  not hold, a lookup that fails in the entry goes on with the wrong name (`direntv6.c` 263).
* `DirectoriesAreComplete`: the directories have all their sectors. A lookup in one that has
  not answers an error, also for a path that exists, and a tree is cut short. Listings need
  no such thing: they fail.
* `TreesEnd`, of the disks of `Trees`: below the root there are no more levels of directories
  than the disk has inodes, so that no directory contains itself.

`MCDirWalks` assumes the last four of the disks and paths of `dir_walks`, so that TLC
evaluates them.

### The arguments

**BmBlock.** The inductive invariant is `WellFormed`. The refinement rests on the fact that
position and vector determine a number (`DivModUnique`), so that a change of one bit is a
change of one number, and on `MinOfNaturals` for the search.

**SectorIO.** The inductive part is `StreamIsMine` (in `BaseLayerProofs`): a thread about to
transfer finds the position that its own `fseek` set. `TypeOK` rests on it where threads
write: with other threads beside it, a write could land behind the end. Threads that only
read leave the stream on the image or at its end whatever they do, as under FUSE. A call that
fails has, at most, written out the buffer, which changes what a stop would leave and not
what the stream holds: a step of `SectorStore` that settles the last write.

**Volume.** `TypeOK` is not inductive: that a write stays in the region needs that promised
numbers are of the region, which needs that the bitmap's range is that of the mounted
superblock (`IInv`: `StructType`, `Buffered`, `Promised`). Each further property adds its
part: `MInv` the accuracy of the bitmap, `SInv` that the buffer never holds one of the first
two sectors, `DInv` that the superblock in memory is the one of the disk (`OfMountedDisk`).
`RInv` gives the refinement: the table of `InodeStore` is read off the image, a create
changes one inode (`OneInodeChanges`, `PutNewInodeFrame`), and a flush or a stop moves
between the two images that the table and its pending entry stand for. `CInv` carries
`FilesInside` through every call, for both images, since a stop makes the older one the disk
again. The sectors that fail matter to the bitmaps during the mount only, because nothing
fills them later: that is the whole use of `missed`.

**FileReader.** The invariant is `TypeOK` with `Aligned`: the cursor is at the start of a
sector. Its core is `FindsTheSector`: for every sector that a file has, the range tests of
`inode_findsector`, which differ for small and large files, let it through (`InsideSmall`,
`InsideLarge`), and the answer is the sector of the layout.

**FileOps.** `Reading` says that the cursor stands behind what was delivered, and that the
`j`-th sector delivered is sector `op.offset + j - 1` of the file, which lies before its end;
`Ended` keeps of it what an operation that ended well has shown. That the lists are equal
then follows from their lengths: one that delivered `size` sectors, or that met the end
(`AtEnd`), has what the request asked for and no more. `FindsTheSector` gives each sector.

**DirWalks, FuseOps.** Both rest on one lemma, `CountersAgree`, about the fields of a
`struct directory_reader`: cursor, `last` and `cur` stay in step when a sector is loaded
(`LoadCounts`), when the end rewinds the cursor (`RestartCounts`), when a read fails and
when an entry is free (`ReaddirCounts`). In `DirWalks` the sectors are those of the disk, so
that `dirs` is also the sector read last (`ReaddirReads`); the readers are those of a stack
of any depth (`IsStack`). In `FuseOps` the sectors are whatever the stream gave, and
`ThreadOK(t)` says of each thread which structures its next call will use; a step of one
thread leaves what the others hold (`OneThread`, there a lemma: only one thread moves).

**DirWalks, lookups and listings.** The invariant `WInv` is about the whole stack. A reader
is `OnTheWay` when it has answered the first `cur` entries of a directory, none of them
free, and the first `j - 1` names of the path lead to this directory and to no other. It is
`Searching` when none of these entries has the `j`-th name and the position is that of this
name; it has `Passed` when one has and the position is that of the next name. `Searches`
says that every reader below the top of the stack has passed, and that the one on the top
is searching, or has passed and the lookup in its entry has failed (`Missed`): then the path
leads nowhere, and what is left to prove is that the rest of the directory is not taken for
it. This is where `NeverMisled` and the difference of the names are used (`PassedTurn`). The
step of a reader that searches is `SearchingTurn`: an entry whose name is not the `j`-th is
passed over, one whose name it is ends the lookup or puts a reader on the stack, and the end
of the directory shows that no entry has the name. Nothing in `WInv` speaks of the depth of
the stack, so that directories which contain themselves need no case of their own.

What this rests on are three groups of lemmas. A reader: `NextEntry` says what
`direntv6_readdir` answers to one that has answered `k` entries, the same lemma for
`FuseOps`, here with sectors that fail, and `ListedAll` that the entries answered before the
end are `EntriesOf`. Positions: `NextStart` says that `pos_next_entry_name` goes from the
start of one name to that of the next, whatever slashes are between, and `ComparedNames`
that `entry_name_cmpr` answers 1, 0 or -1 as the entry has the last name, another name that
is the `k`-th, or none. The reference: `Reached` is a recursive function over the names of a
path, for which TLAPS has no induction; that it is defined, and that each of its values
follows from the one before, is proved by the least number of names for which it would not
be (`LeadsAnyWhere`, `ReachedFacts`).

**DirWalks, trees.** `TInv` says of the lines printed so far that they are those of a set of
nodes of the tree which has the root and is closed: for a directory in it, either all its
entries are in it, or a reader on the stack holds this directory and the entries that it has
answered are in it (`Covered`, `Held`). When the stack is empty nothing is held, and a closed
set with the root is the whole tree (`ClosedIsAll`, by the least level at which a node would
be missing; `GrowsAnyWhere` shows that the levels are defined, as `LeadsAnyWhere` does for
`Reached`). When an error has dropped a reader the lines are still of the tree, and only
`op.clean` is lost. That no path comes twice is `Drawn`: the paths are closed under dropping
the last name (`Grown`), the reader of depth `x` has a prefix of `x - 1` names, and a path
below its prefix ends with a name that it has answered. The next name of the directory
differs from these (`NamesAreSound`), so that its path is new. `TreesEnd` bounds the levels.

**The scan.** `ScanInv` says that the lines so far are, in ascending order, those of the live
inodes of the sectors that were read (`HasListed`), and that a scan that ended is behind the
last sector or in front of one that it could not read (`ScanEnded`). A sector adds the live
numbers of its own inodes, which are above all the earlier ones: appending the two sequences
is the sequence of the union. The reference `Ascending` gives the `k`-th line by the number
of smaller elements; that this is an enumeration is proved from ranks, without an induction
over the set (`AscendingFacts`), and that there is only one such sequence in
`AscendingUnique`.

**FuseOps, an operation alone.** `op.alone` remembers whether any other operation ran at the
same time. The invariant `AloneInv` says of each operation that is still alone (`Calm`): no
other thread is inside of an operation; the position of the stream is the one that its last
seek set; what the sectors of its call gave is what the disk holds (`got = Seen(tried)`); and
`Phase`, what it has established when it is in that library call: the reader is of the
directory that the path leads to and has answered its first `cur` entries, no one of which
has the name; the list is the names of those; the file's cursor stands behind the sectors
that were delivered. An operation is alone again after any races before it, because every
transfer is preceded by a seek of its own: nothing in `Calm` speaks of the past. A call
returns when it has tried the sectors it needs, and then it returns what it would return of
the undisturbed disk (`SameInode`, `SameSector`, `SameBlock`, `SameEntry`). So each step is
one of a reader of an image that does not change (`DiskBlock`, `DiskEntry`); what it answers
at the end is the reference, `EntriesOf` for a listing and a failed lookup (`ListedAll`,
`NotFound`), one of its entries for a successful one (`Found`), and the sectors of the
request for a read (`ReadIsRight`). TLC found `AloneInv` to hold on the instance of
`fuse_ops` before it was proved.

**Shell.** `ShellInv` has three parts: what is left of the input is a suffix of it
(`InputInv`), the words of a command are not empty (`TurnInv`), and the structure and the
buffer are of the image file that was mounted, unless it was formatted since (`DiskInv`). A
mount gives this whatever was there before, since `mountv6` clears the structure also when
`fopen` fails; a `mkfs` of another name leaves the mounted file alone. `CommandsAreLines`
needs `LineInv`: as long as no line filled the buffer, the rest of the input begins behind
the newline that ends the last line read (`IsLineAt`), so that `fgets` gives the next line
whole (`BeforeNewline`); that line is the `k`-th of the sorted positions of the newlines.
`strtok` with a blank then cuts it into the same pieces as `Pieces` does, whose first and
last positions are compared as sorted sets.

`LayoutLemmas` holds the facts about numbers and about the layout: that a sector holds the
words of its inodes without overlap (`InodeInSector`, `PutNewInodeFrame`), what
`mountv6_mkfs` writes and what `mountv6` makes of it (`MkfsImageType`, `MountResultType`,
`MountScansAll`), and the lemmas named above.

### What is only model-checked

* `OperationsEnd` and `WalksEnd`: liveness under fairness is out of the reach of the proof
  system.
* That the reference definitions over given texts and trees say what one expects of them
  (`NamesOf`, `Pieces`, `TreeLines`): the instances of TLC show their values in use.

## 5. The plan

Done: every component that changes state, alone and composed (`Volume` over `BmBlock`,
`FuseOps` over the readers and the stream, `Shell` over `MountV6`), and the proofs listed
above: every type invariant, every refinement, and every safety property that a passing run
checks. What could follow is `direntv6_create`, once the code finishes it: it will change
directories while readers of them are open, which no operation does today.

## 6. Not modelled

* `inode_print`, `mountv6_print_superblock`, `bm_print`, `print_sha_from_content`: they
  print. `fs_open`, `do_mkdir` and `do_add` do nothing.
* `arg_parse` of `fs.c`, which mounts the disk once before the threads begin.
* `direntv6_print_tree` on directories that contain themselves: the recursion has no end.
* Names that differ only behind their 14th character, and the 1024 characters at which
  `direntv6_print_tree` cuts a path.
* `direntv6_create` and `existence_control`: nothing calls them; the first is unfinished (it
  prints so), and the second passes an integer as a pointer to `memcpy` (`direntv6.c` 343).
  `filev6_writebytes` is a stub.
* Errors of `stdin` other than its end, and `calloc` that fails (`shell.c` 377).
* What `umountv6` leaves in `u->f`: every caller mounts again or ends.
* A write that tears inside of a sector, and a system that writes pending sectors to the
  medium out of order: a stop here is a stop of the process.
