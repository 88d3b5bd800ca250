------------------------------- MODULE Volume -------------------------------
(***************************************************************************)
(* One process that formats, mounts, uses and unmounts one disk image:     *)
(* mount.c, the functions of inode.c that change something, filev6_create  *)
(* and the sector layer below them.  The bitmaps are the number pools that *)
(* BmBlock implements.  A call is one step: the program is sequential (for *)
(* what threads do to the sector layer see SectorIO).  What can go wrong   *)
(* in a step is a set `bad' of sectors that cannot be read or written      *)
(* during that call, and the process can stop between two calls.           *)
(***************************************************************************)
EXTENDS MountV6

CONSTANTS InitImages,    \* the disk images that there may be at the start
          MkfsArgs,      \* the arguments <<num_blocks, num_inodes>> of mountv6_mkfs
          Modes,         \* the modes passed to filev6_create
          DirectInodes,  \* inode numbers passed to filev6_create without inode_alloc
          IoFaults       \* the possible sets of sectors that fail during a call

ASSUME VolumeAssumption ==
    /\ \A img \in InitImages : IsImage(img)
    /\ MkfsArgs \subseteq Word \X Word
    /\ \A mode \in Modes : mode \in Word /\ (mode \div IALLOC) % 2 = 1
    /\ DirectInodes \subseteq Word
    /\ \A bad \in IoFaults : bad \subseteq Nat
    /\ {} \in IoFaults

VARIABLES
    file,     \* the image, as the system holds it (what survives the process)
    wbuf,     \* the sector that fwrite left in the buffer of u->f, if any
    u,        \* struct unix_filesystem; `mounted': mountv6 returned 0
    granted,  \* history: the numbers that inode_alloc gave since the mount
    missed,   \* history: the sectors that failed during the mount
    last      \* history: the last call and what it returned

vars == <<file, wbuf, u, granted, missed, last>>

Nothing == [n \in {} |-> ZeroSector]

Ret(op, inr, ret) == last' = [op |-> op, inr |-> inr, ret |-> ret]

\* The image as this process sees it: reads find what is still in the buffer.
View == [n \in DOMAIN file |-> IF n \in DOMAIN wbuf THEN wbuf[n] ELSE file[n]]

\* The fseek at the start of sector_read and sector_write writes the buffer out, and
\* fails, leaving it as it is, when that is not possible.
FlushFails(bad) == DOMAIN wbuf \cap bad # {}
Flush == file' = View

-----------------------------------------------------------------------------
\* The writes reach the file when the buffer fills or fclose empties it; both results
\* are ignored, so that what follows the first failing sector is missing.  Formatting the
\* disk that is mounted, which the shell lets its user do, is left out.
Mkfs(num_blocks, num_inodes, bad) ==
    LET s    == MkfsSuperblock(num_blocks, num_inodes)
        full == MkfsImage(s)
        done == {n \in DOMAIN full : \A m \in 0 .. n : m \notin bad}
    IN  /\ ~u.open
        /\ \/ /\ num_blocks < s.s_isize + num_inodes
              /\ Ret("mkfs", 0, ERR_NOT_ENOUGH_BLOCS)
              /\ UNCHANGED file
           \/ /\ num_blocks >= s.s_isize + num_inodes
              /\ file' = [n \in done |-> full[n]]
              /\ Ret("mkfs", 0, 0)
           \/ /\ num_blocks >= s.s_isize + num_inodes    \* fopen fails
              /\ Ret("mkfs", 0, ERR_IO)
              /\ UNCHANGED file
        /\ UNCHANGED <<wbuf, u, granted, missed>>

-----------------------------------------------------------------------------
(* mountv6 and umountv6                                                    *)

\* Every caller unmounts before it mounts again (shell.c do_mount, fs.c arg_parse).
Mount(bad) ==
    /\ ~u.open
    /\ u' = mount_result(Visible(file, bad))
    /\ Ret("mount", 0, mount_error(Visible(file, bad)))
    /\ granted' = {} /\ missed' = bad
    /\ UNCHANGED <<file, wbuf>>

MountFopenFails ==
    /\ ~u.open
    /\ u' = Closed
    /\ Ret("mount", 0, ERR_IO)
    /\ granted' = {} /\ missed' = {}
    /\ UNCHANGED <<file, wbuf>>

\* A slip: the result of fclose is ignored.
UmountIgnoresFclose(bad) ==
    /\ u' = Closed
    /\ wbuf' = Nothing
    /\ granted' = {} /\ missed' = {}
    /\ \/ ~u.open /\ Ret("umount", 0, ERR_BAD_PARAMETER) /\ UNCHANGED file
       \/ u.open /\ FlushFails(bad) /\ Ret("umount", 0, 0) /\ UNCHANGED file
       \/ u.open /\ ~FlushFails(bad) /\ Ret("umount", 0, 0) /\ Flush

\* fclose writes the buffer out; when that fails its content is lost.  No caller looks at
\* the structure afterwards, whose f dangles: the process ends or mounts again.
Umount(bad) ==
    /\ u' = Closed
    /\ wbuf' = Nothing
    /\ granted' = {} /\ missed' = {}
    /\ \/ ~u.open /\ Ret("umount", 0, ERR_BAD_PARAMETER) /\ UNCHANGED file
       \/ u.open /\ FlushFails(bad) /\ Ret("umount", 0, ERR_IO) /\ UNCHANGED file
       \/ u.open /\ ~FlushFails(bad) /\ Ret("umount", 0, 0) /\ Flush

-----------------------------------------------------------------------------
(* inode.c and filev6_create                                               *)

\* Slips: the failure of bm_find_next is not tested, and the number is not marked.
InodeAllocUnchecked ==
    LET next == LeastFree(u.ibm)
    IN  /\ u.mounted
        /\ Ret("alloc", 0, next)
        /\ u' = [u EXCEPT !.ibm = Take(@, next)]
        /\ granted' = granted \cup {next}
        /\ UNCHANGED <<file, wbuf, missed>>

InodeAllocUnmarked ==
    LET next == LeastFree(u.ibm)
    IN  /\ u.mounted
        /\ Ret("alloc", 0, IF next < 0 THEN ERR_NOMEM ELSE next)
        /\ granted' = granted \cup (IF next < 0 THEN {} ELSE {next})
        /\ UNCHANGED <<file, wbuf, u, missed>>

InodeAlloc ==
    LET next == LeastFree(u.ibm)
    IN  /\ u.mounted
        /\ \/ /\ next < 0
              /\ Ret("alloc", 0, ERR_NOMEM)
              /\ UNCHANGED <<u, granted>>
           \/ /\ next >= 0
              /\ u' = [u EXCEPT !.ibm = Take(@, next)]
              /\ granted' = granted \cup {next}
              /\ Ret("alloc", 0, next)
        /\ UNCHANGED <<file, wbuf, missed>>

\* inode_read; on a disk whose mount failed as well, since the stream is open.
InodeRead(inr, bad) ==
    /\ u.open
    /\ \/ /\ ~OutOfInodes(u.s, inr) /\ ~FlushFails(bad)
          /\ Ret("read", inr, inode_read(Visible(View, bad), u.s, inr))
          /\ Flush
          /\ wbuf' = Nothing
       \/ /\ ~OutOfInodes(u.s, inr) /\ FlushFails(bad)
          /\ Ret("read", inr, ERR_IO)
          /\ UNCHANGED <<file, wbuf>>
       \/ /\ OutOfInodes(u.s, inr)
          /\ Ret("read", inr, ERR_INODE_OUTOF_RANGE)
          /\ UNCHANGED <<file, wbuf>>
    /\ UNCHANGED <<u, granted, missed>>

\* filev6_create: inode_write of a fresh inode, a read and a write of its sector.  The
\* program never calls it for a disk that it failed to mount (test-core.c).
FileCreate(inr, mode, bad) ==
    LET n == InodeSector(u.s, inr)
    IN  /\ u.mounted
        /\ inr \in granted \cup DirectInodes
        /\ \/ /\ ~OutOfInodes(u.s, inr) /\ ~FlushFails(bad)
              /\ Flush
              /\ \/ /\ n \in DOMAIN View \ bad
                    /\ wbuf' = [m \in {n} |-> PutNewInode(View[n], inr % INODES_PER_SECTOR, mode)]
                    /\ Ret("create", inr, 0)
                 \/ /\ n \notin DOMAIN View \ bad
                    /\ wbuf' = Nothing
                    /\ Ret("create", inr, ERR_IO)
           \/ /\ ~OutOfInodes(u.s, inr) /\ FlushFails(bad)
              /\ Ret("create", inr, ERR_IO)
              /\ UNCHANGED <<file, wbuf>>
           \/ /\ OutOfInodes(u.s, inr)
              /\ Ret("create", inr, ERR_INODE_OUTOF_RANGE)
              /\ UNCHANGED <<file, wbuf>>
        /\ UNCHANGED <<u, granted, missed>>

\* The process stops: what is in its buffer is lost.
Crash ==
    /\ u' = Closed
    /\ wbuf' = Nothing
    /\ granted' = {} /\ missed' = {}
    /\ Ret("crash", 0, 0)
    /\ UNCHANGED file

-----------------------------------------------------------------------------
Init ==
    /\ file \in InitImages
    /\ wbuf = Nothing
    /\ u = Closed
    /\ granted = {}
    /\ missed = {}
    /\ last = [op |-> "none", inr |-> 0, ret |-> 0]

\* inode_read is called with any number: the numbers of the region and the next sector's.
ReadNumbers == 0 .. (u.s.s_isize + 1) * INODES_PER_SECTOR

Next ==
    \/ \E args \in MkfsArgs, bad \in IoFaults : Mkfs(args[1], args[2], bad)
    \/ \E bad \in IoFaults : Mount(bad) \/ Umount(bad)
    \/ MountFopenFails
    \/ InodeAlloc
    \/ \E inr \in ReadNumbers, bad \in IoFaults : InodeRead(inr, bad)
    \/ \E inr \in granted \cup DirectInodes, mode \in Modes, bad \in IoFaults :
            FileCreate(inr, mode, bad)
    \/ Crash

Spec == Init /\ [][Next]_vars

-----------------------------------------------------------------------------
TypeOK ==
    /\ IsImage(file)
    /\ DOMAIN wbuf \subseteq DOMAIN file
    /\ \A n \in DOMAIN wbuf : wbuf[n] \in Sector
    /\ u.open \in BOOLEAN /\ u.mounted \in BOOLEAN
    /\ u.s \in [s_isize : Word, s_fsize : Word, s_inode_start : Word, s_block_start : Word]
    /\ \A pool \in {u.ibm, u.fbm} : /\ pool.min \in Nat /\ pool.max \in Int
                                   /\ pool.used \subseteq pool.min .. pool.max
    /\ granted \subseteq Nat /\ missed \subseteq Nat
    /\ last.ret \in Int

\* A number is marked in the inode bitmap exactly when the inode is allocated on the disk
\* or inode_alloc gave it since the mount: no live inode is ever free for inode_alloc, and
\* a number whose file was never written is free again after the next mount (mount.c
\* fill_ibm, inode.c inode_alloc and inode_write).  No sector may have failed during the
\* mount, since fill_ibm ends silently at the first one that does; afterwards any may.
MarkedIffLiveOrGranted ==
    u.mounted /\ missed = {}
        => u.ibm.used = {inr \in LiveInodes(View, u.s) : Holds(u.ibm, inr)} \cup granted

\* The answer of inode_alloc is no number that it gave during this mount, nor that of an
\* inode that is in use, nor 0 or the root, and it is a number of the region.
Fresh(inr) == /\ inr \notin granted \cup LiveInodes(View, u.s) \cup {0, ROOT_INUMBER}
              /\ inr \in RegionInodes(u.s)

\* inode_alloc gives fresh numbers only (inode.h:96 "alloc a new inode"), whatever sectors
\* fail after the mount.
AllocFresh ==
    [][last'.op = "alloc" /\ last'.ret # ERR_NOMEM /\ missed = {} => Fresh(last'.ret)]_vars

\* The same of every disk for which mountv6 answered 0 (mount.h:30 "0 on success").
AllocFreshOnceMounted == [][last'.op = "alloc" /\ last'.ret # ERR_NOMEM => Fresh(last'.ret)]_vars

\* inode_alloc answers ERR_NOMEM only when every inode of the region but 0 and the root is
\* in use or promised.
NoMemMeansFull ==
    last.op = "alloc" /\ last.ret = ERR_NOMEM /\ missed = {}
        => RegionInodes(u.s) \ {0, ROOT_INUMBER} \subseteq LiveInodes(View, u.s) \cup granted

\* A number that inode_alloc gave is the number of an inode on the disk: the create of its
\* file does not fail (mount.c:229: mkfs writes the "number of sector needed" for the inodes
\* that its caller asked for).
GrantedCanBeCreated ==
    last.op = "create" /\ last.inr \in granted => last.ret = 0

\* Apart from mkfs, nothing writes outside of the inode region of unixv6fs.h:35, neither in
\* the boot sector and the superblock nor in the data of a file.
OnlyInodesChange ==
    [][last'.op # "mkfs" =>
        /\ DOMAIN file' = DOMAIN file
        /\ \A n \in DOMAIN file \ InodeRegionOf(u.s) : file'[n] = file[n]]_vars

\* The sectors that hold the content of a file, as the layout defines them.
ContentSectors(img, i) ==
    LET offs == {k \in 0 .. ADDR_SMALL_LENGTH * ADDRESSES_PER_SECTOR - 1 : k * SECTOR_SIZE < i.i_size}
    IN  IF IsSmall(i) THEN {i.i_addr[k] : k \in offs}
        ELSE {img[AddressSector(i, k)][k % ADDRESSES_PER_SECTOR] : k \in offs}

\* unixv6fs.h:13, as far as the content of files goes: while the disk is mounted, no sector
\* of the block region that holds content of a file without holes is free in the block
\* bitmap.  (The sectors that hold the addresses of a large file are: mount.c:65 marks only
\* what inode_findsector returns.)
ContentIsMarked ==
    u.mounted /\ missed = {} => \A inr \in LiveInodes(View, u.s) :
        LET sectors == ContentSectors(View, InodeNo(View, u.s, inr))
        IN  0 \notin sectors => \A n \in sectors : Holds(u.fbm, n) => InUse(u.fbm, n)

-----------------------------------------------------------------------------
\* The inodes of an image, as far as the file is long enough to hold them.
InodesOf(img) ==
    LET s == IF SUPERBLOCK_SECTOR \in DOMAIN img THEN SuperblockAt(img[SUPERBLOCK_SECTOR])
                                                 ELSE NoSuperblock
    IN  [inr \in {i \in RegionInodes(s) : InodeSector(s, i) \in DOMAIN img} |-> InodeNo(img, s, inr)]

NewInode(mode) == InodeAt(PutNewInode(ZeroSector, 0, mode), 0)

Store == INSTANCE InodeStore WITH table       <- InodesOf(View),
                                  stable      <- InodesOf(file),
                                  ready       <- u.mounted,
                                  NewInodes   <- {NewInode(mode) : mode \in Modes},
                                  IsAllocated <- Allocated

\* The volume is a table of inodes: a create changes one entry, a read tells what the last
\* create wrote although it may still be in the buffer, and a crash undoes at most the last
\* acknowledged create, for any sectors that fail at any time.
RefinesInodeStore == Store!Spec
=============================================================================
