---------------------------- MODULE VolumeProofs ----------------------------
(***************************************************************************)
(* Theorems about Volume, for every geometry of the disk, every image, and *)
(* any number of calls.                                                    *)
(***************************************************************************)
EXTENDS Volume, LayoutLemmas

\* Every create is for a number that inode_alloc gave.
AllocatedOnly == DirectInodes = {}

-----------------------------------------------------------------------------
(* What the process sees of the image.                                     *)

LEMMA ViewType ==
    ASSUME TypeOK
    PROVE  IsImage(View) /\ DOMAIN View = DOMAIN file
<1>1. PICK n \in 0 .. UINT16_MAX : file \in [0 .. n - 1 -> Sector]
  BY DEF TypeOK, IsImage
<1>2. View \in [0 .. n - 1 -> Sector]
  BY <1>1 DEF View, TypeOK
<1> QED BY <1>1, <1>2 DEF IsImage

\* After a flush the process sees what it saw before.
LEMMA FlushKeepsView ==
    ASSUME TypeOK, Flush, wbuf' = Nothing
    PROVE  IsImage(file') /\ View' = View /\ DOMAIN file' = DOMAIN file
<1>1. DOMAIN wbuf' = {}
  BY DEF Nothing
<1>2. View' = [n \in DOMAIN file' |-> file'[n]]
  BY <1>1 DEF View
<1>3. file' = View
  BY DEF Flush
<1>4. View = [n \in DOMAIN View |-> View[n]]
  BY DEF View
<1> QED BY <1>2, <1>3, <1>4, ViewType

\* After a create that did not fail, it sees the new inode's sector, and no other changed.
LEMMA CreatedView ==
    ASSUME NEW n, n \in DOMAIN View, NEW new, file' = View, wbuf' = [m \in {n} |-> new]
    PROVE  /\ DOMAIN View' = DOMAIN View /\ View'[n] = new
           /\ \A m \in DOMAIN View : m # n => View'[m] = View[m]
<1>1. DOMAIN wbuf' = {n} /\ wbuf'[n] = new
  OBVIOUS
<1>2. View' = [m \in DOMAIN file' |-> IF m \in DOMAIN wbuf' THEN wbuf'[m] ELSE file'[m]]
  BY DEF View
<1> QED BY <1>1, <1>2

-----------------------------------------------------------------------------
(* The inductive invariant: the buffer holds at most sectors of the inode  *)
(* region of the mounted disk, because inode_alloc promises only numbers   *)
(* of the region and filev6_create is called for promised numbers.         *)

FileType == /\ IsImage(file) /\ DOMAIN wbuf \subseteq DOMAIN file
            /\ \A n \in DOMAIN wbuf : wbuf[n] \in Sector
Buffered == /\ ~u.open => wbuf = Nothing
            /\ DOMAIN wbuf \subseteq InodeRegionOf(u.s)
Promised == /\ granted \subseteq RegionInodes(u.s)
            /\ ~u.mounted => granted = {}
IInv == FileType /\ StructType(u) /\ Buffered /\ Promised /\ missed \subseteq Nat /\ last.ret \in Int

LEMMA TypeFromIInv == IInv => TypeOK
<1> SUFFICES ASSUME IInv PROVE TypeOK
  OBVIOUS
<1>1. granted \subseteq Nat
  BY InRegion DEF IInv, Promised, StructType
<1>2. /\ u.open \in BOOLEAN /\ u.mounted \in BOOLEAN /\ u.s \in Superblock
      /\ IsPool(u.ibm) /\ IsPool(u.fbm)
  BY DEF IInv, StructType
<1>3. FileType /\ missed \subseteq Nat /\ last.ret \in Int
  BY DEF IInv
<1>4. \A pool \in {u.ibm, u.fbm} : /\ pool.min \in Nat /\ pool.max \in Int
                                    /\ pool.used \subseteq pool.min .. pool.max
  BY <1>2 DEF IsPool
<1> QED BY <1>1, <1>2, <1>3, <1>4 DEF TypeOK, FileType, Superblock

LEMMA EmptyBuffer == DOMAIN Nothing = {}
  BY DEF Nothing

LEMMA InitIInv == Init => IInv
<1> SUFFICES ASSUME Init PROVE IInv
  OBVIOUS
<1>1. FileType
  BY EmptyBuffer, VolumeAssumption DEF Init, FileType
<1>2. StructType(u)
  BY ClosedType DEF Init
<1>3. Buffered /\ Promised /\ missed \subseteq Nat /\ last.ret \in Int
  BY EmptyBuffer, ClosedType DEF Init, Buffered, Promised
<1> QED BY <1>1, <1>2, <1>3 DEF IInv

LEMMA MkfsKeepsIInv ==
    ASSUME IInv, NEW num_blocks \in Word, NEW num_inodes \in Word, NEW bad \in SUBSET Nat,
           Mkfs(num_blocks, num_inodes, bad)
    PROVE  IInv' /\ last'.op = "mkfs"
<1> DEFINE s == MkfsSuperblock(num_blocks, num_inodes)
           full == MkfsImage(s)
           done == {n \in DOMAIN full : \A m \in 0 .. n : m \notin bad}
<1>1. IsImage(full)
  BY MkfsImageType
<1>2. /\ ~u.open /\ UNCHANGED <<wbuf, u, granted, missed>>
      /\ file' = file \/ file' = [n \in done |-> full[n]]
      /\ last'.op = "mkfs" /\ last'.ret \in Int
  BY DEF Mkfs, Ret, ERR_NOT_ENOUGH_BLOCS, ERR_IO
<1> HIDE DEF full
<1>3. IsImage(file')
  <2>1. IsImage(file)
    BY DEF IInv, FileType
  <2>2. CASE file' = [n \in done |-> full[n]]
    BY <1>1, <2>2, PrefixIsImage
  <2> QED BY <1>2, <2>1, <2>2
<1>4. wbuf' = Nothing
  BY <1>2 DEF IInv, Buffered
<1>5. FileType' /\ Buffered'
  BY <1>2, <1>3, <1>4, EmptyBuffer DEF IInv, FileType, Buffered
<1>6. StructType(u') /\ Promised'
  BY <1>2 DEF IInv, Promised
<1> QED BY <1>2, <1>5, <1>6 DEF IInv

LEMMA MountKeepsIInv ==
    ASSUME IInv, NEW bad \in SUBSET Nat, Mount(bad)
    PROVE  IInv' /\ UNCHANGED file
<1> DEFINE img == Visible(file, bad)
<1>1. /\ ~u.open /\ u' = mount_result(img) /\ last'.ret = mount_error(img)
      /\ granted' = {} /\ missed' = bad /\ UNCHANGED <<file, wbuf>>
  BY DEF Mount, Ret
<1>2. \A n \in DOMAIN img : img[n] \in Sector
  BY SeenType DEF IInv, FileType
<1> HIDE DEF img
<1>3. StructType(u') /\ u'.open /\ last'.ret \in Int
  BY <1>1, <1>2, MountResultType
<1>4. wbuf' = Nothing
  BY <1>1 DEF IInv, Buffered
<1> QED BY <1>1, <1>3, <1>4, EmptyBuffer DEF IInv, FileType, Buffered, Promised

\* A call that leaves the structure closed and the buffer empty.
LEMMA ClosedKeepsIInv ==
    ASSUME IInv, u' = Closed, wbuf' = Nothing, granted' = {}, missed' = {}, last'.ret \in Int,
           IsImage(file')
    PROVE  IInv'
  BY ClosedType, EmptyBuffer DEF IInv, FileType, Buffered, Promised

LEMMA UmountKeepsIInv ==
    ASSUME IInv, NEW bad, Umount(bad)
    PROVE  IInv' /\ (file' = file \/ Flush)
<1>1. /\ u' = Closed /\ wbuf' = Nothing /\ granted' = {} /\ missed' = {}
      /\ file' = file \/ Flush
      /\ last'.ret \in Int
  BY DEF Umount, Ret, ERR_BAD_PARAMETER, ERR_IO
<1>2. IsImage(file')
  <2>1. IsImage(file) /\ IsImage(View)
    BY TypeFromIInv, ViewType DEF IInv, FileType
  <2> QED BY <1>1, <2>1 DEF Flush
<1> QED BY <1>1, <1>2, ClosedKeepsIInv

LEMMA AllocKeepsIInv ==
    ASSUME IInv, InodeAlloc
    PROVE  IInv' /\ UNCHANGED file
<1> DEFINE next == LeastFree(u.ibm)
<1>1. u.mounted /\ u.open /\ IsPool(u.ibm) /\ u.s \in Superblock
  BY DEF IInv, StructType, InodeAlloc
<1>2. /\ next \in Int
      /\ next >= 0 => next \in (u.ibm.min .. u.ibm.max) \ u.ibm.used
  BY <1>1, LeastFreeType
<1>3. UNCHANGED <<file, wbuf, missed>>
  BY DEF InodeAlloc
<1>4. CASE next < 0
  <2>1. UNCHANGED <<u, granted>> /\ last'.ret = ERR_NOMEM
    <3> HIDE DEF next
    <3> QED BY <1>2, <1>4 DEF InodeAlloc, next, Ret
  <2> QED BY <1>3, <2>1 DEF IInv, FileType, Buffered, Promised, ERR_NOMEM
<1>5. CASE next >= 0
  <2>1. /\ u' = [u EXCEPT !.ibm = Take(@, next)] /\ last'.ret = next
        /\ granted' = granted \cup {next}
    <3> HIDE DEF next
    <3> QED BY <1>2, <1>5 DEF InodeAlloc, next, Ret
  <2> HIDE DEF next
  <2>2. Take(u.ibm, next) = [min |-> u.ibm.min, max |-> u.ibm.max, used |-> u.ibm.used \cup {next}]
    BY <1>1, <1>2, <1>5, TakeType
  <2>3. u' = [open |-> u.open, mounted |-> u.mounted, s |-> u.s, ibm |-> Take(u.ibm, next),
              fbm |-> u.fbm]
    BY <2>1 DEF IInv, StructType
  <2>4. IsPool(Take(u.ibm, next))
    BY <1>1, <1>2, <1>5, <2>2 DEF IsPool
  <2>5. StructType(u')
    BY <2>2, <2>3, <2>4 DEF IInv, StructType
  <2>6. next \in RegionInodes(u.s)
    BY <1>1, <1>2, <1>5 DEF IInv, StructType, RegionInodes, IsPool
  <2>7. Promised' /\ Buffered'
    BY <1>1, <1>3, <2>1, <2>3, <2>6 DEF IInv, Promised, Buffered
  <2> QED BY <1>2, <1>3, <2>1, <2>5, <2>7 DEF IInv, FileType
<1> QED BY <1>2, <1>4, <1>5

LEMMA ReadKeepsIInv ==
    ASSUME IInv, NEW inr \in Nat, NEW bad, InodeRead(inr, bad)
    PROVE  IInv' /\ (file' = file \/ Flush)
<1>1. UNCHANGED <<u, granted, missed>> /\ u.open
  BY DEF InodeRead
<1>2. last'.ret \in Int
  BY DEF InodeRead, Ret, inode_read, ERR_IO, ERR_INODE_OUTOF_RANGE, ERR_UNALLOCATED_INODE
<1>3. \/ Flush /\ wbuf' = Nothing
      \/ UNCHANGED <<file, wbuf>>
  BY DEF InodeRead
<1>4. CASE Flush /\ wbuf' = Nothing
  <2>1. IsImage(file')
    BY <1>4, TypeFromIInv, FlushKeepsView
  <2> QED BY <1>1, <1>2, <1>4, <2>1, EmptyBuffer DEF IInv, FileType, Buffered, Promised
<1>5. CASE UNCHANGED <<file, wbuf>>
  BY <1>1, <1>2, <1>5 DEF IInv, FileType, Buffered, Promised
<1> QED BY <1>3, <1>4, <1>5

LEMMA CreateKeepsIInv ==
    ASSUME IInv, NEW inr \in granted, NEW mode \in Word, NEW bad, FileCreate(inr, mode, bad)
    PROVE  IInv' /\ (file' = file \/ Flush)
<1> DEFINE n == InodeSector(u.s, inr)
           new == PutNewInode(View[n], inr % INODES_PER_SECTOR, mode)
<1>1. UNCHANGED <<u, granted, missed>> /\ u.open
  BY DEF FileCreate, IInv, StructType
<1>2. last'.ret \in Int
  BY DEF FileCreate, Ret, ERR_IO, ERR_INODE_OUTOF_RANGE
<1>3. \/ Flush /\ wbuf' = Nothing
      \/ UNCHANGED <<file, wbuf>>
      \/ Flush /\ n \in DOMAIN View /\ wbuf' = [m \in {n} |-> new]
  BY Zenon DEF FileCreate
<1>4. CASE Flush /\ wbuf' = Nothing
  <2>1. IsImage(file')
    BY <1>4, TypeFromIInv, FlushKeepsView
  <2> QED BY <1>1, <1>2, <1>4, <2>1, EmptyBuffer DEF IInv, FileType, Buffered, Promised
<1>5. CASE UNCHANGED <<file, wbuf>>
  BY <1>1, <1>2, <1>5 DEF IInv, FileType, Buffered, Promised
<1>6. CASE Flush /\ n \in DOMAIN View /\ wbuf' = [m \in {n} |-> new]
  <2>1. u.s \in Superblock /\ inr \in RegionInodes(u.s)
    BY DEF IInv, StructType, Promised
  <2>2. n \in InodeRegionOf(u.s) /\ inr % INODES_PER_SECTOR \in Nat
    BY <2>1, InRegion
  <2>3. IsImage(View) /\ DOMAIN file' = DOMAIN View /\ IsImage(file')
    BY <1>6, TypeFromIInv, ViewType DEF Flush
  <2>4. View[n] \in Sector
    BY <1>6, <2>3, ImageIsPrefix
  <2>5. new \in Sector
    BY <2>2, <2>4, PutNewInodeType
  <2> HIDE DEF n, new
  <2>6. DOMAIN wbuf' = {n} /\ wbuf'[n] = new
    BY <1>6
  <2>7. FileType' /\ Buffered'
    BY <1>1, <1>6, <2>2, <2>3, <2>5, <2>6 DEF FileType, Buffered
  <2> QED BY <1>1, <1>2, <1>6, <2>7 DEF IInv, Promised
<1> QED BY <1>3, <1>4, <1>5, <1>6

LEMMA CrashKeepsIInv ==
    ASSUME IInv, Crash
    PROVE  IInv' /\ UNCHANGED file
<1>1. /\ u' = Closed /\ wbuf' = Nothing /\ granted' = {} /\ missed' = {}
      /\ last'.ret = 0 /\ UNCHANGED file
  BY DEF Crash, Ret
<1>2. IsImage(file')
  BY <1>1 DEF IInv, FileType
<1> QED BY <1>1, <1>2, ClosedKeepsIInv

LEMMA FopenFailsKeepsIInv ==
    ASSUME IInv, MountFopenFails
    PROVE  IInv' /\ UNCHANGED file
<1>1. /\ u' = Closed /\ wbuf' = Nothing /\ granted' = {} /\ missed' = {}
      /\ last'.ret = ERR_IO /\ UNCHANGED file
  BY DEF MountFopenFails, Ret, IInv, Buffered
<1>2. IsImage(file')
  BY <1>1 DEF IInv, FileType
<1> QED BY <1>1, <1>2, ClosedKeepsIInv DEF ERR_IO

LEMMA StepFacts ==
    ASSUME AllocatedOnly, IInv, [Next]_vars
    PROVE  IInv' /\ (last'.op = "mkfs" \/ file' = file \/ Flush)
<1>1. ASSUME NEW args \in MkfsArgs, NEW bad \in IoFaults, Mkfs(args[1], args[2], bad)
      PROVE  IInv' /\ last'.op = "mkfs"
  <2>1. args[1] \in Word /\ args[2] \in Word /\ bad \in SUBSET Nat
    BY VolumeAssumption
  <2> QED BY <1>1, <2>1, MkfsKeepsIInv
<1>2. ASSUME NEW bad \in IoFaults, Mount(bad) PROVE IInv' /\ UNCHANGED file
  <2>1. bad \in SUBSET Nat
    BY VolumeAssumption
  <2> QED BY <1>2, <2>1, MountKeepsIInv
<1>3. ASSUME NEW bad \in IoFaults, Umount(bad) PROVE IInv' /\ (file' = file \/ Flush)
  BY <1>3, UmountKeepsIInv
<1>4. ASSUME NEW inr \in ReadNumbers, NEW bad \in IoFaults, InodeRead(inr, bad)
      PROVE  IInv' /\ (file' = file \/ Flush)
  <2>1. inr \in Nat
    BY DEF ReadNumbers
  <2> QED BY <1>4, <2>1, ReadKeepsIInv
<1>5. ASSUME NEW inr \in granted \cup DirectInodes, NEW mode \in Modes, NEW bad \in IoFaults,
             FileCreate(inr, mode, bad)
      PROVE  IInv' /\ (file' = file \/ Flush)
  <2>1. inr \in granted /\ mode \in Word
    BY VolumeAssumption DEF AllocatedOnly
  <2> QED BY <1>5, <2>1, CreateKeepsIInv
<1>6. CASE UNCHANGED vars
  BY <1>6 DEF vars, IInv, FileType, Buffered, Promised
<1> QED
  BY <1>1, <1>2, <1>3, <1>4, <1>5, <1>6, AllocKeepsIInv, CrashKeepsIInv, FopenFailsKeepsIInv DEF Next

\* Type correctness (the structure of mount.c and the bitmaps' ranges included): however
\* the calls interleave with crashes and with sectors that fail.
THEOREM VolumeTypeCorrect == ASSUME AllocatedOnly PROVE Spec => []TypeOK
<1>1. Init => IInv
  BY InitIInv
<1>2. IInv /\ [Next]_vars => IInv'
  BY StepFacts
<1>3. IInv => TypeOK
  BY TypeFromIInv
<1> QED BY <1>1, <1>2, <1>3, PTL DEF Spec

\* No step but mkfs writes outside of the inode region, provided that every file that
\* filev6_create makes has a number from inode_alloc: the range test of inode_write lets the
\* number that follows the last one pass.
THEOREM OnlyInodesEverChange == ASSUME AllocatedOnly PROVE Spec => OnlyInodesChange
<1> DEFINE Frame == last'.op # "mkfs" =>
               /\ DOMAIN file' = DOMAIN file
               /\ \A n \in DOMAIN file \ InodeRegionOf(u.s) : file'[n] = file[n]
<1>1. Init => IInv
  BY InitIInv
<1>2. IInv /\ [Next]_vars => IInv'
  BY StepFacts
<1>3. IInv /\ [Next]_vars => [Frame]_vars
  <2> SUFFICES ASSUME IInv, [Next]_vars, last'.op # "mkfs" PROVE Frame
    OBVIOUS
  <2>1. file' = file \/ Flush
    BY StepFacts
  <2>2. CASE Flush
    <3>1. \A n \in DOMAIN wbuf : n \in InodeRegionOf(u.s)
      BY DEF IInv, Buffered
    <3>2. file' = [n \in DOMAIN file |-> IF n \in DOMAIN wbuf THEN wbuf[n] ELSE file[n]]
      BY <2>2 DEF Flush, View
    <3> QED BY <3>1, <3>2
  <2> QED BY <2>1, <2>2
<1>4. Spec => [][Frame]_vars
  BY <1>1, <1>2, <1>3, PTL DEF Spec
<1> QED BY <1>4 DEF OnlyInodesChange
-----------------------------------------------------------------------------
(* The bitmap marks the live and the promised inodes.                      *)

MInv == IInv /\ MarkedIffLiveOrGranted

LEMMA MountMarks ==
    ASSUME IInv, NEW bad, Mount(bad)
    PROVE  MarkedIffLiveOrGranted'
<1> SUFFICES ASSUME u'.mounted, missed' = {}
             PROVE  u'.ibm.used = {inr \in LiveInodes(View', u'.s) : Holds(u'.ibm, inr)} \cup granted'
  BY DEF MarkedIffLiveOrGranted
<1>0. bad = {}
  BY DEF Mount
<1>1. /\ ~u.open /\ u' = mount_result(Visible(file, {})) /\ granted' = {}
      /\ UNCHANGED <<file, wbuf>>
  BY <1>0 DEF Mount
<1>2. IsImage(file) /\ Visible(file, {}) = file
  BY SeenAll DEF IInv, FileType
<1>3. u' = mount_result(file) /\ \A n \in DOMAIN file : file[n] \in Sector
  BY <1>1, <1>2, ImageIsPrefix
<1>4. StructType(u') /\ u'.ibm = fill_ibm(file, u'.s)
  BY <1>3, MountResultType
<1>5. View' = file
  <2>1. wbuf' = Nothing
    BY <1>1 DEF IInv, Buffered
  <2>2. View' = [n \in DOMAIN file |-> file[n]]
    BY <1>1, <2>1, EmptyBuffer DEF View
  <2> QED BY <1>2, <2>2 DEF IsImage
<1>6. u'.s \in Superblock
  BY <1>4 DEF StructType
<1>7. IsPool(NewIbm(u'.s)) /\ NewIbm(u'.s).used = {}
  BY <1>6, NewBitmapsType DEF NoPool
<1>8. /\ u'.ibm.min = NewIbm(u'.s).min /\ u'.ibm.max = NewIbm(u'.s).max
      /\ u'.ibm.used = {inr \in LiveInodes(file, u'.s) :
                          inr \in NewIbm(u'.s).min .. NewIbm(u'.s).max}
  BY <1>2, <1>4, <1>6, <1>7, TakeAllType, MountScansAll DEF fill_ibm
<1> QED BY <1>1, <1>5, <1>8 DEF Holds

LEMMA AllocMarks ==
    ASSUME MInv, InodeAlloc
    PROVE  MarkedIffLiveOrGranted'
<1> DEFINE next == LeastFree(u.ibm)
<1>1. u.mounted /\ IsPool(u.ibm) /\ View' = View /\ missed' = missed
  BY DEF MInv, IInv, StructType, InodeAlloc, View
<1>2. /\ next \in Int
      /\ next >= 0 => next \in (u.ibm.min .. u.ibm.max) \ u.ibm.used
  BY <1>1, LeastFreeType
<1>3. \/ UNCHANGED <<u, granted>>
      \/ /\ next >= 0
         /\ u' = [u EXCEPT !.ibm = Take(@, next)] /\ granted' = granted \cup {next}
  BY Zenon DEF InodeAlloc
<1>4. CASE UNCHANGED <<u, granted>>
  BY <1>1, <1>4 DEF MInv, MarkedIffLiveOrGranted
<1>5. CASE /\ next >= 0
           /\ u' = [u EXCEPT !.ibm = Take(@, next)] /\ granted' = granted \cup {next}
  <2> HIDE DEF next
  <2>1. u'.s = u.s /\ u'.ibm = Take(u.ibm, next)
    BY <1>5 DEF MInv, IInv, StructType
  <2>2. /\ u'.ibm.min = u.ibm.min /\ u'.ibm.max = u.ibm.max
        /\ u'.ibm.used = u.ibm.used \cup {next}
    BY <1>1, <1>2, <1>5, <2>1, TakeType
  <2>3. missed = {} => u.ibm.used = {inr \in LiveInodes(View, u.s) : Holds(u.ibm, inr)} \cup granted
    BY <1>1 DEF MInv, MarkedIffLiveOrGranted
  <2> QED BY <1>1, <1>5, <2>1, <2>2, <2>3 DEF MarkedIffLiveOrGranted, Holds
<1> QED BY <1>3, <1>4, <1>5

LEMMA ReadKeepsView ==
    ASSUME IInv, NEW inr, NEW bad, InodeRead(inr, bad)
    PROVE  View' = View /\ UNCHANGED <<u, granted, missed>>
<1>1. UNCHANGED <<u, granted, missed>>
  BY DEF InodeRead
<1>2. (Flush /\ wbuf' = Nothing) \/ UNCHANGED <<file, wbuf>>
  BY DEF InodeRead
<1>3. CASE Flush /\ wbuf' = Nothing
  BY <1>1, <1>3, TypeFromIInv, FlushKeepsView
<1> QED BY <1>1, <1>2, <1>3 DEF View

LEMMA CreateMarks ==
    ASSUME MInv, NEW inr \in granted, NEW mode \in Modes, NEW bad, FileCreate(inr, mode, bad)
    PROVE  MarkedIffLiveOrGranted'
<1> DEFINE n == InodeSector(u.s, inr)
           new == PutNewInode(View[n], inr % INODES_PER_SECTOR, mode)
<1>1. UNCHANGED <<u, granted, missed>> /\ u.mounted
  BY DEF FileCreate
<1>2. \/ Flush /\ wbuf' = Nothing
      \/ UNCHANGED <<file, wbuf>>
      \/ Flush /\ n \in DOMAIN View /\ wbuf' = [m \in {n} |-> new]
  BY Zenon DEF FileCreate
<1>3. CASE Flush /\ wbuf' = Nothing
  <2>1. View' = View
    BY <1>3, TypeFromIInv, FlushKeepsView DEF MInv
  <2> QED BY <1>1, <2>1 DEF MInv, MarkedIffLiveOrGranted
<1>4. CASE UNCHANGED <<file, wbuf>>
  BY <1>1, <1>4 DEF MInv, MarkedIffLiveOrGranted, View
<1>5. CASE Flush /\ n \in DOMAIN View /\ wbuf' = [m \in {n} |-> new]
  <2>1. u.s \in Superblock /\ inr \in RegionInodes(u.s)
    BY DEF MInv, IInv, StructType, Promised
  <2>2. mode \in Word /\ (mode \div IALLOC) % 2 = 1
    BY VolumeAssumption
  <2>3. IsImage(View)
    BY TypeFromIInv, ViewType DEF MInv
  <2>4. /\ DOMAIN View' = DOMAIN View /\ View'[n] = new
        /\ \A m \in DOMAIN View : m # n => View'[m] = View[m]
    <3> HIDE DEF n, new
    <3> QED BY <1>5, CreatedView DEF Flush
  <2>5. LiveInodes(View', u.s) = LiveInodes(View, u.s) \cup {inr}
    BY <1>5, <2>1, <2>2, <2>3, <2>4, CreateMakesLive
  <2> HIDE DEF n, new
  <2>6. missed = {} => u.ibm.used = {i \in LiveInodes(View, u.s) : Holds(u.ibm, i)} \cup granted
    BY <1>1 DEF MInv, MarkedIffLiveOrGranted
  <2>7. missed' = {} => u'.ibm.used = {i \in LiveInodes(View', u'.s) : Holds(u'.ibm, i)} \cup granted'
    BY <1>1, <2>5, <2>6
  <2> QED BY <2>7 DEF MarkedIffLiveOrGranted
<1> QED BY <1>2, <1>3, <1>4, <1>5

LEMMA StepMarks ==
    ASSUME AllocatedOnly, MInv, [Next]_vars
    PROVE  MInv'
<1> SUFFICES MarkedIffLiveOrGranted'
  BY StepFacts DEF MInv
<1>1. ASSUME NEW args \in MkfsArgs, NEW bad \in IoFaults, Mkfs(args[1], args[2], bad)
      PROVE  MarkedIffLiveOrGranted'
  BY <1>1 DEF Mkfs, MInv, IInv, StructType, MarkedIffLiveOrGranted
<1>2. ASSUME NEW bad \in IoFaults, Mount(bad) PROVE MarkedIffLiveOrGranted'
  BY <1>2, MountMarks DEF MInv
<1>3. ASSUME NEW bad \in IoFaults, Umount(bad) \/ MountFopenFails \/ Crash
      PROVE  MarkedIffLiveOrGranted'
  <2>1. u' = Closed
    BY <1>3 DEF Umount, MountFopenFails, Crash
  <2> QED BY <2>1, ClosedType DEF MarkedIffLiveOrGranted
<1>4. CASE InodeAlloc
  BY <1>4, AllocMarks
<1>5. ASSUME NEW inr \in ReadNumbers, NEW bad \in IoFaults, InodeRead(inr, bad)
      PROVE  MarkedIffLiveOrGranted'
  BY <1>5, ReadKeepsView DEF MInv, MarkedIffLiveOrGranted
<1>6. ASSUME NEW inr \in granted \cup DirectInodes, NEW mode \in Modes, NEW bad \in IoFaults,
             FileCreate(inr, mode, bad)
      PROVE  MarkedIffLiveOrGranted'
  BY <1>6, CreateMarks DEF AllocatedOnly
<1>7. CASE UNCHANGED vars
  BY <1>7 DEF vars, MInv, MarkedIffLiveOrGranted, View
<1>8. {} \in IoFaults
  BY VolumeAssumption
<1> QED BY <1>1, <1>2, <1>3, <1>4, <1>5, <1>6, <1>7, <1>8 DEF Next

\* The inode bitmap stays equal to what it stands for, once a mount has read all sectors:
\* fill_ibm finds every live inode, and from then on, whatever sectors fail, inode_alloc marks
\* what it promises before filev6_create makes it live.
THEOREM BitmapIsAccurate ==
    ASSUME AllocatedOnly PROVE Spec => []MarkedIffLiveOrGranted
<1>1. Init => MInv
  BY InitIInv, ClosedType DEF Init, MInv, MarkedIffLiveOrGranted
<1>2. MInv /\ [Next]_vars => MInv'
  BY StepMarks
<1>3. MInv => MarkedIffLiveOrGranted
  BY DEF MInv
<1> QED BY <1>1, <1>2, <1>3, PTL DEF Spec

-----------------------------------------------------------------------------
(* Where the inode region starts decides which numbers the bitmap holds    *)
(* (mountv6 takes s_inode_start, a sector number, for the least number).   *)

\* If the image can be mounted, its inode region starts at a sector of S.
StartsIn(img, S) ==
    /\ {BOOTBLOCK_SECTOR, SUPERBLOCK_SECTOR} \subseteq DOMAIN img
    /\ Magic(img[BOOTBLOCK_SECTOR]) = BOOTBLOCK_MAGIC_NUM
    => SuperblockAt(img[SUPERBLOCK_SECTOR]).s_inode_start \in S

\* No call but mkfs changes it, since the buffer never holds the first two sectors.
SInv(S) == /\ IInv
           /\ StartsIn(file, S)
           /\ DOMAIN wbuf \cap {BOOTBLOCK_SECTOR, SUPERBLOCK_SECTOR} = {}
           /\ u.mounted => u.s.s_inode_start \in S

LEMMA MkfsStart ==
    ASSUME NEW num_blocks \in Word, NEW num_inodes \in Word, NEW S, 2 \in S,
           NEW full, full = MkfsImage(MkfsSuperblock(num_blocks, num_inodes)),
           NEW done \in SUBSET DOMAIN full, NEW img, img = [n \in done |-> full[n]]
    PROVE  StartsIn(img, S)
<1> DEFINE s == MkfsSuperblock(num_blocks, num_inodes)
<1>1. SUFFICES ASSUME SUPERBLOCK_SECTOR \in done
               PROVE  SuperblockAt(full[SUPERBLOCK_SECTOR]) = s
  BY MkfsSuperblockType DEF StartsIn
<1>2. s \in Superblock
  BY MkfsSuperblockType DEF Superblock
<1>3. full[SUPERBLOCK_SECTOR] = SuperblockSector(s)
  BY <1>1 DEF MkfsImage, BOOTBLOCK_SECTOR, SUPERBLOCK_SECTOR
<1> QED BY <1>2, <1>3, SuperblockRoundTrip

LEMMA StepStart ==
    ASSUME AllocatedOnly, NEW S \in SUBSET {n \in Nat : n >= 2}, 2 \in S, SInv(S), [Next]_vars
    PROVE  SInv(S)'
<1>1. IInv'
  BY StepFacts DEF SInv
<1> DEFINE First == {BOOTBLOCK_SECTOR, SUPERBLOCK_SECTOR}
<1>2. ASSUME file' = file \/ Flush PROVE StartsIn(file', S)
  <2>1. DOMAIN file' = DOMAIN file /\ \A n \in First \cap DOMAIN file : file'[n] = file[n]
    BY <1>2 DEF Flush, View, SInv
  <2> QED BY <2>1 DEF StartsIn, SInv
<1>3. StartsIn(file', S)
  <2>1. CASE file' = file \/ Flush
    BY <1>2, <2>1
  <2>2. ASSUME NEW args \in MkfsArgs, NEW bad \in IoFaults, Mkfs(args[1], args[2], bad)
        PROVE  StartsIn(file', S)
    <3> DEFINE full == MkfsImage(MkfsSuperblock(args[1], args[2]))
               done == {n \in DOMAIN full : \A m \in 0 .. n : m \notin bad}
    <3>1. args[1] \in Word /\ args[2] \in Word
      BY VolumeAssumption
    <3>2. file' = file \/ file' = [n \in done |-> full[n]]
      BY <2>2 DEF Mkfs
    <3>3. done \in SUBSET DOMAIN full
      OBVIOUS
    <3> HIDE DEF done
    <3>4. CASE file' = [n \in done |-> full[n]]
      BY <3>1, <3>3, <3>4, MkfsStart
    <3> QED BY <1>2, <3>2, <3>4
  <2>3. \/ file' = file \/ Flush
        \/ \E args \in MkfsArgs, bad \in IoFaults : Mkfs(args[1], args[2], bad)
    BY DEF Next, vars, Mount, Umount, MountFopenFails, InodeAlloc, InodeRead, FileCreate, Crash
  <2> QED BY <2>1, <2>2, <2>3
<1>4. u'.mounted => u'.s.s_inode_start \in S
  <2>1. ASSUME NEW bad \in IoFaults, Mount(bad), u'.mounted
        PROVE  u'.s.s_inode_start \in S
    <3> DEFINE img == Visible(file, bad)
    <3>1. u' = mount_result(img) /\ IsImage(file)
      BY <2>1 DEF Mount, SInv, IInv, FileType
    <3>2. \A n \in DOMAIN img : n \in DOMAIN file /\ img[n] = file[n] /\ img[n] \in Sector
      BY <3>1, SeenType
    <3> HIDE DEF img
    <3>3. /\ u'.s = SuperblockAt(img[SUPERBLOCK_SECTOR])
          /\ First \subseteq DOMAIN img
          /\ Magic(img[BOOTBLOCK_SECTOR]) = BOOTBLOCK_MAGIC_NUM
      BY <2>1, <3>1, <3>2, MountResultType
    <3> QED BY <3>2, <3>3 DEF SInv, StartsIn
  <2>2. \/ u'.mounted = u.mounted /\ u'.s = u.s
        \/ u' = Closed
        \/ \E bad \in IoFaults : Mount(bad)
    <3>1. InodeAlloc => u'.mounted = u.mounted /\ u'.s = u.s
      BY DEF InodeAlloc, SInv, IInv, StructType
    <3> QED BY <3>1 DEF Next, vars, Mkfs, Umount, MountFopenFails, InodeRead, FileCreate, Crash
  <2>3. ~Closed.mounted
    BY ClosedType
  <2> QED BY <2>1, <2>2, <2>3 DEF SInv
<1>5. DOMAIN wbuf' \cap First = {}
  <2>1. wbuf' = Nothing \/ wbuf' = wbuf \/ u'.mounted
    BY DEF Next, vars, Mkfs, Mount, Umount, MountFopenFails, InodeAlloc, InodeRead, FileCreate, Crash
  <2>2. CASE u'.mounted
    <3>1. /\ DOMAIN wbuf' \subseteq InodeRegionOf(u'.s) /\ u'.s.s_isize \in Nat
          /\ u'.s.s_inode_start \in Nat /\ u'.s.s_inode_start >= 2
      BY <1>1, <1>4, <2>2, WordFacts DEF IInv, Buffered, StructType, Superblock
    <3> QED BY <3>1 DEF InodeRegionOf, BOOTBLOCK_SECTOR, SUPERBLOCK_SECTOR
  <2> QED BY <2>1, <2>2, EmptyBuffer DEF SInv
<1> QED BY <1>1, <1>3, <1>4, <1>5 DEF SInv

\* The number that inode_alloc returns is new, and it is a number of the region.
LEMMA AllocIsFresh ==
    ASSUME MInv, InodeAlloc, last'.ret # ERR_NOMEM, missed = {}, u.s.s_inode_start >= 2
    PROVE  Fresh(last'.ret)
<1> DEFINE next == LeastFree(u.ibm)
<1>1. last'.ret = next
  BY DEF InodeAlloc, Ret
<1>2. next >= 0
  BY <1>1 DEF InodeAlloc, Ret
<1>3. /\ IsPool(u.ibm) /\ u.mounted /\ u.s \in Superblock
      /\ u.ibm.min = u.s.s_inode_start /\ u.ibm.max = u.s.s_isize * INODES_PER_SECTOR - 1
  BY DEF MInv, IInv, StructType, InodeAlloc
<1>4. next \in u.ibm.min .. u.ibm.max /\ next \notin u.ibm.used
  BY <1>2, <1>3, LeastFreeType
<1>5. u.ibm.used = {inr \in LiveInodes(View, u.s) : Holds(u.ibm, inr)} \cup granted
  BY <1>3 DEF MInv, MarkedIffLiveOrGranted
<1> HIDE DEF next
<1>6. next \notin granted /\ next \notin LiveInodes(View, u.s)
  BY <1>4, <1>5 DEF Holds
<1>7. next \in Nat /\ next >= 2 /\ next \in RegionInodes(u.s)
  <2>1. u.s.s_inode_start \in Nat /\ u.s.s_isize \in Nat
    BY <1>3, WordFacts DEF Superblock
  <2>2. u.s.s_isize * INODES_PER_SECTOR \in Nat
    BY <2>1, PerSector
  <2> QED BY <1>3, <1>4, <2>1, <2>2 DEF RegionInodes
<1> QED BY <1>1, <1>6, <1>7 DEF Fresh, ROOT_INUMBER

LEMMA OnlyAllocAllocs ==
    ASSUME [Next]_vars, last'.op = "alloc"
    PROVE  InodeAlloc \/ UNCHANGED vars
<1>1. \A num_blocks, num_inodes, bad : ~Mkfs(num_blocks, num_inodes, bad)
  BY DEF Mkfs, Ret
<1>2. \A bad : ~Mount(bad) /\ ~Umount(bad)
  BY DEF Mount, Umount, Ret
<1>3. ~MountFopenFails /\ ~Crash
  BY DEF MountFopenFails, Crash, Ret
<1>4. \A inr, bad : ~InodeRead(inr, bad)
  BY DEF InodeRead, Ret
<1>5. \A inr, mode, bad : ~FileCreate(inr, mode, bad)
  <2> SUFFICES ASSUME NEW inr, NEW mode, NEW bad, FileCreate(inr, mode, bad) PROVE FALSE
    OBVIOUS
  <2>1. \E ret : Ret("create", inr, ret)
    BY Zenon DEF FileCreate
  <2> QED BY <2>1 DEF Ret
<1> QED BY <1>1, <1>2, <1>3, <1>4, <1>5 DEF Next

\* inode_alloc never promises a number twice, nor that of a live inode, nor 0 or the root,
\* after a mount that has read all sectors, whatever fails later, on disks whose inode region starts at sector 2 or later, as mkfs makes them.
THEOREM AllocationIsFresh ==
    ASSUME AllocatedOnly, \A img \in InitImages : StartsIn(img, {n \in Nat : n >= 2})
    PROVE  Spec => AllocFresh
<1> DEFINE S == {n \in Nat : n >= 2}
           IsFresh == last'.op = "alloc" /\ last'.ret # ERR_NOMEM /\ missed = {} => Fresh(last'.ret)
<1>1. Init => MInv /\ SInv(S)
  <2> SUFFICES ASSUME Init PROVE MInv /\ SInv(S)
    OBVIOUS
  <2>1. IInv /\ StartsIn(file, S) /\ ~u.mounted /\ wbuf = Nothing
    BY InitIInv, ClosedType DEF Init
  <2> HIDE DEF S
  <2> QED BY <2>1, EmptyBuffer DEF MInv, SInv, MarkedIffLiveOrGranted
<1>2. MInv /\ [Next]_vars => MInv'
  BY StepMarks
<1>3. SInv(S) /\ [Next]_vars => SInv(S)'
  BY StepStart
<1>4. MInv /\ SInv(S) /\ [Next]_vars => [IsFresh]_vars
  <2> SUFFICES ASSUME MInv, SInv(S), [Next]_vars, ~UNCHANGED vars,
                      last'.op = "alloc", last'.ret # ERR_NOMEM, missed = {}
               PROVE  Fresh(last'.ret)
    BY DEF vars
  <2>1. InodeAlloc
    BY OnlyAllocAllocs
  <2>2. u.s.s_inode_start >= 2
    BY <2>1 DEF InodeAlloc, SInv
  <2> QED BY <2>1, <2>2, AllocIsFresh
<1> HIDE DEF S, IsFresh
<1>5. Spec => [][IsFresh]_vars
  BY <1>1, <1>2, <1>3, <1>4, PTL DEF Spec
<1> QED BY <1>5 DEF AllocFresh, IsFresh

\* inode_alloc reports that there is no free inode only when the region is full, on disks
\* whose inode region starts at sector 2; on others the bitmap leaves out the numbers below it.
THEOREM NoMemOnlyWhenFull ==
    ASSUME AllocatedOnly, \A img \in InitImages : StartsIn(img, {2})
    PROVE  Spec => []NoMemMeansFull
<1> DEFINE Inv == MInv /\ SInv({2}) /\ NoMemMeansFull
<1>1. Init => Inv
  BY InitIInv, ClosedType, EmptyBuffer DEF Init, MInv, SInv, MarkedIffLiveOrGranted, NoMemMeansFull
<1>2. Inv /\ [Next]_vars => Inv'
  <2> SUFFICES ASSUME Inv, [Next]_vars PROVE Inv'
    OBVIOUS
  <2>1. MInv'
    BY StepMarks
  <2>2. SInv({2})'
    BY StepStart
  <2>3. NoMemMeansFull'
    <3> SUFFICES ASSUME last'.op = "alloc", last'.ret = ERR_NOMEM, missed' = {}
                 PROVE  RegionInodes(u'.s) \ {0, ROOT_INUMBER}
                          \subseteq LiveInodes(View', u'.s) \cup granted'
      BY DEF NoMemMeansFull
    <3>1. CASE UNCHANGED vars
      BY <3>1 DEF vars, NoMemMeansFull, View
    <3>2. CASE InodeAlloc
      <4> DEFINE next == LeastFree(u.ibm)
      <4>1. /\ IsPool(u.ibm) /\ u.mounted /\ u.s \in Superblock /\ u.s.s_inode_start = 2
            /\ u.ibm.min = u.s.s_inode_start /\ u.ibm.max = u.s.s_isize * INODES_PER_SECTOR - 1
        BY <3>2 DEF MInv, IInv, SInv, StructType, InodeAlloc
      <4>2. UNCHANGED <<file, wbuf, missed>> /\ \/ UNCHANGED <<u, granted>> /\ next < 0
                                                \/ next >= 0 /\ last'.ret = next
        BY <3>2 DEF InodeAlloc, Ret
      <4>3. next < 0 /\ UNCHANGED <<u, granted, file, wbuf, missed>>
        BY <4>2 DEF ERR_NOMEM
      <4>4. Free(u.ibm) = {}
        <5>1. Free(u.ibm) \in SUBSET Nat
          BY <4>1 DEF Free, IsPool
        <5> QED BY <4>3, <5>1, MinOfNaturals DEF LeastFree
      <4>5. RegionInodes(u.s) \ {0, ROOT_INUMBER} \subseteq u.ibm.min .. u.ibm.max
        <5>1. u.s.s_isize \in Nat
          BY <4>1, WordFacts DEF Superblock
        <5>2. u.s.s_isize * INODES_PER_SECTOR \in Nat
          BY <5>1, PerSector
        <5> QED BY <4>1, <5>2 DEF RegionInodes, ROOT_INUMBER
      <4>6. u.ibm.used = {inr \in LiveInodes(View, u.s) : Holds(u.ibm, inr)} \cup granted
        BY <4>1, <4>3 DEF MInv, MarkedIffLiveOrGranted
      <4>7. RegionInodes(u.s) \ {0, ROOT_INUMBER} \subseteq LiveInodes(View, u.s) \cup granted
        BY <4>4, <4>5, <4>6 DEF Free
      <4> QED BY <4>3, <4>7 DEF View
    <3> QED BY <3>1, <3>2, OnlyAllocAllocs
  <2> QED BY <2>1, <2>2, <2>3
<1>3. Inv => NoMemMeansFull
  OBVIOUS
<1> HIDE DEF Inv
<1> QED BY <1>1, <1>2, <1>3, PTL DEF Spec

-----------------------------------------------------------------------------
(* The volume is a table of inodes.                                        *)

First == {BOOTBLOCK_SECTOR, SUPERBLOCK_SECTOR}

\* On a disk that can be mounted, the sector behind the inode region, which the range test of
\* inode.c lets through, does not look as if an inode were allocated in it.
BehindIsFree(img) ==
    mount_error(img) = 0 => \A inr \in Nat \ RegionInodes(MountedSuper(img)) :
                                inode_read(img, MountedSuper(img), inr) # 0

\* What is in the buffer is of the mounted disk, and the superblock in memory is the disk's.
OfMountedDisk == /\ DOMAIN wbuf # {} => u.mounted
                 /\ u.mounted => mount_error(file) = 0 /\ u.s = MountedSuper(file)

DInv == SInv({n \in Nat : n >= 2}) /\ OfMountedDisk
RInv == DInv /\ BehindIsFree(file)

LEMMA MountableHasFirst ==
    ASSUME NEW img, mount_error(img) = 0
    PROVE  /\ First \subseteq DOMAIN img /\ Magic(img[BOOTBLOCK_SECTOR]) = BOOTBLOCK_MAGIC_NUM
           /\ NewIbm(MountedSuper(img)) # NoPool
  BY DEF mount_error, ERR_IO, ERR_BADBOOTSECTOR, First, MountedSuper

\* mountv6 decides by the first two sectors.
LEMMA MountReadsFirst ==
    ASSUME NEW img, NEW new, First \cap DOMAIN new = First \cap DOMAIN img,
           \A n \in First \cap DOMAIN img : new[n] = img[n]
    PROVE  /\ mount_error(new) = mount_error(img)
           /\ mount_error(img) = 0 => MountedSuper(new) = MountedSuper(img)
<1>1. /\ BOOTBLOCK_SECTOR \in DOMAIN new <=> BOOTBLOCK_SECTOR \in DOMAIN img
      /\ SUPERBLOCK_SECTOR \in DOMAIN new <=> SUPERBLOCK_SECTOR \in DOMAIN img
      /\ BOOTBLOCK_SECTOR \in DOMAIN img => new[BOOTBLOCK_SECTOR] = img[BOOTBLOCK_SECTOR]
      /\ SUPERBLOCK_SECTOR \in DOMAIN img => new[SUPERBLOCK_SECTOR] = img[SUPERBLOCK_SECTOR]
  BY DEF First
<1>2. mount_error(new) = mount_error(img)
  BY <1>1, Zenon DEF mount_error
<1>3. mount_error(img) = 0 => SUPERBLOCK_SECTOR \in DOMAIN img
  BY MountableHasFirst DEF First
<1> QED BY <1>1, <1>2, <1>3 DEF MountedSuper

\* A flush, or no change of the file, leaves alone what is not in the inode region.
LEMMA FlushKeepsTheRest ==
    ASSUME SInv({n \in Nat : n >= 2}), file' = file \/ file' = View
    PROVE  /\ DOMAIN file' = DOMAIN file /\ IsImage(file')
           /\ \A n \in DOMAIN file : n \in First \/ n \notin InodeRegionOf(u.s) => file'[n] = file[n]
           /\ DOMAIN wbuf = {} => file' = file /\ View = file
<1>1. IsImage(file) /\ IsImage(View) /\ DOMAIN View = DOMAIN file
  BY TypeFromIInv, ViewType DEF SInv, IInv, FileType
<1>2. \A n \in DOMAIN file : n \in First \/ n \notin InodeRegionOf(u.s) => View[n] = file[n]
  BY DEF View, SInv, IInv, Buffered, First
<1>3. DOMAIN wbuf = {} => View = file
  BY <1>1 DEF View, IsImage
<1> QED BY <1>1, <1>2, <1>3

LEMMA RestKeepsBehind ==
    ASSUME NEW img, IsImage(img), NEW new, DOMAIN new = DOMAIN img, BehindIsFree(img),
           \A n \in DOMAIN img : n \in First => new[n] = img[n],
           mount_error(img) = 0 =>
              \A n \in DOMAIN img : n \notin InodeRegionOf(MountedSuper(img)) => new[n] = img[n]
    PROVE  BehindIsFree(new)
<1> DEFINE s == MountedSuper(img)
<1>1. mount_error(new) = mount_error(img) /\ (mount_error(img) = 0 => MountedSuper(new) = s)
  BY MountReadsFirst
<1>2. SUFFICES ASSUME mount_error(img) = 0, NEW inr \in Nat \ RegionInodes(s)
               PROVE  inode_read(new, s, inr) = inode_read(img, s, inr)
  BY <1>1 DEF BehindIsFree
<1>3. s \in Superblock
  <2>1. SUPERBLOCK_SECTOR \in DOMAIN img
    BY <1>2, MountableHasFirst DEF First
  <2> QED BY <2>1, ImageIsPrefix, SuperblockType DEF MountedSuper, Superblock
<1>4. InodeSector(s, inr) \notin InodeRegionOf(s)
  BY <1>3, BehindRegion
<1>5. InodeSector(s, inr) \in DOMAIN img => InodeNo(new, s, inr) = InodeNo(img, s, inr)
  BY <1>2, <1>4 DEF InodeNo
<1> QED BY <1>5, Zenon DEF inode_read

\* What mkfs writes, as far as it gets, is such a disk.
LEMMA MkfsSuper ==
    ASSUME NEW num_blocks \in Word, NEW num_inodes \in Word,
           NEW s, s = MkfsSuperblock(num_blocks, num_inodes),
           NEW done \in SUBSET DOMAIN MkfsImage(s), NEW img, img = [n \in done |-> MkfsImage(s)[n]],
           SUPERBLOCK_SECTOR \in done
    PROVE  MountedSuper(img) = s
<1>1. s \in Superblock
  BY MkfsSuperblockType DEF Superblock
<1>2. MkfsImage(s)[SUPERBLOCK_SECTOR] = SuperblockSector(s)
  BY DEF MkfsImage, BOOTBLOCK_SECTOR, SUPERBLOCK_SECTOR
<1> QED BY <1>1, <1>2, SuperblockRoundTrip DEF MountedSuper

LEMMA MkfsBehindIsFree ==
    ASSUME NEW num_blocks \in Word, NEW num_inodes \in Word,
           NEW s, s = MkfsSuperblock(num_blocks, num_inodes),
           NEW done \in SUBSET DOMAIN MkfsImage(s), NEW img, img = [n \in done |-> MkfsImage(s)[n]]
    PROVE  BehindIsFree(img)
<1>1. SUFFICES ASSUME mount_error(img) = 0, NEW inr \in Nat \ RegionInodes(MountedSuper(img))
               PROVE  inode_read(img, MountedSuper(img), inr) # 0
  BY DEF BehindIsFree
<1>2. SUPERBLOCK_SECTOR \in done /\ NewIbm(MountedSuper(img)) # NoPool
  BY <1>1, MountableHasFirst DEF First
<1>3. MountedSuper(img) = s
  BY <1>2, MkfsSuper
<1>4. s \in Superblock /\ s.s_inode_start = 2 /\ s.s_isize \in Nat
  <2>1. s \in Superblock /\ s.s_inode_start = 2
    BY MkfsSuperblockType DEF Superblock
  <2> QED BY <2>1, WordFacts DEF Superblock
<1>5. s.s_isize >= 1
  <2>1. ASSUME s.s_isize = 0 PROVE NewIbm(s) = NoPool
    <3>1. s.s_isize * INODES_PER_SECTOR - 1 = -1
      BY <2>1, PerSector
    <3> QED BY <1>4, <3>1 DEF NewIbm, NewPool
  <2> QED BY <1>2, <1>3, <1>4, <2>1
<1>6. InodeSector(s, inr) \in Nat /\ InodeSector(s, inr) >= 3
  BY <1>1, <1>3, <1>4, <1>5, BehindRegion
<1> DEFINE n == InodeSector(s, inr)
           j == inr % INODES_PER_SECTOR
<1>7. ASSUME n \in done PROVE ~Allocated(InodeNo(img, s, inr))
  <2>1. img[n] = ZeroSector
    BY <1>6, <1>7 DEF MkfsImage, BOOTBLOCK_SECTOR, SUPERBLOCK_SECTOR
  <2>2. j \in 0 .. INODES_PER_SECTOR - 1
    BY PerSector, DivModFacts
  <2>3. j * INODE_WORDS \in Words
    <3>1. 0 \in 0 .. INODE_WORDS - 1 /\ j * INODE_WORDS + 0 = j * INODE_WORDS
      BY <2>2, LayoutFacts, PerSector
    <3> QED BY <2>2, <3>1, InodeInSector
  <2> HIDE DEF n, j
  <2>4. InodeAt(ZeroSector, j).i_mode = 0
    BY <2>3 DEF InodeAt, ZeroSector
  <2>5. InodeNo(img, s, inr).i_mode = 0
    BY <2>1, <2>4 DEF InodeNo, n, j
  <2> QED BY <2>5 DEF Allocated, IALLOC
<1> HIDE DEF n, j
<1>8. n \in DOMAIN img => n \in done
  OBVIOUS
<1> QED BY <1>3, <1>7, <1>8 DEF inode_read, n, ERR_INODE_OUTOF_RANGE, ERR_IO, ERR_UNALLOCATED_INODE

LEMMA FileStepFacts ==
    ASSUME SInv({n \in Nat : n >= 2}), [Next]_vars
    PROVE  \/ file' = file \/ file' = View
           \/ /\ DOMAIN wbuf = {} /\ wbuf' = wbuf /\ u' = u /\ ~u.mounted
              /\ \E num_blocks, num_inodes \in Word :
                   \E done \in SUBSET DOMAIN MkfsImage(MkfsSuperblock(num_blocks, num_inodes)) :
                      file' = [n \in done |-> MkfsImage(MkfsSuperblock(num_blocks, num_inodes))[n]]
<1>1. ASSUME NEW args \in MkfsArgs, NEW bad \in IoFaults, Mkfs(args[1], args[2], bad), file' # file
      PROVE  /\ DOMAIN wbuf = {} /\ wbuf' = wbuf /\ u' = u /\ ~u.mounted
             /\ \E num_blocks, num_inodes \in Word :
                  \E done \in SUBSET DOMAIN MkfsImage(MkfsSuperblock(num_blocks, num_inodes)) :
                     file' = [n \in done |-> MkfsImage(MkfsSuperblock(num_blocks, num_inodes))[n]]
  <2> DEFINE full == MkfsImage(MkfsSuperblock(args[1], args[2]))
             done == {n \in DOMAIN full : \A m \in 0 .. n : m \notin bad}
  <2>1. args[1] \in Word /\ args[2] \in Word
    BY VolumeAssumption
  <2>2. file' = [n \in done |-> full[n]] /\ done \in SUBSET DOMAIN full
    BY <1>1 DEF Mkfs
  <2>3. ~u.open /\ wbuf' = wbuf /\ u' = u
    BY <1>1 DEF Mkfs
  <2>4. DOMAIN wbuf = {} /\ ~u.mounted
    BY <2>3, EmptyBuffer DEF SInv, IInv, Buffered, StructType
  <2> HIDE DEF done
  <2> QED BY <2>1, <2>2, <2>3, <2>4
<1>2. \/ file' = file \/ file' = View
      \/ \E args \in MkfsArgs, bad \in IoFaults : Mkfs(args[1], args[2], bad)
  BY DEF Next, vars, Mount, Umount, MountFopenFails, InodeAlloc, InodeRead, FileCreate, Crash, Flush
<1> QED BY <1>1, <1>2

LEMMA StepKeepsBehind ==
    ASSUME RInv, [Next]_vars
    PROVE  BehindIsFree(file')
<1>1. ASSUME file' = file \/ file' = View
      PROVE  BehindIsFree(file')
  <2>1. /\ DOMAIN file' = DOMAIN file /\ IsImage(file)
        /\ \A n \in DOMAIN file : n \in First \/ n \notin InodeRegionOf(u.s) => file'[n] = file[n]
        /\ DOMAIN wbuf = {} => file' = file
    BY <1>1, FlushKeepsTheRest DEF RInv, DInv, SInv, IInv, FileType
  <2>2. file' = file \/ u.s = MountedSuper(file)
    BY <2>1 DEF RInv, DInv, OfMountedDisk
  <2> QED BY <2>1, <2>2, RestKeepsBehind DEF RInv, DInv
<1> QED BY <1>1, FileStepFacts, MkfsBehindIsFree DEF RInv, DInv

LEMMA StepKeepsMounted ==
    ASSUME DInv, [Next]_vars
    PROVE  OfMountedDisk'
<1>1. DOMAIN wbuf' # {} => u'.mounted
  <2>1. \/ wbuf' = Nothing
        \/ wbuf' = wbuf /\ u'.mounted = u.mounted
        \/ wbuf' = wbuf /\ ~u.open
        \/ u' = u /\ u.mounted
    <3>1. InodeAlloc => wbuf' = wbuf /\ u'.mounted = u.mounted
      BY DEF InodeAlloc, DInv, SInv, IInv, StructType
    <3> QED BY <3>1 DEF Next, vars, Mkfs, Mount, Umount, MountFopenFails, InodeRead, FileCreate, Crash
  <2>2. ~u.open => DOMAIN wbuf = {}
    BY EmptyBuffer DEF DInv, SInv, IInv, Buffered
  <2> QED BY <2>1, <2>2, EmptyBuffer DEF DInv, OfMountedDisk
<1>2. ASSUME u'.mounted PROVE mount_error(file') = 0 /\ u'.s = MountedSuper(file')
  <2>1. CASE u.mounted /\ u'.mounted = u.mounted /\ u'.s = u.s
    <3>1. file' = file \/ file' = View
      BY <2>1, FileStepFacts DEF DInv
    <3>2. DOMAIN file' = DOMAIN file /\ \A n \in DOMAIN file : n \in First => file'[n] = file[n]
      BY <3>1, FlushKeepsTheRest DEF DInv
    <3>3. mount_error(file) = 0 /\ u.s = MountedSuper(file)
      BY <2>1 DEF DInv, OfMountedDisk
    <3> QED BY <2>1, <3>2, <3>3, MountReadsFirst
  <2>2. ASSUME NEW bad \in IoFaults, Mount(bad)
        PROVE  mount_error(file') = 0 /\ u'.s = MountedSuper(file')
    <3> DEFINE img == Visible(file, bad)
    <3>1. u' = mount_result(img) /\ file' = file /\ IsImage(file)
      BY <2>2 DEF Mount, DInv, SInv, IInv, FileType
    <3>2. \A n \in DOMAIN img : n \in DOMAIN file /\ img[n] = file[n] /\ img[n] \in Sector
      BY <3>1, SeenType
    <3> HIDE DEF img
    <3>3. mount_error(img) = 0 /\ u'.s = MountedSuper(img)
      <4>1. u'.s = SuperblockAt(img[SUPERBLOCK_SECTOR])
        BY <1>2, <3>1, <3>2, MountResultType
      <4>2. u'.mounted = (mount_error(img) = 0)
        BY <3>1 DEF mount_result
      <4> QED BY <1>2, <4>1, <4>2 DEF MountedSuper
    <3>4. First \subseteq DOMAIN img
      BY <3>3, MountableHasFirst
    <3>5. First \cap DOMAIN file = First \cap DOMAIN img
      BY <3>2, <3>4
    <3>6. mount_error(file) = 0 /\ MountedSuper(file) = MountedSuper(img)
      BY <3>2, <3>3, <3>5, MountReadsFirst
    <3> QED BY <3>1, <3>3, <3>6
  <2>3. \/ u'.mounted = u.mounted /\ u'.s = u.s
        \/ u' = Closed
        \/ \E bad \in IoFaults : Mount(bad)
    <3>1. InodeAlloc => u'.mounted = u.mounted /\ u'.s = u.s
      BY DEF InodeAlloc, DInv, SInv, IInv, StructType
    <3> QED BY <3>1 DEF Next, vars, Mkfs, Umount, MountFopenFails, InodeRead, FileCreate, Crash
  <2> QED BY <1>2, <2>1, <2>2, <2>3, ClosedType
<1> QED BY <1>1, <1>2 DEF OfMountedDisk

LEMMA StepKeepsDInv ==
    ASSUME AllocatedOnly, DInv, [Next]_vars
    PROVE  DInv'
<1> DEFINE S == {n \in Nat : n >= 2}
<1>1. S \in SUBSET {n \in Nat : n >= 2} /\ 2 \in S
  OBVIOUS
<1>2. SInv(S)'
  <2> HIDE DEF S
  <2> QED BY <1>1, StepStart DEF DInv, S
<1> QED BY <1>2, StepKeepsMounted DEF DInv

LEMMA StepKeepsRInv ==
    ASSUME AllocatedOnly, RInv, [Next]_vars
    PROVE  RInv'
  BY StepKeepsDInv, StepKeepsBehind DEF RInv, DInv

-----------------------------------------------------------------------------

\* The table of a mounted disk.
LEMMA MountedTable ==
    ASSUME DInv, u.mounted
    PROVE  /\ IsImage(View) /\ u.s \in Superblock
           /\ InodesOf(View) = [inr \in {i \in RegionInodes(u.s) : InodeSector(u.s, i) \in DOMAIN View}
                                   |-> InodeNo(View, u.s, inr)]
           /\ SUPERBLOCK_SECTOR \in DOMAIN View /\ u.s = SuperblockAt(View[SUPERBLOCK_SECTOR])
<1>1. IsImage(View) /\ DOMAIN View = DOMAIN file
  BY TypeFromIInv, ViewType DEF DInv, SInv
<1>2. mount_error(file) = 0 /\ u.s = MountedSuper(file)
  BY DEF DInv, OfMountedDisk
<1>3. SUPERBLOCK_SECTOR \in DOMAIN View
  BY <1>1, <1>2, MountableHasFirst DEF First
<1>4. View[SUPERBLOCK_SECTOR] = file[SUPERBLOCK_SECTOR]
  BY <1>1, <1>3 DEF View, DInv, SInv
<1>5. u.s = SuperblockAt(View[SUPERBLOCK_SECTOR])
  BY <1>2, <1>4 DEF MountedSuper
<1>6. u.s \in Superblock
  BY DEF DInv, SInv, IInv, StructType
<1> QED BY <1>1, <1>3, <1>5, <1>6, Zenon DEF InodesOf

LEMMA ReadIsOfTable ==
    ASSUME RInv, u.mounted, NEW inr \in Nat, NEW bad, NEW ret,
           ret = inode_read(Visible(View, bad), u.s, inr)
    PROVE  /\ ret = 0 => inr \in DOMAIN InodesOf(View) /\ Allocated(InodesOf(View)[inr])
           /\ ret = ERR_UNALLOCATED_INODE
                 => ~(inr \in DOMAIN InodesOf(View) /\ Allocated(InodesOf(View)[inr]))
<1> DEFINE disk == Visible(View, bad)
           n == InodeSector(u.s, inr)
           reg == {i \in RegionInodes(u.s) : InodeSector(u.s, i) \in DOMAIN View}
<1>1. /\ IsImage(View)
      /\ InodesOf(View) = [i \in reg |-> InodeNo(View, u.s, i)]
  BY MountedTable DEF RInv
<1>2. n \in DOMAIN disk => n \in DOMAIN View /\ InodeNo(disk, u.s, inr) = InodeNo(View, u.s, inr)
  BY <1>1, VisibleFacts DEF InodeNo
<1>3. /\ ret = 0 => n \in DOMAIN disk /\ Allocated(InodeNo(disk, u.s, inr)) /\ ~OutOfInodes(u.s, inr)
      /\ ret = ERR_UNALLOCATED_INODE => n \in DOMAIN disk /\ ~Allocated(InodeNo(disk, u.s, inr))
  <2>1. ret = inode_read(disk, u.s, inr)
    OBVIOUS
  <2> HIDE DEF disk
  <2> QED BY <2>1 DEF inode_read, ERR_INODE_OUTOF_RANGE, ERR_IO, ERR_UNALLOCATED_INODE
<1>4. BehindIsFree(View)
  <2>1. BehindIsFree(file) /\ IsImage(file) /\ DOMAIN View = DOMAIN file
    BY TypeFromIInv, ViewType DEF RInv, DInv, SInv, IInv, FileType
  <2>2. \A m \in DOMAIN file : m \in First \/ m \notin InodeRegionOf(u.s) => View[m] = file[m]
    BY DEF View, RInv, DInv, SInv, IInv, Buffered, First
  <2>3. u.s = MountedSuper(file)
    BY DEF RInv, DInv, OfMountedDisk
  <2> QED BY <2>1, <2>2, <2>3, RestKeepsBehind
<1>5. mount_error(View) = 0 /\ MountedSuper(View) = u.s
  <2>1. mount_error(file) = 0 /\ u.s = MountedSuper(file)
    BY DEF RInv, DInv, OfMountedDisk
  <2>2. DOMAIN View = DOMAIN file /\ \A m \in First \cap DOMAIN file : View[m] = file[m]
    BY DEF View, RInv, DInv, SInv, First
  <2> QED BY <2>1, <2>2, MountReadsFirst
<1>6. ret = 0 => inr \in RegionInodes(u.s)
  <2> SUFFICES ASSUME ret = 0, inr \notin RegionInodes(u.s) PROVE FALSE
    OBVIOUS
  <2>1. inode_read(View, u.s, inr) = 0
    <3> HIDE DEF n, disk
    <3> QED BY <1>2, <1>3 DEF inode_read, n
  <2> QED BY <1>4, <1>5, <2>1 DEF BehindIsFree
<1> HIDE DEF n, disk
<1>7. inr \in reg <=> inr \in RegionInodes(u.s) /\ n \in DOMAIN View
  BY DEF n
<1> HIDE DEF reg
<1> QED BY <1>1, <1>2, <1>3, <1>6, <1>7

LEMMA CreateChangesTable ==
    ASSUME DInv, u.mounted, UNCHANGED u, NEW inr \in RegionInodes(u.s), NEW mode \in Modes,
           NEW n, n = InodeSector(u.s, inr), n \in DOMAIN View,
           file' = View, wbuf' = [m \in {n} |-> PutNewInode(View[n], inr % INODES_PER_SECTOR, mode)]
    PROVE  /\ inr \in DOMAIN InodesOf(View)
           /\ InodesOf(View') = [InodesOf(View) EXCEPT ![inr] = NewInode(mode)]
<1> DEFINE new == PutNewInode(View[n], inr % INODES_PER_SECTOR, mode)
           reg == {i \in RegionInodes(u.s) : InodeSector(u.s, i) \in DOMAIN View}
<1>0. mode \in Word
  BY VolumeAssumption
<1>1. /\ IsImage(View) /\ u.s \in Superblock
      /\ InodesOf(View) = [i \in reg |-> InodeNo(View, u.s, i)]
      /\ SUPERBLOCK_SECTOR \in DOMAIN View /\ u.s = SuperblockAt(View[SUPERBLOCK_SECTOR])
  BY MountedTable
<1>2. /\ DOMAIN View' = DOMAIN View /\ View'[n] = new
      /\ \A m \in DOMAIN View : m # n => View'[m] = View[m]
  <2> HIDE DEF new
  <2> QED BY CreatedView DEF new
<1>3. /\ InodeNo(View', u.s, inr) = [i_mode |-> mode, i_size |-> 0,
                                     i_addr |-> [a \in 0 .. ADDR_SMALL_LENGTH - 1 |-> 0]]
      /\ \A k \in RegionInodes(u.s) : k # inr /\ InodeSector(u.s, k) \in DOMAIN View
            => InodeNo(View', u.s, k) = InodeNo(View, u.s, k)
  BY <1>0, <1>1, <1>2, OneInodeChanges
<1>4. NewInode(mode) = [i_mode |-> mode, i_size |-> 0,
                        i_addr |-> [a \in 0 .. ADDR_SMALL_LENGTH - 1 |-> 0]]
  <2>1. 0 \in 0 .. INODES_PER_SECTOR - 1
    BY PerSector
  <2> QED BY <1>0, <2>1, ZeroSectorType, PutNewInodeFrame DEF NewInode
<1>5. n # SUPERBLOCK_SECTOR
  <2>1. n \in InodeRegionOf(u.s) /\ u.s.s_inode_start >= 2 /\ u.s.s_inode_start \in Nat /\ u.s.s_isize \in Nat
    BY <1>1, InRegion, WordFacts DEF DInv, SInv, Superblock
  <2> QED BY <2>1 DEF InodeRegionOf, SUPERBLOCK_SECTOR
<1>6. InodesOf(View') = [i \in reg |-> InodeNo(View', u.s, i)]
  <2>1. SUPERBLOCK_SECTOR \in DOMAIN View' /\ u.s = SuperblockAt(View'[SUPERBLOCK_SECTOR])
    BY <1>1, <1>2, <1>5
  <2>2. InodesOf(View') = [inr_1 \in {i \in RegionInodes(u.s) : InodeSector(u.s, i) \in DOMAIN View'}
                                   |-> InodeNo(View', u.s, inr_1)]
    BY <2>1, Zenon DEF InodesOf
  <2> QED BY <1>2, <2>2
<1>7. inr \in reg
  OBVIOUS
<1>8. \A i \in reg : i \in RegionInodes(u.s) /\ InodeSector(u.s, i) \in DOMAIN View
  OBVIOUS
<1>9. \A i \in reg : InodeNo(View', u.s, i) = IF i = inr THEN NewInode(mode)
                                              ELSE InodeNo(View, u.s, i)
  BY <1>3, <1>4, <1>8
<1> HIDE DEF reg
<1> DEFINE Old(i) == InodeNo(View, u.s, i)
           New(i) == InodeNo(View', u.s, i)
<1>10. InodesOf(View) = [i \in reg |-> Old(i)] /\ InodesOf(View') = [i \in reg |-> New(i)]
  BY <1>1, <1>6
<1>11. \A i \in reg : New(i) = IF i = inr THEN NewInode(mode) ELSE Old(i)
  BY <1>9
<1> HIDE DEF Old, New
<1> QED BY <1>7, <1>10, <1>11

LEMMA EmptyMeansStable ==
    ASSUME IsImage(file), DOMAIN wbuf = {}
    PROVE  View = file
  BY DEF View, IsImage

LEMMA CreateRefines ==
    ASSUME RInv, NEW inr \in granted, NEW mode \in Modes, NEW bad, FileCreate(inr, mode, bad)
    PROVE  Store!Next
<1> DEFINE n == InodeSector(u.s, inr)
           new == PutNewInode(View[n], inr % INODES_PER_SECTOR, mode)
<1>1. UNCHANGED u /\ u.mounted /\ last'.op = "create" /\ last'.inr = inr
  <2>1. UNCHANGED u /\ u.mounted /\ \E ret : Ret("create", inr, ret)
    BY Zenon DEF FileCreate
  <2> QED BY <2>1 DEF Ret
<1>2. \/ Flush /\ wbuf' = Nothing /\ last'.ret = ERR_IO
      \/ UNCHANGED <<file, wbuf>> /\ last'.ret \in {ERR_IO, ERR_INODE_OUTOF_RANGE}
      \/ Flush /\ n \in DOMAIN View /\ wbuf' = [m \in {n} |-> new] /\ last'.ret = 0
  BY DEF FileCreate, Ret
<1>3. CASE Flush /\ wbuf' = Nothing /\ last'.ret = ERR_IO
  <2>1. View' = View /\ file' = View
    BY <1>3, TypeFromIInv, FlushKeepsView DEF RInv, DInv, SInv, Flush
  <2> QED BY <1>1, <1>3, <2>1 DEF Store!Next, Store!CreateFails, ERR_IO
<1>4. CASE UNCHANGED <<file, wbuf>> /\ last'.ret \in {ERR_IO, ERR_INODE_OUTOF_RANGE}
  <2>1. View' = View /\ file' = file
    BY <1>4 DEF View
  <2> QED BY <1>1, <1>4, <2>1 DEF Store!Next, Store!CreateFails, ERR_IO, ERR_INODE_OUTOF_RANGE
<1>5. CASE Flush /\ n \in DOMAIN View /\ wbuf' = [m \in {n} |-> new] /\ last'.ret = 0
  <2>1. inr \in RegionInodes(u.s)
    BY DEF RInv, DInv, SInv, IInv, Promised
  <2>2. file' = View
    BY <1>5 DEF Flush
  <2>3. /\ inr \in DOMAIN InodesOf(View)
        /\ InodesOf(View') = [InodesOf(View) EXCEPT ![inr] = NewInode(mode)]
    BY <1>1, <1>5, <2>1, <2>2, CreateChangesTable DEF RInv
  <2>4. NewInode(mode) \in {NewInode(m) : m \in Modes}
    OBVIOUS
  <2> HIDE DEF n, new
  <2>5. Store!Create(inr)
    BY <1>1, <1>5, <2>2, <2>3, <2>4 DEF Store!Create
  <2> QED BY <1>1, <2>5 DEF Store!Next
<1> QED BY <1>2, <1>3, <1>4, <1>5

LEMMA ReadRefines ==
    ASSUME RInv, NEW inr \in Nat, NEW bad, InodeRead(inr, bad)
    PROVE  Store!Next
<1>1. last'.op = "read" /\ last'.inr = inr
  BY DEF InodeRead, Ret
<1>2. \/ Flush /\ wbuf' = Nothing /\ last'.ret = inode_read(Visible(View, bad), u.s, inr)
      \/ UNCHANGED <<file, wbuf>> /\ last'.ret \in {ERR_IO, ERR_INODE_OUTOF_RANGE}
  BY DEF InodeRead, Ret
<1>3. View' = View /\ (file' = View \/ file' = file)
  <2>1. CASE Flush /\ wbuf' = Nothing
    BY <2>1, TypeFromIInv, FlushKeepsView DEF RInv, DInv, SInv, Flush
  <2>2. CASE UNCHANGED <<file, wbuf>>
    BY <2>2 DEF View
  <2> QED BY <1>2, <2>1, <2>2
<1>4. u.mounted => /\ last'.ret = 0 => inr \in DOMAIN InodesOf(View) /\ Allocated(InodesOf(View)[inr])
                   /\ last'.ret = ERR_UNALLOCATED_INODE
                        => ~(inr \in DOMAIN InodesOf(View) /\ Allocated(InodesOf(View)[inr]))
  BY <1>2, ReadIsOfTable DEF ERR_IO, ERR_INODE_OUTOF_RANGE, ERR_UNALLOCATED_INODE
<1>5. Store!Read(inr)
  BY <1>3, <1>4 DEF Store!Read, Store!ERR_UNALLOCATED_INODE, ERR_UNALLOCATED_INODE
<1> QED BY <1>1, <1>5 DEF Store!Next

LEMMA StepRefines ==
    ASSUME AllocatedOnly, RInv, [Next]_vars
    PROVE  [Store!Next]_Store!vars
<1>0. IsImage(file) /\ (~u.open => DOMAIN wbuf = {})
  BY EmptyBuffer DEF RInv, DInv, SInv, IInv, FileType, Buffered
<1>1. ASSUME NEW args \in MkfsArgs, NEW bad \in IoFaults, Mkfs(args[1], args[2], bad)
      PROVE  Store!Next
  <2>1. last'.op = "mkfs" /\ wbuf' = wbuf /\ DOMAIN wbuf = {}
    BY <1>0, <1>1 DEF Mkfs, Ret
  <2>2. IsImage(file')
    BY StepFacts, <1>1 DEF RInv, DInv, SInv, IInv, FileType, Next
  <2>3. View' = file'
    BY <2>1, <2>2 DEF View, IsImage
  <2> QED BY <2>1, <2>3 DEF Store!Next, Store!Format
<1>2. ASSUME NEW bad \in IoFaults, Mount(bad) PROVE Store!Next
  BY <1>2 DEF Mount, Ret, View, Store!Next
<1>3. ASSUME NEW bad \in IoFaults, Umount(bad) PROVE Store!Next
  <2>1. last'.op = "umount" /\ DOMAIN wbuf' = {}
    BY <1>3, EmptyBuffer DEF Umount, Ret
  <2>2. /\ IsImage(file) /\ IsImage(View)
        /\ \/ file' = View /\ last'.ret = 0
           \/ file' = file /\ last'.ret # 0
    BY <1>3, TypeFromIInv, ViewType DEF RInv, DInv, SInv, IInv, FileType, Umount, Ret, Flush, ERR_IO, ERR_BAD_PARAMETER
  <2>3. View' = file'
    BY <2>1, <2>2 DEF View, IsImage
  <2> QED BY <2>1, <2>2, <2>3 DEF Store!Next, Store!Close
<1>4. CASE MountFopenFails \/ InodeAlloc
  <2>1. last'.op \in {"mount", "alloc"} /\ UNCHANGED <<file, wbuf>>
    BY <1>4 DEF MountFopenFails, InodeAlloc, Ret
  <2> QED BY <2>1 DEF View, Store!Next
<1>5. ASSUME NEW inr \in ReadNumbers, NEW bad \in IoFaults, InodeRead(inr, bad)
      PROVE  Store!Next
  <2>1. inr \in Nat
    BY DEF ReadNumbers
  <2> QED BY <1>5, <2>1, ReadRefines
<1>6. ASSUME NEW inr \in granted \cup DirectInodes, NEW mode \in Modes, NEW bad \in IoFaults,
             FileCreate(inr, mode, bad)
      PROVE  Store!Next
  BY <1>6, CreateRefines DEF AllocatedOnly
<1>7. CASE Crash
  <2>1. last'.op = "crash" /\ file' = file /\ DOMAIN wbuf' = {}
    BY <1>7, EmptyBuffer DEF Crash, Ret
  <2>2. View' = file
    BY <1>0, <2>1 DEF View, IsImage
  <2> QED BY <2>1, <2>2 DEF Store!Next, Store!Stop
<1>8. CASE UNCHANGED vars
  BY <1>8 DEF vars, View, Store!vars
<1> QED BY <1>1, <1>2, <1>3, <1>4, <1>5, <1>6, <1>7, <1>8 DEF Next

\* The disk is a table of inodes: whatever sectors fail and whenever the process stops, a create
\* changes one entry, a read tells what the last create wrote, and at most the last create that
\* was acknowledged is lost; on disks whose inode region starts behind the superblock and is not
\* followed by what looks like an allocated inode.
THEOREM VolumeIsInodeStore ==
    ASSUME AllocatedOnly,
           \A img \in InitImages : StartsIn(img, {n \in Nat : n >= 2}) /\ BehindIsFree(img)
    PROVE  Spec => RefinesInodeStore
<1>1. Init => RInv
  <2> SUFFICES ASSUME Init PROVE RInv
    OBVIOUS
  <2>1. IInv /\ StartsIn(file, {n \in Nat : n >= 2}) /\ ~u.mounted /\ wbuf = Nothing
    BY InitIInv, ClosedType DEF Init
  <2> QED BY <2>1, EmptyBuffer DEF RInv, DInv, SInv, OfMountedDisk, Init
<1>2. RInv /\ [Next]_vars => RInv'
  BY StepKeepsRInv
<1>3. Init => Store!Init
  <2> SUFFICES ASSUME Init PROVE Store!Init
    OBVIOUS
  <2>1. View = file
    BY EmptyBuffer, EmptyMeansStable, VolumeAssumption DEF Init
  <2> QED BY <2>1 DEF Store!Init
<1>4. RInv /\ [Next]_vars => [Store!Next]_Store!vars
  BY StepRefines
<1> QED BY <1>1, <1>2, <1>3, <1>4, PTL DEF Spec, RefinesInodeStore, Store!Spec

-----------------------------------------------------------------------------
(* The block bitmap marks the content of the files.                        *)

\* On a disk that can be mounted, no live file is too large for inode_findsector, and the
\* sectors that hold the addresses of a large one are on the disk, outside of the inode region.
FilesInside(img) ==
    mount_error(img) = 0 =>
        LET s == MountedSuper(img)
        IN  \A inr \in LiveInodes(img, s) :
               LET i == InodeNo(img, s, inr)
               IN  /\ i.i_size <= EXTRA_LARGE_FILE
                   /\ ~IsSmall(i) => \A k \in Nat : k * SECTOR_SIZE < i.i_size =>
                         AddressSector(i, k) \in DOMAIN img \ InodeRegionOf(s)

CInv == DInv /\ FilesInside(file) /\ FilesInside(View) /\ ContentIsMarked

\* inode_findsector finds the content of a file.
LEMMA FindsContent ==
    ASSUME NEW img, IsImage(img), NEW i \in InodeType, Allocated(i), i.i_size <= EXTRA_LARGE_FILE,
           NEW k \in Nat, k * SECTOR_SIZE < i.i_size,
           ~IsSmall(i) => AddressSector(i, k) \in DOMAIN img
    PROVE  /\ inode_findsector(img, i, k) \in Nat
           /\ inode_findsector(img, i, k)
                = IF IsSmall(i) THEN i.i_addr[k]
                  ELSE img[AddressSector(i, k)][k % ADDRESSES_PER_SECTOR]
<1>1. ~(k < 0) /\ ~(i.i_size > EXTRA_LARGE_FILE)
  BY SizeIsNat, ExtraLargeIsNat
<1>2. CASE IsSmall(i)
  <2>1. ~(k > i.i_size \div SECTOR_SIZE) /\ k \in 0 .. ADDR_SMALL_LENGTH - 1
    BY <1>2, InsideSmall
  <2>2. i.i_addr[k] \in Nat
    BY <2>1, WordFacts DEF InodeType
  <2> QED BY <1>1, <1>2, <2>1, <2>2 DEF inode_findsector
<1>3. CASE ~IsSmall(i)
  <2>1. ~(k \div ADDRESSES_PER_SECTOR >= ADDR_SMALL_LENGTH)
    <3>1. k \div ADDRESSES_PER_SECTOR \in 0 .. ADDR_SMALL_LENGTH - 1
      BY InsideLarge
    <3> QED BY <3>1, LayoutAssumption
  <2>2. img[AddressSector(i, k)][k % ADDRESSES_PER_SECTOR] \in Nat
    <3>1. img[AddressSector(i, k)] \in Sector
      BY <1>3, ImageIsPrefix
    <3> QED BY <3>1, AddressIsWord
  <2> QED BY <1>1, <1>3, <2>1, <2>2, Zenon DEF inode_findsector
<1> QED BY <1>2, <1>3

\* The loop of fill_fbm reaches every sector of a file without holes.
LEMMA ContentIsScanned ==
    ASSUME NEW img, IsImage(img), NEW i \in InodeType, Allocated(i), i.i_size <= EXTRA_LARGE_FILE,
           ~IsSmall(i) => \A k \in Nat : k * SECTOR_SIZE < i.i_size =>
                             AddressSector(i, k) \in DOMAIN img,
           0 \notin ContentSectors(img, i)
    PROVE  ContentSectors(img, i) \subseteq FileSectors(img, i)
<1> DEFINE M == ADDR_SMALL_LENGTH * ADDRESSES_PER_SECTOR
           K == 0 .. M - 1
           offs == {k \in K : k * SECTOR_SIZE < i.i_size}
           Sect(k) == IF IsSmall(i) THEN i.i_addr[k]
                      ELSE img[AddressSector(i, k)][k % ADDRESSES_PER_SECTOR]
<1>1. ContentSectors(img, i) = {Sect(k) : k \in offs}
  BY DEF ContentSectors
<1>2. \A k \in offs : k \in Nat /\ k \in K /\ k * SECTOR_SIZE < i.i_size
  BY LayoutFacts, LayoutAssumption
<1>3. \A k \in offs : inode_findsector(img, i, k) = Sect(k) /\ Sect(k) \in Nat
  BY <1>2, FindsContent
<1>4. ASSUME NEW k \in offs, NEW p \in 0 .. k PROVE p \in offs
  <2>1. k \in Nat /\ k \in K /\ k * SECTOR_SIZE < i.i_size /\ p \in Nat /\ p <= k
    BY <1>2
  <2>2. p \in K
    <3>1. M \in Nat
      BY LayoutFacts, LayoutAssumption
    <3> HIDE DEF M
    <3> QED BY <2>1, <3>1
  <2>3. p * SECTOR_SIZE <= k * SECTOR_SIZE /\ p * SECTOR_SIZE \in Nat /\ k * SECTOR_SIZE \in Nat
    BY <2>1, SectorSize
  <2>4. p * SECTOR_SIZE < i.i_size
    BY <2>1, <2>3, SizeIsNat
  <2> QED BY <2>2, <2>4
<1>5. ASSUME NEW k \in offs PROVE inode_findsector(img, i, k) \in FileSectors(img, i)
  <2>1. \A p \in 0 .. k : inode_findsector(img, i, p) > 0
    <3> SUFFICES ASSUME NEW p \in 0 .. k PROVE inode_findsector(img, i, p) > 0
      OBVIOUS
    <3>1. p \in offs
      BY <1>4
    <3>2. Sect(p) # 0
      BY <1>1, <3>1
    <3> HIDE DEF Sect, offs
    <3> QED BY <1>3, <3>1, <3>2
  <2> QED BY <1>2, <2>1 DEF FileSectors
<1> HIDE DEF offs, Sect
<1> QED BY <1>1, <1>3, <1>5

\* Every inode that mkfs writes has the size 0.
LEMMA MkfsSizes ==
    ASSUME NEW s \in Superblock, s.s_inode_start = 2, NEW inr \in RegionInodes(s),
           NEW done \in SUBSET DOMAIN MkfsImage(s), NEW img, img = [n \in done |-> MkfsImage(s)[n]],
           InodeSector(s, inr) \in done
    PROVE  InodeNo(img, s, inr).i_size = 0
<1> DEFINE n == InodeSector(s, inr)
           j == inr % INODES_PER_SECTOR
<1>1. n \in Nat /\ n >= 2 /\ j \in 0 .. INODES_PER_SECTOR - 1
  <2>1. n \in InodeRegionOf(s) /\ n \in Nat /\ j \in 0 .. INODES_PER_SECTOR - 1
    BY InRegion
  <2> QED BY <2>1 DEF InodeRegionOf
<1>2. InodeNo(img, s, inr) = InodeAt(MkfsImage(s)[n], j)
  BY DEF InodeNo
<1>3. InodeAt(ZeroSector, j).i_size = 0
  <2>1. 1 \in 0 .. INODE_WORDS - 1
    BY LayoutFacts
  <2>2. j * INODE_WORDS + 1 \in Words
    BY <1>1, <2>1, InodeInSector
  <2> HIDE DEF j
  <2> QED BY <2>2 DEF InodeAt, ZeroSector
<1>4. InodeAt(PutNewInode(ZeroSector, ROOT_INUMBER, IALLOC + IFDIR), j).i_size = 0
  <2>1. ROOT_INUMBER \in 0 .. INODES_PER_SECTOR - 1
    BY PerSector DEF ROOT_INUMBER
  <2> HIDE DEF j
  <2> QED BY <1>1, <1>3, <2>1, ModeFacts, ZeroSectorType, PutNewInodeFrame
<1>5. \/ MkfsImage(s)[n] = ZeroSector
      \/ MkfsImage(s)[n] = PutNewInode(ZeroSector, ROOT_INUMBER, IALLOC + IFDIR)
  <2> HIDE DEF n
  <2> QED BY <1>1 DEF MkfsImage, BOOTBLOCK_SECTOR, SUPERBLOCK_SECTOR, n
<1> HIDE DEF n, j
<1> QED BY <1>2, <1>3, <1>4, <1>5

LEMMA MkfsFilesInside ==
    ASSUME NEW num_blocks \in Word, NEW num_inodes \in Word,
           NEW s, s = MkfsSuperblock(num_blocks, num_inodes),
           NEW done \in SUBSET DOMAIN MkfsImage(s), NEW img, img = [n \in done |-> MkfsImage(s)[n]]
    PROVE  FilesInside(img)
<1>1. SUFFICES ASSUME mount_error(img) = 0, NEW inr \in LiveInodes(img, MountedSuper(img)),
                      NEW i, i = InodeNo(img, MountedSuper(img), inr)
               PROVE  /\ i.i_size <= EXTRA_LARGE_FILE
                      /\ \A k \in Nat : ~(k * SECTOR_SIZE < i.i_size)
  BY DEF FilesInside
<1>2. MountedSuper(img) = s
  BY <1>1, MountableHasFirst, MkfsSuper DEF First
<1>3. s \in Superblock /\ s.s_inode_start = 2
  BY MkfsSuperblockType DEF Superblock
<1>4. inr \in RegionInodes(s) /\ InodeSector(s, inr) \in done
  BY <1>2, <1>3, LiveInode
<1>5. i.i_size = 0
  BY <1>1, <1>2, <1>3, <1>4, MkfsSizes
<1> QED BY <1>5, SectorSize, ExtraLargeIsNat

LEMMA MountMarksContent ==
    ASSUME CInv, NEW bad, Mount(bad)
    PROVE  ContentIsMarked' /\ View' = file
<1>1. /\ ~u.open /\ u' = mount_result(Visible(file, bad)) /\ UNCHANGED <<file, wbuf>>
      /\ IsImage(file) /\ missed' = bad
  BY DEF Mount, CInv, DInv, SInv, IInv, FileType
<1>2. bad = {} => u' = mount_result(file) /\ \A n \in DOMAIN file : file[n] \in Sector
  BY <1>1, SeenAll, ImageIsPrefix
<1>3. View' = file
  BY <1>1, EmptyBuffer DEF CInv, DInv, SInv, IInv, Buffered, View, IsImage
<1> DEFINE s == u'.s
<1>4. SUFFICES ASSUME u'.mounted, bad = {}, NEW inr \in LiveInodes(file, s), NEW i, i = InodeNo(file, s, inr),
                      0 \notin ContentSectors(file, i),
                      NEW n \in ContentSectors(file, i), Holds(u'.fbm, n)
               PROVE  InUse(u'.fbm, n)
  BY <1>1, <1>3 DEF ContentIsMarked
<1>5. /\ s = SuperblockAt(file[SUPERBLOCK_SECTOR]) /\ s \in Superblock
      /\ u'.fbm = fill_fbm(file, s)
  BY <1>2, <1>4, MountResultType DEF StructType
<1>6. mount_error(file) = 0
  <2>1. mount_result(file).mounted  BY <1>2, <1>4
  <2> QED BY ONLY <2>1 DEF mount_result
<1> HIDE DEF s
<1>7. i \in InodeType /\ Allocated(i)
  BY <1>1, <1>4, <1>5, LiveInodeType
<1>8. /\ i.i_size <= EXTRA_LARGE_FILE
      /\ ~IsSmall(i) => \A k \in Nat : k * SECTOR_SIZE < i.i_size => AddressSector(i, k) \in DOMAIN file
  BY <1>4, <1>5, <1>6 DEF CInv, FilesInside, MountedSuper
<1>9. n \in FileSectors(file, i)
  BY <1>1, <1>4, <1>7, <1>8, ContentIsScanned
<1> DEFINE all == UNION {FileSectors(file, InodeNo(file, s, k)) : k \in ScannedLive(file, s)}
<1>10. n \in all
  BY <1>1, <1>4, <1>5, <1>9, MountScansAll
<1>11. IsPool(NewFbm(s))
  BY <1>5, NewBitmapsType
<1>12. u'.fbm = TakeAll(NewFbm(s), all)
  BY <1>5 DEF fill_fbm
<1> HIDE DEF all
<1> QED BY <1>4, <1>10, <1>11, <1>12, TakeAllType DEF Holds, InUse

LEMMA CreateKeepsContent ==
    ASSUME CInv, NEW inr \in granted, NEW mode \in Modes, NEW bad, FileCreate(inr, mode, bad)
    PROVE  ContentIsMarked' /\ FilesInside(View')
<1> DEFINE n == InodeSector(u.s, inr)
           new == PutNewInode(View[n], inr % INODES_PER_SECTOR, mode)
<1>1. UNCHANGED <<u, granted, missed>> /\ u.mounted
  BY DEF FileCreate
<1>2. \/ Flush /\ wbuf' = Nothing
      \/ UNCHANGED <<file, wbuf>>
      \/ Flush /\ n \in DOMAIN View /\ wbuf' = [m \in {n} |-> new]
  BY Zenon DEF FileCreate
<1>3. CASE View' = View
  BY <1>1, <1>3 DEF CInv, ContentIsMarked
<1>4. (Flush /\ wbuf' = Nothing) \/ UNCHANGED <<file, wbuf>> => View' = View
  BY TypeFromIInv, FlushKeepsView DEF CInv, DInv, SInv, View
<1>5. CASE Flush /\ n \in DOMAIN View /\ wbuf' = [m \in {n} |-> new]
  <2>0. inr \in RegionInodes(u.s) /\ mode \in Word /\ (mode \div IALLOC) % 2 = 1
    BY VolumeAssumption DEF CInv, DInv, SInv, IInv, Promised
  <2>1. /\ IsImage(View) /\ u.s \in Superblock
        /\ SUPERBLOCK_SECTOR \in DOMAIN View /\ u.s = MountedSuper(View)
    BY <1>1, MountedTable DEF CInv, MountedSuper
  <2>2. /\ DOMAIN View' = DOMAIN View /\ View'[n] = new
        /\ \A m \in DOMAIN View : m # n => View'[m] = View[m]
    <3> HIDE DEF n, new
    <3> QED BY <1>5, CreatedView DEF Flush
  <2>3. LiveInodes(View', u.s) = LiveInodes(View, u.s) \cup {inr}
    BY <1>5, <2>0, <2>1, <2>2, CreateMakesLive
  <2>4. /\ InodeNo(View', u.s, inr).i_size = 0
        /\ \A k \in RegionInodes(u.s) : k # inr /\ InodeSector(u.s, k) \in DOMAIN View
              => InodeNo(View', u.s, k) = InodeNo(View, u.s, k)
    BY <1>5, <2>0, <2>1, <2>2, OneInodeChanges
  <2>5. n \in InodeRegionOf(u.s) /\ n \notin First
    <3>1. n \in InodeRegionOf(u.s) /\ u.s.s_inode_start >= 2
          /\ u.s.s_inode_start \in Nat /\ u.s.s_isize \in Nat
      BY <1>1, <2>0, <2>1, InRegion, WordFacts DEF CInv, DInv, SInv, Superblock
    <3> QED BY <3>1 DEF InodeRegionOf, SUPERBLOCK_SECTOR, BOOTBLOCK_SECTOR, First
  <2> HIDE DEF n, new
  <2>6. /\ First \cap DOMAIN View' = First \cap DOMAIN View
        /\ \A m \in First \cap DOMAIN View : View'[m] = View[m]
    BY <2>2, <2>5
  <2>7. mount_error(View) = 0
    <3>1. mount_error(file) = 0
      BY <1>1 DEF CInv, DInv, OfMountedDisk
    <3>2. DOMAIN View = DOMAIN file /\ \A m \in First \cap DOMAIN file : View[m] = file[m]
      BY DEF View, CInv, DInv, SInv, First
    <3> QED BY <3>1, <3>2, MountReadsFirst
  <2>8. mount_error(View') = 0 /\ MountedSuper(View') = u.s
    BY <2>1, <2>6, <2>7, MountReadsFirst
  <2>9. \A k \in LiveInodes(View', u.s) :
           \/ k = inr
           \/ k \in LiveInodes(View, u.s) /\ InodeNo(View', u.s, k) = InodeNo(View, u.s, k)
    BY <2>1, <2>3, <2>4, LiveInode
  <2>10. \A k \in LiveInodes(View, u.s) :
            LET i == InodeNo(View, u.s, k)
            IN  /\ i.i_size <= EXTRA_LARGE_FILE
                /\ ~IsSmall(i) => \A off \in Nat : off * SECTOR_SIZE < i.i_size =>
                      AddressSector(i, off) \in DOMAIN View \ InodeRegionOf(u.s)
    BY <2>1, <2>7 DEF CInv, FilesInside
  <2>11. FilesInside(View')
    <3> SUFFICES ASSUME NEW k \in LiveInodes(View', u.s), NEW i, i = InodeNo(View', u.s, k)
                 PROVE  /\ i.i_size <= EXTRA_LARGE_FILE
                        /\ ~IsSmall(i) => \A off \in Nat : off * SECTOR_SIZE < i.i_size =>
                              AddressSector(i, off) \in DOMAIN View' \ InodeRegionOf(u.s)
      BY <2>8 DEF FilesInside
    <3>1. CASE k = inr
      <4>1. i.i_size = 0
        BY <2>4, <3>1
      <4> QED BY <4>1, ExtraLargeIsNat, SectorSize
    <3>2. CASE k # inr
      BY <2>2, <2>9, <2>10, <3>2
    <3> QED BY <3>1, <3>2
  <2>12. ContentIsMarked'
    <3> SUFFICES ASSUME NEW k \in LiveInodes(View', u.s), NEW i, i = InodeNo(View', u.s, k),
                        missed = {}, 0 \notin ContentSectors(View', i),
                        NEW sect \in ContentSectors(View', i), Holds(u.fbm, sect)
                 PROVE  InUse(u.fbm, sect)
      BY <1>1 DEF ContentIsMarked
    <3> DEFINE M == ADDR_SMALL_LENGTH * ADDRESSES_PER_SECTOR
               offs == {off \in 0 .. M - 1 : off * SECTOR_SIZE < i.i_size}
    <3>0. \A off \in offs : off \in Nat /\ off * SECTOR_SIZE < i.i_size
      OBVIOUS
    <3>a. /\ ContentSectors(View', i) = IF IsSmall(i) THEN {i.i_addr[off] : off \in offs}
               ELSE {View'[AddressSector(i, off)][off % ADDRESSES_PER_SECTOR] : off \in offs}
          /\ ContentSectors(View, i) = IF IsSmall(i) THEN {i.i_addr[off] : off \in offs}
               ELSE {View[AddressSector(i, off)][off % ADDRESSES_PER_SECTOR] : off \in offs}
      BY DEF ContentSectors
    <3> HIDE DEF offs
    <3>1. CASE k = inr
      <4>1. i.i_size = 0
        BY <2>4, <3>1
      <4>2. offs = {}
        BY <4>1, <3>0, SectorSize
      <4> QED BY <3>a, <4>2
    <3>2. CASE k # inr
      <4>1. k \in LiveInodes(View, u.s) /\ i = InodeNo(View, u.s, k)
        BY <2>9, <3>2
      <4>2. ~IsSmall(i) => \A off \in offs : AddressSector(i, off) \in DOMAIN View
                                             /\ AddressSector(i, off) # n
        BY <2>5, <2>10, <3>0, <4>1
      <4>3. ~IsSmall(i) => \A off \in offs : View'[AddressSector(i, off)] = View[AddressSector(i, off)]
        BY <2>2, <4>2
      <4>4. ContentSectors(View', i) = ContentSectors(View, i)
        BY <3>a, <4>3
      <4> QED BY <1>1, <4>1, <4>4 DEF CInv, ContentIsMarked
    <3> QED BY <3>1, <3>2
  <2> QED BY <2>11, <2>12
<1> QED BY <1>2, <1>3, <1>4, <1>5 DEF CInv

LEMMA StepMarksContent ==
    ASSUME AllocatedOnly, CInv, [Next]_vars
    PROVE  CInv'
<1>0. DInv' /\ IsImage(file') /\ IsImage(file) /\ (~u.open => DOMAIN wbuf = {})
  BY StepKeepsDInv, EmptyBuffer DEF CInv, DInv, SInv, IInv, FileType, Buffered
<1>1. FilesInside(file')
  <2>1. CASE file' = file \/ file' = View
    BY <2>1 DEF CInv
  <2> QED BY <2>1, FileStepFacts, MkfsFilesInside DEF CInv, DInv
<1>2. SUFFICES FilesInside(View') /\ ContentIsMarked'
  BY <1>0, <1>1 DEF CInv
<1>3. DOMAIN wbuf' = {} => View' = file'
  BY <1>0 DEF View, IsImage
<1>4. ASSUME NEW args \in MkfsArgs, NEW bad \in IoFaults, Mkfs(args[1], args[2], bad)
      PROVE  FilesInside(View') /\ ContentIsMarked'
  <2>1. DOMAIN wbuf' = {} /\ ~u'.mounted
    BY <1>0, <1>4 DEF Mkfs, CInv, DInv, SInv, IInv, StructType
  <2> QED BY <1>1, <1>3, <2>1 DEF ContentIsMarked
<1>5. ASSUME NEW bad \in IoFaults, Mount(bad) PROVE FilesInside(View') /\ ContentIsMarked'
  BY <1>5, MountMarksContent DEF CInv
<1>6. ASSUME NEW bad \in IoFaults, Umount(bad) \/ MountFopenFails \/ Crash
      PROVE  FilesInside(View') /\ ContentIsMarked'
  <2>1. u' = Closed /\ DOMAIN wbuf' = {}
    BY <1>0, <1>6, EmptyBuffer DEF Umount, MountFopenFails, Crash
  <2> QED BY <1>1, <1>3, <2>1, ClosedType DEF ContentIsMarked
<1>7. CASE InodeAlloc
  <2>1. missed' = missed /\ View' = View /\ u'.mounted = u.mounted /\ u'.s = u.s /\ u'.fbm = u.fbm
    BY <1>7 DEF InodeAlloc, View, CInv, DInv, SInv, IInv, StructType
  <2> QED BY <2>1 DEF CInv, ContentIsMarked
<1>8. ASSUME NEW inr \in ReadNumbers, NEW bad \in IoFaults, InodeRead(inr, bad)
      PROVE  FilesInside(View') /\ ContentIsMarked'
  BY <1>8, ReadKeepsView DEF CInv, DInv, SInv, ContentIsMarked
<1>9. ASSUME NEW inr \in granted \cup DirectInodes, NEW mode \in Modes, NEW bad \in IoFaults,
             FileCreate(inr, mode, bad)
      PROVE  FilesInside(View') /\ ContentIsMarked'
  BY <1>9, CreateKeepsContent DEF AllocatedOnly
<1>10. CASE UNCHANGED vars
  BY <1>10 DEF vars, View, CInv, ContentIsMarked
<1>11. {} \in IoFaults
  BY VolumeAssumption
<1> QED BY <1>4, <1>5, <1>6, <1>7, <1>8, <1>9, <1>10, <1>11 DEF Next

\* No sector with content of a file without holes is free in the block bitmap, as long as a
\* disk is mounted all of whose sectors the mount could read: fill_fbm stops at the first hole only, and a create adds no content.  The
\* disks are those whose files inode_findsector can walk through.
THEOREM ContentIsAlwaysMarked ==
    ASSUME AllocatedOnly,
           \A img \in InitImages : StartsIn(img, {n \in Nat : n >= 2}) /\ FilesInside(img)
    PROVE  Spec => []ContentIsMarked
<1>1. Init => CInv
  <2> SUFFICES ASSUME Init PROVE CInv
    OBVIOUS
  <2>1. IInv /\ StartsIn(file, {n \in Nat : n >= 2}) /\ FilesInside(file) /\ ~u.mounted /\ wbuf = Nothing
    BY InitIInv, ClosedType DEF Init
  <2>2. View = file
    BY <2>1, EmptyBuffer, EmptyMeansStable DEF IInv, FileType
  <2> QED BY <2>1, <2>2, EmptyBuffer DEF CInv, DInv, SInv, OfMountedDisk, ContentIsMarked
<1>2. CInv /\ [Next]_vars => CInv'
  BY StepMarksContent
<1>3. CInv => ContentIsMarked
  BY DEF CInv
<1> QED BY <1>1, <1>2, <1>3, PTL DEF Spec

=============================================================================
