----------------------------- MODULE FileStream -----------------------------
(***************************************************************************)
(* What filev6.h promises to the reader of a file, sector by sector: they  *)
(* come one by one, in order and none twice; at the end the reader is told *)
(* so and is back at the start; a call that fails loses nothing.  How many *)
(* bytes of a delivered sector belong to the file is not promised here.    *)
(***************************************************************************)
EXTENDS Integers

CONSTANTS BLOCK_SIZE,
          Absent        \* stands for a block that the disk does not have

VARIABLES files,        \* files[n]: the blocks of file n
          blocks, next, \* the open file, and the block that comes next
          answer        \* [op, arg, bad, ret, data] of the last call: bad is the set of the
                        \* sectors that failed meanwhile

vars == <<files, blocks, next, answer>>

Init == next = 0

Open == /\ answer'.op = "open" /\ next' = 0
        /\ \/ /\ answer'.ret = 0
              /\ answer'.arg \in DOMAIN files /\ blocks' = files[answer'.arg]
           \/ /\ answer'.ret < 0
              /\ answer'.arg \in DOMAIN files => answer'.bad # {}
              /\ UNCHANGED blocks

\* filev6.h:46, `the number of bytes of the file read', holds of full sectors only: the code
\* returns SECTOR_SIZE for a partly used last sector too (filev6.c:70).
Deliver == /\ next \in DOMAIN blocks /\ blocks[next] # Absent
           /\ answer'.ret > 0 /\ answer'.data = blocks[next]
           /\ next' = next + 1

AtEnd == next \notin DOMAIN blocks /\ answer'.ret = 0 /\ next' = 0

Fail == /\ next \in DOMAIN blocks /\ (answer'.bad # {} \/ blocks[next] = Absent)
        /\ answer'.ret < 0
        /\ UNCHANGED next

Read == answer'.op = "readblock" /\ (Deliver \/ AtEnd \/ Fail) /\ UNCHANGED blocks

\* To the start of a block, or to the end when that is the start of a block.
Seek == /\ answer'.op = "lseek" /\ UNCHANGED blocks
        /\ \/ answer'.ret = 0 /\ answer'.arg = next' * BLOCK_SIZE
              /\ (next' \in DOMAIN blocks \/ next' - 1 \in DOMAIN blocks \/ next' = 0)
           \/ answer'.ret < 0 /\ UNCHANGED next
              /\ \A k \in DOMAIN blocks : answer'.arg # k * BLOCK_SIZE

Next == (Open \/ Read \/ Seek) /\ UNCHANGED files

Spec == Init /\ [][Next]_vars
=============================================================================
