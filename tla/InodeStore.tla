----------------------------- MODULE InodeStore -----------------------------
(***************************************************************************)
(* What the inode layer promises to its callers: a table of inodes that    *)
(* calls change one entry at a time.  `table' is what calls see, `stable'  *)
(* what is left of it if the process stops now.  At most the last create   *)
(* that was acknowledged is missing from `stable'.                         *)
(***************************************************************************)
EXTENDS Integers

CONSTANTS NewInodes,            \* the inodes that a create can write
          IsAllocated(_)        \* the test on an inode that a read makes

VARIABLES table, stable,
          ready,                \* the store was opened with success
          last                  \* [op, inr, ret]: the last call, and its answer

vars == <<table, stable, ready, last>>

ERR_UNALLOCATED_INODE == -121

Init == stable = table

\* A new file system replaces the table.
Format == stable' = table'

Create(i) ==
    /\ ready
    /\ last'.ret = 0
    /\ i \in DOMAIN table
    /\ \E inode \in NewInodes : table' = [table EXCEPT ![i] = inode]
    /\ stable' = table

CreateFails == /\ last'.ret < 0
               /\ table' = table
               /\ stable' \in {stable, table}

Read(i) ==
    /\ ready /\ last'.ret = 0 => i \in DOMAIN table /\ IsAllocated(table[i])
    /\ ready /\ last'.ret = ERR_UNALLOCATED_INODE
            => ~(i \in DOMAIN table /\ IsAllocated(table[i]))
    /\ table' = table
    /\ stable' \in {stable, table}

Close == \/ last'.ret = 0 /\ table' = table /\ stable' = table
         \/ last'.ret # 0 /\ table' = stable /\ stable' = stable

Stop == table' = stable /\ stable' = stable

Next == \/ last'.op = "mkfs" /\ Format
        \/ last'.op = "create" /\ (Create(last'.inr) \/ CreateFails)
        \/ last'.op = "read" /\ Read(last'.inr)
        \/ last'.op = "umount" /\ Close
        \/ last'.op = "crash" /\ Stop
        \/ last'.op \in {"mount", "alloc"} /\ UNCHANGED <<table, stable>>

Spec == Init /\ [][Next]_vars
=============================================================================
