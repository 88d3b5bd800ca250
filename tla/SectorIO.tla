------------------------------ MODULE SectorIO ------------------------------
(***************************************************************************)
(* sector.c over the stdio stream u->f, which all threads of the process   *)
(* share: fuse_main (fs.c) runs the callbacks in several threads, the      *)
(* shell and the tests have one.  fseek, fread and fwrite each hold the    *)
(* stream's lock, so that each is one step; sector_read and sector_write   *)
(* are two of them, with nothing that keeps other threads out in between.  *)
(* Each of the three can fail, and ends the call with ERR_IO then.         *)
(***************************************************************************)
EXTENDS Integers

CONSTANTS Threads,
          Writers,    \* the threads that call sector_write (none under FUSE, whose
                      \* operations only read)
          Length,     \* the number of sectors of the image
          Wanted,     \* the sectors that sector_read is asked for: those of the image and,
                      \* since an entry or an address can be anything, Length for all behind
          Failing,    \* the functions of stdio that can fail
          Contents    \* what a sector can hold

ASSUME SectorIOAssumption == /\ Writers \subseteq Threads
                             /\ Length \in Nat \ {0}
                             /\ Wanted \subseteq 0 .. Length /\ 0 \in Wanted
                             /\ Failing \subseteq {"fseek", "fread", "fwrite"}

VARIABLES
    disk,     \* the file, as the system holds it
    buffer,   \* sectors written to the stream and not yet to the file
    pos,      \* the position of the stream, in sectors
    pc,       \* pc[t]: "idle", or the stdio call that t makes next: "fseek" or "transfer"
    call,     \* call[t]: the arguments of the call that t is in, or was last in
    answer    \* the last call that ended: [op, sector, data, ret], and whether stdio failed in it

vars == <<disk, buffer, pos, pc, call, answer>>

ERR_IO  == -126
Sectors == 0 .. Length - 1
Nothing == [n \in {} |-> 0]

\* Writes are only for a sector that was read before.
Calls(t) == [op : {"read"}, sector : Wanted, data : {0}]
            \cup IF t \in Writers THEN [op : {"write"}, sector : Sectors, data : Contents] ELSE {}

\* The content of the stream: what was written to it, else what the file holds.
Stream == [n \in Sectors |-> IF n \in DOMAIN buffer THEN buffer[n] ELSE disk[n]]

Init ==
    /\ disk \in [Sectors -> Contents]
    /\ buffer = Nothing
    /\ pos = 0
    /\ pc = [t \in Threads |-> "idle"]
    /\ call = [t \in Threads |-> [op |-> "read", sector |-> 0, data |-> 0]]
    /\ answer = [op |-> "none", sector |-> 0, data |-> 0, ret |-> 0, failed |-> FALSE]

\* position = sector * SECTOR_SIZE
Begin(t) ==
    /\ pc[t] = "idle"
    /\ \E c \in Calls(t) : call' = [call EXCEPT ![t] = c]
    /\ pc' = [pc EXCEPT ![t] = "fseek"]
    /\ UNCHANGED <<disk, buffer, pos, answer>>

Ended(t, data, ret, failed) ==
    /\ answer' = [op |-> call[t].op, sector |-> call[t].sector, data |-> data, ret |-> ret,
                  failed |-> failed]
    /\ pc' = [pc EXCEPT ![t] = "idle"]
    /\ UNCHANGED call

Flush == disk' = Stream /\ buffer' = Nothing

\* A slip: the result of fseek is not tested.
SeekUnchecked(t) ==
    /\ pc[t] = "fseek"
    /\ \/ Flush /\ pos' = call[t].sector
       \/ "fseek" \in Failing /\ UNCHANGED <<disk, buffer, pos>>
    /\ pc' = [pc EXCEPT ![t] = "transfer"]
    /\ UNCHANGED <<call, answer>>

\* fseek writes the buffer out before it moves; when it cannot, the buffer stays.
Seek(t) ==
    /\ pc[t] = "fseek"
    /\ \/ /\ Flush
          /\ pos' = call[t].sector
          /\ pc' = [pc EXCEPT ![t] = "transfer"]
          /\ UNCHANGED <<call, answer>>
       \/ /\ "fseek" \in Failing
          /\ Ended(t, 0, ERR_IO, TRUE)
          /\ UNCHANGED <<disk, buffer, pos>>

\* After a failure the position is indeterminate (C11 7.21.8.1, 7.21.8.2).
TransferFails(t, function) ==
    /\ function \in Failing
    /\ pos' \in 0 .. Length
    /\ Ended(t, 0, ERR_IO, TRUE)
    /\ UNCHANGED <<disk, buffer>>

\* A slip: the result of fread is returned as it is.
ReadReturnsCount(t) ==
    /\ pc[t] = "transfer" /\ call[t].op = "read"
    /\ \/ pos \in Sectors /\ Flush /\ pos' = pos + 1 /\ Ended(t, Stream[pos], 1, FALSE)
       \/ pos \notin Sectors /\ Flush /\ pos' = pos /\ Ended(t, 0, 0, FALSE)

\* fread of one sector, at the stream's position; at the end of the file it is short.
Read(t) ==
    /\ pc[t] = "transfer" /\ call[t].op = "read"
    /\ \/ pos \in Sectors /\ Flush /\ pos' = pos + 1 /\ Ended(t, Stream[pos], 0, FALSE)
       \/ pos \notin Sectors /\ Flush /\ pos' = pos /\ Ended(t, 0, ERR_IO, FALSE)
       \/ TransferFails(t, "fread")

\* fwrite of one sector: 512 bytes fit in the stream's buffer.
Write(t) ==
    /\ pc[t] = "transfer" /\ call[t].op = "write"
    /\ \/ /\ buffer' = [n \in DOMAIN buffer \cup {pos} |->
                           IF n = pos THEN call[t].data ELSE buffer[n]]
          /\ pos' = pos + 1
          /\ Ended(t, call[t].data, 0, FALSE)
          /\ UNCHANGED disk
       \/ TransferFails(t, "fwrite")

\* The process stops, and another one opens the file: the buffer is lost.
Crash ==
    /\ buffer' = Nothing
    /\ pos' = 0
    /\ pc' = [t \in Threads |-> "idle"]
    /\ answer' = [op |-> "stop", sector |-> 0, data |-> 0, ret |-> 0, failed |-> FALSE]
    /\ UNCHANGED <<disk, call>>

Next == \/ \E t \in Threads : Begin(t) \/ Seek(t) \/ Read(t) \/ Write(t)
        \/ Crash

Spec == Init /\ [][Next]_vars

-----------------------------------------------------------------------------
TypeOK ==
    /\ disk \in [Sectors -> Contents]
    /\ DOMAIN buffer \subseteq Sectors /\ \A n \in DOMAIN buffer : buffer[n] \in Contents
    /\ pos \in 0 .. Length + 1
    /\ pc \in [Threads -> {"idle", "fseek", "transfer"}]
    /\ call \in [Threads -> UNION {Calls(t) : t \in Threads}]
    /\ \A t \in Threads : call[t] \in Calls(t)
    /\ answer.ret \in {0, ERR_IO}

Abstract == INSTANCE SectorStore WITH store <- Stream, stable <- disk

\* sector.h:20-37: a call that answers 0 has transferred the sector that its argument names
\* and no other; one that answers less has changed nothing, and does so only for a sector
\* behind the end or because stdio failed.  A stop loses at most the last write.
RefinesSectorStore == Abstract!Spec
=============================================================================
