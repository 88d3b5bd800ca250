---------------------------- MODULE SectorStore ----------------------------
(***************************************************************************)
(* What sector.h promises: a call reads or writes the one sector that it   *)
(* names, at one moment between its start and its end, whoever else is     *)
(* calling, or it fails and changes nothing.  `stable' is the disk if the  *)
(* process stops now: at most the last write is missing from it.           *)
(***************************************************************************)
EXTENDS Integers

VARIABLES store, stable,
          answer    \* the last call that ended: [op, sector, data, ret], and whether the
                    \* disk failed in it

vars == <<store, stable, answer>>

Init == stable = store /\ answer = [op |-> "none", sector |-> 0, data |-> 0, ret |-> 0, failed |-> FALSE]

Read == /\ answer'.op = "read"
        /\ answer'.sector \in DOMAIN store
        /\ answer'.ret = 0 /\ answer'.data = store[answer'.sector]
        /\ UNCHANGED <<store, stable>>

Write == /\ answer'.op = "write"
         /\ answer'.sector \in DOMAIN store
         /\ answer'.ret = 0
         /\ store' = [store EXCEPT ![answer'.sector] = answer'.data]
         /\ stable' = store

\* A call fails for a sector that there is not, or because the disk does.
Fail == /\ answer'.op \in {"read", "write"}
        /\ answer'.ret < 0
        /\ answer'.sector \in DOMAIN store => answer'.failed
        /\ UNCHANGED <<store, stable>>

\* The system may write what is pending whenever it likes.
Settle == stable' = store /\ UNCHANGED <<store, answer>>

Stop == answer'.op = "stop" /\ store' = stable /\ UNCHANGED stable

Next == Read \/ Write \/ Fail \/ Settle \/ Stop

Spec == Init /\ [][Next]_vars
=============================================================================
