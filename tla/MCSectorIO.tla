----------------------------- MODULE MCSectorIO -----------------------------
(***************************************************************************)
(* Instances of SectorIO for TLC: three sectors of two contents; the shell *)
(* with its one thread, and two threads of FUSE, which only read.          *)
(***************************************************************************)
EXTENDS SectorIO

CONSTANTS t1, t2

MCOne == {t1}
MCTwo == {t1, t2}
MCNone == {}
MCContents == {10, 20}

MCAnywhere == 0 .. Length
MCOnDisk   == 0 .. Length - 1

MCAnyFails == {"fseek", "fread", "fwrite"}
=============================================================================
