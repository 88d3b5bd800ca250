----------------------------- MODULE MCBmBlock -----------------------------
(***************************************************************************)
(* An instance of BmBlock for TLC: vectors of 3 bits and the numbers 0..7, *)
(* so that a bitmap has one, two or three vectors, the last one partly     *)
(* used, and a range that does not start at 0.                             *)
(***************************************************************************)
EXTENDS BmBlock

MCNumbers == 0 .. 7
=============================================================================
