------------------------------ MODULE MC_Batch ------------------------------
(* A small instance of Batch for TLC. *)
EXTENDS Batch

(* The last two items share their output file. *)
ThreeNames == <<"a", "b", "b">>
=============================================================================
