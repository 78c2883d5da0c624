--------------------------- MODULE MC_StreamConn ---------------------------
(* Small instances of StreamConn for TLC. *)
EXTENDS StreamConn

(* Pools are only compared with each other. *)
Symmetry == Permutations(Pools)
=============================================================================
