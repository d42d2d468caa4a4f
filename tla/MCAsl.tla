------------------------------- MODULE MCAsl --------------------------------
(***************************************************************************)
(* A small instance of the active semaphore list for TLC.                  *)
(***************************************************************************)
EXTENDS Asl, TLC

PcbSymmetry == Permutations(Pcbs)
=============================================================================
