------------------------------- MODULE MCPcb --------------------------------
(***************************************************************************)
(* A small instance of the process queues and trees for TLC.               *)
(***************************************************************************)
EXTENDS Pcb

PcbSymmetry == Permutations(Pcbs)

TwoQueues == {"readyQue", "s_procQ"}
=============================================================================
