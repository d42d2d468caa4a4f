-------------------------------- MODULE Walks --------------------------------
(***************************************************************************)
(* What a loop finds that follows a pointer from one block to the next, as *)
(* the loops of phase1/pcb.c and phase1/asl.c do.                          *)
(***************************************************************************)
EXTENDS Naturals, FiniteSets, SequencesExt

(* The blocks met from x on by following next until e is met, e excluded;  *)
(* as many of them as there are blocks if e is not met by then.            *)
Walk(next, x, e) ==
  LET blocks == Cardinality(DOMAIN next)
      met[i \in 0..blocks] == IF i = 0 THEN x ELSE next[met[i - 1]]
      n == CHOOSE i \in 0..blocks :
             /\ met[i] = e \/ i = blocks
             /\ \A j \in 0..(i - 1) : met[j] # e
  IN  [i \in 1..n |-> met[i - 1]]
=============================================================================
