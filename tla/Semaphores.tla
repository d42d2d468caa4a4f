----------------------------- MODULE Semaphores -----------------------------
(***************************************************************************)
(* What the nucleus promises of its semaphores to processes that are not   *)
(* killed: counters that are never negative, and waiters served in the     *)
(* order in which they came.  A V gives to the first of them what it would *)
(* add to the counter; a tick lets everybody go who waits for the clock.   *)
(***************************************************************************)
EXTENDS Naturals, Sequences

CONSTANTS
  Processes,
  Semas,       \* the semaphores
  Ticking      \* those whose waiters go all together

VARIABLES
  count,       \* of each semaphore, the P operations that need not wait
  waiting      \* of each semaphore, those that do, the oldest first

vars == <<count, waiting>>

Init ==
  /\ count \in [Semas -> Nat]
  /\ waiting = [s \in Semas |-> <<>>]

Pass(s) ==
  /\ count[s] > 0
  /\ count' = [count EXCEPT ![s] = @ - 1]
  /\ UNCHANGED waiting

Wait(p, s) ==
  /\ count[s] = 0
  /\ waiting' = [waiting EXCEPT ![s] = Append(@, p)]
  /\ UNCHANGED count

Signal(s) ==
  /\ waiting[s] = <<>>
  /\ count' = [count EXCEPT ![s] = @ + 1]
  /\ UNCHANGED waiting

HandOver(s) ==
  /\ waiting[s] # <<>>
  /\ waiting' = [waiting EXCEPT ![s] = Tail(@)]
  /\ UNCHANGED count

ReleaseAll(s) ==
  /\ s \in Ticking
  /\ waiting' = [waiting EXCEPT ![s] = <<>>]
  /\ UNCHANGED count

Next ==
  \E s \in Semas :
    \/ Pass(s)
    \/ \E p \in Processes : Wait(p, s)
    \/ Signal(s)
    \/ HandOver(s)
    \/ ReleaseAll(s)

Spec == Init /\ [][Next]_vars
=============================================================================
