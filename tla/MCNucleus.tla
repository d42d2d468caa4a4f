----------------------------- MODULE MCNucleus ------------------------------
(***************************************************************************)
(* Small instances of the nucleus for TLC.                                 *)
(***************************************************************************)
EXTENDS Nucleus

PcbSymmetry == Permutations(Pcbs)

DiskAndTerminal == {0, 32}
Disk == {0}
Transmitter == {32}
Terminal == {32, 40}
NoUnits == {}

EveryCall == AllCalls
KillCalls == {"SYS1", "SYS2"}
ClockKillCalls == {"SYS1", "SYS2", "SYS7"}
IOCalls == {"SYS1", "SYS8"}
IOKillCalls == {"SYS1", "SYS2", "SYS4", "SYS8"}
LiveCalls == {"SYS1", "SYS3", "SYS4", "SYS7", "SYS8"}

PgmVector == {"Pgm"}
NoTraps == {}

(* Three or four processes can wait for the clock, and kills that leave    *)
(* its semaphore below its queue can push it as far down.                  *)
ClockFloor4 == -4
=============================================================================
