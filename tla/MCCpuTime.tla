------------------------------ MODULE MCCpuTime ------------------------------
(***************************************************************************)
(* The CPU time accounting on a clock of few values.                       *)
(***************************************************************************)
EXTENDS CpuTime

PcbSymmetry == Permutations(Pcbs)
Transmitter == {32}
EveryCall == AllCalls
PgmVector == {"Pgm"}
NoUnits == {}
NoTraps == {}
OnlySYS1 == {"SYS1"}
ClockFloor == -2
=============================================================================
