------------------------------ MODULE MCP2Test ------------------------------
(***************************************************************************)
(* p2test.c on a small machine.                                            *)
(***************************************************************************)
EXTENDS P2Test

TestSems == {term_mut, sArr, testsem, startp2, endp2, endp3, blkp4, synp4,
             endp4, endp5, endp8, endcreate, blkp8}
Terminal0 == {32}
EveryCall == AllCalls
EveryTrap == TrapTypes
ClockFloor == -3
=============================================================================
