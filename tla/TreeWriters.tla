---------------------------- MODULE TreeWriters ----------------------------
(***************************************************************************)
(* The two engines that write a CPE's tree by themselves, on timers: the   *)
(* generators, which tick whether anyone asked or not, and the diagnostics *)
(* an ACS triggers.                                                        *)
(***************************************************************************)
EXTENDS Generators, Diagnostics

writerVars == <<vars, diagVars>>

WritersInit == Init /\ DiagInit(plan.diag)

WritersNext ==
    \/ Next /\ UNCHANGED diagVars
    \/ DiagStep /\ UNCHANGED vars

WritersSpec ==
    WritersInit /\ [][WritersNext]_writerVars /\ Fairness /\ DiagFairness
=============================================================================
