---------------------------- MODULE MCNtIncident ----------------------------
(* Two runs, of the same plan or of two plans, and an operator. *)
EXTENDS NtIncident, TLC

CONSTANTS r1, r2, planA, planB

MCRun == {r1, r2}
MCPlan == {planA, planB}
MCSymmetry == Permutations(MCRun) \cup Permutations(MCPlan)
=============================================================================
