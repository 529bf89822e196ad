---------------------------- MODULE MCToolApproval ----------------------------
(* Symmetry for ToolApproval's run: executions are alike, users and arguments *)
(* too, and the properties are about safety.                                  *)
EXTENDS ToolApproval, TLC

TheSymmetry ==
    Permutations(Call) \cup Permutations(Argument) \cup Permutations(Caller)
=============================================================================
