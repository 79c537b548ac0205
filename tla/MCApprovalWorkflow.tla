------------------------- MODULE MCApprovalWorkflow -------------------------
(* Small instances of ApprovalWorkflow.                                    *)
EXTENDS ApprovalWorkflow, TLC

CONSTANTS entry, run, r1, r2, r3

(* One document open at a time.                                            *)
MCFirstStatuses == {(entry :> "open") @@ (run :> "void"), (entry :> "void") @@ (run :> "open")}
MCAutoSteps == [d \in Documents |-> IF d \in PayrollRuns THEN {0} ELSE {1, 2}]
MCSubmissions == [d \in Documents |-> IF d \in PayrollRuns THEN 1 ELSE 2]
RequestSymmetry == Permutations(Requests)
=============================================================================
