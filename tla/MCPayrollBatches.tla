------------------------- MODULE MCPayrollBatches ---------------------------
(* Small instances of PayrollBatches: a loop beside a call of the tick     *)
(* endpoint, and two calls of it, which bear one name.                     *)
EXTENDS PayrollBatches, TLC

CONSTANTS tick, other

MCFirstNames == {[w \in Workers |-> 1], [w \in Workers |-> IF w = tick THEN 1 ELSE 2]}
=============================================================================
