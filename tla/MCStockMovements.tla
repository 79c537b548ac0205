-------------------------- MODULE MCStockMovements --------------------------
(* Adjustments, transfers in both directions, a reservation, and replays of *)
(* each, all on the two levels of one product.                              *)
EXTENDS StockLedger, TLC

CONSTANTS r1, r2, r3, r4, p1, w1, w2, A, B, C, D

L1 == <<p1, w1>>
L2 == <<p1, w2>>

MovementOperations ==
  {AdjustStock(A, L1, 2), AdjustStock(B, L1, -1),
   TransferStock(C, p1, w1, w2, 1), TransferStock(D, p1, w2, w1, 1),
   ReserveOrder(A, w1, <<[product |-> p1, qty |-> 1]>>)}

ASSUME MovementsAssumption == AlertsFounded

TwoAndNone == [l \in Levels |-> IF l = L1 THEN 2 ELSE 0]
AlertAtOne == [p \in Products |-> 1]

RequestSymmetry == Permutations(Requests)
=============================================================================
