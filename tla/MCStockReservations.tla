------------------------- MODULE MCStockReservations -------------------------
(* Two orders over the same two products, their lines in opposite order,   *)
(* each reserved, released and fulfilled by requests that race.            *)
EXTENDS StockLedger, TLC

CONSTANTS r1, r2, r3, p1, p2, w1, A, B

Line(p, q) == [product |-> p, qty |-> q]
LinesA == <<Line(p1, 1), Line(p2, 1)>>
LinesB == <<Line(p2, 1), Line(p1, 2)>>

ReservationOperations ==
  {ReserveOrder(A, w1, LinesA), FulfilOrderLines(A, w1, LinesA),
   ReleaseOrder(A, w1, LinesA), ReserveOrder(B, w1, LinesB)}

(* The two reservations alone: they take the two row locks in opposite      *)
(* orders, so they can wait for each other.                                *)
OpposedOrders == {ReserveOrder(A, w1, LinesA), ReserveOrder(B, w1, LinesB)}

ASSUME ReservationsAssumption == ReservationsOnly

TwoEach == [l \in Levels |-> 2]
NoAlert == [p \in Products |-> 1]

RequestSymmetry == Permutations(Requests)
=============================================================================
