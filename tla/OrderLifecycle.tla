--------------------------- MODULE OrderLifecycle ---------------------------
(***************************************************************************)
(* What the sales service promises of an order: it moves along             *)
(* draft -> confirmed -> fulfilled, or to cancelled from the first two,    *)
(* its lines are fixed once it is confirmed, and it is billed and shipped  *)
(* in the very step that fulfils it, for exactly those lines.              *)
(***************************************************************************)
CONSTANTS Orders, Quantities, Nothing

VARIABLES status,   \* of each order
          lines,    \* quantity of each product, Nothing before creation
          billed,   \* lines of the order's invoice, or Nothing
          shipped   \* quantities issued from stock, or Nothing

orderVars == <<status, lines, billed, shipped>>

Init ==
  /\ status \in [Orders -> {"absent", "draft", "confirmed"}]
  /\ lines \in [Orders -> Quantities \cup {Nothing}]
  /\ billed = [o \in Orders |-> Nothing]
  /\ shipped = [o \in Orders |-> Nothing]

Edit(o) ==
  /\ status[o] \in {"absent", "draft"}
  /\ status' = [status EXCEPT ![o] = "draft"]
  /\ \E q \in Quantities : lines' = [lines EXCEPT ![o] = q]
  /\ UNCHANGED <<billed, shipped>>

Confirm(o) ==
  /\ status[o] = "draft"
  /\ status' = [status EXCEPT ![o] = "confirmed"]
  /\ UNCHANGED <<lines, billed, shipped>>

Fulfil(o) ==
  /\ status[o] = "confirmed"
  /\ status' = [status EXCEPT ![o] = "fulfilled"]
  /\ billed' = [billed EXCEPT ![o] = lines[o]]
  /\ shipped' = [shipped EXCEPT ![o] = lines[o]]
  /\ UNCHANGED lines

Cancel(o) ==
  /\ status[o] \in {"draft", "confirmed"}
  /\ status' = [status EXCEPT ![o] = "cancelled"]
  /\ UNCHANGED <<lines, billed, shipped>>

Next == \E o \in Orders : Edit(o) \/ Confirm(o) \/ Fulfil(o) \/ Cancel(o)

Spec == Init /\ [][Next]_orderVars
=============================================================================
