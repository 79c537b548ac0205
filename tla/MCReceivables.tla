--------------------------- MODULE MCReceivables ----------------------------
(***************************************************************************)
(* Small instances of Receivables: two invoices of two units, i1 approved  *)
(* and i2 in any state before paid; a receipt of one unit, one of two, and *)
(* a payment of one unit entered by hand. Three requests, which are alike, *)
(* so their jobs are taken in the order of a list.                         *)
(***************************************************************************)
EXTENDS Receivables, TLC

CONSTANTS i1, i2, n1, n2, one, two, hand, r1, r2, r3

MCTotal == (i1 :> 2) @@ (i2 :> 2)
MCAmount == (one :> 1) @@ (two :> 2) @@ (hand :> 1)
MCSlipOf == (n1 :> one) @@ (n2 :> two)
MCInitialStatuses == {(i1 :> "approved") @@ (i2 :> s) : s \in {"draft", "issued", "approved"}}

Pays(n, i) == [intent |-> n, invoice |-> i, slip |-> SlipOf[n]]
Names(n) == [intent |-> n, invoice |-> Nothing, slip |-> Nothing]
Bills(i) == [intent |-> Nothing, invoice |-> i, slip |-> Nothing]

JobOf(kind, item) == [kind |-> kind, items |-> <<item>>]
Batch(a, b) == [kind |-> "bulk", items |-> <<a, b>>]

InThree(list) ==
  {(r1 :> list[x]) @@ (r2 :> list[y]) @@ (r3 :> list[z]) :
     <<x, y, z>> \in {t \in (DOMAIN list) \X (DOMAIN list) \X (DOMAIN list) :
                        t[1] <= t[2] /\ t[2] <= t[3]}}

ByHand == [intent |-> Nothing, invoice |-> i1, slip |-> hand]

MCPlans ==
  InThree(<<JobOf("issue", Bills(i2)), JobOf("approve", Bills(i2)), JobOf("void", Bills(i2)),
            JobOf("accept", Pays(n1, i1)), JobOf("accept", Pays(n1, i2)),
            JobOf("accept", Pays(n2, i1)),
            JobOf("pay", ByHand), JobOf("undo", Names(n1)),
            JobOf("dismiss", Names(n1)),
            Batch(Pays(n1, i1), Pays(n2, i2)), Batch(Pays(n2, i2), Pays(n1, i1))>>)

(* An undo while another payment of the invoice is being applied.          *)
UndoPlans == InThree(<<JobOf("accept", Pays(n1, i1)), JobOf("pay", ByHand),
                       JobOf("undo", Names(n1))>>)
=============================================================================
