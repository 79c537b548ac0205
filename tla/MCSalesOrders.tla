---------------------------- MODULE MCSalesOrders ----------------------------
(* Small tenants for SalesOrders: one product, two warehouses known by     *)
(* their position in name order, line sets of one or two units.            *)
EXTENDS SalesOrders, TLC

CONSTANTS o1, o2, p1, c1, c2, r1, r2, r3

OneOrTwo == {[p \in Products |-> 1], [p \in Products |-> 2]}
UnitPrice == [p \in Products |-> 1]
LimitOneAndTwo == [c \in Customers |-> IF c = c1 THEN 1 ELSE 2]
TwoUnits == [pl \in Places |-> 2]

Job(k, o) == [kind |-> k, order |-> o, lines |-> Nothing, customer |-> Nothing]
Moves(o) == {Job(k, o) : k \in {"confirm", "fulfil", "cancel"}}
Patch(o, q, c) == [kind |-> "update", order |-> o, lines |-> q, customer |-> c]
Post(o, q, c) == [kind |-> "create", order |-> o, lines |-> q, customer |-> c]
Two == [p \in Products |-> 2]

Start(s1, s2) == [o \in Orders |-> IF o = o1 THEN s1 ELSE s2]

(* Everything a client may do to one order while a second one competes.    *)
EveryStart == {Start("draft", "absent"), Start("confirmed", "confirmed")}
EveryJob == Moves(o1) \cup {Job("cancel", o2), Job("confirm", o2),
                            Patch(o1, Two, c1), Patch(o1, Nothing, c2),
                            Post(o2, Two, c1)}

(* No draft is edited and no draft that is being confirmed is cancelled.   *)
SettledStart == {Start("draft", "confirmed")}
SettledJobs == {Job("confirm", o1), Job("fulfil", o1), Job("fulfil", o2),
                Job("cancel", o2)}

(* They meet the hypothesis under which nothing disturbs a confirmation.   *)
ASSUME SettledJobsAreApart == Jobs = SettledJobs => JobsApart

RequestSymmetry == Permutations(Requests)
=============================================================================
