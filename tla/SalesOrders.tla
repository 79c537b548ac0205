----------------------------- MODULE SalesOrders -----------------------------
(***************************************************************************)
(* The sales order lifecycle of one tenant                                 *)
(* (services/core/src/core/features/sales/service.py): requests that       *)
(* create, edit, confirm, fulfil and cancel orders, each one database      *)
(* transaction at READ COMMITTED, with the stock, the invoice and the      *)
(* cost-of-goods entry they bring about.                                   *)
(*                                                                         *)
(* The whole-order stock methods are one step here: StockLedger shows that *)
(* concurrent reservations, releases and fulfilments implement atomic      *)
(* accounts. Their ledger rows are kept per order, as posted quantities.   *)
(***************************************************************************)
EXTENDS Integers, FiniteSetsExt, Functions

CONSTANTS
  Orders, Products, Customers, Requests, NoRequest, Nothing,
  Warehouses,        \* 1..n, in the order of their names
  Quantities,        \* line sets: quantity of each product, 0 for no line
  Jobs,              \* the requests clients may send
  Price, CreditLimit,\* of each product, of each customer
  InitialStock,      \* units of each product in each warehouse
  InitialStatuses,   \* what the orders may be before the run
  Managed,           \* warehouses an administrator opens and closes
  OpenAtStart,       \* warehouses active before the run
  HasCogsAccount     \* whether the chart of accounts was provisioned

Places == Warehouses \X Products

ASSUME SalesRequestAssumption == NoRequest \notin Requests
ASSUME WarehouseAssumption ==
  /\ Warehouses \subseteq Nat /\ IsFiniteSet(Warehouses)
  /\ OpenAtStart \subseteq Warehouses
(* Every order has a line, and every line a quantity (_build_lines).       *)
ASSUME QuantityAssumption ==
  /\ Quantities \subseteq [Products -> Nat]
  /\ \A q \in Quantities : \E p \in Products : q[p] # 0
ASSUME NothingAssumption == Nothing \notin Quantities \cup Customers
ASSUME JobAssumption ==
  Jobs \subseteq [kind : {"create", "update", "confirm", "fulfil", "cancel"},
                  order : Orders, lines : Quantities \cup {Nothing},
                  customer : Customers \cup {Nothing}]
ASSUME CreateAssumption ==
  \A j \in Jobs : j.kind = "create" => j.lines # Nothing /\ j.customer # Nothing
ASSUME InitialStatusAssumption ==
  InitialStatuses \subseteq [Orders -> {"absent", "draft", "confirmed"}]

VARIABLES
  status, lines, customer, credit,  \* committed erp_sales_orders and lines
  reserved, released, issued,       \* ledger rows per order: posted quantities
  invoice, cogs,                    \* committed invoice lines, COGS entry
  open,                             \* active warehouses
  archiving,                        \* those seen with nothing reserved, to be archived
  holder,                           \* who holds the row lock of the order
  inserting,                        \* who has an uncommitted invoice of it
  pc, job,                          \* of each request
  read                              \* what it read before its guard

orderVars  == <<status, lines, customer, credit>>
stockVars  == <<reserved, released, issued>>
itemVars   == <<open, archiving>>
lockVars   == <<holder, inserting>>
salesVars  == <<orderVars, stockVars, invoice, cogs, itemVars, lockVars, pc, job, read>>

NoRows   == [pl \in Places |-> 0]
NoLines  == [p \in Products |-> 0]
NothingRead == [status |-> "absent", customer |-> Nothing, total |-> 0,
                lines |-> NoLines, warehouse |-> 0]

OrderTotal(q) == SumFunction([p \in Products |-> q[p] * Price[p]])

FirstOpen(ws) == Min(ws)

(* An order that starts out confirmed has its reservation in the warehouse *)
(* that was the first active one.                                          *)
Init ==
  /\ status \in InitialStatuses
  /\ lines \in [Orders -> Quantities]
  /\ customer \in [Orders -> Customers]
  /\ credit = [o \in Orders |-> IF status[o] = "confirmed" THEN "passed" ELSE "pending"]
  /\ reserved = [o \in Orders |-> [pl \in Places |->
                   IF status[o] = "confirmed" /\ pl[1] = FirstOpen(OpenAtStart)
                   THEN lines[o][pl[2]] ELSE 0]]
  /\ \A pl \in Places :
       SumFunction([o \in Orders |-> reserved[o][pl]]) <= InitialStock[pl]
  /\ \A o \in Orders : status[o] = "confirmed" =>
       CreditLimit[customer[o]] >= OrderTotal(lines[o])
  /\ released = [o \in Orders |-> NoRows]
  /\ issued = [o \in Orders |-> NoRows]
  /\ invoice = [o \in Orders |-> Nothing]
  /\ cogs = [o \in Orders |-> FALSE]
  /\ open = OpenAtStart
  /\ archiving = {}
  /\ holder = [o \in Orders |-> NoRequest]
  /\ inserting = [o \in Orders |-> NoRequest]
  /\ pc = [r \in Requests |-> "idle"]
  /\ job \in [Requests -> Jobs]
  /\ read = [r \in Requests |-> NothingRead]

-----------------------------------------------------------------------------

Order(r) == job[r].order
Kind(r)  == job[r].kind

Held(o, pl) == reserved[o][pl] - released[o][pl]
OnHand(pl)  == InitialStock[pl] - SumFunction([o \in Orders |-> issued[o][pl]])
Reserved(pl) == SumFunction([o \in Orders |-> Held(o, pl)])

(* The lines of an order as the ledger rows they become at warehouse w.    *)
RowsAt(w, q) == [pl \in Places |-> IF pl[1] = w THEN q[pl[2]] ELSE 0]

Ended == {"replied", "refused"}

(* Fault variant: a failed request's session is never closed.              *)
Free_Keeps(f, r) == f

Free(f, r) == [o \in Orders |-> IF f[o] = r THEN NoRequest ELSE f[o]]

(* The transaction ends without its writes; only locks are given back.     *)
Refuse(r) ==
  /\ pc' = [pc EXCEPT ![r] = "refused"]
  /\ holder' = Free(holder, r)
  /\ inserting' = Free(inserting, r)
  /\ read' = [read EXCEPT ![r] = NothingRead]
  /\ UNCHANGED <<orderVars, stockVars, invoice, cogs, itemVars, job>>

(* An answer from what is already committed. The request's own session     *)
(* commits when the handler returns, so an invoice it inserted would stay. *)
Reply(r) ==
  /\ pc' = [pc EXCEPT ![r] = "replied"]
  /\ invoice' = [o \in Orders |-> IF inserting[o] = r THEN read[r].lines ELSE invoice[o]]
  /\ holder' = Free(holder, r)
  /\ inserting' = Free(inserting, r)
  /\ read' = [read EXCEPT ![r] = NothingRead]
  /\ UNCHANGED <<orderVars, stockVars, cogs, itemVars, job>>

Goto(r, where) == pc' = [pc EXCEPT ![r] = where]

-----------------------------------------------------------------------------
(* create_order and update_draft_order.                                    *)

Create(r) ==
  /\ pc[r] = "idle" /\ Kind(r) = "create"
  /\ status[Order(r)] = "absent"
  /\ status' = [status EXCEPT ![Order(r)] = "draft"]
  /\ lines' = [lines EXCEPT ![Order(r)] = job[r].lines]
  /\ customer' = [customer EXCEPT ![Order(r)] = job[r].customer]
  /\ Goto(r, "replied")
  /\ UNCHANGED <<credit, stockVars, invoice, cogs, itemVars, lockVars, job, read>>

BeginUpdate(r) ==
  /\ pc[r] = "idle" /\ Kind(r) = "update"
  /\ status[Order(r)] # "absent"
  /\ Goto(r, "guard")
  /\ UNCHANGED <<orderVars, stockVars, invoice, cogs, itemVars, lockVars, job, read>>

-----------------------------------------------------------------------------
(* What confirm, fulfil and cancel read before their guard.                *)

(* The status that makes the request a replay, and those it accepts.       *)
Target == [confirm |-> "confirmed", fulfil |-> "fulfilled", cancel |-> "cancelled"]
(* Fault variant: a PATCH of a confirmed order goes through.               *)
Source_EditConfirmed ==
  [update |-> {"draft", "confirmed"}, confirm |-> {"draft"},
   fulfil |-> {"confirmed"}, cancel |-> {"draft", "confirmed"}]

Source == [update |-> {"draft"}, confirm |-> {"draft"}, fulfil |-> {"confirmed"},
           cancel |-> {"draft", "confirmed"}]

ReadOrder(r) ==
  LET o == Order(r)
  IN  /\ pc[r] = "idle" /\ Kind(r) \in {"confirm", "fulfil", "cancel"}
      /\ status[o] \in Source[Kind(r)]
      /\ read' = [read EXCEPT ![r].status = status[o],
                              ![r].customer = customer[o],
                              ![r].total = OrderTotal(lines[o])]
      /\ Goto(r, IF Kind(r) = "cancel" THEN "guard" ELSE "lines")
      /\ UNCHANGED <<orderVars, stockVars, invoice, cogs, itemVars, lockVars, job>>

ReadReplay(r) ==
  /\ pc[r] = "idle" /\ Kind(r) \in {"confirm", "fulfil", "cancel"}
  /\ status[Order(r)] = Target[Kind(r)]
  /\ Reply(r)

ReadIllegal(r) ==
  /\ pc[r] = "idle" /\ Kind(r) \in {"confirm", "fulfil", "cancel"}
  /\ status[Order(r)] \notin Source[Kind(r)] \cup {Target[Kind(r)], "absent"}
  /\ Refuse(r)

ReadLines(r) ==
  /\ pc[r] = "lines"
  /\ read' = [read EXCEPT ![r].lines = lines[Order(r)]]
  /\ Goto(r, "warehouse")
  /\ UNCHANGED <<orderVars, stockVars, invoice, cogs, itemVars, lockVars, job>>

(* _resolve_warehouse: the first active warehouse by name, as of now.      *)
ResolveWarehouse(r) ==
  /\ pc[r] = "warehouse"
  /\ open # {}
  /\ read' = [read EXCEPT ![r].warehouse = FirstOpen(open)]
  /\ Goto(r, CASE Kind(r) = "confirm" -> "credit"
               [] Kind(r) = "fulfil" -> "probe"
               [] Kind(r) = "cancel" -> "stock")
  /\ UNCHANGED <<orderVars, stockVars, invoice, cogs, itemVars, lockVars, job>>

NoWarehouse(r) ==
  /\ pc[r] = "warehouse"
  /\ open = {}
  /\ Refuse(r)

-----------------------------------------------------------------------------
(* The credit check of confirm, on the order and customer read earlier.    *)

(* Fault variant: the verdict of the check is recorded and not heeded.     *)
CreditCheckPassed_Always(r) == TRUE

CreditCheckPassed(r) == CreditLimit[read[r].customer] >= read[r].total

CreditPasses(r) ==
  /\ pc[r] = "credit"
  /\ CreditCheckPassed(r)
  /\ Goto(r, "guard")
  /\ UNCHANGED <<orderVars, stockVars, invoice, cogs, itemVars, lockVars, job, read>>

(* mark_credit_check_failed commits the marker before the 422.             *)
CreditFails(r) ==
  /\ pc[r] = "credit"
  /\ ~CreditCheckPassed(r)
  /\ status[Order(r)] = "draft" => holder[Order(r)] = NoRequest
  /\ credit' = IF status[Order(r)] = "draft"
               THEN [credit EXCEPT ![Order(r)] = "failed"] ELSE credit
  /\ Goto(r, "refused")
  /\ read' = [read EXCEPT ![r] = NothingRead]
  /\ UNCHANGED <<status, lines, customer, stockVars, invoice, cogs, itemVars, lockVars, job>>

-----------------------------------------------------------------------------
(* create_from_order: probe by source_ref, then insert under the unique    *)
(* index. A duplicate found at the insert has already broken the session,  *)
(* so the request fails instead of returning the other invoice.            *)

ProbeInvoice(r) ==
  /\ pc[r] = "probe"
  /\ Goto(r, IF invoice[Order(r)] = Nothing THEN "invoice" ELSE "guard")
  /\ UNCHANGED <<orderVars, stockVars, invoice, cogs, itemVars, lockVars, job, read>>

(* Fault variant: finance commits the invoice it creates.                  *)
InsertInvoice_Commits(r) ==
  /\ pc[r] = "invoice"
  /\ invoice[Order(r)] = Nothing
  /\ invoice' = [invoice EXCEPT ![Order(r)] = read[r].lines]
  /\ Goto(r, "guard")
  /\ UNCHANGED <<orderVars, stockVars, cogs, itemVars, lockVars, job, read>>

InsertInvoice(r) ==
  LET o == Order(r)
  IN  /\ pc[r] = "invoice"
      /\ invoice[o] = Nothing /\ inserting[o] = NoRequest
      /\ inserting' = [inserting EXCEPT ![o] = r]
      /\ Goto(r, "guard")
      /\ UNCHANGED <<orderVars, stockVars, invoice, cogs, itemVars, holder, job, read>>

DuplicateInvoice(r) ==
  /\ pc[r] = "invoice"
  /\ invoice[Order(r)] # Nothing
  /\ Refuse(r)

-----------------------------------------------------------------------------
(* The guarded UPDATE of the order header.                                 *)

(* Fault variant: the UPDATE has no WHERE status clause.                   *)
GuardWins_AnyStatus(r) ==
  LET o == Order(r)
  IN  /\ pc[r] = "guard"
      /\ holder[o] = NoRequest
      /\ holder' = [holder EXCEPT ![o] = r]
      /\ Goto(r, CASE Kind(r) \in {"confirm", "fulfil"} -> "stock"
                   [] Kind(r) = "cancel" /\ read[r].status = "confirmed" -> "lines"
                   [] OTHER -> "commit")
      /\ UNCHANGED <<orderVars, stockVars, invoice, cogs, itemVars, inserting, job, read>>

GuardWins(r) ==
  LET o == Order(r)
  IN  /\ pc[r] = "guard"
      /\ status[o] \in Source[Kind(r)] /\ holder[o] = NoRequest
      /\ holder' = [holder EXCEPT ![o] = r]
      /\ Goto(r, CASE Kind(r) \in {"confirm", "fulfil"} -> "stock"
                   [] Kind(r) = "cancel" /\ read[r].status = "confirmed" -> "lines"
                   [] OTHER -> "commit")
      /\ UNCHANGED <<orderVars, stockVars, invoice, cogs, itemVars, inserting, job, read>>

(* Fault variant: whoever loses the guard reports success.                 *)
LostToReplay_Always(r) == TRUE

LostToReplay(r) ==
  Kind(r) # "update" /\ status[Order(r)] = Target[Kind(r)]

GuardLoses(r) ==
  /\ pc[r] = "guard"
  /\ status[Order(r)] \notin Source[Kind(r)]
  /\ IF LostToReplay(r) THEN Reply(r) ELSE Refuse(r)

-----------------------------------------------------------------------------
(* The stock port, which commits the whole transaction.                    *)

StockAccepts(r) ==
  LET o == Order(r)
      w == read[r].warehouse
      q == RowsAt(w, read[r].lines)
  IN  /\ w \in open
      /\ \A pl \in Places : q[pl] > 0 =>
           CASE Kind(r) = "confirm" ->
                  reserved[o][pl] = 0 /\ Reserved(pl) + q[pl] <= OnHand(pl)
             [] Kind(r) = "cancel" ->
                  released[o][pl] = 0 /\ Reserved(pl) >= q[pl]
             [] Kind(r) = "fulfil" ->
                  /\ released[o][pl] = 0 /\ issued[o][pl] = 0
                  /\ Reserved(pl) >= q[pl]

(* Fault variant: the movement is posted with the wrong sign.              *)
Posted_Negated(ledger, r) ==
  [ledger EXCEPT ![Order(r)] =
     [pl \in Places |-> @[pl] - RowsAt(read[r].warehouse, read[r].lines)[pl]]]

Posted(ledger, r) ==
  [ledger EXCEPT ![Order(r)] =
     [pl \in Places |-> @[pl] + RowsAt(read[r].warehouse, read[r].lines)[pl]]]

Finish(r, where) ==
  /\ Goto(r, where)
  /\ status' = [status EXCEPT ![Order(r)] = Target[Kind(r)]]
  /\ holder' = Free(holder, r)
  /\ inserting' = Free(inserting, r)
  /\ UNCHANGED <<lines, customer, cogs, itemVars, job>>

ReserveAndCommit(r) ==
  /\ pc[r] = "stock" /\ Kind(r) = "confirm"
  /\ StockAccepts(r)
  /\ reserved' = Posted(reserved, r)
  /\ credit' = [credit EXCEPT ![Order(r)] = "passed"]
  /\ read' = [read EXCEPT ![r] = NothingRead]
  /\ UNCHANGED <<released, issued, invoice>>
  /\ Finish(r, "replied")

(* Fault variant: the reservation is not drawn down by the fulfilment.     *)
ConsumeAndCommit_IssueOnly(r) ==
  /\ pc[r] = "stock" /\ Kind(r) = "fulfil"
  /\ StockAccepts(r)
  /\ issued' = Posted(issued, r)
  /\ invoice' = [invoice EXCEPT ![Order(r)] =
                   IF inserting[Order(r)] = r THEN read[r].lines ELSE @]
  /\ read' = [read EXCEPT ![r] = NothingRead]
  /\ UNCHANGED <<reserved, released, credit>>
  /\ Finish(r, "cogs")

(* One release and one issue row per line; the invoice commits with them.  *)
ConsumeAndCommit(r) ==
  /\ pc[r] = "stock" /\ Kind(r) = "fulfil"
  /\ StockAccepts(r)
  /\ released' = Posted(released, r)
  /\ issued' = Posted(issued, r)
  /\ invoice' = [invoice EXCEPT ![Order(r)] =
                   IF inserting[Order(r)] = r THEN read[r].lines ELSE @]
  /\ read' = [read EXCEPT ![r] = NothingRead]
  /\ UNCHANGED <<reserved, credit>>
  /\ Finish(r, "cogs")

ReleaseAndCommit(r) ==
  /\ pc[r] = "stock" /\ Kind(r) = "cancel"
  /\ StockAccepts(r)
  /\ released' = Posted(released, r)
  /\ read' = [read EXCEPT ![r] = NothingRead]
  /\ UNCHANGED <<reserved, issued, invoice, credit>>
  /\ Finish(r, "replied")

(* Fault variant: a refused reservation does not stop the confirmation.    *)
StockRefuses_Ignored(r) ==
  /\ pc[r] = "stock"
  /\ ~StockAccepts(r)
  /\ read' = [read EXCEPT ![r] = NothingRead]
  /\ UNCHANGED <<stockVars, invoice, credit>>
  /\ Finish(r, "replied")

StockRefuses(r) ==
  /\ pc[r] = "stock"
  /\ ~StockAccepts(r)
  /\ Refuse(r)

CommitCancel(r) ==
  /\ pc[r] = "commit" /\ Kind(r) = "cancel"
  /\ read' = [read EXCEPT ![r] = NothingRead]
  /\ UNCHANGED <<stockVars, invoice, credit>>
  /\ Finish(r, "replied")

(* A PATCH replaces the lines, the customer, both or neither.              *)
CommitUpdate(r) ==
  /\ pc[r] = "commit" /\ Kind(r) = "update"
  /\ lines' = IF job[r].lines = Nothing THEN lines
              ELSE [lines EXCEPT ![Order(r)] = job[r].lines]
  /\ customer' = IF job[r].customer = Nothing THEN customer
                 ELSE [customer EXCEPT ![Order(r)] = job[r].customer]
  /\ holder' = Free(holder, r)
  /\ Goto(r, "replied")
  /\ UNCHANGED <<status, credit, stockVars, invoice, cogs, itemVars, inserting, job, read>>

(* post_cogs_for_order runs in a second transaction of the same request.   *)
PostCogs(r) ==
  /\ pc[r] = "cogs"
  /\ HasCogsAccount
  /\ cogs' = [cogs EXCEPT ![Order(r)] = TRUE]
  /\ Goto(r, "replied")
  /\ UNCHANGED <<orderVars, stockVars, invoice, itemVars, lockVars, job, read>>

CogsAccountMissing(r) ==
  /\ pc[r] = "cogs"
  /\ ~HasCogsAccount
  /\ Refuse(r)

(* The client disconnects or the process dies; only commits survive.       *)
Lost(r) ==
  /\ pc[r] \notin Ended \cup {"idle"}
  /\ Refuse(r)

-----------------------------------------------------------------------------
(* Warehouses are archived when nothing is reserved there, reactivated,    *)
(* created or renamed: what matters is which active one comes first.  The  *)
(* SUM of the reserved quantities is read one statement before the flag is *)
(* flipped.                                                                *)

ReadReservedAt(w) ==
  /\ w \in open \ archiving
  /\ \A p \in Products : Reserved(<<w, p>>) = 0
  /\ archiving' = archiving \cup {w}
  /\ UNCHANGED <<orderVars, stockVars, invoice, cogs, open, lockVars, pc, job, read>>

CloseWarehouse(w) ==
  /\ w \in archiving
  /\ open' = open \ {w}
  /\ archiving' = archiving \ {w}
  /\ UNCHANGED <<orderVars, stockVars, invoice, cogs, lockVars, pc, job, read>>

OpenWarehouse(w) ==
  /\ w \in Warehouses \ open
  /\ open' = open \cup {w}
  /\ UNCHANGED <<orderVars, stockVars, invoice, cogs, archiving, lockVars, pc, job, read>>

-----------------------------------------------------------------------------

Step(r) ==
  \/ ReadLines(r) \/ ResolveWarehouse(r) \/ NoWarehouse(r)
  \/ CreditPasses(r) \/ CreditFails(r)
  \/ ProbeInvoice(r) \/ InsertInvoice(r) \/ DuplicateInvoice(r)
  \/ GuardWins(r) \/ GuardLoses(r)
  \/ ReserveAndCommit(r) \/ ConsumeAndCommit(r) \/ ReleaseAndCommit(r)
  \/ StockRefuses(r)
  \/ CommitCancel(r) \/ CommitUpdate(r)
  \/ PostCogs(r) \/ CogsAccountMissing(r)

Arrive(r) ==
  \/ Create(r) \/ BeginUpdate(r)
  \/ ReadOrder(r) \/ ReadReplay(r) \/ ReadIllegal(r)

Next ==
  \/ \E r \in Requests : Arrive(r) \/ Step(r) \/ Lost(r)
  \/ \E w \in Managed : ReadReservedAt(w) \/ CloseWarehouse(w) \/ OpenWarehouse(w)

Spec == Init /\ [][Next]_salesVars

FairSpec == Spec /\ \A r \in Requests : WF_salesVars(Step(r))

-----------------------------------------------------------------------------
(* Properties.                                                             *)

Statuses == {"absent", "draft", "confirmed", "fulfilled", "cancelled"}

SalesTypeOK ==
  /\ status \in [Orders -> Statuses]
  /\ lines \in [Orders -> Quantities]
  /\ customer \in [Orders -> Customers]
  /\ credit \in [Orders -> {"pending", "passed", "failed"}]
  /\ reserved \in [Orders -> [Places -> Nat]]
  /\ released \in [Orders -> [Places -> Nat]]
  /\ issued \in [Orders -> [Places -> Nat]]
  /\ invoice \in [Orders -> Quantities \cup {Nothing}]
  /\ cogs \in [Orders -> BOOLEAN]
  /\ open \subseteq Warehouses /\ archiving \subseteq Warehouses
  /\ holder \in [Orders -> Requests \cup {NoRequest}]
  /\ inserting \in [Orders -> Requests \cup {NoRequest}]
  /\ pc \in [Requests -> {"idle", "lines", "warehouse", "credit", "probe",
                          "invoice", "guard", "stock", "commit", "cogs"} \cup Ended]
  /\ job \in [Requests -> Jobs]

(* The units that left the stock under an order are the lines q, all from  *)
(* one warehouse.                                                          *)
Ships(rows, q) == \E w \in Warehouses : rows = RowsAt(w, q)

(* An order is billed if and only if it is fulfilled, its invoice lists    *)
(* its lines, and the units that left the stock are the units billed, no   *)
(* matter which fulfilments, edits and cancellations raced or crashed.     *)
BilledAsShipped ==
  \A o \in Orders :
    IF status[o] = "fulfilled"
    THEN invoice[o] = lines[o] /\ Ships(issued[o], lines[o])
    ELSE invoice[o] = Nothing /\ issued[o] = NoRows

(* Success reported for a request means the order got there: to the        *)
(* requested status, or beyond it by a later request.                      *)
Beyond == [confirmed |-> {"confirmed", "fulfilled", "cancelled"},
           fulfilled |-> {"fulfilled"}, cancelled |-> {"cancelled"}]
RepliesAreTrue ==
  \A r \in Requests :
    pc[r] = "replied" /\ Kind(r) \in {"confirm", "fulfil", "cancel"} =>
      status[Order(r)] \in Beyond[Target[Kind(r)]]

(* Units stay reserved only for confirmed, not yet fulfilled orders.       *)
ReservedOnlyForConfirmed ==
  \A o \in Orders, pl \in Places : Held(o, pl) # 0 => status[o] = "confirmed"

(* What a confirmed order asks for is what it has reserved.                *)
ConfirmedIsReserved ==
  \A o \in Orders : status[o] = "confirmed" =>
    \A p \in Products :
      SumFunction([w \in Warehouses |-> Held(o, <<w, p>>)]) = lines[o][p]

(* So the reservations are exactly the lines of the confirmed orders.      *)
ReservedAsConfirmed == ReservedOnlyForConfirmed /\ ConfirmedIsReserved

(* Nothing overtakes a confirmation. The first active warehouse stays the  *)
(* one orders were confirmed from; no draft is confirmed while it is being *)
(* cancelled; no draft is edited between the reads of its confirmation and *)
(* the commit. Where this fails, so may the properties above.              *)
Undisturbed ==
  /\ open # {} /\ FirstOpen(open) = FirstOpen(OpenAtStart)
  /\ \A r \in Requests :
       /\ Kind(r) = "cancel" /\ read[r].status = "draft" => status[Order(r)] # "confirmed"
       /\ Kind(r) = "confirm" /\ pc[r] \in {"warehouse", "credit", "guard", "stock"} =>
            read[r].lines = lines[Order(r)]

(* Clients for whom it never fails: whoever confirms an order has it to    *)
(* himself, and the warehouses are left as they are.                       *)
JobsApart ==
  /\ Managed = {} /\ OpenAtStart # {}
  /\ \A j, k \in Jobs :
       j.kind = "confirm" /\ k.kind \in {"update", "cancel"} => j.order # k.order

(* No order gets past draft while it is over its customer's credit limit.  *)
ConfirmedWithinCredit ==
  \A o \in Orders : status[o] \in {"confirmed", "fulfilled"} =>
    CreditLimit[customer[o]] >= OrderTotal(lines[o])

(* The credit check and the guard of confirm are two statements. The       *)
(* property above holds as long as a confirmation that has got the row     *)
(* finds in it the customer and the total it has checked; nothing in the   *)
(* code looks.                                                             *)
CheckStands ==
  \A r \in Requests : Kind(r) = "confirm" /\ pc[r] = "stock" =>
    /\ read[r].customer = customer[Order(r)]
    /\ read[r].total = OrderTotal(lines[Order(r)])

(* When the cost-of-goods entry cannot be posted, the order is not         *)
(* fulfilled either.                                                       *)
FulfilledHasCogs ==
  \A o \in Orders : status[o] = "fulfilled" =>
    cogs[o] \/ \E r \in Requests : Order(r) = o /\ pc[r] = "cogs"

(* An order that is fulfilled or cancelled is closed: no later request     *)
(* posts stock under its reference or changes what it says or its invoice. *)
ClosedStaysClosed ==
  [][\A o \in Orders : status[o] \in {"fulfilled", "cancelled"} =>
       UNCHANGED <<status[o], lines[o], customer[o], reserved[o], released[o], issued[o], invoice[o]>>
    ]_salesVars

(* Every request ends: lock waits on orders and invoices always resolve.   *)
EveryOrderRequestEnds ==
  \A r \in Requests : pc[r] \notin Ended \cup {"idle"} ~> pc[r] \in Ended

(* The service implements the promised lifecycle.                          *)
Shipped(rows) ==
  IF rows = NoRows THEN Nothing ELSE CHOOSE q \in Quantities : Ships(rows, q)
Lifecycle ==
  INSTANCE OrderLifecycle
    WITH billed <- invoice, shipped <- [o \in Orders |-> Shipped(issued[o])]
ImplementsLifecycle == Lifecycle!Spec
=============================================================================
