---------------------------- MODULE SalesProofs ----------------------------
(***************************************************************************)
(* Proofs about SalesOrders, for any orders, products, customers,          *)
(* warehouses, requests and jobs: an order is billed and shipped exactly   *)
(* when it is fulfilled, replies are true, a closed order stays as it is,  *)
(* and the service implements OrderLifecycle.                              *)
(***************************************************************************)
EXTENDS SalesOrders, SumTheorems

(* Open warehouses and those being archived are looked at one by one.      *)
USE DEF itemVars

Moves == {"confirm", "fulfil", "cancel"}
Totals == {0} \cup {OrderTotal(q) : q \in Quantities}
Firsts == {0} \cup {FirstOpen(ws) : ws \in (SUBSET Warehouses) \ {{}}}
Reading == [status : Statuses, customer : Customers \cup {Nothing}, total : Totals,
            lines : Quantities \cup {NoLines}, warehouse : Firsts]

(* Every variable is of its type.                                          *)
Shape == SalesTypeOK /\ read \in [Requests -> Reading]

(* Where the requests of each kind may be.                                 *)
KindAt(r) ==
  /\ pc[r] \in {"lines", "warehouse", "stock"} => Kind(r) \in Moves
  /\ pc[r] = "credit" => Kind(r) = "confirm"
  /\ pc[r] \in {"probe", "invoice", "cogs"} => Kind(r) = "fulfil"
  /\ pc[r] = "guard" => Kind(r) # "create"
  /\ pc[r] = "commit" => Kind(r) \in {"update", "cancel"}

(* Past its guard a request holds the row of its order, which therefore    *)
(* still has a status that the guard admits.                               *)
Past(r) ==
  \/ pc[r] \in {"stock", "commit"}
  \/ Kind(r) = "cancel" /\ pc[r] \in {"lines", "warehouse"}
HoldsOrder(r) == Past(r) => holder[Order(r)] = r /\ status[Order(r)] \in Source[Kind(r)]

(* A fulfilment gets to its guard with an invoice, its own or another's,   *)
(* and what it read of a confirmed order stays so.                         *)
HasInvoice(r) ==
  Kind(r) = "fulfil" /\ pc[r] \in {"guard", "stock"} =>
    inserting[Order(r)] = r \/ invoice[Order(r)] # Nothing
KnowsLines(r) ==
  Kind(r) = "fulfil" /\ pc[r] \in {"lines", "warehouse", "probe", "invoice", "guard", "stock"} =>
    /\ status[Order(r)] \in {"confirmed", "fulfilled", "cancelled"}
    /\ pc[r] # "lines" => read[r].lines = lines[Order(r)]

(* What has been reported, or is about to be, is so.                       *)
TellsTruth(r) ==
  /\ pc[r] = "cogs" => status[Order(r)] = "fulfilled"
  /\ pc[r] = "replied" /\ Kind(r) \in Moves =>
       status[Order(r)] \in Beyond[Target[Kind(r)]]

RequestOK(r) ==
  KindAt(r) /\ HoldsOrder(r) /\ HasInvoice(r) /\ KnowsLines(r) /\ TellsTruth(r)

(* The rows of an order agree, and an uncommitted invoice of it belongs to *)
(* a fulfilment of it that has not finished; none is committed then.       *)
Billed(o) ==
  IF status[o] = "fulfilled"
  THEN invoice[o] = lines[o] /\ Ships(issued[o], lines[o])
  ELSE invoice[o] = Nothing /\ issued[o] = NoRows
Inserter(o) ==
  inserting[o] # NoRequest =>
    /\ Order(inserting[o]) = o /\ Kind(inserting[o]) = "fulfil"
    /\ pc[inserting[o]] \in {"guard", "stock"}
    /\ invoice[o] = Nothing

SalesInv ==
  /\ Shape
  /\ \A r \in Requests : RequestOK(r)
  /\ \A o \in Orders : Billed(o) /\ Inserter(o)

-----------------------------------------------------------------------------
(* Types.                                                                  *)

LEMMA JobTypes ==
  ASSUME SalesTypeOK, NEW r \in Requests
  PROVE  /\ Order(r) \in Orders
         /\ Kind(r) \in {"create", "update", "confirm", "fulfil", "cancel"}
         /\ job[r].lines \in Quantities \cup {Nothing}
         /\ job[r].customer \in Customers \cup {Nothing}
         /\ Kind(r) = "create" => job[r].lines # Nothing /\ job[r].customer # Nothing
         /\ pc[r] \in {"idle", "lines", "warehouse", "credit", "probe", "invoice",
                       "guard", "stock", "commit", "cogs", "replied", "refused"}
         /\ r # NoRequest
<1>1. job[r] \in Jobs
  BY DEF SalesTypeOK
<1> QED
  BY <1>1, JobAssumption, CreateAssumption, SalesRequestAssumption
  DEF SalesTypeOK, Order, Kind, Ended

LEMMA NoRowsTypes == NoRows \in [Places -> Nat] /\ NoLines \in [Products -> Nat]
BY DEF NoRows, NoLines

LEMMA RowsTypes ==
  ASSUME NEW w, NEW q \in Quantities \cup {NoLines}
  PROVE  RowsAt(w, q) \in [Places -> Nat]
<1>1. q \in [Products -> Nat]
  BY QuantityAssumption, NoRowsTypes
<1> QED
  BY <1>1 DEF RowsAt, Places

LEMMA PostedTypes ==
  ASSUME Shape, NEW r \in Requests, NEW ledger \in [Orders -> [Places -> Nat]]
  PROVE  /\ Posted(ledger, r) \in [Orders -> [Places -> Nat]]
         /\ \A o \in Orders : o # Order(r) => Posted(ledger, r)[o] = ledger[o]
         /\ ledger[Order(r)] = NoRows =>
              Posted(ledger, r)[Order(r)] = RowsAt(read[r].warehouse, read[r].lines)
<1> DEFINE rows == RowsAt(read[r].warehouse, read[r].lines)
<1>1. Order(r) \in Orders
  BY JobTypes DEF Shape
<1>2. read[r].lines \in Quantities \cup {NoLines}
  BY DEF Shape, Reading
<1>3. rows \in [Places -> Nat]
  BY <1>2, RowsTypes
<1>4. Posted(ledger, r) =
        [ledger EXCEPT ![Order(r)] = [pl \in Places |-> @[pl] + rows[pl]]]
  BY DEF Posted
<1>5. [pl \in Places |-> ledger[Order(r)][pl] + rows[pl]] \in [Places -> Nat]
  BY <1>1, <1>3
<1>6. ledger[Order(r)] = NoRows =>
        [pl \in Places |-> ledger[Order(r)][pl] + rows[pl]] = rows
  BY <1>3 DEF NoRows
<1> HIDE DEF rows
<1>7. Posted(ledger, r) \in [Orders -> [Places -> Nat]]
  BY <1>1, <1>4, <1>5
<1>8. Posted(ledger, r)[Order(r)] = [pl \in Places |-> ledger[Order(r)][pl] + rows[pl]]
  BY <1>1, <1>4
<1>9. \A o \in Orders : o # Order(r) => Posted(ledger, r)[o] = ledger[o]
  BY <1>1, <1>4
<1> QED
  BY <1>6, <1>7, <1>8, <1>9 DEF rows

(* Giving back the locks of a request takes nothing from the others.       *)
LocksFreed(r) ==
  /\ holder' \in [Orders -> Requests \cup {NoRequest}]
  /\ inserting' \in [Orders -> Requests \cup {NoRequest}]
  /\ \A o \in Orders : holder[o] # r => holder'[o] = holder[o]
  /\ \A o \in Orders : inserting[o] # r => inserting'[o] = inserting[o]
  /\ \A o \in Orders : inserting'[o] \in {NoRequest, inserting[o]} /\ inserting'[o] # r

LEMMA FreeLocks ==
  ASSUME NEW r \in Requests, holder' = Free(holder, r), inserting' = Free(inserting, r),
         holder \in [Orders -> Requests \cup {NoRequest}],
         inserting \in [Orders -> Requests \cup {NoRequest}]
  PROVE  LocksFreed(r)
BY SalesRequestAssumption DEF Free, LocksFreed

LEMMA NothingReadTypes == NothingRead \in Reading
BY DEF NothingRead, Reading, Statuses, Totals, Firsts

-----------------------------------------------------------------------------
(* The invariant at the start.                                             *)

LEMMA SalesInit == Init => SalesInv
<1> SUFFICES ASSUME Init PROVE SalesInv
  OBVIOUS
<1>1. status \in [Orders -> {"absent", "draft", "confirmed"}]
  BY InitialStatusAssumption DEF Init
<1>2. lines \in [Orders -> [Products -> Nat]]
  BY QuantityAssumption DEF Init
<1>3. reserved \in [Orders -> [Places -> Nat]]
  <2> SUFFICES ASSUME NEW o \in Orders
               PROVE  [pl \in Places |->
                         IF status[o] = "confirmed" /\ pl[1] = FirstOpen(OpenAtStart)
                         THEN lines[o][pl[2]] ELSE 0] \in [Places -> Nat]
    BY DEF Init
  <2>1. lines[o] \in [Products -> Nat]
    BY <1>2
  <2> QED
    BY <2>1 DEF Places
<1>4. SalesTypeOK
  BY <1>1, <1>3, NoRowsTypes, WarehouseAssumption
  DEF Init, SalesTypeOK, Statuses, Ended
<1>5. Shape
  BY <1>4, NothingReadTypes DEF Init, Shape
<1>6. ASSUME NEW r \in Requests PROVE RequestOK(r)
  BY <1>6 DEF Init, RequestOK, KindAt, HoldsOrder, Past, HasInvoice, KnowsLines, TellsTruth
<1>7. ASSUME NEW o \in Orders PROVE Billed(o) /\ Inserter(o)
  BY <1>1, <1>7 DEF Init, Billed, Inserter
<1> QED
  BY <1>5, <1>6, <1>7 DEF SalesInv

-----------------------------------------------------------------------------
(* What a step of request r may do to the rows of an order, and to what    *)
(* the others have.                                                        *)

RowMoves(o, r) ==
  \/ UNCHANGED <<status[o], lines[o], invoice[o]>>
  \/ status[o] = "absent" /\ status'[o] = "draft" /\ UNCHANGED invoice[o]
  \/ /\ holder[o] = r
     /\ status[o] = "draft" /\ UNCHANGED <<status[o], invoice[o]>>
  \/ /\ holder[o] = r /\ UNCHANGED lines[o]
     /\ \/ status[o] = "draft" /\ status'[o] = "confirmed" /\ UNCHANGED invoice[o]
        \/ status[o] = "confirmed" /\ status'[o] = "fulfilled" /\ invoice'[o] # Nothing
        \/ /\ status[o] \in {"draft", "confirmed"} /\ status'[o] = "cancelled"
           /\ UNCHANGED invoice[o]

OthersRest(r) ==
  /\ job' = job
  /\ \A s \in Requests : s # r => pc'[s] = pc[s] /\ read'[s] = read[s]
  /\ \A o \in Orders : holder[o] # NoRequest /\ holder[o] # r => holder'[o] = holder[o]
  /\ \A o \in Orders : inserting[o] # NoRequest /\ inserting[o] # r =>
                         inserting'[o] = inserting[o]

(* The other requests may go on as before.                                 *)
LEMMA OthersKeep ==
  ASSUME SalesInv, NEW r \in Requests, OthersRest(r), \A o \in Orders : RowMoves(o, r),
         NEW s \in Requests, s # r
  PROVE  RequestOK(s)'
<1>1. PICK o \in Orders : o = Order(s)
  BY JobTypes DEF SalesInv, Shape
<1>2. s # NoRequest /\ Order(s)' = o /\ Kind(s)' = Kind(s)
  BY <1>1, JobTypes DEF SalesInv, Shape, OthersRest, Order, Kind
<1>3. RequestOK(s) /\ RowMoves(o, r) /\ pc'[s] = pc[s] /\ read'[s] = read[s]
  BY <1>2 DEF SalesInv, OthersRest
<1>4. KindAt(s)'
  BY <1>2, <1>3 DEF RequestOK, KindAt
<1>5. HoldsOrder(s)'
  <2> SUFFICES ASSUME Past(s)'
               PROVE  holder'[o] = s /\ status'[o] \in Source[Kind(s)]
    BY <1>2 DEF HoldsOrder
  <2>1. Past(s)
    BY <1>2, <1>3 DEF Past
  <2>2. holder[o] = s /\ status[o] \in Source[Kind(s)]
    BY <1>3, <1>1, <2>1 DEF RequestOK, HoldsOrder
  <2>3. holder'[o] = s
    BY <1>2, <2>2 DEF OthersRest
  <2>4. Kind(s) \in {"update", "confirm", "fulfil", "cancel"}
    BY <1>3, <2>1 DEF RequestOK, KindAt, Past, Moves
  <2>5. status[o] # "absent"
    BY <2>2, <2>4 DEF Source
  <2> QED
    BY <1>3, <2>2, <2>3, <2>5 DEF RowMoves
<1>6. HasInvoice(s)'
  <2> SUFFICES ASSUME Kind(s) = "fulfil", pc[s] \in {"guard", "stock"}
               PROVE  inserting'[o] = s \/ invoice'[o] # Nothing
    BY <1>2, <1>3 DEF HasInvoice
  <2>1. inserting[o] = s \/ invoice[o] # Nothing
    BY <1>3, <1>1 DEF RequestOK, HasInvoice
  <2>2. inserting[o] = s => inserting'[o] = s
    BY <1>2 DEF OthersRest
  <2>3. invoice[o] # Nothing => invoice'[o] # Nothing
    BY <1>3 DEF RowMoves
  <2> QED
    BY <2>1, <2>2, <2>3
<1>7. KnowsLines(s)'
  <2> SUFFICES ASSUME Kind(s) = "fulfil",
                      pc[s] \in {"lines", "warehouse", "probe", "invoice", "guard", "stock"}
               PROVE  /\ status'[o] \in {"confirmed", "fulfilled", "cancelled"}
                      /\ pc[s] # "lines" => read[s].lines = lines'[o]
    BY <1>2, <1>3 DEF KnowsLines
  <2>1. /\ status[o] \in {"confirmed", "fulfilled", "cancelled"}
        /\ pc[s] # "lines" => read[s].lines = lines[o]
    BY <1>3, <1>1 DEF RequestOK, KnowsLines
  <2>2. status'[o] \in {"confirmed", "fulfilled", "cancelled"} /\ lines'[o] = lines[o]
    BY <1>3, <2>1 DEF RowMoves
  <2> QED
    BY <2>1, <2>2
<1>8. TellsTruth(s)'
  <2>1. pc[s] = "cogs" => status'[o] = "fulfilled"
    BY <1>3, <1>1 DEF RequestOK, TellsTruth, RowMoves
  <2>2. ASSUME pc[s] = "replied", Kind(s) \in Moves
        PROVE  status'[o] \in Beyond[Target[Kind(s)]]
    <3>1. status[o] \in Beyond[Target[Kind(s)]]
      BY <1>3, <1>1, <2>2 DEF RequestOK, TellsTruth
    <3>2. CASE Kind(s) = "confirm"
      BY <1>3, <3>1, <3>2 DEF RowMoves, Beyond, Target
    <3>3. CASE Kind(s) = "fulfil"
      BY <1>3, <3>1, <3>3 DEF RowMoves, Beyond, Target
    <3>4. CASE Kind(s) = "cancel"
      BY <1>3, <3>1, <3>4 DEF RowMoves, Beyond, Target
    <3> QED
      BY <2>2, <3>2, <3>3, <3>4 DEF Moves
  <2> QED
    BY <1>2, <1>3, <2>1, <2>2 DEF TellsTruth
<1> QED
  BY <1>4, <1>5, <1>6, <1>7, <1>8 DEF RequestOK

(* A step that writes no order keeps the invariant if the request that     *)
(* takes it is where its kind may be and only inserts an invoice it may.   *)
LEMMA RowsRestKeep ==
  ASSUME SalesInv, NEW r \in Requests, OthersRest(r),
         UNCHANGED <<status, lines, invoice, issued>>,
         Shape', RequestOK(r)',
         \A o \in Orders : inserting'[o] \in {NoRequest, inserting[o], r},
         \A o \in Orders : inserting'[o] = r =>
           /\ Order(r) = o /\ Kind(r) = "fulfil"
           /\ pc'[r] \in {"guard", "stock"} /\ invoice[o] = Nothing
  PROVE  SalesInv'
<1>1. \A o \in Orders : RowMoves(o, r)
  BY DEF RowMoves
<1>2. \A s \in Requests : RequestOK(s)'
  BY <1>1, OthersKeep
<1>3. ASSUME NEW o \in Orders PROVE Billed(o)'
  BY <1>3 DEF SalesInv, Billed, Ships
<1>4. ASSUME NEW o \in Orders, inserting'[o] # NoRequest PROVE Inserter(o)'
  <2>1. CASE inserting'[o] = r
    BY <1>4, <2>1 DEF Inserter, OthersRest, Order, Kind
  <2>2. CASE inserting'[o] = inserting[o] /\ inserting[o] # r
    <3>1. inserting[o] \in Requests
      BY <1>4, <2>2 DEF SalesInv, Shape, SalesTypeOK
    <3>2. Inserter(o)
      BY <1>4 DEF SalesInv
    <3> QED
      BY <1>4, <2>2, <3>1, <3>2 DEF Inserter, OthersRest, Order, Kind
  <2> QED
    BY <1>4, <2>1, <2>2
<1>5. \A o \in Orders : Inserter(o)'
  BY <1>4 DEF Inserter
<1> QED
  BY <1>2, <1>3, <1>5 DEF SalesInv

(* Nothing moves but the request, to a place and with a read of the right  *)
(* types.                                                                  *)
PlacesOfRequest == {"idle", "lines", "warehouse", "credit", "probe", "invoice",
                    "guard", "stock", "commit", "cogs"} \cup Ended

LEMMA MoveKeeps ==
  ASSUME SalesInv, NEW r \in Requests, NEW where \in PlacesOfRequest, NEW x \in Reading,
         pc' = [pc EXCEPT ![r] = where], read' = [read EXCEPT ![r] = x],
         UNCHANGED <<orderVars, stockVars, invoice, cogs, itemVars, lockVars, job>>,
         pc[r] \notin {"guard", "stock"},
         RequestOK(r)'
  PROVE  SalesInv'
<1>1. Shape'
  BY DEF SalesInv, Shape, SalesTypeOK, PlacesOfRequest, orderVars, stockVars, lockVars, Ended
<1>2. OthersRest(r)
  BY DEF SalesInv, Shape, SalesTypeOK, OthersRest, lockVars
<1>3. \A o \in Orders : inserting'[o] = inserting[o] /\ inserting[o] # r
  BY SalesRequestAssumption DEF SalesInv, Inserter, lockVars
<1> QED
  BY <1>1, <1>2, <1>3, RowsRestKeep DEF orderVars, stockVars

LEMMA MovedTo ==
  ASSUME Shape, NEW r \in Requests, NEW where \in PlacesOfRequest, NEW x \in Reading,
         pc' = [pc EXCEPT ![r] = where], read' = [read EXCEPT ![r] = x], job' = job
  PROVE  /\ pc'[r] = where /\ read'[r] = x
         /\ Order(r)' = Order(r) /\ Kind(r)' = Kind(r)
         /\ Order(r) \in Orders
BY JobTypes DEF Shape, SalesTypeOK, Order, Kind

LEMMA SameRead == ASSUME Shape, NEW r \in Requests
                  PROVE  read[r] \in Reading /\ read = [read EXCEPT ![r] = read[r]]
BY DEF Shape

LEMMA BeginUpdateKeeps ==
  ASSUME SalesInv, NEW r \in Requests, BeginUpdate(r)
  PROVE  SalesInv'
<1>1. read' = [read EXCEPT ![r] = read[r]] /\ read[r] \in Reading
  BY SameRead DEF SalesInv, BeginUpdate
<1>2. pc' = [pc EXCEPT ![r] = "guard"] /\ "guard" \in PlacesOfRequest
  BY DEF BeginUpdate, Goto, PlacesOfRequest
<1>3. pc'[r] = "guard" /\ Kind(r)' = "update"
  <2>1. Shape /\ job' = job /\ Kind(r) = "update"
    BY DEF SalesInv, BeginUpdate
  <2> QED
    BY <1>1, <1>2, <2>1, MovedTo
<1>4. RequestOK(r)'
  BY <1>3 DEF RequestOK, KindAt, HoldsOrder, Past, HasInvoice, KnowsLines, TellsTruth
<1> QED
  BY <1>1, <1>2, <1>4, MoveKeeps DEF BeginUpdate

(* What a request reads of its order.                                      *)
LEMMA ReadOrderKeeps ==
  ASSUME SalesInv, NEW r \in Requests, ReadOrder(r)
  PROVE  SalesInv'
<1>1. PICK o \in Orders : o = Order(r)
  BY JobTypes DEF SalesInv, Shape
<1> DEFINE x == [read[r] EXCEPT !.status = status[o], !.customer = customer[o],
                                !.total = OrderTotal(lines[o])]
           where == IF Kind(r) = "cancel" THEN "guard" ELSE "lines"
<1>2. x \in Reading
  <2>1. read[r] \in Reading
    BY DEF SalesInv, Shape
  <2>2. status[o] \in Statuses /\ customer[o] \in Customers /\ OrderTotal(lines[o]) \in Totals
    BY <1>1 DEF SalesInv, Shape, SalesTypeOK, Totals
  <2> QED
    BY <2>1, <2>2 DEF Reading
<1>3. read' = [read EXCEPT ![r] = x] /\ pc' = [pc EXCEPT ![r] = where]
  BY <1>1 DEF ReadOrder, Goto, SalesInv, Shape
<1>4. where \in PlacesOfRequest
  BY DEF PlacesOfRequest
<1> HIDE DEF x
<1>5. pc'[r] = where /\ Kind(r)' = Kind(r) /\ Order(r)' = o
  <2>1. Shape /\ job' = job
    BY DEF SalesInv, ReadOrder
  <2> QED
    BY <1>1, <1>2, <1>3, <1>4, <2>1, MovedTo
<1>6. Kind(r) \in Moves /\ status'[o] \in Source[Kind(r)]
  BY <1>1 DEF ReadOrder, Moves, orderVars
<1>7. RequestOK(r)'
  BY <1>5, <1>6
  DEF RequestOK, KindAt, HoldsOrder, Past, HasInvoice, KnowsLines, TellsTruth, Source, Moves
<1> QED
  BY <1>2, <1>3, <1>4, <1>7, MoveKeeps DEF ReadOrder

LEMMA ReadLinesKeeps ==
  ASSUME SalesInv, NEW r \in Requests, ReadLines(r)
  PROVE  SalesInv'
<1>1. PICK o \in Orders : o = Order(r)
  BY JobTypes DEF SalesInv, Shape
<1> DEFINE x == [read[r] EXCEPT !.lines = lines[o]]
<1>2. x \in Reading /\ x.lines = lines[o]
  <2>1. read[r] \in Reading
    BY DEF SalesInv, Shape
  <2>2. lines[o] \in Quantities
    BY <1>1 DEF SalesInv, Shape, SalesTypeOK
  <2> QED
    BY <2>1, <2>2 DEF Reading
<1>3. read' = [read EXCEPT ![r] = x] /\ pc' = [pc EXCEPT ![r] = "warehouse"]
  BY <1>1 DEF ReadLines, Goto, SalesInv, Shape
<1>4. "warehouse" \in PlacesOfRequest
  BY DEF PlacesOfRequest
<1> HIDE DEF x
<1>5. pc'[r] = "warehouse" /\ Kind(r)' = Kind(r) /\ Order(r)' = o /\ read'[r] = x
  <2>1. Shape /\ job' = job
    BY DEF SalesInv, ReadLines
  <2> QED
    BY <1>1, <1>2, <1>3, <1>4, <2>1, MovedTo
<1>6. RequestOK(r) /\ pc[r] = "lines" /\ UNCHANGED <<status, lines, holder>>
  BY DEF SalesInv, ReadLines, orderVars, lockVars
<1>7. RequestOK(r)'
  <2>1. KindAt(r)' /\ HasInvoice(r)' /\ TellsTruth(r)'
    BY <1>5, <1>6 DEF RequestOK, KindAt, HasInvoice, TellsTruth
  <2>2. HoldsOrder(r)'
    BY <1>1, <1>5, <1>6 DEF RequestOK, HoldsOrder, Past
  <2>3. KnowsLines(r)'
    BY <1>1, <1>2, <1>5, <1>6 DEF RequestOK, KnowsLines
  <2> QED
    BY <2>1, <2>2, <2>3 DEF RequestOK
<1> QED
  BY <1>2, <1>3, <1>4, <1>7, MoveKeeps DEF ReadLines

LEMMA ResolveWarehouseKeeps ==
  ASSUME SalesInv, NEW r \in Requests, ResolveWarehouse(r)
  PROVE  SalesInv'
<1>1. PICK o \in Orders : o = Order(r)
  BY JobTypes DEF SalesInv, Shape
<1> DEFINE x == [read[r] EXCEPT !.warehouse = FirstOpen(open)]
           where == CASE Kind(r) = "confirm" -> "credit"
                      [] Kind(r) = "fulfil" -> "probe"
                      [] Kind(r) = "cancel" -> "stock"
<1>2. x \in Reading /\ x.lines = read[r].lines
  <2>1. FirstOpen(open) \in Firsts
    BY DEF ResolveWarehouse, SalesInv, Shape, SalesTypeOK, Firsts
  <2>2. read[r] \in Reading
    BY DEF SalesInv, Shape
  <2> QED
    BY <2>1, <2>2 DEF Reading
<1>3. read' = [read EXCEPT ![r] = x] /\ pc' = [pc EXCEPT ![r] = where]
  BY DEF ResolveWarehouse, Goto, SalesInv, Shape
<1>4. RequestOK(r) /\ pc[r] = "warehouse" /\ UNCHANGED <<status, lines, holder>>
  BY DEF SalesInv, ResolveWarehouse, orderVars, lockVars
<1>5. Kind(r) \in Moves
  BY <1>4 DEF RequestOK, KindAt
<1>6. where \in PlacesOfRequest
  BY <1>5 DEF PlacesOfRequest, Moves
<1> HIDE DEF x, where
<1>7. pc'[r] = where /\ Kind(r)' = Kind(r) /\ Order(r)' = o /\ read'[r] = x
  <2>1. Shape /\ job' = job
    BY DEF SalesInv, ResolveWarehouse
  <2> QED
    BY <1>1, <1>2, <1>3, <1>6, <2>1, MovedTo
<1>8. RequestOK(r)'
  <2>1. CASE Kind(r) = "confirm"
    BY <1>7, <2>1 DEF where, RequestOK, KindAt, HoldsOrder, Past, HasInvoice, KnowsLines, TellsTruth
  <2>2. CASE Kind(r) = "fulfil"
    <3>1. pc'[r] = "probe"
      BY <1>7, <2>2 DEF where
    <3>2. KnowsLines(r)'
      BY <1>1, <1>2, <1>4, <1>7, <2>2 DEF RequestOK, KnowsLines
    <3> QED
      BY <1>7, <2>2, <3>1, <3>2 DEF RequestOK, KindAt, HoldsOrder, Past, HasInvoice, TellsTruth
  <2>3. CASE Kind(r) = "cancel"
    <3>1. pc'[r] = "stock"
      BY <1>7, <2>3 DEF where
    <3>2. HoldsOrder(r)'
      BY <1>1, <1>4, <1>7, <2>3 DEF RequestOK, HoldsOrder, Past
    <3> QED
      BY <1>7, <2>3, <3>1, <3>2 DEF RequestOK, KindAt, HasInvoice, KnowsLines, TellsTruth, Moves
  <2> QED
    BY <1>5, <2>1, <2>2, <2>3 DEF Moves
<1>9. pc[r] \notin {"guard", "stock"}
  BY <1>4
<1> QED
  BY <1>2, <1>3, <1>6, <1>8, <1>9, MoveKeeps DEF ResolveWarehouse

LEMMA CreditPassesKeeps ==
  ASSUME SalesInv, NEW r \in Requests, CreditPasses(r)
  PROVE  SalesInv'
<1>1. read' = [read EXCEPT ![r] = read[r]] /\ read[r] \in Reading
  BY SameRead DEF SalesInv, CreditPasses
<1>2. pc' = [pc EXCEPT ![r] = "guard"] /\ "guard" \in PlacesOfRequest
  BY DEF CreditPasses, Goto, PlacesOfRequest
<1>3. Kind(r) = "confirm"
  BY DEF SalesInv, RequestOK, KindAt, CreditPasses
<1>4. pc'[r] = "guard" /\ Kind(r)' = "confirm"
  <2>1. Shape /\ job' = job
    BY DEF SalesInv, CreditPasses
  <2> QED
    BY <1>1, <1>2, <1>3, <2>1, MovedTo
<1>5. RequestOK(r)'
  BY <1>4 DEF RequestOK, KindAt, HoldsOrder, Past, HasInvoice, KnowsLines, TellsTruth
<1> QED
  BY <1>1, <1>2, <1>5, MoveKeeps DEF CreditPasses

LEMMA ProbeInvoiceKeeps ==
  ASSUME SalesInv, NEW r \in Requests, ProbeInvoice(r)
  PROVE  SalesInv'
<1>1. PICK o \in Orders : o = Order(r)
  BY JobTypes DEF SalesInv, Shape
<1> DEFINE where == IF invoice[o] = Nothing THEN "invoice" ELSE "guard"
<1>2. read' = [read EXCEPT ![r] = read[r]] /\ read[r] \in Reading
  BY SameRead DEF SalesInv, ProbeInvoice
<1>3. pc' = [pc EXCEPT ![r] = where] /\ where \in PlacesOfRequest
  BY <1>1 DEF ProbeInvoice, Goto, PlacesOfRequest
<1>4. /\ RequestOK(r) /\ pc[r] = "probe" /\ Kind(r) = "fulfil"
      /\ UNCHANGED <<status, lines, invoice>>
  BY DEF SalesInv, ProbeInvoice, orderVars, RequestOK, KindAt
<1>5. pc'[r] = where /\ Kind(r)' = "fulfil" /\ Order(r)' = o /\ read'[r] = read[r]
  <2>1. Shape /\ job' = job
    BY DEF SalesInv, ProbeInvoice
  <2> QED
    BY <1>1, <1>2, <1>3, <1>4, <2>1, MovedTo
<1>6. RequestOK(r)'
  <2>1. KnowsLines(r)'
    BY <1>1, <1>4, <1>5 DEF RequestOK, KnowsLines
  <2>2. HasInvoice(r)'
    BY <1>4, <1>5 DEF HasInvoice
  <2> QED
    BY <1>5, <2>1, <2>2 DEF RequestOK, KindAt, HoldsOrder, Past, TellsTruth
<1> QED
  BY <1>2, <1>3, <1>4, <1>6, MoveKeeps DEF ProbeInvoice

-----------------------------------------------------------------------------
(* Requests that end, or take a lock.                                      *)

LEMMA RefuseKeeps ==
  ASSUME SalesInv, NEW r \in Requests, Refuse(r)
  PROVE  SalesInv'
<1>1. pc' = [pc EXCEPT ![r] = "refused"] /\ read' = [read EXCEPT ![r] = NothingRead]
  BY DEF Refuse
<1>2. "refused" \in PlacesOfRequest /\ NothingRead \in Reading
  BY NothingReadTypes DEF PlacesOfRequest, Ended
<1>3. pc'[r] = "refused"
  <2>1. Shape /\ job' = job
    BY DEF SalesInv, Refuse
  <2> QED
    BY <1>1, <1>2, <2>1, MovedTo
<1>4. RequestOK(r)'
  BY <1>3 DEF RequestOK, KindAt, HoldsOrder, Past, HasInvoice, KnowsLines, TellsTruth
<1>5. /\ holder \in [Orders -> Requests \cup {NoRequest}] /\ holder' = Free(holder, r)
      /\ inserting \in [Orders -> Requests \cup {NoRequest}] /\ inserting' = Free(inserting, r)
  BY DEF SalesInv, Shape, SalesTypeOK, Refuse
<1>6. LocksFreed(r)
  BY <1>5, FreeLocks
<1>7. Shape'
  BY <1>1, <1>2, <1>6
  DEF SalesInv, Shape, SalesTypeOK, Refuse, orderVars, stockVars, Ended, LocksFreed
<1>8. OthersRest(r)
  BY <1>1, <1>6 DEF SalesInv, Shape, SalesTypeOK, OthersRest, Refuse, LocksFreed
<1> QED
  BY <1>4, <1>6, <1>7, <1>8, RowsRestKeep DEF Refuse, orderVars, stockVars, LocksFreed

(* A request that finds its order where it wanted it has no invoice of its *)
(* own that its commit would add.                                          *)
LEMMA ReplyAdds ==
  ASSUME SalesInv, NEW r \in Requests, Reply(r),
         pc[r] = "idle" \/ (Kind(r) \in Moves /\ status[Order(r)] = Target[Kind(r)])
  PROVE  invoice' = invoice /\ \A o \in Orders : inserting[o] # r
<1>1. \A o \in Orders : inserting[o] # r
  <2> SUFFICES ASSUME NEW o \in Orders, inserting[o] = r PROVE FALSE
    OBVIOUS
  <2>1. Order(r) = o /\ Kind(r) = "fulfil" /\ pc[r] # "idle" /\ invoice[o] = Nothing
    BY SalesRequestAssumption DEF SalesInv, Inserter
  <2>2. status[o] = "fulfilled"
    BY <2>1 DEF Target
  <2>3. invoice[o] = lines[o] /\ lines[o] \in Quantities
    BY <2>2 DEF SalesInv, Billed, Shape, SalesTypeOK
  <2> QED
    BY <2>1, <2>3, NothingAssumption
<1> QED
  BY <1>1 DEF Reply, SalesInv, Shape, SalesTypeOK

LEMMA ReplyKeeps ==
  ASSUME SalesInv, NEW r \in Requests, Reply(r),
         Kind(r) \in Moves, status[Order(r)] = Target[Kind(r)]
  PROVE  SalesInv'
<1>1. PICK o \in Orders : o = Order(r)
  BY JobTypes DEF SalesInv, Shape
<1>2. /\ pc' = [pc EXCEPT ![r] = "replied"] /\ read' = [read EXCEPT ![r] = NothingRead]
      /\ UNCHANGED <<status, lines, issued, job>>
  BY DEF Reply, orderVars, stockVars
<1>3. "replied" \in PlacesOfRequest /\ NothingRead \in Reading
  BY NothingReadTypes DEF PlacesOfRequest, Ended
<1>4. pc'[r] = "replied" /\ Kind(r)' = Kind(r) /\ Order(r)' = o
  BY <1>1, <1>2, <1>3, MovedTo DEF SalesInv
<1>5. invoice' = invoice
  BY ReplyAdds
<1>6. RequestOK(r)'
  <2>1. status[o] \in Beyond[Target[Kind(r)]]
    BY <1>1 DEF Moves, Beyond, Target
  <2> QED
    BY <1>2, <1>4, <2>1
    DEF RequestOK, KindAt, HoldsOrder, Past, HasInvoice, KnowsLines, TellsTruth
<1>7. /\ holder \in [Orders -> Requests \cup {NoRequest}] /\ holder' = Free(holder, r)
      /\ inserting \in [Orders -> Requests \cup {NoRequest}] /\ inserting' = Free(inserting, r)
  BY DEF SalesInv, Shape, SalesTypeOK, Reply
<1>8. LocksFreed(r)
  BY <1>7, FreeLocks
<1>9. Shape'
  BY <1>2, <1>3, <1>5, <1>8
  DEF SalesInv, Shape, SalesTypeOK, Reply, orderVars, stockVars, Ended, LocksFreed
<1>10. OthersRest(r)
  BY <1>2, <1>8 DEF SalesInv, Shape, SalesTypeOK, OthersRest, LocksFreed
<1> QED
  BY <1>2, <1>5, <1>6, <1>8, <1>9, <1>10, RowsRestKeep DEF LocksFreed

LEMMA CreditFailsKeeps ==
  ASSUME SalesInv, NEW r \in Requests, CreditFails(r)
  PROVE  SalesInv'
<1>1. pc' = [pc EXCEPT ![r] = "refused"] /\ read' = [read EXCEPT ![r] = NothingRead]
  BY DEF CreditFails, Goto
<1>2. "refused" \in PlacesOfRequest /\ NothingRead \in Reading
  BY NothingReadTypes DEF PlacesOfRequest, Ended
<1>3. pc'[r] = "refused"
  <2>1. Shape /\ job' = job
    BY DEF SalesInv, CreditFails
  <2> QED
    BY <1>1, <1>2, <2>1, MovedTo
<1>4. RequestOK(r)'
  BY <1>3 DEF RequestOK, KindAt, HoldsOrder, Past, HasInvoice, KnowsLines, TellsTruth
<1>5. credit' \in [Orders -> {"pending", "passed", "failed"}]
  BY JobTypes DEF CreditFails, SalesInv, Shape, SalesTypeOK
<1>6. Shape'
  BY <1>1, <1>2, <1>5
  DEF SalesInv, Shape, SalesTypeOK, CreditFails, stockVars, lockVars, Ended
<1>7. OthersRest(r)
  BY <1>1 DEF SalesInv, Shape, SalesTypeOK, OthersRest, CreditFails, lockVars
<1>8. \A o \in Orders : inserting'[o] = inserting[o] /\ inserting[o] # r
  BY SalesRequestAssumption DEF SalesInv, Inserter, CreditFails, lockVars
<1> QED
  BY <1>4, <1>6, <1>7, <1>8, RowsRestKeep DEF CreditFails, stockVars

LEMMA PostCogsKeeps ==
  ASSUME SalesInv, NEW r \in Requests, PostCogs(r)
  PROVE  SalesInv'
<1>1. PICK o \in Orders : o = Order(r)
  BY JobTypes DEF SalesInv, Shape
<1>2. /\ pc' = [pc EXCEPT ![r] = "replied"] /\ read' = [read EXCEPT ![r] = read[r]]
      /\ read[r] \in Reading /\ "replied" \in PlacesOfRequest
  BY SameRead DEF SalesInv, PostCogs, Goto, PlacesOfRequest, Ended
<1>3. pc'[r] = "replied" /\ Kind(r)' = Kind(r) /\ Order(r)' = o
  <2>1. Shape /\ job' = job
    BY DEF SalesInv, PostCogs
  <2> QED
    BY <1>1, <1>2, <2>1, MovedTo
<1>4. /\ Kind(r) = "fulfil" /\ status[o] = "fulfilled"
      /\ UNCHANGED <<status, lines, issued, invoice, job>>
  BY <1>1 DEF SalesInv, RequestOK, KindAt, TellsTruth, PostCogs, orderVars, stockVars
<1>5. RequestOK(r)'
  BY <1>3, <1>4
  DEF RequestOK, KindAt, HoldsOrder, Past, HasInvoice, KnowsLines, TellsTruth, Beyond, Target
<1>6. cogs' \in [Orders -> BOOLEAN]
  BY DEF PostCogs, SalesInv, Shape, SalesTypeOK
<1>7. Shape'
  BY <1>2, <1>6
  DEF SalesInv, Shape, SalesTypeOK, PostCogs, orderVars, stockVars, lockVars, Ended
<1>8. OthersRest(r)
  BY <1>2 DEF SalesInv, Shape, SalesTypeOK, OthersRest, PostCogs, lockVars
<1>9. \A k \in Orders : inserting'[k] = inserting[k] /\ inserting[k] # r
  BY SalesRequestAssumption DEF SalesInv, Inserter, PostCogs, lockVars
<1> QED
  BY <1>4, <1>5, <1>7, <1>8, <1>9, RowsRestKeep

LEMMA InsertInvoiceKeeps ==
  ASSUME SalesInv, NEW r \in Requests, InsertInvoice(r)
  PROVE  SalesInv'
<1>1. PICK o \in Orders : o = Order(r)
  BY JobTypes DEF SalesInv, Shape
<1>2. /\ pc' = [pc EXCEPT ![r] = "guard"] /\ read' = [read EXCEPT ![r] = read[r]]
      /\ read[r] \in Reading /\ "guard" \in PlacesOfRequest
  BY SameRead DEF SalesInv, InsertInvoice, Goto, PlacesOfRequest
<1>3. pc'[r] = "guard" /\ Kind(r)' = Kind(r) /\ Order(r)' = o /\ read'[r] = read[r]
  <2>1. Shape /\ job' = job
    BY DEF SalesInv, InsertInvoice
  <2> QED
    BY <1>1, <1>2, <2>1, MovedTo
<1>4. /\ RequestOK(r) /\ pc[r] = "invoice" /\ Kind(r) = "fulfil"
      /\ UNCHANGED <<status, lines, issued, invoice, job, holder>>
  BY DEF SalesInv, RequestOK, KindAt, InsertInvoice, orderVars, stockVars
<1>5. /\ inserting' = [inserting EXCEPT ![o] = r] /\ inserting[o] = NoRequest
      /\ invoice[o] = Nothing /\ inserting \in [Orders -> Requests \cup {NoRequest}]
  BY <1>1 DEF InsertInvoice, SalesInv, Shape, SalesTypeOK
<1>6. RequestOK(r)'
  <2>1. KnowsLines(r)'
    BY <1>1, <1>3, <1>4 DEF RequestOK, KnowsLines
  <2>2. HasInvoice(r)'
    BY <1>3, <1>5 DEF HasInvoice
  <2> QED
    BY <1>3, <1>4, <2>1, <2>2 DEF RequestOK, KindAt, HoldsOrder, Past, TellsTruth
<1>7. Shape'
  <2>1. inserting' \in [Orders -> Requests \cup {NoRequest}]
    BY <1>5
  <2>2. UNCHANGED <<orderVars, stockVars, invoice, cogs, itemVars, holder, job>>
    BY DEF InsertInvoice
  <2> QED
    BY <1>2, <2>1, <2>2
    DEF SalesInv, Shape, SalesTypeOK, orderVars, stockVars, PlacesOfRequest
<1>8. OthersRest(r)
  BY <1>2, <1>4, <1>5 DEF SalesInv, Shape, SalesTypeOK, OthersRest
<1>9. \A k \in Orders : k # o => inserting'[k] = inserting[k] /\ inserting[k] # r
  BY <1>4, <1>5, SalesRequestAssumption DEF SalesInv, Inserter
<1>10. inserting'[o] = r
  BY <1>5
<1>11. \A k \in Orders : inserting'[k] \in {NoRequest, inserting[k], r}
  BY <1>9, <1>10
<1>12. \A k \in Orders : inserting'[k] = r =>
         /\ Order(r) = k /\ Kind(r) = "fulfil"
         /\ pc'[r] \in {"guard", "stock"} /\ invoice[k] = Nothing
  BY <1>1, <1>3, <1>4, <1>5, <1>9
<1> QED
  BY <1>4, <1>6, <1>7, <1>8, <1>11, <1>12, RowsRestKeep

LEMMA GuardWinsKeeps ==
  ASSUME SalesInv, NEW r \in Requests, GuardWins(r)
  PROVE  SalesInv'
<1>1. PICK o \in Orders : o = Order(r)
  BY JobTypes DEF SalesInv, Shape
<1> DEFINE where == CASE Kind(r) \in {"confirm", "fulfil"} -> "stock"
                      [] Kind(r) = "cancel" /\ read[r].status = "confirmed" -> "lines"
                      [] OTHER -> "commit"
<1>2. /\ pc' = [pc EXCEPT ![r] = where] /\ read' = [read EXCEPT ![r] = read[r]]
      /\ read[r] \in Reading
  BY SameRead DEF SalesInv, GuardWins, Goto
<1>3. where \in PlacesOfRequest
  BY DEF PlacesOfRequest
<1>4. /\ RequestOK(r) /\ pc[r] = "guard" /\ status[o] \in Source[Kind(r)]
      /\ UNCHANGED <<status, lines, issued, invoice, job, inserting>>
  BY <1>1 DEF SalesInv, GuardWins, orderVars, stockVars
<1>5. Kind(r) \in {"update", "confirm", "fulfil", "cancel"}
  BY <1>4, JobTypes DEF SalesInv, Shape, RequestOK, KindAt
<1>6. /\ where \in {"stock", "lines", "commit"}
      /\ where = "stock" <=> Kind(r) \in {"confirm", "fulfil"}
      /\ where = "lines" => Kind(r) = "cancel"
      /\ where = "commit" => Kind(r) \in {"update", "cancel"}
  BY <1>5
<1> HIDE DEF where
<1>7. pc'[r] = where /\ Kind(r)' = Kind(r) /\ Order(r)' = o /\ read'[r] = read[r]
  BY <1>1, <1>2, <1>3, <1>4, MovedTo DEF SalesInv
<1>8. /\ holder' = [holder EXCEPT ![o] = r] /\ holder[o] = NoRequest
      /\ holder \in [Orders -> Requests \cup {NoRequest}]
  BY <1>1 DEF GuardWins, SalesInv, Shape, SalesTypeOK
<1>9. RequestOK(r)'
  <2>1. KnowsLines(r)'
    BY <1>1, <1>4, <1>6, <1>7 DEF RequestOK, KnowsLines
  <2>2. HasInvoice(r)'
    BY <1>1, <1>4, <1>6, <1>7 DEF RequestOK, HasInvoice
  <2>3. HoldsOrder(r)'
    BY <1>4, <1>7, <1>8 DEF HoldsOrder
  <2>4. KindAt(r)' /\ TellsTruth(r)'
    BY <1>6, <1>7 DEF KindAt, TellsTruth, Moves
  <2> QED
    BY <2>1, <2>2, <2>3, <2>4 DEF RequestOK
<1>10. Shape'
  <2>1. holder' \in [Orders -> Requests \cup {NoRequest}]
    BY <1>8
  <2>2. UNCHANGED <<orderVars, stockVars, invoice, cogs, itemVars, inserting, job>>
    BY DEF GuardWins
  <2> QED
    BY <1>2, <1>3, <2>1, <2>2
    DEF SalesInv, Shape, SalesTypeOK, orderVars, stockVars, PlacesOfRequest
<1>11. OthersRest(r)
  BY <1>2, <1>4, <1>8 DEF SalesInv, Shape, SalesTypeOK, OthersRest
<1>12. ASSUME NEW k \in Orders, inserting[k] = r
       PROVE  /\ Order(r) = k /\ Kind(r) = "fulfil"
              /\ pc'[r] \in {"guard", "stock"} /\ invoice[k] = Nothing
  <2>1. Inserter(k) /\ r # NoRequest
    BY SalesRequestAssumption DEF SalesInv
  <2> QED
    BY <1>6, <1>7, <1>12, <2>1 DEF Inserter
<1> QED
  BY <1>4, <1>9, <1>10, <1>11, <1>12, RowsRestKeep

-----------------------------------------------------------------------------
(* The steps that write an order.                                          *)

LEMMA WriteKeeps ==
  ASSUME SalesInv, NEW r \in Requests, NEW o \in Orders, OthersRest(r), RowMoves(o, r),
         \A k \in Orders : k # o =>
           UNCHANGED <<status[k], lines[k], invoice[k], issued[k]>>,
         Shape', RequestOK(r)', Billed(o)',
         \A k \in Orders : inserting'[k] \in {NoRequest, inserting[k]} /\ inserting'[k] # r,
         inserting'[o] = NoRequest \/ UNCHANGED invoice[o]
  PROVE  SalesInv'
<1>1. \A k \in Orders : RowMoves(k, r)
  BY DEF RowMoves
<1>2. \A s \in Requests : RequestOK(s)'
  BY <1>1, OthersKeep
<1>3. ASSUME NEW k \in Orders PROVE Billed(k)'
  BY <1>3 DEF SalesInv, Billed, Ships
<1>4. ASSUME NEW k \in Orders, inserting'[k] # NoRequest PROVE Inserter(k)'
  <2>1. inserting'[k] = inserting[k] /\ inserting[k] # r /\ inserting[k] \in Requests
    BY <1>4 DEF SalesInv, Shape, SalesTypeOK
  <2>2. Inserter(k) /\ invoice'[k] = invoice[k]
    BY <1>4 DEF SalesInv
  <2> QED
    BY <1>4, <2>1, <2>2 DEF Inserter, OthersRest, Order, Kind
<1>5. \A k \in Orders : Inserter(k)'
  BY <1>4 DEF Inserter
<1> QED
  BY <1>2, <1>3, <1>5 DEF SalesInv

LEMMA CreateKeeps ==
  ASSUME SalesInv, NEW r \in Requests, Create(r)
  PROVE  SalesInv'
<1>1. PICK o \in Orders : o = Order(r)
  BY JobTypes DEF SalesInv, Shape
<1>2. /\ pc' = [pc EXCEPT ![r] = "replied"] /\ read' = [read EXCEPT ![r] = read[r]]
      /\ read[r] \in Reading /\ "replied" \in PlacesOfRequest
  BY SameRead DEF SalesInv, Create, Goto, PlacesOfRequest, Ended
<1>3. pc'[r] = "replied" /\ Kind(r)' = "create"
  <2>1. Shape /\ job' = job /\ Kind(r) = "create"
    BY DEF SalesInv, Create
  <2> QED
    BY <1>1, <1>2, <2>1, MovedTo
<1>4. RequestOK(r)'
  BY <1>3 DEF RequestOK, KindAt, HoldsOrder, Past, HasInvoice, KnowsLines, TellsTruth, Moves
<1>5. /\ status' = [status EXCEPT ![o] = "draft"] /\ status[o] = "absent"
      /\ lines' = [lines EXCEPT ![o] = job[r].lines]
      /\ customer' = [customer EXCEPT ![o] = job[r].customer]
      /\ job[r].lines \in Quantities /\ job[r].customer \in Customers
  BY <1>1, JobTypes DEF SalesInv, Shape, Create
<1>6. Shape'
  BY <1>2, <1>5
  DEF SalesInv, Shape, SalesTypeOK, Create, stockVars, lockVars, Ended, Statuses
<1>7. OthersRest(r)
  BY <1>2 DEF SalesInv, Shape, SalesTypeOK, OthersRest, Create, lockVars
<1>8. /\ \A k \in Orders : k # o => UNCHANGED <<status[k], lines[k], invoice[k], issued[k]>>
      /\ status'[o] = "draft" /\ UNCHANGED <<invoice, issued, inserting>>
  BY <1>5 DEF SalesInv, Shape, SalesTypeOK, Create, stockVars, lockVars
<1>9. RowMoves(o, r)
  BY <1>5, <1>8 DEF RowMoves
<1>10. Billed(o)'
  BY <1>5, <1>8 DEF SalesInv, Billed
<1>11. \A k \in Orders : inserting[k] # r
  BY SalesRequestAssumption DEF SalesInv, Inserter, Create
<1> QED
  BY <1>4, <1>6, <1>7, <1>8, <1>9, <1>10, <1>11, WriteKeeps

LEMMA CommitUpdateKeeps ==
  ASSUME SalesInv, NEW r \in Requests, CommitUpdate(r)
  PROVE  SalesInv'
<1>1. PICK o \in Orders : o = Order(r)
  BY JobTypes DEF SalesInv, Shape
<1>2. /\ pc' = [pc EXCEPT ![r] = "replied"] /\ read' = [read EXCEPT ![r] = read[r]]
      /\ read[r] \in Reading /\ "replied" \in PlacesOfRequest
  BY SameRead DEF SalesInv, CommitUpdate, Goto, PlacesOfRequest, Ended
<1>3. pc'[r] = "replied" /\ Kind(r)' = "update"
  <2>1. Shape /\ job' = job /\ Kind(r) = "update"
    BY DEF SalesInv, CommitUpdate
  <2> QED
    BY <1>1, <1>2, <2>1, MovedTo
<1>4. RequestOK(r)'
  BY <1>3 DEF RequestOK, KindAt, HoldsOrder, Past, HasInvoice, KnowsLines, TellsTruth, Moves
<1>5. holder[o] = r /\ status[o] = "draft"
  BY <1>1 DEF CommitUpdate, SalesInv, RequestOK, HoldsOrder, Past, Source
<1>6. /\ lines' \in [Orders -> Quantities] /\ customer' \in [Orders -> Customers]
      /\ \A k \in Orders : k # o => lines'[k] = lines[k]
  BY <1>1, JobTypes DEF SalesInv, Shape, SalesTypeOK, CommitUpdate
<1>7. /\ holder' = Free(holder, r) /\ holder \in [Orders -> Requests \cup {NoRequest}]
      /\ \A k \in Orders : inserting[k] # r
  BY SalesRequestAssumption DEF SalesInv, Shape, SalesTypeOK, Inserter, CommitUpdate
<1>8. /\ holder' \in [Orders -> Requests \cup {NoRequest}]
      /\ \A k \in Orders : holder[k] # r => holder'[k] = holder[k]
  BY <1>7 DEF Free
<1>9. Shape'
  BY <1>2, <1>6, <1>8
  DEF SalesInv, Shape, SalesTypeOK, CommitUpdate, stockVars, Ended
<1>10. OthersRest(r)
  BY <1>2, <1>8 DEF SalesInv, Shape, SalesTypeOK, OthersRest, CommitUpdate
<1>11. UNCHANGED <<status, invoice, issued, inserting>>
  BY DEF CommitUpdate, stockVars
<1>12. RowMoves(o, r)
  BY <1>5, <1>11 DEF RowMoves
<1>13. Billed(o)'
  BY <1>5, <1>11 DEF SalesInv, Billed
<1> QED
  BY <1>4, <1>6, <1>7, <1>9, <1>10, <1>11, <1>12, <1>13, WriteKeeps

(* The transaction of confirm, fulfil or cancel commits.                   *)
LEMMA FinishKeeps ==
  ASSUME SalesInv, NEW r \in Requests, NEW o \in Orders, o = Order(r),
         pc[r] \in {"stock", "commit"}, Kind(r) \in Moves,
         NEW where \in {"replied", "cogs"}, Finish(r, where),
         where = "cogs" => Kind(r) = "fulfil",
         read' = [read EXCEPT ![r] = NothingRead],
         credit' \in [Orders -> {"pending", "passed", "failed"}],
         reserved' \in [Orders -> [Places -> Nat]],
         released' \in [Orders -> [Places -> Nat]],
         issued' \in [Orders -> [Places -> Nat]],
         invoice' \in [Orders -> Quantities \cup {Nothing}],
         \A k \in Orders : k # o => UNCHANGED <<invoice[k], issued[k]>>,
         IF Kind(r) = "fulfil" THEN invoice'[o] # Nothing /\ inserting[o] = r
                               ELSE UNCHANGED invoice[o],
         Billed(o)'
  PROVE  SalesInv'
<1>1. /\ pc' = [pc EXCEPT ![r] = where] /\ status' = [status EXCEPT ![o] = Target[Kind(r)]]
      /\ holder' = Free(holder, r) /\ inserting' = Free(inserting, r)
      /\ UNCHANGED <<lines, customer, cogs, itemVars, job>>
  BY DEF Finish, Goto
<1>2. where \in PlacesOfRequest /\ NothingRead \in Reading
  BY NothingReadTypes DEF PlacesOfRequest, Ended
<1>3. pc'[r] = where /\ Kind(r)' = Kind(r) /\ Order(r)' = o
  BY <1>1, <1>2, MovedTo DEF SalesInv
<1>4. /\ holder \in [Orders -> Requests \cup {NoRequest}]
      /\ inserting \in [Orders -> Requests \cup {NoRequest}]
      /\ status \in [Orders -> Statuses]
  BY DEF SalesInv, Shape, SalesTypeOK
<1>5. LocksFreed(r)
  BY <1>1, <1>4, FreeLocks
<1>6. holder[o] = r /\ status[o] \in Source[Kind(r)]
  BY DEF SalesInv, RequestOK, HoldsOrder, Past
<1>7. Target[Kind(r)] \in Statuses
  BY DEF Target, Statuses, Moves
<1>8. /\ status' \in [Orders -> Statuses] /\ status'[o] = Target[Kind(r)]
      /\ \A k \in Orders : k # o => status'[k] = status[k]
  BY <1>1, <1>4, <1>7
<1>9. RequestOK(r)'
  <2>1. where = "cogs" => status'[o] = "fulfilled"
    BY <1>8 DEF Target
  <2>2. status'[o] \in Beyond[Target[Kind(r)]]
    BY <1>8 DEF Target, Beyond, Moves
  <2> QED
    BY <1>3, <2>1, <2>2
    DEF RequestOK, KindAt, HoldsOrder, Past, HasInvoice, KnowsLines, TellsTruth
<1>10. Shape'
  BY <1>1, <1>2, <1>5, <1>8
  DEF SalesInv, Shape, SalesTypeOK, LocksFreed, PlacesOfRequest
<1>11. OthersRest(r)
  BY <1>1, <1>5 DEF SalesInv, Shape, SalesTypeOK, OthersRest, LocksFreed
<1>12. RowMoves(o, r)
  <2>1. CASE Kind(r) = "confirm"
    BY <1>1, <1>6, <1>8, <2>1 DEF RowMoves, Source, Target
  <2>2. CASE Kind(r) = "fulfil"
    BY <1>1, <1>6, <1>8, <2>2 DEF RowMoves, Source, Target
  <2>3. CASE Kind(r) = "cancel"
    BY <1>1, <1>6, <1>8, <2>3 DEF RowMoves, Source, Target
  <2> QED
    BY <2>1, <2>2, <2>3 DEF Moves
<1>13. \A k \in Orders : k # o => UNCHANGED <<status[k], lines[k], invoice[k], issued[k]>>
  BY <1>1, <1>8
<1>14. inserting'[o] = NoRequest \/ UNCHANGED invoice[o]
  BY <1>5 DEF LocksFreed
<1>15. \A k \in Orders : inserting'[k] \in {NoRequest, inserting[k]} /\ inserting'[k] # r
  BY <1>5 DEF LocksFreed
<1> QED
  BY <1>9, <1>10, <1>11, <1>12, <1>13, <1>14, <1>15, WriteKeeps

(* What holds of an order about to be confirmed, fulfilled or cancelled.   *)
LEMMA AtCommit ==
  ASSUME SalesInv, NEW r \in Requests, NEW o \in Orders, o = Order(r),
         pc[r] \in {"stock", "commit"}, Kind(r) \in Moves
  PROVE  /\ holder[o] = r /\ status[o] \in Source[Kind(r)]
         /\ status[o] \in {"draft", "confirmed"}
         /\ invoice[o] = Nothing /\ issued[o] = NoRows
         /\ Kind(r) = "fulfil" => inserting[o] = r /\ read[r].lines = lines[o]
<1>1. RequestOK(r) /\ Billed(o)
  BY DEF SalesInv
<1>2. holder[o] = r /\ status[o] \in Source[Kind(r)]
  BY <1>1 DEF RequestOK, HoldsOrder, Past
<1>3. status[o] \in {"draft", "confirmed"}
  BY <1>2 DEF Source, Moves
<1>4. invoice[o] = Nothing /\ issued[o] = NoRows
  BY <1>1, <1>3 DEF Billed
<1>5. Kind(r) = "fulfil" => pc[r] = "stock"
  BY <1>1 DEF RequestOK, KindAt
<1>6. Kind(r) = "fulfil" => inserting[o] = r
  BY <1>1, <1>4, <1>5 DEF RequestOK, HasInvoice
<1>7. Kind(r) = "fulfil" => read[r].lines = lines[o]
  BY <1>1, <1>5 DEF RequestOK, KnowsLines
<1> QED
  BY <1>2, <1>3, <1>4, <1>6, <1>7

LEMMA ReserveKeeps ==
  ASSUME SalesInv, NEW r \in Requests, ReserveAndCommit(r)
  PROVE  SalesInv'
<1>1. PICK o \in Orders : o = Order(r)
  BY JobTypes DEF SalesInv, Shape
<1>2. /\ pc[r] = "stock" /\ Kind(r) = "confirm" /\ Finish(r, "replied")
      /\ read' = [read EXCEPT ![r] = NothingRead]
      /\ UNCHANGED <<released, issued, invoice>>
  BY DEF ReserveAndCommit
<1>3. /\ invoice[o] = Nothing /\ issued[o] = NoRows
      /\ status'[o] = "confirmed"
  BY <1>1, <1>2, AtCommit DEF Moves, Finish, Target, SalesInv, Shape, SalesTypeOK
<1>4. reserved' \in [Orders -> [Places -> Nat]]
  BY PostedTypes DEF ReserveAndCommit, SalesInv, Shape, SalesTypeOK
<1>5. credit' \in [Orders -> {"pending", "passed", "failed"}]
  BY DEF ReserveAndCommit, SalesInv, Shape, SalesTypeOK
<1>6. Billed(o)'
  BY <1>2, <1>3 DEF Billed
<1>7. /\ released' \in [Orders -> [Places -> Nat]] /\ issued' \in [Orders -> [Places -> Nat]]
      /\ invoice' \in [Orders -> Quantities \cup {Nothing}] /\ "confirm" \in Moves
  BY <1>2 DEF SalesInv, Shape, SalesTypeOK, Moves
<1> QED
  BY <1>1, <1>2, <1>4, <1>5, <1>6, <1>7, FinishKeeps

LEMMA ConsumeKeeps ==
  ASSUME SalesInv, NEW r \in Requests, ConsumeAndCommit(r)
  PROVE  SalesInv'
<1>1. PICK o \in Orders : o = Order(r)
  BY JobTypes DEF SalesInv, Shape
<1>2. /\ pc[r] = "stock" /\ Kind(r) = "fulfil" /\ Finish(r, "cogs")
      /\ read' = [read EXCEPT ![r] = NothingRead]
      /\ released' = Posted(released, r) /\ issued' = Posted(issued, r)
      /\ UNCHANGED credit
      /\ read[r].warehouse \in Warehouses
  BY DEF ConsumeAndCommit, StockAccepts, SalesInv, Shape, SalesTypeOK
<1>3. /\ issued[o] = NoRows /\ inserting[o] = r /\ read[r].lines = lines[o]
      /\ status'[o] = "fulfilled" /\ lines'[o] = lines[o]
  BY <1>1, <1>2, AtCommit DEF Moves, Finish, Target, SalesInv, Shape, SalesTypeOK
<1>4. /\ released' \in [Orders -> [Places -> Nat]] /\ issued' \in [Orders -> [Places -> Nat]]
      /\ \A k \in Orders : k # o => issued'[k] = issued[k]
      /\ issued'[o] = RowsAt(read[r].warehouse, lines[o])
  BY <1>1, <1>2, <1>3, PostedTypes DEF SalesInv, Shape, SalesTypeOK
<1>5. lines[o] \in Quantities /\ lines[o] # Nothing
  BY NothingAssumption DEF SalesInv, Shape, SalesTypeOK
<1>6. invoice' = [invoice EXCEPT ![o] = lines[o]]
  BY <1>1, <1>3 DEF ConsumeAndCommit
<1>7. /\ invoice' \in [Orders -> Quantities \cup {Nothing}] /\ invoice'[o] = lines[o]
      /\ \A k \in Orders : k # o => invoice'[k] = invoice[k]
  BY <1>5, <1>6 DEF SalesInv, Shape, SalesTypeOK
<1>8. Billed(o)'
  BY <1>2, <1>3, <1>4, <1>7 DEF Billed, Ships, RowsAt
<1>9. /\ credit' \in [Orders -> {"pending", "passed", "failed"}]
      /\ reserved' \in [Orders -> [Places -> Nat]] /\ "fulfil" \in Moves
  BY DEF ConsumeAndCommit, SalesInv, Shape, SalesTypeOK, Moves
<1> QED
  BY <1>1, <1>2, <1>3, <1>4, <1>5, <1>7, <1>8, <1>9, FinishKeeps

LEMMA ReleaseKeeps ==
  ASSUME SalesInv, NEW r \in Requests, ReleaseAndCommit(r) \/ CommitCancel(r)
  PROVE  SalesInv'
<1>1. PICK o \in Orders : o = Order(r)
  BY JobTypes DEF SalesInv, Shape
<1>2. /\ pc[r] \in {"stock", "commit"} /\ Kind(r) = "cancel" /\ Finish(r, "replied")
      /\ read' = [read EXCEPT ![r] = NothingRead]
      /\ UNCHANGED <<reserved, issued, invoice, credit>>
  BY DEF ReleaseAndCommit, CommitCancel, stockVars
<1>3. /\ invoice[o] = Nothing /\ issued[o] = NoRows
      /\ status'[o] = "cancelled"
  BY <1>1, <1>2, AtCommit DEF Moves, Finish, Target, SalesInv, Shape, SalesTypeOK
<1>4. released' \in [Orders -> [Places -> Nat]]
  <2>1. CASE ReleaseAndCommit(r)
    BY <2>1, PostedTypes DEF ReleaseAndCommit, SalesInv, Shape, SalesTypeOK
  <2>2. CASE CommitCancel(r)
    BY <2>2 DEF CommitCancel, stockVars, SalesInv, Shape, SalesTypeOK
  <2> QED
    BY <2>1, <2>2
<1>5. Billed(o)'
  BY <1>2, <1>3 DEF Billed
<1>6. /\ reserved' \in [Orders -> [Places -> Nat]] /\ issued' \in [Orders -> [Places -> Nat]]
      /\ invoice' \in [Orders -> Quantities \cup {Nothing}]
      /\ credit' \in [Orders -> {"pending", "passed", "failed"}] /\ "cancel" \in Moves
  BY <1>2 DEF SalesInv, Shape, SalesTypeOK, Moves
<1> QED
  BY <1>1, <1>2, <1>4, <1>5, <1>6, FinishKeeps

-----------------------------------------------------------------------------
(* Every step.                                                             *)

(* A step of an administrator.                                             *)
Managing(w) == ReadReservedAt(w) \/ CloseWarehouse(w) \/ OpenWarehouse(w)

LEMMA WarehousesKeep ==
  ASSUME SalesInv, NEW w \in Managed, Managing(w)
  PROVE  SalesInv'
<1>1. open' \subseteq Warehouses /\ archiving' \subseteq Warehouses
  BY DEF Managing, ReadReservedAt, CloseWarehouse, OpenWarehouse, SalesInv, Shape, SalesTypeOK
<1>2. UNCHANGED <<orderVars, stockVars, invoice, cogs, lockVars, pc, job, read>>
  BY DEF Managing, ReadReservedAt, CloseWarehouse, OpenWarehouse
<1>3. Shape'
  BY <1>1, <1>2 DEF SalesInv, Shape, SalesTypeOK, orderVars, stockVars, lockVars
<1>4. ASSUME NEW r \in Requests PROVE RequestOK(r)'
  BY <1>2, <1>4 DEF SalesInv, RequestOK, KindAt, HoldsOrder, Past, HasInvoice, KnowsLines,
                   TellsTruth, Order, Kind, orderVars, lockVars
<1>5. ASSUME NEW o \in Orders PROVE Billed(o)' /\ Inserter(o)'
  BY <1>2, <1>5 DEF SalesInv, Billed, Ships, Inserter, Order, Kind, orderVars, stockVars, lockVars
<1> QED
  BY <1>3, <1>4, <1>5 DEF SalesInv

(* A step writes an order, or it leaves all orders, stock and invoices.    *)
Writes(r) ==
  \/ Create(r) \/ CommitUpdate(r)
  \/ ReserveAndCommit(r) \/ ConsumeAndCommit(r) \/ ReleaseAndCommit(r) \/ CommitCancel(r)
Replies(r) ==
  /\ Reply(r) /\ Kind(r) \in Moves /\ status[Order(r)] = Target[Kind(r)]

LEMMA StepKinds ==
  ASSUME SalesInv, NEW r \in Requests, Arrive(r) \/ Step(r) \/ Lost(r)
  PROVE  \/ Writes(r) \/ Refuse(r) \/ Replies(r)
         \/ BeginUpdate(r) \/ ReadOrder(r) \/ ReadLines(r) \/ ResolveWarehouse(r)
         \/ CreditPasses(r) \/ CreditFails(r) \/ ProbeInvoice(r) \/ InsertInvoice(r)
         \/ GuardWins(r) \/ PostCogs(r)
<1>1. ASSUME GuardLoses(r) PROVE Refuse(r) \/ Replies(r)
  <2>1. Kind(r) \in {"update", "confirm", "fulfil", "cancel"}
    BY <1>1, JobTypes DEF GuardLoses, SalesInv, Shape, RequestOK, KindAt
  <2> QED
    BY <1>1, <2>1 DEF GuardLoses, LostToReplay, Replies, Moves
<1>2. ASSUME ReadReplay(r) PROVE Replies(r)
  BY <1>2 DEF ReadReplay, Replies, Moves
<1>3. ASSUME \/ ReadIllegal(r) \/ NoWarehouse(r) \/ DuplicateInvoice(r)
             \/ StockRefuses(r) \/ CogsAccountMissing(r) \/ Lost(r)
      PROVE  Refuse(r)
  BY <1>3 DEF ReadIllegal, NoWarehouse, DuplicateInvoice, StockRefuses, CogsAccountMissing, Lost
<1> QED
  BY <1>1, <1>2, <1>3 DEF Arrive, Step, Writes

LEMMA SalesStep == SalesInv /\ [Next]_salesVars => SalesInv'
<1> SUFFICES ASSUME SalesInv, [Next]_salesVars PROVE SalesInv'
  OBVIOUS
<1>1. ASSUME NEW r \in Requests, Arrive(r) \/ Step(r) \/ Lost(r) PROVE SalesInv'
  <2>1. ASSUME Writes(r) PROVE SalesInv'
    BY <2>1, CreateKeeps, CommitUpdateKeeps, ReserveKeeps, ConsumeKeeps, ReleaseKeeps DEF Writes
  <2>2. ASSUME Replies(r) PROVE SalesInv'
    BY <2>2, ReplyKeeps DEF Replies
  <2> QED
    BY <1>1, <2>1, <2>2, StepKinds, RefuseKeeps, BeginUpdateKeeps, ReadOrderKeeps,
       ReadLinesKeeps, ResolveWarehouseKeeps, CreditPassesKeeps, CreditFailsKeeps,
       ProbeInvoiceKeeps, InsertInvoiceKeeps, GuardWinsKeeps, PostCogsKeeps
<1>2. ASSUME NEW w \in Managed, Managing(w) PROVE SalesInv'
  BY <1>2, WarehousesKeep
<1>3. CASE UNCHANGED salesVars
  <2>1. Shape'
    BY <1>3 DEF SalesInv, Shape, SalesTypeOK, salesVars, orderVars, stockVars, lockVars
  <2>2. ASSUME NEW r \in Requests PROVE RequestOK(r)'
    BY <1>3, <2>2 DEF SalesInv, RequestOK, KindAt, HoldsOrder, Past, HasInvoice, KnowsLines,
                     TellsTruth, Order, Kind, salesVars, orderVars, lockVars
  <2>3. ASSUME NEW o \in Orders PROVE Billed(o)' /\ Inserter(o)'
    BY <1>3, <2>3 DEF SalesInv, Billed, Ships, Inserter, Order, Kind, salesVars, orderVars,
                      stockVars, lockVars
  <2> QED
    BY <2>1, <2>2, <2>3 DEF SalesInv
<1> QED
  BY <1>1, <1>2, <1>3 DEF Next, Managing

LEMMA SalesAlways == Spec => []SalesInv
BY SalesInit, SalesStep, PTL DEF Spec

-----------------------------------------------------------------------------
(* What a step leaves alone.                                               *)

LEMMA WritesItsOrder ==
  ASSUME SalesInv, NEW r \in Requests, NEW o \in Orders, o = Order(r), Writes(r)
  PROVE  /\ status[o] \notin {"fulfilled", "cancelled"}
         /\ \A k \in Orders : k # o =>
              UNCHANGED <<status[k], lines[k], customer[k], reserved[k], released[k], issued[k],
                        invoice[k]>>
<1>1. CASE Create(r)
  BY <1>1 DEF Create, SalesInv, Shape, SalesTypeOK, stockVars
<1>2. CASE CommitUpdate(r)
  <2>1. status[o] = "draft"
    BY <1>2 DEF CommitUpdate, SalesInv, RequestOK, HoldsOrder, Past, Source
  <2> QED
    BY <1>2, <2>1 DEF CommitUpdate, SalesInv, Shape, SalesTypeOK, stockVars
<1>3. CASE ReserveAndCommit(r) \/ ConsumeAndCommit(r) \/ ReleaseAndCommit(r) \/ CommitCancel(r)
  <2>1. pc[r] \in {"stock", "commit"} /\ Kind(r) \in Moves
    BY <1>3 DEF ReserveAndCommit, ConsumeAndCommit, ReleaseAndCommit, CommitCancel, Moves
  <2>2. status[o] \in {"draft", "confirmed"}
    BY <2>1, AtCommit
  <2>3. \A k \in Orders : k # o => UNCHANGED <<status[k], lines[k], customer[k]>>
    BY <1>3 DEF ReserveAndCommit, ConsumeAndCommit, ReleaseAndCommit, CommitCancel, Finish,
                SalesInv, Shape, SalesTypeOK
  <2>4. \A k \in Orders : k # o => UNCHANGED <<reserved[k], released[k], issued[k], invoice[k]>>
    <3>1. CASE ReserveAndCommit(r)
      BY <3>1, PostedTypes DEF ReserveAndCommit, SalesInv, Shape, SalesTypeOK
    <3>2. CASE ConsumeAndCommit(r)
      <4>1. /\ released' = Posted(released, r) /\ issued' = Posted(issued, r)
            /\ UNCHANGED reserved
            /\ \E x : invoice' = [invoice EXCEPT ![o] = x]
        BY <3>2 DEF ConsumeAndCommit
      <4>2. /\ released \in [Orders -> [Places -> Nat]] /\ issued \in [Orders -> [Places -> Nat]]
            /\ invoice \in [Orders -> Quantities \cup {Nothing}]
        BY DEF SalesInv, Shape, SalesTypeOK
      <4>3. \A k \in Orders : k # o => UNCHANGED <<released[k], issued[k]>>
        BY <4>1, <4>2 DEF Posted
      <4> QED
        BY <4>1, <4>2, <4>3
    <3>3. CASE ReleaseAndCommit(r)
      BY <3>3, PostedTypes DEF ReleaseAndCommit, SalesInv, Shape, SalesTypeOK
    <3>4. CASE CommitCancel(r)
      BY <3>4 DEF CommitCancel, stockVars
    <3> QED
      BY <1>3, <3>1, <3>2, <3>3, <3>4
  <2> QED
    BY <2>2, <2>3, <2>4
<1> QED
  BY <1>1, <1>2, <1>3 DEF Writes

LEMMA RestLeavesOrders ==
  ASSUME SalesInv, Next
  PROVE  \/ \E r \in Requests : Writes(r)
         \/ UNCHANGED <<status, lines, customer, reserved, released, issued, invoice>>
<1>1. ASSUME NEW r \in Requests, Arrive(r) \/ Step(r) \/ Lost(r), ~Writes(r)
      PROVE  UNCHANGED <<status, lines, customer, reserved, released, issued, invoice>>
  <2>1. ASSUME Replies(r)
        PROVE  UNCHANGED <<status, lines, customer, reserved, released, issued, invoice>>
    BY <2>1, ReplyAdds DEF Replies, Reply, orderVars, stockVars
  <2>2. ASSUME \/ Refuse(r) \/ BeginUpdate(r) \/ ReadOrder(r) \/ ReadLines(r)
               \/ ResolveWarehouse(r) \/ CreditPasses(r) \/ CreditFails(r)
               \/ ProbeInvoice(r) \/ InsertInvoice(r) \/ GuardWins(r) \/ PostCogs(r)
        PROVE  UNCHANGED <<status, lines, customer, reserved, released, issued, invoice>>
    BY <2>2 DEF Refuse, BeginUpdate, ReadOrder, ReadLines, ResolveWarehouse, CreditPasses,
                CreditFails, ProbeInvoice, InsertInvoice, GuardWins, PostCogs,
                orderVars, stockVars
  <2> QED
    BY <1>1, <2>1, <2>2, StepKinds
<1>2. ASSUME NEW w \in Managed, Managing(w)
      PROVE  UNCHANGED <<status, lines, customer, reserved, released, issued, invoice>>
  BY <1>2 DEF Managing, ReadReservedAt, CloseWarehouse, OpenWarehouse, orderVars, stockVars
<1> QED
  BY <1>1, <1>2 DEF Next, Managing

-----------------------------------------------------------------------------
(* Every state of every instance is type correct.                          *)
THEOREM SalesTypes == Spec => []SalesTypeOK
<1>1. SalesInv => SalesTypeOK
  BY DEF SalesInv, Shape
<1> QED
  BY <1>1, SalesAlways, PTL

(* An order is billed and shipped exactly when it is fulfilled, and for    *)
(* its own lines (fulfil_order with create_from_order and                  *)
(* fulfil_order_lines, against every race, edit and crash).                *)
THEOREM BilledAlwaysShipped == Spec => []BilledAsShipped
<1>1. SalesInv => BilledAsShipped
  BY DEF SalesInv, Billed, BilledAsShipped
<1> QED
  BY <1>1, SalesAlways, PTL

(* A success reported by confirm, fulfil or cancel is one: the guard that  *)
(* lost is a replay only if the order got to where it was asked to go.     *)
THEOREM RepliesAlwaysTrue == Spec => []RepliesAreTrue
<1>1. SalesInv => RepliesAreTrue
  BY DEF SalesInv, RequestOK, TellsTruth, RepliesAreTrue, Moves
<1> QED
  BY <1>1, SalesAlways, PTL

(* No request touches an order that is fulfilled or cancelled, its stock   *)
(* or its invoice (the guarded UPDATEs of the sales repository).           *)
THEOREM ClosedForever == Spec => ClosedStaysClosed
<1> DEFINE StaysClosed ==
      \A o \in Orders : status[o] \in {"fulfilled", "cancelled"} =>
        UNCHANGED <<status[o], lines[o], customer[o], reserved[o], released[o], issued[o],
                    invoice[o]>>
<1>1. SalesInv /\ [Next]_salesVars => [StaysClosed]_salesVars
  <2> SUFFICES ASSUME SalesInv, Next PROVE StaysClosed
    OBVIOUS
  <2>1. ASSUME NEW r \in Requests, Writes(r) PROVE StaysClosed
    <3>1. PICK o \in Orders : o = Order(r)
      BY JobTypes DEF SalesInv, Shape
    <3> QED
      BY <2>1, <3>1, WritesItsOrder
  <2>2. CASE UNCHANGED <<status, lines, customer, reserved, released, issued, invoice>>
    BY <2>2
  <2> QED
    BY <2>1, <2>2, RestLeavesOrders
<1> QED
  BY <1>1, SalesAlways, PTL DEF Spec, ClosedStaysClosed

-----------------------------------------------------------------------------
(* The refinement.                                                         *)

(* Rows issued from one warehouse tell the lines they were issued for.     *)
LEMMA RowsTellLines ==
  ASSUME NEW w \in Warehouses, NEW q \in Quantities
  PROVE  Shipped(RowsAt(w, q)) = q
<1>1. q \in [Products -> Nat]
  BY QuantityAssumption
<1>2. PICK p \in Products : q[p] # 0
  BY QuantityAssumption
<1>3. <<w, p>> \in Places /\ RowsAt(w, q)[<<w, p>>] = q[p]
  BY DEF Places, RowsAt
<1>4. RowsAt(w, q) # NoRows
  BY <1>2, <1>3 DEF NoRows
<1>5. ASSUME NEW v \in Warehouses, NEW k \in Quantities, RowsAt(w, q) = RowsAt(v, k)
      PROVE  k = q
  <2>1. k \in [Products -> Nat]
    BY QuantityAssumption
  <2>2. \A n \in Products : <<w, n>> \in Places
    BY DEF Places
  <2>3. \A n \in Products : RowsAt(w, q)[<<w, n>>] = q[n]
    BY <2>2 DEF RowsAt
  <2>4. \A n \in Products : RowsAt(v, k)[<<w, n>>] = IF w = v THEN k[n] ELSE 0
    BY <2>2 DEF RowsAt
  <2>5. w = v
    BY <1>2, <1>5, <2>3, <2>4
  <2>6. \A n \in Products : q[n] = k[n]
    BY <1>5, <2>3, <2>4, <2>5
  <2> QED
    BY <1>1, <2>1, <2>6
<1>6. Ships(RowsAt(w, q), q)
  BY DEF Ships
<1>7. \A k \in Quantities : Ships(RowsAt(w, q), k) => k = q
  BY <1>5 DEF Ships
<1>8. (CHOOSE k \in Quantities : Ships(RowsAt(w, q), k)) = q
  BY <1>6, <1>7
<1> QED
  BY <1>4, <1>8 DEF Shipped

LEMMA LifecycleInit == Init => Lifecycle!Init
<1> SUFFICES ASSUME Init PROVE Lifecycle!Init
  OBVIOUS
<1>1. status \in [Orders -> {"absent", "draft", "confirmed"}]
  BY InitialStatusAssumption DEF Init
<1>2. lines \in [Orders -> Quantities \cup {Nothing}]
  BY DEF Init
<1>3. [o \in Orders |-> Shipped(issued[o])] = [o \in Orders |-> Nothing]
  BY DEF Init, Shipped
<1> QED
  BY <1>1, <1>2, <1>3 DEF Init, Lifecycle!Init

LEMMA LifecycleStep ==
  ASSUME SalesInv, [Next]_salesVars
  PROVE  [Lifecycle!Next]_(Lifecycle!orderVars)
<1>1. ASSUME NEW r \in Requests, Writes(r) PROVE Lifecycle!Next
  <2>1. PICK o \in Orders : o = Order(r)
    BY JobTypes DEF SalesInv, Shape
  <2>2. SalesTypeOK
    BY DEF SalesInv, Shape
  <2>3. CASE Create(r)
    <3>1. job[r].lines \in Quantities
      BY <2>2, <2>3, JobTypes DEF Create
    <3>2. Lifecycle!Edit(o)
      BY <2>1, <2>3, <3>1 DEF Create, stockVars, Lifecycle!Edit
    <3> QED
      BY <3>2 DEF Lifecycle!Next
  <2>4. CASE CommitUpdate(r)
    <3>1. status[o] = "draft" /\ status' = [status EXCEPT ![o] = "draft"]
      BY <2>1, <2>2, <2>4
      DEF CommitUpdate, SalesInv, RequestOK, HoldsOrder, Past, Source, SalesTypeOK
    <3>2. \E q \in Quantities : lines' = [lines EXCEPT ![o] = q]
      <4>1. CASE job[r].lines = Nothing
        <5>1. lines' = [lines EXCEPT ![o] = lines[o]] /\ lines[o] \in Quantities
          BY <2>2, <2>4, <4>1 DEF CommitUpdate, SalesTypeOK
        <5> QED
          BY <5>1
      <4>2. CASE job[r].lines # Nothing
        BY <2>1, <2>2, <2>4, <4>2, JobTypes DEF CommitUpdate
      <4> QED
        BY <4>1, <4>2
    <3>3. Lifecycle!Edit(o)
      BY <2>4, <3>1, <3>2 DEF CommitUpdate, stockVars, Lifecycle!Edit
    <3> QED
      BY <3>3 DEF Lifecycle!Next
  <2>5. CASE ReserveAndCommit(r)
    <3>1. Lifecycle!Confirm(o)
      <4>1. status[o] = "draft"
        BY <2>1, <2>5, AtCommit DEF ReserveAndCommit, Moves, Source
      <4>2. status' = [status EXCEPT ![o] = "confirmed"]
        BY <2>1, <2>5 DEF ReserveAndCommit, Finish, Target
      <4> QED
        BY <2>5, <4>1, <4>2 DEF ReserveAndCommit, Finish, Lifecycle!Confirm
    <3> QED
      BY <3>1 DEF Lifecycle!Next
  <2>6. CASE ConsumeAndCommit(r)
    <3>1. Lifecycle!Fulfil(o)
      <4>1. /\ status[o] = "confirmed" /\ issued[o] = NoRows
            /\ inserting[o] = r /\ read[r].lines = lines[o]
        BY <2>1, <2>6, AtCommit DEF ConsumeAndCommit, Moves, Source
      <4>2. status' = [status EXCEPT ![o] = "fulfilled"] /\ UNCHANGED lines
        BY <2>1, <2>6 DEF ConsumeAndCommit, Finish, Target
      <4>3. invoice' = [invoice EXCEPT ![o] = lines[o]]
        BY <2>1, <2>6, <4>1 DEF ConsumeAndCommit
      <4>4. /\ issued' \in [Orders -> [Places -> Nat]]
            /\ \A k \in Orders : k # o => issued'[k] = issued[k]
            /\ issued'[o] = RowsAt(read[r].warehouse, lines[o])
        BY <2>1, <2>2, <2>6, <4>1, PostedTypes DEF ConsumeAndCommit, SalesInv, SalesTypeOK
      <4>5. read[r].warehouse \in Warehouses /\ lines[o] \in Quantities
        BY <2>2, <2>6 DEF ConsumeAndCommit, StockAccepts, SalesTypeOK
      <4>6. Shipped(issued'[o]) = lines[o]
        BY <4>4, <4>5, RowsTellLines
      <4>7. [k \in Orders |-> Shipped(issued'[k])]
              = [[k \in Orders |-> Shipped(issued[k])] EXCEPT ![o] = lines[o]]
        BY <4>4, <4>6
      <4> QED
        BY <4>1, <4>2, <4>3, <4>7 DEF Lifecycle!Fulfil
    <3> QED
      BY <3>1 DEF Lifecycle!Next
  <2>7. CASE ReleaseAndCommit(r) \/ CommitCancel(r)
    <3>1. /\ pc[r] \in {"stock", "commit"} /\ Kind(r) = "cancel" /\ Finish(r, "replied")
          /\ UNCHANGED <<issued, invoice>>
      BY <2>7 DEF ReleaseAndCommit, CommitCancel, stockVars
    <3>2. Lifecycle!Cancel(o)
      <4>1. status[o] \in {"draft", "confirmed"}
        BY <2>1, <3>1, AtCommit DEF Moves
      <4>2. status' = [status EXCEPT ![o] = "cancelled"] /\ UNCHANGED lines
        BY <2>1, <3>1 DEF Finish, Target
      <4> QED
        BY <3>1, <4>1, <4>2 DEF Lifecycle!Cancel
    <3> QED
      BY <3>2 DEF Lifecycle!Next
  <2> QED
    BY <1>1, <2>3, <2>4, <2>5, <2>6, <2>7 DEF Writes
<1>2. CASE UNCHANGED <<status, lines, issued, invoice>>
  BY <1>2 DEF Lifecycle!orderVars
<1>3. CASE UNCHANGED salesVars
  BY <1>2, <1>3 DEF salesVars, orderVars, stockVars
<1> QED
  BY <1>1, <1>2, <1>3, RestLeavesOrders

(* The service implements the promised lifecycle: every step of every      *)
(* request is one move of one order, or none.                              *)
THEOREM LifecycleImplemented == Spec => ImplementsLifecycle
<1>1. SalesInv /\ [Next]_salesVars => [Lifecycle!Next]_(Lifecycle!orderVars)
  BY LifecycleStep
<1> QED
  BY <1>1, LifecycleInit, SalesAlways, PTL DEF Spec, ImplementsLifecycle, Lifecycle!Spec

-----------------------------------------------------------------------------
(* What confirmed orders have reserved, while nothing overtakes a          *)
(* confirmation: every order is reserved and released in the same          *)
(* warehouse, for the lines it was confirmed with.                         *)

FirstPlace == FirstOpen(OpenAtStart)

KnowsPlace(r) ==
  \/ pc[r] \in {"credit", "probe", "invoice", "stock"}
  \/ pc[r] = "guard" /\ Kind(r) \in {"confirm", "fulfil"}
  => read[r].warehouse = FirstPlace

(* A cancellation that found the order confirmed releases its lines, one   *)
(* that found a draft releases nothing.                                    *)
KnowsStatus(r) ==
  Kind(r) = "cancel" =>
    /\ pc[r] \in {"guard", "lines", "warehouse", "stock", "commit"} =>
         /\ read[r].status \in {"draft", "confirmed"}
         /\ read[r].status = "confirmed" => status[Order(r)] \notin {"absent", "draft"}
    /\ pc[r] \in {"lines", "warehouse", "stock"} => read[r].status = "confirmed"
    /\ pc[r] = "commit" => read[r].status = "draft"
    /\ pc[r] \in {"warehouse", "stock"} => read[r].lines = lines[Order(r)]

RowsSettled(o) ==
  /\ status[o] \in {"absent", "draft"} => reserved[o] = NoRows /\ released[o] = NoRows
  /\ status[o] = "confirmed" =>
       reserved[o] = RowsAt(FirstPlace, lines[o]) /\ released[o] = NoRows
  /\ status[o] \in {"fulfilled", "cancelled"} => released[o] = reserved[o]

Informed(r) == KnowsPlace(r) /\ KnowsStatus(r)
SettledInv == (\A r \in Requests : Informed(r)) /\ \A o \in Orders : RowsSettled(o)

LEMMA SettledInit == Init => SettledInv
<1> SUFFICES ASSUME Init PROVE SettledInv
  OBVIOUS
<1>1. \A r \in Requests : Informed(r)
  BY DEF Init, Informed, KnowsPlace, KnowsStatus
<1>2. ASSUME NEW o \in Orders PROVE RowsSettled(o)
  <2>1. /\ status[o] \in {"absent", "draft", "confirmed"} /\ released[o] = NoRows
        /\ reserved[o] = [pl \in Places |-> IF status[o] = "confirmed" /\ pl[1] = FirstPlace
                                            THEN lines[o][pl[2]] ELSE 0]
    BY InitialStatusAssumption DEF Init, FirstPlace
  <2>2. status[o] # "confirmed" => reserved[o] = NoRows
    BY <2>1 DEF NoRows
  <2>3. status[o] = "confirmed" => reserved[o] = RowsAt(FirstPlace, lines[o])
    BY <2>1 DEF RowsAt
  <2> QED
    BY <2>1, <2>2, <2>3 DEF RowsSettled
<1> QED
  BY <1>1, <1>2 DEF SettledInv

LEMMA StepRests ==
  ASSUME SalesInv, NEW r \in Requests, Arrive(r) \/ Step(r) \/ Lost(r)
  PROVE  /\ job' = job /\ \A s \in Requests \ {r} : pc'[s] = pc[s] /\ read'[s] = read[s]
         /\ Writes(r) \/ UNCHANGED <<status, lines, customer, reserved, released>>
<1>1. SalesTypeOK /\ read \in [Requests -> Reading]
  BY DEF SalesInv, Shape
<1>2. ASSUME Writes(r)
      PROVE  job' = job /\ \A s \in Requests \ {r} : pc'[s] = pc[s] /\ read'[s] = read[s]
  BY <1>1, <1>2 DEF Writes, Create, CommitUpdate, ReserveAndCommit, ConsumeAndCommit,
                    ReleaseAndCommit, CommitCancel, Finish, Goto, SalesTypeOK
<1>3. ASSUME Refuse(r) \/ Reply(r)
      PROVE  /\ job' = job /\ \A s \in Requests \ {r} : pc'[s] = pc[s] /\ read'[s] = read[s]
             /\ UNCHANGED <<status, lines, customer, reserved, released>>
  BY <1>1, <1>3 DEF Refuse, Reply, orderVars, stockVars, SalesTypeOK
<1>4. ASSUME \/ BeginUpdate(r) \/ ReadOrder(r) \/ ReadLines(r) \/ ResolveWarehouse(r)
             \/ CreditPasses(r) \/ CreditFails(r) \/ ProbeInvoice(r) \/ InsertInvoice(r)
             \/ GuardWins(r) \/ PostCogs(r)
      PROVE  /\ job' = job /\ \A s \in Requests \ {r} : pc'[s] = pc[s] /\ read'[s] = read[s]
             /\ UNCHANGED <<status, lines, customer, reserved, released>>
  BY <1>1, <1>4 DEF BeginUpdate, ReadOrder, ReadLines, ResolveWarehouse, CreditPasses,
                    CreditFails, ProbeInvoice, InsertInvoice, GuardWins, PostCogs, Goto,
                    orderVars, stockVars, SalesTypeOK
<1> QED
  BY <1>2, <1>3, <1>4, StepKinds DEF Replies

(* What another request knows of its order outlives a step of r.           *)
LEMMA OthersInformed ==
  ASSUME SalesInv, NEW r \in Requests, Arrive(r) \/ Step(r) \/ Lost(r),
         NEW s \in Requests, s # r, Informed(s)
  PROVE  Informed(s)'
<1>1. PICK o \in Orders : o = Order(s)
  BY JobTypes DEF SalesInv, Shape
<1>2. /\ s # NoRequest /\ Order(s)' = o /\ Kind(s)' = Kind(s)
      /\ pc'[s] = pc[s] /\ read'[s] = read[s]
  BY <1>1, JobTypes, StepRests DEF SalesInv, Shape, Order, Kind
<1>3. KnowsPlace(s)'
  BY <1>2 DEF Informed, KnowsPlace
<1>4. \/ UNCHANGED <<status[o], lines[o]>>
      \/ Writes(r) /\ Order(r) = o
  <2>1. PICK k \in Orders : k = Order(r)
    BY JobTypes DEF SalesInv, Shape
  <2> QED
    BY <1>1, <2>1, StepRests, WritesItsOrder
<1>5. ASSUME status[o] \notin {"absent", "draft"}
      PROVE  status'[o] \notin {"absent", "draft"}
  <2>1. ASSUME Writes(r), Order(r) = o PROVE status'[o] \in {"confirmed", "fulfilled", "cancelled"}
    <3>1. ~Create(r)
      BY <1>5, <2>1 DEF Create
    <3>2. ~CommitUpdate(r)
      BY <1>5, <2>1 DEF CommitUpdate, SalesInv, RequestOK, HoldsOrder, Past, Source
    <3>3. Kind(r) \in Moves /\ status' = [status EXCEPT ![o] = Target[Kind(r)]]
      BY <2>1, <3>1, <3>2 DEF Writes, ReserveAndCommit, ConsumeAndCommit, ReleaseAndCommit,
                              CommitCancel, Finish, Moves
    <3> QED
      BY <3>3 DEF SalesInv, Shape, SalesTypeOK, Moves, Target
  <2> QED
    BY <1>4, <1>5, <2>1
<1>6. ASSUME Kind(s) = "cancel", pc[s] \in {"warehouse", "stock"}
      PROVE  lines'[o] = lines[o]
  <2>1. HoldsOrder(s) /\ Past(s)
    BY <1>6 DEF SalesInv, RequestOK, Past
  <2>2. holder[o] = s /\ status[o] \in {"draft", "confirmed"}
    BY <1>1, <1>6, <2>1 DEF HoldsOrder, Source
  <2>3. ASSUME Writes(r), Order(r) = o PROVE UNCHANGED lines
    <3>1. ~Create(r)
      BY <2>2, <2>3 DEF Create
    <3>2. ~CommitUpdate(r)
      BY <2>2, <2>3 DEF CommitUpdate, SalesInv, RequestOK, HoldsOrder, Past
    <3> QED
      BY <2>3, <3>1, <3>2 DEF Writes, ReserveAndCommit, ConsumeAndCommit, ReleaseAndCommit,
                              CommitCancel, Finish
  <2> QED
    BY <1>4, <2>3
<1> QED
  BY <1>1, <1>2, <1>3, <1>5, <1>6 DEF Informed, KnowsStatus

(* Of the request that steps.                                              *)
LEMMA StepInforms ==
  ASSUME SalesInv, Undisturbed, NEW r \in Requests, Arrive(r) \/ Step(r) \/ Lost(r), Informed(r)
  PROVE  Informed(r)'
<1>1. PICK o \in Orders : o = Order(r)
  BY JobTypes DEF SalesInv, Shape
<1>2. Order(r)' = o /\ Kind(r)' = Kind(r) /\ pc \in [Requests -> PlacesOfRequest]
      /\ read \in [Requests -> Reading]
  BY <1>1, StepRests DEF Order, Kind, SalesInv, Shape, SalesTypeOK, PlacesOfRequest
<1>3. CASE Writes(r) \/ Refuse(r) \/ Replies(r) \/ CreditFails(r) \/ PostCogs(r)
  <2>1. pc'[r] \in {"replied", "refused", "cogs"}
    BY <1>2, <1>3 DEF Writes, Create, CommitUpdate, ReserveAndCommit, ConsumeAndCommit,
                      ReleaseAndCommit, CommitCancel, Finish, Goto, Refuse, Replies, Reply,
                      CreditFails, PostCogs
  <2> QED
    BY <2>1 DEF Informed, KnowsPlace, KnowsStatus
<1>4. CASE BeginUpdate(r)
  <2>1. pc'[r] = "guard" /\ Kind(r) = "update"
    BY <1>2, <1>4 DEF BeginUpdate, Goto
  <2> QED
    BY <1>2, <2>1 DEF Informed, KnowsPlace, KnowsStatus
<1>5. CASE ReadOrder(r)
  <2>1. /\ Kind(r) \in {"confirm", "fulfil", "cancel"} /\ status[o] \in Source[Kind(r)]
        /\ pc'[r] = (IF Kind(r) = "cancel" THEN "guard" ELSE "lines")
        /\ read'[r].status = status[o] /\ status' = status
    BY <1>1, <1>2, <1>5 DEF ReadOrder, Goto, Reading, orderVars
  <2> QED
    BY <1>2, <2>1 DEF Informed, KnowsPlace, KnowsStatus, Source
<1>6. CASE ReadLines(r)
  <2>1. /\ pc[r] = "lines" /\ pc'[r] = "warehouse" /\ UNCHANGED <<status, lines>>
        /\ read'[r].lines = lines[o] /\ read'[r].status = read[r].status
    BY <1>1, <1>2, <1>6 DEF ReadLines, Goto, Reading, orderVars
  <2> QED
    BY <1>1, <1>2, <2>1 DEF Informed, KnowsPlace, KnowsStatus
<1>7. CASE ResolveWarehouse(r)
  <2>1. /\ pc[r] = "warehouse" /\ UNCHANGED <<status, lines>>
        /\ read'[r].lines = read[r].lines /\ read'[r].status = read[r].status
        /\ read'[r].warehouse = FirstPlace
    BY <1>1, <1>2, <1>7 DEF ResolveWarehouse, Reading, orderVars, Undisturbed, FirstPlace
  <2>2. Kind(r) = "cancel" => pc'[r] = "stock"
    BY <1>2, <1>7 DEF ResolveWarehouse, Goto
  <2> QED
    BY <1>1, <1>2, <2>1, <2>2 DEF Informed, KnowsPlace, KnowsStatus
<1>8. CASE CreditPasses(r) \/ ProbeInvoice(r) \/ InsertInvoice(r)
  <2>1. /\ pc[r] \in {"credit", "probe", "invoice"} /\ read' = read
        /\ Kind(r) \in {"confirm", "fulfil"}
    BY <1>8 DEF CreditPasses, ProbeInvoice, InsertInvoice, SalesInv, RequestOK, KindAt
  <2> QED
    BY <1>2, <2>1 DEF Informed, KnowsPlace, KnowsStatus
<1>9. CASE GuardWins(r)
  <2>1. /\ pc[r] = "guard" /\ read' = read /\ UNCHANGED <<status, lines>>
        /\ pc'[r] = CASE Kind(r) \in {"confirm", "fulfil"} -> "stock"
                      [] Kind(r) = "cancel" /\ read[r].status = "confirmed" -> "lines"
                      [] OTHER -> "commit"
    BY <1>2, <1>9 DEF GuardWins, Goto, orderVars
  <2>2. CASE Kind(r) \in {"confirm", "fulfil"}
    BY <1>2, <2>1, <2>2 DEF Informed, KnowsPlace, KnowsStatus
  <2>3. CASE Kind(r) = "cancel"
    <3>1. \/ pc'[r] = "lines" /\ read[r].status = "confirmed"
          \/ pc'[r] = "commit" /\ read[r].status # "confirmed"
      BY <2>1, <2>3
    <3> QED
      BY <1>1, <1>2, <2>1, <2>3, <3>1 DEF Informed, KnowsPlace, KnowsStatus
  <2>4. CASE Kind(r) \notin {"confirm", "fulfil", "cancel"}
    <3>1. pc'[r] = "commit"
      BY <2>1, <2>4
    <3> QED
      BY <1>2, <2>4, <3>1 DEF Informed, KnowsPlace, KnowsStatus
  <2> QED
    BY <2>2, <2>3, <2>4
<1> QED
  BY <1>3, <1>4, <1>5, <1>6, <1>7, <1>8, <1>9, StepKinds

(* The rows of the order that a step writes.                               *)
LEMMA WriteSettles ==
  ASSUME SalesInv, SettledInv, Undisturbed, NEW r \in Requests, Writes(r),
         NEW o \in Orders, o = Order(r)
  PROVE  RowsSettled(o)'
<1>1. /\ Shape /\ status \in [Orders -> Statuses] /\ RowsSettled(o) /\ Informed(r)
      /\ reserved \in [Orders -> [Places -> Nat]] /\ released \in [Orders -> [Places -> Nat]]
  BY DEF SalesInv, Shape, SalesTypeOK, SettledInv
<1>2. CASE Create(r)
  <2>1. status[o] = "absent" /\ status'[o] = "draft" /\ UNCHANGED <<reserved, released>>
    BY <1>1, <1>2 DEF Create, stockVars
  <2> QED
    BY <1>1, <2>1 DEF RowsSettled
<1>3. CASE CommitUpdate(r)
  <2>1. status[o] = "draft"
    BY <1>3 DEF CommitUpdate, SalesInv, RequestOK, HoldsOrder, Past, Source
  <2>2. UNCHANGED <<status, reserved, released>>
    BY <1>3 DEF CommitUpdate, stockVars
  <2> QED
    BY <1>1, <2>1, <2>2 DEF RowsSettled
<1>4. CASE ReserveAndCommit(r)
  <2>1. pc[r] = "stock" /\ Kind(r) = "confirm"
    BY <1>4 DEF ReserveAndCommit
  <2>2. status[o] \in Source[Kind(r)]
    BY <2>1, AtCommit DEF Moves
  <2>3. status[o] = "draft"
    BY <2>1, <2>2 DEF Source
  <2>4. reserved[o] = NoRows /\ released[o] = NoRows
    BY <1>1, <2>3 DEF RowsSettled
  <2>5. read[r].warehouse = FirstPlace /\ read[r].lines = lines[o]
    BY <1>1, <2>1 DEF Informed, KnowsPlace, Undisturbed
  <2>6. reserved' = Posted(reserved, r) /\ UNCHANGED <<released, lines>>
    BY <1>4 DEF ReserveAndCommit, Finish
  <2>7. reserved'[o] = RowsAt(FirstPlace, lines[o])
    BY <1>1, <2>4, <2>5, <2>6, PostedTypes
  <2>8. status'[o] = "confirmed"
    BY <1>1, <1>4, <2>1 DEF ReserveAndCommit, Finish, Target
  <2> QED
    BY <2>4, <2>6, <2>7, <2>8 DEF RowsSettled, FirstPlace
<1>5. CASE ConsumeAndCommit(r)
  <2>1. pc[r] = "stock" /\ Kind(r) = "fulfil"
    BY <1>5 DEF ConsumeAndCommit
  <2>2. status[o] \in Source[Kind(r)] /\ read[r].lines = lines[o]
    BY <2>1, AtCommit DEF Moves
  <2>3. status[o] = "confirmed"
    BY <2>1, <2>2 DEF Source
  <2>4. reserved[o] = RowsAt(FirstPlace, lines[o]) /\ released[o] = NoRows
    BY <1>1, <2>3 DEF RowsSettled
  <2>5. read[r].warehouse = FirstPlace
    BY <1>1, <2>1 DEF Informed, KnowsPlace
  <2>6. released' = Posted(released, r) /\ UNCHANGED reserved
    BY <1>5 DEF ConsumeAndCommit
  <2>7. released'[o] = RowsAt(FirstPlace, lines[o])
    BY <1>1, <2>2, <2>4, <2>5, <2>6, PostedTypes
  <2>8. status'[o] = "fulfilled"
    BY <1>1, <1>5, <2>1 DEF ConsumeAndCommit, Finish, Target
  <2> QED
    BY <2>4, <2>6, <2>7, <2>8 DEF RowsSettled
<1>6. CASE ReleaseAndCommit(r)
  <2>1. pc[r] = "stock" /\ Kind(r) = "cancel"
    BY <1>6 DEF ReleaseAndCommit
  <2>2. status[o] \in {"draft", "confirmed"}
    BY <2>1, AtCommit DEF Moves
  <2>3. status[o] = "confirmed" /\ read[r].lines = lines[o]
    BY <1>1, <2>1, <2>2 DEF Informed, KnowsStatus
  <2>4. reserved[o] = RowsAt(FirstPlace, lines[o]) /\ released[o] = NoRows
    BY <1>1, <2>3 DEF RowsSettled
  <2>5. read[r].warehouse = FirstPlace
    BY <1>1, <2>1 DEF Informed, KnowsPlace
  <2>6. released' = Posted(released, r) /\ UNCHANGED reserved
    BY <1>6 DEF ReleaseAndCommit
  <2>7. released'[o] = RowsAt(FirstPlace, lines[o])
    BY <1>1, <2>3, <2>4, <2>5, <2>6, PostedTypes
  <2>8. status'[o] = "cancelled"
    BY <1>1, <1>6, <2>1 DEF ReleaseAndCommit, Finish, Target
  <2> QED
    BY <2>4, <2>6, <2>7, <2>8 DEF RowsSettled
<1>7. CASE CommitCancel(r)
  <2>1. pc[r] = "commit" /\ Kind(r) = "cancel"
    BY <1>7 DEF CommitCancel
  <2>2. status[o] \in {"draft", "confirmed"}
    BY <2>1, AtCommit DEF Moves
  <2>3. status[o] = "draft"
    BY <1>1, <2>1, <2>2 DEF Informed, KnowsStatus, Undisturbed
  <2>4. reserved[o] = NoRows /\ released[o] = NoRows
    BY <1>1, <2>3 DEF RowsSettled
  <2>5. status'[o] = "cancelled" /\ UNCHANGED <<reserved, released>>
    BY <1>1, <1>7, <2>1 DEF CommitCancel, Finish, Target, stockVars
  <2> QED
    BY <2>4, <2>5 DEF RowsSettled
<1> QED
  BY <1>2, <1>3, <1>4, <1>5, <1>6, <1>7 DEF Writes

LEMMA SettledStep ==
  SalesInv /\ SettledInv /\ Undisturbed /\ [Next]_salesVars => SettledInv'
<1> SUFFICES ASSUME SalesInv, SettledInv, Undisturbed, [Next]_salesVars
             PROVE  SettledInv'
  OBVIOUS
<1>1. ASSUME NEW r \in Requests, Arrive(r) \/ Step(r) \/ Lost(r) PROVE SettledInv'
  <2>1. \A s \in Requests : Informed(s)
    BY DEF SettledInv
  <2>2. \A s \in Requests : Informed(s)'
    BY <1>1, <2>1, OthersInformed, StepInforms
  <2>3. ASSUME NEW o \in Orders PROVE RowsSettled(o)'
    <3>1. RowsSettled(o)
      BY DEF SettledInv
    <3>2. PICK k \in Orders : k = Order(r)
      BY JobTypes DEF SalesInv, Shape
    <3>3. CASE Writes(r) /\ k = o
      BY <3>2, <3>3, WriteSettles
    <3>4. CASE ~(Writes(r) /\ k = o)
      <4>1. UNCHANGED <<status[o], lines[o], reserved[o], released[o]>>
        BY <1>1, <3>2, <3>4, StepRests, WritesItsOrder
      <4> QED
        BY <3>1, <4>1 DEF RowsSettled, FirstPlace
    <3> QED
      BY <3>3, <3>4
  <2> QED
    BY <2>2, <2>3 DEF SettledInv
<1>2. ASSUME UNCHANGED <<orderVars, stockVars, pc, job, read>> PROVE SettledInv'
  <2>1. UNCHANGED <<status, lines, reserved, released, pc, job, read>>
    BY <1>2 DEF orderVars, stockVars
  <2> QED
    BY <2>1 DEF SettledInv, Informed, KnowsPlace, KnowsStatus, RowsSettled, RowsAt, Order, Kind
<1>3. ASSUME NEW w \in Managed, Managing(w) PROVE SettledInv'
  BY <1>2, <1>3 DEF Managing, ReadReservedAt, CloseWarehouse, OpenWarehouse
<1>4. ASSUME UNCHANGED salesVars PROVE SettledInv'
  BY <1>2, <1>4 DEF salesVars
<1> QED
  BY <1>1, <1>3, <1>4 DEF Next, Managing

LEMMA SettledAlways == Spec /\ []Undisturbed => []SettledInv
<1>1. [](SalesInv /\ Undisturbed) /\ SettledInv /\ [][Next]_salesVars => []SettledInv
  <2>1. SalesInv /\ Undisturbed /\ SettledInv /\ [Next]_salesVars => SettledInv'
    BY SettledStep
  <2> QED
    BY <2>1, PTL
<1> QED
  BY <1>1, SalesAlways, SettledInit, PTL DEF Spec

(* ReservedOnlyForConfirmed, as long as nothing overtakes a confirmation:  *)
(* whatever confirmations, fulfilments and cancellations race, are retried *)
(* or are cut off, a reservation goes when its order leaves confirmed.     *)
THEOREM ReservedWhileConfirmed == Spec /\ []Undisturbed => []ReservedOnlyForConfirmed
<1>1. SalesInv /\ SettledInv => ReservedOnlyForConfirmed
  <2> SUFFICES ASSUME SalesInv, SettledInv, NEW o \in Orders, NEW pl \in Places,
                      status[o] # "confirmed"
               PROVE  Held(o, pl) = 0
    BY DEF ReservedOnlyForConfirmed
  <2>1. /\ status[o] \in {"absent", "draft", "fulfilled", "cancelled"} /\ RowsSettled(o)
        /\ reserved[o] \in [Places -> Nat] /\ released[o] \in [Places -> Nat]
    BY DEF SalesInv, Shape, SalesTypeOK, Statuses, SettledInv
  <2>2. released[o] = reserved[o]
    BY <2>1 DEF RowsSettled
  <2>3. reserved[o][pl] \in Nat /\ released[o][pl] = reserved[o][pl]
    BY <2>1, <2>2
  <2> QED
    BY <2>3 DEF Held
<1> QED
  BY <1>1, SalesAlways, SettledAlways, PTL

(* The first warehouse of some is one of them.                             *)
LEMMA FirstOfSome == ASSUME NEW ws \in SUBSET Nat, ws # {} PROVE FirstOpen(ws) \in ws
<1>1. PICK x \in ws : \A y \in ws : ~(<<y, x>> \in OpToRel(<, Nat))
  BY NatLessThanWellFounded, WFMin
<1>2. OpToRel(<, Nat) = {ss \in Nat \X Nat : ss[1] < ss[2]}
  BY DEF OpToRel
<1>3. ASSUME NEW y \in ws PROVE x <= y
  <2>1. <<y, x>> \in Nat \X Nat /\ <<y, x>>[1] = y /\ <<y, x>>[2] = x
    OBVIOUS
  <2>2. ~(y < x)
    BY <1>1, <1>2, <2>1
  <2> QED
    BY <2>1, <2>2
<1> QED
  BY <1>3 DEF FirstOpen, Min

(* ConfirmedIsReserved, as long as nothing overtakes a confirmation: what  *)
(* a confirmed order asks for is what is reserved for it, in all.          *)
THEOREM ConfirmedAlwaysReserved == Spec /\ []Undisturbed => []ConfirmedIsReserved
<1>1. SalesInv /\ SettledInv /\ Undisturbed => ConfirmedIsReserved
  <2> SUFFICES ASSUME SalesInv, SettledInv, Undisturbed, NEW o \in Orders,
                      status[o] = "confirmed", NEW p \in Products
               PROVE  SumFunction([w \in Warehouses |-> Held(o, <<w, p>>)]) = lines[o][p]
    BY DEF ConfirmedIsReserved
  <2>1. /\ reserved[o] = RowsAt(FirstPlace, lines[o]) /\ released[o] = NoRows
        /\ lines[o] \in [Products -> Nat]
    BY QuantityAssumption DEF SettledInv, RowsSettled, SalesInv, Shape, SalesTypeOK
  <2>2. FirstPlace \in Warehouses /\ IsFiniteSet(Warehouses)
    <3>1. open \subseteq Warehouses /\ open \subseteq Nat /\ open # {}
      BY WarehouseAssumption DEF SalesInv, Shape, SalesTypeOK, Undisturbed
    <3> QED
      BY <3>1, FirstOfSome, WarehouseAssumption DEF Undisturbed, FirstPlace
  <2>3. PICK f : f = [w \in Warehouses |-> Held(o, <<w, p>>)]
    OBVIOUS
  <2>4. ASSUME NEW w \in Warehouses
        PROVE  f[w] = IF w = FirstPlace THEN lines[o][p] ELSE 0
    <3>1. <<w, p>> \in Places
      BY DEF Places
    <3>2. reserved[o][<<w, p>>] = IF w = FirstPlace THEN lines[o][p] ELSE 0
      BY <2>1, <3>1 DEF RowsAt
    <3>3. released[o][<<w, p>>] = 0
      BY <2>1, <3>1 DEF NoRows
    <3>4. lines[o][p] \in Nat
      BY <2>1
    <3> QED
      BY <2>3, <3>2, <3>3, <3>4 DEF Held
  <2>5. lines[o][p] \in Int
    BY <2>1
  <2>6. SumFunctionOnSet(f, Warehouses) = lines[o][p]
    BY <2>2, <2>4, <2>5, SumSingle
  <2>7. SumFunction(f) = SumFunctionOnSet(f, Warehouses)
    BY <2>3 DEF SumFunction, SumFunctionOnSet
  <2> QED
    BY <2>3, <2>6, <2>7
<1> QED
  BY <1>1, SalesAlways, SettledAlways, PTL

(* The two together: the reservations are exactly the lines of the         *)
(* confirmed orders (ReservedAsConfirmed).                                 *)
THEOREM ReservationsMatch == Spec /\ []Undisturbed => []ReservedAsConfirmed
<1>1. ReservedOnlyForConfirmed /\ ConfirmedIsReserved => ReservedAsConfirmed
  BY DEF ReservedAsConfirmed
<1> QED
  BY <1>1, ReservedWhileConfirmed, ConfirmedAlwaysReserved, PTL

-----------------------------------------------------------------------------
(* The credit limit: a confirmation gets to its guard by the check only,   *)
(* and an order past draft is not edited.                                  *)

Cleared(r) == Kind(r) = "confirm" /\ pc[r] \in {"guard", "stock"} => CreditCheckPassed(r)
CreditInv == ConfirmedWithinCredit /\ \A r \in Requests : Cleared(r)

LEMMA CreditInit == Init => CreditInv
<1> SUFFICES ASSUME Init PROVE CreditInv
  OBVIOUS
<1>1. \A o \in Orders : status[o] \in {"absent", "draft", "confirmed"}
  BY InitialStatusAssumption DEF Init
<1> QED
  BY <1>1 DEF Init, CreditInv, ConfirmedWithinCredit, Cleared

(* The order that a step writes.                                           *)
LEMMA WriteWithinCredit ==
  ASSUME SalesInv, CreditInv, CheckStands, NEW r \in Requests, Writes(r),
         NEW o \in Orders, o = Order(r), status'[o] \in {"confirmed", "fulfilled"}
  PROVE  CreditLimit[customer'[o]] >= OrderTotal(lines'[o])
<1>1. status \in [Orders -> Statuses]
  BY DEF SalesInv, Shape, SalesTypeOK
<1>2. ~Create(r)
  BY <1>1 DEF Create
<1>3. ~CommitUpdate(r)
  <2>1. CommitUpdate(r) => status[o] = "draft" /\ status' = status
    BY DEF CommitUpdate, SalesInv, RequestOK, HoldsOrder, Past, Source
  <2> QED
    BY <2>1
<1>4. /\ Kind(r) \in Moves /\ status'[o] = Target[Kind(r)] /\ UNCHANGED <<lines, customer>>
      /\ pc[r] \in {"stock", "commit"}
      /\ Kind(r) = "confirm" => pc[r] = "stock"
  BY <1>1, <1>2, <1>3 DEF Writes, ReserveAndCommit, ConsumeAndCommit, ReleaseAndCommit,
                          CommitCancel, Finish, Moves
<1>5. CASE Kind(r) = "confirm"
  <2>1. CreditCheckPassed(r)
    BY <1>4, <1>5 DEF CreditInv, Cleared
  <2>2. read[r].customer = customer[o] /\ read[r].total = OrderTotal(lines[o])
    BY <1>4, <1>5 DEF CheckStands
  <2>3. CreditLimit[customer[o]] >= OrderTotal(lines[o])
    BY <2>1, <2>2 DEF CreditCheckPassed
  <2> QED
    BY <1>4, <2>3
<1>6. CASE Kind(r) = "fulfil"
  <2>1. status[o] \in Source[Kind(r)]
    BY <1>4, <1>6, AtCommit
  <2>2. status[o] = "confirmed"
    BY <1>6, <2>1 DEF Source
  <2>3. CreditLimit[customer[o]] >= OrderTotal(lines[o])
    BY <2>2 DEF CreditInv, ConfirmedWithinCredit
  <2> QED
    BY <1>4, <2>3
<1>7. Kind(r) # "cancel"
  BY <1>4 DEF Target
<1> QED
  BY <1>4, <1>5, <1>6, <1>7 DEF Moves

(* The request that steps: only the check lets a confirmation on.          *)
LEMMA StepClears ==
  ASSUME SalesInv, NEW r \in Requests, Arrive(r) \/ Step(r) \/ Lost(r), Cleared(r)
  PROVE  Cleared(r)'
<1>1. /\ Kind(r)' = Kind(r) /\ pc \in [Requests -> PlacesOfRequest]
      /\ read \in [Requests -> Reading]
  BY StepRests DEF Kind, SalesInv, Shape, SalesTypeOK, PlacesOfRequest
<1> SUFFICES ASSUME Kind(r) = "confirm", pc'[r] \in {"guard", "stock"}
             PROVE  CreditCheckPassed(r)'
  BY <1>1 DEF Cleared
<1>2. CASE Writes(r) \/ Refuse(r) \/ Replies(r) \/ CreditFails(r) \/ PostCogs(r)
  BY <1>1, <1>2 DEF Writes, Create, CommitUpdate, ReserveAndCommit, ConsumeAndCommit,
                    ReleaseAndCommit, CommitCancel, Finish, Goto, Refuse, Replies, Reply,
                    CreditFails, PostCogs
<1>3. CASE BeginUpdate(r) \/ ReadOrder(r) \/ ReadLines(r) \/ ResolveWarehouse(r)
  BY <1>1, <1>3 DEF BeginUpdate, ReadOrder, ReadLines, ResolveWarehouse, Goto
<1>4. CASE ProbeInvoice(r) \/ InsertInvoice(r)
  BY <1>4 DEF ProbeInvoice, InsertInvoice, SalesInv, RequestOK, KindAt
<1>5. CASE CreditPasses(r)
  BY <1>5 DEF CreditPasses, CreditCheckPassed
<1>6. CASE GuardWins(r)
  BY <1>6 DEF GuardWins, Cleared, CreditCheckPassed
<1> QED
  BY <1>2, <1>3, <1>4, <1>5, <1>6, StepKinds

LEMMA CreditStep == SalesInv /\ CreditInv /\ CheckStands /\ [Next]_salesVars => CreditInv'
<1> SUFFICES ASSUME SalesInv, CreditInv, CheckStands, [Next]_salesVars PROVE CreditInv'
  OBVIOUS
<1>1. ASSUME NEW r \in Requests, Arrive(r) \/ Step(r) \/ Lost(r) PROVE CreditInv'
  <2>1. ASSUME NEW s \in Requests, s # r PROVE Cleared(s)'
    <3>1. Kind(s)' = Kind(s) /\ pc'[s] = pc[s] /\ read'[s] = read[s] /\ Cleared(s)
      BY <1>1, <2>1, StepRests DEF Kind, CreditInv
    <3> QED
      BY <3>1 DEF Cleared, CreditCheckPassed
  <2>2. Cleared(r)'
    BY <1>1, StepClears DEF CreditInv
  <2>3. ASSUME NEW o \in Orders, status'[o] \in {"confirmed", "fulfilled"}
        PROVE  CreditLimit[customer'[o]] >= OrderTotal(lines'[o])
    <3>1. PICK k \in Orders : k = Order(r)
      BY JobTypes DEF SalesInv, Shape
    <3>2. CASE Writes(r) /\ k = o
      BY <2>3, <3>1, <3>2, WriteWithinCredit
    <3>3. CASE ~(Writes(r) /\ k = o)
      <4>1. UNCHANGED <<status[o], lines[o], customer[o]>>
        BY <1>1, <3>1, <3>3, StepRests, WritesItsOrder
      <4>2. CreditLimit[customer[o]] >= OrderTotal(lines[o])
        BY <2>3, <4>1 DEF CreditInv, ConfirmedWithinCredit
      <4> QED
        BY <4>1, <4>2
    <3> QED
      BY <3>2, <3>3
  <2> QED
    BY <2>1, <2>2, <2>3 DEF CreditInv, ConfirmedWithinCredit
<1>2. ASSUME UNCHANGED <<orderVars, pc, job, read>> PROVE CreditInv'
  <2>1. UNCHANGED <<status, lines, customer, pc, job, read>>
    BY <1>2 DEF orderVars
  <2>2. \A r \in Requests : Cleared(r)'
    BY <2>1 DEF CreditInv, Cleared, CreditCheckPassed, Kind
  <2>3. ConfirmedWithinCredit'
    BY <2>1 DEF CreditInv, ConfirmedWithinCredit, OrderTotal
  <2> QED
    BY <2>2, <2>3 DEF CreditInv
<1>3. ASSUME NEW w \in Managed, Managing(w) PROVE CreditInv'
  BY <1>2, <1>3 DEF Managing, ReadReservedAt, CloseWarehouse, OpenWarehouse
<1>4. ASSUME UNCHANGED salesVars PROVE CreditInv'
  BY <1>2, <1>4 DEF salesVars
<1> QED
  BY <1>1, <1>3, <1>4 DEF Next, Managing

(* ConfirmedWithinCredit, as long as a confirmation that has got the row   *)
(* of its order still finds there what it has checked (confirm_order).     *)
THEOREM CreditHolds == Spec /\ []CheckStands => []ConfirmedWithinCredit
<1>1. [](SalesInv /\ CheckStands) /\ CreditInv /\ [][Next]_salesVars => []CreditInv
  <2>1. SalesInv /\ CheckStands /\ CreditInv /\ [Next]_salesVars => CreditInv'
    BY CreditStep
  <2> QED
    BY <2>1, PTL
<1>2. CreditInv => ConfirmedWithinCredit
  BY DEF CreditInv
<1> QED
  BY <1>1, <1>2, SalesAlways, CreditInit, PTL DEF Spec

-----------------------------------------------------------------------------
(* Clients whose jobs are apart leave confirmations undisturbed.           *)

Apart(r) ==
  /\ Kind(r) = "cancel" /\ read[r].status = "draft" => status[Order(r)] # "confirmed"
  /\ Kind(r) = "confirm" =>
       /\ pc[r] \in {"lines", "warehouse", "credit", "guard", "stock"} =>
            /\ status[Order(r)] # "absent"
            /\ read[r].customer = customer[Order(r)]
            /\ read[r].total = OrderTotal(lines[Order(r)])
       /\ pc[r] \in {"warehouse", "credit", "guard", "stock"} =>
            read[r].lines = lines[Order(r)]
ApartInv == open = OpenAtStart /\ \A r \in Requests : Apart(r)

LEMMA ApartInit == Init => ApartInv
BY DEF Init, ApartInv, Apart, NothingRead

(* Only a confirmation confirms, and only an edit changes existing lines.  *)
LEMMA WhatWrites ==
  ASSUME SalesInv, NEW r \in Requests, NEW o \in Orders, o = Order(r), Writes(r)
  PROVE  /\ status'[o] # "absent"
         /\ status'[o] = "confirmed" => Kind(r) = "confirm"
         /\ \/ lines'[o] = lines[o] /\ customer'[o] = customer[o]
            \/ status[o] = "absent" \/ Kind(r) = "update"
         /\ pc'[r] \in {"replied", "cogs"}
<1>1. status \in [Orders -> Statuses] /\ pc \in [Requests -> PlacesOfRequest]
  BY DEF SalesInv, Shape, SalesTypeOK, PlacesOfRequest
<1>2. CASE Create(r)
  BY <1>1, <1>2 DEF Create, Goto
<1>3. CASE CommitUpdate(r)
  <2>1. status[o] = "draft"
    BY <1>3 DEF CommitUpdate, SalesInv, RequestOK, HoldsOrder, Past, Source
  <2> QED
    BY <1>1, <1>3, <2>1 DEF CommitUpdate, Goto
<1>4. CASE ReserveAndCommit(r) \/ ConsumeAndCommit(r) \/ ReleaseAndCommit(r) \/ CommitCancel(r)
  <2>1. /\ Kind(r) \in Moves /\ status' = [status EXCEPT ![o] = Target[Kind(r)]]
        /\ lines' = lines /\ customer' = customer /\ pc'[r] \in {"replied", "cogs"}
    BY <1>1, <1>4 DEF ReserveAndCommit, ConsumeAndCommit, ReleaseAndCommit, CommitCancel,
                      Finish, Goto, Moves
  <2>2. status'[o] = Target[Kind(r)]
    BY <1>1, <2>1
  <2> QED
    BY <2>1, <2>2 DEF Moves, Target
<1> QED
  BY <1>2, <1>3, <1>4 DEF Writes

LEMMA OthersApart ==
  ASSUME JobsApart, SalesInv, NEW r \in Requests, Arrive(r) \/ Step(r) \/ Lost(r),
         NEW s \in Requests, s # r, Apart(s)
  PROVE  Apart(s)'
<1>1. PICK o \in Orders : o = Order(s)
  BY JobTypes DEF SalesInv, Shape
<1>2. PICK k \in Orders : k = Order(r)
  BY JobTypes DEF SalesInv, Shape
<1>3. /\ Order(s)' = o /\ Kind(s)' = Kind(s)
      /\ pc'[s] = pc[s] /\ read'[s] = read[s]
  BY <1>1, StepRests DEF Order, Kind
<1>4. ASSUME Kind(s) = "cancel", status[o] # "confirmed" PROVE status'[o] # "confirmed"
  <2>1. CASE Writes(r) /\ k = o
    <3>1. Kind(r) # "confirm"
      <4>1. job[r] \in Jobs /\ job[s] \in Jobs
        BY DEF SalesInv, Shape, SalesTypeOK
      <4> QED
        BY <1>1, <1>2, <1>4, <2>1, <4>1 DEF JobsApart, Order, Kind
    <3> QED
      BY <1>2, <2>1, <3>1, WhatWrites
  <2>2. CASE ~(Writes(r) /\ k = o)
    BY <1>2, <1>4, <2>2, StepRests, WritesItsOrder
  <2> QED
    BY <2>1, <2>2
<1>5. ASSUME Kind(s) = "confirm", status[o] # "absent"
      PROVE  status'[o] # "absent" /\ lines'[o] = lines[o] /\ customer'[o] = customer[o]
  <2>1. CASE Writes(r) /\ k = o
    <3>1. Kind(r) # "update"
      <4>1. job[r] \in Jobs /\ job[s] \in Jobs
        BY DEF SalesInv, Shape, SalesTypeOK
      <4> QED
        BY <1>1, <1>2, <1>5, <2>1, <4>1 DEF JobsApart, Order, Kind
    <3> QED
      BY <1>2, <1>5, <2>1, <3>1, WhatWrites
  <2>2. CASE ~(Writes(r) /\ k = o)
    BY <1>2, <1>5, <2>2, StepRests, WritesItsOrder
  <2> QED
    BY <2>1, <2>2
<1> QED
  BY <1>1, <1>3, <1>4, <1>5 DEF Apart

LEMMA StepApart ==
  ASSUME SalesInv, NEW r \in Requests, Arrive(r) \/ Step(r) \/ Lost(r), Apart(r)
  PROVE  Apart(r)'
<1>1. PICK o \in Orders : o = Order(r)
  BY JobTypes DEF SalesInv, Shape
<1>2. Order(r)' = o /\ Kind(r)' = Kind(r) /\ pc \in [Requests -> PlacesOfRequest]
      /\ read \in [Requests -> Reading]
  BY <1>1, StepRests DEF Order, Kind, SalesInv, Shape, SalesTypeOK, PlacesOfRequest
<1>3. CASE Writes(r)
  <2>1. status'[o] = "confirmed" => Kind(r) = "confirm"
    BY <1>1, <1>3, WhatWrites
  <2>2. pc'[r] \in {"replied", "cogs"}
    BY <1>1, <1>3, WhatWrites
  <2> QED
    BY <1>2, <2>1, <2>2 DEF Apart
<1>4. CASE Refuse(r) \/ Replies(r) \/ CreditFails(r)
  <2>1. pc'[r] \in {"replied", "refused"} /\ read'[r] = NothingRead
    BY <1>2, <1>4 DEF Goto, Refuse, Replies, Reply, CreditFails
  <2> QED
    BY <2>1 DEF Apart, NothingRead
<1>5. CASE BeginUpdate(r) \/ PostCogs(r)
  <2>1. Kind(r) \in {"update", "fulfil"}
    BY <1>5 DEF BeginUpdate, PostCogs, SalesInv, RequestOK, KindAt
  <2> QED
    BY <1>2, <2>1 DEF Apart
<1>6. CASE ReadOrder(r)
  <2>1. /\ Kind(r) \in {"confirm", "fulfil", "cancel"} /\ status[o] \in Source[Kind(r)]
        /\ pc'[r] = (IF Kind(r) = "cancel" THEN "guard" ELSE "lines")
        /\ read'[r].status = status[o] /\ UNCHANGED <<status, lines, customer>>
        /\ read'[r].customer = customer[o] /\ read'[r].total = OrderTotal(lines[o])
    BY <1>1, <1>2, <1>6 DEF ReadOrder, Goto, Reading, orderVars
  <2>2. read'[r].total = OrderTotal(lines'[o])
    BY <2>1
  <2> QED
    BY <1>2, <2>1, <2>2 DEF Apart, Source
<1>7. CASE ReadLines(r)
  <2>1. /\ pc[r] = "lines" /\ pc'[r] = "warehouse" /\ UNCHANGED <<status, lines, customer>>
        /\ read'[r].lines = lines[o] /\ read'[r].status = read[r].status
        /\ read'[r].customer = read[r].customer /\ read'[r].total = read[r].total
    BY <1>1, <1>2, <1>7 DEF ReadLines, Goto, Reading, orderVars
  <2> QED
    BY <1>1, <1>2, <2>1 DEF Apart
<1>8. CASE ResolveWarehouse(r)
  <2>1. /\ pc[r] = "warehouse" /\ UNCHANGED <<status, lines, customer>>
        /\ read'[r].lines = read[r].lines /\ read'[r].status = read[r].status
        /\ read'[r].customer = read[r].customer /\ read'[r].total = read[r].total
    BY <1>1, <1>2, <1>8 DEF ResolveWarehouse, Reading, orderVars
  <2> QED
    BY <1>1, <1>2, <2>1 DEF Apart
<1>9. CASE CreditPasses(r) \/ ProbeInvoice(r) \/ InsertInvoice(r)
  <2>1. /\ pc[r] \in {"credit", "probe", "invoice"} /\ read' = read
        /\ UNCHANGED <<status, lines, customer>> /\ Kind(r) # "cancel"
        /\ Kind(r) = "confirm" => pc[r] = "credit"
    BY <1>9 DEF CreditPasses, ProbeInvoice, InsertInvoice, SalesInv, RequestOK, KindAt, orderVars
  <2> QED
    BY <1>1, <1>2, <2>1 DEF Apart
<1>10. CASE GuardWins(r)
  <2>1. pc[r] = "guard" /\ read' = read /\ UNCHANGED <<status, lines, customer>>
    BY <1>10 DEF GuardWins, orderVars
  <2> QED
    BY <1>1, <1>2, <2>1 DEF Apart
<1> QED
  BY <1>3, <1>4, <1>5, <1>6, <1>7, <1>8, <1>9, <1>10, StepKinds

LEMMA ApartStep ==
  ASSUME JobsApart
  PROVE  SalesInv /\ ApartInv /\ [Next]_salesVars => ApartInv'
<1> SUFFICES ASSUME SalesInv, ApartInv, [Next]_salesVars PROVE ApartInv'
  OBVIOUS
<1>1. ASSUME NEW r \in Requests, Arrive(r) \/ Step(r) \/ Lost(r) PROVE ApartInv'
  <2>1. \A s \in Requests : Apart(s)
    BY DEF ApartInv
  <2>2. \A s \in Requests : Apart(s)'
    BY <1>1, <2>1, OthersApart, StepApart
  <2>3. open' = open
    <3>1. ASSUME Writes(r) PROVE open' = open
      BY <3>1 DEF Writes, Create, CommitUpdate, ReserveAndCommit, ConsumeAndCommit,
                  ReleaseAndCommit, CommitCancel, Finish
    <3>2. ASSUME Refuse(r) \/ Replies(r) \/ CreditFails(r) PROVE open' = open
      BY <3>2 DEF Refuse, Replies, Reply, CreditFails
    <3>3. ASSUME \/ BeginUpdate(r) \/ ReadOrder(r) \/ ReadLines(r) \/ ResolveWarehouse(r)
                 \/ CreditPasses(r) \/ ProbeInvoice(r) \/ InsertInvoice(r)
                 \/ GuardWins(r) \/ PostCogs(r)
          PROVE  open' = open
      BY <3>3 DEF BeginUpdate, ReadOrder, ReadLines, ResolveWarehouse, CreditPasses,
                  ProbeInvoice, InsertInvoice, GuardWins, PostCogs
    <3> QED
      BY <1>1, <3>1, <3>2, <3>3, StepKinds
  <2> QED
    BY <2>2, <2>3 DEF ApartInv
<1>2. ASSUME UNCHANGED salesVars PROVE ApartInv'
  <2>1. UNCHANGED <<status, lines, customer, itemVars, pc, job, read>>
    BY <1>2 DEF salesVars, orderVars
  <2> QED
    BY <2>1 DEF ApartInv, Apart, Order, Kind
<1> QED
  BY <1>1, <1>2 DEF Next, JobsApart

(* Both conditions hold of clients whose jobs are apart: as long as nobody *)
(* who may confirm an order has to share it with an edit or a              *)
(* cancellation, and warehouses stay as they are, what a confirmation has  *)
(* read is still so when it commits, and the theorems above hold without a *)
(* condition on the behaviour.                                             *)
THEOREM JobsApartUndisturbed ==
  ASSUME JobsApart
  PROVE  Spec => [](Undisturbed /\ CheckStands)
<1>1. ApartInv => Undisturbed /\ CheckStands
  BY DEF ApartInv, Apart, Undisturbed, CheckStands, JobsApart
<1>2. SalesInv /\ ApartInv /\ [Next]_salesVars => ApartInv'
  BY ApartStep
<1> QED
  BY <1>1, <1>2, SalesAlways, ApartInit, PTL DEF Spec
=============================================================================
