---------------------------- MODULE Receivables -----------------------------
(***************************************************************************)
(* Invoices, payments and the payment-matching inbox of one tenant         *)
(* (services/core/src/core/features/finance/service.py, payment_match.py): *)
(* requests that issue, approve and void invoices, apply payments, accept  *)
(* receipts from the inbox one by one or in a batch, dismiss them, and     *)
(* undo an accepted one. Each request is one database transaction at READ  *)
(* COMMITTED: it sees what is committed and what it wrote itself.          *)
(***************************************************************************)
EXTENDS Integers, Sequences, FiniteSets, Functions

CONSTANTS
  Invoices, Intents, Requests, NoRequest, Nothing,
  Slips,      \* an amount and the instant it was paid at, as on a receipt
  Total,      \* of each invoice
  Amount,     \* of each slip
  SlipOf,     \* what each receipt of the inbox says
  Plans,      \* what each of the requests asks for
  InitialStatuses  \* what the invoices may be before the run

(* What a request pays: a receipt of the inbox, or Nothing for a payment   *)
(* entered by hand, the invoice it goes to, and its slip.                  *)
Items == [intent : Intents \cup {Nothing}, invoice : Invoices \cup {Nothing},
          slip : Slips \cup {Nothing}]

Kinds == {"issue", "approve", "void", "pay", "accept", "bulk", "undo", "dismiss"}

ASSUME ReceivableNamesAssumption ==
  /\ NoRequest \notin Requests
  /\ Nothing \notin Invoices \cup Intents \cup Slips
ASSUME ReceivableAmountsAssumption ==
  /\ Total \in [Invoices -> Nat] /\ Amount \in [Slips -> Nat]
  /\ SlipOf \in [Intents -> Slips]

(* What the routes take: an invoice, a receipt, or a receipt with the      *)
(* invoice it goes to; only a batch has more than one item. What is paid   *)
(* for a receipt is what the receipt says.                                 *)
WellFormed(j) ==
  /\ j.kind \in Kinds
  /\ j.items \in Seq(Items) /\ j.items # <<>>
  /\ j.kind # "bulk" => Len(j.items) = 1
  /\ \A k \in DOMAIN j.items :
       LET item == j.items[k]
       IN  /\ j.kind \in {"issue", "approve", "void", "pay", "accept", "bulk"} =>
                item.invoice \in Invoices
           /\ j.kind \in {"pay", "accept", "bulk"} => item.slip \in Slips
           /\ IF j.kind \in {"accept", "bulk", "undo", "dismiss"}
              THEN item.intent \in Intents ELSE item.intent = Nothing
           /\ j.kind \in {"accept", "bulk"} => item.slip = SlipOf[item.intent]

ASSUME ReceivablePlansAssumption ==
  \A plan \in Plans : \A r \in Requests : WellFormed(plan[r])

(* A payment is known by the request that inserted it and by its unique    *)
(* reference, which is made of the invoice and the slip.                   *)
Payment == [by : Requests, invoice : Invoices, slip : Slips]
IntentRow == [status : {"open", "applied", "dismissed"}, payment : Payment \cup {Nothing}]
InvoiceStatus == {"draft", "issued", "approved", "paid", "voided"}

ASSUME ReceivableMarksAssumption ==
  Nothing \notin IntentRow /\ Nothing \notin Payment /\ Nothing \notin InvoiceStatus
(* The run starts before any payment: no invoice is paid yet.              *)
ASSUME ReceivableStatusesAssumption ==
  InitialStatuses \subseteq [Invoices -> InvoiceStatus \ {"paid"}]

VARIABLES
  status,    \* committed erp_invoices.status
  payments,  \* committed erp_payments
  accruals,  \* invoices with a committed revenue entry
  receipts,  \* payments with a committed cash entry
  intent,    \* committed erp_payment_intents
  holder,    \* who holds the row lock of an invoice
  stamping,  \* who holds the row lock of an intent
  accruing,  \* who has an uncommitted revenue entry of an invoice
  pc, job,   \* of each request
  at,        \* the item it is at
  seen,      \* what it read and still goes by
  work,      \* what it wrote and has not committed
  met        \* the requests that were open at the same time as it

bookVars == <<status, payments, accruals, receipts, intent>>
lockVars == <<holder, stamping, accruing>>
vars == <<bookVars, lockVars, pc, job, at, seen, work, met>>

NothingSeen == [status |-> Nothing, settles |-> FALSE, row |-> Nothing, loaded |-> Nothing]
NoWork == [status |-> [i \in Invoices |-> Nothing], paid |-> {}, gone |-> {},
           posted |-> {}, unposted |-> {}, intent |-> [n \in Intents |-> Nothing]]

OpenIntent == [status |-> "open", payment |-> Nothing]

Init ==
  /\ status \in InitialStatuses
  /\ payments = {} /\ receipts = {}
  /\ accruals = {i \in Invoices : status[i] = "approved"}
  /\ intent = [n \in Intents |-> OpenIntent]
  /\ holder = [i \in Invoices |-> NoRequest]
  /\ stamping = [n \in Intents |-> NoRequest]
  /\ accruing = [i \in Invoices |-> NoRequest]
  /\ pc = [r \in Requests |-> "idle"]
  /\ job \in Plans
  /\ at = [r \in Requests |-> 1]
  /\ seen = [r \in Requests |-> NothingSeen]
  /\ work = [r \in Requests |-> NoWork]
  /\ met = [r \in Requests |-> {}]

-----------------------------------------------------------------------------

Kind(r) == job[r].kind
Item(r) == job[r].items[at[r]]
Invoice(r) == Item(r).invoice
Intent(r)  == Item(r).intent

Ended == {"replied", "refused"}
Active == {r \in Requests : pc[r] \notin Ended \cup {"idle"}}

(* What request r sees: committed rows under its own writes.               *)
PaymentsFor(r) == (payments \ work[r].gone) \cup work[r].paid
StatusFor(r, i) == IF work[r].status[i] = Nothing THEN status[i] ELSE work[r].status[i]
IntentFor(r, n) == IF work[r].intent[n] = Nothing THEN intent[n] ELSE work[r].intent[n]

PaymentAmount == [p \in Payment |-> Amount[p.slip]]
SumPayments(ps, i) == SumFunctionOnSet(PaymentAmount, {p \in ps : p.invoice = i})

(* Fault variant: a failed request's session is never closed.              *)
Free_Keeps(lock, r) == lock

Free(lock, r) == [x \in DOMAIN lock |-> IF lock[x] = r THEN NoRequest ELSE lock[x]]
MayLock(lock, x, r) == lock[x] \in {NoRequest, r}

(* The request leaves pc "idle" and meets every request that is open.      *)
Begin(r, where) ==
  /\ pc[r] = "idle"
  /\ pc' = [pc EXCEPT ![r] = where]
  /\ met' = [s \in Requests |-> IF s = r THEN Active
                                ELSE IF s \in Active THEN met[s] \cup {r}
                                ELSE met[s]]

Goto(r, where) == pc' = [pc EXCEPT ![r] = where] /\ UNCHANGED met

GiveBack(r) ==
  /\ holder' = Free(holder, r) /\ stamping' = Free(stamping, r)
  /\ accruing' = Free(accruing, r)
  /\ seen' = [seen EXCEPT ![r] = NothingSeen]
  /\ work' = [work EXCEPT ![r] = NoWork]
  /\ at' = [at EXCEPT ![r] = 1]

(* The handler raised: get_db closes the session without a commit.         *)
Refuse(r) ==
  /\ pc' = [pc EXCEPT ![r] = "refused"]
  /\ GiveBack(r)
  /\ UNCHANGED <<bookVars, job, met>>

(* The transaction w of request r becomes visible, with accruals a.        *)
Commit(r, w, a) ==
  /\ status' = [i \in Invoices |-> IF w.status[i] = Nothing THEN status[i] ELSE w.status[i]]
  /\ payments' = (payments \ w.gone) \cup w.paid
  /\ receipts' = (receipts \ w.unposted) \cup w.posted
  /\ accruals' = a
  /\ intent' = [n \in Intents |-> IF w.intent[n] = Nothing THEN intent[n] ELSE w.intent[n]]
  /\ pc' = [pc EXCEPT ![r] = "replied"]
  /\ GiveBack(r)
  /\ UNCHANGED <<job, met>>

-----------------------------------------------------------------------------
(* issue_invoice, approve_invoice and void_invoice.                        *)

Source == [issue |-> {"draft"}, approve |-> {"issued"}, void |-> {"draft", "issued"}]
Target == [issue |-> "issued", approve |-> "approved", void |-> "voided"]

ReadInvoice(r) ==
  /\ Kind(r) \in DOMAIN Source
  /\ status[Invoice(r)] \in Source[Kind(r)]
  /\ Begin(r, IF Kind(r) = "approve" THEN "accrue" ELSE "flip")
  /\ UNCHANGED <<bookVars, lockVars, job, at, seen, work>>

IllegalFlip(r) ==
  /\ pc[r] = "idle" /\ Kind(r) \in DOMAIN Source
  /\ status[Invoice(r)] \notin Source[Kind(r)]
  /\ Refuse(r)

(* The unique (source, source_ref) of the revenue entry: an insert waits   *)
(* for another one in flight, and conflicts with a committed one.          *)
Accrue(r) ==
  /\ pc[r] = "accrue" /\ MayLock(accruing, Invoice(r), r)
  /\ Invoice(r) \notin accruals
  /\ accruing' = [accruing EXCEPT ![Invoice(r)] = r]
  /\ Goto(r, "flip")
  /\ UNCHANGED <<bookVars, holder, stamping, job, at, seen, work>>

AccrualExists(r) ==
  /\ pc[r] = "accrue" /\ MayLock(accruing, Invoice(r), r)
  /\ Invoice(r) \in accruals
  /\ Refuse(r)

(* Fault variant: the flip writes whatever the status has become.          *)
FlipGuard_None(r, i) == TRUE

FlipGuard(r, i) == status[i] \in Source[Kind(r)]

(* _flip_invoice_status: a guarded update, and the commit.                 *)
Flip(r) ==
  LET i == Invoice(r)
  IN  /\ pc[r] = "flip" /\ MayLock(holder, i, r)
      /\ FlipGuard(r, i)
      /\ Commit(r, [NoWork EXCEPT !.status[i] = Target[Kind(r)]],
                IF Kind(r) = "approve" THEN accruals \cup {i} ELSE accruals)

LostFlip(r) ==
  /\ pc[r] = "flip" /\ MayLock(holder, Invoice(r), r)
  /\ ~FlipGuard(r, Invoice(r))
  /\ Refuse(r)

-----------------------------------------------------------------------------
(* apply_payment, alone or on behalf of accept.                            *)

(* The probe for an identical payment, before anything is locked.          *)
Same(ps, item) == {p \in ps : p.invoice = item.invoice /\ p.slip = item.slip}

(* Fault variant: only a dismissed receipt counts as resolved.             *)
Unresolved_Applied(row) == row.status # "dismissed"

Unresolved(row) == row.status = "open"

(* get of a receipt: it must be unresolved. A batch checks every receipt   *)
(* and every invoice first, and each receipt again when its turn comes.    *)
GetIntent(r) ==
  /\ \/ Kind(r) = "accept" /\ Begin(r, "probe")
     \/ Kind(r) = "dismiss" /\ Begin(r, "load")
     \/ pc[r] = "get" /\ Goto(r, "probe")
  /\ Unresolved(IntentFor(r, Intent(r)))
  /\ UNCHANGED <<bookVars, lockVars, job, at, seen, work>>

AlreadyResolved(r) ==
  /\ \/ pc[r] = "idle" /\ Kind(r) \in {"accept", "dismiss"}
     \/ pc[r] = "get"
  /\ ~Unresolved(IntentFor(r, Intent(r)))
  /\ Refuse(r)

(* preflight_payment, on the locked row.                                   *)
Payable(r) ==
  LET i == Invoice(r)
  IN  /\ StatusFor(r, i) = "approved"
      /\ Amount[Item(r).slip] <= Total[i] - SumPayments(PaymentsFor(r), i)

BeginBatch(r) ==
  /\ Kind(r) = "bulk" /\ Begin(r, "prevalidate")
  /\ UNCHANGED <<bookVars, lockVars, job, at, seen, work>>

(* Fault variant: the invoice is read without FOR UPDATE.                  *)
LockInvoice_Plain(r, i) == holder' = holder

LockInvoice(r, i) == MayLock(holder, i, r) /\ holder' = [holder EXCEPT ![i] = r]

Prevalidate(r) ==
  LET last == at[r] = Len(job[r].items)
  IN  /\ pc[r] = "prevalidate"
      /\ LockInvoice(r, Invoice(r))
      /\ Unresolved(IntentFor(r, Intent(r))) /\ Payable(r)
      /\ at' = [at EXCEPT ![r] = IF last THEN 1 ELSE @ + 1]
      /\ Goto(r, IF last THEN "get" ELSE "prevalidate")
      /\ UNCHANGED <<bookVars, stamping, accruing, job, seen, work>>

PrevalidateFails(r) ==
  /\ pc[r] = "prevalidate" /\ MayLock(holder, Invoice(r), r)
  /\ ~(Unresolved(IntentFor(r, Intent(r))) /\ Payable(r))
  /\ Refuse(r)

ProbeMisses(r) ==
  /\ \/ pc[r] = "probe" /\ Goto(r, "lock")
     \/ Kind(r) = "pay" /\ Begin(r, "lock")
  /\ Same(PaymentsFor(r), Item(r)) = {}
  /\ UNCHANGED <<bookVars, lockVars, job, at, seen, work>>

(* A payment entered by hand is answered with the one that exists.         *)
Replayed(r) ==
  /\ pc[r] = "idle" /\ Kind(r) = "pay"
  /\ Same(payments, Item(r)) # {}
  /\ Commit(r, work[r], accruals)

(* What the stamp of the receipt will be.                                  *)
Stamp(r, s, p) == [status |-> s, payment |-> p]

(* An accepted receipt is stamped with whatever payment the probe found.   *)
ProbeHits(r) ==
  /\ pc[r] = "probe"
  /\ \E p \in Same(PaymentsFor(r), Item(r)) :
       seen' = [seen EXCEPT ![r].row = Stamp(r, "applied", p)]
  /\ Goto(r, "load")
  /\ UNCHANGED <<bookVars, lockVars, job, at, work>>

Lock(r) ==
  /\ pc[r] = "lock"
  /\ LockInvoice(r, Invoice(r))
  /\ Payable(r)
  /\ seen' = [seen EXCEPT ![r].settles =
       Total[Invoice(r)] - SumPayments(PaymentsFor(r), Invoice(r)) = Amount[Item(r).slip]]
  /\ Goto(r, "book")
  /\ UNCHANGED <<bookVars, stamping, accruing, job, at, work>>

NotPayable(r) ==
  /\ pc[r] = "lock" /\ MayLock(holder, Invoice(r), r)
  /\ ~Payable(r)
  /\ Refuse(r)

(* Fault variant: no unique constraint backs the probe up.                 *)
ReferenceFree_Assumed(r) == TRUE

ReferenceFree(r) == Same(PaymentsFor(r), Item(r)) = {}

(* The payment, its cash entry, and paid when nothing remains: the flip is *)
(* guarded on approved.                                                    *)
Booked(r, p) ==
  LET i == p.invoice
      w == work[r]
  IN  [w EXCEPT !.paid = @ \cup {p}, !.posted = @ \cup {p},
                !.status[i] = IF seen[r].settles /\ StatusFor(r, i) = "approved"
                              THEN "paid" ELSE @]

Book(r) ==
  LET p == [by |-> r, invoice |-> Invoice(r), slip |-> Item(r).slip]
  IN  /\ pc[r] = "book"
      /\ ReferenceFree(r)
      /\ IF Kind(r) = "pay" THEN Commit(r, Booked(r, p), accruals)
         ELSE /\ work' = [work EXCEPT ![r] = Booked(r, p)]
              /\ seen' = [seen EXCEPT ![r].row = Stamp(r, "applied", p)]
              /\ Goto(r, "load")
              /\ UNCHANGED <<bookVars, lockVars, job, at>>

(* The unique reference was taken after the probe: the insert fails and    *)
(* with it the session, so the second look the code takes cannot answer.   *)
ReferenceTaken(r) ==
  /\ pc[r] = "book"
  /\ ~ReferenceFree(r)
  /\ Refuse(r)

-----------------------------------------------------------------------------
(* update_payment_intent: the row is read again, and only the columns that *)
(* differ from that reading are written, once the row is free.             *)

Load(r) ==
  /\ pc[r] = "load"
  /\ seen' = [seen EXCEPT ![r].loaded = IntentFor(r, Intent(r)),
                          ![r].row = IF Kind(r) = "dismiss"
                                     THEN Stamp(r, "dismissed", Nothing) ELSE @]
  /\ Goto(r, "stamp")
  /\ UNCHANGED <<bookVars, lockVars, job, at, work>>

Written(row, loaded, want) ==
  [c \in {"status", "payment"} |-> IF want[c] = loaded[c] THEN row[c] ELSE want[c]]

StampIntent(r) ==
  LET n == Intent(r)
      w == [work[r] EXCEPT !.intent[n] =
              Written(IntentFor(r, n), seen[r].loaded, seen[r].row)]
  IN  /\ pc[r] = "stamp" /\ MayLock(stamping, n, r)
      /\ IF at[r] = Len(job[r].items) THEN Commit(r, w, accruals)
         ELSE /\ work' = [work EXCEPT ![r] = w]
              /\ stamping' = [stamping EXCEPT ![n] = r]
              /\ at' = [at EXCEPT ![r] = @ + 1]
              /\ Goto(r, "get")
              /\ UNCHANGED <<bookVars, holder, accruing, job, seen>>

-----------------------------------------------------------------------------
(* undo: within the window, delete exactly the accepted payment, recompute *)
(* the invoice, reopen the receipt.                                        *)

GetApplied(r) ==
  /\ Kind(r) = "undo" /\ Begin(r, "find")
  /\ intent[Intent(r)].status = "applied" /\ intent[Intent(r)].payment # Nothing
  /\ seen' = [seen EXCEPT ![r].row = intent[Intent(r)]]
  /\ UNCHANGED <<bookVars, lockVars, job, at, work>>

(* Not applied, or applied more than fifteen minutes ago.                  *)
NotUndoable(r) ==
  /\ pc[r] = "idle" /\ Kind(r) = "undo"
  /\ Refuse(r)

Undone(r) == seen[r].row.payment

Find(r) ==
  /\ pc[r] = "find" /\ Undone(r) \in payments
  /\ Goto(r, "delete")
  /\ UNCHANGED <<bookVars, lockVars, job, at, seen, work>>

NothingToUndo(r) ==
  /\ pc[r] = "find" /\ Undone(r) \notin payments
  /\ Refuse(r)

DeletingBy(p) == {s \in Requests : p \in work[s].gone}

DeletePayment(r) ==
  /\ pc[r] = "delete" /\ DeletingBy(Undone(r)) \subseteq {r}
  /\ work' = [work EXCEPT ![r] = [@ EXCEPT !.gone = {Undone(r)}, !.unposted = {Undone(r)}]]
  /\ Goto(r, "reread")
  /\ UNCHANGED <<bookVars, lockVars, job, at, seen>>

(* settle_invoice_payment_status takes no lock: the status it compares     *)
(* with and the sum are two plain reads.                                   *)
ReadStatus(r) ==
  /\ pc[r] = "reread"
  /\ seen' = [seen EXCEPT ![r].status = status[Undone(r).invoice]]
  /\ Goto(r, "settle")
  /\ UNCHANGED <<bookVars, lockVars, job, at, work>>

Reopened == [status |-> "open", payment |-> Nothing]

(* Fault variant: the sum is taken before the deletion is flushed.         *)
SettledStatus_Early(r, i) ==
  IF SumPayments(payments, i) >= Total[i] THEN "paid" ELSE "approved"

SettledStatus(r, i) ==
  IF SumPayments(PaymentsFor(r), i) >= Total[i] THEN "paid" ELSE "approved"

Settle(r) ==
  LET i == Undone(r).invoice
      s == SettledStatus(r, i)
  IN  /\ pc[r] = "settle"
      /\ IF s = seen[r].status
         THEN Goto(r, "load") /\ seen' = [seen EXCEPT ![r].row = Reopened]
         ELSE Goto(r, "rewrite") /\ seen' = [seen EXCEPT ![r].status = s]
      /\ UNCHANGED <<bookVars, lockVars, job, at, work>>

WriteStatus(r) ==
  LET i == Undone(r).invoice
  IN  /\ pc[r] = "rewrite" /\ MayLock(holder, i, r)
      /\ holder' = [holder EXCEPT ![i] = r]
      /\ work' = [work EXCEPT ![r].status[i] = seen[r].status]
      /\ seen' = [seen EXCEPT ![r].row = Reopened]
      /\ Goto(r, "load")
      /\ UNCHANGED <<bookVars, stamping, accruing, job, at>>

-----------------------------------------------------------------------------
(* Lock waits. PostgreSQL ends a cycle by failing one of its transactions. *)

WaitsFor(r) ==
  CASE pc[r] \in {"prevalidate", "lock", "flip"} -> {holder[Invoice(r)]}
    [] pc[r] = "rewrite" -> {holder[Undone(r).invoice]}
    [] pc[r] = "accrue" -> {accruing[Invoice(r)]}
    [] pc[r] = "stamp" -> {stamping[Intent(r)]}
    [] pc[r] = "delete" -> DeletingBy(Undone(r))
    [] OTHER -> {}

OnWaitCycle(r) ==
  \E S \in SUBSET Requests :
    r \in S /\ \A s \in S : \E t \in S : t # s /\ t \in WaitsFor(s)

DeadlockVictim(r) == OnWaitCycle(r) /\ Refuse(r)

InvoiceStep(r) ==
  \/ ReadInvoice(r) \/ IllegalFlip(r) \/ Accrue(r) \/ AccrualExists(r)
  \/ Flip(r) \/ LostFlip(r)

PaymentStep(r) ==
  \/ ProbeMisses(r) \/ Replayed(r) \/ ProbeHits(r) \/ Lock(r) \/ NotPayable(r)
  \/ Book(r) \/ ReferenceTaken(r)

InboxStep(r) ==
  \/ GetIntent(r) \/ AlreadyResolved(r) \/ BeginBatch(r) \/ Prevalidate(r)
  \/ PrevalidateFails(r) \/ Load(r) \/ StampIntent(r)

UndoStep(r) ==
  \/ GetApplied(r) \/ NotUndoable(r) \/ Find(r) \/ NothingToUndo(r)
  \/ DeletePayment(r) \/ ReadStatus(r) \/ Settle(r) \/ WriteStatus(r)

Step(r) ==
  \/ InvoiceStep(r) \/ PaymentStep(r) \/ InboxStep(r) \/ UndoStep(r)
  \/ DeadlockVictim(r)

AllEnded == (\A r \in Requests : pc[r] \in Ended) /\ UNCHANGED vars

Next == (\E r \in Requests : Step(r)) \/ AllEnded

Spec == Init /\ [][Next]_vars

(* A request that can go on does: the event loop resumes its coroutine.    *)
FairSpec == Spec /\ \A r \in Requests : WF_vars(Step(r))
-----------------------------------------------------------------------------
(* Properties.                                                             *)

Concerned(n) ==
  {r \in Requests : \E k \in DOMAIN job[r].items : job[r].items[k].intent = n}

(* What the requests that name receipt n put on the books for it.          *)
BookedFor(n) == {p \in payments : p.by \in Concerned(n) /\ p.slip = SlipOf[n]}

(* Every committed row and every program counter is of its kind, and a     *)
(* lock is held by an open request or by none.                             *)
ReceivablesTypeOK ==
  /\ status \in [Invoices -> InvoiceStatus]
  /\ payments \in SUBSET Payment /\ receipts \in SUBSET Payment
  /\ accruals \in SUBSET Invoices
  /\ intent \in [Intents -> IntentRow]
  /\ \A i \in Invoices : holder[i] \in Active \cup {NoRequest}
  /\ \A i \in Invoices : accruing[i] \in Active \cup {NoRequest}
  /\ \A n \in Intents : stamping[n] \in Active \cup {NoRequest}
  /\ \A r \in Requests : at[r] \in DOMAIN job[r].items

(* However payments, batches and undos interleave, an invoice never        *)
(* collects more than its total (apply_payment: the row lock is held from  *)
(* the sum to the commit).                                                 *)
NeverOverpaid == \A i \in Invoices : SumPayments(payments, i) <= Total[i]

(* The ledger tells what the invoices and payments tell: one cash entry    *)
(* per payment, a revenue entry for exactly the approved and paid invoices *)
(* (approve_invoice, apply_payment and delete_payment write both sides).   *)
LedgerMatches ==
  /\ receipts = payments
  /\ accruals = {i \in Invoices : status[i] \in {"approved", "paid"}}

(* No two payments share a reference, replays and second looks included    *)
(* (apply_payment, "a replayed request can never double-book").            *)
BookedOnce ==
  \A p, q \in payments : p.invoice = q.invoice /\ p.slip = q.slip => p = q

(* An invoice is paid exactly when its payments cover it. An undo takes no *)
(* lock for what it reads, so this holds when no undo overlapped another   *)
(* request (settle_invoice_payment_status).                                *)
PaidAsCovered ==
  (\A r \in Requests : Kind(r) = "undo" => met[r] = {}) =>
    \A i \in Invoices : status[i] \in {"approved", "paid"} =>
      (status[i] = "paid" <=> SumPayments(payments, i) >= Total[i])

(* A receipt is applied exactly when its one payment is on the books, and  *)
(* an open or dismissed one has none. Its row is read without a lock, so   *)
(* this holds when the requests that name it do not overlap; and only for  *)
(* a receipt whose slip nothing else pays (accept, undo, dismiss).         *)
ReceiptsAccounted ==
  \A n \in Intents :
    /\ \A r, s \in Concerned(n) : s \notin met[r]
    /\ \A r \in Requests : \A k \in DOMAIN job[r].items :
         job[r].items[k].slip = SlipOf[n] => job[r].items[k].intent = n
    => BookedFor(n) = (IF intent[n].status = "applied" THEN {intent[n].payment} ELSE {})

(* payment_match.py, accept: "The intent (not the payment UNIQUE stamp) is *)
(* the idempotency guard: a resolved intent cannot be applied twice."      *)
AppliedOnce == \A n \in Intents : Cardinality(BookedFor(n)) <= 1

(* payment_match undo: "the invoice must reflect the OTHER payments still  *)
(* on it" (settle_invoice_payment_status), whatever else runs.             *)
PaidReflectsPayments ==
  \A i \in Invoices : status[i] = "paid" => SumPayments(payments, i) >= Total[i]

(* Every request is answered: no lock is kept, no cycle of waits remains.  *)
EveryRequestEnds == \A r \in Requests : <>(pc[r] \in Ended)
=============================================================================
