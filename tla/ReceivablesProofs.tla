------------------------- MODULE ReceivablesProofs --------------------------
(***************************************************************************)
(* For every set of invoices, receipts, requests and plans: the ledger     *)
(* keeps telling what the invoices and the payments tell, and no payment   *)
(* is booked twice under one reference. The argument is the inductive      *)
(* invariant BooksInv: what is written and not committed is already        *)
(* balanced, an invoice once approved stays so, and the row lock of an     *)
(* invoice covers every payment that waits for its commit.                 *)
(***************************************************************************)
EXTENDS Receivables, TLAPS

Recognised == {"approved", "paid"}

Places ==
  {"idle", "replied", "refused", "accrue", "flip", "prevalidate", "get", "probe",
   "lock", "book", "load", "stamp", "find", "delete", "reread", "settle", "rewrite"}

Seen == [status : InvoiceStatus \cup {Nothing}, settles : BOOLEAN,
         row : IntentRow \cup {Nothing}, loaded : IntentRow \cup {Nothing}]

Work == [status : [Invoices -> InvoiceStatus \cup {Nothing}],
         paid : SUBSET Payment, gone : SUBSET Payment,
         posted : SUBSET Payment, unposted : SUBSET Payment,
         intent : [Intents -> IntentRow \cup {Nothing}]]

(* Every variable is of its type, and every request at a place its kind    *)
(* can be at.                                                              *)
Shape ==
  /\ status \in [Invoices -> InvoiceStatus]
  /\ payments \in SUBSET Payment
  /\ receipts \in SUBSET Payment
  /\ accruals \in SUBSET Invoices
  /\ intent \in [Intents -> IntentRow]
  /\ holder \in [Invoices -> Requests \cup {NoRequest}]
  /\ stamping \in [Intents -> Requests \cup {NoRequest}]
  /\ accruing \in [Invoices -> Requests \cup {NoRequest}]
  /\ pc \in [Requests -> Places]
  /\ job \in Plans
  /\ at \in [Requests -> Nat]
  /\ seen \in [Requests -> Seen]
  /\ work \in [Requests -> Work]
  /\ \A r \in Requests : at[r] \in DOMAIN job[r].items

KindAt ==
  \A r \in Requests :
    /\ pc[r] = "accrue" => Kind(r) = "approve"
    /\ pc[r] = "flip" => Kind(r) \in {"issue", "approve", "void"}
    /\ pc[r] \in {"prevalidate", "get"} => Kind(r) = "bulk"
    /\ pc[r] = "probe" => Kind(r) \in {"accept", "bulk"}
    /\ pc[r] \in {"lock", "book"} => Kind(r) \in {"pay", "accept", "bulk"}
    /\ pc[r] \in {"load", "stamp"} => Kind(r) \in {"accept", "bulk", "undo", "dismiss"}
    /\ pc[r] \in {"find", "delete", "reread", "settle", "rewrite"} => Kind(r) = "undo"

(* What a request has written balances by itself.                          *)
WorkBalances ==
  \A r \in Requests :
    /\ work[r].posted = work[r].paid /\ work[r].unposted = work[r].gone
    /\ work[r].gone # {} => Kind(r) = "undo"
    /\ work[r].paid # {} => Kind(r) # "undo"

(* Whatever is stamped, seen or booked belongs to a recognised invoice.    *)
StampSound(row) ==
  row # Nothing => (row.payment # Nothing => status[row.payment.invoice] \in Recognised)

RequestSound(r) ==
  /\ \A i \in Invoices : work[r].status[i] # Nothing =>
       work[r].status[i] \in Recognised /\ status[i] \in Recognised
  /\ \A p \in work[r].paid : status[p.invoice] \in Recognised
  /\ \A n \in Intents : StampSound(work[r].intent[n])
  /\ StampSound(seen[r].row)
  /\ pc[r] = "book" => status[Invoice(r)] \in Recognised
  /\ pc[r] \in {"load", "stamp"} /\ Kind(r) # "dismiss" => seen[r].row # Nothing
  /\ pc[r] = "stamp" => seen[r].row # Nothing /\ seen[r].loaded # Nothing
  /\ pc[r] \in {"find", "delete", "reread", "settle", "rewrite"} =>
       seen[r].row # Nothing /\ seen[r].row.payment # Nothing
  /\ pc[r] = "rewrite" => seen[r].status \in Recognised

BooksSound ==
  /\ \A p \in payments : status[p.invoice] \in Recognised
  /\ \A n \in Intents : StampSound(intent[n])

OnRecognised == BooksSound /\ \A r \in Requests : RequestSound(r)

LockCovers ==
  \A r \in Requests :
    /\ pc[r] = "book" => holder[Invoice(r)] = r
    /\ \A p \in work[r].paid : holder[p.invoice] = r

SameKey(p, q) == p.invoice = q.invoice /\ p.slip = q.slip

References ==
  /\ BookedOnce
  /\ \A r \in Requests : \A p \in work[r].paid : \A q \in payments \cup work[r].paid :
       SameKey(p, q) => p = q

BooksInv ==
  /\ Shape /\ KindAt /\ WorkBalances /\ OnRecognised /\ LockCovers /\ References
  /\ LedgerMatches

-----------------------------------------------------------------------------
(* The item a request is at names what its kind takes.                     *)
LEMMA CurrentItem ==
  ASSUME Shape, NEW r \in Requests
  PROVE  /\ WellFormed(job[r]) /\ Item(r) \in Items
         /\ Len(job[r].items) \in Nat /\ at[r] \in 1..Len(job[r].items)
         /\ 1 \in DOMAIN job[r].items
         /\ Kind(r) \in {"issue", "approve", "void", "pay", "accept", "bulk"} =>
              Invoice(r) \in Invoices
         /\ Kind(r) \in {"pay", "accept", "bulk"} => Item(r).slip \in Slips
         /\ Kind(r) \in {"accept", "bulk", "undo", "dismiss"} => Intent(r) \in Intents
<1>1. WellFormed(job[r])
  BY ReceivablePlansAssumption DEF Shape
<1>2. job[r].items \in Seq(Items) /\ job[r].items # << >> /\ at[r] \in DOMAIN job[r].items
  BY <1>1 DEF WellFormed, Shape
<1>3. /\ Len(job[r].items) \in Nat /\ Len(job[r].items) > 0
      /\ DOMAIN job[r].items = 1..Len(job[r].items)
  BY <1>2
<1>4. Item(r) \in Items
  BY <1>2, <1>3 DEF Item
<1> QED
  BY <1>1, <1>2, <1>3, <1>4 DEF WellFormed, Item, Invoice, Intent, Kind

(* Giving back its locks leaves every variable of its type.                *)
LEMMA GiveBackShape ==
  ASSUME Shape, NEW r \in Requests, GiveBack(r)
  PROVE  /\ holder' \in [Invoices -> Requests \cup {NoRequest}]
         /\ stamping' \in [Intents -> Requests \cup {NoRequest}]
         /\ accruing' \in [Invoices -> Requests \cup {NoRequest}]
         /\ seen' \in [Requests -> Seen]
         /\ work' \in [Requests -> Work]
         /\ at' \in [Requests -> Nat]
         /\ at'[r] = 1 /\ \A s \in Requests : s # r => at'[s] = at[s]
<1>1. NothingSeen \in Seen
  BY DEF NothingSeen, Seen
<1>2. NoWork \in Work
  BY DEF NoWork, Work
<1>3. /\ holder' \in [Invoices -> Requests \cup {NoRequest}]
      /\ stamping' \in [Intents -> Requests \cup {NoRequest}]
      /\ accruing' \in [Invoices -> Requests \cup {NoRequest}]
  BY DEF GiveBack, Free, Shape
<1>4. seen' \in [Requests -> Seen] /\ work' \in [Requests -> Work]
  BY <1>1, <1>2 DEF GiveBack, Shape
<1>5. /\ at' \in [Requests -> Nat]
      /\ at'[r] = 1 /\ \A s \in Requests : s # r => at'[s] = at[s]
  BY DEF GiveBack, Shape
<1> QED
  BY <1>3, <1>4, <1>5

(* A refusal keeps the types.                                              *)
LEMMA RefuseShape ==
  ASSUME Shape, NEW r \in Requests, Refuse(r)
  PROVE  Shape'
<1>1. GiveBack(r)
  BY DEF Refuse
<1>2. pc' \in [Requests -> Places]
  BY DEF Refuse, Shape, Places
<1>3. \A s \in Requests : at'[s] \in DOMAIN job[s].items
  BY <1>1, GiveBackShape, CurrentItem DEF Shape
<1> QED
  BY <1>1, <1>2, <1>3, GiveBackShape DEF Refuse, Shape, bookVars

(* A commit of a well-typed transaction keeps the types.                   *)
LEMMA CommitShape ==
  ASSUME Shape, NEW r \in Requests, NEW w \in Work, NEW a \in SUBSET Invoices,
         Commit(r, w, a)
  PROVE  Shape'
<1>1. GiveBack(r)
  BY DEF Commit
<1>2. pc' \in [Requests -> Places]
  BY DEF Commit, Shape, Places
<1>3. \A s \in Requests : at'[s] \in DOMAIN job[s].items
  BY <1>1, GiveBackShape, CurrentItem DEF Shape
<1>4. status' \in [Invoices -> InvoiceStatus]
  BY DEF Commit, Shape, Work
<1>5. intent' \in [Intents -> IntentRow]
  BY DEF Commit, Shape, Work
<1>6. payments' \in SUBSET Payment /\ receipts' \in SUBSET Payment /\ accruals' \in SUBSET Invoices
  BY DEF Commit, Shape, Work
<1> QED
  BY <1>1, <1>2, <1>3, <1>4, <1>5, <1>6, GiveBackShape DEF Commit, Shape

(* The row an undo or an accept carries is a row.                          *)
LEMMA SeenRow ==
  ASSUME Shape, NEW r \in Requests
  PROVE  /\ seen[r] \in Seen /\ work[r] \in Work
         /\ seen[r].row # Nothing => seen[r].row \in IntentRow
         /\ seen[r].loaded # Nothing => seen[r].loaded \in IntentRow
         /\ seen[r].status # Nothing => seen[r].status \in InvoiceStatus
         /\ seen[r].row # Nothing /\ seen[r].row.payment # Nothing =>
              /\ Undone(r) \in Payment /\ Undone(r).invoice \in Invoices
<1>1. seen[r] \in Seen /\ work[r] \in Work
  BY DEF Shape
<1>2. seen[r].row # Nothing => seen[r].row \in IntentRow
  BY <1>1 DEF Seen
<1>3. seen[r].loaded # Nothing => seen[r].loaded \in IntentRow
  BY <1>1 DEF Seen
<1>4. seen[r].status # Nothing => seen[r].status \in InvoiceStatus
  BY <1>1 DEF Seen
<1>5. seen[r].row # Nothing /\ seen[r].row.payment # Nothing =>
        /\ Undone(r) \in Payment /\ Undone(r).invoice \in Invoices
  BY <1>2 DEF IntentRow, Undone, Payment
<1> QED
  BY <1>1, <1>2, <1>3, <1>4, <1>5

(* What a request sees of an intent is a row.                              *)
LEMMA IntentForRow ==
  ASSUME Shape, NEW r \in Requests, NEW n \in Intents
  PROVE  IntentFor(r, n) \in IntentRow
<1>1. work[r] \in Work /\ intent[n] \in IntentRow
  BY DEF Shape
<1>2. work[r].intent[n] \in IntentRow \cup {Nothing}
  BY <1>1 DEF Work
<1> QED
  BY <1>1, <1>2 DEF IntentFor

(* Writing the columns that differ gives a row.                            *)
LEMMA WrittenRow ==
  ASSUME NEW row \in IntentRow, NEW loaded \in IntentRow, NEW want \in IntentRow
  PROVE  Written(row, loaded, want) \in IntentRow
  BY DEF Written, IntentRow

-----------------------------------------------------------------------------
(* The steps of a request, sorted by what they do to its transaction.      *)

(* It is refused. *)
Refusal(r) ==
  \/ IllegalFlip(r) \/ AccrualExists(r) \/ LostFlip(r) \/ AlreadyResolved(r)
  \/ PrevalidateFails(r) \/ NotPayable(r) \/ ReferenceTaken(r) \/ NotUndoable(r)
  \/ NothingToUndo(r) \/ DeadlockVictim(r)

(* It only reads, or locks a row.                                          *)
Reading(r) ==
  \/ ReadInvoice(r) \/ Accrue(r) \/ GetIntent(r) \/ BeginBatch(r) \/ Prevalidate(r)
  \/ ProbeMisses(r) \/ ProbeHits(r) \/ Lock(r) \/ Load(r) \/ GetApplied(r)
  \/ Find(r) \/ ReadStatus(r) \/ Settle(r)

(* It writes, or commits.                                                  *)
Writing(r) ==
  \/ Flip(r) \/ Replayed(r) \/ Book(r) \/ StampIntent(r) \/ DeletePayment(r)
  \/ WriteStatus(r)

(* These are all the steps there are.                                      *)
LEMMA StepKinds ==
  ASSUME NEW r \in Requests, Step(r)
  PROVE  Refusal(r) \/ Reading(r) \/ Writing(r)
  BY DEF Step, InvoiceStep, PaymentStep, InboxStep, UndoStep, Refusal, Reading, Writing

(* Every refusal is a Refuse.                                              *)
LEMMA RefusalRefuses ==
  ASSUME NEW r \in Requests, Refusal(r)
  PROVE  Refuse(r)
  BY DEF Refusal, IllegalFlip, AccrualExists, LostFlip, AlreadyResolved, PrevalidateFails,
         NotPayable, ReferenceTaken, NotUndoable, NothingToUndo, DeadlockVictim

(* One more thing a request has seen.                                      *)
LEMMA SeenMore ==
  ASSUME seen \in [Requests -> Seen], NEW r \in Requests
  PROVE  /\ \A v \in InvoiceStatus \cup {Nothing} :
              [seen EXCEPT ![r].status = v] \in [Requests -> Seen]
         /\ \A v \in BOOLEAN : [seen EXCEPT ![r].settles = v] \in [Requests -> Seen]
         /\ \A v \in IntentRow \cup {Nothing} :
              [seen EXCEPT ![r].row = v] \in [Requests -> Seen]
<1>1. seen[r] \in Seen
  OBVIOUS
<1>2. \A x \in Seen : [seen EXCEPT ![r] = x] \in [Requests -> Seen]
  OBVIOUS
<1>3. \A v \in InvoiceStatus \cup {Nothing} : [seen[r] EXCEPT !.status = v] \in Seen
  BY <1>1 DEF Seen
<1>4. \A v \in BOOLEAN : [seen[r] EXCEPT !.settles = v] \in Seen
  BY <1>1 DEF Seen
<1>5. \A v \in IntentRow \cup {Nothing} : [seen[r] EXCEPT !.row = v] \in Seen
  BY <1>1 DEF Seen
<1> QED
  BY <1>2, <1>3, <1>4, <1>5

(* What a reading step leaves alone, and what it does to pc, to the locks  *)
(* and to what the request has seen.                                       *)
LEMMA ReadingShape ==
  ASSUME Shape, KindAt, OnRecognised, NEW r \in Requests, Reading(r)
  PROVE  Shape'
<1> USE DEF Shape
<1>1. /\ "flip" \in Places /\ "accrue" \in Places /\ "probe" \in Places /\ "load" \in Places
      /\ "get" \in Places /\ "prevalidate" \in Places /\ "lock" \in Places
      /\ "book" \in Places /\ "stamp" \in Places /\ "find" \in Places
      /\ "delete" \in Places /\ "settle" \in Places /\ "rewrite" \in Places
  BY DEF Places
<1>2. CASE ReadInvoice(r)
  BY <1>1, <1>2 DEF ReadInvoice, Begin, bookVars, lockVars
<1>3. CASE Accrue(r)
  BY <1>1, <1>3 DEF Accrue, Goto, bookVars
<1>4. CASE GetIntent(r)
  BY <1>1, <1>4 DEF GetIntent, Begin, Goto, bookVars, lockVars
<1>5. CASE BeginBatch(r)
  BY <1>1, <1>5 DEF BeginBatch, Begin, bookVars, lockVars
<1>6. CASE Prevalidate(r)
  <2>1. Kind(r) = "bulk"
    BY <1>6 DEF Prevalidate, KindAt
  <2>2. Invoice(r) \in Invoices
    BY <2>1, CurrentItem
  <2>3. holder' \in [Invoices -> Requests \cup {NoRequest}]
    BY <1>6, <2>2 DEF Prevalidate, LockInvoice
  <2>4. at' \in [Requests -> Nat] /\ \A s \in Requests : at'[s] \in DOMAIN job[s].items
    BY <1>6, CurrentItem DEF Prevalidate
  <2> QED
    BY <1>1, <1>6, <2>3, <2>4 DEF Prevalidate, Goto, bookVars
<1>7. CASE ProbeMisses(r)
  BY <1>1, <1>7 DEF ProbeMisses, Begin, Goto, bookVars, lockVars
<1>8. CASE ProbeHits(r)
  <2>1. PaymentsFor(r) \in SUBSET Payment
    BY DEF PaymentsFor, Work
  <2>2. PICK p \in Same(PaymentsFor(r), Item(r)) :
          seen' = [seen EXCEPT ![r].row = Stamp(r, "applied", p)]
    BY <1>8 DEF ProbeHits
  <2>3. Stamp(r, "applied", p) \in IntentRow
    BY <2>1, <2>2 DEF Same, Stamp, IntentRow
  <2>4. seen' \in [Requests -> Seen]
    BY <2>2, <2>3 DEF Seen
  <2> QED
    BY <1>1, <1>8, <2>4 DEF ProbeHits, Goto, bookVars, lockVars
<1>9. CASE Lock(r)
  <2>1. Invoice(r) \in Invoices
    BY <1>9, CurrentItem DEF Lock, KindAt
  <2>2. holder' \in [Invoices -> Requests \cup {NoRequest}]
    BY <1>9, <2>1 DEF Lock, LockInvoice
  <2>3. PICK b \in BOOLEAN : seen' = [seen EXCEPT ![r].settles = b]
    BY <1>9, Zenon DEF Lock
  <2>4. seen' \in [Requests -> Seen]
    BY <2>3, SeenMore
  <2> QED
    BY <1>1, <1>9, <2>2, <2>4 DEF Lock, Goto, bookVars
<1>10. CASE Load(r)
  <2>1. Intent(r) \in Intents
    BY <1>10, CurrentItem DEF Load, KindAt
  <2>2. IntentFor(r, Intent(r)) \in IntentRow /\ Stamp(r, "dismissed", Nothing) \in IntentRow
    BY <2>1, IntentForRow DEF Stamp, IntentRow
  <2>3. seen[r] \in Seen /\ seen[r].row \in IntentRow \cup {Nothing}
    BY DEF Seen
  <2> DEFINE row == IF Kind(r) = "dismiss" THEN Stamp(r, "dismissed", Nothing)
                      ELSE seen[r].row
  <2>4. row \in IntentRow \cup {Nothing}
    BY <2>2, <2>3
  <2>5. seen' = [seen EXCEPT ![r] = [seen[r] EXCEPT !.loaded = IntentFor(r, Intent(r)),
                                                   !.row = row]]
    BY <1>10 DEF Load
  <2>6. [seen[r] EXCEPT !.loaded = IntentFor(r, Intent(r)), !.row = row] \in Seen
    <3> HIDE DEF row
    <3> QED
      BY <2>2, <2>3, <2>4 DEF Seen
  <2>7. seen' \in [Requests -> Seen]
    <3> HIDE DEF row
    <3> QED
      BY <2>5, <2>6
  <2> QED
    BY <1>1, <1>10, <2>7 DEF Load, Goto, bookVars, lockVars
<1>11. CASE GetApplied(r)
  <2>1. Intent(r) \in Intents
    BY <1>11, CurrentItem DEF GetApplied
  <2>2. seen' \in [Requests -> Seen]
    BY <1>11, <2>1, SeenMore DEF GetApplied
  <2> QED
    BY <1>1, <1>11, <2>2 DEF GetApplied, Begin, bookVars, lockVars
<1>12. CASE Find(r)
  BY <1>1, <1>12 DEF Find, Goto, bookVars, lockVars
<1>13. CASE ReadStatus(r)
  <2>1. Undone(r).invoice \in Invoices
    BY <1>13, SeenRow DEF ReadStatus, OnRecognised, RequestSound
  <2>2. seen' \in [Requests -> Seen]
    BY <1>13, <2>1, SeenMore DEF ReadStatus
  <2> QED
    BY <1>1, <1>13, <2>2 DEF ReadStatus, Goto, bookVars, lockVars
<1>14. CASE Settle(r)
  <2>1. Reopened \in IntentRow
    BY DEF Reopened, IntentRow
  <2>2. SettledStatus(r, Undone(r).invoice) \in InvoiceStatus
    BY DEF SettledStatus, InvoiceStatus
  <2>3. \/ seen' = [seen EXCEPT ![r].row = Reopened]
        \/ seen' = [seen EXCEPT ![r].status = SettledStatus(r, Undone(r).invoice)]
    BY <1>14 DEF Settle
  <2>4. seen' \in [Requests -> Seen]
    <3>1. CASE seen' = [seen EXCEPT ![r].row = Reopened]
      BY <2>1, <3>1 DEF Seen
    <3>2. ASSUME NEW x \in InvoiceStatus, seen' = [seen EXCEPT ![r].status = x]
          PROVE  seen' \in [Requests -> Seen]
      BY <3>2 DEF Seen
    <3> QED
      BY <2>2, <2>3, <3>1, <3>2
  <2>5. pc' \in [Requests -> Places]
    BY <1>1, <1>14 DEF Settle, Goto
  <2> QED
    BY <1>14, <2>4, <2>5 DEF Settle, Goto, bookVars, lockVars
<1> QED
  BY <1>2, <1>3, <1>4, <1>5, <1>6, <1>7, <1>8, <1>9, <1>10, <1>11, <1>12, <1>13, <1>14
     DEF Reading

(* A writing step keeps the types.                                         *)
LEMMA WritingShape ==
  ASSUME Shape, KindAt, OnRecognised, NEW r \in Requests, Writing(r)
  PROVE  Shape'
<1>1. work[r] \in Work /\ NoWork \in Work
  BY DEF Shape, NoWork, Work
<1>2. CASE Flip(r)
  <2>1. Kind(r) \in {"issue", "approve", "void"} /\ Invoice(r) \in Invoices
    BY <1>2, CurrentItem DEF Flip, KindAt
  <2>2. Target[Kind(r)] \in InvoiceStatus
    BY <2>1 DEF Target, InvoiceStatus
  <2>3. [NoWork EXCEPT !.status[Invoice(r)] = Target[Kind(r)]] \in Work
    BY <1>1, <2>1, <2>2 DEF Work
  <2>4. accruals \cup {Invoice(r)} \in SUBSET Invoices /\ accruals \in SUBSET Invoices
    BY <2>1 DEF Shape
  <2>5. (IF Kind(r) = "approve" THEN accruals \cup {Invoice(r)} ELSE accruals) \in SUBSET Invoices
    BY <2>4
  <2> QED
    BY <1>2, <2>3, <2>5, CommitShape DEF Flip
<1>3. CASE Replayed(r)
  BY <1>1, <1>3, CommitShape DEF Replayed, Shape
<1>4. CASE Book(r)
  <2> DEFINE p == [by |-> r, invoice |-> Invoice(r), slip |-> Item(r).slip]
  <2>1. p \in Payment /\ p.invoice \in Invoices
    BY <1>4, CurrentItem DEF Book, KindAt, Payment
  <2>2. Stamp(r, "applied", p) \in IntentRow
    BY <2>1 DEF Stamp, IntentRow
  <2>3. Booked(r, p) \in Work
    BY <1>1, <2>1 DEF Booked, Work, InvoiceStatus
  <2>4. CASE Kind(r) = "pay"
    BY <1>4, <2>3, <2>4, CommitShape DEF Book, Shape
  <2>5. CASE Kind(r) # "pay"
    <3>1. work' \in [Requests -> Work]
      BY <1>4, <2>3, <2>5 DEF Book, Shape
    <3>2. seen' = [seen EXCEPT ![r].row = Stamp(r, "applied", p)]
      BY <1>4, <2>5 DEF Book
    <3>3. seen' \in [Requests -> Seen]
      BY <2>2, <3>2 DEF Shape, Seen
    <3>4. pc' \in [Requests -> Places]
      BY <1>4, <2>5 DEF Book, Goto, Shape, Places
    <3> QED
      BY <1>4, <2>5, <3>1, <3>3, <3>4 DEF Book, Goto, Shape, bookVars, lockVars
  <2> QED
    BY <2>4, <2>5
<1>5. CASE StampIntent(r)
  <2> DEFINE n == Intent(r)
             row == Written(IntentFor(r, n), seen[r].loaded, seen[r].row)
             w == [work[r] EXCEPT !.intent[n] = row]
  <2>1. n \in Intents
    BY <1>5, CurrentItem DEF StampIntent, KindAt
  <2>2. seen[r].row \in IntentRow /\ seen[r].loaded \in IntentRow
    BY <1>5, SeenRow DEF StampIntent, OnRecognised, RequestSound
  <2>3. row \in IntentRow
    BY <2>1, <2>2, IntentForRow, WrittenRow
  <2>4. w \in Work
    <3> HIDE DEF row
    <3> QED
      BY <1>1, <2>1, <2>3 DEF Work
  <2>5. CASE at[r] = Len(job[r].items)
    BY <1>5, <2>4, <2>5, CommitShape DEF StampIntent, Shape
  <2>6. CASE at[r] # Len(job[r].items)
    <3>1. /\ work' = [work EXCEPT ![r] = w] /\ stamping' = [stamping EXCEPT ![n] = r]
          /\ at' = [at EXCEPT ![r] = @ + 1] /\ pc' = [pc EXCEPT ![r] = "get"]
          /\ UNCHANGED <<bookVars, holder, accruing, job, seen>>
      BY <1>5, <2>6 DEF StampIntent, Goto
    <3> HIDE DEF w
    <3>2. work' \in [Requests -> Work] /\ stamping' \in [Intents -> Requests \cup {NoRequest}]
      BY <2>1, <2>4, <3>1 DEF Shape
    <3>3. at' \in [Requests -> Nat] /\ \A s \in Requests : at'[s] \in DOMAIN job[s].items
      BY <2>6, <3>1, CurrentItem DEF Shape
    <3>4. pc' \in [Requests -> Places]
      BY <3>1 DEF Shape, Places
    <3> QED
      BY <3>1, <3>2, <3>3, <3>4 DEF Shape, bookVars
  <2> QED
    BY <2>5, <2>6
<1>6. CASE DeletePayment(r)
  <2>1. Undone(r) \in Payment
    BY <1>6, SeenRow DEF DeletePayment, OnRecognised, RequestSound
  <2>2. [work[r] EXCEPT !.gone = {Undone(r)}, !.unposted = {Undone(r)}] \in Work
    BY <1>1, <2>1 DEF Work
  <2>3. work' \in [Requests -> Work]
    BY <1>6, <2>2 DEF DeletePayment, Shape
  <2>4. pc' \in [Requests -> Places]
    BY <1>6 DEF DeletePayment, Goto, Shape, Places
  <2> QED
    BY <1>6, <2>3, <2>4 DEF DeletePayment, Goto, Shape, bookVars, lockVars
<1>7. CASE WriteStatus(r)
  <2>1. Undone(r).invoice \in Invoices
    BY <1>7, SeenRow DEF WriteStatus, OnRecognised, RequestSound
  <2>2. seen[r].status \in InvoiceStatus
    BY <1>7 DEF WriteStatus, OnRecognised, RequestSound, Recognised, InvoiceStatus
  <2>3. work' \in [Requests -> Work]
    BY <1>1, <1>7, <2>1, <2>2 DEF WriteStatus, Work, Shape
  <2>4. Reopened \in IntentRow
    BY DEF Reopened, IntentRow
  <2>5. seen' \in [Requests -> Seen]
    BY <1>7, <2>4, SeenMore DEF WriteStatus, Shape
  <2>6. holder' \in [Invoices -> Requests \cup {NoRequest}] /\ pc' \in [Requests -> Places]
    BY <1>7, <2>1 DEF WriteStatus, Goto, Shape, Places
  <2> QED
    BY <1>7, <2>3, <2>5, <2>6 DEF WriteStatus, Goto, Shape, bookVars
<1> QED
  BY <1>2, <1>3, <1>4, <1>5, <1>6, <1>7 DEF Writing

-----------------------------------------------------------------------------
(* Where a step takes a request, and the places of the others.             *)

(* Only a batch goes on to a next item.                                    *)
LEMMA OnlyBatches ==
  ASSUME Shape, NEW r \in Requests, at[r] # Len(job[r].items)
  PROVE  Kind(r) = "bulk"
<1>1. SUFFICES ASSUME job[r].kind # "bulk" PROVE FALSE
  BY DEF Kind
<1>2. Len(job[r].items) = 1
  BY <1>1, CurrentItem DEF WellFormed
<1>3. at[r] \in 1..1
  BY <1>2, CurrentItem
<1> QED
  BY <1>2, <1>3

(* A step moves one request, to a place its kind can be at.                *)
LEMMA KindAtNext ==
  ASSUME Shape, KindAt, NEW r \in Requests, Step(r)
  PROVE  KindAt' /\ UNCHANGED job /\ \A s \in Requests : s # r => pc'[s] = pc[s]
<1> USE DEF KindAt, Kind
<1>0. pc \in [Requests -> Places] /\ pc[r] \in Places
  BY DEF Shape
<1>1. CASE Refusal(r)
  <2>1. pc' = [pc EXCEPT ![r] = "refused"] /\ UNCHANGED job
    BY <1>1, RefusalRefuses DEF Refuse
  <2> QED
    BY <1>0, <2>1
<1>2. CASE Reading(r)
  <2>1. CASE ReadInvoice(r) \/ Accrue(r) \/ BeginBatch(r) \/ ProbeMisses(r)
    BY <1>0, <2>1 DEF ReadInvoice, Accrue, BeginBatch, ProbeMisses, Begin, Goto, Source
  <2>2. CASE GetIntent(r) \/ Prevalidate(r) \/ ProbeHits(r) \/ Lock(r) \/ Load(r)
    BY <1>0, <2>2 DEF GetIntent, Prevalidate, ProbeHits, Lock, Load, Begin, Goto
  <2>3. CASE GetApplied(r) \/ Find(r) \/ ReadStatus(r) \/ Settle(r)
    BY <1>0, <2>3 DEF GetApplied, Find, ReadStatus, Settle, Begin, Goto
  <2> QED
    BY <1>2, <2>1, <2>2, <2>3 DEF Reading
<1>3. CASE Writing(r)
  <2>1. CASE Flip(r) \/ Replayed(r)
    BY <1>0, <2>1 DEF Flip, Replayed, Commit
  <2>2. CASE Book(r)
    <3>1. \/ pc' = [pc EXCEPT ![r] = "replied"]
          \/ pc' = [pc EXCEPT ![r] = "load"] /\ Kind(r) # "pay"
      BY <2>2 DEF Book, Commit, Goto
    <3>2. UNCHANGED job /\ pc[r] = "book"
      BY <2>2 DEF Book, Commit
    <3> QED
      BY <1>0, <3>1, <3>2
  <2>4. CASE StampIntent(r)
    <3>1. \/ pc' = [pc EXCEPT ![r] = "replied"]
          \/ pc' = [pc EXCEPT ![r] = "get"] /\ at[r] # Len(job[r].items)
      BY <2>4 DEF StampIntent, Commit, Goto
    <3>2. UNCHANGED job
      BY <2>4 DEF StampIntent, Commit
    <3>3. at[r] # Len(job[r].items) => Kind(r) = "bulk"
      BY OnlyBatches
    <3> QED
      BY <1>0, <3>1, <3>2, <3>3
  <2>3. CASE DeletePayment(r) \/ WriteStatus(r)
    BY <1>0, <2>3 DEF DeletePayment, WriteStatus, Goto
  <2> QED
    BY <1>3, <2>1, <2>2, <2>3, <2>4 DEF Writing
<1> QED
  BY <1>1, <1>2, <1>3, StepKinds

(* A reading step leaves the books and the open transactions alone, and    *)
(* takes no lock from anyone.                                              *)
LEMMA ReadingKeeps ==
  ASSUME Shape, KindAt, NEW r \in Requests, Reading(r)
  PROVE  /\ UNCHANGED <<status, payments, accruals, receipts, intent, work, job>>
         /\ \A i \in Invoices : holder[i] # NoRequest => holder'[i] = holder[i]
         /\ \A s \in Requests : s # r => seen'[s] = seen[s] /\ pc'[s] = pc[s] /\ at'[s] = at[s]
<1> USE DEF bookVars, lockVars
<1>0. /\ seen \in [Requests -> Seen] /\ pc \in [Requests -> Places] /\ at \in [Requests -> Nat]
      /\ holder \in [Invoices -> Requests \cup {NoRequest}]
  BY DEF Shape
<1>1. CASE ReadInvoice(r) \/ Accrue(r) \/ BeginBatch(r) \/ ProbeMisses(r) \/ GetIntent(r)
  BY <1>0, <1>1 DEF ReadInvoice, Accrue, BeginBatch, ProbeMisses, GetIntent, Begin, Goto
<1>2. CASE Prevalidate(r)
  BY <1>0, <1>2 DEF Prevalidate, LockInvoice, MayLock, Goto
<1>3. CASE Lock(r)
  BY <1>0, <1>3 DEF Lock, LockInvoice, MayLock, Goto
<1>4. CASE ProbeHits(r) \/ Load(r)
  BY <1>0, <1>4 DEF ProbeHits, Load, Goto
<1>5. CASE GetApplied(r) \/ Find(r) \/ ReadStatus(r)
  BY <1>0, <1>5 DEF GetApplied, Find, ReadStatus, Begin, Goto
<1>6. CASE Settle(r)
  BY <1>0, <1>6 DEF Settle, Goto
<1> QED
  BY <1>1, <1>2, <1>3, <1>4, <1>5, <1>6 DEF Reading

(* No request is called NoRequest, and none of the marks is a row.         *)
LEMMA Names ==
  /\ NoRequest \notin Requests
  /\ Nothing \notin Invoices
  BY ReceivableNamesAssumption

(* An invoice once recognised stays so.                                    *)
Stable == \A i \in Invoices : status[i] \in Recognised => status'[i] \in Recognised

(* A sound row stays sound while recognised invoices stay so.              *)
LEMMA StampStable ==
  ASSUME Stable, NEW row \in IntentRow \cup {Nothing}, StampSound(row)
  PROVE  row # Nothing /\ row.payment # Nothing => status'[row.payment.invoice] \in Recognised
<1> SUFFICES ASSUME row # Nothing, row.payment # Nothing
             PROVE  status'[row.payment.invoice] \in Recognised
  OBVIOUS
<1>1. row.payment.invoice \in Invoices
  BY DEF IntentRow, Payment
<1> QED
  BY <1>1 DEF StampSound, Stable

(* A request no step has touched is as sound as before.                    *)
LEMMA Untouched ==
  ASSUME BooksInv, Stable, NEW s \in Requests,
         work'[s] = work[s], seen'[s] = seen[s], pc'[s] = pc[s], at'[s] = at[s],
         UNCHANGED job
  PROVE  RequestSound(s)'
<1>1. RequestSound(s) /\ Shape /\ KindAt
  BY DEF BooksInv, OnRecognised
<1>2. seen[s] \in Seen /\ work[s] \in Work
  BY <1>1 DEF Shape
<1>3. Kind(s)' = Kind(s) /\ Invoice(s)' = Invoice(s)
  BY DEF Kind, Invoice, Item
<1>4. \A i \in Invoices : work'[s].status[i] # Nothing =>
        work'[s].status[i] \in Recognised /\ status'[i] \in Recognised
  BY <1>1 DEF RequestSound, Stable
<1>5. \A p \in work'[s].paid : status'[p.invoice] \in Recognised
  BY <1>1, <1>2 DEF RequestSound, Stable, Work, Payment
<1>6. \A n \in Intents : StampSound(work[s].intent[n])'
  BY <1>1, <1>2, StampStable DEF RequestSound, StampSound, Work
<1>7. StampSound(seen[s].row)'
  BY <1>1, <1>2, StampStable DEF RequestSound, StampSound, Seen
<1>8. pc'[s] = "book" => status'[Invoice(s)'] \in Recognised
  BY <1>1, <1>3, CurrentItem DEF RequestSound, Stable, KindAt
<1>9. /\ pc'[s] \in {"load", "stamp"} /\ Kind(s)' # "dismiss" => seen'[s].row # Nothing
      /\ pc'[s] = "stamp" => seen'[s].row # Nothing /\ seen'[s].loaded # Nothing
      /\ pc'[s] \in {"find", "delete", "reread", "settle", "rewrite"} =>
           seen'[s].row # Nothing /\ seen'[s].row.payment # Nothing
      /\ pc'[s] = "rewrite" => seen'[s].status \in Recognised
  BY <1>1, <1>3 DEF RequestSound
<1> QED
  BY <1>4, <1>5, <1>6, <1>7, <1>8, <1>9 DEF RequestSound

(* What a reading step leaves in the hands of its request is sound.        *)
LEMMA ReadingSound ==
  ASSUME BooksInv, NEW r \in Requests, Reading(r)
  PROVE  RequestSound(r)'
<1>0. /\ Shape /\ KindAt /\ RequestSound(r) /\ BooksSound
      /\ seen[r] \in Seen /\ work[r] \in Work
      /\ seen \in [Requests -> Seen] /\ pc \in [Requests -> Places]
  BY DEF BooksInv, OnRecognised, Shape
<1>1. UNCHANGED <<status, payments, accruals, receipts, intent, work, job>>
  BY <1>0, ReadingKeeps
<1>2. /\ \A i \in Invoices : work'[r].status[i] # Nothing =>
           work'[r].status[i] \in Recognised /\ status'[i] \in Recognised
      /\ \A p \in work'[r].paid : status'[p.invoice] \in Recognised
      /\ \A n \in Intents : StampSound(work[r].intent[n])'
      /\ Kind(r)' = Kind(r)
  BY <1>0, <1>1 DEF RequestSound, StampSound, Kind
<1>3. ASSUME UNCHANGED seen, pc'[r] \notin {"book", "load", "stamp", "reread", "settle", "rewrite"},
             pc'[r] \in {"find", "delete"} => pc[r] \in {"find", "delete"}
      PROVE  RequestSound(r)'
  BY <1>0, <1>1, <1>2, <1>3 DEF RequestSound, StampSound
<1>4. CASE ReadInvoice(r) \/ Accrue(r) \/ BeginBatch(r) \/ ProbeMisses(r)
  BY <1>0, <1>3, <1>4 DEF ReadInvoice, Accrue, BeginBatch, ProbeMisses, Begin, Goto
<1>5. CASE Prevalidate(r)
  BY <1>0, <1>3, <1>5 DEF Prevalidate, Goto
<1>6. CASE Find(r)
  BY <1>0, <1>3, <1>6 DEF Find, Goto
<1>7. CASE GetIntent(r)
  <2>1. UNCHANGED seen /\ (pc'[r] = "probe" \/ (pc'[r] = "load" /\ Kind(r) = "dismiss"))
    BY <1>0, <1>7 DEF GetIntent, Begin, Goto
  <2> QED
    BY <1>0, <1>1, <1>2, <2>1 DEF RequestSound, StampSound
<1>8. CASE ProbeHits(r)
  <2>1. PICK p \in Same(PaymentsFor(r), Item(r)) :
          seen' = [seen EXCEPT ![r].row = Stamp(r, "applied", p)]
    BY <1>8 DEF ProbeHits
  <2>2. status[p.invoice] \in Recognised /\ p \in Payment
    BY <1>0, <2>1 DEF Same, PaymentsFor, RequestSound, BooksSound, Shape, Work
  <2>3. Stamp(r, "applied", p) # Nothing
    BY <2>2, ReceivableMarksAssumption DEF Stamp, IntentRow
  <2>4. seen'[r].row = Stamp(r, "applied", p) /\ pc'[r] = "load"
    BY <1>0, <1>8, <2>1 DEF ProbeHits, Goto, Seen
  <2> QED
    BY <1>1, <1>2, <2>2, <2>3, <2>4 DEF RequestSound, StampSound, Stamp
<1>9. CASE Lock(r)
  <2>1. Invoice(r) \in Invoices /\ Invoice(r)' = Invoice(r)
    BY <1>0, <1>9, CurrentItem DEF Lock, KindAt, Invoice, Item
  <2>2. status[Invoice(r)] \in Recognised
    BY <1>0, <1>9, <2>1 DEF Lock, Payable, StatusFor, RequestSound, Recognised
  <2>3. seen'[r].row = seen[r].row /\ pc'[r] = "book"
    BY <1>0, <1>9 DEF Lock, Goto, Seen
  <2> QED
    BY <1>0, <1>1, <1>2, <2>1, <2>2, <2>3 DEF RequestSound, StampSound
<1>10. CASE Load(r)
  <2>1. Intent(r) \in Intents
    BY <1>0, <1>10, CurrentItem DEF Load, KindAt
  <2>2. IntentFor(r, Intent(r)) # Nothing
    BY <1>0, <2>1, IntentForRow, ReceivableMarksAssumption
  <2>3. /\ seen'[r].loaded = IntentFor(r, Intent(r)) /\ pc'[r] = "stamp"
        /\ seen'[r].row = IF Kind(r) = "dismiss" THEN Stamp(r, "dismissed", Nothing)
                                                 ELSE seen[r].row
    BY <1>0, <1>10 DEF Load, Goto, Seen
  <2>4. Stamp(r, "dismissed", Nothing) # Nothing /\ Stamp(r, "dismissed", Nothing).payment = Nothing
    BY ReceivableMarksAssumption DEF Stamp, IntentRow
  <2>5. pc[r] = "load"
    BY <1>10 DEF Load
  <2>6. seen'[r].row # Nothing /\ StampSound(seen[r].row)'
    BY <1>0, <1>1, <2>3, <2>4, <2>5 DEF RequestSound, StampSound
  <2> QED
    BY <1>1, <1>2, <2>2, <2>3, <2>6 DEF RequestSound
<1>11. CASE GetApplied(r)
  <2>1. Intent(r) \in Intents
    BY <1>0, <1>11, CurrentItem DEF GetApplied
  <2>2. intent[Intent(r)] # Nothing
    BY <1>0, <2>1, ReceivableMarksAssumption DEF Shape
  <2>3. seen'[r].row = intent[Intent(r)] /\ pc'[r] = "find" /\ intent[Intent(r)].payment # Nothing
    BY <1>0, <1>11 DEF GetApplied, Begin, Seen
  <2> QED
    BY <1>0, <1>1, <1>2, <2>1, <2>2, <2>3 DEF RequestSound, StampSound, BooksSound
<1>12. CASE ReadStatus(r)
  <2>1. seen'[r].row = seen[r].row /\ pc'[r] = "settle" /\ pc[r] = "reread"
    BY <1>0, <1>12 DEF ReadStatus, Goto, Seen
  <2> QED
    BY <1>0, <1>1, <1>2, <2>1 DEF RequestSound, StampSound
<1>13. CASE Settle(r)
  <2>1. Reopened # Nothing /\ Reopened.payment = Nothing
    BY ReceivableMarksAssumption DEF Reopened, IntentRow
  <2>2. \/ seen'[r].row = Reopened /\ pc'[r] = "load"
        \/ /\ seen'[r].status = SettledStatus(r, Undone(r).invoice)
           /\ seen'[r].row = seen[r].row /\ pc'[r] = "rewrite" /\ pc[r] = "settle"
    BY <1>0, <1>13 DEF Settle, Goto, Seen
  <2>3. SettledStatus(r, Undone(r).invoice) \in Recognised
    BY DEF SettledStatus, Recognised
  <2> QED
    BY <1>0, <1>1, <1>2, <2>1, <2>2, <2>3 DEF RequestSound, StampSound
<1> QED
  BY <1>4, <1>5, <1>6, <1>7, <1>8, <1>9, <1>10, <1>11, <1>12, <1>13 DEF Reading

(* A reading step keeps the invariant.                                     *)
LEMMA ReadingInv ==
  ASSUME BooksInv, NEW r \in Requests, Reading(r)
  PROVE  WorkBalances' /\ OnRecognised' /\ LockCovers' /\ References' /\ LedgerMatches'
<1> USE DEF BooksInv
<1>1. /\ UNCHANGED <<status, payments, accruals, receipts, intent, work, job>>
      /\ \A i \in Invoices : holder[i] # NoRequest => holder'[i] = holder[i]
      /\ \A s \in Requests : s # r => seen'[s] = seen[s] /\ pc'[s] = pc[s] /\ at'[s] = at[s]
  BY ReadingKeeps
<1>2. WorkBalances' /\ References' /\ LedgerMatches'
  BY <1>1 DEF WorkBalances, References, BookedOnce, LedgerMatches, Kind
<1>3. LockCovers'
  <2> SUFFICES ASSUME NEW s \in Requests
               PROVE  /\ pc'[s] = "book" => holder'[Invoice(s)'] = s
                      /\ \A p \in work'[s].paid : holder'[p.invoice] = s
    BY DEF LockCovers
  <2>1. \A p \in work'[s].paid : holder'[p.invoice] = s
    <3>1. work[s].paid \in SUBSET Payment
      BY DEF Shape, Work
    <3> QED
      BY <1>1, <3>1, Names DEF LockCovers, Payment
  <2>2. ASSUME s # r, pc'[s] = "book" PROVE holder'[Invoice(s)'] = s
    <3>1. Invoice(s)' = Invoice(s) /\ pc[s] = "book"
      BY <1>1, <2>2 DEF Invoice, Item
    <3>2. Invoice(s) \in Invoices
      BY <3>1, CurrentItem DEF KindAt
    <3> QED
      BY <1>1, <3>1, <3>2, Names DEF LockCovers
  <2>3. ASSUME s = r, pc'[s] = "book" PROVE holder'[Invoice(s)'] = s
    <3>1. Lock(r)
      BY <2>3 DEF Reading, ReadInvoice, Accrue, GetIntent, BeginBatch, Prevalidate,
         ProbeMisses, ProbeHits, Load, GetApplied, Find, ReadStatus, Settle, Begin, Goto, Shape
    <3>2. Invoice(r)' = Invoice(r)
      BY <3>1 DEF Lock, Invoice, Item
    <3>3. Invoice(r) \in Invoices
      BY <3>1, CurrentItem DEF Lock, KindAt
    <3> QED
      BY <2>3, <3>1, <3>2, <3>3 DEF Lock, LockInvoice, Shape
  <2> QED
    BY <2>1, <2>2, <2>3
<1>4. OnRecognised'
  <2>1. Stable
    BY <1>1 DEF Stable
  <2>2. BooksSound'
    BY <1>1 DEF OnRecognised, BooksSound, StampSound
  <2>3. \A s \in Requests : RequestSound(s)'
    BY <1>1, <2>1, ReadingSound, Untouched
  <2> QED
    BY <2>2, <2>3 DEF OnRecognised
<1> QED
  BY <1>2, <1>3, <1>4

-----------------------------------------------------------------------------
(* The other requests, whatever one of them does to its own transaction.   *)

(* They keep their balance, their soundness and their locks when the step  *)
(* leaves their rows alone and takes no lock from anyone.                  *)
LEMMA OthersKeep ==
  ASSUME BooksInv, Stable, NEW r \in Requests, UNCHANGED job,
         \A i \in Invoices : holder[i] \notin {NoRequest, r} => holder'[i] = holder[i],
         \A s \in Requests : s # r =>
           work'[s] = work[s] /\ seen'[s] = seen[s] /\ pc'[s] = pc[s] /\ at'[s] = at[s],
         NEW s \in Requests, s # r
  PROVE  /\ work'[s].posted = work'[s].paid /\ work'[s].unposted = work'[s].gone
         /\ work'[s].gone # {} => Kind(s)' = "undo"
         /\ work'[s].paid # {} => Kind(s)' # "undo"
         /\ RequestSound(s)'
         /\ pc'[s] = "book" => holder'[Invoice(s)'] = s
         /\ \A p \in work'[s].paid : holder'[p.invoice] = s
<1> USE DEF BooksInv
<1>1. Kind(s)' = Kind(s) /\ Invoice(s)' = Invoice(s)
  BY DEF Kind, Invoice, Item
<1>2. /\ work'[s].posted = work'[s].paid /\ work'[s].unposted = work'[s].gone
      /\ work'[s].gone # {} => Kind(s)' = "undo"
      /\ work'[s].paid # {} => Kind(s)' # "undo"
  BY <1>1 DEF WorkBalances
<1>3. RequestSound(s)'
  BY Untouched
<1>4. pc'[s] = "book" => holder'[Invoice(s)'] = s
  BY <1>1, CurrentItem, Names DEF KindAt, LockCovers
<1>5. \A p \in work'[s].paid : holder'[p.invoice] = s
  <2>1. work[s].paid \in SUBSET Payment
    BY DEF Shape, Work
  <2> QED
    BY <2>1, Names DEF LockCovers, Payment
<1> QED
  BY <1>2, <1>3, <1>4, <1>5

(* What a finished request leaves behind.                                  *)
LEMMA GivenBack ==
  ASSUME BooksInv, Stable, NEW r \in Requests, GiveBack(r), UNCHANGED job,
         pc' = [pc EXCEPT ![r] = "replied"] \/ pc' = [pc EXCEPT ![r] = "refused"]
  PROVE  /\ WorkBalances' /\ LockCovers' /\ \A s \in Requests : RequestSound(s)'
         /\ work'[r].paid = {}
         /\ \A s \in Requests : s # r => work'[s] = work[s]
<1> USE DEF BooksInv
<1>1. /\ \A s \in Requests : s # r =>
           work'[s] = work[s] /\ seen'[s] = seen[s] /\ pc'[s] = pc[s] /\ at'[s] = at[s]
      /\ work'[r] = NoWork /\ seen'[r] = NothingSeen /\ pc'[r] \in {"replied", "refused"}
  BY DEF GiveBack, Shape
<1>2. \A i \in Invoices : holder[i] \notin {NoRequest, r} => holder'[i] = holder[i]
  BY DEF GiveBack, Free, Shape
<1>3. /\ work'[r].posted = {} /\ work'[r].paid = {} /\ work'[r].gone = {} /\ work'[r].unposted = {}
      /\ \A i \in Invoices : work'[r].status[i] = Nothing
      /\ \A n \in Intents : work'[r].intent[n] = Nothing
      /\ seen'[r].row = Nothing
  BY <1>1 DEF NoWork, NothingSeen
<1>4. RequestSound(r)'
  BY <1>1, <1>3 DEF RequestSound, StampSound
<1>5. \A s \in Requests : s # r =>
        /\ work'[s].posted = work'[s].paid /\ work'[s].unposted = work'[s].gone
        /\ work'[s].gone # {} => Kind(s)' = "undo"
        /\ work'[s].paid # {} => Kind(s)' # "undo"
        /\ RequestSound(s)'
        /\ pc'[s] = "book" => holder'[Invoice(s)'] = s
        /\ \A p \in work'[s].paid : holder'[p.invoice] = s
  BY <1>1, <1>2, OthersKeep
<1>6. WorkBalances'
  BY <1>3, <1>5 DEF WorkBalances
<1>7. LockCovers'
  BY <1>1, <1>3, <1>5 DEF LockCovers
<1> QED
  BY <1>1, <1>3, <1>4, <1>5, <1>6, <1>7

(* A refusal keeps the invariant.                                          *)
LEMMA RefuseInv ==
  ASSUME BooksInv, NEW r \in Requests, Refuse(r)
  PROVE  WorkBalances' /\ OnRecognised' /\ LockCovers' /\ References' /\ LedgerMatches'
<1>1. UNCHANGED <<status, payments, accruals, receipts, intent, job>>
  BY DEF Refuse, bookVars
<1>2. Stable
  BY <1>1 DEF Stable
<1>3. /\ WorkBalances' /\ LockCovers' /\ \A s \in Requests : RequestSound(s)'
      /\ work'[r].paid = {}
      /\ \A s \in Requests : s # r => work'[s] = work[s]
  BY <1>1, <1>2, GivenBack DEF Refuse
<1>4. OnRecognised'
  BY <1>1, <1>3 DEF BooksInv, OnRecognised, BooksSound, StampSound
<1>5. References' /\ LedgerMatches'
  BY <1>1, <1>3 DEF BooksInv, References, BookedOnce, LedgerMatches
<1> QED
  BY <1>3, <1>4, <1>5

(* What a transaction must have kept for its commit to keep the invariant. *)
Balanced(r, w) ==
  /\ w.posted = w.paid /\ w.unposted = w.gone
  /\ \A p \in w.paid : status[p.invoice] \in Recognised /\ holder[p.invoice] = r
  /\ \A n \in Intents : StampSound(w.intent[n])
  /\ \A p \in w.paid : \A q \in payments \cup w.paid : SameKey(p, q) => p = q

(* A commit of a balanced transaction keeps the invariant.                 *)
LEMMA CommitInv ==
  ASSUME BooksInv, NEW r \in Requests, NEW w \in Work, NEW a,
         Commit(r, w, a), Balanced(r, w), Stable,
         a = {i \in Invoices : status'[i] \in Recognised}
  PROVE  WorkBalances' /\ OnRecognised' /\ LockCovers' /\ References' /\ LedgerMatches'
<1> USE DEF BooksInv
<1>1. /\ payments' = (payments \ w.gone) \cup w.paid
      /\ receipts' = (receipts \ w.unposted) \cup w.posted
      /\ accruals' = a
      /\ intent' = [n \in Intents |-> IF w.intent[n] = Nothing THEN intent[n] ELSE w.intent[n]]
      /\ UNCHANGED job
  BY DEF Commit
<1>2. /\ WorkBalances' /\ LockCovers' /\ \A s \in Requests : RequestSound(s)'
      /\ work'[r].paid = {}
      /\ \A s \in Requests : s # r => work'[s] = work[s]
  BY GivenBack DEF Commit
<1>3. payments \in SUBSET Payment /\ w.paid \in SUBSET Payment
  BY DEF Shape, Work
<1>4. \A p \in payments' : status'[p.invoice] \in Recognised
  BY <1>1, <1>3 DEF OnRecognised, BooksSound, Balanced, Stable, Payment
<1>5. \A n \in Intents : StampSound(intent[n])'
  <2> SUFFICES ASSUME NEW n \in Intents PROVE StampSound(intent[n])'
    OBVIOUS
  <2>1. CASE w.intent[n] = Nothing
    <3>1. intent'[n] = intent[n] /\ intent[n] \in IntentRow \cup {Nothing} /\ StampSound(intent[n])
      BY <1>1, <2>1 DEF OnRecognised, BooksSound, Shape
    <3> QED
      BY <3>1, StampStable DEF StampSound
  <2>2. CASE w.intent[n] # Nothing
    <3>1. intent'[n] = w.intent[n] /\ w.intent[n] \in IntentRow \cup {Nothing} /\ StampSound(w.intent[n])
      BY <1>1, <2>2 DEF Balanced, Work
    <3> QED
      BY <3>1, StampStable DEF StampSound
  <2> QED
    BY <2>1, <2>2
<1>6. OnRecognised'
  BY <1>2, <1>4, <1>5 DEF OnRecognised, BooksSound
<1>7. LedgerMatches'
  BY <1>1 DEF LedgerMatches, Balanced, Recognised
<1>8. BookedOnce'
  <2> SUFFICES ASSUME NEW p \in payments', NEW q \in payments', SameKey(p, q)
               PROVE  p = q
    BY DEF BookedOnce, SameKey
  <2> QED
    BY <1>1 DEF References, BookedOnce, Balanced, SameKey
<1>9. ASSUME NEW s \in Requests, NEW p \in work'[s].paid,
             NEW q \in payments' \cup work'[s].paid, SameKey(p, q)
      PROVE  p = q
  <2>1. s # r /\ work'[s] = work[s]
    BY <1>2, <1>9
  <2>2. q \in payments \/ q \in work[s].paid \/ q \in w.paid
    BY <1>1, <1>9, <2>1
  <2>3. holder[p.invoice] = s
    BY <1>9, <2>1 DEF LockCovers
  <2>4. q \notin w.paid
    BY <1>9, <2>1, <2>3 DEF Balanced, SameKey
  <2> QED
    BY <1>9, <2>1, <2>2, <2>4 DEF References
<1> QED
  BY <1>2, <1>6, <1>7, <1>8, <1>9 DEF References

-----------------------------------------------------------------------------
(* The steps that write.                                                   *)

(* Issuing, approving and voiding: an approval brings its revenue entry.   *)
LEMMA FlipInv ==
  ASSUME BooksInv, NEW r \in Requests, Flip(r)
  PROVE  WorkBalances' /\ OnRecognised' /\ LockCovers' /\ References' /\ LedgerMatches'
<1> DEFINE i == Invoice(r)
           w == [NoWork EXCEPT !.status[i] = Target[Kind(r)]]
           a == IF Kind(r) = "approve" THEN accruals \cup {i} ELSE accruals
<1>1. /\ Kind(r) \in {"issue", "approve", "void"} /\ i \in Invoices
      /\ status[i] \in Source[Kind(r)] /\ Commit(r, w, a)
  BY CurrentItem DEF Flip, FlipGuard, BooksInv, KindAt
<1>2. /\ w.paid = {} /\ w.gone = {} /\ w.posted = {} /\ w.unposted = {}
      /\ \A n \in Intents : w.intent[n] = Nothing
      /\ w.status = [[j \in Invoices |-> Nothing] EXCEPT ![i] = Target[Kind(r)]]
  BY DEF NoWork
<1>3. status[i] \notin Recognised
  BY <1>1 DEF Source, Recognised
<1>4. Target[Kind(r)] \in InvoiceStatus /\ Target[Kind(r)] # Nothing
  <2>1. Kind(r) \in {"issue", "approve", "void"}
    BY <1>1
  <2>2. Target[Kind(r)] \in InvoiceStatus
    BY <2>1 DEF Target, InvoiceStatus
  <2> QED
    BY <2>2, ReceivableMarksAssumption
<1>5. \A j \in Invoices : status'[j] = IF j = i THEN Target[Kind(r)] ELSE status[j]
  BY <1>1, <1>2, <1>4 DEF Commit
<1>6. Stable
  BY <1>3, <1>5 DEF Stable
<1>7. a = {j \in Invoices : status'[j] \in Recognised}
  <2>1. accruals = {j \in Invoices : status[j] \in Recognised}
    BY DEF BooksInv, LedgerMatches, Recognised
  <2>2. Target[Kind(r)] \in Recognised <=> Kind(r) = "approve"
    BY <1>1 DEF Target, Recognised
  <2> QED
    BY <1>1, <1>3, <1>5, <2>1, <2>2
<1>8. Balanced(r, w)
  BY <1>2 DEF Balanced, StampSound
<1>9. w \in Work
  <2>1. NoWork \in Work
    BY DEF NoWork, Work
  <2> QED
    BY <1>1, <1>4, <2>1 DEF Work
<1> HIDE DEF w, a
<1> QED
  BY <1>1, <1>6, <1>7, <1>8, <1>9, CommitInv

(* An open transaction commits nothing that unbalances the books.          *)
LEMMA WorkBalanced ==
  ASSUME BooksInv, NEW r \in Requests
  PROVE  Balanced(r, work[r])
<1>1. RequestSound(r) /\ WorkBalances /\ LockCovers /\ References
  BY DEF BooksInv, OnRecognised
<1> QED
  BY <1>1 DEF Balanced, RequestSound, WorkBalances, LockCovers, References

(* A commit that moves an invoice only among the recognised statuses keeps *)
(* the set of revenue entries right.                                       *)
LEMMA StaysRecognised ==
  ASSUME BooksInv, NEW r \in Requests, NEW w \in Work, Commit(r, w, accruals),
         \A i \in Invoices : w.status[i] # Nothing =>
           w.status[i] \in Recognised /\ status[i] \in Recognised
  PROVE  Stable /\ accruals = {i \in Invoices : status'[i] \in Recognised}
<1>1. \A i \in Invoices :
        status'[i] = IF w.status[i] = Nothing THEN status[i] ELSE w.status[i]
  BY DEF Commit
<1>2. accruals = {i \in Invoices : status[i] \in Recognised}
  BY DEF BooksInv, LedgerMatches, Recognised
<1> QED
  BY <1>1, <1>2 DEF Stable

(* Answering with the payment that exists commits an empty transaction.    *)
LEMMA ReplayedInv ==
  ASSUME BooksInv, NEW r \in Requests, Replayed(r)
  PROVE  WorkBalances' /\ OnRecognised' /\ LockCovers' /\ References' /\ LedgerMatches'
<1>1. Commit(r, work[r], accruals) /\ work[r] \in Work /\ RequestSound(r)
  BY DEF Replayed, BooksInv, Shape, OnRecognised
<1>2. Stable /\ accruals = {i \in Invoices : status'[i] \in Recognised}
  BY <1>1, StaysRecognised DEF RequestSound
<1> QED
  BY <1>1, <1>2, WorkBalanced, CommitInv

(* The payment booked under the row lock leaves the transaction balanced.  *)
LEMMA BookedBalanced ==
  ASSUME BooksInv, NEW r \in Requests, pc[r] = "book", ReferenceFree(r),
         NEW p, p = [by |-> r, invoice |-> Invoice(r), slip |-> Item(r).slip]
  PROVE  /\ Booked(r, p) \in Work /\ p \in Payment /\ Balanced(r, Booked(r, p))
         /\ Booked(r, p).gone = work[r].gone
         /\ \A i \in Invoices : Booked(r, p).status[i] # Nothing =>
              Booked(r, p).status[i] \in Recognised /\ status[i] \in Recognised
<1> DEFINE b == Booked(r, p)
<1>1. /\ Shape /\ RequestSound(r) /\ WorkBalances /\ LockCovers /\ References
      /\ work[r] \in Work /\ Balanced(r, work[r])
      /\ Kind(r) \in {"pay", "accept", "bulk"}
  BY WorkBalanced DEF BooksInv, OnRecognised, Shape, KindAt
<1>2. p \in Payment /\ p.invoice = Invoice(r) /\ p.slip = Item(r).slip /\ Invoice(r) \in Invoices
  BY <1>1, CurrentItem DEF Payment
<1>3. status[Invoice(r)] \in Recognised /\ holder[Invoice(r)] = r
  BY <1>1 DEF RequestSound, LockCovers
<1>4. /\ b.paid = work[r].paid \cup {p} /\ b.posted = work[r].posted \cup {p}
      /\ b.gone = work[r].gone /\ b.unposted = work[r].unposted
      /\ b.intent = work[r].intent
      /\ \A i \in Invoices : b.status[i] = work[r].status[i] \/ (i = Invoice(r) /\ b.status[i] = "paid")
      /\ b \in Work
  BY <1>1, <1>2 DEF Booked, Work, InvoiceStatus
<1>5. work[r].gone = {}
  BY <1>1 DEF WorkBalances
<1>6. \A q \in payments \cup work[r].paid : ~SameKey(p, q) /\ ~SameKey(q, p)
  BY <1>2, <1>5 DEF ReferenceFree, Same, PaymentsFor, SameKey, Invoice
<1>7. Balanced(r, b)
  <2>1. b.posted = b.paid /\ b.unposted = b.gone
    BY <1>1, <1>4 DEF Balanced
  <2>2. \A q \in b.paid : status[q.invoice] \in Recognised /\ holder[q.invoice] = r
    BY <1>1, <1>2, <1>3, <1>4 DEF Balanced
  <2>3. \A n \in Intents : StampSound(b.intent[n])
    BY <1>1, <1>4 DEF Balanced
  <2>4. \A x \in b.paid : \A q \in payments \cup b.paid : SameKey(x, q) => x = q
    BY <1>1, <1>4, <1>6 DEF Balanced
  <2> QED
    BY <2>1, <2>2, <2>3, <2>4 DEF Balanced
<1>8. \A i \in Invoices : b.status[i] # Nothing => b.status[i] \in Recognised /\ status[i] \in Recognised
  BY <1>1, <1>3, <1>4 DEF RequestSound, Recognised
<1> QED
  BY <1>2, <1>4, <1>7, <1>8

(* A step that commits nothing and takes no lock from anyone keeps the     *)
(* invariant when what its own request holds is sound and balanced.        *)
LEMMA OpenKeeps ==
  ASSUME BooksInv, NEW r \in Requests,
         UNCHANGED <<status, payments, accruals, receipts, intent, job>>,
         \A i \in Invoices : holder[i] \notin {NoRequest, r} => holder'[i] = holder[i],
         \A s \in Requests : s # r =>
           work'[s] = work[s] /\ seen'[s] = seen[s] /\ pc'[s] = pc[s] /\ at'[s] = at[s],
         RequestSound(r)', Balanced(r, work'[r]),
         work'[r].gone # {} => Kind(r) = "undo", work'[r].paid # {} => Kind(r) # "undo",
         work'[r] \in Work,
         \A i \in Invoices : holder[i] = r => holder'[i] = r, pc'[r] # "book"
  PROVE  WorkBalances' /\ OnRecognised' /\ LockCovers' /\ References' /\ LedgerMatches'
<1>1. Stable /\ Kind(r)' = Kind(r)
  BY DEF Stable, Kind
<1>2. \A s \in Requests : s # r =>
        /\ work'[s].posted = work'[s].paid /\ work'[s].unposted = work'[s].gone
        /\ work'[s].gone # {} => Kind(s)' = "undo"
        /\ work'[s].paid # {} => Kind(s)' # "undo"
        /\ RequestSound(s)'
        /\ pc'[s] = "book" => holder'[Invoice(s)'] = s
        /\ \A p \in work'[s].paid : holder'[p.invoice] = s
  BY <1>1, OthersKeep
<1>3. WorkBalances'
  BY <1>1, <1>2 DEF WorkBalances, Balanced
<1>4. LockCovers'
  <2>1. \A p \in work'[r].paid : holder'[p.invoice] = r
    BY DEF Balanced, Work, Payment
  <2> QED
    BY <1>2, <2>1 DEF LockCovers
<1>5. OnRecognised'
  BY <1>2 DEF BooksInv, OnRecognised, BooksSound, StampSound
<1>6. References'
  <2>1. \A s \in Requests : s # r => work'[s] = work[s]
    OBVIOUS
  <2>2. \A p \in work'[r].paid : \A q \in payments' \cup work'[r].paid : SameKey(p, q) => p = q
    BY DEF Balanced
  <2>3. BookedOnce'
    BY DEF BooksInv, References, BookedOnce
  <2> QED
    BY <2>1, <2>2, <2>3 DEF BooksInv, References
<1>7. LedgerMatches'
  BY DEF BooksInv, LedgerMatches
<1> QED
  BY <1>3, <1>4, <1>5, <1>6, <1>7

(* Booking a payment, committed at once or within an acceptance.           *)
LEMMA BookInv ==
  ASSUME BooksInv, NEW r \in Requests, Book(r)
  PROVE  WorkBalances' /\ OnRecognised' /\ LockCovers' /\ References' /\ LedgerMatches'
<1> DEFINE p == [by |-> r, invoice |-> Invoice(r), slip |-> Item(r).slip]
           b == Booked(r, p)
<1>1. /\ pc[r] = "book" /\ ReferenceFree(r)
      /\ IF Kind(r) = "pay" THEN Commit(r, b, accruals)
         ELSE /\ work' = [work EXCEPT ![r] = b]
              /\ seen' = [seen EXCEPT ![r].row = Stamp(r, "applied", p)]
              /\ pc' = [pc EXCEPT ![r] = "load"]
              /\ UNCHANGED <<status, payments, accruals, receipts, intent>>
              /\ UNCHANGED <<holder, job, at>>
  BY DEF Book, Goto, bookVars, lockVars
<1>2. /\ b \in Work /\ p \in Payment /\ Balanced(r, b) /\ b.gone = work[r].gone
      /\ \A i \in Invoices : b.status[i] # Nothing =>
           b.status[i] \in Recognised /\ status[i] \in Recognised
  BY <1>1, BookedBalanced
<1>3. CASE Kind(r) = "pay"
  <2>1. Stable /\ accruals = {i \in Invoices : status'[i] \in Recognised}
    BY <1>1, <1>2, <1>3, StaysRecognised
  <2> HIDE DEF b
  <2> QED
    BY <1>1, <1>2, <1>3, <2>1, CommitInv
<1>4. CASE Kind(r) # "pay"
  <2>0. /\ Shape /\ WorkBalances /\ RequestSound(r) /\ Kind(r) \in {"accept", "bulk"}
        /\ Invoice(r) \in Invoices /\ status[Invoice(r)] \in Recognised
    BY <1>1, <1>4, CurrentItem DEF BooksInv, OnRecognised, KindAt, RequestSound
  <2>1. /\ work'[r] = b /\ pc'[r] = "load" /\ seen'[r].row = Stamp(r, "applied", p)
        /\ \A s \in Requests : s # r =>
             work'[s] = work[s] /\ seen'[s] = seen[s] /\ pc'[s] = pc[s] /\ at'[s] = at[s]
    BY <1>1, <1>4, <2>0 DEF Shape, Seen
  <2>2. Stamp(r, "applied", p) # Nothing
    BY <1>2, ReceivableMarksAssumption DEF Stamp, IntentRow
  <2>3. StampSound(Stamp(r, "applied", p))
    BY <2>0 DEF StampSound, Stamp
  <2> HIDE DEF b, p
  <2>4. RequestSound(r)'
    BY <1>1, <1>2, <1>4, <2>1, <2>2, <2>3 DEF RequestSound, StampSound, Balanced
  <2>5. b.gone = {}
    BY <1>2, <2>0 DEF WorkBalances
  <2> QED
    BY <1>1, <1>2, <1>4, <2>0, <2>1, <2>4, <2>5, OpenKeeps
<1> QED
  BY <1>3, <1>4

(* The stamp of a receipt leaves the transaction balanced.                 *)
Stamped(r) ==
  [work[r] EXCEPT !.intent[Intent(r)] =
     Written(IntentFor(r, Intent(r)), seen[r].loaded, seen[r].row)]

LEMMA StampBalanced ==
  ASSUME BooksInv, NEW r \in Requests, StampIntent(r)
  PROVE  /\ Stamped(r) \in Work /\ Balanced(r, Stamped(r))
         /\ Stamped(r).paid = work[r].paid /\ Stamped(r).gone = work[r].gone
         /\ Stamped(r).status = work[r].status
         /\ \/ Commit(r, Stamped(r), accruals)
            \/ /\ work' = [work EXCEPT ![r] = Stamped(r)] /\ pc' = [pc EXCEPT ![r] = "get"]
               /\ at' = [at EXCEPT ![r] = @ + 1]
               /\ UNCHANGED <<status, payments, accruals, receipts, intent>>
               /\ UNCHANGED <<holder, job, seen>>
<1> DEFINE n == Intent(r)
           row == Written(IntentFor(r, n), seen[r].loaded, seen[r].row)
           w == [work[r] EXCEPT !.intent[n] = row]
<1>0. /\ Shape /\ WorkBalances /\ RequestSound(r) /\ BooksSound /\ pc[r] = "stamp"
      /\ Kind(r) \in {"accept", "bulk", "undo", "dismiss"} /\ n \in Intents
      /\ work[r] \in Work /\ Balanced(r, work[r])
  BY CurrentItem, WorkBalanced DEF BooksInv, OnRecognised, KindAt, StampIntent, Shape
<1>1. seen[r].row \in IntentRow /\ seen[r].loaded \in IntentRow
  BY <1>0, SeenRow DEF RequestSound
<1>2. row \in IntentRow /\ row # Nothing
  BY <1>0, <1>1, IntentForRow, WrittenRow, ReceivableMarksAssumption
<1>3. StampSound(row)
  <2>1. row.payment = IntentFor(r, n).payment \/ row.payment = seen[r].row.payment
    BY DEF Written
  <2>2. StampSound(IntentFor(r, n)) /\ IntentFor(r, n) # Nothing
    BY <1>0, IntentForRow, ReceivableMarksAssumption DEF IntentFor, RequestSound, BooksSound
  <2>3. StampSound(seen[r].row) /\ seen[r].row # Nothing
    BY <1>0 DEF RequestSound
  <2> QED
    BY <2>1, <2>2, <2>3 DEF StampSound
<1>4. /\ w = Stamped(r)
      /\ \/ Commit(r, w, accruals)
         \/ /\ work' = [work EXCEPT ![r] = w] /\ pc' = [pc EXCEPT ![r] = "get"]
            /\ at' = [at EXCEPT ![r] = @ + 1]
            /\ UNCHANGED <<status, payments, accruals, receipts, intent>>
            /\ UNCHANGED <<holder, job, seen>>
  BY DEF StampIntent, Stamped, Goto, bookVars
<1> HIDE DEF row
<1>5. /\ w \in Work /\ w.paid = work[r].paid /\ w.gone = work[r].gone /\ w.posted = work[r].posted
      /\ w.unposted = work[r].unposted /\ w.status = work[r].status
      /\ \A m \in Intents : w.intent[m] = IF m = n THEN row ELSE work[r].intent[m]
  BY <1>0, <1>2 DEF Work
<1> HIDE DEF w, n
<1>6. Balanced(r, w)
  BY <1>0, <1>3, <1>5 DEF Balanced
<1> QED
  BY <1>4, <1>5, <1>6

(* Stamping a receipt, as the last thing or on the way to the next one.    *)
LEMMA StampInv ==
  ASSUME BooksInv, NEW r \in Requests, StampIntent(r)
  PROVE  WorkBalances' /\ OnRecognised' /\ LockCovers' /\ References' /\ LedgerMatches'
<1> DEFINE w == Stamped(r)
<1>0. /\ Shape /\ WorkBalances /\ RequestSound(r) /\ pc[r] = "stamp"
  BY DEF BooksInv, OnRecognised, StampIntent
<1>1. /\ w \in Work /\ Balanced(r, w) /\ w.paid = work[r].paid /\ w.gone = work[r].gone
      /\ w.status = work[r].status
      /\ \/ Commit(r, w, accruals)
         \/ /\ work' = [work EXCEPT ![r] = w] /\ pc' = [pc EXCEPT ![r] = "get"]
            /\ at' = [at EXCEPT ![r] = @ + 1]
            /\ UNCHANGED <<status, payments, accruals, receipts, intent>>
            /\ UNCHANGED <<holder, job, seen>>
  BY StampBalanced
<1> HIDE DEF w
<1>2. CASE Commit(r, w, accruals)
  <2>1. Stable /\ accruals = {i \in Invoices : status'[i] \in Recognised}
    BY <1>0, <1>1, <1>2, StaysRecognised DEF RequestSound
  <2> QED
    BY <1>1, <1>2, <2>1, CommitInv
<1>3. CASE ~Commit(r, w, accruals)
  <2>1. /\ work'[r] = w /\ pc'[r] = "get" /\ seen' = seen /\ holder' = holder
        /\ \A s \in Requests : s # r =>
             work'[s] = work[s] /\ seen'[s] = seen[s] /\ pc'[s] = pc[s] /\ at'[s] = at[s]
        /\ UNCHANGED <<status, payments, accruals, receipts, intent, job>>
    BY <1>0, <1>1, <1>3 DEF Shape
  <2>2. \A m \in Intents : StampSound(w.intent[m])
    BY <1>1 DEF Balanced
  <2>3. RequestSound(r)'
    BY <1>0, <1>1, <2>1, <2>2 DEF RequestSound, StampSound
  <2> QED
    BY <1>0, <1>1, <2>1, <2>3, OpenKeeps DEF WorkBalances
<1> QED
  BY <1>2, <1>3

(* Deleting the accepted payment together with its cash entry.             *)
LEMMA DeleteInv ==
  ASSUME BooksInv, NEW r \in Requests, DeletePayment(r)
  PROVE  WorkBalances' /\ OnRecognised' /\ LockCovers' /\ References' /\ LedgerMatches'
<1> DEFINE w == [work[r] EXCEPT !.gone = {Undone(r)}, !.unposted = {Undone(r)}]
<1>0. /\ Shape /\ WorkBalances /\ RequestSound(r) /\ pc[r] = "delete" /\ Kind(r) = "undo"
      /\ work[r] \in Work /\ Balanced(r, work[r])
  BY WorkBalanced DEF BooksInv, OnRecognised, KindAt, DeletePayment, Shape
<1>1. seen[r].row # Nothing /\ seen[r].row.payment # Nothing /\ Undone(r) \in Payment
  BY <1>0, SeenRow DEF RequestSound
<1>2. /\ work' = [work EXCEPT ![r] = w] /\ pc' = [pc EXCEPT ![r] = "reread"]
      /\ UNCHANGED <<status, payments, accruals, receipts, intent>>
      /\ UNCHANGED <<holder, job, at, seen>>
  BY DEF DeletePayment, Goto, bookVars, lockVars
<1>3. /\ w \in Work /\ w.paid = work[r].paid /\ w.gone = {Undone(r)} /\ w.unposted = {Undone(r)}
      /\ w.posted = work[r].posted /\ w.status = work[r].status /\ w.intent = work[r].intent
  BY <1>0, <1>1 DEF Work
<1> HIDE DEF w
<1>4. Balanced(r, w)
  BY <1>0, <1>3 DEF Balanced
<1>5. /\ work'[r] = w /\ pc'[r] = "reread"
      /\ \A s \in Requests : s # r =>
           work'[s] = work[s] /\ seen'[s] = seen[s] /\ pc'[s] = pc[s] /\ at'[s] = at[s]
  BY <1>0, <1>2 DEF Shape
<1>6. RequestSound(r)'
  BY <1>0, <1>1, <1>2, <1>3, <1>5 DEF RequestSound, StampSound
<1>7. w.paid = {}
  BY <1>0, <1>3 DEF WorkBalances
<1> QED
  BY <1>0, <1>2, <1>3, <1>4, <1>5, <1>6, <1>7, OpenKeeps

(* Rewriting the status of an invoice that lost its payment.               *)
LEMMA WriteStatusInv ==
  ASSUME BooksInv, NEW r \in Requests, WriteStatus(r)
  PROVE  WorkBalances' /\ OnRecognised' /\ LockCovers' /\ References' /\ LedgerMatches'
<1> DEFINE i == Undone(r).invoice
           w == [work[r] EXCEPT !.status[i] = seen[r].status]
<1>0. /\ Shape /\ WorkBalances /\ RequestSound(r) /\ BooksSound /\ Kind(r) = "undo"
      /\ pc[r] = "rewrite" /\ work[r] \in Work /\ Balanced(r, work[r])
  BY WorkBalanced DEF BooksInv, OnRecognised, KindAt, WriteStatus, Shape
<1>1. /\ seen[r].row # Nothing /\ seen[r].row.payment # Nothing /\ i \in Invoices
      /\ seen[r].status \in Recognised /\ status[i] \in Recognised
  BY <1>0, SeenRow DEF RequestSound, StampSound, Undone
<1>2. /\ work' = [work EXCEPT ![r] = w] /\ seen' = [seen EXCEPT ![r].row = Reopened]
      /\ holder' = [holder EXCEPT ![i] = r] /\ pc' = [pc EXCEPT ![r] = "load"]
      /\ UNCHANGED <<status, payments, accruals, receipts, intent>>
      /\ UNCHANGED <<job, at>> /\ holder[i] \in {NoRequest, r}
  BY <1>0 DEF WriteStatus, Goto, bookVars, MayLock, Shape
<1>3. /\ w \in Work /\ w.paid = work[r].paid /\ w.gone = work[r].gone
      /\ w.unposted = work[r].unposted /\ w.posted = work[r].posted /\ w.intent = work[r].intent
      /\ \A j \in Invoices : w.status[j] = IF j = i THEN seen[r].status ELSE work[r].status[j]
  BY <1>0, <1>1 DEF Work, Recognised, InvoiceStatus
<1>4. Reopened # Nothing /\ Reopened.payment = Nothing
  BY ReceivableMarksAssumption DEF Reopened, IntentRow
<1> HIDE DEF w, i
<1>5. Balanced(r, w)
  BY <1>0, <1>3 DEF Balanced
<1>6. /\ work'[r] = w /\ pc'[r] = "load" /\ seen'[r].row = Reopened
      /\ \A s \in Requests : s # r =>
           work'[s] = work[s] /\ seen'[s] = seen[s] /\ pc'[s] = pc[s] /\ at'[s] = at[s]
  BY <1>0, <1>2 DEF Shape, Seen
<1>7. RequestSound(r)'
  BY <1>0, <1>1, <1>2, <1>3, <1>4, <1>6 DEF RequestSound, StampSound
<1>8. /\ \A j \in Invoices : holder[j] \notin {NoRequest, r} => holder'[j] = holder[j]
      /\ \A j \in Invoices : holder[j] = r => holder'[j] = r
  BY <1>0, <1>1, <1>2 DEF Shape
<1> QED
  BY <1>0, <1>2, <1>3, <1>5, <1>6, <1>7, <1>8, OpenKeeps DEF WorkBalances

-----------------------------------------------------------------------------
(* The invariant holds at first.                                           *)
LEMMA BooksInvInit == Init => BooksInv
<1> SUFFICES ASSUME Init PROVE BooksInv
  OBVIOUS
<1>1. status \in [Invoices -> InvoiceStatus] /\ \A i \in Invoices : status[i] # "paid"
  BY ReceivableStatusesAssumption DEF Init
<1>2. OpenIntent \in IntentRow /\ NothingSeen \in Seen /\ NoWork \in Work
  BY DEF OpenIntent, IntentRow, NothingSeen, Seen, NoWork, Work
<1>3. \A r \in Requests : at[r] \in DOMAIN job[r].items
  <2> SUFFICES ASSUME NEW r \in Requests PROVE at[r] \in DOMAIN job[r].items
    OBVIOUS
  <2>1. job[r].items \in Seq(Items) /\ job[r].items # << >>
    BY ReceivablePlansAssumption DEF Init, WellFormed
  <2>2. 1 \in DOMAIN job[r].items
    BY <2>1
  <2> QED
    BY <2>2 DEF Init
<1>4. Shape
  BY <1>1, <1>2, <1>3 DEF Init, Shape, Places
<1>5. KindAt
  BY DEF Init, KindAt
<1>6. WorkBalances /\ LockCovers /\ References
  BY DEF Init, WorkBalances, LockCovers, References, BookedOnce, NoWork
<1>7. OnRecognised
  <2>1. BooksSound
    BY DEF Init, BooksSound, StampSound, OpenIntent
  <2>2. \A r \in Requests : RequestSound(r)
    BY DEF Init, RequestSound, StampSound, NoWork, NothingSeen
  <2> QED
    BY <2>1, <2>2 DEF OnRecognised
<1>8. LedgerMatches
  BY <1>1 DEF Init, LedgerMatches
<1> QED
  BY <1>4, <1>5, <1>6, <1>7, <1>8 DEF BooksInv

(* And every step keeps it.                                                *)
LEMMA BooksInvNext == BooksInv /\ [Next]_vars => BooksInv'
<1> SUFFICES ASSUME BooksInv, [Next]_vars PROVE BooksInv'
  OBVIOUS
<1>0. Shape /\ KindAt /\ OnRecognised
  BY DEF BooksInv
<1>1. ASSUME NEW r \in Requests, Step(r) PROVE BooksInv'
  <2>1. KindAt'
    BY <1>0, <1>1, KindAtNext
  <2>2. CASE Refusal(r)
    <3>1. Refuse(r)
      BY <2>2, RefusalRefuses
    <3> QED
      BY <1>0, <2>1, <3>1, RefuseShape, RefuseInv DEF BooksInv
  <2>3. CASE Reading(r)
    BY <1>0, <2>1, <2>3, ReadingShape, ReadingInv DEF BooksInv
  <2>4. CASE Writing(r)
    <3>1. Shape'
      BY <1>0, <2>4, WritingShape
    <3>2. WorkBalances' /\ OnRecognised' /\ LockCovers' /\ References' /\ LedgerMatches'
      BY <2>4, FlipInv, ReplayedInv, BookInv, StampInv, DeleteInv, WriteStatusInv DEF Writing
    <3> QED
      BY <2>1, <3>1, <3>2 DEF BooksInv
  <2> QED
    BY <1>1, <2>2, <2>3, <2>4, StepKinds
<1>2. CASE UNCHANGED vars
  <2> USE <1>2 DEF vars, bookVars, lockVars
  <2>1. Shape' /\ KindAt'
    BY <1>0 DEF Shape, KindAt, Kind
  <2>2. WorkBalances' /\ LockCovers'
    BY DEF BooksInv, WorkBalances, LockCovers, Kind, Invoice, Item
  <2>3. References' /\ LedgerMatches'
    BY DEF BooksInv, References, BookedOnce, LedgerMatches
  <2>4. BooksSound'
    BY <1>0 DEF OnRecognised, BooksSound, StampSound
  <2>5. \A r \in Requests : RequestSound(r)'
    BY <1>0, Untouched DEF Stable
  <2> QED
    BY <2>1, <2>2, <2>3, <2>4, <2>5 DEF BooksInv, OnRecognised
<1> QED
  BY <1>1, <1>2 DEF Next, AllEnded

(* For all invoices, receipts and requests: every payment has its cash     *)
(* entry and every approved or paid invoice its revenue entry, and nothing *)
(* else has one, however the requests interleave (approve_invoice,         *)
(* apply_payment, accept, undo).                                           *)
THEOREM LedgerAlwaysMatches == Spec => []LedgerMatches
<1>1. BooksInv => LedgerMatches
  BY DEF BooksInv
<1> QED
  BY BooksInvInit, BooksInvNext, <1>1, PTL DEF Spec

(* And no two payments ever share a reference: the row lock of the invoice *)
(* covers the probe that the insert relies on (apply_payment).             *)
THEOREM NeverBookedTwice == Spec => []BookedOnce
<1>1. BooksInv => BookedOnce
  BY DEF BooksInv, References
<1> QED
  BY BooksInvInit, BooksInvNext, <1>1, PTL DEF Spec

(* Money is only ever on approved or paid invoices: neither a void nor an  *)
(* issue can slip between the check of a payment and its commit, and an    *)
(* undo leaves its invoice approved or paid.                               *)
THEOREM PaymentsOnRecognised ==
  Spec => [](\A p \in payments : status[p.invoice] \in Recognised)
<1>1. BooksInv => \A p \in payments : status[p.invoice] \in Recognised
  BY DEF BooksInv, OnRecognised, BooksSound
<1> QED
  BY BooksInvInit, BooksInvNext, <1>1, PTL DEF Spec

=============================================================================
