--------------------------- MODULE CollectionProofs --------------------------
(***************************************************************************)
(* What an invoice collects, for every set of invoices, receipts, requests *)
(* and plans: never more than its total, and, when no undo overlaps        *)
(* another request, paid exactly when its payments cover it. On top of     *)
(* BooksInv the argument counts what each request sees: the payments it    *)
(* sees of an invoice fit its total, a request that is about to book has   *)
(* room for its payment, and whoever has written a status or a payment of  *)
(* an invoice holds its row.                                               *)
(***************************************************************************)
EXTENDS ReceivablesProofs, SumTheorems

OnInvoice(ps, i) == {p \in ps : p.invoice = i}

(* The books and the open transactions hold finitely many payments.        *)
Finite == IsFiniteSet(payments) /\ \A r \in Requests : IsFiniteSet(work[r].paid)

(* What a request sees fits, and so does what it is about to book.         *)
SeesEnough(r) ==
  /\ \A i \in Invoices : SumPayments(PaymentsFor(r), i) <= Total[i]
  /\ pc[r] = "book" =>
       Amount[Item(r).slip] + SumPayments(PaymentsFor(r), Invoice(r)) <= Total[Invoice(r)]

CollectInv == Finite /\ NeverOverpaid /\ \A r \in Requests : SeesEnough(r)

Closed == {"idle", "replied", "refused"}

(* A closed session has no lock and no write, and has met nobody before it *)
(* began; an undo has written no status before it rewrites one; a written  *)
(* status is under the row lock of its invoice.                            *)
ClosedClean ==
  \A r \in Requests :
    /\ pc[r] \in Closed => work[r].paid = {} /\ work[r].gone = {}
    /\ pc[r] \in Closed \cup {"find", "delete", "reread", "settle", "rewrite"} =>
         \A i \in Invoices : work[r].status[i] = Nothing
    /\ pc[r] = "idle" => met[r] = {}
    /\ \A i \in Invoices : work[r].status[i] # Nothing => holder[i] = r

LocksOpen ==
  /\ \A i \in Invoices : holder[i] \in Active \cup {NoRequest}
  /\ \A i \in Invoices : accruing[i] \in Active \cup {NoRequest}
  /\ \A n \in Intents : stamping[n] \in Active \cup {NoRequest}

(* Two requests that are open have met.                                    *)
OpenHaveMet == \A r, s \in Active : r # s => s \in met[r]

SessionInv == ClosedClean /\ LocksOpen /\ OpenHaveMet

Calm == \A r \in Requests : Kind(r) = "undo" => met[r] = {}

(* The status request r sees of invoice i agrees with the payments it sees *)
(* of it.                                                                  *)
Agrees(r, i) ==
  status[i] \in Recognised =>
    (StatusFor(r, i) = "paid" <=> SumPayments(PaymentsFor(r), i) >= Total[i])

(* An undo that has deleted its payment, and not yet settled the invoice.  *)
Settling(r) == pc[r] \in {"reread", "settle", "rewrite"}

Covered(r) ==
  /\ \A i \in Invoices : (Settling(r) => i # Undone(r).invoice) => Agrees(r, i)
  /\ pc[r] = "book" =>
       /\ StatusFor(r, Invoice(r)) = "approved"
       /\ seen[r].settles <=>
            Total[Invoice(r)] - SumPayments(PaymentsFor(r), Invoice(r)) = Amount[Item(r).slip]
  /\ pc[r] = "settle" => seen[r].status = status[Undone(r).invoice]
  /\ pc[r] = "rewrite" => seen[r].status = SettledStatus(r, Undone(r).invoice)

BooksCovered ==
  \A i \in Invoices : status[i] \in Recognised =>
    (status[i] = "paid" <=> SumPayments(payments, i) >= Total[i])

CoverInv == Calm => BooksCovered /\ \A r \in Requests : Covered(r)

-----------------------------------------------------------------------------
(* What every step does to the session of its request, and to no other.    *)

(* A step of r that ends its session: the locks go, and the writes.        *)
Ends(r) == pc' = [pc EXCEPT ![r] = pc'[r]] /\ pc'[r] \in Ended /\ GiveBack(r) /\ UNCHANGED met

(* One that opens it, and one in the middle of it.                         *)
Opens(r) == pc'[r] \notin Closed /\ Begin(r, pc'[r])
GoesOn(r) == pc[r] \notin Closed /\ pc'[r] \notin Closed /\ UNCHANGED met

LEMMA CommitEnds ==
  ASSUME Shape, NEW r \in Requests, NEW w, NEW a, Commit(r, w, a)
  PROVE  Ends(r)
<1>1. pc' = [pc EXCEPT ![r] = "replied"] /\ GiveBack(r) /\ UNCHANGED met
  BY DEF Commit
<1>2. pc'[r] = "replied"
  BY <1>1 DEF Shape
<1> QED
  BY <1>1, <1>2 DEF Ends, Ended

LEMMA RefuseEnds ==
  ASSUME Shape, NEW r \in Requests, Refuse(r)
  PROVE  Ends(r)
<1>1. pc' = [pc EXCEPT ![r] = "refused"] /\ GiveBack(r) /\ UNCHANGED met
  BY DEF Refuse
<1>2. pc'[r] = "refused"
  BY <1>1 DEF Shape
<1> QED
  BY <1>1, <1>2 DEF Ends, Ended

LEMMA BeginOpens ==
  ASSUME Shape, NEW r \in Requests, NEW where, where \notin Closed, Begin(r, where)
  PROVE  Opens(r)
<1>1. pc'[r] = where
  BY DEF Begin, Shape
<1> QED
  BY <1>1 DEF Opens

LEMMA GotoGoesOn ==
  ASSUME Shape, NEW r \in Requests, NEW where, where \notin Closed, pc[r] \notin Closed,
         Goto(r, where)
  PROVE  GoesOn(r)
  BY DEF Goto, GoesOn, Shape

LEMMA StepMoves ==
  ASSUME Shape, KindAt, NEW r \in Requests, Step(r)
  PROVE  Ends(r) \/ Opens(r) \/ GoesOn(r)
<1> USE DEF Closed
<1>1. CASE Refusal(r)
  BY <1>1, RefusalRefuses, RefuseEnds
<1>2. CASE Reading(r)
  <2>1. CASE ReadInvoice(r) \/ BeginBatch(r) \/ GetApplied(r)
    BY <2>1, BeginOpens DEF ReadInvoice, BeginBatch, GetApplied
  <2>2. CASE GetIntent(r) \/ ProbeMisses(r)
    BY <2>2, BeginOpens, GotoGoesOn DEF GetIntent, ProbeMisses
  <2>3. CASE Accrue(r) \/ Prevalidate(r) \/ ProbeHits(r) \/ Lock(r) \/ Load(r)
    BY <2>3, GotoGoesOn DEF Accrue, Prevalidate, ProbeHits, Lock, Load
  <2>4. CASE Find(r) \/ ReadStatus(r) \/ Settle(r)
    BY <2>4, GotoGoesOn DEF Find, ReadStatus, Settle
  <2> QED
    BY <1>2, <2>1, <2>2, <2>3, <2>4 DEF Reading
<1>3. CASE Writing(r)
  <2>1. CASE Flip(r) \/ Replayed(r)
    BY <2>1, CommitEnds DEF Flip, Replayed
  <2>2. CASE Book(r) \/ StampIntent(r)
    BY <2>2, CommitEnds, GotoGoesOn DEF Book, StampIntent
  <2>3. CASE DeletePayment(r) \/ WriteStatus(r)
    BY <2>3, GotoGoesOn DEF DeletePayment, WriteStatus
  <2> QED
    BY <1>3, <2>1, <2>2, <2>3 DEF Writing
<1> QED
  BY <1>1, <1>2, <1>3, StepKinds

(* The other requests keep what they have; a lock changes hands only from  *)
(* nobody to the request of the step, and back.                            *)
Takes(r) ==
  /\ \A i \in Invoices : holder'[i] \in {holder[i], r}
  /\ \A i \in Invoices : accruing'[i] \in {accruing[i], r}
  /\ \A n \in Intents : stamping'[n] \in {stamping[n], r}
  /\ \A i \in Invoices : holder[i] # NoRequest => holder'[i] = holder[i]

OthersSame(r) ==
  \A s \in Requests : s # r =>
    work'[s] = work[s] /\ seen'[s] = seen[s] /\ pc'[s] = pc[s] /\ at'[s] = at[s]

LEMMA EndsKeeps ==
  ASSUME Shape, NEW r \in Requests, Ends(r)
  PROVE  OthersSame(r) /\ work'[r] = NoWork /\ seen'[r] = NothingSeen
  BY DEF Shape, Ends, GiveBack, OthersSame

LEMMA WritingKeeps ==
  ASSUME Shape, KindAt, OnRecognised, NEW r \in Requests, Writing(r)
  PROVE  OthersSame(r) /\ (Ends(r) \/ Takes(r))
<1> USE DEF Shape, OthersSame, Takes
<1>1. CASE Flip(r) \/ Replayed(r)
  BY <1>1, CommitEnds, EndsKeeps DEF Flip, Replayed
<1>2. CASE Book(r)
  <2>1. CASE Kind(r) = "pay"
    BY <1>2, <2>1, CommitEnds, EndsKeeps DEF Book
  <2>2. CASE Kind(r) # "pay"
    <3> DEFINE p == [by |-> r, invoice |-> Invoice(r), slip |-> Item(r).slip]
    <3>1. PICK b, row : /\ work' = [work EXCEPT ![r] = b] /\ seen' = [seen EXCEPT ![r].row = row]
                        /\ Goto(r, "load") /\ UNCHANGED <<bookVars, lockVars, job, at>>
      BY <1>2, <2>2 DEF Book
    <3> QED
      BY <3>1 DEF Goto, lockVars
  <2> QED
    BY <2>1, <2>2
<1>3. CASE StampIntent(r)
  <2>1. CASE at[r] = Len(job[r].items)
    BY <1>3, <2>1, CommitEnds, EndsKeeps DEF StampIntent
  <2>2. CASE at[r] # Len(job[r].items)
    <3>1. PICK w : /\ work' = [work EXCEPT ![r] = w] /\ stamping' = [stamping EXCEPT ![Intent(r)] = r]
                   /\ at' = [at EXCEPT ![r] = @ + 1] /\ Goto(r, "get")
                   /\ UNCHANGED <<bookVars, holder, accruing, job, seen>>
      BY <1>3, <2>2 DEF StampIntent
    <3> QED
      BY <3>1 DEF Goto
  <2> QED
    BY <2>1, <2>2
<1>4. CASE DeletePayment(r)
  BY <1>4 DEF DeletePayment, Goto, lockVars
<1>5. CASE WriteStatus(r)
  BY <1>5 DEF WriteStatus, Goto, MayLock
<1> QED
  BY <1>1, <1>2, <1>3, <1>4, <1>5 DEF Writing

LEMMA ReadingTakes ==
  ASSUME Shape, KindAt, NEW r \in Requests, Reading(r)
  PROVE  Takes(r)
<1> USE DEF Shape, Takes
<1>1. CASE ReadInvoice(r) \/ BeginBatch(r) \/ GetApplied(r) \/ GetIntent(r) \/ ProbeMisses(r)
  BY <1>1 DEF ReadInvoice, BeginBatch, GetApplied, GetIntent, ProbeMisses, lockVars
<1>2. CASE Accrue(r)
  BY <1>2 DEF Accrue
<1>3. CASE Prevalidate(r) \/ Lock(r)
  BY <1>3 DEF Prevalidate, Lock, LockInvoice, MayLock
<1>4. CASE ProbeHits(r) \/ Load(r) \/ Find(r) \/ ReadStatus(r) \/ Settle(r)
  BY <1>4 DEF ProbeHits, Load, Find, ReadStatus, Settle, lockVars
<1> QED
  BY <1>1, <1>2, <1>3, <1>4 DEF Reading

LEMMA StepKeeps ==
  ASSUME BooksInv, NEW r \in Requests, Step(r)
  PROVE  OthersSame(r) /\ UNCHANGED job /\ (Ends(r) \/ Takes(r))
<1>0. Shape /\ KindAt /\ OnRecognised
  BY DEF BooksInv
<1>1. UNCHANGED job
  BY <1>0, KindAtNext
<1>2. CASE Refusal(r)
  BY <1>0, <1>1, <1>2, RefusalRefuses, RefuseEnds, EndsKeeps
<1>3. CASE Reading(r)
  <2>1. OthersSame(r)
    BY <1>0, <1>3, ReadingKeeps DEF OthersSame
  <2> QED
    BY <1>0, <1>1, <1>3, <2>1, ReadingTakes
<1>4. CASE Writing(r)
  BY <1>0, <1>1, <1>4, WritingKeeps
<1> QED
  BY <1>2, <1>3, <1>4, StepKinds

-----------------------------------------------------------------------------
(* The sessions.                                                           *)

LEMMA LocksOpenNext ==
  ASSUME Shape, SessionInv, NEW r \in Requests, OthersSame(r),
         Ends(r) \/ Takes(r), Ends(r) \/ Opens(r) \/ GoesOn(r)
  PROVE  LocksOpen'
<1>1. r \notin Active' => Ends(r)
  BY DEF Opens, GoesOn, Active, Closed, Ended
<1>2. \A s \in Requests : s # r /\ s \in Active => s \in Active'
  BY DEF OthersSame, Active
<1>3. CASE Ends(r)
  <2>1. /\ \A i \in Invoices : holder'[i] = (IF holder[i] = r THEN NoRequest ELSE holder[i])
        /\ \A i \in Invoices : accruing'[i] = (IF accruing[i] = r THEN NoRequest ELSE accruing[i])
        /\ \A n \in Intents : stamping'[n] = (IF stamping[n] = r THEN NoRequest ELSE stamping[n])
    BY <1>3 DEF Ends, GiveBack, Free, Shape
  <2> QED
    BY <1>2, <2>1 DEF SessionInv, LocksOpen, Active
<1>4. CASE ~Ends(r)
  <2>1. r \in Active'
    BY <1>1, <1>4
  <2>2. /\ \A i \in Invoices : holder'[i] \in {holder[i], r}
        /\ \A i \in Invoices : accruing'[i] \in {accruing[i], r}
        /\ \A n \in Intents : stamping'[n] \in {stamping[n], r}
    BY <1>4 DEF Takes
  <2>3. \A x \in Active \cup {NoRequest} : x \in Active' \cup {NoRequest}
    BY <1>2, <2>1 DEF Active
  <2> QED
    BY <2>1, <2>2, <2>3 DEF SessionInv, LocksOpen
<1> QED
  BY <1>3, <1>4

LEMMA OpenHaveMetNext ==
  ASSUME Shape, SessionInv, NEW r \in Requests, OthersSame(r),
         Ends(r) \/ Opens(r) \/ GoesOn(r)
  PROVE  OpenHaveMet' /\ \A s \in Requests : pc'[s] = "idle" => met'[s] = {}
<1>1. CASE Ends(r)
  <2>1. Active' \subseteq Active /\ UNCHANGED met /\ pc'[r] # "idle"
    BY <1>1 DEF Ends, Ended, Active, OthersSame
  <2> QED
    BY <2>1 DEF SessionInv, OpenHaveMet, ClosedClean, OthersSame
<1>2. CASE GoesOn(r)
  <2>1. Active' = Active /\ UNCHANGED met /\ pc'[r] # "idle"
    BY <1>2 DEF GoesOn, Closed, Ended, Active, OthersSame
  <2> QED
    BY <2>1 DEF SessionInv, OpenHaveMet, ClosedClean, OthersSame
<1>3. CASE Opens(r)
  <2>1. Active' \subseteq Active \cup {r} /\ r \notin Active /\ pc'[r] # "idle"
    BY <1>3 DEF Opens, Begin, Closed, Ended, Active, OthersSame
  <2>2. met' = [s \in Requests |-> IF s = r THEN Active
                                   ELSE IF s \in Active THEN met[s] \cup {r} ELSE met[s]]
    BY <1>3 DEF Opens, Begin
  <2>3. ASSUME NEW s \in Active', NEW t \in Active', s # t PROVE t \in met'[s]
    BY <2>1, <2>2, <2>3 DEF SessionInv, OpenHaveMet, Active
  <2>4. ASSUME NEW s \in Requests, pc'[s] = "idle" PROVE met'[s] = {}
    BY <2>1, <2>2, <2>4 DEF SessionInv, ClosedClean, OthersSame, Active, Ended
  <2> QED
    BY <2>3, <2>4 DEF OpenHaveMet
<1> QED
  BY <1>1, <1>2, <1>3

(* A step leaves a status it has written as it is, or writes one under the *)
(* row lock of its invoice.                                                *)
LEMMA StatusWritten ==
  ASSUME BooksInv, NEW r \in Requests, Writing(r)
  PROVE  \/ Ends(r)
         \/ /\ work'[r].status = work[r].status
            /\ pc'[r] \in {"get", "reread"} /\ (pc'[r] = "reread" => pc[r] = "delete")
         \/ /\ pc'[r] = "load"
            /\ \A i \in Invoices : work'[r].status[i] = work[r].status[i] \/ holder'[i] = r
<1>0. Shape /\ KindAt /\ LockCovers /\ OnRecognised /\ work[r] \in Work
  BY DEF BooksInv, Shape
<1>1. CASE Flip(r) \/ Replayed(r)
  BY <1>0, <1>1, CommitEnds DEF Flip, Replayed
<1>2. CASE Book(r)
  <2>1. CASE Kind(r) = "pay"
    BY <1>0, <1>2, <2>1, CommitEnds DEF Book
  <2>2. CASE Kind(r) # "pay"
    <3> DEFINE p == [by |-> r, invoice |-> Invoice(r), slip |-> Item(r).slip]
    <3>1. /\ work' = [work EXCEPT ![r] = Booked(r, p)] /\ pc' = [pc EXCEPT ![r] = "load"]
          /\ holder' = holder /\ pc[r] = "book"
      BY <1>2, <2>2 DEF Book, Goto, lockVars
    <3>2. \A i \in Invoices : Booked(r, p).status[i] = work[r].status[i] \/ i = Invoice(r)
      BY <1>0 DEF Booked, Work
    <3>3. holder[Invoice(r)] = r
      BY <1>0, <3>1 DEF LockCovers
    <3> QED
      BY <1>0, <3>1, <3>2, <3>3 DEF Shape
  <2> QED
    BY <2>1, <2>2
<1>3. CASE StampIntent(r)
  <2>1. CASE at[r] = Len(job[r].items)
    BY <1>0, <1>3, <2>1, CommitEnds DEF StampIntent
  <2>2. CASE at[r] # Len(job[r].items)
    <3>1. PICK row : /\ work' = [work EXCEPT ![r] = [work[r] EXCEPT !.intent[Intent(r)] = row]]
                     /\ pc' = [pc EXCEPT ![r] = "get"]
      BY <1>3, <2>2 DEF StampIntent, Goto
    <3>2. work'[r] = [work[r] EXCEPT !.intent[Intent(r)] = row] /\ pc'[r] = "get"
      BY <3>1 DEF BooksInv, Shape
    <3>3. work'[r].status = work[r].status
      BY <1>0, <3>2 DEF Work
    <3> QED
      BY <3>2, <3>3
  <2> QED
    BY <2>1, <2>2
<1>4. CASE DeletePayment(r)
  BY <1>0, <1>4 DEF DeletePayment, Goto, Shape
<1>5. CASE WriteStatus(r)
  <2>1. Undone(r).invoice \in Invoices
    BY <1>0, <1>5, SeenRow DEF WriteStatus, OnRecognised, RequestSound
  <2>2. /\ work' = [work EXCEPT ![r].status[Undone(r).invoice] = seen[r].status]
        /\ holder' = [holder EXCEPT ![Undone(r).invoice] = r]
        /\ pc' = [pc EXCEPT ![r] = "load"]
    BY <1>5 DEF WriteStatus, Goto
  <2>3. holder'[Undone(r).invoice] = r /\ pc'[r] = "load"
    BY <1>0, <2>1, <2>2 DEF Shape
  <2>4. \A i \in Invoices : work'[r].status[i] = work[r].status[i] \/ i = Undone(r).invoice
    BY <1>0, <2>2 DEF Shape, Work
  <2> QED
    BY <2>3, <2>4
<1> QED
  BY <1>1, <1>2, <1>3, <1>4, <1>5 DEF Writing

(* A reading step gets to the recomputation of an undo only from before    *)
(* it, and closes no session.                                              *)
LEMMA ReadingPlaces ==
  ASSUME Shape, NEW r \in Requests, Reading(r)
  PROVE  /\ pc'[r] \notin Closed
         /\ pc'[r] \in {"find", "delete", "reread", "settle", "rewrite"} =>
              pc[r] \in {"idle", "find", "delete", "reread", "settle", "rewrite"}
<1> USE DEF Shape, Closed
<1>1. CASE ReadInvoice(r) \/ BeginBatch(r) \/ GetApplied(r) \/ GetIntent(r) \/ ProbeMisses(r)
  BY <1>1 DEF ReadInvoice, BeginBatch, GetApplied, GetIntent, ProbeMisses, Begin, Goto
<1>2. CASE Accrue(r) \/ Prevalidate(r) \/ Lock(r)
  BY <1>2 DEF Accrue, Prevalidate, Lock, Goto
<1>3. CASE ProbeHits(r) \/ Load(r) \/ Find(r) \/ ReadStatus(r) \/ Settle(r)
  BY <1>3 DEF ProbeHits, Load, Find, ReadStatus, Settle, Goto
<1> QED
  BY <1>1, <1>2, <1>3 DEF Reading

LEMMA ClosedCleanNext ==
  ASSUME BooksInv, SessionInv, NEW r \in Requests, Step(r),
         \A s \in Requests : pc'[s] = "idle" => met'[s] = {}
  PROVE  ClosedClean'
<1>0. /\ Shape /\ KindAt /\ ClosedClean
      /\ OthersSame(r) /\ (Ends(r) \/ Takes(r)) /\ (Ends(r) \/ Opens(r) \/ GoesOn(r))
  BY StepKeeps, StepMoves DEF BooksInv, SessionInv
<1>1. \A s \in Requests : \A i \in Invoices : s # r /\ holder[i] = s => holder'[i] = s
  <2>1. \A i \in Invoices : holder[i] \notin {NoRequest, r} => holder'[i] = holder[i]
    BY <1>0 DEF Takes, Ends, GiveBack, Free, Shape
  <2> QED
    BY <2>1, Names
<1>2. ASSUME NEW s \in Requests, s # r
      PROVE  /\ pc'[s] \in Closed => work'[s].paid = {} /\ work'[s].gone = {}
             /\ pc'[s] \in Closed \cup {"find", "delete", "reread", "settle", "rewrite"} =>
                  \A i \in Invoices : work'[s].status[i] = Nothing
             /\ \A i \in Invoices : work'[s].status[i] # Nothing => holder'[i] = s
  BY <1>0, <1>1, <1>2 DEF OthersSame, ClosedClean
<1>3. /\ pc'[r] \in Closed => work'[r].paid = {} /\ work'[r].gone = {}
      /\ pc'[r] \in Closed \cup {"find", "delete", "reread", "settle", "rewrite"} =>
           \A i \in Invoices : work'[r].status[i] = Nothing
      /\ \A i \in Invoices : work'[r].status[i] # Nothing => holder'[i] = r
  <2>1. CASE Ends(r)
    BY <1>0, <2>1, EndsKeeps DEF NoWork
  <2>2. CASE ~Ends(r)
    <3>1. Takes(r) /\ pc'[r] \notin Closed
      BY <1>0, <2>2 DEF Opens, GoesOn
    <3>2. \A i \in Invoices : holder[i] = r => holder'[i] = r
      BY <3>1, Names DEF Takes
    <3>3. CASE Reading(r)
      BY <1>0, <3>1, <3>2, <3>3, ReadingPlaces, ReadingKeeps DEF ClosedClean, Closed
    <3>4. CASE Writing(r)
      BY <1>0, <2>2, <3>1, <3>2, <3>4, StatusWritten DEF ClosedClean, Closed
    <3>5. ~Refusal(r)
      BY <1>0, <2>2, RefusalRefuses, RefuseEnds
    <3> QED
      BY <3>3, <3>4, <3>5, StepKinds
  <2> QED
    BY <2>1, <2>2
<1> QED
  BY <1>2, <1>3 DEF ClosedClean

LEMMA SessionInvInit == Init => SessionInv
<1> SUFFICES ASSUME Init PROVE SessionInv
  OBVIOUS
<1>1. ClosedClean
  BY DEF Init, ClosedClean, NoWork
<1>2. LocksOpen
  BY DEF Init, LocksOpen
<1>3. Active = {}
  BY DEF Init, Active
<1> QED
  BY <1>1, <1>2, <1>3 DEF SessionInv, OpenHaveMet

LEMMA SessionInvNext == BooksInv /\ SessionInv /\ [Next]_vars => SessionInv'
<1> SUFFICES ASSUME BooksInv, SessionInv, [Next]_vars PROVE SessionInv'
  OBVIOUS
<1>1. ASSUME NEW r \in Requests, Step(r) PROVE SessionInv'
  <2>1. Shape /\ OthersSame(r) /\ (Ends(r) \/ Takes(r)) /\ (Ends(r) \/ Opens(r) \/ GoesOn(r))
    BY <1>1, StepKeeps, StepMoves DEF BooksInv
  <2>2. LocksOpen'
    BY <2>1, LocksOpenNext
  <2>3. OpenHaveMet' /\ \A s \in Requests : pc'[s] = "idle" => met'[s] = {}
    BY <2>1, OpenHaveMetNext
  <2>4. ClosedClean'
    BY <1>1, <2>3, ClosedCleanNext
  <2> QED
    BY <2>2, <2>3, <2>4 DEF SessionInv
<1>2. CASE UNCHANGED vars
  <2>1. UNCHANGED <<pc, met, work, holder, accruing, stamping>>
    BY <1>2 DEF vars, lockVars
  <2>2. ClosedClean'
    BY <2>1 DEF SessionInv, ClosedClean
  <2>3. LocksOpen' /\ OpenHaveMet'
    BY <2>1 DEF SessionInv, LocksOpen, OpenHaveMet, Active
  <2> QED
    BY <2>2, <2>3 DEF SessionInv
<1> QED
  BY <1>1, <1>2 DEF Next, AllEnded

(* Every committed row, every place and every item is of its kind, and a   *)
(* row lock is held by an open request or by none: whatever way a session  *)
(* ends, it gives its locks back (get_db).                                 *)
THEOREM ReceivablesWellTyped == Spec => []ReceivablesTypeOK
<1>1. BooksInv /\ SessionInv => ReceivablesTypeOK
  BY DEF BooksInv, Shape, SessionInv, LocksOpen, ReceivablesTypeOK
<1> QED
  BY BooksInvInit, BooksInvNext, SessionInvInit, SessionInvNext, <1>1, PTL DEF Spec

-----------------------------------------------------------------------------
(* Sums of payments.                                                       *)

LEMMA SumsAreNat ==
  ASSUME NEW ps \in SUBSET Payment, IsFiniteSet(ps), NEW i
  PROVE  /\ IsFiniteSet(OnInvoice(ps, i))
         /\ \A p \in OnInvoice(ps, i) : PaymentAmount[p] \in Nat
         /\ SumPayments(ps, i) = SumFunctionOnSet(PaymentAmount, OnInvoice(ps, i))
         /\ SumPayments(ps, i) \in Nat
<1>1. IsFiniteSet(OnInvoice(ps, i))
  BY FS_Subset DEF OnInvoice
<1>2. \A p \in OnInvoice(ps, i) : PaymentAmount[p] \in Nat
  BY ReceivableAmountsAssumption DEF OnInvoice, PaymentAmount, Payment
<1>3. SumPayments(ps, i) = SumFunctionOnSet(PaymentAmount, OnInvoice(ps, i))
  BY DEF SumPayments, OnInvoice
<1> QED
  BY <1>1, <1>2, <1>3, SumNat

LEMMA SumsGrow ==
  ASSUME NEW qs \in SUBSET Payment, IsFiniteSet(qs), NEW ps, NEW i,
         OnInvoice(ps, i) \subseteq OnInvoice(qs, i)
  PROVE  SumPayments(ps, i) <= SumPayments(qs, i)
<1>1. SumPayments(ps, i) = SumFunctionOnSet(PaymentAmount, OnInvoice(ps, i))
  BY DEF SumPayments, OnInvoice
<1> QED
  BY <1>1, SumsAreNat, SumGrows

LEMMA SumsAgree ==
  ASSUME NEW ps, NEW qs, NEW i, OnInvoice(ps, i) = OnInvoice(qs, i)
  PROVE  SumPayments(ps, i) = SumPayments(qs, i)
  BY Zenon DEF SumPayments, OnInvoice

LEMMA SumsAdd ==
  ASSUME NEW ps \in SUBSET Payment, IsFiniteSet(ps), NEW p \in Payment, p \notin ps, NEW i
  PROVE  SumPayments(ps \cup {p}, i) =
           SumPayments(ps, i) + IF p.invoice = i THEN Amount[p.slip] ELSE 0
<1>1. CASE p.invoice = i
  <2> DEFINE S == OnInvoice(ps, i)
  <2>1. SumPayments(ps, i) = SumFunctionOnSet(PaymentAmount, S) /\ SumPayments(ps, i) \in Nat
    BY SumsAreNat
  <2>2. IsFiniteSet(S) /\ \A q \in S : PaymentAmount[q] \in Int
    BY SumsAreNat
  <2>3. PaymentAmount[p] = Amount[p.slip] /\ Amount[p.slip] \in Int
    BY ReceivableAmountsAssumption DEF PaymentAmount, Payment
  <2>4. p \notin S
    BY DEF OnInvoice
  <2>5. OnInvoice(ps \cup {p}, i) = S \cup {p}
    BY <1>1 DEF OnInvoice
  <2> HIDE DEF S
  <2>6. PaymentAmount[p] \in Int
    BY <2>3
  <2>7. SumFunctionOnSet(PaymentAmount, S \cup {p}) =
          SumFunctionOnSet(PaymentAmount, S) + PaymentAmount[p]
    BY ONLY <2>2, <2>4, <2>6, SumAdd
  <2>8. SumPayments(ps \cup {p}, i) = SumFunctionOnSet(PaymentAmount, S \cup {p})
    BY <2>5, Zenon DEF SumPayments, OnInvoice
  <2> QED
    BY <1>1, <2>1, <2>3, <2>7, <2>8
<1>2. CASE p.invoice # i
  <2>1. OnInvoice(ps \cup {p}, i) = OnInvoice(ps, i)
    BY <1>2 DEF OnInvoice
  <2>2. SumPayments(ps, i) \in Nat
    BY SumsAreNat
  <2> QED
    BY <1>2, <2>1, <2>2, SumsAgree
<1> QED
  BY <1>1, <1>2

-----------------------------------------------------------------------------
(* No invoice collects more than its total.                                *)

(* What a request sees is a finite set of payments.                        *)
LEMMA SeenPayments ==
  ASSUME Shape, Finite, NEW r \in Requests
  PROVE  /\ payments \in SUBSET Payment /\ IsFiniteSet(payments)
         /\ work[r].paid \in SUBSET Payment /\ IsFiniteSet(work[r].paid)
         /\ PaymentsFor(r) \in SUBSET Payment /\ IsFiniteSet(PaymentsFor(r))
<1>1. payments \in SUBSET Payment /\ work[r].paid \in SUBSET Payment
  BY DEF Shape, Work
<1>2. IsFiniteSet(payments \ work[r].gone)
  BY FS_Subset DEF Finite
<1> QED
  BY <1>1, <1>2, FS_Union DEF Finite, PaymentsFor

(* The others see no more than before of an invoice they have paid into,   *)
(* and what is committed of the rest.                                      *)
LEMMA OthersSeeEnough ==
  ASSUME BooksInv, CollectInv, NEW r \in Requests, UNCHANGED job, OthersSame(r),
         NEW paid, \A p \in paid : holder[p.invoice] = r,
         payments' \subseteq payments \cup paid, payments' \in SUBSET Payment,
         IsFiniteSet(payments'), NeverOverpaid',
         NEW s \in Requests, s # r
  PROVE  SeesEnough(s)'
<1>0. /\ Shape /\ KindAt /\ LockCovers /\ Finite /\ SeesEnough(s)
      /\ work'[s] = work[s] /\ pc'[s] = pc[s] /\ at'[s] = at[s]
  BY DEF BooksInv, CollectInv, OthersSame
<1>1. PaymentsFor(s)' \in SUBSET Payment /\ IsFiniteSet(PaymentsFor(s)')
  <2>1. /\ IsFiniteSet(payments' \ work[s].gone) /\ IsFiniteSet(work[s].paid)
        /\ work[s].paid \in SUBSET Payment
    BY <1>0, SeenPayments, FS_Subset
  <2>2. PaymentsFor(s)' = (payments' \ work[s].gone) \cup work[s].paid
    BY <1>0 DEF PaymentsFor
  <2> QED
    BY <2>1, <2>2, FS_Union
<1>2. \A i \in Invoices : /\ SumPayments(PaymentsFor(s), i) \in Nat
                          /\ SumPayments(PaymentsFor(s)', i) \in Nat
                          /\ SumPayments(payments', i) \in Nat /\ Total[i] \in Nat
  BY <1>0, <1>1, SeenPayments, SumsAreNat, ReceivableAmountsAssumption
<1>3. ASSUME NEW i \in Invoices, holder[i] = s
      PROVE  SumPayments(PaymentsFor(s)', i) <= SumPayments(PaymentsFor(s), i)
  <2>1. OnInvoice(PaymentsFor(s)', i) \subseteq OnInvoice(PaymentsFor(s), i)
    BY <1>0, <1>3 DEF OnInvoice, PaymentsFor
  <2> QED
    BY <1>0, <2>1, SeenPayments, SumsGrow
<1>4. ASSUME NEW i \in Invoices, holder[i] # s
      PROVE  SumPayments(PaymentsFor(s)', i) <= SumPayments(payments', i)
  <2>1. \A p \in work[s].paid : p.invoice # i
    BY <1>0, <1>4 DEF LockCovers
  <2>2. OnInvoice(PaymentsFor(s)', i) \subseteq OnInvoice(payments', i)
    BY <1>0, <2>1 DEF OnInvoice, PaymentsFor
  <2> QED
    BY <2>2, SumsGrow
<1>5. ASSUME NEW i \in Invoices PROVE SumPayments(PaymentsFor(s)', i) <= Total[i]
  BY <1>0, <1>2, <1>3, <1>4 DEF SeesEnough, NeverOverpaid
<1>6. ASSUME pc'[s] = "book"
      PROVE  Amount[Item(s)'.slip] + SumPayments(PaymentsFor(s)', Invoice(s)') <= Total[Invoice(s)']
  <2>1. /\ Item(s)' = Item(s) /\ Invoice(s)' = Invoice(s) /\ Invoice(s) \in Invoices
        /\ Amount[Item(s).slip] \in Nat /\ holder[Invoice(s)] = s
    BY <1>0, <1>6, CurrentItem, ReceivableAmountsAssumption DEF KindAt, LockCovers, Invoice, Item
  <2>2. Amount[Item(s).slip] + SumPayments(PaymentsFor(s), Invoice(s)) <= Total[Invoice(s)]
    BY <1>0, <1>6 DEF SeesEnough
  <2> QED
    BY <1>2, <1>3, <2>1, <2>2
<1> QED
  BY <1>5, <1>6 DEF SeesEnough

(* A commit of finitely many payments that fit keeps the invariant.        *)
LEMMA CommitCollects ==
  ASSUME BooksInv, CollectInv, NEW r \in Requests, NEW w \in Work, NEW a,
         Commit(r, w, a), Balanced(r, w), IsFiniteSet(w.paid),
         \A i \in Invoices : SumPayments((payments \ w.gone) \cup w.paid, i) <= Total[i]
  PROVE  CollectInv'
<1>0. /\ Shape /\ Finite /\ UNCHANGED job /\ OthersSame(r) /\ work'[r] = NoWork
      /\ pc'[r] = "replied" /\ payments' = (payments \ w.gone) \cup w.paid
  BY CommitEnds, EndsKeeps DEF BooksInv, CollectInv, Commit, Shape
<1>1. payments' \in SUBSET Payment /\ IsFiniteSet(payments')
  <2>1. IsFiniteSet(payments \ w.gone) /\ payments \in SUBSET Payment /\ w.paid \in SUBSET Payment
    BY <1>0, FS_Subset DEF Finite, Shape, Work
  <2> QED
    BY <1>0, <2>1, FS_Union
<1>2. NeverOverpaid'
  BY <1>0 DEF NeverOverpaid
<1>3. ASSUME NEW s \in Requests, s # r PROVE SeesEnough(s)'
  <2>1. payments' \subseteq payments \cup w.paid /\ \A p \in w.paid : holder[p.invoice] = r
    BY <1>0 DEF Balanced
  <2> QED
    BY <1>0, <1>1, <1>2, <1>3, <2>1, OthersSeeEnough
<1>4. SeesEnough(r)'
  <2>1. PaymentsFor(r)' = payments'
    BY <1>0 DEF PaymentsFor, NoWork
  <2> QED
    BY <1>0, <1>2, <2>1, Zenon DEF SeesEnough, NeverOverpaid
<1>5. Finite'
  <2>1. work'[r].paid = {}
    BY <1>0 DEF NoWork
  <2>2. \A s \in Requests : s # r => work'[s].paid = work[s].paid
    BY <1>0 DEF OthersSame
  <2> QED
    BY <1>0, <1>1, <2>1, <2>2, FS_EmptySet DEF Finite
<1> QED
  BY <1>2, <1>3, <1>4, <1>5 DEF CollectInv

(* A step that commits nothing keeps it when its own request still sees    *)
(* enough.                                                                 *)
LEMMA OpenCollects ==
  ASSUME BooksInv, CollectInv, NEW r \in Requests, UNCHANGED <<payments, job>>, OthersSame(r),
         IsFiniteSet(work'[r].paid), SeesEnough(r)'
  PROVE  CollectInv'
<1>0. Shape /\ Finite /\ NeverOverpaid
  BY DEF BooksInv, CollectInv
<1> DEFINE none == {}
<1>1. /\ payments' \subseteq payments \cup none /\ payments' \in SUBSET Payment
      /\ IsFiniteSet(payments') /\ \A p \in none : holder[p.invoice] = r
  BY <1>0 DEF Shape, Finite
<1> HIDE DEF none
<1>2. NeverOverpaid'
  BY <1>0 DEF NeverOverpaid
<1>3. ASSUME NEW s \in Requests, s # r PROVE SeesEnough(s)'
  BY <1>1, <1>2, <1>3, OthersSeeEnough
<1>4. Finite'
  BY <1>0 DEF Finite, OthersSame
<1> QED
  BY <1>2, <1>3, <1>4 DEF CollectInv

(* What the payment about to be booked leaves.                             *)
LEMMA RoomForBooked ==
  ASSUME BooksInv, CollectInv, NEW r \in Requests, pc[r] = "book", ReferenceFree(r),
         NEW p, p = [by |-> r, invoice |-> Invoice(r), slip |-> Item(r).slip]
  PROVE  /\ p \in Payment /\ p \notin PaymentsFor(r)
         /\ work[r].gone = {}
         /\ IsFiniteSet(work[r].paid \cup {p})
         /\ (payments \ work[r].gone) \cup (work[r].paid \cup {p}) = PaymentsFor(r) \cup {p}
         /\ \A i \in Invoices : SumPayments(PaymentsFor(r) \cup {p}, i) =
              SumPayments(PaymentsFor(r), i) + IF i = Invoice(r) THEN Amount[Item(r).slip] ELSE 0
         /\ \A i \in Invoices : SumPayments(PaymentsFor(r) \cup {p}, i) <= Total[i]
<1>0. Shape /\ KindAt /\ Finite /\ SeesEnough(r) /\ Kind(r) \in {"pay", "accept", "bulk"}
  BY DEF BooksInv, CollectInv, KindAt
<1>1. p \in Payment /\ p.invoice = Invoice(r) /\ p.slip = Item(r).slip /\ Invoice(r) \in Invoices
  BY <1>0, CurrentItem DEF Payment
<1>2. p \notin PaymentsFor(r)
  BY <1>1 DEF ReferenceFree, Same, Invoice
<1>3. work[r].gone = {}
  BY <1>0 DEF BooksInv, WorkBalances
<1>4. /\ IsFiniteSet(work[r].paid \cup {p})
      /\ PaymentsFor(r) \in SUBSET Payment /\ IsFiniteSet(PaymentsFor(r))
  <2>1. IsFiniteSet(work[r].paid) /\ PaymentsFor(r) \in SUBSET Payment /\ IsFiniteSet(PaymentsFor(r))
    BY <1>0, SeenPayments
  <2>2. \A x : IsFiniteSet(work[r].paid \cup {x})
    BY <2>1, FS_AddElement
  <2> QED
    BY <2>1, <2>2
<1>5. \A i \in Invoices : SumPayments(PaymentsFor(r) \cup {p}, i) =
        SumPayments(PaymentsFor(r), i) + IF i = Invoice(r) THEN Amount[Item(r).slip] ELSE 0
  BY <1>1, <1>2, <1>4, SumsAdd
<1>6. ASSUME NEW i \in Invoices PROVE SumPayments(PaymentsFor(r) \cup {p}, i) <= Total[i]
  <2>1. /\ SumPayments(PaymentsFor(r), i) \in Nat /\ Total[i] \in Nat /\ Amount[Item(r).slip] \in Nat
        /\ SumPayments(PaymentsFor(r), i) <= Total[i]
    BY <1>0, <1>1, <1>4, SumsAreNat, ReceivableAmountsAssumption DEF SeesEnough, Payment
  <2>2. Amount[Item(r).slip] + SumPayments(PaymentsFor(r), Invoice(r)) <= Total[Invoice(r)]
    BY <1>0 DEF SeesEnough
  <2> QED
    BY <1>5, <2>1, <2>2
<1>7. (payments \ work[r].gone) \cup (work[r].paid \cup {p}) = PaymentsFor(r) \cup {p}
  BY DEF PaymentsFor
<1> QED
  BY <1>1, <1>2, <1>3, <1>4, <1>5, <1>6, <1>7

LEMMA BookCollects ==
  ASSUME BooksInv, CollectInv, NEW r \in Requests, Book(r)
  PROVE  CollectInv'
<1> DEFINE p == [by |-> r, invoice |-> Invoice(r), slip |-> Item(r).slip]
           b == Booked(r, p)
<1>0. pc[r] = "book" /\ ReferenceFree(r) /\ Shape /\ OthersSame(r) /\ UNCHANGED job
  BY StepKeeps DEF Book, BooksInv, Step, PaymentStep
<1>1. /\ IsFiniteSet(work[r].paid \cup {p})
      /\ (payments \ work[r].gone) \cup (work[r].paid \cup {p}) = PaymentsFor(r) \cup {p}
      /\ \A i \in Invoices : SumPayments(PaymentsFor(r) \cup {p}, i) <= Total[i]
  BY <1>0, RoomForBooked
<1>2. b \in Work /\ Balanced(r, b) /\ b.gone = work[r].gone
  BY <1>0, BookedBalanced
<1>3. b.paid = work[r].paid \cup {p}
  BY <1>0 DEF Booked, Shape, Work
<1> HIDE DEF b, p
<1>4. (payments \ b.gone) \cup b.paid = PaymentsFor(r) \cup {p}
  BY <1>1, <1>2, <1>3, Zenon
<1>5. CASE Kind(r) = "pay"
  <2>1. Commit(r, b, accruals)
    BY <1>5 DEF Book, b, p
  <2>2. \A i \in Invoices : SumPayments((payments \ b.gone) \cup b.paid, i) <= Total[i]
    BY <1>1, <1>4, Zenon
  <2> QED
    BY <1>1, <1>2, <1>3, <2>1, <2>2, CommitCollects
<1>6. CASE Kind(r) # "pay"
  <2>1. work' = [work EXCEPT ![r] = b] /\ pc' = [pc EXCEPT ![r] = "load"] /\ UNCHANGED payments
    BY <1>6 DEF Book, Goto, bookVars, b, p
  <2>2. work'[r] = b /\ pc'[r] = "load"
    BY <1>0, <2>1 DEF Shape
  <2>3. PaymentsFor(r)' = PaymentsFor(r) \cup {p}
    BY <1>4, <2>1, <2>2, Zenon DEF PaymentsFor
  <2>4. SeesEnough(r)'
    BY <1>1, <2>2, <2>3 DEF SeesEnough
  <2> QED
    BY <1>0, <1>1, <1>3, <2>1, <2>2, <2>4, OpenCollects
<1> QED
  BY <1>5, <1>6

(* A step that changes neither the books nor what its request sees.        *)
LEMMA SameCollects ==
  ASSUME BooksInv, CollectInv, NEW r \in Requests, UNCHANGED <<payments, job>>, OthersSame(r),
         work'[r].paid = work[r].paid, work'[r].gone = work[r].gone, pc'[r] # "book"
  PROVE  CollectInv'
<1>1. PaymentsFor(r)' = PaymentsFor(r)
  BY DEF PaymentsFor
<1>2. SeesEnough(r)'
  BY <1>1 DEF CollectInv, SeesEnough
<1>3. IsFiniteSet(work'[r].paid)
  BY DEF CollectInv, Finite
<1> QED
  BY <1>2, <1>3, OpenCollects

LEMMA WritingCollects ==
  ASSUME BooksInv, CollectInv, NEW r \in Requests, Writing(r)
  PROVE  CollectInv'
<1>0. /\ Shape /\ KindAt /\ OnRecognised /\ WorkBalances /\ Finite /\ NeverOverpaid /\ SeesEnough(r)
      /\ work[r] \in Work /\ NoWork \in Work
      /\ Balanced(r, work[r]) /\ OthersSame(r) /\ UNCHANGED job
  BY WorkBalanced, WritingKeeps, WritingShape, KindAtNext
     DEF BooksInv, CollectInv, Shape, Writing, Step, InvoiceStep, PaymentStep, InboxStep,
         UndoStep, NoWork, Work
<1>1. CASE Flip(r)
  <2> DEFINE w == [NoWork EXCEPT !.status[Invoice(r)] = Target[Kind(r)]]
             a == IF Kind(r) = "approve" THEN accruals \cup {Invoice(r)} ELSE accruals
  <2>1. Commit(r, w, a) /\ Kind(r) \in {"issue", "approve", "void"} /\ Invoice(r) \in Invoices
    BY <1>0, <1>1, CurrentItem DEF Flip, KindAt
  <2>2. Target[Kind(r)] \in InvoiceStatus
    BY <2>1 DEF Target, InvoiceStatus
  <2>3. /\ w \in Work /\ w.paid = {} /\ w.gone = {} /\ w.posted = {} /\ w.unposted = {}
        /\ \A n \in Intents : w.intent[n] = Nothing
    BY <1>0, <2>1, <2>2 DEF NoWork, Work
  <2> HIDE DEF w, a
  <2>4. Balanced(r, w)
    BY <2>3 DEF Balanced, StampSound
  <2>5. IsFiniteSet(w.paid) /\ (payments \ w.gone) \cup w.paid = payments
    BY <2>3, FS_EmptySet
  <2>6. \A i \in Invoices : SumPayments((payments \ w.gone) \cup w.paid, i) <= Total[i]
    BY <1>0, <2>5, Zenon DEF NeverOverpaid
  <2> QED
    BY <2>1, <2>3, <2>4, <2>5, <2>6, CommitCollects
<1>2. CASE Replayed(r)
  <2>1. Commit(r, work[r], accruals) /\ IsFiniteSet(work[r].paid)
    BY <1>0, <1>2 DEF Replayed, Finite
  <2>2. \A i \in Invoices : SumPayments((payments \ work[r].gone) \cup work[r].paid, i) <= Total[i]
    BY <1>0, Zenon DEF SeesEnough, PaymentsFor
  <2> QED
    BY <1>0, <2>1, <2>2, CommitCollects
<1>3. CASE StampIntent(r)
  <2> DEFINE w == Stamped(r)
  <2>1. /\ w \in Work /\ Balanced(r, w) /\ w.paid = work[r].paid /\ w.gone = work[r].gone
        /\ \/ Commit(r, w, accruals)
           \/ /\ work' = [work EXCEPT ![r] = w] /\ pc' = [pc EXCEPT ![r] = "get"]
              /\ UNCHANGED payments
    BY <1>3, StampBalanced
  <2> HIDE DEF w
  <2>2. CASE Commit(r, w, accruals)
    <3>1. IsFiniteSet(w.paid)
      BY <1>0, <2>1 DEF Finite
    <3>2. \A i \in Invoices : SumPayments((payments \ w.gone) \cup w.paid, i) <= Total[i]
      BY <1>0, <2>1, Zenon DEF SeesEnough, PaymentsFor
    <3> QED
      BY <2>1, <2>2, <3>1, <3>2, CommitCollects
  <2>3. CASE ~Commit(r, w, accruals)
    <3>1. work'[r] = w /\ pc'[r] = "get" /\ UNCHANGED payments
      BY <1>0, <2>1, <2>3 DEF Shape
    <3> QED
      BY <1>0, <2>1, <3>1, SameCollects
  <2> QED
    BY <2>2, <2>3
<1>4. CASE DeletePayment(r)
  <2>1. /\ work' = [work EXCEPT ![r] = [@ EXCEPT !.gone = {Undone(r)}, !.unposted = {Undone(r)}]]
        /\ pc' = [pc EXCEPT ![r] = "reread"] /\ UNCHANGED payments /\ Kind(r) = "undo"
    BY <1>0, <1>4 DEF DeletePayment, Goto, bookVars, KindAt
  <2>2. work'[r].paid = work[r].paid /\ work[r].paid = {} /\ pc'[r] = "reread"
    BY <1>0, <2>1 DEF Shape, Work, WorkBalances
  <2>3. PaymentsFor(r)' \subseteq payments
    BY <2>1, <2>2 DEF PaymentsFor
  <2>4. ASSUME NEW i \in Invoices PROVE SumPayments(PaymentsFor(r)', i) <= Total[i]
    <3>1. SumPayments(PaymentsFor(r)', i) <= SumPayments(payments, i)
      BY <1>0, <2>3, SumsGrow DEF Shape, Finite, OnInvoice
    <3>2. PaymentsFor(r)' \in SUBSET Payment /\ IsFiniteSet(PaymentsFor(r)')
      BY <1>0, <2>3, FS_Subset DEF Shape, Finite
    <3>3. /\ SumPayments(PaymentsFor(r)', i) \in Nat /\ SumPayments(payments, i) \in Nat
          /\ Total[i] \in Nat
      BY <1>0, <3>2, SumsAreNat, ReceivableAmountsAssumption DEF Shape, Finite
    <3> QED
      BY <1>0, <3>1, <3>3 DEF NeverOverpaid
  <2>5. SeesEnough(r)'
    BY <2>2, <2>4 DEF SeesEnough
  <2> QED
    BY <1>0, <2>1, <2>2, <2>5, OpenCollects DEF Finite
<1>5. CASE WriteStatus(r)
  <2>1. /\ work' = [work EXCEPT ![r].status[Undone(r).invoice] = seen[r].status]
        /\ pc' = [pc EXCEPT ![r] = "load"] /\ UNCHANGED payments
    BY <1>5 DEF WriteStatus, Goto, bookVars
  <2>2. work'[r].paid = work[r].paid /\ work'[r].gone = work[r].gone /\ pc'[r] = "load"
    BY <1>0, <2>1 DEF Shape, Work
  <2> QED
    BY <1>0, <2>1, <2>2, SameCollects
<1> QED
  BY <1>1, <1>2, <1>3, <1>4, <1>5, BookCollects DEF Writing

LEMMA ReadingCollects ==
  ASSUME BooksInv, CollectInv, NEW r \in Requests, Reading(r)
  PROVE  CollectInv'
<1>0. /\ Shape /\ KindAt /\ SeesEnough(r) /\ Finite
      /\ UNCHANGED <<payments, work, job>> /\ OthersSame(r)
  BY ReadingKeeps DEF BooksInv, CollectInv, OthersSame
<1>1. CASE pc'[r] # "book"
  BY <1>0, <1>1, SameCollects
<1>2. CASE pc'[r] = "book"
  <2>1. Lock(r)
    BY <1>0, <1>2 DEF Reading, ReadInvoice, Accrue, GetIntent, BeginBatch, Prevalidate,
       ProbeMisses, ProbeHits, Load, GetApplied, Find, ReadStatus, Settle, Begin, Goto, Shape
  <2>2. PaymentsFor(r)' = PaymentsFor(r) /\ Item(r)' = Item(r) /\ Invoice(r)' = Invoice(r)
    BY <1>0, <2>1 DEF Lock, PaymentsFor, Item, Invoice
  <2>3. Amount[Item(r).slip] <= Total[Invoice(r)] - SumPayments(PaymentsFor(r), Invoice(r))
    BY <2>1 DEF Lock, Payable
  <2>4. /\ Amount[Item(r).slip] \in Nat /\ Total[Invoice(r)] \in Nat
        /\ SumPayments(PaymentsFor(r), Invoice(r)) \in Nat
    BY <1>0, <2>1, CurrentItem, SeenPayments, SumsAreNat, ReceivableAmountsAssumption DEF Lock, KindAt
  <2>5. Amount[Item(r).slip] + SumPayments(PaymentsFor(r), Invoice(r)) <= Total[Invoice(r)]
    BY <2>3, <2>4
  <2>6. SeesEnough(r)'
    BY <1>0, <2>2, <2>5 DEF SeesEnough
  <2> QED
    BY <1>0, <2>6, OpenCollects DEF Finite
<1> QED
  BY <1>1, <1>2

LEMMA RefusalCollects ==
  ASSUME BooksInv, CollectInv, NEW r \in Requests, Refuse(r)
  PROVE  CollectInv'
<1>0. /\ Shape /\ NeverOverpaid /\ OthersSame(r) /\ work'[r] = NoWork /\ pc'[r] = "refused"
      /\ UNCHANGED <<payments, job>>
  BY RefuseEnds, EndsKeeps DEF BooksInv, CollectInv, Refuse, bookVars, Shape
<1>1. PaymentsFor(r)' = payments /\ IsFiniteSet(work'[r].paid)
  BY <1>0, FS_EmptySet DEF PaymentsFor, NoWork
<1>2. SeesEnough(r)'
  BY <1>0, <1>1, Zenon DEF SeesEnough, NeverOverpaid
<1> QED
  BY <1>0, <1>1, <1>2, OpenCollects

LEMMA CollectInvInit == Init => CollectInv
<1> SUFFICES ASSUME Init PROVE CollectInv
  OBVIOUS
<1>1. payments = {} /\ \A r \in Requests : work[r] = NoWork /\ pc[r] = "idle"
  BY DEF Init
<1>2. Finite
  BY <1>1, FS_EmptySet DEF Finite, NoWork
<1>3. ASSUME NEW i \in Invoices PROVE SumPayments({}, i) <= Total[i]
  <2>1. SumPayments({}, i) = SumFunctionOnSet(PaymentAmount, {})
    BY DEF SumPayments
  <2> QED
    BY <2>1, SumEmpty, ReceivableAmountsAssumption
<1>4. NeverOverpaid
  BY <1>1, <1>3 DEF NeverOverpaid
<1>5. \A r \in Requests : PaymentsFor(r) = {}
  BY <1>1 DEF PaymentsFor, NoWork
<1>6. \A r \in Requests : SeesEnough(r)
  BY <1>1, <1>3, <1>5 DEF SeesEnough
<1> QED
  BY <1>2, <1>4, <1>6 DEF CollectInv

LEMMA CollectInvNext == BooksInv /\ CollectInv /\ [Next]_vars => CollectInv'
<1> SUFFICES ASSUME BooksInv, CollectInv, [Next]_vars PROVE CollectInv'
  OBVIOUS
<1>1. ASSUME NEW r \in Requests, Step(r) PROVE CollectInv'
  BY <1>1, StepKinds, RefusalRefuses, RefusalCollects, ReadingCollects, WritingCollects
<1>2. CASE UNCHANGED vars
  BY <1>2 DEF vars, bookVars, lockVars, CollectInv, Finite, NeverOverpaid, SeesEnough,
     PaymentsFor, Item, Invoice
<1> QED
  BY <1>1, <1>2 DEF Next, AllEnded

(* For all invoices, amounts, receipts and requests: however payments,     *)
(* batches and undos interleave, the payments on the books of an invoice   *)
(* never exceed its total (apply_payment sums under the row lock, and      *)
(* books within it).                                                       *)
THEOREM InvoicesNeverOverpaid == Spec => []NeverOverpaid
<1>1. CollectInv => NeverOverpaid
  BY DEF CollectInv
<1> QED
  BY BooksInvInit, BooksInvNext, CollectInvInit, CollectInvNext, <1>1, PTL DEF Spec

-----------------------------------------------------------------------------
(* An invoice is paid exactly when its payments cover it, while no undo    *)
(* overlaps another request.                                               *)

(* An undo that will have met nobody has met nobody.                       *)
LEMMA CalmBefore ==
  ASSUME Shape, SessionInv, NEW r \in Requests, UNCHANGED job,
         Ends(r) \/ Opens(r) \/ GoesOn(r), Calm'
  PROVE  Calm
<1> SUFFICES ASSUME NEW s \in Requests, Kind(s) = "undo" PROVE met[s] = {}
  BY DEF Calm
<1>1. met'[s] = {}
  BY DEF Calm, Kind
<1>2. CASE Opens(r)
  BY <1>1, <1>2 DEF Opens, Begin, SessionInv, ClosedClean
<1>3. CASE ~Opens(r)
  BY <1>1, <1>3 DEF Ends, GoesOn
<1> QED
  BY <1>2, <1>3

(* Nor is anybody open while it is.                                        *)
LEMMA UndoAlone ==
  ASSUME SessionInv, Calm, NEW u \in Active, Kind(u) = "undo", NEW s \in Active
  PROVE  s = u
  BY DEF SessionInv, OpenHaveMet, Calm, Active

(* What a commit makes of a status.                                        *)
After(w, i) == IF w.status[i] = Nothing THEN status[i] ELSE w.status[i]

(* What request s sees while another one commits: of an invoice whose row  *)
(* it holds the same as before, of the rest what is committed.             *)
LEMMA OthersCovered ==
  ASSUME BooksInv, SessionInv, Calm, NEW r \in Requests, NEW w \in Work, NEW a,
         Commit(r, w, a), Balanced(r, w),
         r \in Active \/ (w.paid = {} /\ w.gone = {} /\ \A i \in Invoices : w.status[i] = Nothing),
         w.gone # {} => Kind(r) = "undo",
         \A i \in Invoices : w.status[i] # Nothing => holder[i] \in {NoRequest, r},
         BooksCovered', NEW s \in Requests, s # r, Covered(s)
  PROVE  Covered(s)'
<1>0. /\ Shape /\ KindAt /\ WorkBalances /\ LockCovers /\ ClosedClean /\ UNCHANGED job
      /\ work'[s] = work[s] /\ pc'[s] = pc[s] /\ at'[s] = at[s] /\ seen'[s] = seen[s]
      /\ payments' = (payments \ w.gone) \cup w.paid
      /\ \A i \in Invoices : status'[i] = After(w, i)
  BY CommitEnds, EndsKeeps DEF BooksInv, SessionInv, OthersSame, Commit, After
<1>1. /\ Settling(s)' = Settling(s) /\ Undone(s)' = Undone(s)
      /\ Item(s)' = Item(s) /\ Invoice(s)' = Invoice(s)
  BY <1>0 DEF Settling, Undone, Item, Invoice
<1>2. ASSUME NEW i \in Invoices, holder[i] # s, work[s].gone = {} PROVE Agrees(s, i)'
  <2>1. StatusFor(s, i)' = status'[i]
    BY <1>0, <1>2 DEF StatusFor, ClosedClean
  <2>2. OnInvoice(PaymentsFor(s)', i) = OnInvoice(payments', i)
    BY <1>0, <1>2 DEF OnInvoice, PaymentsFor, LockCovers
  <2>3. SumPayments(PaymentsFor(s)', i) = SumPayments(payments', i)
    BY <2>2, SumsAgree
  <2> QED
    BY <2>1, <2>3 DEF Agrees, BooksCovered
<1>3. ASSUME NEW i \in Invoices, w.status[i] = Nothing, w.gone = {},
             \A p \in w.paid : p.invoice # i
      PROVE  /\ status'[i] = status[i] /\ StatusFor(s, i)' = StatusFor(s, i)
             /\ SumPayments(PaymentsFor(s)', i) = SumPayments(PaymentsFor(s), i)
             /\ Agrees(s, i)' <=> Agrees(s, i)
  <2>1. status'[i] = status[i] /\ StatusFor(s, i)' = StatusFor(s, i)
    BY <1>0, <1>3 DEF After, StatusFor
  <2>2. OnInvoice(PaymentsFor(s)', i) = OnInvoice(PaymentsFor(s), i)
    BY <1>0, <1>3 DEF OnInvoice, PaymentsFor
  <2>3. SumPayments(PaymentsFor(s)', i) = SumPayments(PaymentsFor(s), i)
    BY <2>2, SumsAgree
  <2> QED
    BY <2>1, <2>3 DEF Agrees
<1>4. ASSUME NEW i \in Invoices, holder[i] = s, w.gone = {}
      PROVE  w.status[i] = Nothing /\ \A p \in w.paid : p.invoice # i
  BY <1>4, Names DEF Balanced
<1>5. CASE s \notin Active
  <2>1. pc[s] \in Closed /\ work[s].gone = {} /\ work[s].paid = {}
        /\ \A i \in Invoices : work[s].status[i] = Nothing
    BY <1>0, <1>5 DEF Active, Ended, Closed, ClosedClean
  <2>2. ASSUME NEW i \in Invoices PROVE Agrees(s, i)'
    <3>1. StatusFor(s, i)' = status'[i] /\ PaymentsFor(s)' = payments'
      BY <1>0, <2>1 DEF StatusFor, PaymentsFor
    <3> QED
      BY <3>1 DEF Agrees, BooksCovered
  <2> QED
    BY <1>0, <2>1, <2>2 DEF Covered, Closed
<1>6. CASE s \in Active /\ Kind(s) = "undo"
  <2>1. w.paid = {} /\ w.gone = {} /\ \A i \in Invoices : w.status[i] = Nothing
    BY <1>6, UndoAlone
  <2>2. \A i \in Invoices : Agrees(s, i)' <=> Agrees(s, i)
    BY <1>3, <2>1
  <2>3. pc[s] # "book"
    BY <1>0, <1>6 DEF KindAt
  <2>4. pc[s] \in {"settle", "rewrite"} =>
          /\ Undone(s).invoice \in Invoices
          /\ status'[Undone(s).invoice] = status[Undone(s).invoice]
          /\ SettledStatus(s, Undone(s).invoice)' = SettledStatus(s, Undone(s).invoice)
    <3> SUFFICES ASSUME pc[s] \in {"settle", "rewrite"}
                 PROVE  /\ Undone(s).invoice \in Invoices
                        /\ status'[Undone(s).invoice] = status[Undone(s).invoice]
                        /\ SettledStatus(s, Undone(s).invoice)' = SettledStatus(s, Undone(s).invoice)
      OBVIOUS
    <3>1. Undone(s).invoice \in Invoices
      BY <1>0, SeenRow DEF BooksInv, OnRecognised, RequestSound
    <3>2. /\ status'[Undone(s).invoice] = status[Undone(s).invoice]
          /\ SumPayments(PaymentsFor(s)', Undone(s).invoice) =
               SumPayments(PaymentsFor(s), Undone(s).invoice)
      BY <1>3, <2>1, <3>1
    <3> QED
      BY <1>1, <3>1, <3>2 DEF SettledStatus
  <2> QED
    BY <1>0, <1>1, <2>2, <2>3, <2>4 DEF Covered
<1>7. CASE s \in Active /\ Kind(s) # "undo"
  <2>1. w.gone = {}
    BY <1>7, UndoAlone
  <2>2. work[s].gone = {} /\ ~Settling(s) /\ pc[s] \notin {"settle", "rewrite"}
    BY <1>0, <1>7 DEF WorkBalances, KindAt, Settling
  <2>3. ASSUME NEW i \in Invoices PROVE Agrees(s, i)'
    <3>1. CASE holder[i] = s
      BY <1>3, <1>4, <2>1, <2>2, <3>1 DEF Covered
    <3>2. CASE holder[i] # s
      BY <1>2, <2>2, <3>2
    <3> QED
      BY <3>1, <3>2
  <2>4. ASSUME pc[s] = "book"
        PROVE  /\ StatusFor(s, Invoice(s))' = StatusFor(s, Invoice(s))
               /\ SumPayments(PaymentsFor(s)', Invoice(s)) = SumPayments(PaymentsFor(s), Invoice(s))
    <3>1. Invoice(s) \in Invoices /\ holder[Invoice(s)] = s
      BY <1>0, <2>4, CurrentItem DEF KindAt, LockCovers
    <3>2. /\ w.status[Invoice(s)] = Nothing /\ \A p \in w.paid : p.invoice # Invoice(s)
      BY <1>4, <2>1, <3>1
    <3>3. SumPayments(PaymentsFor(s)', Invoice(s)) = SumPayments(PaymentsFor(s), Invoice(s))
      BY <1>3, <2>1, <3>1, <3>2
    <3>4. StatusFor(s, Invoice(s))' = StatusFor(s, Invoice(s))
      BY <1>0, <1>1, <3>1, <3>2 DEF StatusFor, After
    <3> QED
      BY <3>3, <3>4
  <2> QED
    BY <1>0, <1>1, <2>2, <2>3, <2>4 DEF Covered
<1> QED
  BY <1>5, <1>6, <1>7

AllCovered == BooksCovered /\ \A r \in Requests : Covered(r)

(* A closed session sees the books.                                        *)
LEMMA EndedCovered ==
  ASSUME Shape, NEW r \in Requests, Ends(r), BooksCovered'
  PROVE  Covered(r)'
<1>1. work'[r] = NoWork /\ pc'[r] \in Ended
  BY EndsKeeps DEF Ends
<1>2. PaymentsFor(r)' = payments' /\ \A i \in Invoices : StatusFor(r, i)' = status'[i]
  BY <1>1 DEF PaymentsFor, StatusFor, NoWork
<1> QED
  BY <1>1, <1>2 DEF Covered, Agrees, BooksCovered, Ended

(* A commit whose statuses agree with its payments.                        *)
LEMMA CommitCovers ==
  ASSUME BooksInv, SessionInv, Calm, AllCovered, NEW r \in Requests, NEW w \in Work, NEW a,
         Commit(r, w, a), Balanced(r, w),
         r \in Active \/ (w.paid = {} /\ w.gone = {} /\ \A i \in Invoices : w.status[i] = Nothing),
         w.gone # {} => Kind(r) = "undo",
         \A i \in Invoices : w.status[i] # Nothing => holder[i] \in {NoRequest, r},
         \A i \in Invoices : After(w, i) \in Recognised =>
           (After(w, i) = "paid" <=> SumPayments((payments \ w.gone) \cup w.paid, i) >= Total[i])
  PROVE  AllCovered'
<1>1. BooksCovered'
  BY DEF Commit, BooksCovered, After
<1>2. Covered(r)'
  BY <1>1, CommitEnds, EndedCovered DEF BooksInv
<1>3. ASSUME NEW s \in Requests, s # r PROVE Covered(s)'
  BY <1>1, <1>3, OthersCovered DEF AllCovered
<1> QED
  BY <1>1, <1>2, <1>3 DEF AllCovered

(* A step that commits nothing.                                            *)
LEMMA OpenCovers ==
  ASSUME AllCovered, NEW r \in Requests, UNCHANGED <<status, payments, job>>, OthersSame(r),
         Covered(r)'
  PROVE  AllCovered'
<1>1. BooksCovered'
  BY DEF AllCovered, BooksCovered
<1>2. ASSUME NEW s \in Requests, s # r PROVE Covered(s)'
  <2>1. work'[s] = work[s] /\ seen'[s] = seen[s] /\ pc'[s] = pc[s] /\ at'[s] = at[s]
    BY <1>2 DEF OthersSame
  <2>2. PaymentsFor(s)' = PaymentsFor(s) /\ \A i : StatusFor(s, i)' = StatusFor(s, i)
    BY <2>1 DEF PaymentsFor, StatusFor
  <2>3. /\ Settling(s)' = Settling(s) /\ Undone(s)' = Undone(s)
        /\ Item(s)' = Item(s) /\ Invoice(s)' = Invoice(s)
    BY <2>1 DEF Settling, Undone, Item, Invoice
  <2>4. /\ \A i \in Invoices : Agrees(s, i)' <=> Agrees(s, i)
        /\ \A i : SettledStatus(s, i)' = SettledStatus(s, i)
    BY <2>2 DEF Agrees, SettledStatus
  <2>5. Covered(s)
    BY DEF AllCovered
  <2> QED
    BY <2>1, <2>2, <2>3, <2>4, <2>5 DEF Covered
<1> QED
  BY <1>1, <1>2 DEF AllCovered

(* A step that leaves its writes and the books alone, away from booking    *)
(* and from settling.                                                      *)
LEMMA QuietCovers ==
  ASSUME AllCovered, NEW r \in Requests, UNCHANGED <<status, payments, job>>, OthersSame(r),
         work'[r].status = work[r].status, work'[r].paid = work[r].paid,
         work'[r].gone = work[r].gone, ~Settling(r),
         pc'[r] \notin {"book", "reread", "settle", "rewrite"}
  PROVE  AllCovered'
<1>1. PaymentsFor(r)' = PaymentsFor(r) /\ \A i : StatusFor(r, i)' = StatusFor(r, i)
  BY DEF PaymentsFor, StatusFor
<1>2. \A i \in Invoices : Agrees(r, i)'
  BY <1>1 DEF AllCovered, Covered, Agrees
<1>3. Covered(r)'
  BY <1>2 DEF Covered
<1> QED
  BY <1>3, OpenCovers

LEMMA ReadingCovers ==
  ASSUME BooksInv, SessionInv, CollectInv, AllCovered, NEW r \in Requests, Reading(r)
  PROVE  AllCovered'
<1>0. /\ Shape /\ KindAt /\ ClosedClean /\ Finite /\ Covered(r)
      /\ UNCHANGED <<status, payments, work, job>> /\ OthersSame(r)
  BY ReadingKeeps DEF BooksInv, SessionInv, CollectInv, AllCovered, OthersSame
<1>1. /\ PaymentsFor(r)' = PaymentsFor(r) /\ \A i : StatusFor(r, i)' = StatusFor(r, i)
      /\ \A i \in Invoices : Agrees(r, i)' <=> Agrees(r, i)
      /\ \A i : SettledStatus(r, i)' = SettledStatus(r, i)
  BY <1>0 DEF PaymentsFor, StatusFor, Agrees, SettledStatus
<1>2. CASE Lock(r)
  <2>1. /\ pc[r] = "lock" /\ pc'[r] = "book" /\ Item(r)' = Item(r) /\ Invoice(r)' = Invoice(r)
        /\ StatusFor(r, Invoice(r)) = "approved"
    BY <1>0, <1>2 DEF Lock, Goto, Payable, Item, Invoice, Shape
  <2>2. PICK b \in BOOLEAN :
          /\ b <=> Total[Invoice(r)] - SumPayments(PaymentsFor(r), Invoice(r)) = Amount[Item(r).slip]
          /\ seen' = [seen EXCEPT ![r].settles = b]
    BY <1>2, Zenon DEF Lock
  <2>3. seen'[r].settles = b
    BY <1>0, <2>2 DEF Shape, Seen
  <2>4. seen'[r].settles <=>
          Total[Invoice(r)] - SumPayments(PaymentsFor(r), Invoice(r)) = Amount[Item(r).slip]
    BY <2>2, <2>3, Zenon
  <2>5. \A i \in Invoices : Agrees(r, i)'
    BY <1>0, <1>1, <2>1 DEF Covered, Settling
  <2>6. Covered(r)'
    BY <1>1, <2>1, <2>4, <2>5 DEF Covered
  <2> QED
    BY <1>0, <2>6, OpenCovers
<1>3. CASE ReadStatus(r)
  <2>1. /\ pc[r] = "reread" /\ pc'[r] = "settle" /\ Undone(r)' = Undone(r)
        /\ seen'[r].status = status[Undone(r).invoice]
    BY <1>0, <1>3 DEF ReadStatus, Goto, Shape, Seen, Undone
  <2>2. Covered(r)'
    BY <1>0, <1>1, <2>1 DEF Covered, Settling
  <2> QED
    BY <1>0, <2>2, OpenCovers
<1>4. CASE Settle(r)
  <2> DEFINE j == Undone(r).invoice
  <2>0. pc[r] = "settle" /\ seen[r].status = status[j] /\ j \in Invoices
    BY <1>0, <1>4, SeenRow DEF Settle, Covered, BooksInv, OnRecognised, RequestSound
  <2>1. CASE SettledStatus(r, j) = seen[r].status
    <3>1. pc'[r] = "load"
      BY <1>0, <1>4, <2>1 DEF Settle, Goto, Shape
    <3>2. StatusFor(r, j) = status[j]
      BY <1>0, <2>0 DEF StatusFor, ClosedClean
    <3>3. Agrees(r, j)
      BY <2>0, <2>1, <3>2 DEF Agrees, SettledStatus
    <3>4. \A i \in Invoices : Agrees(r, i)'
      BY <1>0, <1>1, <3>3 DEF Covered
    <3>5. Covered(r)'
      BY <3>1, <3>4 DEF Covered
    <3> QED
      BY <1>0, <3>5, OpenCovers
  <2>2. CASE SettledStatus(r, j) # seen[r].status
    <3>1. /\ pc'[r] = "rewrite" /\ Undone(r)' = Undone(r)
          /\ seen'[r].status = SettledStatus(r, j)
      BY <1>0, <1>4, <2>2 DEF Settle, Goto, Shape, Seen, Undone
    <3>2. Covered(r)'
      BY <1>0, <1>1, <2>0, <3>1 DEF Covered, Settling
    <3> QED
      BY <1>0, <3>2, OpenCovers
  <2> QED
    BY <2>1, <2>2
<1>5. CASE ~(Lock(r) \/ ReadStatus(r) \/ Settle(r))
  <2>1. ~Settling(r) /\ pc'[r] \notin {"book", "reread", "settle", "rewrite"}
    <3> USE DEF Shape, Settling
    <3>1. CASE ReadInvoice(r) \/ BeginBatch(r) \/ GetApplied(r) \/ GetIntent(r) \/ ProbeMisses(r)
      BY <1>0, <3>1 DEF ReadInvoice, BeginBatch, GetApplied, GetIntent, ProbeMisses, Begin, Goto
    <3>2. CASE Accrue(r) \/ Prevalidate(r) \/ ProbeHits(r) \/ Load(r) \/ Find(r)
      BY <1>0, <3>2 DEF Accrue, Prevalidate, ProbeHits, Load, Find, Goto
    <3> QED
      BY <1>5, <3>1, <3>2 DEF Reading
  <2> QED
    BY <1>0, <2>1, QuietCovers
<1> QED
  BY <1>2, <1>3, <1>4, <1>5

LEMMA RefusalCovers ==
  ASSUME BooksInv, AllCovered, NEW r \in Requests, Refuse(r)
  PROVE  AllCovered'
<1>1. /\ Shape /\ Ends(r) /\ OthersSame(r) /\ UNCHANGED <<status, payments, job>>
  BY RefuseEnds, EndsKeeps DEF BooksInv, Refuse, bookVars
<1>2. BooksCovered'
  BY <1>1 DEF AllCovered, BooksCovered
<1> QED
  BY <1>1, <1>2, EndedCovered, OpenCovers

(* An approval: the invoice has no payment yet.                            *)
LEMMA FlipCovers ==
  ASSUME BooksInv, SessionInv, CollectInv, Calm, AllCovered, \A i \in Invoices : Total[i] > 0,
         NEW r \in Requests, Flip(r)
  PROVE  AllCovered'
<1> DEFINE j == Invoice(r)
           w == [NoWork EXCEPT !.status[j] = Target[Kind(r)]]
           a == IF Kind(r) = "approve" THEN accruals \cup {j} ELSE accruals
<1>1. /\ Shape /\ BooksSound /\ BooksCovered /\ pc[r] = "flip" /\ holder[j] \in {NoRequest, r}
      /\ Kind(r) \in {"issue", "approve", "void"} /\ j \in Invoices
      /\ status[j] \in Source[Kind(r)] /\ Commit(r, w, a)
  BY CurrentItem DEF Flip, FlipGuard, MayLock, BooksInv, OnRecognised, KindAt, AllCovered
<1>2. Target[Kind(r)] \in InvoiceStatus /\ Target[Kind(r)] # "paid"
  BY <1>1 DEF Target, InvoiceStatus
<1>3. /\ w \in Work /\ w.paid = {} /\ w.gone = {} /\ w.posted = {} /\ w.unposted = {}
      /\ \A n \in Intents : w.intent[n] = Nothing
      /\ \A i \in Invoices : w.status[i] = IF i = j THEN Target[Kind(r)] ELSE Nothing
  <2>1. NoWork \in Work
    BY DEF NoWork, Work
  <2> QED
    BY <1>1, <1>2, <2>1 DEF NoWork, Work
<1>4. Balanced(r, w)
  BY <1>3 DEF Balanced, StampSound
<1>5. r \in Active
  BY <1>1 DEF Active, Ended
<1>6. (payments \ w.gone) \cup w.paid = payments
  BY <1>3
<1>7. SumPayments(payments, j) = 0
  <2>1. status[j] \notin Recognised
    BY <1>1 DEF Source, Recognised
  <2>2. OnInvoice(payments, j) = OnInvoice({}, j)
    BY <1>1, <2>1 DEF OnInvoice, BooksSound
  <2>3. SumPayments({}, j) = SumFunctionOnSet(PaymentAmount, {})
    BY DEF SumPayments
  <2> QED
    BY <2>2, <2>3, SumsAgree, SumEmpty
<1> HIDE DEF w, a, j
<1>8. ASSUME NEW i \in Invoices, After(w, i) \in Recognised
      PROVE  After(w, i) = "paid" <=> SumPayments(payments, i) >= Total[i]
  <2>1. CASE i = j
    <3>1. After(w, i) # "paid"
      BY <1>2, <1>3, <2>1, ReceivableMarksAssumption DEF After
    <3>2. ~(SumPayments(payments, i) >= Total[i])
      BY <1>7, <2>1, ReceivableAmountsAssumption
    <3> QED
      BY <3>1, <3>2
  <2>2. CASE i # j
    BY <1>1, <1>3, <1>8, <2>2 DEF After, BooksCovered
  <2> QED
    BY <2>1, <2>2
<1>9. \A i \in Invoices : After(w, i) \in Recognised =>
        (After(w, i) = "paid" <=> SumPayments((payments \ w.gone) \cup w.paid, i) >= Total[i])
  BY <1>6, <1>8, Zenon
<1>10. /\ w.gone # {} => Kind(r) = "undo"
       /\ \A i \in Invoices : w.status[i] # Nothing => holder[i] \in {NoRequest, r}
  BY <1>1, <1>3
<1> QED
  BY <1>1, <1>3, <1>4, <1>5, <1>9, <1>10, CommitCovers

(* Writes that the request has come to agree on, committed as they are.    *)
LEMMA WorkCovers ==
  ASSUME BooksInv, SessionInv, Calm, AllCovered, NEW r \in Requests, NEW w \in Work,
         w.paid = work[r].paid, w.gone = work[r].gone, w.status = work[r].status,
         Balanced(r, w), Commit(r, w, accruals), ~Settling(r)
  PROVE  AllCovered'
<1>0. /\ Shape /\ WorkBalances /\ ClosedClean /\ RequestSound(r) /\ Covered(r)
  BY DEF BooksInv, SessionInv, OnRecognised, AllCovered
<1>1. r \in Active \/ (w.paid = {} /\ w.gone = {} /\ \A i \in Invoices : w.status[i] = Nothing)
  BY <1>0 DEF Active, Ended, Closed, ClosedClean
<1>2. w.gone # {} => Kind(r) = "undo"
  BY <1>0 DEF WorkBalances
<1>3. \A i \in Invoices : w.status[i] # Nothing => holder[i] \in {NoRequest, r}
  BY <1>0 DEF ClosedClean
<1>4. (payments \ w.gone) \cup w.paid = PaymentsFor(r)
  BY DEF PaymentsFor
<1>5. ASSUME NEW i \in Invoices, After(w, i) \in Recognised
      PROVE  After(w, i) = "paid" <=> SumPayments(PaymentsFor(r), i) >= Total[i]
  <2>1. After(w, i) = StatusFor(r, i) /\ status[i] \in Recognised
    BY <1>0, <1>5 DEF After, StatusFor, RequestSound
  <2>2. Agrees(r, i)
    BY <1>0 DEF Covered
  <2> QED
    BY <2>1, <2>2 DEF Agrees
<1>6. \A i \in Invoices : After(w, i) \in Recognised =>
        (After(w, i) = "paid" <=> SumPayments((payments \ w.gone) \cup w.paid, i) >= Total[i])
  BY <1>4, <1>5, Zenon
<1> QED
  BY <1>1, <1>2, <1>3, <1>6, CommitCovers

(* The booked payment settles the invoice exactly when it is the rest of   *)
(* what the request saw to be due, under the row lock it still holds.      *)
LEMMA BookedAgrees ==
  ASSUME BooksInv, CollectInv, AllCovered, NEW r \in Requests, pc[r] = "book", ReferenceFree(r),
         NEW p, p = [by |-> r, invoice |-> Invoice(r), slip |-> Item(r).slip],
         NEW i \in Invoices, status[i] \in Recognised
  PROVE  After(Booked(r, p), i) = "paid" <=>
           SumPayments(PaymentsFor(r) \cup {p}, i) >= Total[i]
<1>0. /\ Shape /\ KindAt /\ Finite /\ Covered(r) /\ work[r] \in Work
      /\ Invoice(r) \in Invoices /\ Amount[Item(r).slip] \in Nat
  BY CurrentItem, ReceivableAmountsAssumption
     DEF BooksInv, CollectInv, AllCovered, Shape, KindAt
<1>1. /\ SumPayments(PaymentsFor(r) \cup {p}, i) =
           SumPayments(PaymentsFor(r), i) + IF i = Invoice(r) THEN Amount[Item(r).slip] ELSE 0
      /\ SumPayments(PaymentsFor(r) \cup {p}, i) <= Total[i]
  BY RoomForBooked
<1>2. SumPayments(PaymentsFor(r), i) \in Nat /\ Total[i] \in Nat
  BY <1>0, SeenPayments, SumsAreNat, ReceivableAmountsAssumption
<1>3. Booked(r, p).status[i] =
        IF i = Invoice(r) /\ seen[r].settles /\ StatusFor(r, i) = "approved"
        THEN "paid" ELSE work[r].status[i]
  BY <1>0 DEF Booked, Work, Invoice
<1>4. "paid" # Nothing
  BY ReceivableMarksAssumption DEF InvoiceStatus
<1>5. CASE i = Invoice(r)
  <2>1. /\ StatusFor(r, i) = "approved"
        /\ seen[r].settles <=> Total[i] - SumPayments(PaymentsFor(r), i) = Amount[Item(r).slip]
    BY <1>0, <1>5 DEF Covered
  <2>2. After(Booked(r, p), i) = "paid" <=> seen[r].settles
    BY <1>3, <1>4, <1>5, <2>1 DEF After, StatusFor
  <2>3. SumPayments(PaymentsFor(r) \cup {p}, i) >= Total[i] <=>
          Total[i] - SumPayments(PaymentsFor(r), i) = Amount[Item(r).slip]
    BY <1>0, <1>1, <1>2, <1>5
  <2> QED
    BY <2>1, <2>2, <2>3
<1>6. CASE i # Invoice(r)
  <2>1. After(Booked(r, p), i) = StatusFor(r, i)
    BY <1>3, <1>6 DEF After, StatusFor
  <2>2. SumPayments(PaymentsFor(r) \cup {p}, i) = SumPayments(PaymentsFor(r), i)
    BY <1>1, <1>2, <1>6
  <2>3. Agrees(r, i)
    BY <1>0 DEF Covered, Settling
  <2> QED
    BY <2>1, <2>2, <2>3 DEF Agrees
<1> QED
  BY <1>5, <1>6

LEMMA BookCovers ==
  ASSUME BooksInv, SessionInv, CollectInv, Calm, AllCovered, NEW r \in Requests, Book(r)
  PROVE  AllCovered'
<1> DEFINE p == [by |-> r, invoice |-> Invoice(r), slip |-> Item(r).slip]
           b == Booked(r, p)
<1>0. /\ pc[r] = "book" /\ ReferenceFree(r) /\ Shape /\ WorkBalances /\ ClosedClean
      /\ RequestSound(r) /\ OthersSame(r) /\ UNCHANGED job
  BY StepKeeps DEF Book, BooksInv, SessionInv, OnRecognised, Step, PaymentStep
<1>1. (payments \ work[r].gone) \cup (work[r].paid \cup {p}) = PaymentsFor(r) \cup {p}
  BY <1>0, RoomForBooked
<1>2. /\ b \in Work /\ Balanced(r, b) /\ b.gone = work[r].gone
      /\ \A i \in Invoices : b.status[i] # Nothing => status[i] \in Recognised
  BY <1>0, BookedBalanced
<1>3. b.paid = work[r].paid \cup {p}
  BY <1>0 DEF Booked, Shape, Work
<1>4. \A i \in Invoices : status[i] \in Recognised =>
        (After(b, i) = "paid" <=> SumPayments(PaymentsFor(r) \cup {p}, i) >= Total[i])
  BY <1>0, BookedAgrees
<1>5. \A i \in Invoices : b.status[i] # Nothing => holder[i] \in {NoRequest, r}
  <2>1. \A i \in Invoices : b.status[i] = work[r].status[i] \/ i = Invoice(r)
    BY <1>0 DEF Booked, Shape, Work
  <2>2. holder[Invoice(r)] = r
    BY <1>0 DEF BooksInv, LockCovers
  <2> QED
    BY <1>0, <2>1, <2>2 DEF ClosedClean
<1> HIDE DEF b, p
<1>6. (payments \ b.gone) \cup b.paid = PaymentsFor(r) \cup {p}
  BY <1>1, <1>2, <1>3, Zenon
<1>7. \A i \in Invoices : After(b, i) \in Recognised => status[i] \in Recognised
  BY <1>2 DEF After
<1>8. CASE Kind(r) = "pay"
  <2>1. Commit(r, b, accruals)
    BY <1>8 DEF Book, b, p
  <2>2. \A i \in Invoices : After(b, i) \in Recognised =>
          (After(b, i) = "paid" <=> SumPayments((payments \ b.gone) \cup b.paid, i) >= Total[i])
    BY <1>4, <1>6, <1>7, Zenon
  <2>3. r \in Active /\ (b.gone # {} => Kind(r) = "undo")
    BY <1>0, <1>2 DEF Active, Ended, WorkBalances
  <2> QED
    BY <1>2, <1>5, <2>1, <2>2, <2>3, CommitCovers
<1>9. CASE Kind(r) # "pay"
  <2>1. /\ work' = [work EXCEPT ![r] = b] /\ pc' = [pc EXCEPT ![r] = "load"]
        /\ UNCHANGED <<status, payments>>
    BY <1>9 DEF Book, Goto, bookVars, b, p
  <2>2. work'[r] = b /\ pc'[r] = "load"
    BY <1>0, <2>1 DEF Shape
  <2>3. PaymentsFor(r)' = PaymentsFor(r) \cup {p}
    BY <1>6, <2>1, <2>2, Zenon DEF PaymentsFor
  <2>4. \A i \in Invoices : StatusFor(r, i)' = After(b, i)
    BY <2>1, <2>2 DEF StatusFor, After
  <2>5. \A i \in Invoices : Agrees(r, i)'
    BY <1>4, <2>1, <2>3, <2>4 DEF Agrees
  <2>6. Covered(r)'
    BY <2>2, <2>5 DEF Covered
  <2> QED
    BY <1>0, <2>1, <2>6, OpenCovers
<1> QED
  BY <1>8, <1>9

LEMMA StampCovers ==
  ASSUME BooksInv, SessionInv, Calm, AllCovered, NEW r \in Requests, StampIntent(r)
  PROVE  AllCovered'
<1> DEFINE w == Stamped(r)
<1>0. Shape /\ pc[r] = "stamp" /\ OthersSame(r) /\ UNCHANGED job
  BY StepKeeps DEF StampIntent, BooksInv, Step, InboxStep
<1>1. /\ w \in Work /\ Balanced(r, w) /\ w.paid = work[r].paid /\ w.gone = work[r].gone
      /\ w.status = work[r].status
      /\ \/ Commit(r, w, accruals)
         \/ /\ work' = [work EXCEPT ![r] = w] /\ pc' = [pc EXCEPT ![r] = "get"]
            /\ UNCHANGED <<status, payments>>
  BY StampBalanced
<1>2. ~Settling(r)
  BY <1>0 DEF Settling
<1> HIDE DEF w
<1>3. CASE Commit(r, w, accruals)
  BY <1>1, <1>2, <1>3, WorkCovers
<1>4. CASE ~Commit(r, w, accruals)
  <2>1. work'[r] = w /\ pc'[r] = "get" /\ UNCHANGED <<status, payments>>
    BY <1>0, <1>1, <1>4 DEF Shape
  <2> QED
    BY <1>0, <1>1, <1>2, <2>1, QuietCovers
<1> QED
  BY <1>3, <1>4

(* The deletion touches no other invoice than that of its payment.         *)
LEMMA DeleteCovers ==
  ASSUME BooksInv, SessionInv, AllCovered, NEW r \in Requests, DeletePayment(r)
  PROVE  AllCovered'
<1>0. /\ Shape /\ WorkBalances /\ ClosedClean /\ pc[r] = "delete" /\ Kind(r) = "undo"
      /\ OthersSame(r) /\ UNCHANGED <<status, payments, job>> /\ BooksCovered
  BY StepKeeps DEF DeletePayment, bookVars, BooksInv, SessionInv, KindAt, Step, UndoStep, AllCovered
<1>1. /\ work' = [work EXCEPT ![r] = [@ EXCEPT !.gone = {Undone(r)}, !.unposted = {Undone(r)}]]
      /\ pc' = [pc EXCEPT ![r] = "reread"] /\ UNCHANGED seen
  BY DEF DeletePayment, Goto
<1>2. /\ work'[r].status = work[r].status /\ work'[r].paid = {} /\ work'[r].gone = {Undone(r)}
      /\ pc'[r] = "reread" /\ Undone(r)' = Undone(r)
  BY <1>0, <1>1 DEF Shape, Work, WorkBalances, Undone
<1>3. ASSUME NEW i \in Invoices, i # Undone(r).invoice PROVE Agrees(r, i)'
  <2>1. StatusFor(r, i)' = status[i]
    BY <1>0, <1>2 DEF StatusFor, ClosedClean
  <2>2. OnInvoice(PaymentsFor(r)', i) = OnInvoice(payments, i)
    BY <1>0, <1>2, <1>3 DEF OnInvoice, PaymentsFor
  <2>3. SumPayments(PaymentsFor(r)', i) = SumPayments(payments, i)
    BY <2>2, SumsAgree
  <2> QED
    BY <1>0, <2>1, <2>3 DEF Agrees, BooksCovered
<1>4. Covered(r)'
  BY <1>2, <1>3 DEF Covered, Settling
<1> QED
  BY <1>0, <1>4, OpenCovers

LEMMA WriteStatusCovers ==
  ASSUME BooksInv, SessionInv, AllCovered, NEW r \in Requests, WriteStatus(r)
  PROVE  AllCovered'
<1>0. /\ Shape /\ pc[r] = "rewrite" /\ Undone(r).invoice \in Invoices
      /\ Covered(r) /\ seen[r].status \in Recognised
      /\ OthersSame(r) /\ UNCHANGED <<status, payments, job>> /\ seen[r].status # Nothing
  BY StepKeeps, SeenRow, ReceivableMarksAssumption
     DEF WriteStatus, bookVars, BooksInv, OnRecognised, RequestSound, Step, UndoStep,
         AllCovered, Recognised, InvoiceStatus
<1> PICK j \in Invoices : j = Undone(r).invoice
  BY <1>0
<1>1. /\ work' = [work EXCEPT ![r].status[j] = seen[r].status]
      /\ pc' = [pc EXCEPT ![r] = "load"]
  BY DEF WriteStatus, Goto
<1>2. /\ work'[r].paid = work[r].paid /\ work'[r].gone = work[r].gone /\ pc'[r] = "load"
      /\ \A i \in Invoices : work'[r].status[i] = IF i = j THEN seen[r].status ELSE work[r].status[i]
  BY <1>0, <1>1 DEF Shape, Work
<1>3. seen[r].status = SettledStatus(r, j)
  BY <1>0 DEF Covered
<1>4. PaymentsFor(r)' = PaymentsFor(r)
  BY <1>0, <1>2 DEF PaymentsFor
<1>5. ASSUME NEW i \in Invoices, i # j PROVE Agrees(r, i)'
  <2>1. StatusFor(r, i)' = StatusFor(r, i) /\ Agrees(r, i)
    BY <1>0, <1>2, <1>5 DEF StatusFor, Covered
  <2> QED
    BY <1>0, <1>4, <2>1 DEF Agrees
<1>6. Agrees(r, j)'
  <2>1. StatusFor(r, j)' = seen[r].status
    BY <1>0, <1>2 DEF StatusFor
  <2> QED
    BY <1>3, <1>4, <2>1 DEF Agrees, SettledStatus
<1>7. Covered(r)'
  BY <1>2, <1>5, <1>6 DEF Covered
<1> QED
  BY <1>0, <1>7, OpenCovers

LEMMA CoverInvInit ==
  ASSUME \A i \in Invoices : Total[i] > 0, Init
  PROVE  CoverInv
<1>1. payments = {} /\ \A r \in Requests : work[r] = NoWork /\ pc[r] = "idle"
  BY DEF Init
<1>2. \A i \in Invoices : status[i] # "paid"
  BY ReceivableStatusesAssumption DEF Init
<1>3. \A i \in Invoices : ~(SumPayments({}, i) >= Total[i])
  <2>1. \A i \in Invoices : SumPayments({}, i) = SumFunctionOnSet(PaymentAmount, {})
    BY DEF SumPayments
  <2> QED
    BY <2>1, SumEmpty, ReceivableAmountsAssumption
<1>4. BooksCovered
  BY <1>1, <1>2, <1>3 DEF BooksCovered
<1>5. \A r \in Requests : PaymentsFor(r) = {} /\ \A i \in Invoices : StatusFor(r, i) = status[i]
  BY <1>1 DEF PaymentsFor, StatusFor, NoWork
<1>6. \A r \in Requests : Covered(r)
  BY <1>1, <1>2, <1>3, <1>5 DEF Covered, Agrees
<1> QED
  BY <1>4, <1>6 DEF CoverInv

LEMMA CoverInvNext ==
  ASSUME \A i \in Invoices : Total[i] > 0,
         BooksInv, SessionInv, CollectInv, CoverInv, [Next]_vars
  PROVE  CoverInv'
<1>1. ASSUME NEW r \in Requests, Step(r), Calm' PROVE AllCovered'
  <2>1. Shape /\ KindAt /\ UNCHANGED job /\ (Ends(r) \/ Opens(r) \/ GoesOn(r))
    BY <1>1, StepKeeps, StepMoves DEF BooksInv
  <2>2. Calm
    BY <1>1, <2>1, CalmBefore
  <2>3. AllCovered
    BY <2>2 DEF CoverInv, AllCovered
  <2>4. CASE Refusal(r)
    BY <2>3, <2>4, RefusalRefuses, RefusalCovers
  <2>5. CASE Reading(r)
    BY <2>3, <2>5, ReadingCovers
  <2>6. CASE Writing(r)
    <3>1. CASE Replayed(r)
      <4>1. work[r] \in Work /\ Balanced(r, work[r]) /\ Commit(r, work[r], accruals) /\ ~Settling(r)
        BY <2>1, <3>1, WorkBalanced DEF Replayed, Shape, Settling
      <4> QED
        BY <2>2, <2>3, <4>1, WorkCovers
    <3>2. CASE Flip(r)
      BY <2>2, <2>3, <3>2, FlipCovers
    <3>3. CASE Book(r) \/ StampIntent(r)
      BY <2>2, <2>3, <3>3, BookCovers, StampCovers
    <3>4. CASE DeletePayment(r) \/ WriteStatus(r)
      BY <2>3, <3>4, DeleteCovers, WriteStatusCovers
    <3> QED
      BY <2>6, <3>1, <3>2, <3>3, <3>4 DEF Writing
  <2> QED
    BY <1>1, <2>4, <2>5, <2>6, StepKinds
<1>2. ASSUME UNCHANGED vars PROVE CoverInv'
  <2>1. /\ UNCHANGED <<status, payments, work, seen, pc, at, job, met>>
    BY <1>2 DEF vars, bookVars
  <2>2. Calm' <=> Calm
    BY <2>1 DEF Calm, Kind
  <2>3. BooksCovered' <=> BooksCovered
    BY <2>1 DEF BooksCovered
  <2>4. ASSUME NEW r \in Requests PROVE Covered(r)' <=> Covered(r)
    <3>1. /\ PaymentsFor(r)' = PaymentsFor(r) /\ \A i : StatusFor(r, i)' = StatusFor(r, i)
          /\ Settling(r)' = Settling(r) /\ Undone(r)' = Undone(r)
          /\ Item(r)' = Item(r) /\ Invoice(r)' = Invoice(r)
      BY <2>1 DEF PaymentsFor, StatusFor, Settling, Undone, Item, Invoice
    <3> QED
      BY <2>1, <3>1 DEF Covered, Agrees, SettledStatus
  <2> QED
    BY <2>2, <2>3, <2>4 DEF CoverInv
<1> QED
  BY <1>1, <1>2 DEF Next, AllEnded, CoverInv, AllCovered

(* For all invoices with something to pay: while no undo overlaps another  *)
(* request, an approved invoice is marked paid exactly when its payments   *)
(* cover it, through every interleaving of payments, batches, approvals    *)
(* and single undos (apply_payment, settle_invoice_payment_status). An     *)
(* invoice of nothing is approved and covered at once, and stays approved  *)
(* in the code: hence the hypothesis.                                      *)
THEOREM PaidExactlyAsCovered ==
  ASSUME \A i \in Invoices : Total[i] > 0
  PROVE  Spec => []PaidAsCovered
<1>1. Init => CoverInv
  BY CoverInvInit
<1>2. BooksInv /\ SessionInv /\ CollectInv /\ CoverInv /\ [Next]_vars => CoverInv'
  BY CoverInvNext
<1>3. CoverInv => PaidAsCovered
  BY DEF CoverInv, Calm, BooksCovered, PaidAsCovered, Recognised
<1> QED
  BY BooksInvInit, BooksInvNext, SessionInvInit, SessionInvNext, CollectInvInit, CollectInvNext,
     <1>1, <1>2, <1>3, PTL DEF Spec

-----------------------------------------------------------------------------
(* Receipts: every payment comes from an item of a request, and every row  *)
(* of the inbox, committed, written or read, names a payment of its slip.  *)

FromItem(p) == \E k \in DOMAIN job[p.by].items : job[p.by].items[k].slip = p.slip

(* Some request pays for receipt n what the receipt says.                  *)
Accepts(n) ==
  \E r \in Requests : \E k \in DOMAIN job[r].items :
    job[r].items[k].intent = n /\ job[r].items[k].slip = SlipOf[n]

Owns(n, row) ==
  row # Nothing /\ row.payment # Nothing => row.payment.slip = SlipOf[n] /\ Accepts(n)

(* The request goes by the row of the receipt it is at.                    *)
GoesByRow(r) ==
  \/ pc[r] \in {"stamp", "find", "delete", "reread", "settle", "rewrite"}
  \/ pc[r] = "load" /\ Kind(r) # "dismiss"

OwnWrites(r) ==
  /\ \A p \in work[r].paid : p.by = r /\ FromItem(p)
  /\ \A p \in work[r].gone : \E n \in Intents :
       r \in Concerned(n) /\ p.slip = SlipOf[n] /\ Accepts(n)
  /\ \A n \in Intents : work[r].intent[n] # Nothing =>
       r \in Concerned(n) /\ pc[r] \notin Closed /\ Owns(n, work[r].intent[n])
  /\ GoesByRow(r) => Owns(Intent(r), seen[r].row)

BooksOwned ==
  (\A p \in payments : FromItem(p)) /\ (\A n \in Intents : Owns(n, intent[n]))

Origins == BooksOwned /\ \A r \in Requests : OwnWrites(r)

(* The item a request is at is one of its items.                           *)
LEMMA AtOwnItem ==
  ASSUME Shape, NEW r \in Requests
  PROVE  /\ \A p : p.by = r /\ p.slip = Item(r).slip => FromItem(p)
         /\ Kind(r) \in {"accept", "bulk", "undo", "dismiss"} =>
              Intent(r) \in Intents /\ r \in Concerned(Intent(r))
         /\ Kind(r) \in {"accept", "bulk"} =>
              Item(r).slip = SlipOf[Intent(r)] /\ Accepts(Intent(r))
<1>1. WellFormed(job[r]) /\ at[r] \in DOMAIN job[r].items
  BY CurrentItem DEF Shape
<1>2. \A p : p.by = r /\ p.slip = Item(r).slip => FromItem(p)
  BY <1>1 DEF FromItem, Item
<1>3. r \in Concerned(Intent(r))
  BY <1>1 DEF Concerned, Intent, Item
<1>4. Kind(r) \in {"accept", "bulk"} => Item(r).slip = SlipOf[Intent(r)]
  BY <1>1 DEF WellFormed, Kind, Intent, Item
<1>5. Kind(r) \in {"accept", "bulk"} => Accepts(Intent(r))
  BY <1>1, <1>4 DEF Accepts, Intent, Item
<1> QED
  BY <1>2, <1>3, <1>4, <1>5, CurrentItem

(* Where a payment or a row comes from depends on the jobs alone.          *)
LEMMA JobsTell ==
  ASSUME UNCHANGED job
  PROVE  /\ \A p : FromItem(p)' = FromItem(p)
         /\ \A n : Concerned(n)' = Concerned(n) /\ Accepts(n)' = Accepts(n)
         /\ \A n, row : Owns(n, row)' = Owns(n, row)
<1>1. \A n : Accepts(n)' = Accepts(n)
  BY DEF Accepts
<1> QED
  BY <1>1 DEF FromItem, Concerned, Owns

LEMMA OwnWritesNow ==
  ASSUME UNCHANGED job, NEW r \in Requests,
         \A p \in work'[r].paid : p.by = r /\ FromItem(p),
         \A p \in work'[r].gone : \E n \in Intents :
           r \in Concerned(n) /\ p.slip = SlipOf[n] /\ Accepts(n),
         \A n \in Intents : work'[r].intent[n] # Nothing =>
           r \in Concerned(n) /\ pc'[r] \notin Closed /\ Owns(n, work'[r].intent[n]),
         GoesByRow(r)' => Owns(Intent(r)', seen'[r].row)
  PROVE  OwnWrites(r)'
<1>1. \A n : Accepts(n)' = Accepts(n)
  BY JobsTell
<1> QED
  BY <1>1, JobsTell DEF OwnWrites, Owns

(* A request that no step has touched.                                     *)
LEMMA OthersOwnWrites ==
  ASSUME NEW s \in Requests, OwnWrites(s), UNCHANGED job,
         work'[s] = work[s], seen'[s] = seen[s], pc'[s] = pc[s], at'[s] = at[s]
  PROVE  OwnWrites(s)'
<1>1. GoesByRow(s)' = GoesByRow(s) /\ Intent(s)' = Intent(s)
  BY DEF GoesByRow, Kind, Intent, Item
<1>2. GoesByRow(s)' => Owns(Intent(s)', seen'[s].row)
  BY <1>1 DEF OwnWrites
<1> QED
  BY <1>2, OwnWritesNow DEF OwnWrites

(* A session that ended has nothing of its own.                            *)
LEMMA EndedOwnWrites ==
  ASSUME Shape, NEW r \in Requests, Ends(r)
  PROVE  OwnWrites(r)'
<1>1. work'[r] = NoWork /\ pc'[r] \in Ended
  BY EndsKeeps DEF Ends
<1> QED
  BY <1>1 DEF OwnWrites, GoesByRow, NoWork, Ended

(* A commit of what is a request's own.                                    *)
LEMMA CommitOwned ==
  ASSUME Shape, Origins, NEW r \in Requests, NEW w, NEW a, Commit(r, w, a),
         \A p \in w.paid : FromItem(p),
         \A n \in Intents : Owns(n, w.intent[n])
  PROVE  Origins'
<1>0. Ends(r) /\ OthersSame(r) /\ UNCHANGED job
  BY CommitEnds, EndsKeeps DEF Commit
<1>1. BooksOwned'
  <2>1. /\ payments' = (payments \ w.gone) \cup w.paid
        /\ \A n \in Intents : intent'[n] = IF w.intent[n] = Nothing THEN intent[n] ELSE w.intent[n]
    BY DEF Commit
  <2>2. \A p \in payments' : FromItem(p)
    BY <2>1 DEF Origins, BooksOwned
  <2>3. \A n \in Intents : Owns(n, intent'[n])
    BY <2>1 DEF Origins, BooksOwned
  <2> QED
    BY <1>0, <2>2, <2>3, JobsTell DEF BooksOwned
<1>2. OwnWrites(r)'
  BY <1>0, EndedOwnWrites
<1>3. ASSUME NEW s \in Requests, s # r PROVE OwnWrites(s)'
  BY <1>0, <1>3, OthersOwnWrites DEF Origins, OthersSame
<1> QED
  BY <1>1, <1>2, <1>3 DEF Origins

(* A step that commits nothing.                                            *)
LEMMA OpenOwned ==
  ASSUME Origins, NEW r \in Requests, UNCHANGED <<payments, intent, job>>, OthersSame(r),
         OwnWrites(r)'
  PROVE  Origins'
<1>1. BooksOwned'
  BY JobsTell DEF Origins, BooksOwned
<1>2. ASSUME NEW s \in Requests, s # r PROVE OwnWrites(s)'
  BY <1>2, OthersOwnWrites DEF Origins, OthersSame
<1> QED
  BY <1>1, <1>2 DEF Origins

(* What a request reads of a receipt is the receipt's.                     *)
LEMMA ReadsOwn ==
  ASSUME Origins, NEW r \in Requests, NEW n \in Intents
  PROVE  Owns(n, IntentFor(r, n)) /\ Owns(n, intent[n])
  BY DEF Origins, BooksOwned, OwnWrites, IntentFor

LEMMA ReadingOwned ==
  ASSUME BooksInv, Origins, NEW r \in Requests, Reading(r)
  PROVE  Origins'
<1>0. /\ Shape /\ KindAt /\ OwnWrites(r) /\ pc'[r] \notin Closed
      /\ UNCHANGED <<payments, intent, work, job>> /\ OthersSame(r)
  BY ReadingKeeps, ReadingPlaces DEF BooksInv, Origins, OthersSame
<1>1. GoesByRow(r)' => Owns(Intent(r)', seen'[r].row)
  <2> USE <1>0 DEF Shape, KindAt, Kind
  <2>1. CASE ReadInvoice(r) \/ BeginBatch(r) \/ Accrue(r) \/ Prevalidate(r) \/ Lock(r)
    BY <2>1 DEF ReadInvoice, BeginBatch, Accrue, Prevalidate, Lock, GoesByRow, Begin, Goto
  <2>2. CASE GetIntent(r) \/ ProbeMisses(r)
    BY <2>2 DEF GetIntent, ProbeMisses, GoesByRow, Begin, Goto
  <2>3. CASE ProbeHits(r)
    <3>1. PICK p \in Same(PaymentsFor(r), Item(r)) :
            seen' = [seen EXCEPT ![r].row = Stamp(r, "applied", p)]
      BY <2>3 DEF ProbeHits
    <3>2. pc[r] = "probe" /\ UNCHANGED at
      BY <2>3 DEF ProbeHits
    <3>3. seen'[r].row.payment = p /\ Intent(r)' = Intent(r)
      BY <3>1, <3>2 DEF Stamp, Seen, Intent, Item
    <3>4. p.slip = SlipOf[Intent(r)] /\ Accepts(Intent(r))
      BY <3>1, <3>2, AtOwnItem DEF Same
    <3> QED
      BY <3>3, <3>4 DEF Owns
  <2>4. CASE Load(r)
    <3>1. CASE Kind(r) = "dismiss"
      <4>1. seen'[r].row = Stamp(r, "dismissed", Nothing)
        BY <2>4, <3>1 DEF Load, Seen
      <4> QED
        BY <4>1 DEF Owns, Stamp
    <3>2. CASE Kind(r) # "dismiss"
      <4>1. seen'[r].row = seen[r].row /\ pc[r] = "load" /\ Intent(r)' = Intent(r)
        BY <2>4, <3>2 DEF Load, Seen, Intent, Item
      <4> QED
        BY <3>2, <4>1 DEF OwnWrites, GoesByRow
    <3> QED
      BY <3>1, <3>2
  <2>5. CASE GetApplied(r)
    <3>1. Intent(r)' = Intent(r) /\ Intent(r) \in Intents
      BY <2>5, AtOwnItem DEF GetApplied, Intent, Item
    <3>2. seen' = [seen EXCEPT ![r].row = intent[Intent(r)]] /\ seen[r] \in Seen
      BY <2>5 DEF GetApplied
    <3>3. seen'[r].row = intent[Intent(r)]
      BY <3>2 DEF Seen
    <3> QED
      BY <3>1, <3>3, ReadsOwn
  <2>6. CASE Find(r) \/ ReadStatus(r)
    <3>1. seen'[r].row = seen[r].row /\ pc[r] \in {"find", "reread"} /\ Intent(r)' = Intent(r)
      BY <2>6 DEF Find, ReadStatus, Seen, Intent, Item
    <3> QED
      BY <3>1 DEF OwnWrites, GoesByRow
  <2>7. CASE Settle(r)
    <3>1. /\ seen'[r].row \in {seen[r].row, Reopened} /\ pc[r] = "settle"
          /\ Intent(r)' = Intent(r)
      BY <2>7 DEF Settle, Seen, Intent, Item
    <3> QED
      BY <3>1 DEF OwnWrites, GoesByRow, Owns, Reopened
  <2> QED
    BY <2>1, <2>2, <2>3, <2>4, <2>5, <2>6, <2>7 DEF Reading
<1>2. OwnWrites(r)'
  BY <1>0, <1>1, OwnWritesNow DEF OwnWrites
<1> QED
  BY <1>0, <1>2, OpenOwned

LEMMA BookOwned ==
  ASSUME BooksInv, Origins, NEW r \in Requests, Book(r)
  PROVE  Origins'
<1>0. Shape /\ KindAt /\ OwnWrites(r) /\ work[r] \in Work /\ pc[r] = "book"
  BY DEF BooksInv, Origins, Shape, Book
<1>1. PICK p : p = [by |-> r, invoice |-> Invoice(r), slip |-> Item(r).slip]
  OBVIOUS
<1>2. FromItem(p) /\ p.by = r
  BY <1>0, <1>1, AtOwnItem
<1>3. PICK w : w = Booked(r, p)
  OBVIOUS
<1>4. w.paid = work[r].paid \cup {p} /\ w.gone = work[r].gone /\ w.intent = work[r].intent
  BY <1>0, <1>3 DEF Booked, Work
<1>5. CASE Kind(r) = "pay"
  <2>1. Commit(r, w, accruals)
    BY <1>1, <1>3, <1>5 DEF Book
  <2>2. /\ \A q \in w.paid : FromItem(q)
        /\ \A n \in Intents : Owns(n, w.intent[n])
    BY <1>0, <1>2, <1>4 DEF OwnWrites, Owns
  <2> QED
    BY <1>0, <2>1, <2>2, CommitOwned
<1>6. CASE Kind(r) # "pay"
  <2>1. /\ work' = [work EXCEPT ![r] = w]
        /\ seen' = [seen EXCEPT ![r].row = Stamp(r, "applied", p)]
        /\ Goto(r, "load") /\ UNCHANGED <<bookVars, lockVars, job, at>>
    BY <1>1, <1>3, <1>6 DEF Book
  <2>2. /\ work'[r] = w /\ pc'[r] = "load" /\ seen'[r].row = Stamp(r, "applied", p)
        /\ OthersSame(r) /\ UNCHANGED <<payments, intent, job>>
    BY <1>0, <2>1 DEF Shape, Seen, Goto, OthersSame, bookVars
  <2>3. Intent(r)' = Intent(r) /\ Kind(r)' = Kind(r)
    BY <2>1 DEF Intent, Item, Kind
  <2>4. Owns(Intent(r), Stamp(r, "applied", p))
    <3>1. Item(r).slip = SlipOf[Intent(r)] /\ Accepts(Intent(r))
      BY <1>0, <1>6, AtOwnItem DEF KindAt
    <3> QED
      BY <1>1, <3>1 DEF Owns, Stamp
  <2>5. OwnWrites(r)'
    <3>1. /\ \A q \in w.paid : q.by = r /\ FromItem(q)
          /\ \A q \in w.gone : \E n \in Intents :
               r \in Concerned(n) /\ q.slip = SlipOf[n] /\ Accepts(n)
          /\ \A n \in Intents : w.intent[n] # Nothing =>
               r \in Concerned(n) /\ Owns(n, w.intent[n])
      BY <1>0, <1>2, <1>4 DEF OwnWrites
    <3> QED
      BY <2>2, <2>3, <2>4, <3>1, OwnWritesNow DEF Closed
  <2> QED
    BY <2>2, <2>5, OpenOwned
<1> QED
  BY <1>5, <1>6

LEMMA StampOwned ==
  ASSUME BooksInv, Origins, NEW r \in Requests, StampIntent(r)
  PROVE  Origins'
<1>0. /\ Shape /\ KindAt /\ OwnWrites(r) /\ work[r] \in Work /\ pc[r] = "stamp"
      /\ Intent(r) \in Intents /\ r \in Concerned(Intent(r))
  BY AtOwnItem DEF BooksInv, Origins, Shape, StampIntent, KindAt
<1>1. PICK row : row = Written(IntentFor(r, Intent(r)), seen[r].loaded, seen[r].row)
  OBVIOUS
<1>2. Owns(Intent(r), row)
  <2>1. row.payment \in {IntentFor(r, Intent(r)).payment, seen[r].row.payment}
    BY <1>1 DEF Written
  <2>2. seen[r].row # Nothing /\ IntentFor(r, Intent(r)) # Nothing
    BY <1>0, IntentForRow, ReceivableMarksAssumption DEF BooksInv, OnRecognised, RequestSound
  <2>3. Owns(Intent(r), seen[r].row) /\ Owns(Intent(r), IntentFor(r, Intent(r)))
    BY <1>0, ReadsOwn DEF OwnWrites, GoesByRow
  <2> QED
    BY <2>1, <2>2, <2>3 DEF Owns
<1>3. PICK w : w = Stamped(r)
  OBVIOUS
<1>4. /\ w.paid = work[r].paid /\ w.gone = work[r].gone
      /\ \A n \in Intents : w.intent[n] = IF n = Intent(r) THEN row ELSE work[r].intent[n]
  BY <1>0, <1>1, <1>3, StampBalanced DEF Stamped, Work
<1>5. /\ \A q \in w.paid : q.by = r /\ FromItem(q)
      /\ \A n \in Intents : w.intent[n] # Nothing => r \in Concerned(n) /\ Owns(n, w.intent[n])
  BY <1>0, <1>2, <1>4 DEF OwnWrites
<1>6. CASE Commit(r, w, accruals)
  BY <1>0, <1>5, <1>6, CommitOwned DEF Owns
<1>7. CASE ~Commit(r, w, accruals)
  <2>1. /\ work' = [work EXCEPT ![r] = w] /\ pc' = [pc EXCEPT ![r] = "get"]
        /\ at' = [at EXCEPT ![r] = @ + 1]
        /\ UNCHANGED <<payments, intent, job, seen>>
    BY <1>3, <1>7, StampBalanced
  <2>2. work'[r] = w /\ pc'[r] = "get" /\ OthersSame(r)
    BY <1>0, <2>1 DEF Shape, OthersSame
  <2>3. OwnWrites(r)'
    <3>1. /\ \A q \in w.paid : q.by = r /\ FromItem(q)
          /\ \A q \in w.gone : \E n \in Intents :
               r \in Concerned(n) /\ q.slip = SlipOf[n] /\ Accepts(n)
          /\ \A n \in Intents : w.intent[n] # Nothing =>
               r \in Concerned(n) /\ Owns(n, w.intent[n])
      BY <1>0, <1>4, <1>5 DEF OwnWrites
    <3>2. ~GoesByRow(r)'
      BY <2>2 DEF GoesByRow
    <3> QED
      BY <2>1, <2>2, <3>1, <3>2, OwnWritesNow DEF Closed
  <2> QED
    BY <2>1, <2>2, <2>3, OpenOwned
<1> QED
  BY <1>6, <1>7

LEMMA UndoOwned ==
  ASSUME BooksInv, Origins, NEW r \in Requests, DeletePayment(r) \/ WriteStatus(r)
  PROVE  Origins'
<1>0. /\ Shape /\ KindAt /\ OwnWrites(r) /\ work[r] \in Work /\ pc[r] \in {"delete", "rewrite"}
      /\ UNCHANGED <<payments, intent, job, at>> /\ OthersSame(r)
      /\ pc'[r] \in {"reread", "load"} /\ Kind(r) = "undo"
  BY DEF BooksInv, Origins, Shape, DeletePayment, WriteStatus, KindAt, OthersSame, Goto, bookVars
<1>1. /\ Intent(r)' = Intent(r) /\ Intent(r) \in Intents /\ r \in Concerned(Intent(r))
      /\ seen[r].row # Nothing /\ Undone(r) # Nothing /\ Owns(Intent(r), seen[r].row)
  BY <1>0, AtOwnItem DEF BooksInv, OnRecognised, RequestSound, OwnWrites, GoesByRow,
     Intent, Item, Undone
<1>2. Owns(Intent(r), seen'[r].row)
  <2>1. CASE DeletePayment(r)
    BY <1>1, <2>1 DEF DeletePayment
  <2>2. CASE WriteStatus(r)
    <3>1. seen'[r].row = Reopened
      BY <1>0, <2>2 DEF WriteStatus, Shape, Seen
    <3> QED
      BY <3>1 DEF Owns, Reopened
  <2> QED
    BY <2>1, <2>2
<1>3. /\ work'[r].paid = work[r].paid /\ work'[r].intent = work[r].intent
      /\ work'[r].gone \in {work[r].gone, {Undone(r)}}
  <2>1. CASE DeletePayment(r)
    <3>1. work'[r] = [work[r] EXCEPT !.gone = {Undone(r)}, !.unposted = {Undone(r)}]
      BY <1>0, <2>1 DEF DeletePayment, Shape
    <3> QED
      BY <1>0, <3>1 DEF Work
  <2>2. CASE WriteStatus(r)
    <3>1. PICK x, i : work' = [work EXCEPT ![r].status[i] = x]
      BY <2>2 DEF WriteStatus
    <3> QED
      BY <1>0, <3>1 DEF Work, Shape
  <2> QED
    BY <2>1, <2>2
<1>4. Undone(r).slip = SlipOf[Intent(r)] /\ Accepts(Intent(r))
  BY <1>1 DEF Owns, Undone
<1>5. OwnWrites(r)'
  <2>1. /\ \A q \in work'[r].paid : q.by = r /\ FromItem(q)
        /\ \A q \in work'[r].gone : \E n \in Intents :
             r \in Concerned(n) /\ q.slip = SlipOf[n] /\ Accepts(n)
        /\ \A n \in Intents : work'[r].intent[n] # Nothing =>
             r \in Concerned(n) /\ Owns(n, work'[r].intent[n])
    BY <1>0, <1>1, <1>3, <1>4 DEF OwnWrites
  <2> QED
    BY <1>0, <1>1, <1>2, <2>1, OwnWritesNow DEF Closed
<1> QED
  BY <1>0, <1>5, OpenOwned

LEMMA OriginsInit == Init => Origins
<1> SUFFICES ASSUME Init PROVE Origins
  OBVIOUS
<1>1. BooksOwned
  BY DEF Init, BooksOwned, Owns, OpenIntent
<1>2. \A r \in Requests : OwnWrites(r)
  BY DEF Init, OwnWrites, GoesByRow, NoWork
<1> QED
  BY <1>1, <1>2 DEF Origins

LEMMA OriginsNext == BooksInv /\ Origins /\ [Next]_vars => Origins'
<1> SUFFICES ASSUME BooksInv, Origins, [Next]_vars PROVE Origins'
  OBVIOUS
<1>0. Shape /\ \A r \in Requests : OwnWrites(r)
  BY DEF BooksInv, Origins
<1>1. ASSUME NEW r \in Requests, Step(r) PROVE Origins'
  <2>1. OthersSame(r) /\ UNCHANGED job
    BY <1>1, StepKeeps
  <2>2. CASE Refusal(r)
    <3>1. Refuse(r)
      BY <2>2, RefusalRefuses
    <3>2. UNCHANGED <<payments, intent>>
      BY <3>1 DEF Refuse, bookVars
    <3> QED
      BY <1>0, <2>1, <3>1, <3>2, RefuseEnds, EndedOwnWrites, OpenOwned
  <2>3. CASE Reading(r)
    BY <2>3, ReadingOwned
  <2>4. CASE Flip(r)
    <3>1. PICK w, a : Commit(r, w, a) /\ w.paid = {} /\ \A n \in Intents : w.intent[n] = Nothing
      <4>1. \A x : [NoWork EXCEPT !.status[Invoice(r)] = x].paid = {}
        BY DEF NoWork
      <4>2. \A x : \A n \in Intents : [NoWork EXCEPT !.status[Invoice(r)] = x].intent[n] = Nothing
        BY DEF NoWork
      <4> QED
        BY <2>4, <4>1, <4>2 DEF Flip
    <3> QED
      BY <1>0, <3>1, CommitOwned DEF Owns
  <2>5. CASE Replayed(r)
    BY <1>0, <2>5, CommitOwned DEF Replayed, OwnWrites, Owns
  <2> QED
    BY <1>1, <2>2, <2>3, <2>4, <2>5, StepKinds, BookOwned, StampOwned, UndoOwned DEF Writing
<1>2. CASE UNCHANGED vars
  <2>1. UNCHANGED <<payments, intent, job>> /\ UNCHANGED <<work, seen, pc, at>>
    BY <1>2 DEF vars, bookVars
  <2>2. BooksOwned'
    BY <2>1, JobsTell DEF Origins, BooksOwned
  <2> QED
    BY <1>0, <2>1, <2>2, OthersOwnWrites DEF Origins
<1> QED
  BY <1>1, <1>2 DEF Next, AllEnded

-----------------------------------------------------------------------------
(* A receipt and its payment.                                              *)

Carrying(ps, n) == {p \in ps : p.slip = SlipOf[n]}
Backing(row) == IF row.status = "applied" THEN {row.payment} ELSE {}

(* The requests that name receipt n do not overlap, and only they pay its  *)
(* slip.                                                                   *)
Apart(n) == \A r, s \in Concerned(n) : s \notin met[r]
OnlyFor(n) ==
  \A r \in Requests : \A k \in DOMAIN job[r].items :
    job[r].items[k].slip = SlipOf[n] => job[r].items[k].intent = n
Told(n) == Apart(n) /\ OnlyFor(n)

(* The row the request is at is about to become the receipt's.             *)
Stamping(r) == pc[r] = "stamp" \/ (pc[r] = "load" /\ Kind(r) # "dismiss")

(* The payments request r sees for receipt n are those of the row it is    *)
(* about to write, none after its deletion, else those of the row it sees; *)
(* and what it read of the receipt still holds.                            *)
SeesReceipt(r, n) ==
  /\ Carrying(PaymentsFor(r), n) =
       IF Intent(r) = n /\ Stamping(r) THEN Backing(seen[r].row)
       ELSE IF Settling(r) THEN {} ELSE Backing(IntentFor(r, n))
  /\ Intent(r) = n =>
       /\ pc[r] \in {"probe", "lock", "book"} => IntentFor(r, n).status = "open"
       /\ pc[r] = "load" /\ Kind(r) = "dismiss" => IntentFor(r, n).status = "open"
       /\ pc[r] = "stamp" => seen[r].loaded = IntentFor(r, n)
       /\ pc[r] \in {"find", "delete"} =>
            seen[r].row = intent[n] /\ intent[n].status = "applied"

Accounts(n) ==
  /\ Carrying(payments, n) = Backing(intent[n])
  /\ \A r \in Concerned(n) \cap Active : SeesReceipt(r, n)

AccountInv == \A n \in Intents : Told(n) => Accounts(n)

(* What a request that names a receipt is, and what it is at.              *)
LEMMA ConcernedKind ==
  ASSUME Shape, NEW n \in Intents, NEW r \in Concerned(n)
  PROVE  /\ r \in Requests /\ Kind(r) \in {"accept", "bulk", "undo", "dismiss"}
         /\ Kind(r) # "bulk" => Intent(r) = n
<1>1. PICK k \in DOMAIN job[r].items : job[r].items[k].intent = n
  BY DEF Concerned
<1>2. r \in Requests
  BY DEF Concerned
<1>3. WellFormed(job[r]) /\ n # Nothing
  BY <1>2, CurrentItem, ReceivableNamesAssumption
<1>4. Kind(r) \in {"accept", "bulk", "undo", "dismiss"}
  BY <1>1, <1>3 DEF WellFormed, Kind
<1>5. ASSUME Kind(r) # "bulk" PROVE Intent(r) = n
  <2>1. at[r] = Len(job[r].items) /\ Len(job[r].items) = 1
    BY <1>2, <1>3, <1>5, OnlyBatches DEF WellFormed, Kind
  <2>2. job[r].items \in Seq(Items)
    BY <1>3 DEF WellFormed
  <2>3. k = 1
    BY <1>1, <2>1, <2>2
  <2> QED
    BY <1>1, <2>1, <2>3 DEF Intent, Item
<1> QED
  BY <1>2, <1>4, <1>5

(* The slip of a receipt that only its own requests pay leads to it.       *)
LEMMA SlipLeads ==
  ASSUME NEW n \in Intents, OnlyFor(n)
  PROVE  /\ \A p \in Payment : FromItem(p) /\ p.slip = SlipOf[n] => p.by \in Concerned(n)
         /\ \A m \in Intents : Accepts(m) /\ SlipOf[m] = SlipOf[n] => m = n
<1>1. ASSUME NEW p \in Payment, FromItem(p), p.slip = SlipOf[n] PROVE p.by \in Concerned(n)
  BY <1>1 DEF OnlyFor, FromItem, Concerned, Payment
<1>2. ASSUME NEW m \in Intents, Accepts(m), SlipOf[m] = SlipOf[n] PROVE m = n
  BY <1>2 DEF OnlyFor, Accepts
<1> QED
  BY <1>1, <1>2

(* A request that does not name the receipt writes nothing of it.          *)
LEMMA ElsewhereSilent ==
  ASSUME Shape, Origins, NEW n \in Intents, OnlyFor(n), NEW r \in Requests, r \notin Concerned(n)
  PROVE  /\ Carrying(work[r].paid, n) = {} /\ Carrying(work[r].gone, n) = {}
         /\ work[r].intent[n] = Nothing
<1>1. work[r] \in Work /\ OwnWrites(r)
  BY DEF Shape, Origins
<1>2. ASSUME NEW p \in work[r].paid, p.slip = SlipOf[n] PROVE FALSE
  <2>1. p \in Payment /\ FromItem(p) /\ p.by = r
    BY <1>1, <1>2 DEF OwnWrites, Work
  <2> QED
    BY <1>2, <2>1, SlipLeads
<1>3. ASSUME NEW p \in work[r].gone, p.slip = SlipOf[n] PROVE FALSE
  <2>1. PICK m \in Intents : r \in Concerned(m) /\ p.slip = SlipOf[m] /\ Accepts(m)
    BY <1>1 DEF OwnWrites
  <2>2. m = n
    BY <1>3, <2>1, SlipLeads
  <2> QED
    BY <2>1, <2>2
<1>4. work[r].intent[n] = Nothing
  BY <1>1 DEF OwnWrites
<1> QED
  BY <1>2, <1>3, <1>4 DEF Carrying

(* Of the requests that name the receipt one at most is open.              *)
LEMMA AloneAtReceipt ==
  ASSUME SessionInv, NEW n, Apart(n), NEW r \in Concerned(n) \cap Active,
         NEW s \in Concerned(n) \cap Active
  PROVE  r = s
  BY DEF SessionInv, OpenHaveMet, Apart

(* Requests that will have stayed apart have.                              *)
LEMMA ToldBefore ==
  ASSUME SessionInv, NEW r \in Requests, UNCHANGED job,
         Ends(r) \/ Opens(r) \/ GoesOn(r), NEW n, Told(n)'
  PROVE  Told(n)
<1>1. Concerned(n)' = Concerned(n) /\ OnlyFor(n)' = OnlyFor(n)
  BY DEF Concerned, OnlyFor
<1>2. ASSUME NEW s \in Concerned(n), NEW t \in Concerned(n) PROVE t \notin met[s]
  <2>1. t \notin met'[s] /\ s \in Requests
    BY <1>1, <1>2 DEF Told, Apart, Concerned
  <2>2. CASE Opens(r)
    BY <2>1, <2>2 DEF Opens, Begin, SessionInv, ClosedClean
  <2>3. CASE ~Opens(r)
    BY <2>1, <2>3 DEF Ends, GoesOn
  <2> QED
    BY <2>2, <2>3
<1> QED
  BY <1>1, <1>2 DEF Told, Apart

(* A closed session sees the books.                                        *)
LEMMA ClosedSees ==
  ASSUME Shape, SessionInv, Origins, NEW r \in Requests, pc[r] \in Closed, NEW n \in Intents
  PROVE  IntentFor(r, n) = intent[n] /\ PaymentsFor(r) = payments
<1>1. work[r].intent[n] = Nothing
  BY DEF Origins, OwnWrites
<1> QED
  BY <1>1 DEF SessionInv, ClosedClean, IntentFor, PaymentsFor

(* What the others see of the receipt when the books on it stay.           *)
LEMMA OthersSeeReceipt ==
  ASSUME NEW n \in Intents, NEW r \in Requests, OthersSame(r), UNCHANGED job,
         Carrying(payments', n) = Carrying(payments, n), intent'[n] = intent[n],
         NEW s \in Requests, s # r, SeesReceipt(s, n)
  PROVE  SeesReceipt(s, n)'
<1>1. work'[s] = work[s] /\ seen'[s] = seen[s] /\ pc'[s] = pc[s] /\ at'[s] = at[s]
  BY DEF OthersSame
<1>2. Carrying(PaymentsFor(s)', n) = Carrying(PaymentsFor(s), n)
  BY <1>1 DEF Carrying, PaymentsFor
<1>3. /\ IntentFor(s, n)' = IntentFor(s, n) /\ Kind(s)' = Kind(s)
      /\ Intent(s)' = Intent(s) /\ Stamping(s)' = Stamping(s) /\ Settling(s)' = Settling(s)
  BY <1>1 DEF IntentFor, Intent, Item, Stamping, Settling, Kind
<1>4. Carrying(PaymentsFor(s), n)' = Carrying(PaymentsFor(s)', n)
  BY DEF Carrying
<1>5. Backing(seen[s].row)' = Backing(seen[s].row) /\ Backing(IntentFor(s, n))' = Backing(IntentFor(s, n))
  BY <1>1, <1>3 DEF Backing
<1> QED
  BY <1>1, <1>2, <1>3, <1>4, <1>5 DEF SeesReceipt

(* A step that commits nothing keeps the account when its own request      *)
(* sees it.                                                                *)
LEMMA OpenAccounts ==
  ASSUME NEW n \in Intents, Accounts(n), NEW r \in Requests,
         UNCHANGED <<payments, intent, job>>, OthersSame(r),
         r \in Concerned(n) /\ pc'[r] \notin Closed => SeesReceipt(r, n)'
  PROVE  Accounts(n)'
<1>1. Carrying(payments, n)' = Backing(intent[n])'
  BY DEF Accounts, Carrying, Backing
<1>2. Concerned(n)' = Concerned(n)
  BY JobsTell
<1>3. ASSUME NEW s \in Concerned(n), s \in Active' PROVE SeesReceipt(s, n)'
  <2>1. CASE s = r
    BY <1>3, <2>1 DEF Active, Closed, Ended
  <2>2. CASE s # r
    <3>1. s \in Active /\ s \in Requests
      BY <1>3, <2>2 DEF Active, OthersSame, Concerned
    <3>2. SeesReceipt(s, n)
      BY <1>3, <3>1 DEF Accounts
    <3> QED
      BY <2>2, <3>1, <3>2, OthersSeeReceipt
  <2> QED
    BY <2>1, <2>2
<1> QED
  BY <1>1, <1>2, <1>3 DEF Accounts

(* A commit keeps it when it is what an open request saw, or nothing of    *)
(* the receipt.                                                            *)
LEMMA CommitAccounts ==
  ASSUME Shape, SessionInv, NEW n \in Intents, Told(n), Accounts(n),
         NEW r \in Requests, NEW w, NEW a, Commit(r, w, a),
         \/ /\ r \in Concerned(n) \cap Active
            /\ Carrying((payments \ w.gone) \cup w.paid, n) =
                 Backing(IF w.intent[n] = Nothing THEN intent[n] ELSE w.intent[n])
         \/ Carrying(w.paid, n) = {} /\ Carrying(w.gone, n) = {} /\ w.intent[n] = Nothing
  PROVE  Accounts(n)'
<1>0. Ends(r) /\ OthersSame(r) /\ UNCHANGED job
  BY CommitEnds, EndsKeeps DEF Commit
<1>1. /\ payments' = (payments \ w.gone) \cup w.paid
      /\ intent'[n] = IF w.intent[n] = Nothing THEN intent[n] ELSE w.intent[n]
      /\ pc'[r] = "replied"
  BY DEF Commit, Shape
<1>2. Concerned(n)' = Concerned(n) /\ r \notin Active' /\ Active' \subseteq Active
  BY <1>0, <1>1, JobsTell DEF Active, Ended, OthersSame
<1>3. CASE /\ r \in Concerned(n) \cap Active
           /\ Carrying((payments \ w.gone) \cup w.paid, n) =
                Backing(IF w.intent[n] = Nothing THEN intent[n] ELSE w.intent[n])
  <2>1. Concerned(n)' \cap Active' = {}
    BY <1>2, <1>3, AloneAtReceipt DEF Told
  <2>2. Carrying(payments, n)' = Backing(intent[n])'
    BY <1>1, <1>3 DEF Carrying, Backing
  <2> QED
    BY <2>1, <2>2 DEF Accounts
<1>4. CASE Carrying(w.paid, n) = {} /\ Carrying(w.gone, n) = {} /\ w.intent[n] = Nothing
  <2>1. Carrying(payments', n) = Carrying(payments, n)
    BY <1>1, <1>4 DEF Carrying
  <2>2. intent'[n] = intent[n]
    BY <1>1, <1>4
  <2>3. Carrying(payments, n)' = Backing(intent[n])'
    BY <2>1, <2>2 DEF Accounts, Carrying, Backing
  <2>4. ASSUME NEW s \in Concerned(n), s \in Active' PROVE SeesReceipt(s, n)'
    <3>1. s # r /\ s \in Requests /\ SeesReceipt(s, n)
      BY <1>2, <2>4 DEF Accounts, Active
    <3> QED
      BY <1>0, <2>1, <2>2, <3>1, OthersSeeReceipt
  <2> QED
    BY <1>2, <2>3, <2>4 DEF Accounts
<1> QED
  BY <1>3, <1>4

(* What a request sees after a step, said of the values after it.          *)
LEMMA SeesNow ==
  ASSUME NEW n \in Intents, NEW r \in Requests, UNCHANGED job,
         Carrying(PaymentsFor(r)', n) =
           IF Intent(r)' = n /\ Stamping(r)' THEN Backing(seen'[r].row)
           ELSE IF Settling(r)' THEN {} ELSE Backing(IntentFor(r, n)'),
         Intent(r)' = n =>
           /\ pc'[r] \in {"probe", "lock", "book"} => IntentFor(r, n)'.status = "open"
           /\ pc'[r] = "load" /\ Kind(r) = "dismiss" => IntentFor(r, n)'.status = "open"
           /\ pc'[r] = "stamp" => seen'[r].loaded = IntentFor(r, n)'
           /\ pc'[r] \in {"find", "delete"} =>
                seen'[r].row = intent'[n] /\ intent'[n].status = "applied"
  PROVE  SeesReceipt(r, n)'
<1>1. Carrying(PaymentsFor(r), n)' = Carrying(PaymentsFor(r)', n)
  BY DEF Carrying
<1>2. /\ Backing(seen[r].row)' = Backing(seen'[r].row)
      /\ Backing(IntentFor(r, n))' = Backing(IntentFor(r, n)')
  BY DEF Backing
<1>3. Kind(r)' = Kind(r)
  BY DEF Kind
<1> QED
  BY <1>1, <1>2, <1>3 DEF SeesReceipt

(* Before a step: what an open request sees, and what a new one will.      *)
LEMMA SeesBefore ==
  ASSUME Shape, SessionInv, Origins, NEW n \in Intents, Accounts(n),
         NEW r \in Concerned(n)
  PROVE  /\ r \in Requests
         /\ pc[r] \notin Closed => SeesReceipt(r, n)
         /\ ~Settling(r) /\ ~(Intent(r) = n /\ Stamping(r)) =>
              Carrying(PaymentsFor(r), n) = Backing(IntentFor(r, n))
         /\ pc[r] \in Closed => IntentFor(r, n) = intent[n]
<1>1. r \in Requests
  BY DEF Concerned
<1>2. pc[r] \notin Closed => SeesReceipt(r, n)
  BY <1>1 DEF Accounts, Active, Closed, Ended
<1>3. pc[r] \in Closed =>
        IntentFor(r, n) = intent[n] /\ Carrying(PaymentsFor(r), n) = Backing(IntentFor(r, n))
  BY <1>1, ClosedSees DEF Accounts
<1> QED
  BY <1>1, <1>2, <1>3 DEF SeesReceipt

LEMMA ReadingSees ==
  ASSUME BooksInv, SessionInv, Origins, NEW n \in Intents, Accounts(n),
         NEW r \in Concerned(n), Reading(r)
  PROVE  SeesReceipt(r, n)'
<1>0. /\ Shape /\ KindAt /\ r \in Requests /\ r \in Concerned(Intent(r)) /\ Intent(r) \in Intents
      /\ Kind(r) \in {"accept", "bulk", "undo", "dismiss"} /\ (Kind(r) # "bulk" => Intent(r) = n)
      /\ UNCHANGED <<payments, intent, work, job>>
  BY ConcernedKind, AtOwnItem, ReadingKeeps DEF BooksInv
<1>1. PaymentsFor(r)' = PaymentsFor(r) /\ IntentFor(r, n)' = IntentFor(r, n)
  BY <1>0 DEF PaymentsFor, IntentFor
<1>2. /\ pc[r] \notin Closed => SeesReceipt(r, n)
      /\ ~Settling(r) /\ ~(Intent(r) = n /\ Stamping(r)) =>
           Carrying(PaymentsFor(r), n) = Backing(IntentFor(r, n))
  BY <1>0, SeesBefore
<1> USE DEF Stamping, Settling, Closed
<1>3. CASE ReadInvoice(r) \/ Accrue(r)
  BY <1>0, <1>3 DEF ReadInvoice, Accrue, KindAt, Source
<1>4. CASE BeginBatch(r) \/ Prevalidate(r)
  <2>1. pc[r] \in {"idle", "prevalidate"} /\ pc'[r] \in {"prevalidate", "get"}
    BY <1>0, <1>4 DEF BeginBatch, Prevalidate, Begin, Goto, Shape
  <2> QED
    BY <1>0, <1>1, <1>2, <2>1, SeesNow
<1>5. CASE GetIntent(r)
  <2>1. /\ pc[r] \in {"idle", "get"} /\ pc'[r] \in {"probe", "load"} /\ at' = at
        /\ IntentFor(r, Intent(r)).status = "open" /\ (pc'[r] = "load" => Kind(r) = "dismiss")
    BY <1>0, <1>5 DEF GetIntent, Begin, Goto, Shape, Unresolved, KindAt
  <2>2. Intent(r)' = Intent(r) /\ Kind(r)' = Kind(r)
    BY <1>0, <2>1 DEF Intent, Item, Kind
  <2> QED
    BY <1>0, <1>1, <1>2, <2>1, <2>2, SeesNow
<1>6. CASE ProbeMisses(r)
  <2>1. pc[r] = "probe" /\ pc'[r] = "lock" /\ at' = at
    BY <1>0, <1>6 DEF ProbeMisses, Goto, Shape
  <2>2. Intent(r)' = Intent(r)
    BY <1>0, <2>1 DEF Intent, Item
  <2> QED
    BY <1>0, <1>1, <1>2, <2>1, <2>2, SeesNow DEF SeesReceipt
<1>7. CASE ProbeHits(r)
  <2>1. pc[r] = "probe" /\ pc'[r] = "load" /\ at' = at /\ Kind(r) \in {"accept", "bulk"}
    BY <1>0, <1>7 DEF ProbeHits, Goto, Shape, KindAt
  <2>2. Intent(r)' = Intent(r)
    BY <1>0, <2>1 DEF Intent, Item
  <2>3. Intent(r) # n
    <3>1. PICK p \in PaymentsFor(r) : p.slip = Item(r).slip
      BY <1>7 DEF ProbeHits, Same
    <3> SUFFICES ASSUME Intent(r) = n PROVE FALSE
      OBVIOUS
    <3>2. p \in Carrying(PaymentsFor(r), n)
      BY <1>0, <2>1, <3>1, AtOwnItem DEF Carrying
    <3>3. IntentFor(r, n).status = "open"
      BY <1>2, <2>1 DEF SeesReceipt
    <3>4. Carrying(PaymentsFor(r), n) = {}
      BY <1>2, <2>1, <3>3 DEF Backing
    <3> QED
      BY <3>2, <3>4
  <2> QED
    BY <1>0, <1>1, <1>2, <2>1, <2>2, <2>3, SeesNow
<1>8. CASE Lock(r)
  <2>1. pc[r] = "lock" /\ pc'[r] = "book" /\ at' = at
    BY <1>0, <1>8 DEF Lock, Goto, Shape
  <2>2. Intent(r)' = Intent(r)
    BY <1>0, <2>1 DEF Intent, Item
  <2> QED
    BY <1>0, <1>1, <1>2, <2>1, <2>2, SeesNow DEF SeesReceipt
<1>9. CASE Load(r)
  <2>1. /\ pc[r] = "load" /\ pc'[r] = "stamp" /\ at' = at
        /\ seen'[r].loaded = IntentFor(r, Intent(r))
        /\ seen'[r].row = IF Kind(r) = "dismiss" THEN Stamp(r, "dismissed", Nothing) ELSE seen[r].row
    BY <1>0, <1>9 DEF Load, Goto, Shape, Seen
  <2>2. Intent(r)' = Intent(r)
    BY <1>0, <2>1 DEF Intent, Item
  <2>3. Intent(r) = n => Carrying(PaymentsFor(r), n) = Backing(seen'[r].row)
    <3>1. CASE Kind(r) = "dismiss"
      <4>1. Intent(r) = n => Backing(IntentFor(r, n)) = {} /\ Backing(seen'[r].row) = {}
        BY <1>2, <2>1, <3>1 DEF SeesReceipt, Backing, Stamp
      <4> QED
        BY <1>2, <2>1, <3>1, <4>1
    <3>2. CASE Kind(r) # "dismiss"
      BY <1>2, <2>1, <3>2 DEF SeesReceipt
    <3> QED
      BY <3>1, <3>2
  <2> QED
    BY <1>0, <1>1, <1>2, <2>1, <2>2, <2>3, SeesNow
<1>10. CASE GetApplied(r)
  <2>1. /\ pc[r] = "idle" /\ pc'[r] = "find" /\ at' = at /\ Intent(r) = n
        /\ seen'[r].row = intent[n] /\ intent[n].status = "applied"
    BY <1>0, <1>10 DEF GetApplied, Begin, Shape, Seen
  <2>2. Intent(r)' = Intent(r)
    BY <1>0, <2>1 DEF Intent, Item
  <2> QED
    BY <1>0, <1>1, <1>2, <2>1, <2>2, SeesNow
<1>11. CASE Find(r)
  <2>1. pc[r] = "find" /\ pc'[r] = "delete" /\ at' = at /\ seen' = seen
    BY <1>0, <1>11 DEF Find, Goto, Shape
  <2>2. Intent(r)' = Intent(r)
    BY <1>0, <2>1 DEF Intent, Item
  <2> QED
    BY <1>0, <1>1, <1>2, <2>1, <2>2, SeesNow DEF SeesReceipt
<1>12. CASE ReadStatus(r) \/ Settle(r)
  <2>1. /\ pc[r] \in {"reread", "settle"} /\ pc'[r] \in {"settle", "load", "rewrite"} /\ at' = at
        /\ pc'[r] = "load" => seen'[r].row = Reopened
        /\ Kind(r) = "undo" /\ Intent(r) = n
    BY <1>0, <1>12 DEF ReadStatus, Settle, Goto, Shape, Seen, KindAt
  <2>2. Intent(r)' = Intent(r) /\ Kind(r)' = Kind(r)
    BY <1>0, <2>1 DEF Intent, Item, Kind
  <2>3. Carrying(PaymentsFor(r), n) = {} /\ Backing(Reopened) = {}
    BY <1>2, <2>1 DEF SeesReceipt, Backing, Reopened
  <2> QED
    BY <1>0, <1>1, <2>1, <2>2, <2>3, SeesNow
<1> QED
  BY <1>3, <1>4, <1>5, <1>6, <1>7, <1>8, <1>9, <1>10, <1>11, <1>12 DEF Reading

LEMMA BookAccounts ==
  ASSUME BooksInv, SessionInv, Origins, NEW n \in Intents, Told(n), Accounts(n),
         NEW r \in Requests, Book(r)
  PROVE  Accounts(n)'
<1>0. /\ Shape /\ KindAt /\ work[r] \in Work /\ pc[r] = "book" /\ OnlyFor(n)
      /\ Kind(r) \in {"pay", "accept", "bulk"}
  BY DEF BooksInv, Shape, Book, Told, KindAt
<1>1. PICK p : p = [by |-> r, invoice |-> Invoice(r), slip |-> Item(r).slip]
  OBVIOUS
<1>2. FromItem(p) /\ p.by = r /\ p.slip = Item(r).slip /\ p \in Payment
  BY <1>0, <1>1, AtOwnItem, CurrentItem DEF Payment
<1>3. PICK w : w = Booked(r, p)
  OBVIOUS
<1>4. w.paid = work[r].paid \cup {p} /\ w.gone = work[r].gone /\ w.intent = work[r].intent
  BY <1>0, <1>3 DEF Booked, Work
<1>5. CASE Kind(r) = "pay"
  <2>1. Commit(r, w, accruals)
    BY <1>1, <1>3, <1>5 DEF Book
  <2>2. r \notin Concerned(n)
    BY <1>0, <1>5, ConcernedKind
  <2>3. p.slip # SlipOf[n]
    BY <1>0, <1>2, <2>2, SlipLeads
  <2>4. Carrying(w.paid, n) = {} /\ Carrying(w.gone, n) = {} /\ w.intent[n] = Nothing
    BY <1>0, <1>4, <2>2, <2>3, ElsewhereSilent DEF Carrying
  <2> QED
    BY <1>0, <2>1, <2>4, CommitAccounts
<1>6. CASE Kind(r) # "pay"
  <2>1. /\ work' = [work EXCEPT ![r] = w]
        /\ seen' = [seen EXCEPT ![r].row = Stamp(r, "applied", p)]
        /\ Goto(r, "load") /\ UNCHANGED <<bookVars, lockVars, job, at>>
    BY <1>1, <1>3, <1>6 DEF Book
  <2>2. /\ work'[r] = w /\ pc'[r] = "load" /\ seen'[r].row = Stamp(r, "applied", p)
        /\ OthersSame(r) /\ UNCHANGED <<payments, intent, job>>
    BY <1>0, <2>1 DEF Shape, Seen, Goto, OthersSame, bookVars
  <2>3. Intent(r)' = Intent(r) /\ Kind(r)' = Kind(r)
    BY <2>1 DEF Intent, Item, Kind
  <2>4. ASSUME r \in Concerned(n) PROVE SeesReceipt(r, n)'
    <3>1. SeesReceipt(r, n)
      BY <1>0, <2>4, SeesBefore DEF Closed
    <3>2. /\ PaymentsFor(r)' = PaymentsFor(r) \cup {p} /\ IntentFor(r, n)' = IntentFor(r, n)
      BY <1>4, <2>2 DEF PaymentsFor, IntentFor
    <3>3. Carrying(PaymentsFor(r), n) = Backing(IntentFor(r, n))
      BY <1>0, <3>1 DEF SeesReceipt, Stamping, Settling
    <3>4. /\ Intent(r) \in Intents /\ p.slip = SlipOf[Intent(r)] /\ Accepts(Intent(r))
      BY <1>0, <1>2, <1>6, AtOwnItem
    <3>5. CASE Intent(r) = n
      <4>1. IntentFor(r, n).status = "open"
        BY <1>0, <3>1, <3>5 DEF SeesReceipt
      <4>2. Carrying(PaymentsFor(r), n) = {}
        BY <3>3, <4>1 DEF Backing
      <4>3. Carrying(PaymentsFor(r) \cup {p}, n) = {p}
        BY <3>4, <3>5, <4>2 DEF Carrying
      <4>4. Backing(Stamp(r, "applied", p)) = {p}
        BY DEF Backing, Stamp
      <4> QED
        BY <1>0, <1>6, <2>2, <2>3, <3>2, <3>5, <4>3, <4>4, SeesNow DEF Stamping
    <3>6. CASE Intent(r) # n
      <4>1. p.slip # SlipOf[n]
        BY <1>0, <3>4, <3>6, SlipLeads
      <4>2. Carrying(PaymentsFor(r) \cup {p}, n) = Carrying(PaymentsFor(r), n)
        BY <4>1 DEF Carrying
      <4> QED
        BY <2>2, <2>3, <3>2, <3>3, <3>6, <4>2, SeesNow DEF Settling
    <3> QED
      BY <3>5, <3>6
  <2> QED
    BY <2>2, <2>4, OpenAccounts
<1> QED
  BY <1>5, <1>6

LEMMA StampAccounts ==
  ASSUME BooksInv, SessionInv, Origins, NEW n \in Intents, Told(n), Accounts(n),
         NEW r \in Requests, StampIntent(r)
  PROVE  Accounts(n)'
<1>0. /\ Shape /\ work[r] \in Work /\ pc[r] = "stamp" /\ Intent(r) \in Intents /\ OnlyFor(n)
      /\ seen[r].row \in IntentRow /\ IntentFor(r, Intent(r)) \in IntentRow
  BY AtOwnItem, SeenRow, IntentForRow
     DEF BooksInv, Shape, StampIntent, KindAt, OnRecognised, RequestSound, Told
<1>1. PICK w : w = Stamped(r)
  OBVIOUS
<1>2. /\ w.paid = work[r].paid /\ w.gone = work[r].gone
      /\ w.intent[n] = IF n = Intent(r)
                       THEN Written(IntentFor(r, n), seen[r].loaded, seen[r].row)
                       ELSE work[r].intent[n]
  BY <1>0, <1>1, StampBalanced DEF Stamped, Work
<1>3. ASSUME r \in Concerned(n)
      PROVE  Carrying(PaymentsFor(r), n) =
               Backing(IF w.intent[n] = Nothing THEN intent[n] ELSE w.intent[n])
  <2>1. SeesReceipt(r, n)
    BY <1>0, <1>3, SeesBefore DEF Closed
  <2>2. CASE n = Intent(r)
    <3>1. w.intent[n] = seen[r].row
      <4>1. w.intent[n] = Written(IntentFor(r, n), IntentFor(r, n), seen[r].row)
        BY <1>0, <1>2, <2>1, <2>2 DEF SeesReceipt
      <4> QED
        BY <1>0, <2>2, <4>1 DEF Written, IntentRow
    <3> QED
      BY <1>0, <2>1, <2>2, <3>1, ReceivableMarksAssumption DEF SeesReceipt, Stamping
  <2>3. CASE n # Intent(r)
    BY <1>0, <1>2, <2>1, <2>3 DEF SeesReceipt, Settling, IntentFor
  <2> QED
    BY <2>2, <2>3
<1>4. CASE Commit(r, w, accruals)
  <2>1. CASE r \in Concerned(n)
    <3>1. Carrying((payments \ w.gone) \cup w.paid, n) = Carrying(PaymentsFor(r), n)
      BY <1>2 DEF PaymentsFor
    <3>2. r \in Active
      BY <1>0 DEF Active, Ended
    <3> QED
      BY <1>0, <1>3, <1>4, <2>1, <3>1, <3>2, CommitAccounts
  <2>2. CASE r \notin Concerned(n)
    <3>1. n # Intent(r)
      BY <1>0, <2>2, AtOwnItem DEF BooksInv, KindAt
    <3>2. Carrying(w.paid, n) = {} /\ Carrying(w.gone, n) = {} /\ w.intent[n] = Nothing
      BY <1>0, <1>2, <2>2, <3>1, ElsewhereSilent
    <3> QED
      BY <1>0, <1>4, <3>2, CommitAccounts
  <2> QED
    BY <2>1, <2>2
<1>5. CASE ~Commit(r, w, accruals)
  <2>1. /\ work' = [work EXCEPT ![r] = w] /\ pc' = [pc EXCEPT ![r] = "get"]
        /\ at' = [at EXCEPT ![r] = @ + 1]
        /\ UNCHANGED <<payments, intent, job, seen>>
    BY <1>1, <1>5, StampBalanced
  <2>2. work'[r] = w /\ pc'[r] = "get" /\ OthersSame(r)
    BY <1>0, <2>1 DEF Shape, OthersSame
  <2>3. /\ PaymentsFor(r)' = PaymentsFor(r)
        /\ IntentFor(r, n)' = IF w.intent[n] = Nothing THEN intent[n] ELSE w.intent[n]
    BY <1>2, <2>1, <2>2 DEF PaymentsFor, IntentFor
  <2>4. r \in Concerned(n) => SeesReceipt(r, n)'
    BY <1>3, <2>1, <2>2, <2>3, SeesNow DEF Stamping, Settling
  <2> QED
    BY <2>1, <2>2, <2>4, OpenAccounts
<1> QED
  BY <1>4, <1>5

LEMMA UndoAccounts ==
  ASSUME BooksInv, SessionInv, Origins, NEW n \in Intents, Told(n), Accounts(n),
         NEW r \in Requests, DeletePayment(r) \/ WriteStatus(r)
  PROVE  Accounts(n)'
<1>0. /\ Shape /\ KindAt /\ work[r] \in Work /\ pc[r] \in {"delete", "rewrite"}
      /\ UNCHANGED <<payments, intent, job, at>> /\ OthersSame(r) /\ Kind(r) = "undo"
      /\ Intent(r)' = Intent(r) /\ Kind(r)' = Kind(r)
  BY DEF BooksInv, Shape, DeletePayment, WriteStatus, KindAt, OthersSame, Goto, bookVars,
     Intent, Item, Kind
<1>1. ASSUME r \in Concerned(n) PROVE SeesReceipt(r, n)'
  <2>1. Intent(r) = n /\ SeesReceipt(r, n) /\ Backing(Reopened) = {}
    BY <1>0, <1>1, ConcernedKind, SeesBefore DEF Closed, Backing, Reopened
  <2>2. CASE DeletePayment(r)
    <3>1. pc[r] = "delete" /\ pc'[r] = "reread"
      BY <1>0, <2>2 DEF DeletePayment, Goto, Shape
    <3>2. work[r].paid = {}
      BY <1>0 DEF BooksInv, WorkBalances
    <3>3. work'[r] = [work[r] EXCEPT !.gone = {Undone(r)}, !.unposted = {Undone(r)}]
      BY <1>0, <2>2 DEF DeletePayment, Shape
    <3>4. PaymentsFor(r)' = payments \ {Undone(r)}
      <4>1. work'[r].paid = {} /\ work'[r].gone = {Undone(r)}
        BY <1>0, <3>2, <3>3 DEF Work
      <4> QED
        BY <1>0, <4>1 DEF PaymentsFor
    <3>5. Carrying(payments, n) = {Undone(r)}
      BY <2>1, <3>1 DEF SeesReceipt, Accounts, Backing, Undone
    <3>6. Carrying(payments \ {Undone(r)}, n) = {}
      BY <3>5 DEF Carrying
    <3> QED
      BY <1>0, <3>1, <3>4, <3>6, SeesNow DEF Stamping, Settling
  <2>3. CASE WriteStatus(r)
    <3>1. pc[r] = "rewrite" /\ pc'[r] = "load" /\ seen'[r].row = Reopened
      BY <1>0, <2>3 DEF WriteStatus, Goto, Shape, Seen
    <3>2. Carrying(PaymentsFor(r), n) = {}
      BY <2>1, <3>1 DEF SeesReceipt, Stamping, Settling
    <3>3. PaymentsFor(r)' = PaymentsFor(r)
      <4>1. PICK x, i : work' = [work EXCEPT ![r].status[i] = x]
        BY <2>3 DEF WriteStatus
      <4>2. work'[r].paid = work[r].paid /\ work'[r].gone = work[r].gone
        BY <1>0, <4>1 DEF Work, Shape
      <4> QED
        BY <1>0, <4>2 DEF PaymentsFor
    <3> QED
      BY <1>0, <2>1, <3>1, <3>2, <3>3, SeesNow DEF Stamping
  <2> QED
    BY <1>0, <2>2, <2>3
<1> QED
  BY <1>0, <1>1, OpenAccounts

LEMMA AccountInvInit == Init => AccountInv
  BY DEF Init, AccountInv, Accounts, Carrying, Backing, OpenIntent, Active

LEMMA AccountInvNext ==
  BooksInv /\ SessionInv /\ Origins /\ AccountInv /\ [Next]_vars => AccountInv'
<1> SUFFICES ASSUME BooksInv, SessionInv, Origins, AccountInv, [Next]_vars,
                    NEW n \in Intents, Told(n)'
             PROVE  Accounts(n)'
  BY DEF AccountInv
<1>1. ASSUME NEW r \in Requests, Step(r) PROVE Accounts(n)'
  <2>1. /\ Shape /\ OthersSame(r) /\ UNCHANGED job
        /\ (Ends(r) \/ Opens(r) \/ GoesOn(r))
    BY <1>1, StepKeeps, StepMoves DEF BooksInv
  <2>2. Told(n) /\ Accounts(n) /\ OnlyFor(n)
    BY <2>1, ToldBefore DEF AccountInv, Told
  <2>3. CASE Refusal(r)
    <3>1. Refuse(r) /\ Ends(r)
      BY <2>1, <2>3, RefusalRefuses, RefuseEnds
    <3>2. UNCHANGED <<payments, intent>> /\ pc'[r] \in Closed
      BY <3>1 DEF Refuse, bookVars, Ends, Ended, Closed
    <3> QED
      BY <2>1, <2>2, <3>2, OpenAccounts
  <2>4. CASE Reading(r)
    <3>1. UNCHANGED <<payments, intent>>
      BY <2>1, <2>4, ReadingKeeps DEF BooksInv
    <3>2. r \in Concerned(n) => SeesReceipt(r, n)'
      BY <2>2, <2>4, ReadingSees
    <3> QED
      BY <2>1, <2>2, <3>1, <3>2, OpenAccounts
  <2>5. CASE Flip(r)
    <3>1. PICK w, a : /\ Commit(r, w, a) /\ w.paid = {} /\ w.gone = {}
                      /\ \A m \in Intents : w.intent[m] = Nothing
      <4>1. \A x : LET w == [NoWork EXCEPT !.status[Invoice(r)] = x]
                   IN  w.paid = {} /\ w.gone = {} /\ \A m \in Intents : w.intent[m] = Nothing
        BY DEF NoWork
      <4> QED
        BY <2>5, <4>1 DEF Flip
    <3>2. Carrying(w.paid, n) = {} /\ Carrying(w.gone, n) = {} /\ w.intent[n] = Nothing
      BY <3>1 DEF Carrying
    <3> QED
      BY <2>1, <2>2, <3>1, <3>2, CommitAccounts
  <2>6. CASE Replayed(r)
    <3>1. Commit(r, work[r], accruals) /\ r \notin Concerned(n)
      BY <2>1, <2>6, ConcernedKind DEF Replayed
    <3> QED
      BY <2>1, <2>2, <3>1, ElsewhereSilent, CommitAccounts
  <2>7. CASE Book(r) \/ StampIntent(r) \/ DeletePayment(r) \/ WriteStatus(r)
    BY <2>2, <2>7, BookAccounts, StampAccounts, UndoAccounts
  <2> QED
    BY <1>1, <2>3, <2>4, <2>5, <2>6, <2>7, StepKinds DEF Writing
<1>2. CASE UNCHANGED vars
  <2>1. UNCHANGED <<payments, intent, job, met>> /\ UNCHANGED <<work, seen, pc, at>>
    BY <1>2 DEF vars, bookVars
  <2>2. Told(n)
    BY <2>1 DEF Told, Apart, OnlyFor, Concerned
  <2>3. Accounts(n)
    BY <2>2 DEF AccountInv
  <2>4. Carrying(payments, n)' = Backing(intent[n])'
    BY <2>1, <2>3 DEF Accounts, Carrying, Backing
  <2>5. Concerned(n)' = Concerned(n) /\ Active' = Active
    BY <2>1, JobsTell DEF Active
  <2>6. ASSUME NEW r \in Concerned(n), r \in Active PROVE SeesReceipt(r, n)'
    <3>1. SeesReceipt(r, n) /\ r \in Requests
      BY <2>3, <2>6 DEF Accounts, Concerned
    <3>2. /\ PaymentsFor(r)' = PaymentsFor(r) /\ IntentFor(r, n)' = IntentFor(r, n)
          /\ Intent(r)' = Intent(r) /\ Stamping(r)' = Stamping(r) /\ Settling(r)' = Settling(r)
      BY <2>1 DEF PaymentsFor, IntentFor, Intent, Item, Stamping, Settling, Kind
    <3> QED
      BY <2>1, <3>1, <3>2, SeesNow DEF SeesReceipt
  <2> QED
    BY <2>4, <2>5, <2>6 DEF Accounts
<1> QED
  BY <1>1, <1>2 DEF Next, AllEnded

(* For any receipts and requests: a receipt is applied exactly when its    *)
(* one payment is on the books, and an open or dismissed one has none, as  *)
(* long as the requests that name it do not overlap and nothing else pays  *)
(* its slip; whatever other requests do meanwhile, and however often it is *)
(* accepted, undone, dismissed or taken into a batch (accept, undo,        *)
(* dismiss, bulk_accept).                                                  *)
THEOREM ReceiptsAlwaysAccounted == Spec => []ReceiptsAccounted
<1>1. BooksInv /\ Origins /\ AccountInv => ReceiptsAccounted
  <2> SUFFICES ASSUME BooksInv, Origins, AccountInv, NEW n \in Intents, Told(n)
               PROVE  BookedFor(n) =
                        (IF intent[n].status = "applied" THEN {intent[n].payment} ELSE {})
    BY DEF ReceiptsAccounted, Told, Apart, OnlyFor
  <2>1. \A p \in payments : p.slip = SlipOf[n] => p.by \in Concerned(n)
    BY SlipLeads DEF BooksInv, Shape, Origins, BooksOwned, Told
  <2>2. BookedFor(n) = Carrying(payments, n)
    BY <2>1 DEF BookedFor, Carrying
  <2> QED
    BY <2>2 DEF AccountInv, Accounts, Backing
<1> QED
  BY BooksInvInit, BooksInvNext, SessionInvInit, SessionInvNext, OriginsInit, OriginsNext,
     AccountInvInit, AccountInvNext, <1>1, PTL DEF Spec
=============================================================================
