---------------------------- MODULE PayrollProofs ----------------------------
(***************************************************************************)
(* Proofs about PayrollBatches, for any numbers of employees, workers,     *)
(* clerks, names and retries: a closed batch is whole and stays closed,    *)
(* and an item that is finished is not worked on again.                    *)
(***************************************************************************)
EXTENDS PayrollBatches, FiniteSetTheorems, TLAPS

RunStatus == {"draft", "computed", "approved", "void"}
Tallies == [done : Nat, failed : Nat, skipped : Nat]
AtWorker == [at : {"idle", "items", "mark", "count", "close"}, item : 0..EmployeeCount,
             result : {"none", "done", "skipped", "error"}, tally : Tallies,
             skips : SUBSET Employees, left : 0..ItemsPerTick,
             saw : RunStatus \cup {"none"}, dry : BOOLEAN]
AtClerk == [at : {"idle", "enqueue"}, saw : {"none", "aborted"}, passed : BOOLEAN,
            dry : BOOLEAN]
BatchRow == [status : {"none", "queued", "processing"} \cup Ended,
             owner : Names \cup {Nobody}, dry : BOOLEAN, tally : Tallies]
ItemRow == [status : {"none", "pending", "done", "failed"}, tries : 0..MaxRetries]

(* Every variable is of its kind; the tally is only known to count.        *)
Shape ==
  /\ run \in [status : RunStatus, skips : SUBSET Employees]
  /\ entry \in [Employees -> {"none", "earlier", "present"}]
  /\ batch \in BatchRow
  /\ item \in [Employees -> ItemRow]
  /\ name \in [Workers -> Names]
  /\ worker \in [Workers -> AtWorker]
  /\ clerk \in [Clerks -> AtClerk]
  /\ shared \in BOOLEAN

Unarmed == {"none", "aborted"}
Closed == {"completed", "failed"}

(* Before a batch is armed it has no items and nobody is at it; from then  *)
(* on it has an item for everyone.  An item nobody has failed at has no    *)
(* attempts to its name.                                                   *)
ItemsAsArmed ==
  /\ batch.status \in Unarmed => /\ \A e \in Employees : item[e].status = "none"
                                 /\ \A w \in Workers : worker[w].at = "idle"
  /\ batch.status \notin Unarmed => \A e \in Employees : item[e].status # "none"
  /\ \A e \in Employees : item[e].status \in {"none", "pending"} => item[e].tries = 0

(* A worker that computes an item has locked it, and may: it is claimable, *)
(* and stays so since nobody else is at it.                                *)
MarkClaimed(w) ==
  /\ worker[w].at # "mark" => worker[w].item = 0
  /\ worker[w].at = "mark" =>
       /\ worker[w].item \in Employees /\ Claimable(worker[w].item)
       /\ worker[w].result # "none"
       /\ worker[w].result = "done" => worker[w].item \notin Unpaid
       /\ worker[w].result = "skipped" => worker[w].item \in Unpaid

MarksClaimed == \A w \in Workers : MarkClaimed(w)

(* No item is computed by two workers at once, under one name or two       *)
(* (claim_next_item skips what is locked).                                 *)
OneWorkerPerItem ==
  \A v, w \in Workers : v # w /\ worker[v].item # 0 => worker[v].item # worker[w].item

(* What a worker knows of the batch is still so: whether it is dry, and    *)
(* when it is about to close it, that nothing is left to claim.            *)
WorkersInformed ==
  \A w \in Workers :
    /\ worker[w].at # "idle" => worker[w].dry = batch.dry
    /\ worker[w].at = "close" => Drained

ClosedDrained == batch.status \in Closed => Drained

(* An item is done when the entry it owes is there.                        *)
DoneHasEntry ==
  \A e \in Employees :
    item[e].status = "done" /\ e \notin Unpaid /\ ~batch.dry => entry[e] = "present"

WholeInv ==
  /\ Shape /\ ItemsAsArmed /\ MarksClaimed /\ OneWorkerPerItem
  /\ WorkersInformed /\ ClosedDrained /\ DoneHasEntry

-----------------------------------------------------------------------------
(* A tally that counts one more outcome is a tally.                        *)
LEMMA CountedTallies ==
  ASSUME NEW tally \in Tallies, NEW outcome \in {"done", "failed", "skipped", "retried"}
  PROVE  Counted(tally, outcome) \in Tallies
<1>1. CASE outcome = "retried"
  BY <1>1 DEF Counted
<1>2. CASE outcome = "done"
  BY <1>2 DEF Counted, Tallies
<1>3. CASE outcome = "failed"
  BY <1>3 DEF Counted, Tallies
<1>4. CASE outcome = "skipped"
  BY <1>4 DEF Counted, Tallies
<1> QED
  BY <1>1, <1>2, <1>3, <1>4

(* The invariant holds at the start.                                       *)
LEMMA WholeInit == Init => WholeInv
<1> SUFFICES ASSUME Init PROVE WholeInv
  OBVIOUS
<1> USE BatchNumbersAssumption, BatchNamesAssumption, BatchRunsAssumption
<1>1. Shape
  <2>1. run \in [status : RunStatus, skips : SUBSET Employees]
    BY DEF Init, RunStatus
  <2>2. entry \in [Employees -> {"none", "earlier", "present"}]
    BY DEF Init
  <2>3. batch \in BatchRow
    BY DEF Init, BatchRow, Tallies, NoTally
  <2>4. item \in [Employees -> ItemRow]
    BY DEF Init, ItemRow
  <2>5. worker \in [Workers -> AtWorker]
    <3>1. Resting \in AtWorker
      BY DEF Resting, AtWorker, Tallies, NoTally, Employees
    <3> QED
      BY <3>1 DEF Init
  <2>6. clerk \in [Clerks -> AtClerk]
    BY DEF Init, Away, AtClerk
  <2>7. name \in [Workers -> Names] /\ shared \in BOOLEAN
    BY DEF Init
  <2> QED
    BY <2>1, <2>2, <2>3, <2>4, <2>5, <2>6, <2>7 DEF Shape
<1>2. \A w \in Workers : worker[w].at = "idle" /\ worker[w].item = 0
  BY DEF Init, Resting
<1>3. /\ batch.status = "none"
      /\ \A e \in Employees : item[e].status = "none" /\ item[e].tries = 0
  BY DEF Init
<1>4. ItemsAsArmed /\ ClosedDrained /\ DoneHasEntry
  BY <1>2, <1>3 DEF ItemsAsArmed, Unarmed, ClosedDrained, Closed, DoneHasEntry
<1>5. MarksClaimed /\ OneWorkerPerItem /\ WorkersInformed
  BY <1>2 DEF MarksClaimed, MarkClaimed, OneWorkerPerItem, WorkersInformed
<1> QED
  BY <1>1, <1>4, <1>5 DEF WholeInv

-----------------------------------------------------------------------------
(* One lemma for each action: it keeps the invariant.                      *)

LEMMA EnqueueKeeps ==
  ASSUME WholeInv, NEW c \in Clerks, NEW dry \in BOOLEAN, NEW enabled \in BOOLEAN,
         Enqueue(c, dry, enabled)
  PROVE  WholeInv'
<1>1. UNCHANGED <<run, entry, batch, item, name, worker, shared>>
  BY DEF Enqueue, records
<1>2. clerk' \in [Clerks -> AtClerk]
  BY DEF WholeInv, Shape, Enqueue, AtClerk, BatchRow
<1>3. Shape'
  BY <1>1, <1>2 DEF WholeInv, Shape
<1> QED
  BY <1>1, <1>3 DEF WholeInv, ItemsAsArmed, MarksClaimed, MarkClaimed, OneWorkerPerItem,
       WorkersInformed, ClosedDrained, DoneHasEntry, Drained, Claimable

(* Arming finds no items and no worker: it gives everyone an item.         *)
LEMMA SubmitKeeps ==
  ASSUME WholeInv, NEW c \in Clerks, Submit(c)
  PROVE  WholeInv'
<1>1. UNCHANGED <<run, entry, name, worker, shared>>
  BY DEF Submit
<1>2. clerk' \in [Clerks -> AtClerk]
  BY DEF WholeInv, Shape, Submit, AtClerk, Away
<1>3. CASE ~Rearmable(clerk[c].saw)
  <2>1. UNCHANGED <<batch, item>>
    BY <1>3 DEF Submit
  <2>2. Shape'
    BY <1>1, <1>2, <2>1 DEF WholeInv, Shape
  <2> QED
    BY <1>1, <2>1, <2>2 DEF WholeInv, ItemsAsArmed, MarksClaimed, MarkClaimed, OneWorkerPerItem,
         WorkersInformed, ClosedDrained, DoneHasEntry, Drained, Claimable
<1>4. CASE Rearmable(clerk[c].saw)
  <2> DEFINE q == clerk[c]
  <2>1. q \in AtClerk
    BY DEF WholeInv, Shape
  <2>2. batch.status \in Unarmed
    BY <1>4, <2>1 DEF Rearmable, AtClerk, Unarmed
  <2>3. /\ \A e \in Employees : item[e].status = "none"
        /\ \A w \in Workers : worker[w].at = "idle"
    BY <2>2 DEF WholeInv, ItemsAsArmed
  <2>4. batch' = [status |-> IF q.passed THEN "queued" ELSE "aborted",
                  owner |-> Nobody, dry |-> q.dry, tally |-> NoTally]
    BY <1>4 DEF Submit
  <2>5. item' = [e \in Employees |-> IF q.passed /\ item[e].status = "none"
                                     THEN [item[e] EXCEPT !.status = "pending"] ELSE item[e]]
    BY <1>4 DEF Submit
  <2>6. \A e \in Employees :
          /\ item'[e].status = IF q.passed THEN "pending" ELSE "none"
          /\ item'[e].tries = 0
    BY <2>3, <2>5 DEF WholeInv, Shape, ItemRow, ItemsAsArmed
  <2>7. batch' \in BatchRow
    BY <2>1, <2>4 DEF BatchRow, AtClerk, Tallies, NoTally, Ended
  <2>8. item' \in [Employees -> ItemRow]
    BY <2>5 DEF WholeInv, Shape, ItemRow
  <2>9. Shape'
    BY <1>1, <1>2, <2>7, <2>8 DEF WholeInv, Shape
  <2>10. \A w \in Workers : worker'[w].at = "idle" /\ worker'[w].item = 0
    BY <1>1, <2>3 DEF WholeInv, MarksClaimed, MarkClaimed
  <2>11. ItemsAsArmed'
    BY <2>1, <2>4, <2>6, <2>10 DEF ItemsAsArmed, Unarmed, AtClerk
  <2>12. MarksClaimed' /\ OneWorkerPerItem' /\ WorkersInformed'
    BY <2>10 DEF MarksClaimed, MarkClaimed, OneWorkerPerItem, WorkersInformed
  <2>13. ClosedDrained'
    BY <2>4 DEF ClosedDrained, Closed
  <2>14. DoneHasEntry'
    BY <2>6 DEF DoneHasEntry
  <2> QED
    BY <2>9, <2>11, <2>12, <2>13, <2>14 DEF WholeInv
<1> QED
  BY <1>3, <1>4

(* A computation of the whole run gives everyone who is owed an entry.     *)
LEMMA RecomputeKeeps ==
  ASSUME WholeInv, Recompute
  PROVE  WholeInv'
<1>1. UNCHANGED <<batch, item, name, worker, clerk, shared>>
  BY DEF Recompute
<1>2. run' \in [status : RunStatus, skips : SUBSET Employees]
  BY BatchNamesAssumption DEF Recompute, RunStatus
<1>3. entry' = [e \in Employees |-> IF e \in Unpaid THEN "none" ELSE "present"]
  BY DEF Recompute
<1>4. Shape'
  BY <1>1, <1>2, <1>3 DEF WholeInv, Shape
<1>5. DoneHasEntry'
  BY <1>3 DEF DoneHasEntry
<1> QED
  BY <1>1, <1>4, <1>5 DEF WholeInv, ItemsAsArmed, MarksClaimed, MarkClaimed, OneWorkerPerItem,
       WorkersInformed, ClosedDrained, Drained, Claimable

LEMMA ReviewKeeps ==
  ASSUME WholeInv, Approve \/ Void
  PROVE  WholeInv'
<1>1. UNCHANGED <<entry, batch, item, name, worker, clerk, shared>>
  BY DEF Approve, Void
<1>2. run' \in [status : RunStatus, skips : SUBSET Employees]
  BY DEF WholeInv, Shape, Approve, Void, RunStatus
<1>3. Shape'
  BY <1>1, <1>2 DEF WholeInv, Shape
<1> QED
  BY <1>1, <1>3 DEF WholeInv, ItemsAsArmed, MarksClaimed, MarkClaimed, OneWorkerPerItem,
       WorkersInformed, ClosedDrained, DoneHasEntry, Drained, Claimable

(* Steps of one worker that leave items and entries alone and neither arm  *)
(* the batch nor close it early: what is left to show is about that worker.*)
LEMMA WorkerMoves ==
  ASSUME WholeInv, NEW w \in Workers, NEW row \in AtWorker,
         worker' = [worker EXCEPT ![w] = row],
         UNCHANGED <<entry, item, clerk>>,
         run' \in [status : RunStatus, skips : SUBSET Employees],
         name' \in [Workers -> Names], shared' \in BOOLEAN,
         batch' \in BatchRow, batch'.dry = batch.dry,
         batch'.status = batch.status
           \/ /\ batch.status \notin Unarmed /\ batch'.status \notin Unarmed
              /\ batch'.status \in Closed => Drained,
         row.at # "idle" => batch.status \notin Unarmed /\ row.dry = batch.dry,
         row.at = "close" => Drained,
         row.at # "mark" => row.item = 0,
         row.at = "mark" =>
           /\ row.item \in Employees /\ Claimable(row.item)
           /\ row.result # "none"
           /\ row.result = "done" => row.item \notin Unpaid
           /\ row.result = "skipped" => row.item \in Unpaid
           /\ \A v \in Workers : worker[v].item # row.item
  PROVE  WholeInv'
<1>1. worker \in [Workers -> AtWorker] /\ worker' \in [Workers -> AtWorker]
  BY DEF WholeInv, Shape
<1>2. worker'[w] = row /\ \A v \in Workers \ {w} : worker'[v] = worker[v]
  BY <1>1
<1>3. Shape'
  BY <1>1 DEF WholeInv, Shape
<1>4. ItemsAsArmed'
  BY <1>2 DEF WholeInv, ItemsAsArmed
<1>5. MarksClaimed'
  BY <1>2 DEF WholeInv, MarksClaimed, MarkClaimed, Claimable
<1>6. OneWorkerPerItem'
  <2> SUFFICES ASSUME NEW u \in Workers, NEW v \in Workers, u # v, worker'[u].item # 0
               PROVE  worker'[u].item # worker'[v].item
    BY DEF OneWorkerPerItem
  <2>1. CASE u = w
    <3>1. row.at = "mark"
      BY <1>2, <2>1
    <3> QED
      BY <1>2, <2>1, <3>1
  <2>2. CASE v = w
    BY <1>2, <2>2
  <2>3. CASE u # w /\ v # w
    BY <1>2, <2>3 DEF WholeInv, OneWorkerPerItem
  <2> QED
    BY <2>1, <2>2, <2>3
<1>7. WorkersInformed'
  BY <1>2 DEF WholeInv, WorkersInformed, Drained, Claimable
<1>8. ClosedDrained' /\ DoneHasEntry'
  BY DEF WholeInv, ClosedDrained, DoneHasEntry, Drained, Claimable
<1> QED
  BY <1>3, <1>4, <1>5, <1>6, <1>7, <1>8 DEF WholeInv

LEMMA RestingIsRow == Resting \in AtWorker /\ Resting.at = "idle" /\ Resting.item = 0
BY BatchNumbersAssumption DEF Resting, AtWorker, Tallies, NoTally, Employees

LEMMA ClaimKeeps ==
  ASSUME WholeInv, NEW w \in Workers, ClaimBatch(w)
  PROVE  WholeInv'
<1> DEFINE row == [Resting EXCEPT !.at = "items", !.tally = batch.tally,
                                  !.dry = batch.dry, !.left = ItemsPerTick]
<1>1. row \in AtWorker
  <2>1. batch.tally \in Tallies /\ batch.dry \in BOOLEAN
    BY DEF WholeInv, Shape, BatchRow
  <2>2. 0 \in 0..EmployeeCount /\ ItemsPerTick \in 0..ItemsPerTick
    BY BatchNumbersAssumption
  <2> QED
    BY <2>1, <2>2 DEF Resting, AtWorker
<1>2. row.at = "items" /\ row.dry = batch.dry /\ row.item = 0
  BY DEF Resting
<1>3. worker' = [worker EXCEPT ![w] = row] /\ UNCHANGED <<run, entry, item, name, clerk>>
  BY DEF ClaimBatch
<1>4. /\ batch' \in BatchRow /\ batch'.dry = batch.dry
      /\ batch.status \notin Unarmed /\ batch'.status = "processing"
  BY DEF WholeInv, Shape, ClaimBatch, Resumes, BatchRow, Unarmed
<1>5. shared' \in BOOLEAN
  BY DEF WholeInv, Shape, ClaimBatch
<1>6. /\ run' \in [status : RunStatus, skips : SUBSET Employees]
      /\ name' \in [Workers -> Names]
  BY <1>3 DEF WholeInv, Shape
<1>7. batch'.status \notin Unarmed /\ batch'.status \notin Closed
  BY <1>4 DEF Unarmed, Closed
<1> HIDE DEF row
<1> QED
  BY <1>1, <1>2, <1>3, <1>4, <1>5, <1>6, <1>7, WorkerMoves

(* The item is claimable and locked by no other worker.                    *)
LEMMA ComputeKeeps ==
  ASSUME WholeInv, NEW w \in Workers, ComputeItem(w)
  PROVE  WholeInv'
<1> USE BatchNumbersAssumption
<1> DEFINE open == {e \in Employees : Claimable(e) /\ ~Locked(e)}
<1>1. /\ worker[w].at = "items" /\ worker[w] \in AtWorker
      /\ worker \in [Workers -> AtWorker]
  BY DEF WholeInv, Shape, ComputeItem
<1>2. /\ UNCHANGED <<run, entry, batch, item, clerk, name, shared>>
      /\ run' \in [status : RunStatus, skips : SUBSET Employees]
      /\ name' \in [Workers -> Names] /\ shared' \in BOOLEAN
      /\ batch' \in BatchRow
  BY DEF WholeInv, Shape, ComputeItem, records
<1>3. worker[w].item = 0 /\ worker[w].dry = batch.dry /\ batch.status \notin Unarmed
  BY <1>1 DEF WholeInv, MarksClaimed, MarkClaimed, WorkersInformed, ItemsAsArmed
<1>4. CASE open = {} \/ worker[w].left = 0
  <2> DEFINE row == [worker[w] EXCEPT !.at = "count"]
  <2>1. worker' = [worker EXCEPT ![w] = row]
    BY <1>1, <1>4 DEF ComputeItem, Goes
  <2>2. row \in AtWorker /\ row.at = "count" /\ row.item = 0 /\ row.dry = batch.dry
    BY <1>1, <1>3 DEF AtWorker
  <2> HIDE DEF row
  <2> QED
    BY <1>2, <1>3, <2>1, <2>2, WorkerMoves
<1>5. CASE open # {} /\ worker[w].left # 0
  <2>1. PICK first \in open : \E result \in Computed(first) :
          worker' = [worker EXCEPT ![w].at = "mark", ![w].left = @ - 1,
                                   ![w].item = first, ![w].result = result]
    BY <1>5 DEF ComputeItem
  <2>2. PICK result \in Computed(first) :
          worker' = [worker EXCEPT ![w].at = "mark", ![w].left = @ - 1,
                                   ![w].item = first, ![w].result = result]
    BY <2>1
  <2> DEFINE row == [worker[w] EXCEPT !.at = "mark", !.left = @ - 1,
                                      !.item = first, !.result = result]
  <2>3. worker' = [worker EXCEPT ![w] = row]
    BY <1>1, <2>2 DEF AtWorker
  <2>4. /\ result \in {"done", "skipped", "error"}
        /\ result = "done" => first \notin Unpaid
        /\ result = "skipped" => first \in Unpaid
    BY <2>2 DEF Computed
  <2>5. first \in Employees /\ Claimable(first) /\ \A v \in Workers : worker[v].item # first
    BY <2>1 DEF Locked
  <2> HIDE DEF open
  <2>6. row \in AtWorker
    <3>1. first \in 0..EmployeeCount
      BY <2>5 DEF Employees
    <3>2. worker[w].left - 1 \in 0..ItemsPerTick
      <4>1. worker[w].left \in 0..ItemsPerTick
        BY <1>1 DEF AtWorker
      <4> QED
        BY <1>5, <4>1
    <3> QED
      BY <1>1, <2>4, <3>1, <3>2 DEF AtWorker
  <2>7. /\ row.at = "mark" /\ row.item = first /\ row.result = result
        /\ row.dry = batch.dry
    BY <1>1, <1>3 DEF AtWorker
  <2> HIDE DEF row
  <2> QED
    BY <1>2, <1>3, <2>3, <2>4, <2>5, <2>6, <2>7, WorkerMoves
<1> QED
  BY <1>4, <1>5

(* Nobody claims anything once the items are drained, and a checkpoint,    *)
(* which marks a claimable item, does not come after that.                 *)
LEMMA CountKeeps ==
  ASSUME WholeInv, NEW w \in Workers, CountClaimable(w)
  PROVE  WholeInv'
<1>1. /\ worker[w].at = "count" /\ worker[w] \in AtWorker
      /\ worker \in [Workers -> AtWorker]
  BY DEF WholeInv, Shape, CountClaimable
<1>2. /\ UNCHANGED <<run, entry, batch, item, clerk, name, shared>>
      /\ run' \in [status : RunStatus, skips : SUBSET Employees]
      /\ name' \in [Workers -> Names] /\ shared' \in BOOLEAN
      /\ batch' \in BatchRow
  BY DEF WholeInv, Shape, CountClaimable, records
<1>3. worker[w].item = 0 /\ worker[w].dry = batch.dry /\ batch.status \notin Unarmed
  BY <1>1 DEF WholeInv, MarksClaimed, MarkClaimed, WorkersInformed, ItemsAsArmed
<1>4. CASE ~Drained
  <2>1. worker' = [worker EXCEPT ![w] = Resting]
    BY <1>4 DEF CountClaimable
  <2> QED
    BY <1>2, <2>1, RestingIsRow, WorkerMoves
<1>5. CASE Drained
  <2> DEFINE row == [worker[w] EXCEPT !.at = "close", !.saw = run.status, !.left = 0]
  <2>1. worker' = [worker EXCEPT ![w] = row]
    BY <1>1, <1>5 DEF CountClaimable, AtWorker
  <2>2. row \in AtWorker /\ row.at = "close" /\ row.item = 0 /\ row.dry = batch.dry
    <3>1. run.status \in RunStatus
      BY DEF WholeInv, Shape
    <3>2. 0 \in 0..ItemsPerTick
      BY BatchNumbersAssumption
    <3> QED
      BY <1>1, <1>3, <3>1, <3>2 DEF AtWorker
  <2> HIDE DEF row
  <2> QED
    BY <1>2, <1>3, <1>5, <2>1, <2>2, WorkerMoves
<1> QED
  BY <1>4, <1>5

LEMMA CloseKeeps ==
  ASSUME WholeInv, NEW w \in Workers, CloseBatch(w)
  PROVE  WholeInv'
<1>1. /\ worker[w].at = "close" /\ worker[w] \in AtWorker
      /\ worker' = [worker EXCEPT ![w] = Resting]
      /\ UNCHANGED <<entry, item, name, clerk, shared>>
      /\ name' \in [Workers -> Names] /\ shared' \in BOOLEAN
  BY DEF WholeInv, Shape, CloseBatch
<1>2. Drained
  BY <1>1 DEF WholeInv, WorkersInformed
<1>3. run' \in [status : RunStatus, skips : SUBSET Employees]
  BY <1>1 DEF CloseBatch, WholeInv, Shape, AtWorker, RunStatus
<1>4. CASE ClosesBatch
  <2>1. batch' = [batch EXCEPT !.status = BatchResult(w), !.tally = worker[w].tally]
    BY <1>4 DEF CloseBatch
  <2>2. BatchResult(w) \in Closed
    BY DEF BatchResult, Closed
  <2>3. /\ batch' \in BatchRow /\ batch'.dry = batch.dry
        /\ batch.status \notin Unarmed /\ batch'.status \notin Unarmed
    BY <1>1, <1>4, <2>1, <2>2
       DEF ClosesBatch, WholeInv, Shape, BatchRow, AtWorker, Closed, Ended, Unarmed
  <2> QED
    BY <1>1, <1>2, <1>3, <2>3, RestingIsRow, WorkerMoves
<1>5. CASE ~ClosesBatch
  <2>1. batch' = batch /\ batch' \in BatchRow
    BY <1>5 DEF CloseBatch, WholeInv, Shape
  <2> QED
    BY <1>1, <1>3, <2>1, RestingIsRow, WorkerMoves
<1> QED
  BY <1>4, <1>5

LEMMA StopKeeps ==
  ASSUME WholeInv, NEW w \in Workers, Fail(w) \/ Restart(w)
  PROVE  WholeInv'
<1>1. /\ worker' = [worker EXCEPT ![w] = Resting]
      /\ UNCHANGED <<run, entry, batch, item, clerk, shared>>
  BY DEF Fail, Restart, records
<1>2. name' \in [Workers -> Names]
  BY DEF WholeInv, Shape, Fail, Restart
<1>3. /\ run' \in [status : RunStatus, skips : SUBSET Employees]
      /\ batch' \in BatchRow /\ shared' \in BOOLEAN
  BY <1>1 DEF WholeInv, Shape
<1> QED
  BY <1>1, <1>2, <1>3, RestingIsRow, WorkerMoves

(* A checkpoint marks a claimable item and nobody else has it; a finished  *)
(* item was not claimable, and keeps its status, tries and entry.          *)
LEMMA CheckpointTouches ==
  ASSUME WholeInv, NEW w \in Workers, Checkpoint(w)
  PROVE  LET e == worker[w].item
         IN  /\ e \in Employees /\ Claimable(e)
             /\ item'[e].status \in {"done", "failed"}
             /\ item'[e].status = "failed" <=> worker[w].result = "error"
             /\ item' \in [Employees -> ItemRow]
             /\ \A f \in Employees \ {e} : item'[f] = item[f] /\ entry'[f] = entry[f]
             /\ entry' = IF Writes(w) THEN [entry EXCEPT ![e] = "present"] ELSE entry
<1> DEFINE e == worker[w].item
<1> USE BatchNumbersAssumption
<1>1. worker[w].at = "mark"
  BY DEF Checkpoint
<1>2. e \in Employees /\ Claimable(e)
  BY <1>1 DEF WholeInv, MarksClaimed, MarkClaimed
<1>3. item[e] \in ItemRow /\ item \in [Employees -> ItemRow]
  BY <1>2 DEF WholeInv, Shape
<1>4. item[e].tries \in 0..MaxRetries /\ item[e].tries + 1 \in 0..MaxRetries + 1
  BY <1>3 DEF ItemRow
<1>5. /\ item' = [item EXCEPT ![e] = IF worker[w].result = "error"
                    THEN [status |-> "failed", tries |-> item[e].tries + 1]
                    ELSE [item[e] EXCEPT !.status = "done"]]
      /\ entry' = IF Writes(w) THEN [entry EXCEPT ![e] = "present"] ELSE entry
  BY <1>2, <1>3 DEF Checkpoint, Attempts
<1>6. worker[w].result = "error" => item[e].tries + 1 \in 0..MaxRetries
  <2>1. item[e].tries < MaxRetries
    BY <1>2, <1>4 DEF Claimable, WholeInv, ItemsAsArmed
  <2> QED
    BY <1>4, <2>1
<1>7. item'[e] = IF worker[w].result = "error"
                 THEN [status |-> "failed", tries |-> item[e].tries + 1]
                 ELSE [item[e] EXCEPT !.status = "done"]
  BY <1>2, <1>3, <1>5
<1>8. item'[e].status = IF worker[w].result = "error" THEN "failed" ELSE "done"
  BY <1>3, <1>7 DEF ItemRow
<1>9. item' \in [Employees -> ItemRow]
  BY <1>3, <1>5, <1>6 DEF ItemRow
<1>10. \A f \in Employees \ {e} : item'[f] = item[f] /\ entry'[f] = entry[f]
  BY <1>2, <1>3, <1>5 DEF WholeInv, Shape
<1> HIDE DEF e
<1> QED
  BY <1>2, <1>5, <1>8, <1>9, <1>10 DEF e

LEMMA CheckpointKeeps ==
  ASSUME WholeInv, NEW w \in Workers, Checkpoint(w)
  PROVE  WholeInv'
<1> DEFINE e == worker[w].item
<1>1. /\ worker[w].at = "mark" /\ worker[w] \in AtWorker
      /\ worker \in [Workers -> AtWorker]
      /\ UNCHANGED <<run, name, clerk, shared>>
  BY DEF WholeInv, Shape, Checkpoint
<1>2. /\ e \in Employees /\ Claimable(e)
      /\ item'[e].status \in {"done", "failed"}
      /\ item'[e].status = "failed" <=> worker[w].result = "error"
      /\ item' \in [Employees -> ItemRow]
      /\ \A f \in Employees \ {e} : item'[f] = item[f] /\ entry'[f] = entry[f]
      /\ entry' = IF Writes(w) THEN [entry EXCEPT ![e] = "present"] ELSE entry
  BY CheckpointTouches
<1>3. Outcome(w) \in {"done", "failed", "skipped", "retried"}
  BY <1>1 DEF Outcome, AtWorker, WholeInv, MarksClaimed, MarkClaimed
<1>4. Counted(worker[w].tally, Outcome(w)) \in Tallies
  BY <1>1, <1>3, CountedTallies DEF AtWorker
<1>5. batch' \in BatchRow /\ batch'.status = batch.status /\ batch'.dry = batch.dry
  <2>1. batch \in BatchRow
    BY DEF WholeInv, Shape
  <2>2. \/ batch' = batch
        \/ batch' = [batch EXCEPT !.tally = Counted(worker[w].tally, Outcome(w))]
    BY DEF Checkpoint
  <2> QED
    BY <1>4, <2>1, <2>2 DEF BatchRow
<1> DEFINE row == [worker[w] EXCEPT
       !.at = IF Outcome(w) = "retried" THEN "count" ELSE "items",
       !.item = 0, !.result = "none", !.tally = Counted(worker[w].tally, Outcome(w)),
       !.skips = IF Outcome(w) = "skipped" THEN @ \cup {e} ELSE @]
<1>6. worker' = [worker EXCEPT ![w] = row]
  BY <1>1 DEF Checkpoint, AtWorker
<1>7. row \in AtWorker
  <2>1. 0 \in 0..EmployeeCount
    BY BatchNumbersAssumption
  <2> QED
    BY <1>1, <1>2, <1>4, <2>1 DEF AtWorker
<1>8. row.at \in {"items", "count"} /\ row.item = 0 /\ row.dry = worker[w].dry
  BY <1>1 DEF AtWorker
<1> HIDE DEF row
<1>9. worker'[w] = row /\ \A v \in Workers \ {w} : worker'[v] = worker[v]
  BY <1>1, <1>6
<1>10. batch.status \notin Unarmed /\ worker[w].dry = batch.dry
  BY <1>1 DEF WholeInv, ItemsAsArmed, WorkersInformed
<1>11. \A v \in Workers \ {w} : worker[v].item # e
  <2>1. e # 0
    BY <1>2 DEF Employees
  <2> QED
    BY <2>1 DEF WholeInv, OneWorkerPerItem
<1>12. ~Drained
  BY <1>2 DEF Drained
<1>13. Shape'
  <2>1. entry' \in [Employees -> {"none", "earlier", "present"}]
    BY <1>2 DEF WholeInv, Shape
  <2>2. worker' \in [Workers -> AtWorker]
    BY <1>1, <1>6, <1>7
  <2> QED
    BY <1>1, <1>2, <1>5, <2>1, <2>2 DEF WholeInv, Shape
<1>14. ItemsAsArmed'
  <2>1. \A f \in Employees : item'[f].status # "none"
    BY <1>2, <1>10 DEF WholeInv, ItemsAsArmed
  <2>2. \A f \in Employees : item'[f].status \in {"none", "pending"} => item'[f].tries = 0
    BY <1>2 DEF WholeInv, ItemsAsArmed
  <2> QED
    BY <1>5, <1>10, <2>1, <2>2 DEF ItemsAsArmed
<1>15. MarksClaimed'
  <2> SUFFICES ASSUME NEW v \in Workers PROVE MarkClaimed(v)'
    BY DEF MarksClaimed
  <2>1. CASE v = w
    BY <1>8, <1>9, <2>1 DEF MarkClaimed
  <2>2. CASE v # w
    <3>1. worker'[v] = worker[v]
      BY <1>9, <2>2
    <3>2. worker[v].item \in Employees => item'[worker[v].item] = item[worker[v].item]
      BY <1>2, <1>11, <2>2
    <3> QED
      BY <3>1, <3>2 DEF WholeInv, MarksClaimed, MarkClaimed, Claimable
  <2> QED
    BY <2>1, <2>2
<1>16. OneWorkerPerItem'
  <2> SUFFICES ASSUME NEW u \in Workers, NEW v \in Workers, u # v, worker'[u].item # 0
               PROVE  worker'[u].item # worker'[v].item
    BY DEF OneWorkerPerItem
  <2>1. u # w
    BY <1>8, <1>9
  <2>2. CASE v = w
    BY <1>8, <1>9, <2>2
  <2>3. CASE v # w
    BY <1>9, <2>1, <2>3 DEF WholeInv, OneWorkerPerItem
  <2> QED
    BY <2>2, <2>3
<1>17. WorkersInformed' /\ ClosedDrained'
  <2>1. \A v \in Workers : worker'[v].at # "close"
    BY <1>8, <1>9, <1>12 DEF WholeInv, WorkersInformed
  <2>2. \A v \in Workers : worker'[v].at # "idle" => worker'[v].dry = batch'.dry
    BY <1>5, <1>8, <1>9, <1>10 DEF WholeInv, WorkersInformed
  <2>3. batch'.status \notin Closed
    BY <1>5, <1>12 DEF WholeInv, ClosedDrained
  <2> QED
    BY <2>1, <2>2, <2>3 DEF WorkersInformed, ClosedDrained
<1>18. DoneHasEntry'
  <2> SUFFICES ASSUME NEW f \in Employees, item'[f].status = "done", f \notin Unpaid,
                      ~batch'.dry
               PROVE  entry'[f] = "present"
    BY DEF DoneHasEntry
  <2>1. CASE f = e
    <3>1. worker[w].result = "done"
      BY <1>1, <1>2, <2>1 DEF WholeInv, MarksClaimed, MarkClaimed, AtWorker
    <3>2. Writes(w)
      BY <1>5, <1>10, <3>1 DEF Writes
    <3> QED
      BY <1>2, <2>1, <3>2 DEF WholeInv, Shape
  <2>2. CASE f # e
    BY <1>2, <1>5, <2>2 DEF WholeInv, DoneHasEntry
  <2> QED
    BY <2>1, <2>2
<1> QED
  BY <1>13, <1>14, <1>15, <1>16, <1>17, <1>18 DEF WholeInv

LEMMA WholeStep == WholeInv /\ [Next]_vars => WholeInv'
<1> SUFFICES ASSUME WholeInv, [Next]_vars PROVE WholeInv'
  OBVIOUS
<1>1. ASSUME NEW c \in Clerks, NEW dry \in BOOLEAN, NEW enabled \in BOOLEAN,
             Enqueue(c, dry, enabled)
      PROVE  WholeInv'
  BY <1>1, EnqueueKeeps
<1>2. ASSUME NEW c \in Clerks, Submit(c) PROVE WholeInv'
  BY <1>2, SubmitKeeps
<1>3. CASE Recompute
  BY <1>3, RecomputeKeeps
<1>4. CASE Approve \/ Void
  BY <1>4, ReviewKeeps
<1>5. ASSUME NEW w \in Workers, Tick(w) PROVE WholeInv'
  BY <1>5, ClaimKeeps, ComputeKeeps, CheckpointKeeps, CountKeeps, CloseKeeps DEF Tick
<1>6. ASSUME NEW w \in Workers, Fail(w) \/ Restart(w) PROVE WholeInv'
  BY <1>6, StopKeeps
<1>7. CASE UNCHANGED vars
  BY <1>7 DEF vars, records, WholeInv, Shape, ItemsAsArmed, MarksClaimed, MarkClaimed,
       OneWorkerPerItem, WorkersInformed, ClosedDrained, DoneHasEntry, Drained, Claimable
<1> QED
  BY <1>1, <1>2, <1>3, <1>4, <1>5, <1>6, <1>7 DEF Next

LEMMA WholeAlways == Spec => []WholeInv
BY WholeInit, WholeStep, PTL DEF Spec

-----------------------------------------------------------------------------
(* A closed batch is whole: every item was computed or failed as often as  *)
(* it may, and everyone owed has an entry (close_batch after               *)
(* count_claimable, over any crashes, retries and sharing).                *)
THEOREM ClosedAlwaysWhole == Spec => []ClosedIsWhole
<1>1. WholeInv => ClosedIsWhole
  <2> SUFFICES ASSUME WholeInv, batch.status \in Closed, NEW e \in Employees
               PROVE  /\ item[e].status = "done" \/ item[e].tries = MaxRetries
                      /\ item[e].status = "done" /\ e \notin Unpaid /\ ~batch.dry
                           => entry[e] = "present"
    BY DEF ClosedIsWhole, Closed
  <2>1. item[e] \in ItemRow
    BY DEF WholeInv, Shape
  <2>2. item[e].status # "none"
    BY DEF WholeInv, ItemsAsArmed, Closed, Unarmed
  <2>3. ~Claimable(e)
    BY DEF WholeInv, ClosedDrained, Drained
  <2>4. item[e].tries \in 0..MaxRetries /\ MaxRetries \in Nat
    BY <2>1, BatchNumbersAssumption DEF ItemRow
  <2>5. item[e].status = "done" \/ item[e].tries = MaxRetries
    BY <2>1, <2>2, <2>3, <2>4 DEF ItemRow, Claimable
  <2> QED
    BY <2>5 DEF WholeInv, DoneHasEntry
<1> QED
  BY <1>1, WholeAlways, PTL

(* A closed batch stays closed with the status it got, and a worker        *)
(* changes no entry of a dry batch (enqueue, claim_next_batch,             *)
(* update_batch_progress, close_batch).                                    *)
THEOREM ClosedForGood == Spec => ClosedStays
<1> DEFINE StaysClosed ==
      /\ batch.status \in {"completed", "failed"} => batch'.status = batch.status
      /\ batch.dry /\ (\E w \in Workers : worker'[w] # worker[w]) => entry' = entry
<1>1. WholeInv /\ [Next]_vars => [StaysClosed]_vars
  <2> SUFFICES ASSUME WholeInv, Next PROVE StaysClosed
    BY DEF vars
  <2>1. ASSUME NEW c \in Clerks, Submit(c) PROVE StaysClosed
    <3>1. entry' = entry
      BY <2>1 DEF Submit
    <3>2. batch.status \in Closed => ~Rearmable(clerk[c].saw)
      BY DEF WholeInv, Shape, AtClerk, Rearmable, Closed
    <3> QED
      BY <2>1, <3>1, <3>2 DEF Submit, Closed
  <2>2. CASE Recompute \/ Approve \/ Void
    BY <2>2 DEF Recompute, Approve, Void
  <2>3. ASSUME NEW w \in Workers, Checkpoint(w) PROVE StaysClosed
    <3>1. worker[w].dry = batch.dry
      BY <2>3 DEF WholeInv, WorkersInformed, Checkpoint
    <3>2. batch.dry => entry' = entry
      BY <2>3, <3>1 DEF Checkpoint, Writes
    <3>3. batch.status \in Closed => batch' = batch
      BY <2>3 DEF Checkpoint, Closed, Ended
    <3> QED
      BY <3>2, <3>3 DEF Closed
  <2>4. ASSUME NEW w \in Workers, ClaimBatch(w) PROVE StaysClosed
    BY <2>4 DEF ClaimBatch, Resumes
  <2>5. ASSUME NEW w \in Workers, CloseBatch(w) PROVE StaysClosed
    BY <2>5 DEF CloseBatch, ClosesBatch
  <2>6. CASE UNCHANGED <<entry, batch>>
    BY <2>6
  <2>7. ASSUME NEW c \in Clerks, NEW dry \in BOOLEAN, NEW enabled \in BOOLEAN,
               Enqueue(c, dry, enabled)
        PROVE  UNCHANGED <<entry, batch>>
    BY <2>7 DEF Enqueue, records
  <2>8. ASSUME NEW w \in Workers,
               ComputeItem(w) \/ CountClaimable(w) \/ Fail(w) \/ Restart(w)
        PROVE  UNCHANGED <<entry, batch>>
    BY <2>8 DEF ComputeItem, CountClaimable, Fail, Restart, records
  <2> QED
    BY <2>1, <2>2, <2>3, <2>4, <2>5, <2>6, <2>7, <2>8 DEF Next, Tick
<1> QED
  BY <1>1, WholeAlways, PTL DEF Spec, ClosedStays

(* No two workers are ever at one item, whatever their names are           *)
(* (claim_next_item locks the row and skips what is locked).               *)
THEOREM NeverTwoAtOneItem == Spec => []OneWorkerPerItem
<1>1. WholeInv => OneWorkerPerItem
  BY DEF WholeInv
<1> QED
  BY <1>1, WholeAlways, PTL

-----------------------------------------------------------------------------
(* Tallies.  Nobody ever counts more than there is, whoever shares the     *)
(* batch; and as long as nobody shared it, whoever is at it has counted    *)
(* what there is, and the batch is open.                                   *)

PaidItems == DoneItems \ Unpaid
SkippedItems == DoneItems \cap Unpaid
GivenUpItems == {e \in Employees : item[e].status = "failed" /\ item[e].tries = MaxRetries}

Within(t) ==
  /\ t.done <= Count(PaidItems) /\ t.skipped <= Count(SkippedItems)
  /\ t.failed <= Count(GivenUpItems)

Exact(t) ==
  /\ t.done = Count(PaidItems) /\ t.skipped = Count(SkippedItems)
  /\ t.failed = Count(GivenUpItems)

NobodyOvercounts == Within(batch.tally) /\ \A w \in Workers : Within(worker[w].tally)

AloneExact ==
  ~shared =>
    /\ Exact(batch.tally)
    /\ \A w \in AtWork : Exact(worker[w].tally) /\ batch.status = "processing"
    /\ \A v, w \in AtWork : v = w

TallyInv == NobodyOvercounts /\ AloneExact

(* Counting employees.                                                     *)
LEMMA EmployeesCounted ==
  ASSUME NEW S \in SUBSET Employees
  PROVE  /\ IsFiniteSet(S) /\ Count(S) \in 0..EmployeeCount
         /\ \A e : IF e \in S THEN Count(S \cup {e}) = Count(S)
                              ELSE Count(S \cup {e}) = Count(S) + 1
<1>1. EmployeeCount \in Nat \ {0}
  BY BatchNumbersAssumption
<1>2. IsFiniteSet(Employees) /\ Cardinality(Employees) = EmployeeCount
  BY <1>1, FS_Interval DEF Employees
<1>3. IsFiniteSet(S) /\ Cardinality(S) <= EmployeeCount /\ Cardinality(S) \in Nat
  BY <1>2, FS_Subset, FS_CardinalityType
<1>4. \A e : Cardinality(S \cup {e}) = IF e \in S THEN Cardinality(S) ELSE Cardinality(S) + 1
  BY <1>3, FS_AddElement
<1> QED
  BY <1>1, <1>3, <1>4 DEF Count

LEMMA ItemsCounted ==
  /\ PaidItems \in SUBSET Employees /\ Count(PaidItems) \in 0..EmployeeCount
  /\ SkippedItems \in SUBSET Employees /\ Count(SkippedItems) \in 0..EmployeeCount
  /\ GivenUpItems \in SUBSET Employees /\ Count(GivenUpItems) \in 0..EmployeeCount
<1>1. /\ PaidItems \in SUBSET Employees /\ SkippedItems \in SUBSET Employees
      /\ GivenUpItems \in SUBSET Employees
  BY DEF PaidItems, SkippedItems, GivenUpItems, DoneItems
<1> QED
  BY <1>1, EmployeesCounted

LEMMA NothingCounted == Within(NoTally)
  BY ItemsCounted, BatchNumbersAssumption DEF Within, NoTally

(* A step of one worker that marks no item.                                *)
LEMMA WorkerTallies ==
  ASSUME WholeInv, TallyInv, NEW w \in Workers, NEW row \in AtWorker,
         worker' = [worker EXCEPT ![w] = row], UNCHANGED item,
         Within(row.tally), Within(batch'.tally),
         ~shared' =>
           /\ ~shared /\ Exact(batch'.tally) /\ AtWork \subseteq {w}
           /\ row.at # "idle" => Exact(row.tally) /\ batch'.status = "processing"
  PROVE  TallyInv'
<1>1. worker'[w] = row /\ \A v \in Workers \ {w} : worker'[v] = worker[v]
  BY DEF WholeInv, Shape
<1>2. /\ PaidItems' = PaidItems /\ SkippedItems' = SkippedItems
      /\ GivenUpItems' = GivenUpItems
  BY DEF PaidItems, SkippedItems, GivenUpItems, DoneItems
<1>3. NobodyOvercounts'
  <2>1. Within(batch.tally)'
    BY <1>2 DEF Within, Count
  <2>2. ASSUME NEW v \in Workers PROVE Within(worker[v].tally)'
    <3>1. CASE v = w
      BY <1>1, <1>2, <3>1 DEF Within, Count
    <3>2. CASE v # w
      BY <1>1, <1>2, <3>2 DEF TallyInv, NobodyOvercounts, Within, Count
    <3> QED
      BY <3>1, <3>2
  <2> QED
    BY <2>1, <2>2 DEF NobodyOvercounts
<1>4. AloneExact'
  <2> SUFFICES ASSUME ~shared' PROVE /\ Exact(batch.tally)'
                                     /\ \A v \in AtWork' : Exact(worker[v].tally)'
                                                             /\ batch'.status = "processing"
                                     /\ \A u, v \in AtWork' : u = v
    BY DEF AloneExact
  <2>1. AtWork' \subseteq {w} /\ (w \in AtWork' => row.at # "idle")
    BY <1>1 DEF AtWork
  <2>2. Exact(batch.tally)'
    BY <1>2 DEF Exact, Count
  <2>3. ASSUME NEW v \in AtWork' PROVE Exact(worker[v].tally)' /\ batch'.status = "processing"
    BY <1>1, <1>2, <2>1, <2>3 DEF Exact, Count
  <2> QED
    BY <2>1, <2>2, <2>3
<1> QED
  BY <1>3, <1>4 DEF TallyInv

LEMMA TallyInit == Init => TallyInv
<1> SUFFICES ASSUME Init PROVE TallyInv
  OBVIOUS
<1>1. PaidItems = {} /\ SkippedItems = {} /\ GivenUpItems = {} /\ AtWork = {}
  BY DEF Init, PaidItems, SkippedItems, GivenUpItems, DoneItems, AtWork, Resting
<1>2. batch.tally = NoTally /\ \A w \in Workers : worker[w].tally = NoTally
  BY DEF Init, Resting
<1>3. Count({}) = 0
  BY FS_EmptySet DEF Count
<1>4. NobodyOvercounts
  BY <1>2, NothingCounted DEF NobodyOvercounts
<1>5. AloneExact
  BY <1>1, <1>2, <1>3 DEF AloneExact, Exact, NoTally
<1> QED
  BY <1>4, <1>5 DEF TallyInv

(* Arming finds nothing done and nobody at work.                           *)
LEMMA SubmitTallies ==
  ASSUME WholeInv, TallyInv, NEW c \in Clerks, Submit(c)
  PROVE  TallyInv'
<1>1. UNCHANGED <<worker, shared>>
  BY DEF Submit
<1>2. CASE ~Rearmable(clerk[c].saw)
  <2>1. UNCHANGED <<batch, item>>
    BY <1>2 DEF Submit
  <2> QED
    BY <1>1, <2>1 DEF TallyInv, NobodyOvercounts, AloneExact, Within, Exact, Count, AtWork,
       PaidItems, SkippedItems, GivenUpItems, DoneItems
<1>3. CASE Rearmable(clerk[c].saw)
  <2>1. batch.status \in Unarmed
    BY <1>3 DEF WholeInv, Shape, Rearmable, AtClerk, Unarmed
  <2>2. /\ \A e \in Employees : item[e].status = "none" /\ item[e] \in ItemRow
        /\ \A w \in Workers : worker[w].at = "idle"
    BY <2>1 DEF WholeInv, ItemsAsArmed, Shape
  <2>3. \A e \in Employees : item'[e].status \in {"none", "pending"}
    BY <1>3, <2>2 DEF Submit, ItemRow
  <2>4. PaidItems = {} /\ SkippedItems = {} /\ GivenUpItems = {}
    BY <2>2 DEF PaidItems, SkippedItems, GivenUpItems, DoneItems
  <2>5. PaidItems' = {} /\ SkippedItems' = {} /\ GivenUpItems' = {} /\ AtWork' = {}
    BY <1>1, <2>2, <2>3 DEF PaidItems, SkippedItems, GivenUpItems, DoneItems, AtWork
  <2>6. batch'.tally = NoTally /\ Count({}) = 0
    BY <1>3, FS_EmptySet DEF Submit, Count
  <2>7. NobodyOvercounts'
    BY <1>1, <2>4, <2>5, <2>6 DEF TallyInv, NobodyOvercounts, Within, NoTally, Count
  <2>8. AloneExact'
    BY <2>5, <2>6 DEF AloneExact, Exact, NoTally, Count
  <2> QED
    BY <2>7, <2>8 DEF TallyInv
<1> QED
  BY <1>2, <1>3

LEMMA ClaimTallies ==
  ASSUME WholeInv, TallyInv, NEW w \in Workers, ClaimBatch(w)
  PROVE  TallyInv'
<1> DEFINE row == [Resting EXCEPT !.at = "items", !.tally = batch.tally,
                                  !.dry = batch.dry, !.left = ItemsPerTick]
<1>1. row \in AtWorker
  <2>1. batch.tally \in Tallies /\ batch.dry \in BOOLEAN
    BY DEF WholeInv, Shape, BatchRow
  <2>2. 0 \in 0..EmployeeCount /\ ItemsPerTick \in 0..ItemsPerTick
    BY BatchNumbersAssumption
  <2> QED
    BY <2>1, <2>2 DEF Resting, AtWorker
<1>2. row.tally = batch.tally
  BY DEF Resting
<1>3. worker' = [worker EXCEPT ![w] = row] /\ UNCHANGED item
  BY DEF ClaimBatch
<1>4. batch'.tally = batch.tally /\ batch'.status = "processing"
  BY DEF WholeInv, Shape, ClaimBatch, BatchRow
<1>5. ~shared' => ~shared /\ AtWork = {}
  BY DEF WholeInv, Shape, ClaimBatch
<1> HIDE DEF row
<1> QED
  BY <1>1, <1>2, <1>3, <1>4, <1>5, WorkerTallies DEF TallyInv, NobodyOvercounts, AloneExact

(* A step that leaves the batch and the items alone and counts nothing.    *)
LEMMA QuietTallies ==
  ASSUME WholeInv, TallyInv, NEW w \in Workers, NEW row \in AtWorker,
         worker' = [worker EXCEPT ![w] = row], UNCHANGED <<item, batch, shared>>,
         row.tally = worker[w].tally \/ (row.tally = NoTally /\ row.at = "idle"),
         worker[w].at # "idle" \/ row.at = "idle"
  PROVE  TallyInv'
<1>1. Within(row.tally) /\ Within(batch'.tally)
  BY NothingCounted DEF TallyInv, NobodyOvercounts
<1>2. CASE worker[w].at # "idle"
  <2>1. w \in AtWork
    BY <1>2 DEF AtWork
  <2>2. ~shared' =>
           /\ ~shared /\ Exact(batch'.tally) /\ AtWork \subseteq {w}
           /\ row.at # "idle" => Exact(row.tally) /\ batch'.status = "processing"
    BY <2>1 DEF TallyInv, AloneExact
  <2> QED
    BY <1>1, <2>2, WorkerTallies
<1>3. CASE worker[w].at = "idle"
  <2>1. worker'[w] = row /\ \A v \in Workers \ {w} : worker'[v] = worker[v]
    BY DEF WholeInv, Shape
  <2>2. AtWork' = AtWork /\ \A v \in AtWork : worker'[v] = worker[v]
    BY <1>3, <2>1 DEF AtWork
  <2>3. /\ PaidItems' = PaidItems /\ SkippedItems' = SkippedItems
        /\ GivenUpItems' = GivenUpItems
    BY DEF PaidItems, SkippedItems, GivenUpItems, DoneItems
  <2>4. AloneExact'
    BY <2>2, <2>3 DEF TallyInv, AloneExact, Exact, Count
  <2>5. NobodyOvercounts'
    BY <1>1, <2>1, <2>3 DEF TallyInv, NobodyOvercounts, Within, Count
  <2> QED
    BY <2>4, <2>5 DEF TallyInv
<1> QED
  BY <1>2, <1>3

LEMMA ComputeTallies ==
  ASSUME WholeInv, TallyInv, NEW w \in Workers, ComputeItem(w)
  PROVE  TallyInv'
<1>1. /\ worker[w].at = "items" /\ worker[w] \in AtWorker /\ worker \in [Workers -> AtWorker]
      /\ UNCHANGED <<item, batch, shared>>
  BY DEF WholeInv, Shape, ComputeItem, records
<1>2. /\ worker' \in [Workers -> AtWorker] /\ worker'[w].tally = worker[w].tally
      /\ worker' = [worker EXCEPT ![w] = worker'[w]]
  <2>1. worker' \in [Workers -> AtWorker]
    BY ComputeKeeps DEF WholeInv, Shape
  <2> DEFINE open == {e \in Employees : Claimable(e) /\ ~Locked(e)}
  <2>2. worker'[w].tally = worker[w].tally /\ \A v \in Workers \ {w} : worker'[v] = worker[v]
    <3>1. CASE worker' = [worker EXCEPT ![w].at = "count"]
      BY <1>1, <3>1 DEF AtWorker
    <3>2. CASE \E first \in open : \E result \in Computed(first) :
                 worker' = [worker EXCEPT ![w].at = "mark", ![w].left = worker[w].left - 1,
                                          ![w].item = first, ![w].result = result]
      <4>1. PICK first \in open : \E result \in Computed(first) :
              worker' = [worker EXCEPT ![w].at = "mark", ![w].left = worker[w].left - 1,
                                       ![w].item = first, ![w].result = result]
        BY <3>2
      <4>2. PICK result \in Computed(first) :
              worker' = [worker EXCEPT ![w].at = "mark", ![w].left = worker[w].left - 1,
                                       ![w].item = first, ![w].result = result]
        BY <4>1
      <4> HIDE DEF open
      <4> QED
        BY <1>1, <4>2 DEF AtWorker
    <3> QED
      BY <3>1, <3>2, Zenon DEF ComputeItem, Goes
  <2> QED
    BY <1>1, <2>1, <2>2
<1> QED
  BY <1>1, <1>2, QuietTallies

LEMMA CountTallies ==
  ASSUME WholeInv, TallyInv, NEW w \in Workers, CountClaimable(w)
  PROVE  TallyInv'
<1>1. /\ worker[w].at = "count" /\ worker[w] \in AtWorker /\ worker \in [Workers -> AtWorker]
      /\ UNCHANGED <<item, batch, shared>>
  BY DEF WholeInv, Shape, CountClaimable, records
<1>2. CASE ~Drained
  BY <1>1, <1>2, RestingIsRow, QuietTallies DEF CountClaimable, Resting
<1>3. CASE Drained
  <2>1. worker' \in [Workers -> AtWorker]
    BY CountKeeps DEF WholeInv, Shape
  <2>2. worker'[w].tally = worker[w].tally /\ \A v \in Workers \ {w} : worker'[v] = worker[v]
    BY <1>1, <1>3 DEF CountClaimable, AtWorker
  <2>3. worker' = [worker EXCEPT ![w] = worker'[w]]
    BY <1>1, <2>1, <2>2
  <2> QED
    BY <1>1, <2>1, <2>2, <2>3, QuietTallies
<1> QED
  BY <1>2, <1>3

LEMMA CloseTallies ==
  ASSUME WholeInv, TallyInv, NEW w \in Workers, CloseBatch(w)
  PROVE  TallyInv'
<1>1. /\ w \in AtWork /\ worker' = [worker EXCEPT ![w] = Resting]
      /\ UNCHANGED <<item, shared>>
  BY DEF AtWork, CloseBatch
<1>2. batch'.tally \in {batch.tally, worker[w].tally}
  BY DEF CloseBatch, WholeInv, Shape, BatchRow
<1>3. Within(batch'.tally) /\ Within(Resting.tally)
  BY <1>2, NothingCounted DEF TallyInv, NobodyOvercounts, Resting
<1>4. ~shared' => ~shared /\ Exact(batch'.tally) /\ AtWork \subseteq {w}
  BY <1>1, <1>2 DEF TallyInv, AloneExact
<1> QED
  BY <1>1, <1>3, <1>4, RestingIsRow, WorkerTallies

LEMMA StopTallies ==
  ASSUME WholeInv, TallyInv, NEW w \in Workers, Fail(w) \/ Restart(w)
  PROVE  TallyInv'
<1>1. /\ worker' = [worker EXCEPT ![w] = Resting]
      /\ UNCHANGED <<item, batch, shared>>
  BY DEF Fail, Restart, records
<1> QED
  BY <1>1, RestingIsRow, QuietTallies DEF Resting

(* A checkpoint counts one outcome, and moves one item to where it is      *)
(* counted: the item was claimable, so it was in none of the counts.       *)
LEMMA CheckpointCounts ==
  ASSUME WholeInv, NEW w \in Workers, Checkpoint(w)
  PROVE  LET o == Outcome(w)
         IN  /\ o \in {"done", "skipped", "failed", "retried"}
             /\ Count(PaidItems') = Count(PaidItems) + (IF o = "done" THEN 1 ELSE 0)
             /\ Count(SkippedItems') = Count(SkippedItems) + (IF o = "skipped" THEN 1 ELSE 0)
             /\ Count(GivenUpItems') = Count(GivenUpItems) + (IF o = "failed" THEN 1 ELSE 0)
<1> DEFINE e == worker[w].item
           o == Outcome(w)
           result == worker[w].result
<1>1. /\ e \in Employees /\ Claimable(e) /\ item[e] \in ItemRow /\ worker[w] \in AtWorker
      /\ MaxRetries \in Nat \ {0} /\ worker[w].at = "mark"
      /\ \A f \in Employees \ {e} : item'[f] = item[f]
  BY CheckpointTouches, BatchNumbersAssumption DEF WholeInv, Shape, Checkpoint
<1>2. /\ result \in {"done", "skipped", "error"}
      /\ result = "done" => e \notin Unpaid
      /\ result = "skipped" => e \in Unpaid
  BY <1>1 DEF WholeInv, MarksClaimed, MarkClaimed, AtWorker
<1>3. item'[e] = IF result = "error" THEN [status |-> "failed", tries |-> item[e].tries + 1]
                 ELSE [item[e] EXCEPT !.status = "done"]
  BY <1>1 DEF Checkpoint, Attempts, WholeInv, Shape
<1>4. item[e].tries \in Nat /\ item[e].tries < MaxRetries
  BY <1>1 DEF Claimable, WholeInv, ItemsAsArmed, ItemRow
<1>5. o = IF result # "error" THEN result
          ELSE IF item[e].tries + 1 < MaxRetries THEN "retried" ELSE "failed"
  BY DEF Outcome, Retryable
<1>6. e \notin DoneItems /\ e \notin GivenUpItems
  BY <1>1, <1>4 DEF Claimable, DoneItems, GivenUpItems
<1>7. /\ item'[e].status = IF result = "error" THEN "failed" ELSE "done"
      /\ result = "error" => item'[e].tries = item[e].tries + 1
  BY <1>1, <1>3 DEF ItemRow
<1>8. /\ o \in {"done", "skipped"} <=> item'[e].status = "done"
      /\ o = "failed" <=> (item'[e].status = "failed" /\ item'[e].tries = MaxRetries)
      /\ o = "done" => e \notin Unpaid
      /\ o = "skipped" => e \in Unpaid
      /\ o \in {"done", "skipped", "failed", "retried"}
  BY <1>1, <1>2, <1>4, <1>5, <1>7
<1> HIDE DEF e, o, result
<1>9. DoneItems' = IF o \in {"done", "skipped"} THEN DoneItems \cup {e} ELSE DoneItems
  BY <1>1, <1>6, <1>8 DEF DoneItems
<1>10. GivenUpItems' = IF o = "failed" THEN GivenUpItems \cup {e} ELSE GivenUpItems
  BY <1>1, <1>6, <1>8 DEF GivenUpItems
<1>11. /\ PaidItems' = IF o = "done" THEN PaidItems \cup {e} ELSE PaidItems
       /\ SkippedItems' = IF o = "skipped" THEN SkippedItems \cup {e} ELSE SkippedItems
       /\ e \notin PaidItems /\ e \notin SkippedItems
  BY <1>6, <1>8, <1>9 DEF PaidItems, SkippedItems
<1>12. /\ Count(PaidItems \cup {e}) = Count(PaidItems) + 1
       /\ Count(SkippedItems \cup {e}) = Count(SkippedItems) + 1
       /\ Count(GivenUpItems \cup {e}) = Count(GivenUpItems) + 1
  BY <1>6, <1>11, ItemsCounted, EmployeesCounted
<1>13. /\ Count(PaidItems') = Count(PaidItems) + (IF o = "done" THEN 1 ELSE 0)
       /\ Count(SkippedItems') = Count(SkippedItems) + (IF o = "skipped" THEN 1 ELSE 0)
       /\ Count(GivenUpItems') = Count(GivenUpItems) + (IF o = "failed" THEN 1 ELSE 0)
  BY <1>10, <1>11, <1>12, ItemsCounted
<1> QED
  BY <1>8, <1>13 DEF o

LEMMA CheckpointTallies ==
  ASSUME WholeInv, TallyInv, NEW w \in Workers, Checkpoint(w)
  PROVE  TallyInv'
<1>1. PICK counted : counted = Counted(worker[w].tally, Outcome(w))
  OBVIOUS
<1>2. PICK d \in {0, 1}, s \in {0, 1}, f \in {0, 1} :
        /\ Count(PaidItems)' = Count(PaidItems) + d
        /\ Count(SkippedItems)' = Count(SkippedItems) + s
        /\ Count(GivenUpItems)' = Count(GivenUpItems) + f
        /\ counted.done = worker[w].tally.done + d
        /\ counted.skipped = worker[w].tally.skipped + s
        /\ counted.failed = worker[w].tally.failed + f
  <2> DEFINE o == Outcome(w)
  <2>1. /\ o \in {"done", "skipped", "failed", "retried"}
        /\ Count(PaidItems)' = Count(PaidItems) + (IF o = "done" THEN 1 ELSE 0)
        /\ Count(SkippedItems)' = Count(SkippedItems) + (IF o = "skipped" THEN 1 ELSE 0)
        /\ Count(GivenUpItems)' = Count(GivenUpItems) + (IF o = "failed" THEN 1 ELSE 0)
    BY CheckpointCounts DEF Count
  <2>2. worker[w].tally \in Tallies
    BY DEF WholeInv, Shape, AtWorker
  <2> HIDE DEF o
  <2>3. /\ counted.done = worker[w].tally.done + (IF o = "done" THEN 1 ELSE 0)
        /\ counted.skipped = worker[w].tally.skipped + (IF o = "skipped" THEN 1 ELSE 0)
        /\ counted.failed = worker[w].tally.failed + (IF o = "failed" THEN 1 ELSE 0)
    <3>1. counted = Counted(worker[w].tally, o)
      BY <1>1 DEF o
    <3>2. CASE o = "done"
      BY <2>2, <3>1, <3>2 DEF Counted, Tallies
    <3>3. CASE o = "skipped"
      BY <2>2, <3>1, <3>3 DEF Counted, Tallies
    <3>4. CASE o = "failed"
      BY <2>2, <3>1, <3>4 DEF Counted, Tallies
    <3>5. CASE o = "retried"
      BY <2>2, <3>1, <3>5 DEF Counted, Tallies
    <3> QED
      BY <2>1, <3>2, <3>3, <3>4, <3>5
  <2> QED
    BY <2>1, <2>3
<1>3. /\ worker[w].at = "mark" /\ w \in AtWork /\ UNCHANGED shared
      /\ worker'[w].tally = counted /\ worker'[w].at \in {"count", "items"}
      /\ \A v \in Workers \ {w} : worker'[v] = worker[v]
  BY <1>1 DEF Checkpoint, AtWork, WholeInv, Shape, AtWorker
<1>4. /\ batch'.status = batch.status
      /\ batch'.tally = IF batch.status \in Ended THEN batch.tally ELSE counted
  BY <1>1 DEF Checkpoint, WholeInv, Shape, BatchRow
<1>5. /\ batch.tally \in Tallies /\ batch'.tally \in Tallies
      /\ \A v \in Workers : worker[v].tally \in Tallies /\ worker'[v].tally \in Tallies
  BY CheckpointKeeps DEF WholeInv, Shape, BatchRow, AtWorker
<1>6. /\ Count(PaidItems) \in Nat /\ Count(SkippedItems) \in Nat /\ Count(GivenUpItems) \in Nat
  BY ItemsCounted, BatchNumbersAssumption
<1>7. NobodyOvercounts'
  <2>1. /\ \A t \in Tallies : Within(t) =>
             /\ t.done <= Count(PaidItems)' /\ t.skipped <= Count(SkippedItems)'
             /\ t.failed <= Count(GivenUpItems)'
        /\ counted.done <= Count(PaidItems)' /\ counted.skipped <= Count(SkippedItems)'
        /\ counted.failed <= Count(GivenUpItems)'
    <3>1. Within(worker[w].tally) /\ worker[w].tally \in Tallies
      BY <1>5 DEF TallyInv, NobodyOvercounts
    <3> QED
      BY <1>2, <1>6, <3>1 DEF Within, Tallies
  <2>2. \A v \in Workers : worker'[v].tally = counted
                             \/ (worker'[v].tally \in Tallies /\ Within(worker'[v].tally))
    BY <1>3, <1>5 DEF TallyInv, NobodyOvercounts
  <2>3. batch'.tally = counted \/ (batch'.tally \in Tallies /\ Within(batch'.tally))
    BY <1>4, <1>5 DEF TallyInv, NobodyOvercounts
  <2> QED
    BY <2>1, <2>2, <2>3 DEF NobodyOvercounts, Within
<1>8. AloneExact'
  <2> SUFFICES ASSUME ~shared PROVE /\ Exact(batch.tally)'
                                    /\ \A v \in AtWork' : Exact(worker[v].tally)'
                                                            /\ batch'.status = "processing"
                                    /\ \A u, v \in AtWork' : u = v
    BY <1>3 DEF AloneExact
  <2>1. AtWork \subseteq {w} /\ Exact(worker[w].tally) /\ batch.status = "processing"
    BY <1>3 DEF TallyInv, AloneExact
  <2>2. AtWork' \subseteq {w} /\ batch'.tally = counted
    BY <1>3, <1>4, <2>1 DEF AtWork, Ended
  <2>3. /\ counted.done = Count(PaidItems)' /\ counted.skipped = Count(SkippedItems)'
        /\ counted.failed = Count(GivenUpItems)'
    BY <1>2, <2>1 DEF Exact
  <2>4. Exact(batch.tally)'
    BY <2>2, <2>3 DEF Exact
  <2>5. ASSUME NEW v \in AtWork' PROVE Exact(worker[v].tally)'
    BY <1>3, <2>2, <2>3, <2>5 DEF Exact
  <2> QED
    BY <1>4, <2>1, <2>2, <2>4, <2>5
<1> QED
  BY <1>7, <1>8 DEF TallyInv

LEMMA TallyStep == WholeInv /\ TallyInv /\ [Next]_vars => TallyInv'
<1> SUFFICES ASSUME WholeInv, TallyInv, [Next]_vars PROVE TallyInv'
  OBVIOUS
<1>1. ASSUME UNCHANGED <<batch, item, worker, shared>> PROVE TallyInv'
  BY <1>1 DEF TallyInv, NobodyOvercounts, AloneExact, Within, Exact, Count, AtWork,
     PaidItems, SkippedItems, GivenUpItems, DoneItems
<1>2. ASSUME NEW c \in Clerks, NEW dry \in BOOLEAN, NEW enabled \in BOOLEAN,
             Enqueue(c, dry, enabled)
      PROVE  TallyInv'
  BY <1>1, <1>2 DEF Enqueue, records
<1>3. ASSUME NEW c \in Clerks, Submit(c) PROVE TallyInv'
  BY <1>3, SubmitTallies
<1>4. CASE Recompute \/ Approve \/ Void
  BY <1>1, <1>4 DEF Recompute, Approve, Void
<1>5. ASSUME NEW w \in Workers, Tick(w) PROVE TallyInv'
  BY <1>5, ClaimTallies, ComputeTallies, CheckpointTallies, CountTallies, CloseTallies DEF Tick
<1>6. ASSUME NEW w \in Workers, Fail(w) \/ Restart(w) PROVE TallyInv'
  BY <1>6, StopTallies
<1>7. CASE UNCHANGED vars
  BY <1>1, <1>7 DEF vars, records
<1> QED
  BY <1>2, <1>3, <1>4, <1>5, <1>6, <1>7 DEF Next

LEMMA TallyAlways == Spec => [](WholeInv /\ TallyInv)
BY WholeInit, WholeStep, TallyInit, TallyStep, PTL DEF Spec

(* Every variable is of its type; in particular no tally ever counts more  *)
(* items than the batch has, however many workers share it (the tally is   *)
(* carried in memory from item to item and written at each checkpoint).    *)
THEOREM BatchTypes == Spec => []BatchTypeOK
<1>1. WholeInv /\ TallyInv => BatchTypeOK
  <2> SUFFICES ASSUME WholeInv, TallyInv PROVE BatchTypeOK
    OBVIOUS
  <2>1. /\ Count(PaidItems) \in 0..EmployeeCount /\ Count(SkippedItems) \in 0..EmployeeCount
        /\ Count(GivenUpItems) \in 0..EmployeeCount /\ EmployeeCount \in Nat
    BY ItemsCounted, BatchNumbersAssumption
  <2>2. batch.tally \in Tallies /\ Within(batch.tally) /\ batch \in BatchRow
    BY DEF WholeInv, Shape, BatchRow, TallyInv, NobodyOvercounts
  <2>3. batch.tally \in Tally
    BY <2>1, <2>2 DEF Within, Tallies, Tally
  <2> QED
    BY <2>2, <2>3 DEF WholeInv, Shape, BatchTypeOK, BatchRow, ItemRow, RunStatus
<1> QED
  BY <1>1, TallyAlways, PTL

(* As long as no two workers were at the batch at once, its tally is the   *)
(* tally of its items, over every crash, restart and retry: what a         *)
(* checkpoint counts is what it marks, and a tick starts from the tally it *)
(* finds (claim_batch, the checkpoint of process_once, close_batch).       *)
THEOREM TallyAlwaysTells == Spec => []TallyTells
<1>1. TallyInv => TallyTells
  BY DEF TallyInv, AloneExact, Exact, TallyTells, PaidItems, SkippedItems, GivenUpItems
<1> QED
  BY <1>1, TallyAlways, PTL
=============================================================================
