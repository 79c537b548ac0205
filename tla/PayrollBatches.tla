--------------------------- MODULE PayrollBatches ---------------------------
(***************************************************************************)
(* A payroll run computed in the background: the run is enqueued as a      *)
(* batch of one item per employee, a worker claims the batch and computes  *)
(* the items one transaction at a time, tick after tick, and closes batch  *)
(* and run when no item is left (features/payroll_automation/).  Workers   *)
(* die and come back, two of them may bear one name, items fail and are    *)
(* retried, and meanwhile the run is recomputed, approved or voided        *)
(* (features/payroll/service.py).                                          *)
(***************************************************************************)
EXTENDS Integers, FiniteSets

CONSTANTS
  EmployeeCount,
  Unpaid,       \* employees to whom the period owes nothing
  Clerks,       \* requests that enqueue the run
  Workers,      \* background loops and calls of the tick endpoint
  ManualTick,   \* the one name that every call of the endpoint bears
  NameCount,    \* bound of the run: how many names processes ever have
  FirstNames,   \* the names the workers may bear at first
  MaxRetries, ItemsPerTick,
  FirstRuns,    \* statuses of the run at first
  Nobody

Employees == 1..EmployeeCount
Names == 1..NameCount

ASSUME BatchNumbersAssumption ==
  /\ EmployeeCount \in Nat \ {0} /\ NameCount \in Nat
  /\ MaxRetries \in Nat \ {0} /\ ItemsPerTick \in Nat \ {0}
ASSUME BatchNamesAssumption ==
  /\ Unpaid \subseteq Employees /\ ManualTick \in Names
  /\ FirstNames \subseteq [Workers -> Names] /\ Nobody \notin Names
ASSUME BatchRunsAssumption == FirstRuns \subseteq {"draft", "computed"}

VARIABLES
  run,     \* status, and whom it reports as skipped
  entry,   \* of each employee: none, an earlier result, the present one
  batch,   \* status, owner, dry, tally
  item,    \* of each employee: status and attempts
  name,    \* of each worker
  worker,  \* what each worker is at
  clerk,   \* what each clerk is at
  shared   \* two workers have been at the batch at once

records == <<run, entry, batch, item>>
vars == <<records, name, worker, clerk, shared>>

Computable == {"draft", "computed"}
Ended == {"completed", "failed", "aborted"}
NoTally == [done |-> 0, failed |-> 0, skipped |-> 0]
Resting == [at |-> "idle", item |-> 0, result |-> "none", tally |-> NoTally,
            skips |-> {}, left |-> 0, saw |-> "none", dry |-> FALSE]
Away == [at |-> "idle", saw |-> "none", passed |-> FALSE, dry |-> FALSE]

Init ==
  /\ \E s \in FirstRuns :
       /\ run = [status |-> s, skips |-> {}]
       /\ entry = [e \in Employees |->
                     IF s = "computed" /\ e \notin Unpaid THEN "earlier" ELSE "none"]
  /\ batch = [status |-> "none", owner |-> Nobody, dry |-> FALSE, tally |-> NoTally]
  /\ item = [e \in Employees |-> [status |-> "none", tries |-> 0]]
  /\ name \in FirstNames
  /\ worker = [w \in Workers |-> Resting]
  /\ clerk = [c \in Clerks |-> Away]
  /\ shared = FALSE

-----------------------------------------------------------------------------
(* Enqueue: the batch of the run is looked up and the run checked, then    *)
(* the row is created, or an aborted one re-armed, in one transaction.     *)

Enqueue(c, dry, enabled) ==
  /\ clerk[c].at = "idle" /\ batch.status \in {"none", "aborted"}
  /\ clerk' = [clerk EXCEPT ![c] = [at |-> "enqueue", saw |-> batch.status, dry |-> dry,
                                    passed |-> enabled /\ run.status \in Computable]]
  /\ UNCHANGED <<records, name, worker, shared>>

(* The unique key admits one row per run; only an aborted row is re-armed. *)
Rearmable(saw) == batch.status = saw

Submit(c) ==
  LET q == clerk[c]
  IN  /\ q.at = "enqueue"
      /\ IF ~Rearmable(q.saw) THEN UNCHANGED <<batch, item>>
         ELSE /\ batch' = [status |-> IF q.passed THEN "queued" ELSE "aborted",
                           owner |-> Nobody, dry |-> q.dry, tally |-> NoTally]
              /\ item' = [e \in Employees |->
                   IF q.passed /\ item[e].status = "none"
                   THEN [item[e] EXCEPT !.status = "pending"] ELSE item[e]]
      /\ clerk' = [clerk EXCEPT ![c] = Away]
      /\ UNCHANGED <<run, entry, name, worker, shared>>

-----------------------------------------------------------------------------
(* The run, meanwhile: compute_run overwrites every entry, under a guard   *)
(* on the status it read in the same transaction; approve and void are     *)
(* guarded updates.                                                        *)

Recompute ==
  /\ run.status \in Computable
  /\ run' = [status |-> "computed", skips |-> Unpaid]
  /\ entry' = [e \in Employees |-> IF e \in Unpaid THEN "none" ELSE "present"]
  /\ UNCHANGED <<batch, item, name, worker, clerk, shared>>

Approve ==
  /\ run.status = "computed"
  /\ run' = [run EXCEPT !.status = "approved"]
  /\ UNCHANGED <<entry, batch, item, name, worker, clerk, shared>>

Void ==
  /\ run.status # "void"
  /\ run' = [run EXCEPT !.status = "void"]
  /\ UNCHANGED <<entry, batch, item, name, worker, clerk, shared>>

-----------------------------------------------------------------------------
(* One tick of a worker (process_once).                                    *)

Goes(w, there) == worker' = [worker EXCEPT ![w].at = there]
Loops == {w \in Workers : name[w] # ManualTick}
Processes == {w \in Workers : \E names \in FirstNames : names[w] # ManualTick}
AtWork == {w \in Workers : worker[w].at # "idle"}

Resumes(w) == batch.status = "processing" /\ batch.owner = name[w]

(* The claim is committed before any item is.                              *)
ClaimBatch(w) ==
  /\ worker[w].at = "idle" /\ (batch.status = "queued" \/ Resumes(w))
  /\ batch' = [batch EXCEPT !.status = "processing", !.owner = name[w]]
  /\ worker' = [worker EXCEPT ![w] =
       [Resting EXCEPT !.at = "items", !.tally = batch.tally, !.dry = batch.dry,
                       !.left = ItemsPerTick]]
  /\ shared' = (shared \/ AtWork # {})
  /\ UNCHANGED <<run, entry, item, name, clerk>>

(* Fault variant: the retry budget is not looked at.                       *)
Claimable_Always(e) == item[e].status \in {"pending", "failed"}

Claimable(e) ==
  \/ item[e].status = "pending"
  \/ item[e].status = "failed" /\ item[e].tries < MaxRetries

Locked(e) == \E w \in Workers : worker[w].item = e

(* compute_single: a run that is no longer computable raises, as anything  *)
(* else may; otherwise there is an entry, or nothing owed.                 *)
Computed(e) ==
  {"error"} \cup (IF run.status \notin Computable THEN {}
                 ELSE IF e \in Unpaid THEN {"skipped"} ELSE {"done"})

(* The first claimable item that no other transaction has locked, and its  *)
(* computation up to the first write: the claim is seen by nobody before.  *)
ComputeItem(w) ==
  /\ worker[w].at = "items"
  /\ LET open == {e \in Employees : Claimable(e) /\ ~Locked(e)}
     IN  IF open = {} \/ worker[w].left = 0 THEN Goes(w, "count")
         ELSE \E first \in open : \E result \in Computed(first) :
                /\ \A e \in open : first <= e
                /\ worker' = [worker EXCEPT ![w].at = "mark", ![w].left = @ - 1,
                                            ![w].item = first, ![w].result = result]
  /\ UNCHANGED <<records, name, clerk, shared>>

Retryable(e) == item[e].tries + 1 < MaxRetries
Outcome(w) ==
  IF worker[w].result # "error" THEN worker[w].result
  ELSE IF Retryable(worker[w].item) THEN "retried" ELSE "failed"

(* Fault variant: an item that failed for good is counted as done.         *)
Counted_AllDone(tally, outcome) ==
  IF outcome = "retried" THEN tally
  ELSE IF outcome = "failed" THEN [tally EXCEPT !.done = @ + 1]
  ELSE [tally EXCEPT ![outcome] = @ + 1]

Counted(tally, outcome) ==
  IF outcome = "retried" THEN tally ELSE [tally EXCEPT ![outcome] = @ + 1]

(* Fault variant: an attempt that failed does not count.                   *)
Attempts_Same(tries) == tries

Attempts(tries) == tries + 1

Writes(w) == worker[w].result = "done" /\ ~worker[w].dry

(* The checkpoint: entry, item and tally in one transaction.  After a      *)
(* failure that will be retried the rest of the tick is given up.          *)
Checkpoint(w) ==
  LET e == worker[w].item
      outcome == Outcome(w)
      counted == Counted(worker[w].tally, outcome)
  IN  /\ worker[w].at = "mark"
      /\ entry' = IF Writes(w) THEN [entry EXCEPT ![e] = "present"] ELSE entry
      /\ item' = [item EXCEPT ![e] =
           IF worker[w].result = "error"
           THEN [status |-> "failed", tries |-> Attempts(@.tries)]
           ELSE [@ EXCEPT !.status = "done"]]
      /\ batch' = IF batch.status \in Ended THEN batch ELSE [batch EXCEPT !.tally = counted]
      /\ worker' = [worker EXCEPT
           ![w].at = IF outcome = "retried" THEN "count" ELSE "items",
           ![w].item = 0, ![w].result = "none", ![w].tally = counted,
           ![w].skips = IF outcome = "skipped" THEN @ \cup {e} ELSE @]
      /\ UNCHANGED <<run, name, clerk, shared>>

(* Fault variant: the batch is closed when the tick is over.               *)
Drained_Tick == TRUE

Drained == \A e \in Employees : ~Claimable(e)

CountClaimable(w) ==
  /\ worker[w].at = "count"
  /\ IF ~Drained THEN worker' = [worker EXCEPT ![w] = Resting]
     ELSE worker' = [worker EXCEPT ![w].at = "close", ![w].saw = run.status, ![w].left = 0]
  /\ UNCHANGED <<records, name, clerk, shared>>

(* finalize_compute succeeds when the run still has the status it read.    *)
RunCloses(w) == worker[w].saw \in Computable /\ run.status = worker[w].saw
BatchResult(w) == IF worker[w].dry \/ RunCloses(w) THEN "completed" ELSE "failed"

(* Fault variant: a batch that is closed already is closed again.          *)
ClosesBatch_Any == TRUE

ClosesBatch == batch.status = "processing"

CloseBatch(w) ==
  /\ worker[w].at = "close"
  /\ run' = IF ~worker[w].dry /\ RunCloses(w)
            THEN [status |-> "computed", skips |-> worker[w].skips] ELSE run
  /\ batch' = IF ClosesBatch
              THEN [batch EXCEPT !.status = BatchResult(w), !.tally = worker[w].tally]
              ELSE batch
  /\ worker' = [worker EXCEPT ![w] = Resting]
  /\ UNCHANGED <<entry, item, name, clerk, shared>>

(* An error of the database leaves nothing of the transaction, the retry   *)
(* it was about to count included; the process may also be gone.           *)
Fail(w) ==
  /\ worker[w].at # "idle"
  /\ worker' = [worker EXCEPT ![w] = Resting]
  /\ UNCHANGED <<records, name, clerk, shared>>

(* A process that comes back has the host name and process number it had,  *)
(* or others.                                                              *)
Restart(w) ==
  /\ w \in Loops
  /\ worker' = [worker EXCEPT ![w] = Resting]
  /\ \E n \in Names : /\ \A v \in Workers : name[v] < n
                      /\ name' = [name EXCEPT ![w] = n]
  /\ UNCHANGED <<records, clerk, shared>>

Tick(w) ==
  \/ ClaimBatch(w) \/ ComputeItem(w) \/ Checkpoint(w)
  \/ CountClaimable(w) \/ CloseBatch(w)

Next ==
  \/ \E c \in Clerks :
       \/ \E dry, enabled \in BOOLEAN : Enqueue(c, dry, enabled)
       \/ Submit(c)
  \/ Recompute \/ Approve \/ Void
  \/ \E w \in Workers : Tick(w) \/ Fail(w) \/ Restart(w)

Spec == Init /\ [][Next]_vars

(* The loop polls for ever, and no step of it fails for ever.              *)
FairSpec ==
  /\ Spec
  /\ \A w \in Processes :
       /\ SF_vars(w \in Loops /\ ClaimBatch(w)) /\ SF_vars(w \in Loops /\ ComputeItem(w))
       /\ SF_vars(w \in Loops /\ Checkpoint(w))
       /\ SF_vars(w \in Loops /\ CountClaimable(w)) /\ SF_vars(w \in Loops /\ CloseBatch(w))

-----------------------------------------------------------------------------
(* Type correctness.                                                       *)
Tally == [done : 0..EmployeeCount, failed : 0..EmployeeCount, skipped : 0..EmployeeCount]

BatchTypeOK ==
  /\ run \in [status : {"draft", "computed", "approved", "void"}, skips : SUBSET Employees]
  /\ entry \in [Employees -> {"none", "earlier", "present"}]
  /\ batch \in [status : {"none", "queued", "processing"} \cup Ended,
                owner : Names \cup {Nobody}, dry : BOOLEAN, tally : Tally]
  /\ item \in [Employees -> [status : {"none", "pending", "done", "failed"}, tries : 0..MaxRetries]]
  /\ name \in [Workers -> Names] /\ shared \in BOOLEAN

Count(S) == Cardinality(S)
DoneItems == {e \in Employees : item[e].status = "done"}

(* The tally is the tally of the items: what a checkpoint counted is what  *)
(* it marked, over every crash and retry, as long as no two workers were   *)
(* at the batch at once.                                                   *)
TallyTells ==
  ~shared =>
    /\ batch.tally.done = Count(DoneItems \ Unpaid)
    /\ batch.tally.skipped = Count(DoneItems \cap Unpaid)
    /\ batch.tally.failed =
         Count({e \in Employees : item[e].status = "failed" /\ item[e].tries = MaxRetries})

(* A closed batch is whole, whatever crashed before and whoever shared it: *)
(* every item was computed or failed as often as it may, and every         *)
(* employee computed and owed has the entry of a batch that is not dry.    *)
ClosedIsWhole ==
  batch.status \in {"completed", "failed"} =>
    \A e \in Employees :
      /\ item[e].status = "done" \/ item[e].tries = MaxRetries
      /\ item[e].status = "done" /\ e \notin Unpaid /\ ~batch.dry => entry[e] = "present"

(* A closed batch stays closed, and a dry batch changes no entry.          *)
ClosedStays ==
  [][/\ batch.status \in {"completed", "failed"} => batch'.status = batch.status
     /\ batch.dry /\ (\E w \in Workers : worker'[w] # worker[w]) => entry' = entry]_vars

(* A batch that a loop owns ends, unless the loop comes back under another *)
(* name; and a queued batch is claimed.                                    *)
BatchEnds ==
  \A w \in Processes :
    /\ batch.status = "queued" /\ w \in Loops ~> batch.status # "queued"
    /\ batch.status = "processing" /\ w \in Loops /\ batch.owner = name[w]
         ~> batch.status \in Ended \/ batch.owner # name[w]

(* Two workers never get the same batch.                                   *)
NeverSharedBatch == ~shared

(* The entries of an approved run are never changed.                       *)
EntriesImmutable == [][run.status = "approved" => entry' = entry]_vars

(* A run that a batch computed reports everyone the batch skipped.         *)
SkipsReported ==
  batch.status = "completed" /\ ~batch.dry => DoneItems \cap Unpaid \subseteq run.skips
=============================================================================
