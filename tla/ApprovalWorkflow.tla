-------------------------- MODULE ApprovalWorkflow --------------------------
(***************************************************************************)
(* Approvals: a draft journal entry or a computed payroll run is submitted,*)
(* waits on one human step after another, and is posted or approved by the *)
(* transaction that takes the last decision                                *)
(* (features/approval_workflow/, finance/approval.py, payroll/approval.py).*)
(* Meanwhile documents are voided, the fiscal period is closed, and the    *)
(* worker of each process marks overdue steps.  Each request is one        *)
(* transaction at READ COMMITTED: what it wrote is seen, and undone, with  *)
(* its end.                                                                *)
(***************************************************************************)
EXTENDS Integers, Sequences, FiniteSets

CONSTANTS
  Documents,   \* journal entries and payroll runs
  FirstStatuses, \* what they may be at first: open or void
  PayrollRuns, \* those of them that are payroll runs
  Requests,    \* transactions in progress at once, passes of the workers among them
  LastInstance, \* bound of the run: how many workflow instances there can be
  Submissions, \* bound of the run: and of each document
  StepCount,   \* steps of the active definition
  AutoSteps,   \* of each document: how many steps its amount may approve at once
  EngineFlag,  \* the values the tenant's flag takes: is the engine on
  Choices,     \* decisions taken by hand
  Nobody, Direct

ASSUME ApprovalNamesAssumption ==
  /\ PayrollRuns \subseteq Documents /\ Nobody \notin Documents
  /\ FirstStatuses \subseteq [Documents -> {"open", "void"}]
  /\ LastInstance \in Nat /\ Submissions \in [Documents -> 0..LastInstance]
  /\ Nobody # Direct /\ {Nobody, Direct} \cap (1..LastInstance) = {}
ASSUME ApprovalStepsAssumption ==
  /\ StepCount \in Nat \ {0}
  /\ AutoSteps \in [Documents -> SUBSET (0..StepCount)]
ASSUME ApprovalChoicesAssumption ==
  /\ EngineFlag \subseteq BOOLEAN
  /\ Choices \subseteq {"approved", "rejected", "request_changes"}

Instances == 1..LastInstance
Steps == 1..StepCount

VARIABLES
  document,  \* draft or computed: open; posted or approved: done; void
  doneBy,    \* what posted or approved it: an instance, or a direct call
  closed,    \* the fiscal period of the entries
  instance,  \* status, current step, document
  step,      \* of each instance and step: its status
  trail,     \* of each instance and step: the transitions recorded
  request

records == <<document, doneBy, closed, instance, step, trail>>
vars == <<records, request>>

Settled == {"approved", "auto_approved"}
Undecided == {"pending", "escalated"}
InstanceStatus == {"absent", "pending", "rejected", "request_changes"} \cup Settled
StepStatus == Undecided \cup {"approved", "rejected"}
Marks == Instances \X Steps

Idle == [at |-> "idle", job |-> "none", doc |-> Nobody, of |-> Nobody, step |-> 0,
         saw |-> "none", later |-> {}, choice |-> "none", todo |-> <<>>, marked |-> {}]

Init ==
  /\ document \in FirstStatuses
  /\ doneBy = [d \in Documents |-> Nobody]
  /\ closed = FALSE
  /\ instance = [i \in Instances |-> [status |-> "absent", current |-> 1, doc |-> Nobody]]
  /\ step = [i \in Instances |-> [s \in Steps |-> "pending"]]
  /\ trail = [i \in Instances |-> [s \in Steps |-> <<>>]]
  /\ request = [r \in Requests |-> Idle]

-----------------------------------------------------------------------------
(* Row locks, held from the guarded update to the end of the transaction.  *)

(* Fault variant: a failed request leaves its rows locked.                 *)
Free_Keeps(r) == request' = [request EXCEPT ![r].at = "failed"]

Free(r) == request' = [request EXCEPT ![r] = Idle]

HoldsStep(r, i, s) ==
  \/ <<i, s>> \in request[r].marked
  \/ /\ request[r].job = "decide" /\ request[r].of = i /\ request[r].step = s
     /\ request[r].at \in {"complete", "settle", "commit", "failed"}
StepLocked(r, i, s) == \E q \in Requests \ {r} : HoldsStep(q, i, s)

(* The document row is written last, so the writers are about to commit.   *)
Writes(r) == request[r].at = "commit" /\ request[r].doc # Nobody
DocumentLocked(r, d) == \E q \in Requests \ {r} : Writes(q) /\ request[q].doc = d

Goes(r, there) == request' = [request EXCEPT ![r].at = there]

-----------------------------------------------------------------------------
(* Submission: post_journal_entry or approve_run, up to the engine.  The   *)
(* instance and its steps are inserted, and seen from the commit on.       *)

PeriodOpen(d) == d \in PayrollRuns \/ ~closed
Taken(i) == instance[i].status # "absent" \/ \E r \in Requests : request[r].of = i
NextInstance(d) == {i \in 1..Submissions[d] : ~Taken(i) /\ \A j \in 1..(i - 1) : Taken(j)}

Submit(r, d) ==
  /\ request[r].at = "idle" /\ document[d] = "open" /\ PeriodOpen(d)
  /\ \/ /\ FALSE \in EngineFlag
        /\ request' = [request EXCEPT ![r] =
             [Idle EXCEPT !.at = "complete", !.job = "direct", !.doc = d]]
     \/ /\ TRUE \in EngineFlag
        /\ \E i \in NextInstance(d), auto \in AutoSteps[d] :
             request' = [request EXCEPT ![r] =
               [Idle EXCEPT !.at = IF auto = StepCount THEN "complete" ELSE "queue",
                            !.job = "submit", !.of = i, !.doc = d, !.step = auto]]
  /\ UNCHANGED records

(* What the commit of a submission writes: the steps its amount approves   *)
(* at once, in order, and the first other step to wait on.                 *)
Queued(q) ==
  LET Auto(s) == s <= q.step
  IN  /\ instance' = [instance EXCEPT ![q.of] =
           IF q.step = StepCount
           THEN [status |-> "auto_approved", current |-> StepCount, doc |-> q.doc]
           ELSE [status |-> "pending", current |-> q.step + 1, doc |-> q.doc]]
      /\ step' = [step EXCEPT ![q.of] =
           [s \in Steps |-> IF Auto(s) THEN "approved" ELSE "pending"]]
      /\ trail' = [trail EXCEPT ![q.of] =
           [s \in Steps |-> IF Auto(s) THEN << <<"pending", "approved">> >> ELSE <<>>]]

Queue(r) ==
  /\ request[r].at = "queue"
  /\ Queued(request[r])
  /\ Free(r)
  /\ UNCHANGED <<document, doneBy, closed>>

-----------------------------------------------------------------------------
(* Decision: decide(), on the current step of a pending instance.          *)

Decide(r, i, choice) ==
  /\ request[r].at = "idle" /\ instance[i].status = "pending"
  /\ request' = [request EXCEPT ![r] =
       [Idle EXCEPT !.at = "steps", !.job = "decide", !.of = i,
                    !.step = instance[i].current, !.choice = choice]]
  /\ UNCHANGED records

(* The steps that were pending after this one, as the request read them.   *)
Later(i, s) == {t \in (s + 1)..StepCount : step[i][t] = "pending"}

(* The step is decided already, the actor is none of its assignees nor     *)
(* their delegate: nothing is written.                                     *)
ReadSteps(r) ==
  LET i == request[r].of  s == request[r].step
  IN  /\ request[r].at = "steps"
      /\ \/ /\ step[i][s] \in Undecided
            /\ request' = [request EXCEPT ![r].at = "update", ![r].saw = step[i][s],
                                          ![r].later = Later(i, s)]
         \/ Free(r)
      /\ UNCHANGED records

(* Fault variant: the update is not conditional on the step being open.    *)
StepOpen_Any(i, s) == TRUE

StepOpen(i, s) == step[i][s] \in Undecided

(* Fault variant: the port is called whatever the last decision was.       *)
Dispatched_Always(q) == q.later = {}

(* The port moves the document only on an approval.                        *)
Dispatched(q) == q.later = {} /\ q.choice = "approved"

(* The guarded update of the step; the loser of a race is refused.         *)
UpdateStep(r) ==
  LET q == request[r]
  IN  /\ q.at = "update" /\ ~StepLocked(r, q.of, q.step)
      /\ IF ~StepOpen(q.of, q.step) THEN Free(r)
         ELSE IF Dispatched(q)
         THEN request' = [request EXCEPT ![r].at = "complete", ![r].doc = instance[q.of].doc]
         ELSE Goes(r, "commit")
      /\ UNCHANGED records

StepResult(choice) == IF choice = "approved" THEN "approved" ELSE "rejected"

(* What the commit of a decision writes: the step, its transition, and the *)
(* instance, advanced to the first later step or completed.                *)
Decided(q) ==
  /\ step' = [step EXCEPT ![q.of][q.step] = StepResult(q.choice)]
  /\ trail' = [trail EXCEPT ![q.of][q.step] = Append(@, <<q.saw, StepResult(q.choice)>>)]
  /\ instance' = [instance EXCEPT ![q.of] =
       IF q.later = {} THEN [@ EXCEPT !.status = q.choice, !.current = q.step]
       ELSE [@ EXCEPT !.status = "pending",
                      !.current = CHOOSE t \in q.later : \A u \in q.later : t <= u]]

-----------------------------------------------------------------------------
(* The authoritative step: complete_posting, or complete_approval.  Its    *)
(* refusal takes the decision, or the submission, back with it.            *)

Complete(r) ==
  LET d == request[r].doc
  IN  /\ request[r].at = "complete"
      /\ IF document[d] = "open" /\ PeriodOpen(d) THEN Goes(r, "settle") ELSE Free(r)
      /\ UNCHANGED records

(* Fault variant: a document that is no longer open is passed over.        *)
Settles_Quietly(d) == TRUE

(* The guarded update found the row still draft, or computed.              *)
Settles(d) == document[d] = "open"

Settle(r) ==
  LET d == request[r].doc
  IN  /\ request[r].at = "settle" /\ ~DocumentLocked(r, d)
      /\ IF Settles(d) THEN Goes(r, "commit") ELSE Free(r)
      /\ UNCHANGED records

(* void_journal_entry, from draft only; void_run, from computed or         *)
(* approved, guarded on the status it read.                                *)
Voidable(d) == IF d \in PayrollRuns THEN {"open", "done"} ELSE {"open"}

Void(r, d) ==
  /\ request[r].at = "idle" /\ document[d] \in Voidable(d)
  /\ request' = [request EXCEPT ![r] =
       [Idle EXCEPT !.at = "void", !.job = "void", !.doc = d, !.saw = document[d]]]
  /\ UNCHANGED records

UpdateVoid(r) ==
  LET q == request[r]
  IN  /\ q.at = "void" /\ ~DocumentLocked(r, q.doc)
      /\ IF document[q.doc] = q.saw THEN Goes(r, "commit") ELSE Free(r)
      /\ UNCHANGED records

ClosePeriod(r) ==
  /\ request[r].at = "idle" /\ ~closed
  /\ request' = [request EXCEPT ![r] = [Idle EXCEPT !.at = "commit", !.job = "close"]]
  /\ UNCHANGED records

-----------------------------------------------------------------------------
(* Escalation: a pass lists the overdue current steps, marks them one at a *)
(* time and commits once.  Every process runs passes, and so does the      *)
(* command line: they overlap each other as they overlap decisions.        *)

(* Fault variant: any pending step of the instance may be overdue.         *)
WaitedOn_Any(i, s) == TRUE

WaitedOn(i, s) == s = instance[i].current

Overdue == {m \in Marks : /\ instance[m[1]].status = "pending"
                          /\ step[m[1]][m[2]] = "pending"
                          /\ WaitedOn(m[1], m[2])}

(* The rows come by their due time, those of one time in any order.        *)
ListOverdue(r) ==
  /\ request[r].at = "idle"
  /\ \E n \in Instances : \E rows \in [1..n -> Overdue] :
       /\ \A j, k \in 1..n : rows[j] = rows[k] => j = k
       /\ request' = [request EXCEPT ![r] =
            [Idle EXCEPT !.at = "mark", !.job = "escalate", !.todo = rows]]
  /\ UNCHANGED records

(* Fault variant: the mark is not conditional on the step being pending.   *)
Unmarked_Any(i, s) == TRUE

Unmarked(i, s) == step[i][s] = "pending"

(* A step that is not pending does not match, so its lock is not waited    *)
(* for; the loser of a race leaves the step, and its trail, alone.         *)
Mark(r) ==
  LET q == request[r]  m == Head(q.todo)
  IN  /\ q.at = "mark"
      /\ ~(Unmarked(m[1], m[2]) /\ StepLocked(r, m[1], m[2]))
      /\ request' = [request EXCEPT ![r].todo = Tail(@),
                       ![r].marked = IF Unmarked(m[1], m[2]) THEN @ \cup {m} ELSE @,
                       ![r].at = IF Tail(q.todo) = <<>> THEN "commit" ELSE "mark"]
      /\ UNCHANGED records

Escalated(marked) ==
  /\ step' = [i \in Instances |-> [s \in Steps |->
       IF <<i, s>> \in marked THEN "escalated" ELSE step[i][s]]]
  /\ trail' = [i \in Instances |-> [s \in Steps |->
       IF <<i, s>> \in marked THEN Append(trail[i][s], <<"pending", "escalated">>)
       ELSE trail[i][s]]]

-----------------------------------------------------------------------------
(* The end of a transaction.                                               *)

DocumentDone(q) ==
  IF q.doc = Nobody THEN UNCHANGED <<document, doneBy>>
  ELSE /\ document' = [document EXCEPT ![q.doc] = "done"]
       /\ doneBy' = [doneBy EXCEPT ![q.doc] = IF q.job = "direct" THEN Direct ELSE q.of]

Commit(r) ==
  LET q == request[r]
  IN  /\ q.at = "commit"
      /\ \/ /\ q.job = "direct" /\ DocumentDone(q)
            /\ UNCHANGED <<closed, instance, step, trail>>
         \/ /\ q.job = "submit" /\ DocumentDone(q) /\ Queued(q)
            /\ UNCHANGED closed
         \/ /\ q.job = "decide" /\ DocumentDone(q) /\ Decided(q)
            /\ UNCHANGED closed
         \/ /\ q.job = "void" /\ document' = [document EXCEPT ![q.doc] = "void"]
            /\ UNCHANGED <<doneBy, closed, instance, step, trail>>
         \/ /\ q.job = "close" /\ closed' = TRUE
            /\ UNCHANGED <<document, doneBy, instance, step, trail>>
         \/ /\ q.job = "escalate" /\ Escalated(q.marked)
            /\ UNCHANGED <<document, doneBy, closed, instance>>
      /\ Free(r)

(* The process or its connection is lost: the database rolls back.         *)
Abort(r) ==
  /\ request[r].at \notin {"idle", "failed"}
  /\ Free(r)
  /\ UNCHANGED records

(* Two passes that mark the same steps in opposite orders wait for each    *)
(* other; PostgreSQL ends the cycle by failing one of them.                *)
WaitsFor(r) ==
  LET q == request[r]  m == Head(q.todo)
  IN  CASE q.at = "mark" /\ Unmarked(m[1], m[2]) ->
             {p \in Requests \ {r} : HoldsStep(p, m[1], m[2])}
        [] q.at = "update" /\ StepOpen(q.of, q.step) ->
             {p \in Requests \ {r} : HoldsStep(p, q.of, q.step)}
        [] q.at \in {"settle", "void"} ->
             {p \in Requests \ {r} : Writes(p) /\ request[p].doc = q.doc}
        [] OTHER -> {}

OnWaitCycle(r) ==
  \E S \in SUBSET Requests :
    /\ r \in S
    /\ \A p \in S : WaitsFor(p) \cap S # {} /\ \E q \in S : p \in WaitsFor(q)

DeadlockVictim(r) == OnWaitCycle(r) /\ Free(r) /\ UNCHANGED records

-----------------------------------------------------------------------------
Progress(r) ==
  \/ Queue(r) \/ ReadSteps(r) \/ UpdateStep(r) \/ Complete(r) \/ Settle(r)
  \/ UpdateVoid(r) \/ Mark(r) \/ Commit(r) \/ DeadlockVictim(r)

Next ==
  \E r \in Requests :
    \/ \E d \in Documents : Submit(r, d) \/ Void(r, d)
    \/ \E i \in Instances, choice \in Choices : Decide(r, i, choice)
    \/ ClosePeriod(r) \/ ListOverdue(r)
    \/ Progress(r) \/ Abort(r)

Spec == Init /\ [][Next]_vars
FairSpec == Spec /\ \A r \in Requests : SF_vars(Progress(r))

-----------------------------------------------------------------------------
(* Type correctness.                                                       *)
Request == [at : {"idle", "queue", "steps", "update", "complete", "settle",
                  "void", "mark", "commit"},
            job : {"none", "direct", "submit", "decide", "void", "close", "escalate"},
            doc : Documents \cup {Nobody}, of : Instances \cup {Nobody}, step : 0..StepCount,
            saw : {"none", "pending", "escalated", "open", "done"}, later : SUBSET Steps,
            choice : Choices \cup {"none"}, todo : Seq(Marks), marked : SUBSET Marks]

ApprovalTypeOK ==
  /\ document \in [Documents -> {"open", "done", "void"}]
  /\ doneBy \in [Documents -> Instances \cup {Nobody, Direct}]
  /\ closed \in BOOLEAN
  /\ instance \in [Instances -> [status : InstanceStatus, current : Steps,
                                 doc : Documents \cup {Nobody}]]
  /\ step \in [Instances -> [Steps -> StepStatus]]
  /\ trail \in [Instances -> [Steps -> Seq({"pending", "escalated"} \X StepStatus)]]
  /\ request \in [Requests -> Request]

(* An approved workflow never lacks its effect, and its effect never lacks *)
(* the approval: an instance is approved exactly when it is the one that   *)
(* posted the entry, or approved the run, so no document is settled twice. *)
ApprovedIsDone ==
  /\ \A i \in Instances :
       instance[i].status \in Settled <=>
         instance[i].doc # Nobody /\ doneBy[instance[i].doc] = i
  /\ \A d \in Documents : doneBy[d] \in Instances => instance[doneBy[d]].doc = d
  /\ \A d \in Documents : document[d] = "done" => doneBy[d] # Nobody

(* Nobody is passed over: a pending instance waits on an undecided step,   *)
(* with every step before it decided and every later one untouched, and a  *)
(* completed instance has no step left to decide.                          *)
NobodySkipped ==
  \A i \in Instances :
    /\ instance[i].status = "pending" =>
         /\ step[i][instance[i].current] \in Undecided
         /\ \A s \in Steps : s < instance[i].current => step[i][s] \notin Undecided
         /\ \A s \in Steps : s > instance[i].current => step[i][s] = "pending"
    /\ instance[i].status \notin {"absent", "pending"} =>
         \A s \in Steps : step[i][s] \notin Undecided

(* The audit trail of a step tells one escalation at most, whatever passes *)
(* overlap, and then one decision at most, and the decision it tells is    *)
(* the one in force.                                                       *)
TrailTellsDecision ==
  \A i \in Instances, s \in Steps :
    LET told == trail[i][s]
    IN  /\ \A k \in DOMAIN told : told[k][2] \notin Undecided => k = Len(told)
        /\ \A k \in DOMAIN told : told[k][2] = "escalated" => k = 1
        /\ step[i][s] = IF told = <<>> THEN "pending" ELSE told[Len(told)][2]

(* A decision stands: neither a second decision nor an escalation pass     *)
(* changes a decided step, and a completed instance is not reopened.       *)
DecisionsStand ==
  [][\A i \in Instances :
       /\ \A s \in Steps : step[i][s] \notin Undecided /\ instance[i].status # "absent"
                             => step'[i][s] = step[i][s]
       /\ instance[i].status \notin {"absent", "pending"} => instance'[i] = instance[i]]_vars

(* Every request ends, whatever locks it meets on the way: two passes that *)
(* wait for each other cost one of them.                                   *)
RequestsEnd == \A r \in Requests : request[r].at # "idle" ~> request[r].at = "idle"

(* Each transition starts where the one before it ended: the previous      *)
(* state a decision records is the state the step was in.                  *)
TrailChains ==
  \A i \in Instances, s \in Steps : \A k \in DOMAIN trail[i][s] :
    trail[i][s][k][1] = IF k = 1 THEN "pending" ELSE trail[i][s][k - 1][2]

(* Nothing is posted into a closed fiscal period.                          *)
ClosedPeriodHolds ==
  [][\A d \in Documents \ PayrollRuns :
       closed /\ document[d] # "done" => document'[d] # "done"]_vars
=============================================================================
