--------------------------- MODULE ApprovalProofs ---------------------------
(***************************************************************************)
(* Proofs about ApprovalWorkflow, for any documents, requests, instances   *)
(* and steps: an instance is approved exactly when it settled its          *)
(* document, nobody is passed over, and a decision stands.                 *)
(***************************************************************************)
EXTENDS ApprovalWorkflow, SequenceTheorems, TLAPS

(* What the rows say by themselves: an instance that is not there yet has  *)
(* no history, the steps of one that waits are decided up to the current   *)
(* one, and an open document was settled by nobody.                        *)
Unbegun(i) ==
  /\ instance[i].doc = Nobody
  /\ \A s \in Steps : step[i][s] = "pending" /\ trail[i][s] = <<>>
  /\ \A d \in Documents : doneBy[d] # i

Begun ==
  \A i \in Instances : IF instance[i].status = "absent" THEN Unbegun(i)
                       ELSE instance[i].doc \in Documents

OpenUnsettled == \A d \in Documents : document[d] = "open" => doneBy[d] = Nobody

NoReturn ==
  \A i \in Instances, s \in Steps : \A k \in DOMAIN trail[i][s] : trail[i][s][k][2] # "pending"

(* The step was the current one once: it still is, or it is decided.       *)
Waiting(i, s) == instance[i].status = "pending" /\ instance[i].current = s
Reached(i, s) == instance[i].status # "absent" /\ (Waiting(i, s) \/ step[i][s] \notin Undecided)

(* What a request knows is still so when it comes to write.                *)
Settling == {"direct", "submit", "decide"}

SubmitOK(q) ==
  /\ q.at \in {"queue", "complete", "settle", "commit"}
  /\ q.of \in Instances /\ instance[q.of].status = "absent" /\ q.doc \in Documents
  /\ q.at = "queue" <=> q.step # StepCount

DecideOK(q) ==
  /\ q.at \in {"steps", "update", "complete", "settle", "commit"}
  /\ q.of \in Instances /\ q.step \in Steps /\ q.choice \in Choices
  /\ Reached(q.of, q.step)
  /\ q.at \in {"steps", "update"} => q.doc = Nobody
  /\ q.at # "steps" => q.later = (q.step + 1)..StepCount /\ q.saw \in Undecided
  /\ q.at \in {"complete", "settle", "commit"} =>
       /\ step[q.of][q.step] \in Undecided
       /\ q.doc = IF Dispatched(q) THEN instance[q.of].doc ELSE Nobody
  /\ q.at \in {"complete", "settle"} => Dispatched(q)

EscalateOK(q) ==
  /\ q.at \in {"mark", "commit"} /\ q.doc = Nobody
  /\ q.at = "mark" => q.todo # <<>>
  /\ \A k \in DOMAIN q.todo : Reached(q.todo[k][1], q.todo[k][2])
  /\ \A m \in q.marked : step[m[1]][m[2]] = "pending" /\ Waiting(m[1], m[2])

JobOK(q) ==
  /\ q.job = "none" => q.at = "idle"
  /\ q.job = "direct" => q.at \in {"complete", "settle", "commit"} /\ q.doc \in Documents
  /\ q.job = "submit" => SubmitOK(q)
  /\ q.job = "decide" => DecideOK(q)
  /\ q.job = "void" => q.at \in {"void", "commit"} /\ q.doc \in Documents
  /\ q.job = "close" => q.at = "commit" /\ q.doc = Nobody
  /\ q.job = "escalate" => EscalateOK(q)
  /\ q.job # "escalate" => q.marked = {}
  /\ q.job \in Settling /\ q.at = "commit" /\ q.doc # Nobody => document[q.doc] = "open"

(* The row locks keep writers apart: no two are at one document, one step  *)
(* or one new instance.                                                    *)
Holds(q, i, s) ==
  \/ <<i, s>> \in q.marked
  \/ /\ q.job = "decide" /\ q.of = i /\ q.step = s
     /\ q.at \in {"complete", "settle", "commit", "failed"}
Commits(q, d) == q.at = "commit" /\ q.doc # Nobody /\ q.doc = d

Apart(p, q) ==
  /\ p.job = "submit" /\ q.job = "submit" => p.of # q.of
  /\ \A d \in Documents : ~(Commits(p, d) /\ Commits(q, d))
  /\ \A i \in Instances, s \in Steps : ~(Holds(p, i, s) /\ Holds(q, i, s))

AllApart == \A r, q \in Requests : r # q => Apart(request[r], request[q])
JobsOK == \A r \in Requests : JobOK(request[r])
RowsOK ==
  /\ Begun /\ OpenUnsettled /\ ApprovedIsDone /\ NobodySkipped /\ NoReturn
  /\ TrailTellsDecision

ApprovalInv == ApprovalTypeOK /\ RowsOK /\ JobsOK /\ AllApart

-----------------------------------------------------------------------------
LEMMA StepsAreNumbers ==
  StepCount \in Steps /\ 1 \in Steps /\ StepCount \in Nat /\ 0 \in 0..StepCount
BY ApprovalStepsAssumption DEF Steps

LEMMA IdleIsRequest == Idle \in Request /\ Idle.at = "idle" /\ Idle.job = "none"
BY ApprovalStepsAssumption DEF Idle, Request

(* A request that is idle asks for nothing and holds nothing.              *)
LEMMA IdleIsOK == JobOK(Idle) /\ \A q : Apart(Idle, q) /\ Apart(q, Idle)
BY DEF Idle, JobOK, Apart, Holds, Commits, Settling

(* The invariant holds at the start.                                       *)
LEMMA ApprovalInit == Init => ApprovalInv
<1> SUFFICES ASSUME Init PROVE ApprovalInv
  OBVIOUS
<1> USE ApprovalNamesAssumption, ApprovalStepsAssumption
<1>1. \A r \in Requests : request[r] = Idle
  BY DEF Init
<1>2. \A i \in Instances :
        /\ instance[i].status = "absent" /\ instance[i].doc = Nobody
        /\ \A s \in Steps : step[i][s] = "pending" /\ trail[i][s] = <<>>
  BY DEF Init
<1>3. \A d \in Documents : doneBy[d] = Nobody /\ document[d] \in {"open", "void"}
  BY DEF Init
<1>4. ApprovalTypeOK
  <2>1. instance \in [Instances -> [status : InstanceStatus, current : Steps,
                                    doc : Documents \cup {Nobody}]]
    BY StepsAreNumbers DEF Init, InstanceStatus
  <2>2. /\ document \in [Documents -> {"open", "done", "void"}]
        /\ doneBy \in [Documents -> Instances \cup {Nobody, Direct}]
        /\ closed \in BOOLEAN
    BY DEF Init
  <2>3. step \in [Instances -> [Steps -> StepStatus]]
    BY DEF Init, StepStatus, Undecided
  <2>4. trail \in [Instances -> [Steps -> Seq({"pending", "escalated"} \X StepStatus)]]
    BY DEF Init
  <2>5. request \in [Requests -> Request]
    BY IdleIsRequest DEF Init
  <2> QED
    BY <2>1, <2>2, <2>3, <2>4, <2>5 DEF ApprovalTypeOK
<1>5. Begun /\ OpenUnsettled /\ NoReturn
  BY <1>2, <1>3 DEF Begun, Unbegun, OpenUnsettled, NoReturn, Instances
<1>6. ApprovedIsDone
  BY <1>2, <1>3 DEF ApprovedIsDone, Settled, Instances
<1>7. NobodySkipped
  BY <1>2 DEF NobodySkipped
<1>8. TrailTellsDecision
  BY <1>2 DEF TrailTellsDecision
<1>9. JobsOK /\ AllApart
  BY <1>1, IdleIsOK DEF JobsOK, AllApart
<1> QED
  BY <1>4, <1>5, <1>6, <1>7, <1>8, <1>9 DEF ApprovalInv, RowsOK

-----------------------------------------------------------------------------
(* A step that writes nothing leaves the rows and what others know of them *)
(* as they were: what is left to show is about the request that moves.     *)
LEMMA RequestMoves ==
  ASSUME ApprovalInv, NEW r \in Requests, NEW row \in Request, UNCHANGED records,
         request' = [request EXCEPT ![r] = row], JobOK(row),
         \A q \in Requests \ {r} : Apart(row, request[q])
  PROVE  ApprovalInv'
<1>1. request'[r] = row /\ \A q \in Requests \ {r} : request'[q] = request[q]
  BY DEF ApprovalInv, ApprovalTypeOK
<1>2. ApprovalTypeOK'
  BY DEF ApprovalInv, ApprovalTypeOK, records
<1>3. RowsOK'
  BY DEF ApprovalInv, RowsOK, records, Begun, Unbegun, OpenUnsettled, ApprovedIsDone,
         NobodySkipped, NoReturn, TrailTellsDecision
<1>4. JobsOK'
  BY <1>1 DEF ApprovalInv, records, JobsOK, JobOK, SubmitOK, DecideOK, EscalateOK, Reached,
              Waiting
<1>5. AllApart'
  <2> SUFFICES ASSUME NEW p \in Requests, NEW q \in Requests, p # q
               PROVE  Apart(request'[p], request'[q])
    BY DEF AllApart, Apart, Commits, Holds
  <2>1. CASE p = r
    BY <1>1, <2>1
  <2>2. CASE q = r
    BY <1>1, <2>2 DEF Apart
  <2>3. CASE p # r /\ q # r
    BY <1>1, <2>3 DEF ApprovalInv, AllApart
  <2> QED
    BY <2>1, <2>2, <2>3
<1> QED
  BY <1>2, <1>3, <1>4, <1>5 DEF ApprovalInv

LEMMA FreeKeeps ==
  ASSUME ApprovalInv, NEW r \in Requests, UNCHANGED records, Free(r)
  PROVE  ApprovalInv'
BY IdleIsRequest, IdleIsOK, RequestMoves DEF Free

-----------------------------------------------------------------------------
(* The steps of a request before its commit, one lemma for each.           *)

(* A new instance is nobody else's.                                        *)
LEMMA SubmitKeeps ==
  ASSUME ApprovalInv, NEW r \in Requests, NEW d \in Documents, Submit(r, d)
  PROVE  ApprovalInv'
<1>1. UNCHANGED records /\ document[d] = "open"
  BY DEF Submit
<1>2. CASE request' = [request EXCEPT ![r] =
             [Idle EXCEPT !.at = "complete", !.job = "direct", !.doc = d]]
  <2> DEFINE row == [Idle EXCEPT !.at = "complete", !.job = "direct", !.doc = d]
  <2>1. row \in Request
    BY IdleIsRequest DEF Request
  <2>2. JobOK(row)
    BY DEF Idle, JobOK, Settling
  <2>3. \A q : Apart(row, q)
    BY DEF Idle, Apart, Holds, Commits
  <2> HIDE DEF row
  <2> QED
    BY <1>1, <1>2, <2>1, <2>2, <2>3, RequestMoves DEF row
<1>3. ASSUME NEW i \in NextInstance(d), NEW auto \in AutoSteps[d],
             request' = [request EXCEPT ![r] =
               [Idle EXCEPT !.at = IF auto = StepCount THEN "complete" ELSE "queue",
                            !.job = "submit", !.of = i, !.doc = d, !.step = auto]]
      PROVE  ApprovalInv'
  <2> DEFINE row == [Idle EXCEPT !.at = IF auto = StepCount THEN "complete" ELSE "queue",
                                 !.job = "submit", !.of = i, !.doc = d, !.step = auto]
  <2>1. i \in Instances /\ ~Taken(i)
    BY ApprovalNamesAssumption DEF NextInstance, Instances
  <2>2. auto \in 0..StepCount
    BY ApprovalStepsAssumption
  <2>3. row \in Request
    <3>1. /\ row.at \in {"queue", "complete"} /\ row.step = auto /\ row.of = i
          /\ row = [Idle EXCEPT !.at = row.at, !.job = "submit", !.of = i, !.doc = d,
                                !.step = auto]
      BY DEF Idle
    <3> HIDE DEF row
    <3> QED
      BY <2>1, <2>2, <3>1, IdleIsRequest DEF Request
  <2>4. JobOK(row)
    BY <2>1 DEF Idle, JobOK, SubmitOK, Taken
  <2>5. \A q \in Requests \ {r} : Apart(row, request[q])
    BY <2>1 DEF Idle, Apart, Holds, Commits, Taken
  <2> HIDE DEF row
  <2> QED
    BY <1>1, <1>3, <2>3, <2>4, <2>5, RequestMoves DEF row
<1> QED
  BY <1>2, <1>3 DEF Submit

LEMMA DecideKeeps ==
  ASSUME ApprovalInv, NEW r \in Requests, NEW i \in Instances, NEW choice \in Choices,
         Decide(r, i, choice)
  PROVE  ApprovalInv'
<1> DEFINE row == [Idle EXCEPT !.at = "steps", !.job = "decide", !.of = i,
                               !.step = instance[i].current, !.choice = choice]
<1>1. instance[i].current \in Steps /\ Steps \subseteq 0..StepCount
  BY ApprovalStepsAssumption DEF ApprovalInv, ApprovalTypeOK, Steps
<1>2. row \in Request
  BY <1>1, IdleIsRequest DEF Request
<1>3. JobOK(row)
  BY <1>1 DEF Idle, JobOK, DecideOK, Reached, Waiting, Decide
<1>4. \A q : Apart(row, q)
  BY DEF Idle, Apart, Holds, Commits
<1>5. request' = [request EXCEPT ![r] = row] /\ UNCHANGED records
  BY DEF Decide
<1> HIDE DEF row
<1> QED
  BY <1>2, <1>3, <1>4, <1>5, RequestMoves

(* The steps a decider reads are those after an undecided current one: all *)
(* of them, since nobody was passed over.                                  *)
LEMMA ReadKeeps ==
  ASSUME ApprovalInv, NEW r \in Requests, ReadSteps(r)
  PROVE  ApprovalInv'
<1> DEFINE i == request[r].of  s == request[r].step
<1>1. UNCHANGED records /\ request[r].at = "steps" /\ request[r] \in Request
  BY DEF ReadSteps, ApprovalInv, ApprovalTypeOK
<1>2. request[r].job = "decide" /\ DecideOK(request[r])
  BY <1>1 DEF ApprovalInv, JobsOK, JobOK, SubmitOK, EscalateOK, Request
<1>3. CASE Free(r)
  BY <1>1, <1>3, FreeKeeps
<1>4. CASE /\ step[i][s] \in Undecided
           /\ request' = [request EXCEPT ![r].at = "update", ![r].saw = step[i][s],
                                         ![r].later = Later(i, s)]
  <2> DEFINE row == [request[r] EXCEPT !.at = "update", !.saw = step[i][s],
                                       !.later = Later(i, s)]
  <2>1. i \in Instances /\ s \in Steps /\ Waiting(i, s)
    BY <1>2, <1>4 DEF DecideOK, Reached
  <2>2. \A t \in Steps : t > s => step[i][t] = "pending"
    BY <2>1 DEF ApprovalInv, RowsOK, NobodySkipped, Waiting
  <2>3. (s + 1)..StepCount \subseteq Steps /\ \A t \in (s + 1)..StepCount : t > s
    BY <2>1, StepsAreNumbers DEF Steps
  <2>4. Later(i, s) = (s + 1)..StepCount
    BY <2>2, <2>3 DEF Later
  <2>5. row \in Request
    BY <1>1, <1>4, <2>3, <2>4 DEF Request, Undecided
  <2>6. JobOK(row)
    BY <1>1, <1>2, <1>4, <2>4 DEF Request, JobOK, DecideOK, ApprovalInv, JobsOK
  <2>7. \A q \in Requests \ {r} : Apart(row, request[q])
    BY <1>1, <1>2 DEF Request, ApprovalInv, AllApart, Apart, Holds, Commits, JobsOK, JobOK
  <2>8. request' = [request EXCEPT ![r] = row]
    BY <1>1, <1>4 DEF Request, ApprovalInv, ApprovalTypeOK
  <2> HIDE DEF row
  <2> QED
    BY <1>1, <2>5, <2>6, <2>7, <2>8, RequestMoves
<1> QED
  BY <1>3, <1>4 DEF ReadSteps

(* The guarded update locks a step that nobody else holds.                 *)
LEMMA UpdateKeeps ==
  ASSUME ApprovalInv, NEW r \in Requests, UpdateStep(r)
  PROVE  ApprovalInv'
<1> DEFINE q == request[r]
<1>1. UNCHANGED records /\ q.at = "update" /\ q \in Request /\ ~StepLocked(r, q.of, q.step)
  BY DEF UpdateStep, ApprovalInv, ApprovalTypeOK
<1>2. q.job = "decide" /\ JobOK(q) /\ DecideOK(q)
  BY <1>1 DEF ApprovalInv, JobsOK, JobOK, SubmitOK, EscalateOK, Request
<1>3. CASE Free(r)
  BY <1>1, <1>3, FreeKeeps
<1>4. ASSUME ~Free(r)
      PROVE  ApprovalInv'
  <2> DEFINE row == IF Dispatched(q)
                    THEN [q EXCEPT !.at = "complete", !.doc = instance[q.of].doc]
                    ELSE [q EXCEPT !.at = "commit"]
  <2>1. StepOpen(q.of, q.step)
    BY <1>4 DEF UpdateStep
  <2>2. request' = [request EXCEPT ![r] = row]
    BY <1>1, <2>1 DEF UpdateStep, Goes, Request, ApprovalInv, ApprovalTypeOK
  <2>3. q.of \in Instances /\ q.step \in Steps /\ q.doc = Nobody /\ q.marked = {}
    BY <1>1, <1>2 DEF DecideOK, JobOK
  <2>4. instance[q.of].doc \in Documents \cup {Nobody}
    BY <2>3 DEF ApprovalInv, ApprovalTypeOK
  <2>5. row \in Request
    BY <1>1, <2>4 DEF Request
  <2>6. /\ row.job = "decide" /\ row.of = q.of /\ row.step = q.step
        /\ row.later = q.later /\ row.choice = q.choice /\ row.saw = q.saw
        /\ row.marked = {} /\ row.at \in {"complete", "commit"}
        /\ row.at = "complete" <=> Dispatched(q)
        /\ row.doc = IF Dispatched(q) THEN instance[q.of].doc ELSE Nobody
        /\ row.at = "commit" => row.doc = Nobody
    BY <1>1, <1>2, <2>3 DEF Request
  <2> HIDE DEF row
  <2>7. JobOK(row)
    <3>1. DecideOK(row)
      BY <1>1, <1>2, <2>1, <2>6 DEF DecideOK, Dispatched, StepOpen
    <3> QED
      BY <2>6, <3>1 DEF JobOK
  <2>8. \A x \in Requests \ {r} : Apart(row, request[x])
    BY <1>1, <2>6 DEF Apart, Holds, Commits, StepLocked, HoldsStep
  <2> QED
    BY <1>1, <2>2, <2>5, <2>7, <2>8, RequestMoves
<1> QED
  BY <1>3, <1>4

(* The first look at the document, and the guarded update that locks it.   *)
LEMMA CompleteKeeps ==
  ASSUME ApprovalInv, NEW r \in Requests, Complete(r)
  PROVE  ApprovalInv'
<1> DEFINE q == request[r]  row == [q EXCEPT !.at = "settle"]
<1>1. UNCHANGED records /\ q.at = "complete" /\ q \in Request /\ JobOK(q)
  BY DEF Complete, ApprovalInv, ApprovalTypeOK, JobsOK
<1>2. CASE Free(r)
  BY <1>1, <1>2, FreeKeeps
<1>3. CASE Goes(r, "settle")
  <2>1. request' = [request EXCEPT ![r] = row]
    BY <1>1, <1>3 DEF Goes, Request, ApprovalInv, ApprovalTypeOK
  <2>2. row \in Request
    BY <1>1 DEF Request
  <2>3. JobOK(row)
    BY <1>1 DEF Request, JobOK, SubmitOK, DecideOK, EscalateOK, Dispatched
  <2>4. \A x \in Requests \ {r} : Apart(row, request[x])
    BY <1>1 DEF Request, ApprovalInv, AllApart, Apart, Holds, Commits
  <2> HIDE DEF row
  <2> QED
    BY <1>1, <2>1, <2>2, <2>3, <2>4, RequestMoves
<1> QED
  BY <1>2, <1>3 DEF Complete

LEMMA SettleKeeps ==
  ASSUME ApprovalInv, NEW r \in Requests, Settle(r)
  PROVE  ApprovalInv'
<1> DEFINE q == request[r]  row == [q EXCEPT !.at = "commit"]
<1>1. /\ UNCHANGED records /\ q.at = "settle" /\ q \in Request /\ JobOK(q)
      /\ ~DocumentLocked(r, q.doc)
  BY DEF Settle, ApprovalInv, ApprovalTypeOK, JobsOK
<1>2. CASE Free(r)
  BY <1>1, <1>2, FreeKeeps
<1>3. CASE Settles(q.doc) /\ Goes(r, "commit")
  <2>1. request' = [request EXCEPT ![r] = row]
    BY <1>1, <1>3 DEF Goes, Request, ApprovalInv, ApprovalTypeOK
  <2>2. row \in Request
    BY <1>1 DEF Request
  <2>3. JobOK(row)
    BY <1>1, <1>3 DEF Request, JobOK, SubmitOK, DecideOK, EscalateOK, Dispatched, Settles
  <2>4. \A x \in Requests \ {r} : Apart(row, request[x])
    BY <1>1 DEF Request, ApprovalInv, AllApart, Apart, Holds, Commits, DocumentLocked, Writes
  <2> HIDE DEF row
  <2> QED
    BY <1>1, <2>1, <2>2, <2>3, <2>4, RequestMoves
<1> QED
  BY <1>2, <1>3 DEF Settle

LEMMA VoidKeeps ==
  ASSUME ApprovalInv, NEW r \in Requests, NEW d \in Documents, Void(r, d)
  PROVE  ApprovalInv'
<1> DEFINE row == [Idle EXCEPT !.at = "void", !.job = "void", !.doc = d,
                               !.saw = document[d]]
<1>1. row \in Request
  BY IdleIsRequest DEF Request, Void, Voidable
<1>2. JobOK(row)
  BY DEF Idle, JobOK, Settling
<1>3. \A q : Apart(row, q)
  BY DEF Idle, Apart, Holds, Commits
<1>4. request' = [request EXCEPT ![r] = row] /\ UNCHANGED records
  BY DEF Void
<1> HIDE DEF row
<1> QED
  BY <1>1, <1>2, <1>3, <1>4, RequestMoves

LEMMA UpdateVoidKeeps ==
  ASSUME ApprovalInv, NEW r \in Requests, UpdateVoid(r)
  PROVE  ApprovalInv'
<1> DEFINE q == request[r]  row == [q EXCEPT !.at = "commit"]
<1>1. /\ UNCHANGED records /\ q.at = "void" /\ q \in Request /\ JobOK(q)
      /\ ~DocumentLocked(r, q.doc)
  BY DEF UpdateVoid, ApprovalInv, ApprovalTypeOK, JobsOK
<1>2. q.job = "void"
  BY <1>1 DEF JobOK, SubmitOK, DecideOK, EscalateOK, Request
<1>3. CASE Free(r)
  BY <1>1, <1>3, FreeKeeps
<1>4. CASE Goes(r, "commit")
  <2>1. request' = [request EXCEPT ![r] = row]
    BY <1>1, <1>4 DEF Goes, Request, ApprovalInv, ApprovalTypeOK
  <2>2. row \in Request
    BY <1>1 DEF Request
  <2>3. JobOK(row)
    BY <1>1, <1>2 DEF Request, JobOK, Settling
  <2>4. \A x \in Requests \ {r} : Apart(row, request[x])
    BY <1>1, <1>2 DEF Request, ApprovalInv, AllApart, Apart, Holds, Commits, DocumentLocked,
                      Writes, JobOK
  <2> HIDE DEF row
  <2> QED
    BY <1>1, <2>1, <2>2, <2>3, <2>4, RequestMoves
<1> QED
  BY <1>3, <1>4 DEF UpdateVoid

LEMMA ClosePeriodKeeps ==
  ASSUME ApprovalInv, NEW r \in Requests, ClosePeriod(r)
  PROVE  ApprovalInv'
<1> DEFINE row == [Idle EXCEPT !.at = "commit", !.job = "close"]
<1>1. row \in Request
  BY IdleIsRequest DEF Request
<1>2. JobOK(row)
  BY DEF Idle, JobOK, Settling
<1>3. \A q : Apart(row, q)
  BY DEF Idle, Apart, Holds, Commits
<1>4. request' = [request EXCEPT ![r] = row] /\ UNCHANGED records
  BY DEF ClosePeriod
<1> HIDE DEF row
<1> QED
  BY <1>1, <1>2, <1>3, <1>4, RequestMoves

LEMMA ListKeeps ==
  ASSUME ApprovalInv, NEW r \in Requests, ListOverdue(r)
  PROVE  ApprovalInv'
<1>0. PICK n \in Instances : \E rows \in [1..n -> Overdue] :
        request' = [request EXCEPT ![r] =
          [Idle EXCEPT !.at = "mark", !.job = "escalate", !.todo = rows]]
  BY DEF ListOverdue
<1>1. PICK rows \in [1..n -> Overdue] :
        request' = [request EXCEPT ![r] =
          [Idle EXCEPT !.at = "mark", !.job = "escalate", !.todo = rows]]
  BY <1>0
<1> DEFINE row == [Idle EXCEPT !.at = "mark", !.job = "escalate", !.todo = rows]
<1>2. n \in Nat /\ n >= 1 /\ DOMAIN rows = 1..n
  BY ApprovalNamesAssumption DEF Instances
<1>3. rows \in Seq(Marks) /\ rows # <<>> /\ \A k \in 1..n : rows[k] \in Overdue
  <2>1. Overdue \subseteq Marks /\ \A k \in 1..n : rows[k] \in Overdue
    BY DEF Overdue
  <2>2. rows \in Seq(Marks) /\ Len(rows) = n
    BY <1>2, <2>1
  <2> QED
    BY <1>2, <2>1, <2>2
<1> HIDE DEF Overdue
<1>4. row \in Request
  BY <1>3, IdleIsRequest DEF Request
<1>5. JobOK(row)
  <2>1. \A k \in 1..n : Reached(rows[k][1], rows[k][2])
    BY <1>3 DEF Overdue, WaitedOn, Reached, Waiting
  <2> QED
    BY <1>2, <1>3, <2>1 DEF Idle, JobOK, EscalateOK, Settling
<1>6. \A q : Apart(row, q)
  BY DEF Idle, Apart, Holds, Commits
<1>7. request' = [request EXCEPT ![r] = row] /\ UNCHANGED records
  BY <1>1 DEF ListOverdue
<1> HIDE DEF row
<1> QED
  BY <1>4, <1>5, <1>6, <1>7, RequestMoves

(* What is left of a list of steps.                                        *)
LEMMA RestOfSteps ==
  ASSUME NEW todo \in Seq(Marks), todo # <<>>
  PROVE  /\ Head(todo) \in Marks /\ 1 \in DOMAIN todo /\ Head(todo) = todo[1]
         /\ Tail(todo) \in Seq(Marks)
         /\ \A k \in DOMAIN Tail(todo) : k + 1 \in DOMAIN todo /\ Tail(todo)[k] = todo[k + 1]
<1>1. Len(todo) \in Nat /\ Len(todo) >= 1 /\ DOMAIN todo = 1..Len(todo)
  OBVIOUS
<1>2. DOMAIN Tail(todo) = 1..(Len(todo) - 1)
  BY HeadTailProperties, <1>1
<1> QED
  BY HeadTailProperties, <1>1, <1>2

(* A step that is still pending when it is marked is still the current one.*)
LEMMA MarkKeeps ==
  ASSUME ApprovalInv, NEW r \in Requests, Mark(r)
  PROVE  ApprovalInv'
<1> DEFINE q == request[r]  m == Head(q.todo)
<1>1. UNCHANGED records /\ q.at = "mark" /\ q \in Request /\ JobOK(q)
  BY DEF Mark, ApprovalInv, ApprovalTypeOK, JobsOK
<1>2. q.job = "escalate" /\ EscalateOK(q)
  BY <1>1 DEF JobOK, SubmitOK, DecideOK, Request
<1> DEFINE row == [q EXCEPT !.todo = Tail(@),
                            !.marked = IF Unmarked(m[1], m[2]) THEN @ \cup {m} ELSE @,
                            !.at = IF Tail(q.todo) = <<>> THEN "commit" ELSE "mark"]
<1>3. Unmarked(m[1], m[2]) => ~StepLocked(r, m[1], m[2])
  BY DEF Mark
<1>4. q.todo \in Seq(Marks) /\ q.todo # <<>>
  BY <1>1, <1>2 DEF Request, EscalateOK
<1>5. m \in Marks /\ m = <<m[1], m[2]>> /\ m[1] \in Instances /\ m[2] \in Steps
  BY <1>4, RestOfSteps DEF Marks
<1>6. request' = [request EXCEPT ![r] = row]
  BY <1>1 DEF Mark, Request, ApprovalInv, ApprovalTypeOK
<1>7. /\ row.job = "escalate" /\ row.doc = Nobody /\ row.at \in {"mark", "commit"}
      /\ row.todo = Tail(q.todo) /\ (row.at = "mark" => row.todo # <<>>)
      /\ row.marked = IF Unmarked(m[1], m[2]) THEN q.marked \cup {m} ELSE q.marked
  BY <1>1, <1>2 DEF Request, EscalateOK
<1>8. row \in Request
  <2>1. Tail(q.todo) \in Seq(Marks) /\ row.marked \in SUBSET Marks
    BY <1>1, <1>4, <1>5, <1>7, RestOfSteps DEF Request
  <2> QED
    BY <1>1, <1>7, <2>1 DEF Request
<1> HIDE DEF row
<1>9. JobOK(row)
  <2>1. Unmarked(m[1], m[2]) => step[m[1]][m[2]] = "pending" /\ Waiting(m[1], m[2])
    <3>1. Reached(m[1], m[2])
      BY <1>2, <1>4, RestOfSteps DEF EscalateOK
    <3> QED
      BY <3>1 DEF Unmarked, Reached, Undecided
  <2>2. \A k \in DOMAIN row.todo : Reached(row.todo[k][1], row.todo[k][2])
    BY <1>2, <1>4, <1>7, RestOfSteps DEF EscalateOK
  <2>3. \A x \in row.marked : step[x[1]][x[2]] = "pending" /\ Waiting(x[1], x[2])
    BY <1>2, <1>7, <2>1 DEF EscalateOK
  <2> QED
    BY <1>7, <2>2, <2>3 DEF JobOK, EscalateOK, Settling
<1>10. ASSUME NEW x \in Requests \ {r} PROVE Apart(row, request[x])
  <2>1. \A i \in Instances, s \in Steps : Holds(row, i, s) =>
          Holds(q, i, s) \/ (<<i, s>> = m /\ Unmarked(m[1], m[2]))
    BY <1>7 DEF Holds
  <2>2. Unmarked(m[1], m[2]) => ~Holds(request[x], m[1], m[2])
    BY <1>3 DEF Holds, StepLocked, HoldsStep
  <2>3. Apart(q, request[x])
    BY DEF ApprovalInv, AllApart
  <2>4. ASSUME NEW i \in Instances, NEW s \in Steps, Holds(row, i, s)
        PROVE  ~Holds(request[x], i, s)
    BY <1>5, <2>1, <2>2, <2>3, <2>4 DEF Apart
  <2> QED
    BY <1>7, <2>3, <2>4 DEF Apart, Commits
<1> QED
  BY <1>1, <1>6, <1>8, <1>9, <1>10, RequestMoves

-----------------------------------------------------------------------------
(* Commits.  Whoever writes is idle afterwards, and the others, who hold   *)
(* other rows, know as much as they did if the writer let their rows be.   *)

LEMMA WriterLeaves ==
  ASSUME ApprovalInv, NEW r \in Requests, Free(r)
  PROVE  /\ request' \in [Requests -> Request] /\ AllApart'
         /\ request'[r] = Idle /\ \A x \in Requests \ {r} : request'[x] = request[x]
<1>1. request \in [Requests -> Request]
  BY DEF ApprovalInv, ApprovalTypeOK
<1>2. request' = [request EXCEPT ![r] = Idle]
  BY DEF Free
<1>3. request'[r] = Idle /\ \A x \in Requests \ {r} : request'[x] = request[x]
  BY <1>1, <1>2
<1>4. AllApart'
  <2> SUFFICES ASSUME NEW p \in Requests, NEW q \in Requests, p # q
               PROVE  Apart(request'[p], request'[q])
    BY DEF AllApart, Apart, Commits, Holds
  <2> QED
    BY <1>3, IdleIsOK DEF ApprovalInv, AllApart
<1> QED
  BY <1>1, <1>2, <1>3, <1>4, IdleIsRequest

LEMMA OthersKeep ==
  ASSUME ApprovalInv, NEW r \in Requests, Free(r),
         NEW x \in Requests \ {r},
         request[x].job = "submit" => instance'[request[x].of].status = "absent",
         \A i \in Instances, s \in Steps : Reached(i, s) => Reached(i, s)',
         \A i \in Instances : instance[i].status # "absent" => instance'[i].doc = instance[i].doc,
         \A i \in Instances, s \in Steps : Holds(request[x], i, s) =>
           step'[i][s] = step[i][s] /\ (Waiting(i, s) => Waiting(i, s)'),
         \A d \in Documents : Commits(request[x], d) => document'[d] = document[d]
  PROVE  JobOK(request[x])'
<1> DEFINE q == request[x]
<1>1. request'[x] = q /\ q \in Request /\ JobOK(q)
  BY WriterLeaves DEF ApprovalInv, ApprovalTypeOK, JobsOK
<1>2. q.job = "submit" => SubmitOK(request[x])'
  BY <1>1 DEF JobOK, SubmitOK
<1>3. q.job = "decide" => DecideOK(request[x])'
  <2> SUFFICES ASSUME q.job = "decide" PROVE DecideOK(request[x])'
    OBVIOUS
  <2>1. DecideOK(q)
    BY <1>1 DEF JobOK
  <2>2. Reached(q.of, q.step)'
    BY <1>1, <2>1 DEF DecideOK, Reached, Waiting
  <2>3. instance'[q.of].doc = instance[q.of].doc
    BY <2>1 DEF DecideOK, Reached
  <2>4. q.at \in {"complete", "settle", "commit"} => step'[q.of][q.step] = step[q.of][q.step]
    BY <2>1 DEF DecideOK, Holds
  <2> QED
    BY <1>1, <2>1, <2>2, <2>3, <2>4 DEF DecideOK, Dispatched, Reached, Waiting
<1>4. q.job = "escalate" => EscalateOK(request[x])'
  <2> SUFFICES ASSUME q.job = "escalate" PROVE EscalateOK(request[x])'
    OBVIOUS
  <2>1. EscalateOK(q)
    BY <1>1 DEF JobOK
  <2>2. /\ \A m \in q.marked : m = <<m[1], m[2]>> /\ m[1] \in Instances /\ m[2] \in Steps
        /\ \A k \in DOMAIN q.todo : q.todo[k][1] \in Instances /\ q.todo[k][2] \in Steps
    BY <1>1 DEF Request, Marks
  <2>3. \A k \in DOMAIN q.todo : Reached(q.todo[k][1], q.todo[k][2])'
    <3>1. \A i \in Instances, s \in Steps : Reached(i, s) => Reached(i, s)'
      OBVIOUS
    <3>2. ASSUME NEW k \in DOMAIN q.todo, NEW i, NEW s, i = q.todo[k][1], s = q.todo[k][2]
          PROVE  Reached(i, s)'
      BY <2>1, <2>2, <3>1, <3>2 DEF EscalateOK
    <3> QED
      BY <1>1, <3>2 DEF Reached, Waiting
  <2>4. \A m \in q.marked : step'[m[1]][m[2]] = "pending" /\ Waiting(m[1], m[2])'
    BY <2>1, <2>2 DEF EscalateOK, Holds
  <2> QED
    BY <1>1, <2>1, <2>3, <2>4 DEF EscalateOK, Reached, Waiting
<1>5. q.job \in Settling /\ q.at = "commit" /\ q.doc # Nobody => document'[q.doc] = "open"
  BY <1>1 DEF JobOK, Commits, Request
<1> QED
  BY <1>1, <1>2, <1>3, <1>4, <1>5 DEF JobOK

(* The document a request settles was open, and nobody's.                  *)
LEMMA DocumentSettled ==
  ASSUME ApprovalInv, NEW r \in Requests, request[r].at = "commit",
         request[r].job \in Settling, request[r].doc # Nobody, DocumentDone(request[r])
  PROVE  LET d == request[r].doc
             by == IF request[r].job = "direct" THEN Direct ELSE request[r].of
         IN  /\ d \in Documents /\ document[d] = "open" /\ doneBy[d] = Nobody
             /\ document'[d] = "done" /\ doneBy'[d] = by
             /\ \A e \in Documents \ {d} : document'[e] = document[e] /\ doneBy'[e] = doneBy[e]
             /\ document' \in [Documents -> {"open", "done", "void"}]
             /\ doneBy' \in [Documents -> Instances \cup {Nobody, Direct}]
<1> DEFINE q == request[r]
           by == IF q.job = "direct" THEN Direct ELSE q.of
<1>1. q \in Request /\ JobOK(q)
  BY DEF ApprovalInv, ApprovalTypeOK, JobsOK
<1>2. q.doc \in Documents
  BY <1>1 DEF Request
<1>3. document[q.doc] = "open"
  BY <1>1 DEF JobOK
<1>4. doneBy[q.doc] = Nobody
  BY <1>2, <1>3 DEF ApprovalInv, RowsOK, OpenUnsettled
<1>5. document' = [document EXCEPT ![q.doc] = "done"] /\ doneBy' = [doneBy EXCEPT ![q.doc] = by]
  BY DEF DocumentDone
<1>6. /\ document \in [Documents -> {"open", "done", "void"}]
      /\ doneBy \in [Documents -> Instances \cup {Nobody, Direct}]
  BY DEF ApprovalInv, ApprovalTypeOK
<1>7. by \in Instances \cup {Nobody, Direct}
  BY <1>1 DEF Request
<1> HIDE DEF by
<1>8. /\ document'[q.doc] = "done" /\ doneBy'[q.doc] = by
      /\ \A e \in Documents \ {q.doc} : document'[e] = document[e] /\ doneBy'[e] = doneBy[e]
      /\ document' \in [Documents -> {"open", "done", "void"}]
      /\ doneBy' \in [Documents -> Instances \cup {Nobody, Direct}]
  BY <1>2, <1>5, <1>6, <1>7
<1> QED
  BY <1>2, <1>3, <1>4, <1>8 DEF by

(* A trail tells of a step what the step is.                               *)
Tells(told, status) ==
  /\ \A k \in DOMAIN told : told[k][2] # "pending"
  /\ \A k \in DOMAIN told : told[k][2] \notin Undecided => k = Len(told)
  /\ \A k \in DOMAIN told : told[k][2] = "escalated" => k = 1
  /\ status = IF told = <<>> THEN "pending" ELSE told[Len(told)][2]
AllTold == \A i \in Instances, s \in Steps : Tells(trail[i][s], step[i][s])

LEMMA ToldIsTold == AllTold <=> NoReturn /\ TrailTellsDecision
BY DEF AllTold, Tells, NoReturn, TrailTellsDecision

Transition == {"pending", "escalated"} \X StepStatus
Follows(status, to) ==
  to \in {"approved", "rejected"} \/ (status = "pending" /\ to = "escalated")
Grown(told, saw, to) == Append(told, <<saw, to>>)

(* An undecided step may be decided, and one nobody has touched escalated. *)
LEMMA TrailGrows ==
  ASSUME NEW told \in Seq(Transition), NEW status, Tells(told, status),
         status \in Undecided, NEW saw \in Undecided, NEW to \in StepStatus,
         Follows(status, to)
  PROVE  Grown(told, saw, to) \in Seq(Transition) /\ Tells(Grown(told, saw, to), to)
<1> DEFINE new == Append(told, <<saw, to>>)
<1>1. <<saw, to>> \in Transition
  BY DEF Transition, Undecided
<1>2. /\ new \in Seq(Transition) /\ Len(new) = Len(told) + 1 /\ Len(told) \in Nat
      /\ DOMAIN new = 1..Len(told) + 1 /\ DOMAIN told = 1..Len(told)
      /\ \A k \in 1..Len(told) : new[k] = told[k]
      /\ new[Len(told) + 1] = <<saw, to>>
  BY <1>1
<1>3. \A k \in 1..Len(told) : told[k][2] \in Undecided
  <2> SUFFICES ASSUME NEW k \in 1..Len(told), told[k][2] \notin Undecided PROVE FALSE
    OBVIOUS
  <2>1. k = Len(told)
    BY <1>2 DEF Tells
  <2>2. told # <<>>
    BY <1>2
  <2> QED
    BY <2>1, <2>2 DEF Tells
<1>4. status = "pending" => Len(told) = 0
  <2> SUFFICES ASSUME status = "pending", Len(told) # 0 PROVE FALSE
    OBVIOUS
  <2>1. told # <<>> /\ Len(told) \in DOMAIN told
    BY <1>2
  <2> QED
    BY <2>1 DEF Tells
<1> HIDE DEF new
<1>5. to # "pending" /\ <<saw, to>>[2] = to
  BY DEF Follows
<1>6. \A k \in DOMAIN new : new[k][2] # "pending"
  BY <1>2, <1>5 DEF Tells
<1>7. \A k \in DOMAIN new : new[k][2] \notin Undecided => k = Len(new)
  BY <1>2, <1>3
<1>8. \A k \in DOMAIN new : new[k][2] = "escalated" => k = 1
  BY <1>2, <1>4, <1>5 DEF Tells, Follows
<1>9. to = IF new = <<>> THEN "pending" ELSE new[Len(new)][2]
  BY <1>2, <1>5
<1> QED
  BY <1>2, <1>6, <1>7, <1>8, <1>9 DEF Tells, Grown, new

(* Who holds a step holds an undecided one that its instance waits on.     *)
LEMMA HeldIsWaitedOn ==
  ASSUME ApprovalInv, NEW x \in Requests, NEW i \in Instances, NEW s \in Steps,
         Holds(request[x], i, s)
  PROVE  instance[i].status = "pending" /\ Waiting(i, s) /\ step[i][s] \in Undecided
<1> DEFINE q == request[x]
<1>1. q \in Request /\ JobOK(q)
  BY DEF ApprovalInv, ApprovalTypeOK, JobsOK
<1>2. CASE <<i, s>> \in q.marked
  <2>1. q.job = "escalate" /\ EscalateOK(q)
    BY <1>1, <1>2 DEF JobOK
  <2> QED
    BY <1>2, <2>1 DEF EscalateOK, Waiting, Undecided
<1>3. CASE <<i, s>> \notin q.marked
  <2>1. /\ q.job = "decide" /\ q.of = i /\ q.step = s
        /\ q.at \in {"complete", "settle", "commit"}
    BY <1>1, <1>3 DEF Holds, Request
  <2> QED
    BY <1>1, <2>1 DEF JobOK, DecideOK, Reached, Waiting
<1> QED
  BY <1>2, <1>3

(* A new instance, queued or approved at once.                             *)
LEMMA NewInstanceKeeps ==
  ASSUME ApprovalInv, NEW r \in Requests, request[r].job = "submit",
         Queued(request[r]), Free(r), UNCHANGED closed,
         \/ request[r].at = "queue" /\ UNCHANGED <<document, doneBy>>
         \/ request[r].at = "commit" /\ DocumentDone(request[r])
  PROVE  ApprovalInv'
<1> DEFINE q == request[r]  i == q.of
<1>1. q \in Request /\ SubmitOK(q)
  BY DEF ApprovalInv, ApprovalTypeOK, JobsOK, JobOK
<1>2. i \in Instances /\ instance[i].status = "absent" /\ q.doc \in Documents
  BY <1>1 DEF SubmitOK
<1>3. q.at = "queue" <=> q.step # StepCount
  BY <1>1 DEF SubmitOK
<1>4. /\ instance \in [Instances -> [status : InstanceStatus, current : Steps,
                                     doc : Documents \cup {Nobody}]]
      /\ step \in [Instances -> [Steps -> StepStatus]]
      /\ trail \in [Instances -> [Steps -> Seq(Transition)]]
  BY DEF ApprovalInv, ApprovalTypeOK, Transition
<1>5. q.step \in 0..StepCount /\ StepCount \in Nat /\ StepCount \in Steps
  BY <1>1, StepsAreNumbers DEF Request
<1> DEFINE status == IF q.step = StepCount THEN "auto_approved" ELSE "pending"
           current == IF q.step = StepCount THEN StepCount ELSE q.step + 1
           new == [status |-> status, current |-> current, doc |-> q.doc]
<1>6. instance' = [instance EXCEPT ![i] = new]
  BY DEF Queued
<1>7. current \in Steps
  BY <1>5 DEF Steps
<1>8. /\ instance'[i] = new /\ \A j \in Instances \ {i} : instance'[j] = instance[j]
      /\ instance' \in [Instances -> [status : InstanceStatus, current : Steps,
                                      doc : Documents \cup {Nobody}]]
  BY <1>2, <1>4, <1>6, <1>7 DEF InstanceStatus, Settled
<1>9. /\ step'[i] = [s \in Steps |-> IF s <= q.step THEN "approved" ELSE "pending"]
      /\ \A j \in Instances \ {i} : step'[j] = step[j]
      /\ step' \in [Instances -> [Steps -> StepStatus]]
  BY <1>2, <1>4 DEF Queued, StepStatus, Undecided
<1>10. /\ trail'[i] = [s \in Steps |-> IF s <= q.step THEN << <<"pending", "approved">> >>
                                       ELSE <<>>]
       /\ \A j \in Instances \ {i} : trail'[j] = trail[j]
       /\ trail' \in [Instances -> [Steps -> Seq(Transition)]]
  <2>1. << <<"pending", "approved">> >> \in Seq(Transition) /\ <<>> \in Seq(Transition)
    BY DEF Transition, StepStatus
  <2>2. trail' = [trail EXCEPT ![i] = [s \in Steps |->
          IF s <= q.step THEN << <<"pending", "approved">> >> ELSE <<>>]]
    BY DEF Queued
  <2> QED
    BY <1>2, <1>4, <2>1, <2>2
<1>11. Unbegun(i)
  BY <1>2 DEF ApprovalInv, RowsOK, Begun
<1>12. IF q.at = "queue" THEN UNCHANGED <<document, doneBy>>
       ELSE /\ document[q.doc] = "open" /\ doneBy[q.doc] = Nobody
            /\ document'[q.doc] = "done" /\ doneBy'[q.doc] = i
            /\ \A e \in Documents \ {q.doc} :
                 document'[e] = document[e] /\ doneBy'[e] = doneBy[e]
  BY <1>2, DocumentSettled, ApprovalNamesAssumption DEF Settling
<1>13. /\ document' \in [Documents -> {"open", "done", "void"}]
       /\ doneBy' \in [Documents -> Instances \cup {Nobody, Direct}]
  BY <1>2, DocumentSettled, ApprovalNamesAssumption DEF Settling, ApprovalInv, ApprovalTypeOK
<1>14. status = "pending" <=> q.at = "queue"
  BY <1>3
<1>15. ApprovalTypeOK'
  BY <1>8, <1>9, <1>10, <1>13, WriterLeaves DEF ApprovalInv, ApprovalTypeOK, Transition
<1>16. new.status = status /\ new.doc = q.doc /\ new.current = current
  OBVIOUS
<1>17. status \in {"pending", "auto_approved"} /\ (status = "auto_approved" <=> q.at # "queue")
  BY <1>14
<1>18. status = "pending" => current = q.step + 1 /\ q.step < StepCount
  BY <1>5
<1>19. status = "auto_approved" => q.step = StepCount
  OBVIOUS
<1> HIDE DEF status, current, new
<1>20. Begun'
  <2> SUFFICES ASSUME NEW j \in Instances
               PROVE  (IF instance[j].status = "absent" THEN Unbegun(j)
                       ELSE instance[j].doc \in Documents)'
    BY DEF Begun
  <2>1. CASE j = i
    BY <1>2, <1>8, <1>16, <1>17, <2>1
  <2>2. CASE j # i
    <3>1. \A d \in Documents : doneBy'[d] = j => doneBy[d] = j
      BY <1>12, <2>2
    <3>2. instance'[j] = instance[j] /\ step'[j] = step[j] /\ trail'[j] = trail[j]
      BY <1>8, <1>9, <1>10, <2>2
    <3> QED
      BY <3>1, <3>2 DEF ApprovalInv, RowsOK, Begun, Unbegun
  <2> QED
    BY <2>1, <2>2
<1>21. OpenUnsettled'
  BY <1>12 DEF ApprovalInv, RowsOK, OpenUnsettled
<1>22. ApprovedIsDone'
  <2>1. \A d \in Documents : doneBy[d] # i
    BY <1>11 DEF Unbegun
  <2>2. \A j \in Instances :
          instance'[j].status \in Settled <=>
            instance'[j].doc # Nobody /\ doneBy'[instance'[j].doc] = j
    <3> SUFFICES ASSUME NEW j \in Instances
                 PROVE  instance'[j].status \in Settled <=>
                          instance'[j].doc # Nobody /\ doneBy'[instance'[j].doc] = j
      OBVIOUS
    <3>1. CASE j = i
      <4>1. instance'[i].status = status /\ instance'[i].doc = q.doc /\ q.doc # Nobody
        BY <1>2, <1>8, <1>16, ApprovalNamesAssumption
      <4>2. status \in Settled <=> q.at # "queue"
        BY <1>17 DEF Settled
      <4>3. doneBy'[q.doc] = i <=> q.at # "queue"
        BY <1>2, <1>12, <2>1
      <4> QED
        BY <3>1, <4>1, <4>2, <4>3
    <3>2. CASE j # i
      <4>1. instance'[j] = instance[j] /\ instance[j].doc \in Documents \cup {Nobody}
        BY <1>4, <1>8, <3>2
      <4>2. \A d \in Documents : doneBy'[d] = j <=> doneBy[d] = j
        BY <1>12, <3>2, ApprovalNamesAssumption DEF Instances
      <4> QED
        BY <4>1, <4>2 DEF ApprovalInv, RowsOK, ApprovedIsDone
    <3> QED
      BY <3>1, <3>2
  <2>3. \A d \in Documents : doneBy'[d] \in Instances => instance'[doneBy'[d]].doc = d
    BY <1>2, <1>8, <1>12, <1>16, <2>1 DEF ApprovalInv, RowsOK, ApprovedIsDone
  <2>4. \A d \in Documents : document'[d] = "done" => doneBy'[d] # Nobody
    BY <1>2, <1>12, ApprovalNamesAssumption
       DEF ApprovalInv, RowsOK, ApprovedIsDone, Instances
  <2> QED
    BY <2>2, <2>3, <2>4 DEF ApprovedIsDone
<1>23. NobodySkipped'
  <2> SUFFICES ASSUME NEW j \in Instances
               PROVE  /\ instance'[j].status = "pending" =>
                           /\ step'[j][instance'[j].current] \in Undecided
                           /\ \A s \in Steps : s < instance'[j].current => step'[j][s] \notin Undecided
                           /\ \A s \in Steps : s > instance'[j].current => step'[j][s] = "pending"
                      /\ instance'[j].status \notin {"absent", "pending"} =>
                           \A s \in Steps : step'[j][s] \notin Undecided
    BY DEF NobodySkipped
  <2>1. CASE j # i
    BY <1>8, <1>9, <2>1 DEF ApprovalInv, RowsOK, NobodySkipped
  <2>2. CASE j = i
    <3>1. instance'[i].status = status /\ instance'[i].current = current
      BY <1>8, <1>16
    <3>2. \A s \in Steps : s \in Nat /\ s <= StepCount
      BY DEF Steps
    <3>3. CASE status = "pending"
      <4>1. ~(current <= q.step) /\ current \in Steps
        BY <1>5, <1>7, <1>18, <3>3
      <4>2. \A s \in Steps : s < current => s <= q.step
        BY <1>5, <1>18, <3>2, <3>3
      <4>3. \A s \in Steps : s > current => ~(s <= q.step)
        BY <1>5, <1>18, <3>2, <3>3
      <4> QED
        BY <1>9, <2>2, <3>1, <3>3, <4>1, <4>2, <4>3 DEF Undecided
    <3>4. CASE status = "auto_approved"
      BY <1>9, <1>19, <2>2, <3>1, <3>2, <3>4 DEF Undecided
    <3> QED
      BY <1>17, <3>3, <3>4
  <2> QED
    BY <2>1, <2>2
<1>24. NoReturn' /\ TrailTellsDecision'
  <2>1. \A j \in Instances, s \in Steps : Tells(trail'[j][s], step'[j][s])
    <3> SUFFICES ASSUME NEW j \in Instances, NEW s \in Steps
                 PROVE  Tells(trail'[j][s], step'[j][s])
      OBVIOUS
    <3>1. CASE j # i
      <4>1. AllTold
        BY ToldIsTold DEF ApprovalInv, RowsOK
      <4> QED
        BY <1>9, <1>10, <3>1, <4>1 DEF AllTold
    <3>2. CASE j = i /\ s <= q.step
      <4> DEFINE told == << <<"pending", "approved">> >>
      <4>1. Len(told) = 1 /\ DOMAIN told = {1} /\ told[1][2] = "approved" /\ told # <<>>
        OBVIOUS
      <4>2. trail'[j][s] = told /\ step'[j][s] = "approved"
        BY <1>9, <1>10, <3>2
      <4> HIDE DEF told
      <4> QED
        BY <4>1, <4>2 DEF Tells, Undecided
    <3>3. CASE j = i /\ ~(s <= q.step)
      <4>1. trail'[j][s] = <<>> /\ step'[j][s] = "pending"
        BY <1>9, <1>10, <3>3
      <4> QED
        BY <4>1 DEF Tells
    <3> QED
      BY <3>1, <3>2, <3>3
  <2> QED
    BY <2>1 DEF Tells, NoReturn, TrailTellsDecision
<1>25. ASSUME NEW x \in Requests \ {r} PROVE JobOK(request[x])'
  <2>1. request[x].job = "submit" => instance'[request[x].of].status = "absent"
    BY <1>2, <1>8 DEF ApprovalInv, AllApart, Apart, JobsOK, JobOK, SubmitOK
  <2>2. \A j \in Instances, s \in Steps : Reached(j, s) => Reached(j, s)'
    BY <1>2, <1>8, <1>9 DEF Reached, Waiting
  <2>3. \A j \in Instances : instance[j].status # "absent" => instance'[j].doc = instance[j].doc
    BY <1>2, <1>8
  <2>4. \A j \in Instances, s \in Steps : Holds(request[x], j, s) =>
          step'[j][s] = step[j][s] /\ (Waiting(j, s) => Waiting(j, s)')
    BY <1>2, <1>8, <1>9, HeldIsWaitedOn DEF Waiting
  <2>5. \A d \in Documents : Commits(request[x], d) => document'[d] = document[d]
    <3> SUFFICES ASSUME NEW d \in Documents, Commits(request[x], d)
                 PROVE  document'[d] = document[d]
      OBVIOUS
    <3>1. q.at # "queue" => Commits(q, q.doc)
      BY <1>2, ApprovalNamesAssumption DEF Commits
    <3>2. q.at # "queue" => d # q.doc
      BY <1>2, <3>1 DEF ApprovalInv, AllApart, Apart
    <3> QED
      BY <1>12, <3>2
  <2> QED
    BY <2>1, <2>2, <2>3, <2>4, <2>5, OthersKeep
<1>26. JobsOK'
  <2>1. JobOK(request[r])'
    BY WriterLeaves, IdleIsOK DEF JobOK, Idle, Settling
  <2> QED
    BY <1>25, <2>1 DEF JobsOK
<1> QED
  BY <1>15, <1>20, <1>21, <1>22, <1>23, <1>24, <1>26, WriterLeaves DEF ApprovalInv, RowsOK

(* What a decision changes: the step its request holds, and the instance   *)
(* that waits on it, which moves to the next step or ends.                 *)
LEMMA DecisionMoves ==
  ASSUME ApprovalInv, NEW r \in Requests, request[r].job = "decide",
         request[r].at = "commit", Decided(request[r])
  PROVE  LET q == request[r]  i == q.of  s == q.step
         IN  /\ i \in Instances /\ s \in Steps /\ Holds(q, i, s)
             /\ Waiting(i, s) /\ step[i][s] \in Undecided /\ q.saw \in Undecided
             /\ q.doc = IF Dispatched(q) THEN instance[i].doc ELSE Nobody
             /\ step'[i][s] = StepResult(q.choice)
             /\ \A t \in Steps \ {s} : step'[i][t] = step[i][t]
             /\ trail'[i][s] = Append(trail[i][s], <<q.saw, StepResult(q.choice)>>)
             /\ \A t \in Steps \ {s} : trail'[i][t] = trail[i][t]
             /\ \A j \in Instances \ {i} :
                  /\ instance'[j] = instance[j] /\ step'[j] = step[j] /\ trail'[j] = trail[j]
             /\ instance'[i].doc = instance[i].doc
             /\ IF s = StepCount
                THEN instance'[i].status = q.choice /\ instance'[i].current = s
                ELSE instance'[i].status = "pending" /\ instance'[i].current = s + 1
             /\ q.later = {} <=> s = StepCount
<1> DEFINE q == request[r]  i == q.of  s == q.step
<1>1. q \in Request /\ DecideOK(q)
  BY DEF ApprovalInv, ApprovalTypeOK, JobsOK, JobOK
<1>2. /\ i \in Instances /\ s \in Steps /\ step[i][s] \in Undecided /\ q.saw \in Undecided
      /\ q.later = (s + 1)..StepCount
      /\ q.doc = IF Dispatched(q) THEN instance[i].doc ELSE Nobody
  BY <1>1 DEF DecideOK
<1>3. Waiting(i, s)
  BY <1>1, <1>2 DEF DecideOK, Reached
<1>4. Holds(q, i, s)
  BY DEF Holds
<1>5. /\ instance \in [Instances -> [status : InstanceStatus, current : Steps,
                                     doc : Documents \cup {Nobody}]]
      /\ step \in [Instances -> [Steps -> StepStatus]]
      /\ trail \in [Instances -> [Steps -> Seq(Transition)]]
  BY DEF ApprovalInv, ApprovalTypeOK, Transition
<1>6. /\ step' = [step EXCEPT ![i][s] = StepResult(q.choice)]
      /\ trail' = [trail EXCEPT ![i][s] = Append(@, <<q.saw, StepResult(q.choice)>>)]
  BY DEF Decided
<1>7. /\ step'[i][s] = StepResult(q.choice)
      /\ \A t \in Steps \ {s} : step'[i][t] = step[i][t]
      /\ \A j \in Instances \ {i} : step'[j] = step[j]
  BY <1>2, <1>5, <1>6
<1>8. /\ trail'[i][s] = Append(trail[i][s], <<q.saw, StepResult(q.choice)>>)
      /\ \A t \in Steps \ {s} : trail'[i][t] = trail[i][t]
      /\ \A j \in Instances \ {i} : trail'[j] = trail[j]
  BY <1>2, <1>5, <1>6
<1>9. s \in Nat /\ s <= StepCount /\ StepCount \in Nat
  BY <1>2, StepsAreNumbers DEF Steps
<1>10. q.later = {} <=> s = StepCount
  BY <1>2, <1>9
<1> DEFINE next == CHOOSE t \in q.later : \A u \in q.later : t <= u
<1>11. s # StepCount => next = s + 1
  <2> SUFFICES ASSUME s # StepCount PROVE next = s + 1
    OBVIOUS
  <2>1. s + 1 \in q.later /\ \A u \in q.later : s + 1 <= u
    BY <1>2, <1>9
  <2>2. next \in q.later /\ \A u \in q.later : next <= u
    BY <2>1
  <2> HIDE DEF next
  <2>3. next <= s + 1 /\ s + 1 <= next /\ next \in Int
    BY <1>2, <1>9, <2>1, <2>2
  <2> QED
    BY <1>9, <2>3
<1>12. \A j \in Instances \ {i} : instance'[j] = instance[j]
  BY <1>2, <1>5 DEF Decided
<1>13. instance'[i] = IF q.later = {} THEN [instance[i] EXCEPT !.status = q.choice, !.current = s]
                      ELSE [instance[i] EXCEPT !.status = "pending", !.current = next]
  BY <1>2, <1>5 DEF Decided
<1> HIDE DEF next
<1>14. /\ instance'[i].doc = instance[i].doc
       /\ IF s = StepCount
          THEN instance'[i].status = q.choice /\ instance'[i].current = s
          ELSE instance'[i].status = "pending" /\ instance'[i].current = s + 1
  BY <1>2, <1>5, <1>10, <1>11, <1>13
<1> QED
  BY <1>2, <1>3, <1>4, <1>7, <1>8, <1>10, <1>12, <1>14

LEMMA DecisionKeeps ==
  ASSUME ApprovalInv, NEW r \in Requests, request[r].job = "decide",
         request[r].at = "commit", Decided(request[r]), DocumentDone(request[r]),
         Free(r), UNCHANGED closed
  PROVE  ApprovalInv'
<1> DEFINE q == request[r]  i == q.of  s == q.step
<1>1. q \in Request /\ DecideOK(q)
  BY DEF ApprovalInv, ApprovalTypeOK, JobsOK, JobOK
<1>2. /\ i \in Instances /\ s \in Steps
      /\ Waiting(i, s) /\ step[i][s] \in Undecided /\ q.saw \in Undecided
  BY DecisionMoves
<1>3. IF s = StepCount
      THEN instance'[i].status = q.choice /\ instance'[i].current = s
      ELSE instance'[i].status = "pending" /\ instance'[i].current = s + 1
  BY DecisionMoves
<1>4. /\ q.choice \in {"approved", "rejected", "request_changes"}
      /\ StepResult(q.choice) \in {"approved", "rejected"}
      /\ instance[i].status = "pending" /\ instance[i].current = s
      /\ instance[i].doc \in Documents /\ instance'[i].doc = instance[i].doc
  <2>1. instance'[i].doc = instance[i].doc
    BY DecisionMoves
  <2> QED
    BY <1>1, <1>2, <2>1, ApprovalChoicesAssumption
       DEF DecideOK, StepResult, Waiting, ApprovalInv, RowsOK, Begun
<1>5. /\ Holds(q, i, s) /\ q.doc = IF Dispatched(q) THEN instance[i].doc ELSE Nobody
      /\ q.later = {} <=> s = StepCount
  BY DecisionMoves
<1>6. \A j \in Instances \ {i} :
        instance'[j] = instance[j] /\ step'[j] = step[j] /\ trail'[j] = trail[j]
  BY DecisionMoves
<1>7. step'[i][s] = StepResult(q.choice) /\ \A t \in Steps \ {s} : step'[i][t] = step[i][t]
  BY DecisionMoves
<1>8. /\ trail'[i][s] = Append(trail[i][s], <<q.saw, StepResult(q.choice)>>)
      /\ \A t \in Steps \ {s} : trail'[i][t] = trail[i][t]
  BY DecisionMoves
<1>9. s \in Nat /\ s <= StepCount /\ StepCount \in Nat
  BY <1>2, StepsAreNumbers DEF Steps
<1>10. Dispatched(q) <=> s = StepCount /\ q.choice = "approved"
  BY <1>5 DEF Dispatched
<1>11. IF Dispatched(q)
      THEN /\ q.doc = instance[i].doc
           /\ document[q.doc] = "open" /\ doneBy[q.doc] = Nobody
           /\ document'[q.doc] = "done" /\ doneBy'[q.doc] = i
           /\ \A e \in Documents \ {q.doc} :
                document'[e] = document[e] /\ doneBy'[e] = doneBy[e]
      ELSE UNCHANGED <<document, doneBy>>
  <2>1. CASE Dispatched(q)
    <3>1. q.doc = instance[i].doc /\ q.doc # Nobody
      BY <1>4, <1>5, <2>1, ApprovalNamesAssumption
    <3> QED
      BY <2>1, <3>1, DocumentSettled DEF Settling
  <2>2. CASE ~Dispatched(q)
    BY <1>5, <2>2 DEF DocumentDone
  <2> QED
    BY <2>1, <2>2
<1>12. ApprovalTypeOK'
  <2>1. /\ document' \in [Documents -> {"open", "done", "void"}]
        /\ doneBy' \in [Documents -> Instances \cup {Nobody, Direct}]
    <3>1. CASE q.doc = Nobody
      BY <3>1 DEF DocumentDone, ApprovalInv, ApprovalTypeOK
    <3>2. CASE q.doc # Nobody
      BY <3>2, DocumentSettled DEF Settling
    <3> QED
      BY <3>1, <3>2
  <2>2. instance' \in [Instances -> [status : InstanceStatus, current : Steps,
                                     doc : Documents \cup {Nobody}]]
    <3>1. /\ instance \in [Instances -> [status : InstanceStatus, current : Steps,
                                         doc : Documents \cup {Nobody}]]
      BY DEF ApprovalInv, ApprovalTypeOK
    <3>2. PICK row : instance' = [instance EXCEPT ![i] = row] /\ instance'[i] = row
                     /\ \E status, current : row = [instance[i] EXCEPT !.status = status,
                                                                       !.current = current]
      BY <1>2, <3>1 DEF Decided
    <3>3. instance'[i].current \in Steps
      <4>1. instance'[i].current = s \/ (s # StepCount /\ instance'[i].current = s + 1)
        BY <1>3
      <4> QED
        BY <1>2, <1>9, <4>1 DEF Steps
    <3>4. instance'[i].status \in InstanceStatus
      BY <1>3, <1>4 DEF InstanceStatus, Settled
    <3> QED
      BY <1>2, <3>1, <3>2, <3>3, <3>4
  <2>3. step' \in [Instances -> [Steps -> StepStatus]]
    <3>1. step' = [step EXCEPT ![i][s] = StepResult(q.choice)]
      BY DEF Decided
    <3> QED
      BY <1>2, <1>4, <3>1 DEF StepStatus, ApprovalInv, ApprovalTypeOK
  <2>4. trail' \in [Instances -> [Steps -> Seq({"pending", "escalated"} \X StepStatus)]]
    <3>1. <<q.saw, StepResult(q.choice)>> \in {"pending", "escalated"} \X StepStatus
      BY <1>2, <1>4 DEF StepStatus, Undecided
    <3>2. trail \in [Instances -> [Steps -> Seq({"pending", "escalated"} \X StepStatus)]]
      BY DEF ApprovalInv, ApprovalTypeOK
    <3>3. Append(trail[i][s], <<q.saw, StepResult(q.choice)>>)
            \in Seq({"pending", "escalated"} \X StepStatus)
      <4> DEFINE T == {"pending", "escalated"} \X StepStatus
      <4>1. trail[i][s] \in Seq(T)
        BY <1>2, <3>2
      <4> HIDE DEF T
      <4>2. ASSUME NEW told \in Seq(T), NEW x \in T PROVE Append(told, x) \in Seq(T)
        OBVIOUS
      <4> QED
        BY <3>1, <4>1, <4>2 DEF T
    <3>4. trail' = [trail EXCEPT ![i][s] = Append(trail[i][s], <<q.saw, StepResult(q.choice)>>)]
      BY DEF Decided
    <3> QED
      BY <1>2, <3>2, <3>3, <3>4
  <2> QED
    BY <2>1, <2>2, <2>3, <2>4, WriterLeaves DEF ApprovalInv, ApprovalTypeOK
<1>13. Begun'
  <2> SUFFICES ASSUME NEW j \in Instances
               PROVE  (IF instance[j].status = "absent" THEN Unbegun(j)
                       ELSE instance[j].doc \in Documents)'
    BY DEF Begun
  <2>1. CASE j = i
    BY <1>3, <1>4, <2>1
  <2>2. CASE j # i
    <3>1. \A d \in Documents : doneBy'[d] = j => doneBy[d] = j
      BY <1>11, <2>2
    <3> QED
      BY <1>6, <2>2, <3>1 DEF ApprovalInv, RowsOK, Begun, Unbegun
  <2> QED
    BY <2>1, <2>2
<1>14. OpenUnsettled'
  BY <1>11 DEF ApprovalInv, RowsOK, OpenUnsettled
<1>15. ApprovedIsDone'
  <2>1. \A d \in Documents : doneBy[d] # i
    BY <1>2, <1>4, ApprovalNamesAssumption
       DEF ApprovalInv, RowsOK, ApprovedIsDone, Settled
  <2>2. ASSUME NEW j \in Instances
        PROVE  instance'[j].status \in Settled <=>
                 instance'[j].doc # Nobody /\ doneBy'[instance'[j].doc] = j
    <3>1. CASE j = i
      <4>1. instance'[i].status \in Settled <=> Dispatched(q)
        BY <1>3, <1>4, <1>10 DEF Settled
      <4>2. instance'[i].doc = instance[i].doc /\ instance[i].doc # Nobody
        BY <1>4, ApprovalNamesAssumption
      <4>3. doneBy'[instance[i].doc] = i <=> Dispatched(q)
        BY <1>4, <1>11, <2>1
      <4> QED
        BY <3>1, <4>1, <4>2, <4>3
    <3>2. CASE j # i
      <4>1. instance'[j] = instance[j] /\ instance[j].doc \in Documents \cup {Nobody}
        BY <1>6, <3>2 DEF ApprovalInv, ApprovalTypeOK
      <4>2. \A d \in Documents : doneBy'[d] = j <=> doneBy[d] = j
        BY <1>11, <3>2, ApprovalNamesAssumption DEF Instances
      <4> QED
        BY <4>1, <4>2 DEF ApprovalInv, RowsOK, ApprovedIsDone
    <3> QED
      BY <3>1, <3>2
  <2>3. \A d \in Documents : doneBy'[d] \in Instances => instance'[doneBy'[d]].doc = d
    BY <1>2, <1>4, <1>11, <1>6, <2>1 DEF ApprovalInv, RowsOK, ApprovedIsDone
  <2>4. \A d \in Documents : document'[d] = "done" => doneBy'[d] # Nobody
    BY <1>2, <1>11, ApprovalNamesAssumption DEF ApprovalInv, RowsOK, ApprovedIsDone, Instances
  <2> QED
    BY <2>2, <2>3, <2>4 DEF ApprovedIsDone
<1>16. NobodySkipped'
  <2> SUFFICES ASSUME NEW j \in Instances
               PROVE  /\ instance'[j].status = "pending" =>
                           /\ step'[j][instance'[j].current] \in Undecided
                           /\ \A t \in Steps : t < instance'[j].current => step'[j][t] \notin Undecided
                           /\ \A t \in Steps : t > instance'[j].current => step'[j][t] = "pending"
                      /\ instance'[j].status \notin {"absent", "pending"} =>
                           \A t \in Steps : step'[j][t] \notin Undecided
    BY DEF NobodySkipped
  <2>1. CASE j # i
    BY <1>6, <2>1 DEF ApprovalInv, RowsOK, NobodySkipped
  <2>2. CASE j = i
    <3>1. /\ \A t \in Steps : t < s => step[i][t] \notin Undecided
          /\ \A t \in Steps : t > s => step[i][t] = "pending"
      BY <1>2, <1>4 DEF ApprovalInv, RowsOK, NobodySkipped
    <3>2. \A t \in Steps : t \in Nat /\ t <= StepCount
      BY DEF Steps
    <3>3. \A t \in Steps : t <= s => step'[i][t] \notin Undecided
      BY <1>4, <1>9, <1>7, <3>1, <3>2 DEF Undecided
    <3>4. \A t \in Steps : t > s => step'[i][t] = "pending"
      BY <1>9, <1>7, <3>1, <3>2
    <3>5. CASE s = StepCount
      BY <1>3, <1>4, <2>2, <3>2, <3>3, <3>5
    <3>6. CASE s # StepCount
      <4>1. s + 1 \in Steps /\ s + 1 > s
        BY <1>9, <3>6 DEF Steps
      <4>2. \A t \in Steps : (t < s + 1 => t <= s) /\ (t > s + 1 => t > s)
        BY <1>9, <3>2
      <4> QED
        BY <1>3, <2>2, <3>3, <3>4, <3>6, <4>1, <4>2 DEF Undecided
    <3> QED
      BY <3>5, <3>6
  <2> QED
    BY <2>1, <2>2
<1>17. NoReturn' /\ TrailTellsDecision'
  <2>1. AllTold
    BY ToldIsTold DEF ApprovalInv, RowsOK
  <2>2. ASSUME NEW j \in Instances, NEW t \in Steps PROVE Tells(trail'[j][t], step'[j][t])
    <3>1. CASE j = i /\ t = s
      <4>1. Tells(trail[i][s], step[i][s]) /\ trail[i][s] \in Seq(Transition)
        BY <1>2, <2>1 DEF AllTold, ApprovalInv, ApprovalTypeOK, Transition
      <4>2. StepResult(q.choice) \in StepStatus
        BY <1>4 DEF StepStatus
      <4> DEFINE told == trail[i][s]  saw == q.saw  to == StepResult(q.choice)
      <4>3. Tells(Grown(told, saw, to), to)
        <5>1. /\ told \in Seq(Transition) /\ Tells(told, step[i][s]) /\ step[i][s] \in Undecided
              /\ saw \in Undecided /\ to \in StepStatus /\ Follows(step[i][s], to)
          BY <1>2, <1>4, <4>1, <4>2 DEF Follows
        <5> HIDE DEF told, saw, to
        <5> QED
          BY <5>1, TrailGrows
      <4> QED
        BY <1>7, <1>8, <3>1, <4>3 DEF Grown
    <3>2. CASE ~(j = i /\ t = s)
      BY <1>6, <1>7, <1>8, <2>1, <3>2 DEF AllTold
    <3> QED
      BY <3>1, <3>2
  <2> QED
    BY <2>2 DEF Tells, NoReturn, TrailTellsDecision
<1>18. ASSUME NEW x \in Requests \ {r} PROVE JobOK(request[x])'
  <2>1. request[x].job = "submit" => instance'[request[x].of].status = "absent"
    BY <1>4, <1>6 DEF ApprovalInv, JobsOK, JobOK, SubmitOK
  <2>2. ASSUME NEW j \in Instances, NEW t \in Steps, Reached(j, t) PROVE Reached(j, t)'
    <3>1. CASE j # i
      BY <1>6, <2>2, <3>1 DEF Reached, Waiting
    <3>2. CASE j = i
      <4>1. instance'[i].status # "absent"
        BY <1>3, <1>4
      <4>2. step'[i][t] \notin Undecided
        BY <1>4, <1>7, <2>2, <3>2 DEF Reached, Waiting, Undecided
      <4> QED
        BY <3>2, <4>1, <4>2 DEF Reached
    <3> QED
      BY <3>1, <3>2
  <2>3. \A j \in Instances : instance[j].status # "absent" => instance'[j].doc = instance[j].doc
    BY <1>4, <1>6
  <2>4. ASSUME NEW j \in Instances, NEW t \in Steps, Holds(request[x], j, t)
        PROVE  step'[j][t] = step[j][t] /\ (Waiting(j, t) => Waiting(j, t)')
    <3>1. Waiting(j, t)
      BY <2>4, HeldIsWaitedOn
    <3>2. ~(j = i /\ t = s)
      BY <1>2, <1>5, <2>4 DEF ApprovalInv, AllApart, Apart
    <3>3. j # i
      BY <1>4, <3>1, <3>2 DEF Waiting
    <3> QED
      BY <1>6, <3>3 DEF Waiting
  <2>5. ASSUME NEW d \in Documents, Commits(request[x], d) PROVE document'[d] = document[d]
    <3>1. CASE ~Dispatched(q)
      BY <1>11, <3>1
    <3>2. CASE Dispatched(q)
      <4>1. Commits(q, q.doc) /\ q.doc \in Documents
        BY <1>4, <1>11, <3>2, ApprovalNamesAssumption DEF Commits
      <4>2. d # q.doc
        BY <2>5, <4>1 DEF ApprovalInv, AllApart, Apart
      <4> QED
        BY <1>11, <3>2, <4>2
    <3> QED
      BY <3>1, <3>2
  <2> QED
    BY <2>1, <2>2, <2>3, <2>4, <2>5, OthersKeep
<1>19. JobsOK'
  <2>1. JobOK(request[r])'
    BY WriterLeaves, IdleIsOK DEF JobOK, Idle, Settling
  <2> QED
    BY <1>18, <2>1 DEF JobsOK
<1> QED
  BY <1>12, <1>13, <1>14, <1>15, <1>16, <1>17, <1>19, WriterLeaves DEF ApprovalInv, RowsOK

(* The worker escalates the steps it holds, which wait still pending.      *)
LEMMA EscalationKeeps ==
  ASSUME ApprovalInv, NEW r \in Requests, request[r].job = "escalate",
         Escalated(request[r].marked), Free(r),
         UNCHANGED <<document, doneBy, closed, instance>>
  PROVE  ApprovalInv'
<1> DEFINE q == request[r]  marked == q.marked
<1>1. q \in Request /\ EscalateOK(q)
  BY DEF ApprovalInv, ApprovalTypeOK, JobsOK, JobOK
<1>2. \A i \in Instances, s \in Steps : <<i, s>> \in marked =>
        /\ step[i][s] = "pending" /\ Waiting(i, s) /\ Holds(q, i, s)
  BY <1>1 DEF EscalateOK, Holds
<1>3. \A i \in Instances, s \in Steps :
        step'[i][s] = IF <<i, s>> \in marked THEN "escalated" ELSE step[i][s]
  BY DEF Escalated
<1>4. \A i \in Instances, s \in Steps :
        trail'[i][s] = IF <<i, s>> \in marked THEN Grown(trail[i][s], "pending", "escalated")
                       ELSE trail[i][s]
  BY DEF Escalated, Grown
<1>5. \A i \in Instances, s \in Steps : Tells(trail[i][s], step[i][s])
  BY ToldIsTold DEF ApprovalInv, RowsOK, AllTold
<1>6. ASSUME NEW i \in Instances, NEW s \in Steps
      PROVE  trail'[i][s] \in Seq(Transition) /\ Tells(trail'[i][s], step'[i][s])
  <2> DEFINE told == trail[i][s]
  <2>1. told \in Seq(Transition) /\ Tells(told, step[i][s])
    BY <1>5 DEF ApprovalInv, ApprovalTypeOK, Transition
  <2>2. CASE <<i, s>> \in marked
    <3> DEFINE saw == "pending"  to == "escalated"
    <3>1. /\ step[i][s] \in Undecided /\ saw \in Undecided /\ to \in StepStatus
          /\ Follows(step[i][s], to)
      BY <1>2, <2>2 DEF Undecided, StepStatus, Follows
    <3>2. trail'[i][s] = Grown(told, saw, to) /\ step'[i][s] = to
      BY <1>3, <1>4, <2>2
    <3> HIDE DEF told, saw, to
    <3> QED
      BY <2>1, <3>1, <3>2, TrailGrows
  <2>3. CASE <<i, s>> \notin marked
    BY <1>3, <1>4, <2>1, <2>3
  <2> QED
    BY <2>2, <2>3
<1>7. ApprovalTypeOK'
  <2>1. step' \in [Instances -> [Steps -> StepStatus]]
    BY DEF Escalated, StepStatus, Undecided, ApprovalInv, ApprovalTypeOK
  <2>2. trail' \in [Instances -> [Steps -> Seq(Transition)]]
    <3>1. ASSUME NEW i \in Instances, NEW s \in Steps
          PROVE  (IF <<i, s>> \in request[r].marked
                  THEN Append(trail[i][s], <<"pending", "escalated">>)
                  ELSE trail[i][s]) \in Seq(Transition)
      BY <1>4, <1>6 DEF Grown
    <3> QED
      BY <3>1 DEF Escalated
  <2> QED
    BY <2>1, <2>2, WriterLeaves DEF ApprovalInv, ApprovalTypeOK, Transition
<1>8. \A i \in Instances, s \in Steps : step'[i][s] \in Undecided <=> step[i][s] \in Undecided
  BY <1>2, <1>3 DEF Undecided
<1>9. Begun' /\ OpenUnsettled' /\ ApprovedIsDone'
  <2>1. \A i \in Instances, s \in Steps : instance[i].status = "absent" =>
          step'[i][s] = step[i][s] /\ trail'[i][s] = trail[i][s]
    BY <1>2, <1>3, <1>4 DEF Waiting
  <2> QED
    BY <2>1 DEF ApprovalInv, RowsOK, Begun, Unbegun, OpenUnsettled, ApprovedIsDone
<1>10. NobodySkipped'
  <2>1. ASSUME NEW i \in Instances, instance[i].status = "pending", NEW s \in Steps,
               s > instance[i].current
        PROVE  step'[i][s] = "pending"
    <3>1. step[i][s] = "pending"
      BY <2>1 DEF ApprovalInv, RowsOK, NobodySkipped
    <3>2. instance[i].current # s
      BY <2>1, StepsAreNumbers DEF ApprovalInv, ApprovalTypeOK, Steps
    <3> QED
      BY <1>2, <1>3, <3>1, <3>2 DEF Waiting
  <2>2. \A i \in Instances : instance[i].current \in Steps
    BY DEF ApprovalInv, ApprovalTypeOK
  <2> QED
    BY <1>8, <2>1, <2>2 DEF ApprovalInv, RowsOK, NobodySkipped
<1>11. NoReturn' /\ TrailTellsDecision'
  BY <1>6 DEF Tells, NoReturn, TrailTellsDecision
<1>12. ASSUME NEW x \in Requests \ {r} PROVE JobOK(request[x])'
  <2>1. request[x].job = "submit" => instance'[request[x].of].status = "absent"
    BY DEF ApprovalInv, JobsOK, JobOK, SubmitOK
  <2>2. \A i \in Instances, s \in Steps : Reached(i, s) => Reached(i, s)'
    BY <1>8 DEF Reached, Waiting
  <2>3. \A i \in Instances : instance[i].status # "absent" => instance'[i].doc = instance[i].doc
    OBVIOUS
  <2>4. ASSUME NEW i \in Instances, NEW s \in Steps, Holds(request[x], i, s)
        PROVE  step'[i][s] = step[i][s] /\ (Waiting(i, s) => Waiting(i, s)')
    <3>1. <<i, s>> \notin marked
      BY <1>2, <2>4 DEF ApprovalInv, AllApart, Apart
    <3> QED
      BY <1>3, <3>1 DEF Waiting
  <2>5. \A d \in Documents : Commits(request[x], d) => document'[d] = document[d]
    OBVIOUS
  <2> QED
    BY <2>1, <2>2, <2>3, <2>4, <2>5, OthersKeep
<1>13. JobsOK'
  <2>1. JobOK(request[r])'
    BY WriterLeaves, IdleIsOK DEF JobOK, Idle, Settling
  <2> QED
    BY <1>12, <2>1 DEF JobsOK
<1> QED
  BY <1>7, <1>9, <1>10, <1>11, <1>13, WriterLeaves DEF ApprovalInv, RowsOK

(* A document that is posted directly, or voided, and a period that ends.  *)
LEMMA DocumentKeeps ==
  ASSUME ApprovalInv, NEW r \in Requests, request[r].at = "commit", Free(r),
         UNCHANGED <<instance, step, trail>>,
         \/ request[r].job = "direct" /\ DocumentDone(request[r]) /\ UNCHANGED closed
         \/ /\ request[r].job = "void" /\ UNCHANGED <<doneBy, closed>>
            /\ document' = [document EXCEPT ![request[r].doc] = "void"]
         \/ request[r].job = "close" /\ closed' = TRUE /\ UNCHANGED <<document, doneBy>>
  PROVE  ApprovalInv'
<1> DEFINE q == request[r]
<1>1. q \in Request /\ JobOK(q)
  BY DEF ApprovalInv, ApprovalTypeOK, JobsOK
<1>2. q.job \in {"direct", "void"} => q.doc \in Documents /\ q.doc # Nobody
  BY <1>1, ApprovalNamesAssumption DEF JobOK
<1>3. /\ document' \in [Documents -> {"open", "done", "void"}]
      /\ doneBy' \in [Documents -> Instances \cup {Nobody, Direct}]
      /\ closed' \in BOOLEAN
  BY <1>2, DocumentSettled DEF Settling, ApprovalInv, ApprovalTypeOK
<1>4. ASSUME NEW d \in Documents
      PROVE  /\ \/ doneBy'[d] = doneBy[d]
                \/ doneBy[d] = Nobody /\ doneBy'[d] = Direct /\ document'[d] = "done"
             /\ document'[d] = "open" => document[d] = "open" /\ doneBy'[d] = doneBy[d]
             /\ document'[d] = "done" =>
                  (document[d] = "done" /\ doneBy'[d] = doneBy[d]) \/ doneBy'[d] = Direct
             /\ document'[d] = document[d] \/ Commits(q, d)
  <2>1. CASE q.job = "direct"
    BY <1>2, <2>1, DocumentSettled DEF Settling, Commits
  <2>2. CASE q.job = "void"
    BY <1>2, <2>2 DEF Commits, ApprovalInv, ApprovalTypeOK
  <2>3. CASE q.job = "close"
    BY <2>3
  <2> QED
    BY <2>1, <2>2, <2>3
<1>5. \A d \in Documents, i \in Instances : doneBy'[d] = i <=> doneBy[d] = i
  BY <1>4, ApprovalNamesAssumption DEF Instances
<1>6. ApprovalTypeOK'
  BY <1>3, WriterLeaves DEF ApprovalInv, ApprovalTypeOK
<1>7. Begun'
  BY <1>5 DEF ApprovalInv, RowsOK, Begun, Unbegun
<1>8. OpenUnsettled'
  BY <1>4 DEF ApprovalInv, RowsOK, OpenUnsettled
<1>9. ApprovedIsDone'
  <2>1. \A i \in Instances : instance[i].doc \in Documents \cup {Nobody}
    BY DEF ApprovalInv, ApprovalTypeOK
  <2>2. \A i \in Instances :
          instance'[i].status \in Settled <=>
            instance'[i].doc # Nobody /\ doneBy'[instance'[i].doc] = i
    BY <1>5, <2>1 DEF ApprovalInv, RowsOK, ApprovedIsDone
  <2>3. \A d \in Documents : doneBy'[d] \in Instances => instance'[doneBy'[d]].doc = d
    BY <1>5 DEF ApprovalInv, RowsOK, ApprovedIsDone
  <2>4. \A d \in Documents : document'[d] = "done" => doneBy'[d] # Nobody
    BY <1>4, ApprovalNamesAssumption DEF ApprovalInv, RowsOK, ApprovedIsDone
  <2> QED
    BY <2>2, <2>3, <2>4 DEF ApprovedIsDone
<1>10. NobodySkipped' /\ NoReturn' /\ TrailTellsDecision'
  BY DEF ApprovalInv, RowsOK, NobodySkipped, NoReturn, TrailTellsDecision
<1>11. ASSUME NEW x \in Requests \ {r} PROVE JobOK(request[x])'
  <2>1. \A d \in Documents : Commits(request[x], d) => document'[d] = document[d]
    BY <1>4 DEF ApprovalInv, AllApart, Apart
  <2>2. \A i \in Instances, s \in Steps : Reached(i, s) => Reached(i, s)'
    BY DEF Reached, Waiting
  <2>3. \A i \in Instances, s \in Steps : Waiting(i, s) => Waiting(i, s)'
    BY DEF Waiting
  <2>4. request[x].job = "submit" => instance'[request[x].of].status = "absent"
    BY DEF ApprovalInv, JobsOK, JobOK, SubmitOK
  <2> QED
    BY <2>1, <2>2, <2>3, <2>4, OthersKeep
<1>12. JobsOK'
  <2>1. JobOK(request[r])'
    BY WriterLeaves, IdleIsOK DEF JobOK, Idle, Settling
  <2> QED
    BY <1>11, <2>1 DEF JobsOK
<1> QED
  BY <1>6, <1>7, <1>8, <1>9, <1>10, <1>12, WriterLeaves DEF ApprovalInv, RowsOK

LEMMA QueueKeeps ==
  ASSUME ApprovalInv, NEW r \in Requests, Queue(r)
  PROVE  ApprovalInv'
<1>1. request[r].job = "submit"
  BY DEF Queue, ApprovalInv, ApprovalTypeOK, JobsOK, JobOK, DecideOK, EscalateOK, Request
<1> QED
  BY <1>1, NewInstanceKeeps DEF Queue

LEMMA CommitKeeps ==
  ASSUME ApprovalInv, NEW r \in Requests, Commit(r)
  PROVE  ApprovalInv'
<1>1. request[r].at = "commit" /\ Free(r)
  BY DEF Commit
<1>2. CASE request[r].job = "submit"
  BY <1>1, <1>2, NewInstanceKeeps DEF Commit
<1>3. CASE request[r].job = "decide"
  BY <1>1, <1>3, DecisionKeeps DEF Commit
<1>4. CASE request[r].job = "escalate"
  BY <1>1, <1>4, EscalationKeeps DEF Commit
<1>5. CASE request[r].job \in {"direct", "void", "close"}
  BY <1>1, <1>5, DocumentKeeps DEF Commit
<1> QED
  BY <1>2, <1>3, <1>4, <1>5 DEF Commit

LEMMA AbortKeeps ==
  ASSUME ApprovalInv, NEW r \in Requests, Abort(r) \/ DeadlockVictim(r)
  PROVE  ApprovalInv'
BY FreeKeeps DEF Abort, DeadlockVictim

-----------------------------------------------------------------------------
LEMMA ApprovalStep == ApprovalInv /\ [Next]_vars => ApprovalInv'
<1> SUFFICES ASSUME ApprovalInv, [Next]_vars PROVE ApprovalInv'
  OBVIOUS
<1>1. ASSUME NEW r \in Requests, NEW d \in Documents, Submit(r, d) \/ Void(r, d)
      PROVE  ApprovalInv'
  BY <1>1, SubmitKeeps, VoidKeeps
<1>2. ASSUME NEW r \in Requests, NEW i \in Instances, NEW choice \in Choices,
             Decide(r, i, choice)
      PROVE  ApprovalInv'
  BY <1>2, DecideKeeps
<1>3. ASSUME NEW r \in Requests, ClosePeriod(r) \/ ListOverdue(r) \/ Abort(r)
      PROVE  ApprovalInv'
  BY <1>3, ClosePeriodKeeps, ListKeeps, AbortKeeps
<1>4. ASSUME NEW r \in Requests, Progress(r)
      PROVE  ApprovalInv'
  BY <1>4, QueueKeeps, ReadKeeps, UpdateKeeps, CompleteKeeps, SettleKeeps, UpdateVoidKeeps,
     MarkKeeps, CommitKeeps, AbortKeeps DEF Progress
<1>5. CASE UNCHANGED vars
  <2>1. UNCHANGED records /\ UNCHANGED request
    BY <1>5 DEF vars
  <2>2. ApprovalTypeOK'
    BY <2>1 DEF ApprovalInv, ApprovalTypeOK, records
  <2>3. RowsOK'
    BY <2>1 DEF ApprovalInv, RowsOK, records, Begun, Unbegun, OpenUnsettled, ApprovedIsDone,
                NobodySkipped, NoReturn, TrailTellsDecision
  <2>4. JobsOK' /\ AllApart'
    BY <2>1 DEF ApprovalInv, records, JobsOK, JobOK, SubmitOK, DecideOK, EscalateOK, Reached,
                Waiting, AllApart, Apart, Commits, Holds
  <2> QED
    BY <2>2, <2>3, <2>4 DEF ApprovalInv
<1> QED
  BY <1>1, <1>2, <1>3, <1>4, <1>5 DEF Next

LEMMA ApprovalAlways == Spec => []ApprovalInv
BY ApprovalInit, ApprovalStep, PTL DEF Spec

(* Every state of every instance is type correct.                          *)
THEOREM ApprovalTypes == Spec => []ApprovalTypeOK
<1>1. ApprovalInv => ApprovalTypeOK
  BY DEF ApprovalInv
<1> QED
  BY <1>1, ApprovalAlways, PTL

(* An instance is approved exactly when it is the one that posted its      *)
(* entry or approved its run: decide() and complete_posting or             *)
(* complete_approval take effect together or not at all.                   *)
THEOREM ApprovedMeansDone == Spec => []ApprovedIsDone
<1>1. ApprovalInv => ApprovedIsDone
  BY DEF ApprovalInv, RowsOK
<1> QED
  BY <1>1, ApprovalAlways, PTL

(* No decision and no escalation passes a step over: a pending instance    *)
(* waits on its first undecided step (engine.decide, _advance).            *)
THEOREM NobodyEverSkipped == Spec => []NobodySkipped
<1>1. ApprovalInv => NobodySkipped
  BY DEF ApprovalInv, RowsOK
<1> QED
  BY <1>1, ApprovalAlways, PTL

(* The audit trail of a step tells one escalation at most, however many    *)
(* passes overlap (mark_step_escalated), then one decision at most, and    *)
(* that is the one in force (update_step_decision).                        *)
THEOREM TrailAlwaysTells == Spec => []TrailTellsDecision
<1>1. ApprovalInv => TrailTellsDecision
  BY DEF ApprovalInv, RowsOK
<1> QED
  BY <1>1, ApprovalAlways, PTL

(* Only escalation passes ever wait in a cycle: a decision holds nothing   *)
(* while it waits for its step, and who holds a document is about to       *)
(* commit.                                                                 *)
CyclesArePasses == \A r \in Requests : OnWaitCycle(r) => request[r].job = "escalate"

THEOREM OnlyPassesDeadlock == Spec => []CyclesArePasses
<1>1. ASSUME ApprovalInv PROVE CyclesArePasses
  <2> SUFFICES ASSUME NEW S \in SUBSET Requests,
                      \A p \in S : WaitsFor(p) \cap S # {} /\ \E q \in S : p \in WaitsFor(q),
                      NEW r \in S
               PROVE  request[r].job = "escalate"
    BY DEF CyclesArePasses, OnWaitCycle
  <2>1. ASSUME NEW p \in S PROVE ~Writes(p)
    <3>1. WaitsFor(p) # {}
      OBVIOUS
    <3> QED
      BY <3>1 DEF WaitsFor, Writes
  <2>2. request[r].at \notin {"settle", "void"}
    BY <2>1 DEF WaitsFor
  <2>3. request[r].at \in {"mark", "update"}
    BY <2>2 DEF WaitsFor
  <2>4. PICK q \in S : r \in WaitsFor(q)
    OBVIOUS
  <2>5. \E i, s : HoldsStep(r, i, s)
    BY <2>1, <2>4 DEF WaitsFor
  <2>6. request[r].marked # {}
    BY <2>3, <2>5 DEF HoldsStep
  <2>7. r \in Requests /\ JobOK(request[r])
    BY <1>1 DEF ApprovalInv, JobsOK
  <2> QED
    BY <2>6, <2>7 DEF JobOK
<1> QED
  BY <1>1, ApprovalAlways, PTL

(* A decision stands: the row of a decided step and that of a completed    *)
(* instance are never written again (the guarded updates of decide and of  *)
(* the escalation passes, and the locks between them).                     *)
Stands ==
  \A i \in Instances :
    /\ \A s \in Steps : step[i][s] \notin Undecided /\ instance[i].status # "absent"
                          => step'[i][s] = step[i][s]
    /\ instance[i].status \notin {"absent", "pending"} => instance'[i] = instance[i]

THEOREM DecisionsAlwaysStand == Spec => DecisionsStand
<1>1. ApprovalInv /\ [Next]_vars => [Stands]_vars
  <2> SUFFICES ASSUME ApprovalInv, Next PROVE Stands
    BY DEF vars
  <2>1. CASE UNCHANGED <<instance, step>>
    BY <2>1 DEF Stands
  <2>2. ASSUME NEW r \in Requests, Queue(r) \/ (Commit(r) /\ request[r].job = "submit")
        PROVE  Stands
    <3> DEFINE q == request[r]
    <3>1. q.job = "submit" /\ Queued(q)
      BY <2>2 DEF Queue, Commit, ApprovalInv, ApprovalTypeOK, JobsOK, JobOK, DecideOK,
                  EscalateOK, Request
    <3>2. instance[q.of].status = "absent"
      BY <3>1 DEF ApprovalInv, JobsOK, JobOK, SubmitOK
    <3>3. \A i \in Instances \ {q.of} : instance'[i] = instance[i] /\ step'[i] = step[i]
      BY <3>1 DEF Queued, ApprovalInv, ApprovalTypeOK
    <3> QED
      BY <3>2, <3>3 DEF Stands
  <2>3. ASSUME NEW r \in Requests, Commit(r), request[r].job = "decide" PROVE Stands
    <3> DEFINE q == request[r]
    <3>1. q.at = "commit" /\ Decided(q)
      BY <2>3 DEF Commit
    <3>2. Waiting(q.of, q.step) /\ step[q.of][q.step] \in Undecided
      BY <2>3, <3>1, DecisionMoves
    <3>3. /\ \A t \in Steps \ {q.step} : step'[q.of][t] = step[q.of][t]
          /\ \A j \in Instances \ {q.of} : instance'[j] = instance[j] /\ step'[j] = step[j]
      BY <2>3, <3>1, DecisionMoves
    <3> QED
      BY <3>2, <3>3 DEF Stands, Waiting
  <2>4. ASSUME NEW r \in Requests, Commit(r), request[r].job = "escalate" PROVE Stands
    <3>1. UNCHANGED instance /\ Escalated(request[r].marked)
      BY <2>4 DEF Commit
    <3>2. \A i \in Instances, s \in Steps : <<i, s>> \in request[r].marked =>
            step[i][s] \in Undecided
      BY HeldIsWaitedOn DEF Holds
    <3>3. \A i \in Instances, s \in Steps : <<i, s>> \notin request[r].marked =>
            step'[i][s] = step[i][s]
      BY <3>1 DEF Escalated
    <3> QED
      BY <3>1, <3>2, <3>3 DEF Stands
  <2>5. ASSUME NEW r \in Requests, Commit(r), request[r].job \in {"direct", "void", "close"}
        PROVE  UNCHANGED <<instance, step>>
    BY <2>5 DEF Commit
  <2>6. ASSUME NEW r \in Requests, Commit(r)
        PROVE  request[r].job \in {"submit", "decide", "escalate", "direct", "void", "close"}
    BY <2>6 DEF Commit
  <2>7. ASSUME NEW r \in Requests,
               \/ ReadSteps(r) \/ UpdateStep(r) \/ Complete(r) \/ Settle(r) \/ UpdateVoid(r)
               \/ Mark(r) \/ ClosePeriod(r) \/ ListOverdue(r) \/ Abort(r)
               \/ DeadlockVictim(r)
               \/ \E d \in Documents : Submit(r, d) \/ Void(r, d)
               \/ \E i \in Instances, choice \in Choices : Decide(r, i, choice)
        PROVE  UNCHANGED <<instance, step>>
    BY <2>7 DEF ReadSteps, UpdateStep, Complete, Settle, UpdateVoid, Mark, ClosePeriod,
                ListOverdue, Abort, DeadlockVictim, Submit, Void, Decide, records
  <2> QED
    BY <2>1, <2>2, <2>3, <2>4, <2>5, <2>6, <2>7 DEF Next, Progress
<1> QED
  BY <1>1, ApprovalAlways, PTL DEF Spec, DecisionsStand, Stands
=============================================================================
