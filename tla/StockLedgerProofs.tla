-------------------------- MODULE StockLedgerProofs --------------------------
(***************************************************************************)
(* What is proved of StockLedger for any number of requests, operations    *)
(* and levels: type correctness of every instance, and, when every         *)
(* operation claims the levels it changes (ReservationsOnly), that the     *)
(* stock levels are the sums of the ledger in every committed state and    *)
(* that the ledger is never oversold.                                      *)
(***************************************************************************)
EXTENDS StockLedger, SumTheorems

-----------------------------------------------------------------------------
(* The movement a request is at is a movement.                             *)
LEMMA CurrentMove ==
  ASSUME TypeOK, NEW r \in Requests
  PROVE  /\ op[r] \in OperationType
         /\ idx[r] \in 1..Len(op[r].moves)
         /\ \A n \in 1..Len(op[r].moves) : op[r].moves[n] \in Movements
         /\ Move(r) \in Movements /\ Lvl(r) \in Levels /\ Key(r) \in Keys
<1>1. op[r] \in OperationType /\ idx[r] \in 1..Len(op[r].moves)
  BY OperationAssumption DEF TypeOK
<1>2. op[r].moves \in Seq(Movements) /\ op[r].ref \in Refs
  BY <1>1 DEF OperationType
<1>3. \A n \in 1..Len(op[r].moves) : op[r].moves[n] \in Movements
  BY <1>2
<1>4. Move(r) \in Movements
  BY <1>1, <1>3 DEF Move
<1>5. Lvl(r) \in Levels /\ Move(r).step \in Steps
  BY <1>4 DEF Lvl, Movements
<1>6. Key(r) \in Keys
  BY <1>2, <1>5 DEF Key, Keys
<1> QED
  BY <1>1, <1>3, <1>4, <1>5, <1>6

(* What a statement reads of a level is a row.                             *)
LEMMA ViewType ==
  ASSUME TypeOK, NEW r \in Requests, NEW l \in Levels
  PROVE  View(r, l) \in Rows
  BY DEF TypeOK, View

(* Adding a quantity to totals gives totals.                               *)
LEMMA PlusType ==
  ASSUME NEW t \in Totals, NEW c, NEW q \in Int
  PROVE  Plus(t, c, q) \in Totals
  BY DEF Plus, Totals

-----------------------------------------------------------------------------
(* Every instance of StockLedger is type correct.                          *)

(* The initial states are type correct.                                    *)
LEMMA TypeInit == Init => TypeOK
<1> SUFFICES ASSUME Init PROVE TypeOK
  OBVIOUS
<1>1. \A r \in Requests : 1 \in 1..Len(op[r].moves)
  <2> TAKE r \in Requests
  <2>1. op[r].moves \in Seq(Movements) /\ op[r].moves # << >>
    BY OperationAssumption DEF Init, OperationType
  <2> QED
    BY <2>1
<1>2. ledger \in [Levels -> Totals] /\ level \in [Levels -> Rows] /\ pend = level
  BY StockAssumption DEF Init, Totals, Rows
<1>3. Zero \in Totals /\ NoRow \in Rows
  BY DEF Zero, NoRow, Totals, Rows
<1> QED
  BY <1>1, <1>2, <1>3 DEF Init, TypeOK

(* Ending a request without its writes keeps the types.                    *)
LEMMA TypeRollback ==
  ASSUME TypeOK, NEW r \in Requests, Rollback(r)
  PROVE  TypeOK'
<1>1. Zero \in Totals
  BY DEF Zero, Totals
<1> QED
  BY <1>1 DEF TypeOK, Rollback, Ended, dbVars, itemVars, obsVars

(* Going on to the next movement or to the commit keeps the types of what  *)
(* it changes.                                                             *)
LEMMA TypeAfterWrite ==
  ASSUME TypeOK, NEW r \in Requests, AfterWrite(r), op' = op
  PROVE  /\ pc' \in [Requests -> {"idle", "announce"} \cup Running \cup Ended]
         /\ idx' \in [Requests -> Nat]
         /\ \A s \in Requests : idx'[s] \in 1..Len(op'[s].moves)
<1>0. idx[r] \in 1..Len(op[r].moves) /\ Len(op[r].moves) \in Nat
  <2>1. op[r].moves \in Seq(Movements)
    BY CurrentMove DEF OperationType
  <2> QED
    BY <2>1, CurrentMove
<1>1. CASE idx[r] < Len(op[r].moves)
  <2>1. idx[r] + 1 \in 1..Len(op[r].moves)
    BY <1>0, <1>1
  <2>2. op[r].moves[idx[r] + 1].entry \in {"check", "insert"}
    BY <2>1, CurrentMove DEF Movements
  <2>3. /\ idx' = [idx EXCEPT ![r] = @ + 1]
        /\ pc' = [pc EXCEPT ![r] = op[r].moves[idx[r] + 1].entry]
    BY <1>1 DEF AfterWrite
  <2>4. pc' \in [Requests -> {"idle", "announce"} \cup Running \cup Ended]
    BY <2>2, <2>3 DEF TypeOK, Running
  <2>5. /\ idx' \in [Requests -> Nat]
        /\ \A s \in Requests : idx'[s] \in 1..Len(op'[s].moves)
    BY <2>1, <2>3 DEF TypeOK
  <2> QED
    BY <2>4, <2>5
<1>2. CASE ~(idx[r] < Len(op[r].moves))
  BY <1>2 DEF AfterWrite, TypeOK, Running
<1> QED
  BY <1>1, <1>2

-----------------------------------------------------------------------------
(* TypeOK is inductive: one step per action of a request or administrator. *)
LEMMA TypeStep == TypeOK /\ [Next]_vars => TypeOK'
<1> SUFFICES ASSUME TypeOK, [Next]_vars PROVE TypeOK'
  OBVIOUS
<1> USE DEF reqVars, openVars, dbVars, itemVars, obsVars
<1>z. Zero \in Totals /\ NoRow \in Rows
  BY DEF Zero, NoRow, Totals, Rows
<1>1. ASSUME NEW r \in Requests, Begin(r) PROVE TypeOK'
  <2>1. Move(r).entry \in {"check", "insert"}
    BY CurrentMove DEF Movements
  <2> QED
    BY <1>1, <2>1 DEF Begin, TypeOK, Running
<1>2. ASSUME NEW r \in Requests, Check(r) PROVE TypeOK'
  <2>1. \A l \in Levels : View(r, l).on_hand \in Int
    BY ViewType DEF Rows
  <2>2. before' \in [Requests -> [Levels -> Int]]
    BY <1>2, <2>1 DEF Check, TypeOK
  <2> QED
    BY <1>2, <2>2 DEF Check, TypeOK, Running
<1>3. ASSUME NEW r \in Requests, ApplyReserved(r) PROVE TypeOK'
  <2>1. Lvl(r) \in Levels /\ Move(r).qty \in Int
    BY CurrentMove DEF Movements
  <2>2. [View(r, Lvl(r)) EXCEPT !.reserved = @ + Move(r).qty] \in Rows
    BY <2>1, ViewType DEF Rows
  <2> QED
    BY <1>3, <2>1, <2>2 DEF ApplyReserved, TypeOK, Running
<1>4. ASSUME NEW r \in Requests, InsertMovement(r) PROVE TypeOK'
  <2>1. Lvl(r) \in Levels /\ Move(r).qty \in Int /\ Key(r) \in Keys
    BY CurrentMove DEF Movements
  <2>2. Plus(delta[r][Lvl(r)], Move(r).column, Move(r).qty) \in Totals
    BY <2>1, PlusType DEF TypeOK
  <2>3. delta' \in [Requests -> [Levels -> Totals]]
    BY <1>4, <2>1, <2>2 DEF InsertMovement, TypeOK
  <2>4. mine' \in [Requests -> SUBSET Keys]
    BY <1>4, <2>1 DEF InsertMovement, TypeOK
  <2> QED
    BY <1>4, <2>3, <2>4 DEF InsertMovement, TypeOK, Running
<1>5. ASSUME NEW r \in Requests, SumLedger(r) PROVE TypeOK'
  <2>1. [on_hand  |-> ledger[Lvl(r)].on_hand + delta[r][Lvl(r)].on_hand,
         reserved |-> ledger[Lvl(r)].reserved + delta[r][Lvl(r)].reserved] \in Totals
    <3>1. Lvl(r) \in Levels
      BY CurrentMove
    <3>2. ledger[Lvl(r)] \in Totals /\ delta[r][Lvl(r)] \in Totals
      BY <3>1 DEF TypeOK
    <3> QED
      BY <3>2 DEF Totals
  <2> QED
    BY <1>5, <2>1 DEF SumLedger, TypeOK, Running
<1>6. ASSUME NEW r \in Requests, SelectLevel(r) PROVE TypeOK'
  <2>1. View(r, Lvl(r)) \in Rows
    BY CurrentMove, ViewType
  <2> QED
    BY <1>6, <2>1 DEF SelectLevel, TypeOK, Running
<1>7. ASSUME NEW r \in Requests, WriteLevel(r) PROVE TypeOK'
  <2>1. Lvl(r) \in Levels /\ View(r, Lvl(r)) \in Rows
    BY CurrentMove, ViewType
  <2>2. Flushed(r) \in Rows
    BY <2>1 DEF TypeOK, Flushed, Rows, Totals
  <2>3. pend' \in [Levels -> Rows] /\ lock' \in [Levels -> Requests \cup {NoRequest}]
    BY <1>7, <2>1, <2>2 DEF WriteLevel, TypeOK
  <2>4. /\ pc' \in [Requests -> {"idle", "announce"} \cup Running \cup Ended]
        /\ idx' \in [Requests -> Nat]
        /\ \A s \in Requests : idx'[s] \in 1..Len(op'[s].moves)
    BY <1>7, TypeAfterWrite DEF WriteLevel
  <2> QED
    BY <1>7, <1>z, <2>3, <2>4 DEF WriteLevel, TypeOK
<1>8. ASSUME NEW r \in Requests, Commit(r) PROVE TypeOK'
  <2>1. level' \in [Levels -> Rows]
    BY <1>8, ViewType DEF Commit
  <2>2. ledger' \in [Levels -> Totals]
    BY <1>8 DEF Commit, TypeOK, Totals
  <2>3. crossings' \in [Levels -> Nat]
    BY <1>8 DEF Commit, TypeOK
  <2> QED
    BY <1>8, <1>z, <2>1, <2>2, <2>3 DEF Commit, TypeOK
<1>9. ASSUME NEW r \in Requests, Announce(r) PROVE TypeOK'
  BY <1>9 DEF Announce, TypeOK, Ended
<1>10. ASSUME NEW r \in Requests, LostAnnouncement(r) PROVE TypeOK'
  BY <1>10 DEF LostAnnouncement, TypeOK, Ended
<1>11. ASSUME NEW r \in Requests,
              CheckFails(r) \/ GuardFails(r) \/ InsertConflicts(r) \/ WriteFails(r)
              \/ DeadlockVictim(r) \/ Lost(r)
       PROVE  TypeOK'
  BY <1>11, TypeRollback
     DEF CheckFails, GuardFails, InsertConflicts, WriteFails, DeadlockVictim, Lost
<1>12. ASSUME NEW x \in Archivable, Administer(x) PROVE TypeOK'
  BY <1>12 DEF Administer, ReadReserved, Deactivate, Reactivate, TypeOK
<1>13. CASE UNCHANGED vars
  BY <1>13 DEF vars, TypeOK
<1> QED
  BY <1>1, <1>2, <1>3, <1>4, <1>5, <1>6, <1>7, <1>8, <1>9, <1>10, <1>11, <1>12,
     <1>13 DEF Next, Step

(* Every reachable state has the types declared by TypeOK: in particular   *)
(* the position of a request never runs past the movements of its          *)
(* operation.                                                              *)
THEOREM TypeCorrect == Spec => []TypeOK
<1>1. Init => TypeOK
  BY TypeInit
<1>2. TypeOK /\ [Next]_vars => TypeOK'
  BY TypeStep
<1> QED
  BY <1>1, <1>2, PTL DEF Spec

-----------------------------------------------------------------------------
(* The inductive invariant behind LevelMatchesLedger. Between two commits   *)
(* the uncommitted version of a locked row runs ahead of, or behind, the    *)
(* ledger the request can see by at most the movement it is posting.        *)

Posting == {"insert", "sum", "select", "write"}

Ahead(r, l, column) ==
  IF l = Lvl(r) /\ column = Move(r).column
  THEN IF pc[r] = "insert" /\ Move(r).guard # "none" THEN Move(r).qty
       ELSE IF pc[r] \in Posting \ {"insert"} /\ Move(r).guard = "none"
            THEN -Move(r).qty ELSE 0
  ELSE 0

SeenOnHand(r, l)   == ledger[l].on_hand + delta[r][l].on_hand
SeenReserved(r, l) == ledger[l].reserved + delta[r][l].reserved

(* A request starts a movement at a claim, and posts only what it claimed. *)
ClaimFirst(r) ==
  /\ pc[r] = "idle" => idx[r] = 1
  /\ pc[r] \in {"check", "guard"} => GuardedMove(Move(r))
  /\ pc[r] \in Posting => lock[Lvl(r)] = r

PostedUnderLock(r) == \A l \in Levels : lock[l] # r => delta[r][l] = Zero

PendingFollowsLedger(r) ==
  \A l \in Levels : lock[l] = r =>
    /\ pend[l].exists /\ CheckConstraint(pend[l])
    /\ pend[l].on_hand = SeenOnHand(r, l) + Ahead(r, l, "on_hand")
    /\ pend[l].reserved = SeenReserved(r, l) + Ahead(r, l, "reserved")

ReadIsCurrent(r) ==
  /\ pc[r] \in {"select", "write"} =>
       /\ sums[r].on_hand = SeenOnHand(r, Lvl(r))
       /\ sums[r].reserved = SeenReserved(r, Lvl(r))
  /\ pc[r] = "write" => seen[r] = pend[Lvl(r)]

RequestInv(r) ==
  ClaimFirst(r) /\ PostedUnderLock(r) /\ PendingFollowsLedger(r) /\ ReadIsCurrent(r)

LevelsBounded == \A l \in Levels : CheckConstraint(level[l])

LedgerInv ==
  /\ TypeOK /\ LevelMatchesLedger /\ LevelsBounded
  /\ \A r \in Requests : RequestInv(r)

-----------------------------------------------------------------------------
(* The current movement either claims its level or follows a movement of   *)
(* the same level.                                                         *)
LEMMA CurrentClaims ==
  ASSUME ReservationsOnly, TypeOK, NEW r \in Requests, NEW n \in 1..Len(op[r].moves)
  PROVE  \/ GuardedMove(op[r].moves[n])
         \/ /\ n > 1 /\ op[r].moves[n - 1].lvl = op[r].moves[n].lvl
            /\ op[r].moves[n].guard = "none" /\ op[r].moves[n].entry = "insert"
  BY DEF TypeOK, ReservationsOnly, Claims

(* A step that leaves a request, the rows it has locked and the ledger of  *)
(* those rows alone leaves its part of the invariant alone.                *)
LEMMA Untouched ==
  ASSUME TypeOK, NEW s \in Requests, RequestInv(s), op' = op,
         pc'[s] = pc[s], idx'[s] = idx[s], sums'[s] = sums[s],
         seen'[s] = seen[s], delta'[s] = delta[s],
         \A l \in Levels : lock'[l] = s <=> lock[l] = s,
         \A l \in Levels : lock[l] = s => pend'[l] = pend[l] /\ ledger'[l] = ledger[l]
  PROVE  RequestInv(s)'
<1>1. Move(s)' = Move(s) /\ Lvl(s)' = Lvl(s) /\ Lvl(s) \in Levels
  BY CurrentMove DEF Move, Lvl
<1>2. \A l, c : Ahead(s, l, c)' = Ahead(s, l, c)
  BY <1>1 DEF Ahead
<1>3. \A l \in Levels : lock[l] = s => /\ SeenOnHand(s, l)' = SeenOnHand(s, l)
                                     /\ SeenReserved(s, l)' = SeenReserved(s, l)
  BY DEF SeenOnHand, SeenReserved
<1>4. ClaimFirst(s)'
  BY <1>1 DEF RequestInv, ClaimFirst
<1>5. PostedUnderLock(s)'
  BY DEF RequestInv, PostedUnderLock
<1>6. PendingFollowsLedger(s)'
  BY <1>2, <1>3 DEF RequestInv, PendingFollowsLedger
<1>7. ReadIsCurrent(s)'
  <2>1. pc[s] \in {"select", "write"} => lock[Lvl(s)] = s
    BY DEF RequestInv, ClaimFirst, Posting
  <2> QED
    BY <1>1, <1>3, <2>1 DEF RequestInv, ReadIsCurrent
<1> QED
  BY <1>4, <1>5, <1>6, <1>7 DEF RequestInv

-----------------------------------------------------------------------------
(* Each statement keeps the invariant of the request that executes it.     *)

(* Nothing has been claimed or posted when a request begins.               *)
LEMMA BeginKeeps ==
  ASSUME ReservationsOnly, TypeOK, NEW r \in Requests, RequestInv(r), Begin(r)
  PROVE  RequestInv(r)'
<1>1. idx[r] = 1 /\ 1 \in 1..Len(op[r].moves)
  BY CurrentMove DEF Begin, RequestInv, ClaimFirst
<1>2. GuardedMove(Move(r))
  BY <1>1, CurrentClaims DEF Move
<1>3. pc' = [pc EXCEPT ![r] = "check"]
  BY <1>2 DEF Begin, GuardedMove
<1>4. Move(r)' = Move(r) /\ Lvl(r)' = Lvl(r) /\ pc'[r] = "check"
  BY <1>3 DEF Begin, Move, Lvl, TypeOK
<1>5. \A l, c : Ahead(r, l, c)' = 0 /\ Ahead(r, l, c) = 0
  BY <1>4 DEF Begin, Ahead, Posting
<1> QED
  BY <1>2, <1>4, <1>5
     DEF Begin, RequestInv, ClaimFirst, PostedUnderLock, PendingFollowsLedger,
         ReadIsCurrent, SeenOnHand, SeenReserved, Posting, openVars, dbVars, GuardedMove

(* The checks read and post nothing.                                       *)
LEMMA CheckKeeps ==
  ASSUME TypeOK, NEW r \in Requests, RequestInv(r), Check(r)
  PROVE  RequestInv(r)'
<1>1. GuardedMove(Move(r))
  BY DEF Check, RequestInv, ClaimFirst
<1>2. Move(r)' = Move(r) /\ Lvl(r)' = Lvl(r) /\ pc'[r] = "guard"
  BY <1>1 DEF Check, Move, Lvl, TypeOK, GuardedMove
<1>3. \A l, c : Ahead(r, l, c)' = 0 /\ Ahead(r, l, c) = 0
  BY <1>2 DEF Check, Ahead, Posting
<1> QED
  BY <1>1, <1>2, <1>3
     DEF Check, RequestInv, ClaimFirst, PostedUnderLock, PendingFollowsLedger,
         ReadIsCurrent, SeenOnHand, SeenReserved, Posting, openVars, dbVars, GuardedMove

(* The conditional UPDATE puts the row ahead of the ledger, locked.        *)
LEMMA ApplyReservedKeeps ==
  ASSUME TypeOK, LevelMatchesLedger, LevelsBounded, NEW r \in Requests,
         RequestInv(r), ApplyReserved(r)
  PROVE  RequestInv(r)'
<1> DEFINE m == Move(r)
           k == Lvl(r)
<1>1. /\ k \in Levels /\ m.qty \in Int /\ GuardedMove(m)
      /\ m \in Movements
  BY CurrentMove DEF ApplyReserved, RequestInv, ClaimFirst, Movements
<1>2. /\ View(r, k) \in Rows /\ View(r, k).exists
      /\ CheckConstraint(View(r, k))
      /\ View(r, k).on_hand = SeenOnHand(r, k)
      /\ View(r, k).reserved = SeenReserved(r, k)
  <2>0. View(r, k) \in Rows /\ View(r, k).exists
    BY <1>1, ViewType DEF ApplyReserved, GuardHolds
  <2>1. CASE lock[k] = r
    <3>1. Ahead(r, k, "on_hand") = 0 /\ Ahead(r, k, "reserved") = 0
      BY DEF ApplyReserved, Ahead, Posting
    <3>2. /\ CheckConstraint(pend[k]) /\ pend[k] \in Rows
          /\ pend[k].on_hand = SeenOnHand(r, k) + 0
          /\ pend[k].reserved = SeenReserved(r, k) + 0
      BY <1>1, <2>1, <3>1 DEF RequestInv, PendingFollowsLedger, TypeOK
    <3>3. SeenOnHand(r, k) \in Int /\ SeenReserved(r, k) \in Int
      BY <1>1 DEF SeenOnHand, SeenReserved, TypeOK, Totals
    <3> QED
      BY <2>0, <2>1, <3>2, <3>3 DEF View
  <2>2. CASE lock[k] # r
    <3>1. delta[r][k] = Zero
      BY <1>1, <2>2 DEF RequestInv, PostedUnderLock
    <3>2. SeenOnHand(r, k) = ledger[k].on_hand /\ SeenReserved(r, k) = ledger[k].reserved
      BY <1>1, <3>1 DEF SeenOnHand, SeenReserved, Zero, TypeOK, Totals
    <3> QED
      BY <1>1, <2>0, <2>2, <3>2 DEF View, LevelsBounded, LevelMatchesLedger
  <2> QED
    BY <2>1, <2>2
<1>3. /\ pend'[k].exists
      /\ pend'[k].on_hand = SeenOnHand(r, k)
      /\ pend'[k].reserved = SeenReserved(r, k) + m.qty
      /\ \A l \in Levels \ {k} : pend'[l] = pend[l]
  BY <1>1, <1>2 DEF ApplyReserved, TypeOK, Rows
<1>4. CheckConstraint(pend'[k])
  BY <1>1, <1>2, <1>3 DEF ApplyReserved, GuardHolds, GuardedMove, CheckConstraint, Rows
<1>5. /\ lock'[k] = r /\ \A l \in Levels \ {k} : lock'[l] = lock[l]
      /\ pc'[r] = "insert" /\ m' = m /\ k' = k
  BY <1>1 DEF ApplyReserved, Move, Lvl, TypeOK
<1>6. /\ \A l \in Levels : /\ SeenOnHand(r, l)' = SeenOnHand(r, l)
                           /\ SeenReserved(r, l)' = SeenReserved(r, l)
      /\ SeenOnHand(r, k) \in Int /\ SeenReserved(r, k) \in Int
  BY <1>1 DEF ApplyReserved, SeenOnHand, SeenReserved, dbVars, TypeOK, Totals
<1>7. /\ Ahead(r, k, "on_hand")' = 0 /\ Ahead(r, k, "reserved")' = m.qty
      /\ \A l \in Levels \ {k} : \A c : Ahead(r, l, c)' = Ahead(r, l, c)
  BY <1>1, <1>5 DEF Ahead, GuardedMove
<1>8. ClaimFirst(r)'
  BY <1>1, <1>5 DEF ClaimFirst, Posting
<1>9. PostedUnderLock(r)'
  BY <1>5 DEF ApplyReserved, RequestInv, PostedUnderLock
<1>10. PendingFollowsLedger(r)'
  <2> SUFFICES ASSUME NEW l \in Levels, lock'[l] = r
               PROVE  /\ pend'[l].exists /\ CheckConstraint(pend'[l])
                      /\ pend'[l].on_hand = SeenOnHand(r, l)' + Ahead(r, l, "on_hand")'
                      /\ pend'[l].reserved = SeenReserved(r, l)' + Ahead(r, l, "reserved")'
    BY DEF PendingFollowsLedger, CheckConstraint
  <2>1. CASE l = k
    BY <1>1, <1>3, <1>4, <1>5, <1>6, <1>7, <2>1 DEF Ahead
  <2>2. CASE l # k
    BY <1>3, <1>5, <1>6, <1>7, <2>2 DEF RequestInv, PendingFollowsLedger
  <2> QED
    BY <2>1, <2>2
<1>11. ReadIsCurrent(r)'
  BY <1>5 DEF ReadIsCurrent
<1> QED
  BY <1>8, <1>9, <1>10, <1>11 DEF RequestInv

(* The INSERT brings the ledger up to the row, or past it.                 *)
LEMMA InsertMovementKeeps ==
  ASSUME TypeOK, NEW r \in Requests, RequestInv(r), InsertMovement(r)
  PROVE  RequestInv(r)'
<1> DEFINE m == Move(r)
           k == Lvl(r)
<1>1. k \in Levels /\ m.qty \in Int /\ m \in Movements /\ lock[k] = r
  BY CurrentMove DEF InsertMovement, RequestInv, ClaimFirst, Movements, Posting
<1>2. m' = m /\ k' = k /\ pc'[r] = "sum" /\ pend' = pend /\ lock' = lock
  BY DEF InsertMovement, Move, Lvl, TypeOK
<1>3. /\ delta'[r][k] = Plus(delta[r][k], m.column, m.qty)
      /\ \A l \in Levels \ {k} : delta'[r][l] = delta[r][l]
  BY <1>1 DEF InsertMovement, TypeOK
<1>4. /\ delta[r][k] \in Totals /\ ledger[k] \in Totals /\ ledger' = ledger
  BY <1>1 DEF TypeOK, InsertMovement, dbVars
<1>5. /\ SeenOnHand(r, k)' + Ahead(r, k, "on_hand")'
           = SeenOnHand(r, k) + Ahead(r, k, "on_hand")
      /\ SeenReserved(r, k)' + Ahead(r, k, "reserved")'
           = SeenReserved(r, k) + Ahead(r, k, "reserved")
  <2>1. pc[r] = "insert" /\ m.column \in {"on_hand", "reserved"}
    BY <1>1 DEF InsertMovement, Movements, Columns
  <2>2. /\ SeenOnHand(r, k)' = ledger[k].on_hand + Plus(delta[r][k], m.column, m.qty).on_hand
        /\ SeenReserved(r, k)' = ledger[k].reserved + Plus(delta[r][k], m.column, m.qty).reserved
    BY <1>2, <1>3, <1>4 DEF SeenOnHand, SeenReserved
  <2>3. CASE m.guard = "none"
    BY <1>1, <1>2, <1>4, <2>1, <2>2, <2>3
       DEF Ahead, Posting, SeenOnHand, SeenReserved, Plus, Totals
  <2>4. CASE m.guard # "none"
    BY <1>1, <1>2, <1>4, <2>1, <2>2, <2>4
       DEF Ahead, Posting, SeenOnHand, SeenReserved, Plus, Totals
  <2> QED
    BY <2>3, <2>4
<1>6. \A l \in Levels \ {k} : /\ SeenOnHand(r, l)' = SeenOnHand(r, l)
                             /\ SeenReserved(r, l)' = SeenReserved(r, l)
                             /\ \A c : Ahead(r, l, c)' = Ahead(r, l, c)
  BY <1>2, <1>3, <1>4 DEF SeenOnHand, SeenReserved, Ahead
<1>7. ClaimFirst(r)'
  BY <1>1, <1>2 DEF ClaimFirst, Posting
<1>8. PostedUnderLock(r)'
  BY <1>1, <1>2, <1>3 DEF RequestInv, PostedUnderLock
<1>9. PendingFollowsLedger(r)'
  <2> SUFFICES ASSUME NEW l \in Levels, lock[l] = r
               PROVE  /\ pend[l].exists /\ CheckConstraint(pend[l])
                      /\ pend[l].on_hand = SeenOnHand(r, l)' + Ahead(r, l, "on_hand")'
                      /\ pend[l].reserved = SeenReserved(r, l)' + Ahead(r, l, "reserved")'
    BY <1>2 DEF PendingFollowsLedger, CheckConstraint
  <2>1. CASE l = k
    BY <1>1, <1>2, <1>5, <2>1
       DEF RequestInv, PendingFollowsLedger, SeenOnHand, SeenReserved, Ahead
  <2>2. CASE l # k
    BY <1>6, <2>2 DEF RequestInv, PendingFollowsLedger
  <2> QED
    BY <2>1, <2>2
<1>10. ReadIsCurrent(r)'
  BY <1>2 DEF ReadIsCurrent
<1> QED
  BY <1>7, <1>8, <1>9, <1>10 DEF RequestInv

(* The SUM is current: the level is locked, so no one else commits to it.  *)
LEMMA SumLedgerKeeps ==
  ASSUME TypeOK, NEW r \in Requests, RequestInv(r), SumLedger(r)
  PROVE  RequestInv(r)'
<1>1. Move(r)' = Move(r) /\ Lvl(r)' = Lvl(r) /\ pc[r] = "sum" /\ pc'[r] = "select"
  BY DEF SumLedger, Move, Lvl, TypeOK
<1>2. \A l, c : Ahead(r, l, c)' = Ahead(r, l, c)
  BY <1>1 DEF Ahead, Posting
<1>3. \A l : SeenOnHand(r, l)' = SeenOnHand(r, l) /\ SeenReserved(r, l)' = SeenReserved(r, l)
  BY DEF SumLedger, SeenOnHand, SeenReserved, openVars, dbVars
<1>4. /\ sums'[r].on_hand = SeenOnHand(r, Lvl(r))
      /\ sums'[r].reserved = SeenReserved(r, Lvl(r))
  BY DEF SumLedger, SeenOnHand, SeenReserved, TypeOK
<1> QED
  BY <1>1, <1>2, <1>3, <1>4
     DEF SumLedger, RequestInv, ClaimFirst, PostedUnderLock, PendingFollowsLedger,
         ReadIsCurrent, Posting, openVars

(* So is the SELECT of the level.                                          *)
LEMMA SelectLevelKeeps ==
  ASSUME TypeOK, NEW r \in Requests, RequestInv(r), SelectLevel(r)
  PROVE  RequestInv(r)'
<1>1. Move(r)' = Move(r) /\ Lvl(r)' = Lvl(r) /\ pc[r] = "select" /\ pc'[r] = "write"
  BY DEF SelectLevel, Move, Lvl, TypeOK
<1>2. \A l, c : Ahead(r, l, c)' = Ahead(r, l, c)
  BY <1>1 DEF Ahead, Posting
<1>3. \A l : SeenOnHand(r, l)' = SeenOnHand(r, l) /\ SeenReserved(r, l)' = SeenReserved(r, l)
  BY DEF SelectLevel, SeenOnHand, SeenReserved, openVars, dbVars
<1>4. seen'[r] = pend[Lvl(r)]
  BY <1>1 DEF SelectLevel, RequestInv, ClaimFirst, Posting, View, TypeOK
<1> QED
  BY <1>1, <1>2, <1>3, <1>4
     DEF SelectLevel, RequestInv, ClaimFirst, PostedUnderLock, PendingFollowsLedger,
         ReadIsCurrent, Posting, openVars

(* The absolute rewrite of the level lands on what the ledger says, since   *)
(* the row has been locked from before the SUM until now.                  *)
LEMMA WriteLevelKeeps ==
  ASSUME ReservationsOnly, TypeOK, NEW r \in Requests, RequestInv(r), WriteLevel(r)
  PROVE  RequestInv(r)'
<1>k. PICK k \in Levels : k = Lvl(r)
  BY CurrentMove
<1>1. /\ pc[r] = "write" /\ lock[k] = r
      /\ pend[k].exists /\ CheckConstraint(pend[k])
      /\ seen[r] = pend[k] /\ View(r, k) = pend[k]
      /\ sums[r].on_hand = SeenOnHand(r, k)
      /\ sums[r].reserved = SeenReserved(r, k)
  BY <1>k DEF WriteLevel, RequestInv, ClaimFirst, PendingFollowsLedger,
              ReadIsCurrent, Posting, View
<1>2. /\ pend'[k].exists /\ CheckConstraint(pend'[k])
      /\ pend'[k].on_hand = SeenOnHand(r, k)
      /\ pend'[k].reserved = SeenReserved(r, k)
      /\ \A l \in Levels \ {k} : pend'[l] = pend[l]
      /\ \A l \in Levels : lock'[l] = r <=> lock[l] = r
  <2>1. CASE NothingToFlush(r)
    <3>1. UNCHANGED <<pend, lock>>
      BY <2>1 DEF WriteLevel
    <3> QED
      BY <1>1, <2>1, <3>1 DEF NothingToFlush
  <2>2. CASE ~NothingToFlush(r)
    <3>1. /\ CheckConstraint(Flushed(r))
          /\ lock' = [lock EXCEPT ![k] = r] /\ pend' = [pend EXCEPT ![k] = Flushed(r)]
      BY <1>k, <2>2 DEF WriteLevel
    <3>2. /\ Flushed(r).exists
          /\ Flushed(r).on_hand = SeenOnHand(r, k)
          /\ Flushed(r).reserved = SeenReserved(r, k)
      BY <1>k, <1>1 DEF Flushed
    <3> QED
      BY <1>1, <3>1, <3>2 DEF TypeOK
  <2> QED
    BY <2>1, <2>2
<1>3. /\ pc'[r] \in {"check", "insert", "commit"}
      /\ pc'[r] = "check" => GuardedMove(Move(r)')
      /\ pc'[r] = "insert" => Move(r)'.guard = "none" /\ Lvl(r)' = k
  <2>1. CASE idx[r] < Len(op[r].moves)
    <3>0. idx[r] + 1 \in 1..Len(op[r].moves) /\ (idx[r] + 1) - 1 = idx[r]
      <4>1. op[r].moves \in Seq(Movements) /\ idx[r] \in Nat
        BY CurrentMove DEF OperationType, TypeOK
      <4> QED
        BY <2>1, <4>1
    <3>1. /\ op' = op /\ idx'[r] = idx[r] + 1
          /\ pc'[r] = op[r].moves[idx[r] + 1].entry
      BY <2>1 DEF WriteLevel, AfterWrite, TypeOK
    <3>2. Move(r)' = op[r].moves[idx[r] + 1] /\ Lvl(r)' = op[r].moves[idx[r] + 1].lvl
      BY <3>1 DEF Move, Lvl
    <3>3. \/ GuardedMove(op[r].moves[idx[r] + 1])
          \/ /\ op[r].moves[idx[r]].lvl = op[r].moves[idx[r] + 1].lvl
             /\ op[r].moves[idx[r] + 1].guard = "none"
             /\ op[r].moves[idx[r] + 1].entry = "insert"
      BY <3>0, CurrentClaims
    <3>4. CASE GuardedMove(op[r].moves[idx[r] + 1])
      BY <3>1, <3>2, <3>4 DEF GuardedMove
    <3>5. CASE ~GuardedMove(op[r].moves[idx[r] + 1])
      BY <1>k, <3>1, <3>2, <3>3, <3>5 DEF Move, Lvl
    <3> QED
      BY <3>4, <3>5
  <2>2. CASE ~(idx[r] < Len(op[r].moves))
    BY <2>2 DEF WriteLevel, AfterWrite, TypeOK
  <2> QED
    BY <2>1, <2>2
<1>4. \A l, c : Ahead(r, l, c)' = 0
  BY <1>3 DEF Ahead, Posting
<1>5. \A l \in Levels \ {k} : \A c : Ahead(r, l, c) = 0
  BY <1>k DEF Ahead
<1>6. \A l : SeenOnHand(r, l)' = SeenOnHand(r, l) /\ SeenReserved(r, l)' = SeenReserved(r, l)
  BY DEF WriteLevel, SeenOnHand, SeenReserved, dbVars
<1>7. \A l \in Levels : SeenOnHand(r, l) \in Int /\ SeenReserved(r, l) \in Int
  <2>1. \A l \in Levels : ledger[l] \in Totals /\ delta[r][l] \in Totals
    BY DEF TypeOK
  <2> QED
    BY <2>1 DEF SeenOnHand, SeenReserved, Totals
<1>8. ClaimFirst(r)'
  BY <1>1, <1>2, <1>3 DEF ClaimFirst, Posting
<1>9. PostedUnderLock(r)'
  BY <1>2 DEF WriteLevel, RequestInv, PostedUnderLock
<1>10. PendingFollowsLedger(r)'
  <2> SUFFICES ASSUME NEW l \in Levels, lock'[l] = r
               PROVE  /\ pend'[l].exists /\ CheckConstraint(pend'[l])
                      /\ pend'[l].on_hand = SeenOnHand(r, l) + 0
                      /\ pend'[l].reserved = SeenReserved(r, l) + 0
    BY <1>4, <1>6 DEF PendingFollowsLedger, CheckConstraint
  <2>1. CASE l = k
    BY <1>2, <1>7, <2>1
  <2>2. CASE l # k
    BY <1>2, <1>5, <2>2 DEF RequestInv, PendingFollowsLedger
  <2> QED
    BY <2>1, <2>2
<1>11. ReadIsCurrent(r)'
  BY <1>3 DEF ReadIsCurrent
<1> QED
  BY <1>8, <1>9, <1>10, <1>11 DEF RequestInv

(* A request that ends, or that has nothing open any more, owes nothing.    *)
LEMMA EndedKeeps ==
  ASSUME NEW r \in Requests, pc'[r] \in {"announce"} \cup Ended,
         \A l \in Levels : lock'[l] # r /\ delta'[r][l] = Zero
  PROVE  RequestInv(r)'
  BY DEF RequestInv, ClaimFirst, PostedUnderLock, PendingFollowsLedger,
         ReadIsCurrent, Posting, Ended

(* Announcing reads and writes no stock.                                   *)
LEMMA AnnounceKeeps ==
  ASSUME TypeOK, NEW r \in Requests, RequestInv(r), Announce(r) \/ LostAnnouncement(r)
  PROVE  RequestInv(r)'
<1>1. pc[r] = "announce" /\ pc'[r] \in Ended
  BY DEF Announce, LostAnnouncement, TypeOK, Ended
<1>2. \A l, c : Ahead(r, l, c)' = 0 /\ Ahead(r, l, c) = 0
  BY <1>1 DEF Ahead, Posting, Ended
<1> QED
  BY <1>1, <1>2
     DEF Announce, LostAnnouncement, RequestInv, ClaimFirst, PostedUnderLock,
         PendingFollowsLedger, ReadIsCurrent, SeenOnHand, SeenReserved, Posting,
         Ended, openVars, dbVars

-----------------------------------------------------------------------------
(* What every way of failing does to the invariant.                        *)
LEMMA RollbackKeeps ==
  ASSUME LedgerInv, NEW r \in Requests, Rollback(r)
  PROVE  (\A s \in Requests : RequestInv(s)') /\ UNCHANGED <<level, ledger>>
<1> USE DEF LedgerInv
<1>1. RequestInv(r)'
  <2>1. pc'[r] = "rejected" /\ \A l \in Levels : delta'[r][l] = Zero
    BY DEF Rollback, TypeOK
  <2>2. \A l \in Levels : lock'[l] # r
    BY RequestAssumption DEF Rollback
  <2> QED
    BY <2>1, <2>2, EndedKeeps DEF Ended
<1>2. ASSUME NEW s \in Requests \ {r} PROVE RequestInv(s)'
  <2>1. /\ op' = op /\ pc'[s] = pc[s] /\ idx'[s] = idx[s] /\ sums'[s] = sums[s]
        /\ seen'[s] = seen[s] /\ delta'[s] = delta[s]
        /\ pend' = pend /\ ledger' = ledger
    BY DEF Rollback, TypeOK, dbVars
  <2>2. \A l \in Levels : lock'[l] = s <=> lock[l] = s
    BY RequestAssumption DEF Rollback
  <2> QED
    BY <2>1, <2>2, Untouched
<1> QED
  BY <1>1, <1>2 DEF Rollback, dbVars

(* The commit publishes the locked rows and the ledger rows together.      *)
LEMMA CommitKeeps ==
  ASSUME LedgerInv, NEW r \in Requests, Commit(r)
  PROVE  /\ \A s \in Requests : RequestInv(s)'
         /\ LevelMatchesLedger' /\ LevelsBounded'
<1> USE DEF LedgerInv
<1>1. \A l, c : Ahead(r, l, c) = 0
  BY DEF Commit, Ahead, Posting
<1>2. ASSUME NEW l \in Levels, lock[l] # r
      PROVE  ledger'[l] = ledger[l] /\ level'[l] = level[l]
  <2>1. delta[r][l] = Zero /\ ledger[l] \in Totals
    BY <1>2 DEF RequestInv, PostedUnderLock, TypeOK
  <2>2. ledger'[l] = [on_hand |-> ledger[l].on_hand + 0, reserved |-> ledger[l].reserved + 0]
    BY <2>1 DEF Commit, Zero
  <2> QED
    BY <1>2, <2>1, <2>2 DEF Commit, View, Totals
<1>3. ASSUME NEW l \in Levels, lock[l] = r
      PROVE  /\ level'[l] = pend[l] /\ CheckConstraint(pend[l])
             /\ pend[l].on_hand = ledger'[l].on_hand
             /\ pend[l].reserved = ledger'[l].reserved
  <2>1. /\ pend[l].on_hand = SeenOnHand(r, l) + 0
        /\ pend[l].reserved = SeenReserved(r, l) + 0
        /\ CheckConstraint(pend[l])
    BY <1>1, <1>3 DEF RequestInv, PendingFollowsLedger
  <2>2. SeenOnHand(r, l) \in Int /\ SeenReserved(r, l) \in Int
    BY DEF SeenOnHand, SeenReserved, TypeOK, Totals
  <2>3. ledger'[l].on_hand = SeenOnHand(r, l) /\ ledger'[l].reserved = SeenReserved(r, l)
    BY DEF Commit, SeenOnHand, SeenReserved
  <2> QED
    BY <1>3, <2>1, <2>2, <2>3 DEF Commit, View
<1>4. LevelMatchesLedger' /\ LevelsBounded'
  BY <1>2, <1>3 DEF LevelMatchesLedger, LevelsBounded, CheckConstraint
<1>5. RequestInv(r)'
  <2>1. pc'[r] = "announce" /\ \A l \in Levels : delta'[r][l] = Zero
    BY DEF Commit, TypeOK
  <2>2. \A l \in Levels : lock'[l] # r
    BY RequestAssumption DEF Commit
  <2> QED
    BY <2>1, <2>2, EndedKeeps
<1>6. ASSUME NEW s \in Requests \ {r} PROVE RequestInv(s)'
  <2>1. /\ op' = op /\ pc'[s] = pc[s] /\ idx'[s] = idx[s] /\ sums'[s] = sums[s]
        /\ seen'[s] = seen[s] /\ delta'[s] = delta[s] /\ pend' = pend
    BY DEF Commit, TypeOK
  <2>2. \A l \in Levels : lock'[l] = s <=> lock[l] = s
    BY RequestAssumption DEF Commit
  <2>3. \A l \in Levels : lock[l] = s => ledger'[l] = ledger[l]
    BY <1>2
  <2> QED
    BY <2>1, <2>2, <2>3, Untouched
<1> QED
  BY <1>4, <1>5, <1>6

-----------------------------------------------------------------------------

(* The invariant holds of the initial states.                              *)
LEMMA LedgerInit == Init => LedgerInv
<1> SUFFICES ASSUME Init PROVE LedgerInv
  OBVIOUS
<1>1. LevelMatchesLedger /\ LevelsBounded
  BY StockAssumption DEF Init, LevelMatchesLedger, LevelsBounded, CheckConstraint
<1>2. \A r \in Requests : RequestInv(r)
  BY RequestAssumption
     DEF Init, RequestInv, ClaimFirst, PostedUnderLock, PendingFollowsLedger,
         ReadIsCurrent, Posting
<1> QED
  BY <1>1, <1>2, TypeInit DEF LedgerInv

(* The statements that lock, post and rewrite, seen by the other requests.  *)
LEMMA StatementsKeepOthers ==
  ASSUME LedgerInv, NEW r \in Requests,
         Begin(r) \/ Check(r) \/ ApplyReserved(r) \/ InsertMovement(r) \/ SumLedger(r)
         \/ SelectLevel(r) \/ WriteLevel(r) \/ Announce(r) \/ LostAnnouncement(r)
  PROVE  /\ \A s \in Requests \ {r} : RequestInv(s)'
         /\ UNCHANGED <<level, ledger>>
<1> USE DEF LedgerInv, openVars, dbVars
<1>1. UNCHANGED <<level, ledger>>
  BY DEF Begin, Check, ApplyReserved, InsertMovement, SumLedger, SelectLevel,
         WriteLevel, Announce, LostAnnouncement
<1>2. ASSUME NEW s \in Requests \ {r} PROVE RequestInv(s)'
  <2>1. op' = op /\ pc'[s] = pc[s] /\ idx'[s] = idx[s]
    BY DEF Begin, Check, ApplyReserved, InsertMovement, SumLedger, SelectLevel,
           WriteLevel, AfterWrite, Announce, LostAnnouncement, TypeOK
  <2>2. sums'[s] = sums[s] /\ seen'[s] = seen[s] /\ delta'[s] = delta[s]
    BY DEF Begin, Check, ApplyReserved, InsertMovement, SumLedger, SelectLevel,
           WriteLevel, Announce, LostAnnouncement, TypeOK
  <2>3. /\ \A l \in Levels : lock'[l] = s <=> lock[l] = s
        /\ \A l \in Levels : lock[l] = s => pend'[l] = pend[l]
    <3>1. CASE ApplyReserved(r)
      BY <3>1, CurrentMove, RequestAssumption DEF ApplyReserved, MayLock, TypeOK
    <3>2. CASE WriteLevel(r)
      BY <3>2, CurrentMove, RequestAssumption DEF WriteLevel, MayLock, TypeOK
    <3>3. CASE ~ApplyReserved(r) /\ ~WriteLevel(r)
      BY <3>3 DEF Begin, Check, InsertMovement, SumLedger, SelectLevel, Announce,
                  LostAnnouncement
    <3> QED
      BY <3>1, <3>2, <3>3
  <2>4. \A l \in Levels : lock[l] = s => pend'[l] = pend[l] /\ ledger'[l] = ledger[l]
    BY <1>1, <2>3
  <2>5. TypeOK /\ RequestInv(s) /\ s \in Requests
    OBVIOUS
  <2> HIDE DEF LedgerInv, openVars, dbVars
  <2> QED
    BY <2>1, <2>2, <2>3, <2>4, <2>5, Untouched
<1> QED
  BY <1>1, <1>2

(* LedgerInv is inductive for operations that claim what they change.      *)
LEMMA LedgerStep ==
  ASSUME ReservationsOnly
  PROVE  LedgerInv /\ [Next]_vars => LedgerInv'
<1> SUFFICES ASSUME LedgerInv, [Next]_vars PROVE LedgerInv'
  OBVIOUS
<1>t. TypeOK /\ TypeOK'
  BY TypeStep DEF LedgerInv
<1>l. ASSUME UNCHANGED <<level, ledger>> PROVE LevelMatchesLedger' /\ LevelsBounded'
  BY <1>l DEF LedgerInv, LevelMatchesLedger, LevelsBounded
<1>1. ASSUME NEW r \in Requests,
             Begin(r) \/ Check(r) \/ ApplyReserved(r) \/ InsertMovement(r)
             \/ SumLedger(r) \/ SelectLevel(r) \/ WriteLevel(r) \/ Announce(r)
             \/ LostAnnouncement(r)
      PROVE  LedgerInv'
  <2>1. RequestInv(r)'
    BY <1>1, BeginKeeps, CheckKeeps, ApplyReservedKeeps, InsertMovementKeeps,
       SumLedgerKeeps, SelectLevelKeeps, WriteLevelKeeps, AnnounceKeeps DEF LedgerInv
  <2>2. (\A s \in Requests \ {r} : RequestInv(s)') /\ UNCHANGED <<level, ledger>>
    BY <1>1, StatementsKeepOthers
  <2> QED
    BY <1>t, <1>l, <2>1, <2>2 DEF LedgerInv
<1>2. ASSUME NEW r \in Requests,
             CheckFails(r) \/ GuardFails(r) \/ InsertConflicts(r) \/ WriteFails(r)
             \/ DeadlockVictim(r) \/ Lost(r)
      PROVE  LedgerInv'
  <2>1. Rollback(r)
    BY <1>2 DEF CheckFails, GuardFails, InsertConflicts, WriteFails, DeadlockVictim, Lost
  <2> QED
    BY <1>t, <1>l, <2>1, RollbackKeeps DEF LedgerInv
<1>3. ASSUME NEW r \in Requests, Commit(r) PROVE LedgerInv'
  BY <1>t, <1>3, CommitKeeps DEF LedgerInv
<1>4. ASSUME UNCHANGED <<reqVars, openVars, dbVars>> PROVE LedgerInv'
  <2>1. \A s \in Requests : RequestInv(s)'
    BY <1>t, <1>4, Untouched DEF LedgerInv, reqVars, openVars, dbVars
  <2> QED
    BY <1>t, <1>l, <1>4, <2>1 DEF LedgerInv, dbVars
<1>5. ASSUME NEW x \in Archivable, Administer(x) PROVE LedgerInv'
  BY <1>4, <1>5 DEF Administer, ReadReserved, Deactivate, Reactivate
<1>6. CASE UNCHANGED vars
  BY <1>4, <1>6 DEF vars
<1> QED
  BY <1>1, <1>2, <1>3, <1>5, <1>6 DEF Next, Step

(* When no operation changes a level it has not claimed, the materialized   *)
(* levels equal the sums of the ledger in every committed state, however    *)
(* many requests race, deadlock or are lost.                               *)
THEOREM LevelsMatchLedger ==
  ASSUME ReservationsOnly
  PROVE  Spec => []LevelMatchesLedger
<1>1. Init => LedgerInv
  BY LedgerInit
<1>2. LedgerInv /\ [Next]_vars => LedgerInv'
  BY LedgerStep
<1>3. LedgerInv => LevelMatchesLedger
  BY DEF LedgerInv
<1> QED
  BY <1>1, <1>2, <1>3, PTL DEF Spec

(* Then the ledger never promises more units than it holds, although no    *)
(* constraint of the database looks at the ledger.                         *)
THEOREM LedgerNeverOversold ==
  ASSUME ReservationsOnly
  PROVE  Spec => []NeverOversold
<1>1. Init => LedgerInv
  BY LedgerInit
<1>2. LedgerInv /\ [Next]_vars => LedgerInv'
  BY LedgerStep
<1>3. LedgerInv => NeverOversold
  BY DEF LedgerInv, LevelMatchesLedger, LevelsBounded, CheckConstraint, NeverOversold
<1> QED
  BY <1>1, <1>2, <1>3, PTL DEF Spec

-----------------------------------------------------------------------------
(* The lines of an order as the sales service passes them: quantities are  *)
(* never negative.                                                         *)
OrderLine == [product : Products, qty : Nat]

(* Every line of such an order has a quantity.                             *)
LEMMA LineType ==
  ASSUME NEW lines \in Seq(OrderLine)
  PROVE  /\ Len(lines) \in Nat
         /\ \A n \in 1..Len(lines) : lines[n].qty \in Nat
<1>1. /\ Len(lines) \in Nat
      /\ \A n \in 1..Len(lines) : lines[n] \in OrderLine
  OBVIOUS
<1> QED
  BY <1>1 DEF OrderLine

(* The conditional UPDATE of a reservation or a release claims its level.  *)
LEMMA ReservationMovesClaim ==
  ASSUME NEW lvl, NEW q \in Nat, NEW probed
  PROVE  GuardedMove(ReservationMove(lvl, q)) /\ GuardedMove(ReleaseMove(lvl, q, probed))
<1>1. GuardedMove(ReservationMove(lvl, q))
  BY DEF GuardedMove, ReservationMove
<1>2. /\ ReleaseMove(lvl, q, probed).entry = "check"
      /\ ReleaseMove(lvl, q, probed).column = "reserved"
      /\ ReleaseMove(lvl, q, probed).guard = "release"
      /\ ReleaseMove(lvl, q, probed).qty = -q
  BY DEF ReleaseMove
<1>3. -q <= 0
  OBVIOUS
<1> QED
  BY <1>1, <1>2, <1>3 DEF GuardedMove

(* reserve_order claims the level of every line.                           *)
LEMMA ReserveOrderClaims ==
  ASSUME NEW ref, NEW w, NEW lines \in Seq(OrderLine)
  PROVE  Claims(ReserveOrder(ref, w, lines).moves)
<1>1. \A n \in 1..Len(lines) : lines[n].qty \in Nat
  BY LineType
<1>2. /\ Len(ReserveOrder(ref, w, lines).moves) = Len(lines)
      /\ \A n \in 1..Len(lines) : ReserveOrder(ref, w, lines).moves[n]
                                 = ReservationMove(<<lines[n].product, w>>, lines[n].qty)
  <2>1. DOMAIN ReserveOrder(ref, w, lines).moves = 1..Len(lines)
    BY DEF ReserveOrder
  <2> QED
    BY <2>1, LineType DEF ReserveOrder
<1>3. \A n \in 1..Len(lines) : GuardedMove(ReserveOrder(ref, w, lines).moves[n])
  BY <1>1, <1>2, ReservationMovesClaim
<1> QED
  BY <1>2, <1>3 DEF Claims

(* release_order claims the level of every line.                           *)
LEMMA ReleaseOrderClaims ==
  ASSUME NEW ref, NEW w, NEW lines \in Seq(OrderLine)
  PROVE  Claims(ReleaseOrder(ref, w, lines).moves)
<1>1. \A n \in 1..Len(lines) : lines[n].qty \in Nat
  BY LineType
<1>2. /\ Len(ReleaseOrder(ref, w, lines).moves) = Len(lines)
      /\ \A n \in 1..Len(lines) : ReleaseOrder(ref, w, lines).moves[n]
                                 = ReleaseMove(<<lines[n].product, w>>, lines[n].qty, TRUE)
  <2>1. DOMAIN ReleaseOrder(ref, w, lines).moves = 1..Len(lines)
    BY DEF ReleaseOrder
  <2> QED
    BY <2>1, LineType DEF ReleaseOrder
<1>3. \A n \in 1..Len(lines) : GuardedMove(ReleaseOrder(ref, w, lines).moves[n])
  BY <1>1, <1>2, ReservationMovesClaim
<1> QED
  BY <1>2, <1>3 DEF Claims

(* Every second movement of a fulfilment is the issue of the line whose    *)
(* release came just before it.                                            *)
LEMMA FulfilOrderLinesClaims ==
  ASSUME NEW ref, NEW w, NEW lines \in Seq(OrderLine)
  PROVE  Claims(FulfilOrderLines(ref, w, lines).moves)
<1> DEFINE moves == FulfilOrderLines(ref, w, lines).moves
           line(n) == lines[(n + 1) \div 2]
<1>1. /\ Len(lines) \in Nat
      /\ \A n \in 1..Len(lines) : lines[n].qty \in Nat
  BY LineType
<1>2. /\ Len(moves) = 2 * Len(lines)
      /\ \A n \in 1..(2 * Len(lines)) :
           moves[n] = IF n % 2 = 1
                      THEN ReleaseMove(<<line(n).product, w>>, line(n).qty, FALSE)
                      ELSE IssueMove(<<line(n).product, w>>, line(n).qty)
  BY <1>1 DEF FulfilOrderLines
<1>3. SUFFICES ASSUME NEW n \in 1..(2 * Len(lines))
               PROVE  \/ GuardedMove(moves[n])
                      \/ /\ n > 1 /\ moves[n - 1].lvl = moves[n].lvl
                         /\ moves[n].guard = "none" /\ moves[n].entry = "insert"
  BY <1>2 DEF Claims
<1>4. CASE n % 2 = 1
  <2>1. (n + 1) \div 2 \in 1..Len(lines)
    BY <1>1
  <2>2. moves[n] = ReleaseMove(<<line(n).product, w>>, line(n).qty, FALSE)
    BY <1>2, <1>4
  <2>3. line(n).qty \in Nat
    BY <1>1, <2>1
  <2> HIDE DEF moves, line
  <2> QED
    BY <2>2, <2>3, ReservationMovesClaim
<1>5. CASE n % 2 # 1
  <2>1. /\ n - 1 \in 1..(2 * Len(lines)) /\ n > 1 /\ (n - 1) % 2 = 1
        /\ ((n - 1) + 1) \div 2 = (n + 1) \div 2
    BY <1>1, <1>5
  <2>2. line(n - 1) = line(n)
    BY <2>1
  <2>3. moves[n] = IssueMove(<<line(n).product, w>>, line(n).qty)
    BY <1>2, <1>5
  <2>4. moves[n - 1] = ReleaseMove(<<line(n - 1).product, w>>, line(n - 1).qty, FALSE)
    BY <1>2, <2>1
  <2> HIDE DEF moves, line
  <2> QED
    BY <2>1, <2>2, <2>3, <2>4 DEF IssueMove, ReleaseMove
<1> QED
  BY <1>4, <1>5

(* The hypothesis of LevelsMatchLedger and LedgerNeverOversold is about    *)
(* the code: whoever only reserves, releases and fulfils orders, of any    *)
(* length and at any warehouse, claims every level it posts to.            *)
THEOREM OrderMethodsClaim ==
  ASSUME \A o \in Operations :
           \E ref \in Refs, w \in Warehouses, lines \in Seq(OrderLine) :
             o \in {ReserveOrder(ref, w, lines), ReleaseOrder(ref, w, lines),
                   FulfilOrderLines(ref, w, lines)}
  PROVE  ReservationsOnly
  BY ReserveOrderClaims, ReleaseOrderClaims, FulfilOrderLinesClaims DEF ReservationsOnly

-----------------------------------------------------------------------------
(* The ledger as accounts that whole operations move: what a request has   *)
(* posted so far, and what is left of its operation. No claims are needed  *)
(* for this, so it holds of adjust_stock and transfer_stock as well.       *)

Quantity(o)  == [n \in 1..Len(o.moves) |-> o.moves[n].qty]
Placed(o, S, l, c) == {n \in S : o.moves[n].lvl = l /\ o.moves[n].column = c}
Moved(o, S, l, c)  == SumFunctionOnSet(Quantity(o), Placed(o, S, l, c))

Behind == {"sum", "select", "write", "commit"}

Posted(r) ==
  {n \in 1..Len(op[r].moves) : n < idx[r] \/ (n = idx[r] /\ pc[r] \in Behind)}

(* The uncommitted ledger rows of a request are those of the movements     *)
(* behind it.                                                              *)
Tracks(r) ==
  /\ pc[r] = "idle" => idx[r] = 1
  /\ pc[r] = "commit" => idx[r] = Len(op[r].moves)
  /\ mine[r] = {KeyAt(op[r], n) : n \in Posted(r)}
  /\ \A j, k \in Posted(r) : j # k => KeyAt(op[r], j) # KeyAt(op[r], k)
  /\ \A l \in Levels : /\ delta[r][l].on_hand = Moved(op[r], Posted(r), l, "on_hand")
                       /\ delta[r][l].reserved = Moved(op[r], Posted(r), l, "reserved")

Tracked == \A r \in Requests : pc[r] \in {"idle"} \cup Running => Tracks(r)

(* No key is posted twice, committed or not.                               *)
KeysApart ==
  \A r \in Requests : /\ mine[r] \cap rows = {}
                      /\ \A s \in Requests \ {r} : mine[r] \cap mine[s] = {}

PostedInv == Tracked /\ KeysApart

LEMMA MovesCounted ==
  ASSUME NEW o \in OperationType
  PROVE  /\ Len(o.moves) \in Nat
         /\ \A n \in 1..Len(o.moves) : o.moves[n] \in Movements /\ o.moves[n].qty \in Int
<1>1. o.moves \in Seq(Movements)
  BY DEF OperationType
<1>2. Len(o.moves) \in Nat /\ \A n \in 1..Len(o.moves) : o.moves[n] \in Movements
  BY <1>1
<1>3. \A m \in Movements : m.qty \in Int
  BY DEF Movements
<1> QED
  BY <1>2, <1>3

LEMMA PlacedFinite ==
  ASSUME NEW o \in OperationType, NEW S \in SUBSET (1..Len(o.moves)), NEW l, NEW c
  PROVE  /\ IsFiniteSet(Placed(o, S, l, c))
         /\ \A n \in Placed(o, S, l, c) : Quantity(o)[n] \in Int
         /\ Moved(o, S, l, c) \in Int
<1>1. IsFiniteSet(1..Len(o.moves))
  BY MovesCounted, FS_Interval
<1>2. IsFiniteSet(Placed(o, S, l, c))
  BY <1>1, FS_Subset DEF Placed
<1>3. \A n \in Placed(o, S, l, c) : Quantity(o)[n] \in Int
  BY MovesCounted DEF Placed, Quantity
<1> QED
  BY <1>2, <1>3, SumType DEF Moved

(* Nothing placed, nothing moved.                                          *)
LEMMA MovedNothing ==
  ASSUME NEW o, NEW S, NEW l, NEW c, Placed(o, S, l, c) = {}
  PROVE  Moved(o, S, l, c) = 0
<1>1. SumFunctionOnSet(Quantity(o), {}) = 0
  BY SumEmpty
<1> QED
  BY <1>1, Zenon DEF Moved

(* One movement more moves its level and column by its quantity,           *)
LEMMA MovedHere ==
  ASSUME NEW o \in OperationType, NEW S \in SUBSET (1..Len(o.moves)),
         NEW k \in 1..Len(o.moves), k \notin S
  PROVE  Moved(o, S \cup {k}, o.moves[k].lvl, o.moves[k].column) =
           Moved(o, S, o.moves[k].lvl, o.moves[k].column) + o.moves[k].qty
<1> DEFINE T == Placed(o, S, o.moves[k].lvl, o.moves[k].column)
           f == Quantity(o)
<1>1. Placed(o, S \cup {k}, o.moves[k].lvl, o.moves[k].column) = T \cup {k} /\ k \notin T
  BY DEF Placed
<1>2. f[k] = o.moves[k].qty /\ f[k] \in Int
  BY MovesCounted DEF Quantity
<1>3. IsFiniteSet(T) /\ \A n \in T : f[n] \in Int
  BY PlacedFinite
<1>4. /\ Moved(o, S \cup {k}, o.moves[k].lvl, o.moves[k].column) = SumFunctionOnSet(f, T \cup {k})
      /\ Moved(o, S, o.moves[k].lvl, o.moves[k].column) = SumFunctionOnSet(f, T)
  BY <1>1, Zenon DEF Moved
<1> HIDE DEF T, f
<1>5. SumFunctionOnSet(f, T \cup {k}) = SumFunctionOnSet(f, T) + f[k]
  <2>1. k \notin T /\ IsFiniteSet(T) /\ f[k] \in Int /\ \A n \in T : f[n] \in Int
    BY <1>1, <1>2, <1>3
  <2> QED
    BY <2>1, SumAdd, Zenon
<1> QED
  BY <1>2, <1>4, <1>5

(* and no other.                                                           *)
LEMMA MovedElsewhere ==
  ASSUME NEW o, NEW S, NEW k, NEW l, NEW c,
         ~(o.moves[k].lvl = l /\ o.moves[k].column = c)
  PROVE  Moved(o, S \cup {k}, l, c) = Moved(o, S, l, c)
<1>1. Placed(o, S \cup {k}, l, c) = Placed(o, S, l, c)
  BY DEF Placed
<1> QED
  BY <1>1, Zenon DEF Moved

-----------------------------------------------------------------------------
LEMMA PostedInvInit == Init => PostedInv
<1> SUFFICES ASSUME Init PROVE PostedInv
  OBVIOUS
<1>1. ASSUME NEW r \in Requests PROVE Tracks(r)
  <2>1. idx[r] = 1 /\ pc[r] = "idle" /\ mine[r] = {} /\ delta[r] = [l \in Levels |-> Zero]
    BY DEF Init
  <2>2. op[r] \in OperationType /\ Len(op[r].moves) \in Nat
    BY MovesCounted, OperationAssumption DEF Init
  <2>3. Posted(r) = {}
    BY <2>1, <2>2 DEF Posted, Behind
  <2>4. \A l, c : Placed(op[r], Posted(r), l, c) = {}
    BY <2>3 DEF Placed
  <2>5. \A l, c : Moved(op[r], Posted(r), l, c) = 0
    BY <2>4, MovedNothing
  <2> QED
    BY <2>1, <2>3, <2>5 DEF Tracks, Zero
<1>2. KeysApart
  BY DEF Init, KeysApart
<1> QED
  BY <1>1, <1>2 DEF PostedInv, Tracked

(* A request whose rows and position stay, and that posts nothing.         *)
LEMMA TracksKept ==
  ASSUME NEW r \in Requests, Tracks(r), op' = op, idx'[r] = idx[r],
         mine'[r] = mine[r], delta'[r] = delta[r],
         pc'[r] \in Behind <=> pc[r] \in Behind,
         pc'[r] = "idle" => pc[r] = "idle",
         pc'[r] = "commit" => pc[r] = "commit"
  PROVE  Tracks(r)'
<1>1. Posted(r)' = Posted(r)
  BY DEF Posted
<1>2. \A S, l, c : Moved(op'[r], S, l, c) = Moved(op[r], S, l, c)
  OBVIOUS
<1> QED
  BY <1>1, <1>2 DEF Tracks

(* What a step that only moves the request on leaves alone.                *)
LEMMA OthersTracked ==
  ASSUME TypeOK, Tracked, NEW r \in Requests, op' = op, Tracks(r)' \/ pc'[r] \notin {"idle"} \cup Running,
         \A s \in Requests \ {r} : /\ pc'[s] = pc[s] /\ idx'[s] = idx[s]
                                   /\ mine'[s] = mine[s] /\ delta'[s] = delta[s]
  PROVE  Tracked'
<1>1. ASSUME NEW s \in Requests \ {r}, pc'[s] \in {"idle"} \cup Running PROVE Tracks(s)'
  <2>1. Tracks(s)
    BY <1>1 DEF Tracked
  <2> QED
    BY <2>1, TracksKept
<1> QED
  BY <1>1 DEF Tracked

-----------------------------------------------------------------------------
(* Each statement keeps it.                                                *)

LEMMA RollbackPosts ==
  ASSUME TypeOK, PostedInv, NEW r \in Requests, Rollback(r)
  PROVE  PostedInv' /\ UNCHANGED <<ledger, rows>>
<1>1. /\ pc'[r] \notin {"idle"} \cup Running /\ op' = op
      /\ \A s \in Requests \ {r} : /\ pc'[s] = pc[s] /\ idx'[s] = idx[s]
                                   /\ mine'[s] = mine[s] /\ delta'[s] = delta[s]
  BY DEF Rollback, TypeOK, Running
<1>2. Tracked'
  BY <1>1, OthersTracked DEF PostedInv
<1>3. mine'[r] = {} /\ rows' = rows /\ ledger' = ledger
  BY DEF Rollback, TypeOK, dbVars
<1>4. KeysApart'
  BY <1>1, <1>3 DEF PostedInv, KeysApart
<1> QED
  BY <1>2, <1>3, <1>4 DEF PostedInv

(* The statements that post nothing.                                       *)
LEMMA QuietPosts ==
  ASSUME TypeOK, PostedInv, NEW r \in Requests,
         Begin(r) \/ Check(r) \/ ApplyReserved(r) \/ SumLedger(r) \/ SelectLevel(r)
         \/ Announce(r) \/ LostAnnouncement(r)
  PROVE  PostedInv' /\ UNCHANGED <<ledger, rows>>
<1> USE DEF openVars, dbVars
<1>1. /\ op' = op /\ idx' = idx /\ mine' = mine /\ delta' = delta
      /\ rows' = rows /\ ledger' = ledger
  BY DEF Begin, Check, ApplyReserved, SumLedger, SelectLevel, Announce, LostAnnouncement
<1>2. \A s \in Requests \ {r} : pc'[s] = pc[s]
  BY DEF Begin, Check, ApplyReserved, SumLedger, SelectLevel, Announce, LostAnnouncement, TypeOK
<1>3. \/ pc'[r] \notin {"idle"} \cup Running
      \/ /\ pc[r] \in {"idle"} \cup Running /\ pc'[r] \notin {"idle", "commit"}
         /\ pc'[r] \in Behind <=> pc[r] \in Behind
  <2>1. CASE Begin(r)
    <3>1. Move(r).entry \in {"check", "insert"}
      BY CurrentMove DEF Movements
    <3> QED
      BY <2>1, <3>1 DEF Begin, TypeOK, Running, Behind
  <2>2. CASE Check(r) \/ ApplyReserved(r) \/ SumLedger(r) \/ SelectLevel(r)
    BY <2>2 DEF Check, ApplyReserved, SumLedger, SelectLevel, TypeOK, Running, Behind
  <2>3. CASE Announce(r) \/ LostAnnouncement(r)
    BY <2>3 DEF Announce, LostAnnouncement, TypeOK, Running
  <2> QED
    BY <2>1, <2>2, <2>3
<1>4. Tracks(r)' \/ pc'[r] \notin {"idle"} \cup Running
  BY <1>1, <1>3, TracksKept DEF PostedInv, Tracked
<1>5. Tracked'
  BY <1>1, <1>2, <1>4, OthersTracked DEF PostedInv
<1>6. KeysApart'
  BY <1>1 DEF PostedInv, KeysApart
<1> QED
  BY <1>1, <1>5, <1>6 DEF PostedInv

(* A rewritten level is behind the request whatever comes next.            *)
LEMMA WriteLevelPosts ==
  ASSUME TypeOK, PostedInv, NEW r \in Requests, WriteLevel(r)
  PROVE  PostedInv' /\ UNCHANGED <<ledger, rows>>
<1>1. /\ op' = op /\ mine' = mine /\ delta' = delta /\ rows' = rows /\ ledger' = ledger
      /\ pc[r] = "write" /\ Tracks(r)
  BY DEF WriteLevel, dbVars, PostedInv, Tracked, Running
<1>2. \A s \in Requests \ {r} : pc'[s] = pc[s] /\ idx'[s] = idx[s]
  BY DEF WriteLevel, AfterWrite, TypeOK
<1>3. idx[r] \in 1..Len(op[r].moves) /\ Len(op[r].moves) \in Nat
  BY CurrentMove, MovesCounted
<1>4. Tracks(r)'
  <2>1. CASE idx[r] < Len(op[r].moves)
    <3>1. idx'[r] = idx[r] + 1 /\ pc'[r] \in {"check", "insert"}
      <4>1. op[r].moves[idx[r] + 1].entry \in {"check", "insert"}
        BY <1>3, <2>1, CurrentMove DEF Movements
      <4> QED
        BY <2>1, <4>1 DEF WriteLevel, AfterWrite, TypeOK
    <3>2. Posted(r)' = Posted(r)
      BY <1>1, <1>3, <2>1, <3>1 DEF Posted, Behind
    <3> QED
      BY <1>1, <3>1, <3>2 DEF Tracks
  <2>2. CASE ~(idx[r] < Len(op[r].moves))
    <3>1. idx'[r] = idx[r] /\ pc'[r] = "commit" /\ idx[r] = Len(op[r].moves)
      BY <1>3, <2>2 DEF WriteLevel, AfterWrite, TypeOK
    <3>2. Posted(r)' = Posted(r)
      BY <1>1, <3>1 DEF Posted, Behind
    <3> QED
      BY <1>1, <3>1, <3>2 DEF Tracks
  <2> QED
    BY <2>1, <2>2
<1>5. Tracked'
  BY <1>1, <1>2, <1>4, OthersTracked DEF PostedInv
<1>6. KeysApart'
  BY <1>1 DEF PostedInv, KeysApart
<1> QED
  BY <1>1, <1>5, <1>6 DEF PostedInv

(* An INSERT posts the movement the request is at, under a key that nobody *)
(* has posted.                                                             *)
LEMMA InsertMovementPosts ==
  ASSUME TypeOK, PostedInv, NEW r \in Requests, InsertMovement(r)
  PROVE  PostedInv' /\ UNCHANGED <<ledger, rows>>
<1> DEFINE o == op[r]
           k == idx[r]
<1>1. /\ op' = op /\ idx' = idx /\ rows' = rows /\ ledger' = ledger
      /\ pc[r] = "insert" /\ pc'[r] = "sum" /\ Tracks(r)
      /\ mine'[r] = mine[r] \cup {Key(r)}
      /\ Key(r) \notin rows \cup mine[r] /\ \A s \in Requests \ {r} : Key(r) \notin mine[s]
  BY DEF InsertMovement, dbVars, PostedInv, Tracked, Running, TypeOK, KeyInFlight
<1>2. \A s \in Requests \ {r} : pc'[s] = pc[s] /\ mine'[s] = mine[s] /\ delta'[s] = delta[s]
  BY DEF InsertMovement, TypeOK
<1>3. /\ o \in OperationType /\ k \in 1..Len(o.moves) /\ o.moves[k] \in Movements
      /\ Posted(r) \in SUBSET (1..Len(o.moves)) /\ k \notin Posted(r)
  BY <1>1, CurrentMove DEF Posted, Behind
<1>4. Posted(r)' = Posted(r) \cup {k}
  BY <1>1, <1>3, MovesCounted DEF Posted, Behind
<1>5. /\ mine'[r] = {KeyAt(o, n) : n \in Posted(r)'}
      /\ \A i, j \in Posted(r)' : i # j => KeyAt(o, i) # KeyAt(o, j)
  <2>1. Key(r) = KeyAt(o, k)
    BY DEF Key, KeyAt, Move, Lvl
  <2> HIDE DEF o, k
  <2> QED
    BY <1>1, <1>4, <2>1 DEF Tracks, o
<1>6. ASSUME NEW l \in Levels
      PROVE  /\ delta'[r][l].on_hand = Moved(o, Posted(r) \cup {k}, l, "on_hand")
             /\ delta'[r][l].reserved = Moved(o, Posted(r) \cup {k}, l, "reserved")
  <2>1. delta'[r][l] = IF l = Lvl(r) THEN Plus(delta[r][l], Move(r).column, Move(r).qty)
                       ELSE delta[r][l]
    BY CurrentMove DEF InsertMovement, TypeOK
  <2>2. /\ delta[r][l].on_hand = Moved(o, Posted(r), l, "on_hand")
        /\ delta[r][l].reserved = Moved(o, Posted(r), l, "reserved")
    BY <1>1 DEF Tracks
  <2>3. Move(r) = o.moves[k] /\ Lvl(r) = o.moves[k].lvl
    BY DEF Move, Lvl
  <2> HIDE DEF o, k
  <2>4. ASSUME NEW c
        PROVE  Moved(o, Posted(r) \cup {k}, l, c) =
                 IF Lvl(r) = l /\ Move(r).column = c
                 THEN Moved(o, Posted(r), l, c) + Move(r).qty ELSE Moved(o, Posted(r), l, c)
    <3>1. CASE Lvl(r) = l /\ Move(r).column = c
      BY <1>3, <2>3, <3>1, MovedHere
    <3>2. CASE ~(Lvl(r) = l /\ Move(r).column = c)
      BY <2>3, <3>2, MovedElsewhere
    <3> QED
      BY <3>1, <3>2
  <2>5. /\ delta'[r][l].on_hand = IF Lvl(r) = l /\ Move(r).column = "on_hand"
                                  THEN delta[r][l].on_hand + Move(r).qty ELSE delta[r][l].on_hand
        /\ delta'[r][l].reserved = IF Lvl(r) = l /\ Move(r).column = "reserved"
                                   THEN delta[r][l].reserved + Move(r).qty ELSE delta[r][l].reserved
    BY <2>1 DEF Plus
  <2>6. /\ Moved(o, Posted(r) \cup {k}, l, "on_hand") =
             IF Lvl(r) = l /\ Move(r).column = "on_hand"
             THEN delta[r][l].on_hand + Move(r).qty ELSE delta[r][l].on_hand
        /\ Moved(o, Posted(r) \cup {k}, l, "reserved") =
             IF Lvl(r) = l /\ Move(r).column = "reserved"
             THEN delta[r][l].reserved + Move(r).qty ELSE delta[r][l].reserved
    BY <2>2, <2>4, Zenon
  <2> QED
    BY <2>5, <2>6, Zenon
<1>7. Tracks(r)'
  <2>1. op'[r] = o /\ idx'[r] = k /\ pc'[r] = "sum"
    BY <1>1
  <2>2. \A l \in Levels :
          /\ delta'[r][l].on_hand = Moved(o, Posted(r)', l, "on_hand")
          /\ delta'[r][l].reserved = Moved(o, Posted(r)', l, "reserved")
    BY <1>4, <1>6, Zenon
  <2> HIDE DEF o, k
  <2> QED
    BY <1>5, <2>1, <2>2 DEF Tracks
<1>8. Tracked'
  BY <1>1, <1>2, <1>7, OthersTracked DEF PostedInv
<1>9. KeysApart'
  BY <1>1, <1>2 DEF PostedInv, KeysApart
<1> QED
  BY <1>1, <1>8, <1>9 DEF PostedInv

-----------------------------------------------------------------------------
(* The sum the accounts speak of is the sum.                               *)
LEMMA LedgerSums ==
  ASSUME NEW f, NEW S
  PROVE  LedgerAccounts!SumFunctionOnSet(f, S) = SumFunctionOnSet(f, S)
  BY DEF LedgerAccounts!SumFunctionOnSet, LedgerAccounts!FoldFunctionOnSet,
         LedgerAccounts!MapThenFoldSet, SumFunctionOnSet, FoldFunctionOnSet, MapThenFoldSet

(* A commit posts the whole operation.                                     *)
LEMMA CommitPosts ==
  ASSUME TypeOK, PostedInv, NEW r \in Requests, Commit(r)
  PROVE  PostedInv' /\ LedgerAccounts!Post(op[r])
<1> DEFINE o == op[r]
<1>1. /\ op' = op /\ idx' = idx /\ rows' = rows \cup mine[r] /\ mine'[r] = {}
      /\ pc[r] = "commit" /\ pc'[r] = "announce" /\ Tracks(r)
  BY DEF Commit, PostedInv, Tracked, Running, TypeOK
<1>2. \A s \in Requests \ {r} : pc'[s] = pc[s] /\ mine'[s] = mine[s] /\ delta'[s] = delta[s]
  BY DEF Commit, TypeOK
<1>3. PostedInv'
  <2>1. Tracked'
    BY <1>1, <1>2, OthersTracked DEF PostedInv, Running
  <2>2. KeysApart'
    BY <1>1, <1>2 DEF PostedInv, KeysApart
  <2> QED
    BY <2>1, <2>2 DEF PostedInv
<1>4. Posted(r) = 1..Len(o.moves)
  BY <1>1, CurrentMove, MovesCounted DEF Posted, Behind, Tracks
<1>5. LedgerAccounts!KeysOf(o) = mine[r]
  BY <1>1, <1>4, Zenon DEF LedgerAccounts!KeysOf, KeyAt, Tracks
<1>6. \A l \in Levels : /\ delta[r][l].on_hand = LedgerAccounts!Effect(o, l, "on_hand")
                        /\ delta[r][l].reserved = LedgerAccounts!Effect(o, l, "reserved")
  <2>1. \A l, c : LedgerAccounts!Effect(o, l, c) = Moved(o, Posted(r), l, c)
    BY <1>4, LedgerSums, Zenon
       DEF LedgerAccounts!Effect, LedgerAccounts!MovesOn, LedgerAccounts!Quantities,
           Moved, Placed, Quantity
  <2> QED
    BY <1>1, <2>1 DEF Tracks
<1>7. ledger' = [l \in Levels |->
                   [on_hand  |-> ledger[l].on_hand + LedgerAccounts!Effect(o, l, "on_hand"),
                    reserved |-> ledger[l].reserved + LedgerAccounts!Effect(o, l, "reserved")]]
  BY <1>6 DEF Commit
<1>8. LedgerAccounts!KeysOf(o) \cap rows = {}
  BY <1>5 DEF PostedInv, KeysApart
<1> QED
  BY <1>1, <1>3, <1>5, <1>7, <1>8 DEF LedgerAccounts!Post, LedgerAccounts!Levels, Levels

LEMMA PostedInvNext == TypeOK /\ PostedInv /\ [Next]_vars =>
  /\ PostedInv'
  /\ (\E o \in Operations : LedgerAccounts!Post(o)) \/ UNCHANGED <<ledger, rows>>
<1> SUFFICES ASSUME TypeOK, PostedInv, [Next]_vars
             PROVE  /\ PostedInv'
                    /\ (\E o \in Operations : LedgerAccounts!Post(o)) \/ UNCHANGED <<ledger, rows>>
  OBVIOUS
<1>1. ASSUME NEW r \in Requests, Commit(r)
      PROVE  PostedInv' /\ \E o \in Operations : LedgerAccounts!Post(o)
  <2>1. op[r] \in Operations
    BY DEF TypeOK
  <2> QED
    BY <1>1, <2>1, CommitPosts
<1>2. ASSUME NEW r \in Requests,
             Begin(r) \/ Check(r) \/ ApplyReserved(r) \/ SumLedger(r) \/ SelectLevel(r)
             \/ Announce(r) \/ LostAnnouncement(r) \/ InsertMovement(r) \/ WriteLevel(r)
      PROVE  PostedInv' /\ UNCHANGED <<ledger, rows>>
  BY <1>2, QuietPosts, InsertMovementPosts, WriteLevelPosts
<1>3. ASSUME NEW r \in Requests,
             CheckFails(r) \/ GuardFails(r) \/ InsertConflicts(r) \/ WriteFails(r)
             \/ DeadlockVictim(r) \/ Lost(r)
      PROVE  PostedInv' /\ UNCHANGED <<ledger, rows>>
  <2>1. Rollback(r)
    BY <1>3 DEF CheckFails, GuardFails, InsertConflicts, WriteFails, DeadlockVictim, Lost
  <2> QED
    BY <2>1, RollbackPosts
<1>4. ASSUME UNCHANGED <<reqVars, openVars, dbVars>>
      PROVE  PostedInv' /\ UNCHANGED <<ledger, rows>>
  <2>1. /\ op' = op /\ idx' = idx /\ mine' = mine /\ delta' = delta /\ pc' = pc
        /\ rows' = rows /\ ledger' = ledger
    BY <1>4 DEF reqVars, openVars, dbVars
  <2>2. Tracked'
    BY <2>1, TracksKept DEF PostedInv, Tracked
  <2>3. KeysApart'
    BY <2>1 DEF PostedInv, KeysApart
  <2> QED
    BY <2>1, <2>2, <2>3 DEF PostedInv
<1>5. ASSUME NEW x \in Archivable, Administer(x) PROVE UNCHANGED <<reqVars, openVars, dbVars>>
  BY <1>5 DEF Administer, ReadReserved, Deactivate, Reactivate
<1>6. CASE UNCHANGED vars
  BY <1>4, <1>6 DEF vars
<1> QED
  BY <1>1, <1>2, <1>3, <1>4, <1>5, <1>6 DEF Next, Step

(* Whatever operations run, and however they race, deadlock or are lost,   *)
(* the ledger moves by whole operations, each under keys that were never   *)
(* posted before (uq_erp_stock_movements_ref, add_movement).               *)
THEOREM LedgerImplemented == Spec => ImplementsLedgerAccounts
<1>1. Init => LedgerAccounts!Init
  BY DEF Init, LedgerAccounts!Init, LedgerAccounts!Levels, Levels
<1>2. TypeOK /\ PostedInv /\ [Next]_vars =>
        [\E o \in Operations : LedgerAccounts!Post(o)]_(LedgerAccounts!accountVars)
  BY PostedInvNext DEF LedgerAccounts!accountVars
<1> QED
  BY TypeInit, TypeStep, PostedInvInit, PostedInvNext, <1>1, <1>2, PTL
     DEF Spec, ImplementsLedgerAccounts, LedgerAccounts!LedgerSpec

-----------------------------------------------------------------------------
(* When every operation claims its levels, they are the accounts.          *)

LEMMA LevelSums ==
  ASSUME NEW f, NEW S
  PROVE  LevelAccounts!SumFunctionOnSet(f, S) = SumFunctionOnSet(f, S)
  BY DEF LevelAccounts!SumFunctionOnSet, LevelAccounts!FoldFunctionOnSet,
         LevelAccounts!MapThenFoldSet, SumFunctionOnSet, FoldFunctionOnSet, MapThenFoldSet

LEMMA EffectsAgree ==
  ASSUME NEW o, NEW l, NEW c
  PROVE  LevelAccounts!Effect(o, l, c) = LedgerAccounts!Effect(o, l, c)
  BY LevelSums, LedgerSums, Zenon
     DEF LevelAccounts!Effect, LevelAccounts!MovesOn, LevelAccounts!Quantities,
         LedgerAccounts!Effect, LedgerAccounts!MovesOn, LedgerAccounts!Quantities

AccountOfLevels == [l \in Levels |-> [on_hand |-> level[l].on_hand, reserved |-> level[l].reserved]]

LEMMA LevelsAreLedger == TypeOK /\ LevelMatchesLedger => AccountOfLevels = ledger
<1> SUFFICES ASSUME TypeOK, LevelMatchesLedger PROVE AccountOfLevels = ledger
  OBVIOUS
<1>1. ASSUME NEW l \in Levels PROVE AccountOfLevels[l] = ledger[l]
  <2>1. ledger[l] = [on_hand |-> ledger[l].on_hand, reserved |-> ledger[l].reserved]
    BY DEF TypeOK, Totals
  <2> QED
    BY <2>1 DEF AccountOfLevels, LevelMatchesLedger
<1> QED
  BY <1>1 DEF AccountOfLevels, TypeOK

(* Callers that only reserve, release and fulfil orders see levels that    *)
(* whole operations move at once and that are never oversold, although     *)
(* each operation is many statements and the levels are rewritten from a   *)
(* SUM (recompute_stock_level).                                            *)
THEOREM CoveredImplemented ==
  ASSUME ReservationsOnly
  PROVE  Spec => ImplementsCoveredAccounts
<1>1. Init => LevelAccounts!Init
  BY DEF Init, LevelAccounts!Init, LevelAccounts!Levels, Levels
<1>2. LedgerInv /\ LedgerInv' /\ PostedInv /\ [Next]_vars =>
        [\E o \in Operations : LevelAccounts!Post(o) /\ LevelAccounts!Covered']_(LevelAccounts!accountVars)
  <2> SUFFICES ASSUME LedgerInv, LedgerInv', PostedInv, [Next]_vars
               PROVE  \/ \E o \in Operations : LevelAccounts!Post(o) /\ LevelAccounts!Covered'
                      \/ UNCHANGED LevelAccounts!accountVars
    OBVIOUS
  <2>0. (TypeOK /\ LevelMatchesLedger => AccountOfLevels = ledger)'
    BY LevelsAreLedger, PTL
  <2>1. AccountOfLevels = ledger /\ AccountOfLevels' = ledger'
    BY <2>0, LevelsAreLedger DEF LedgerInv
  <2>2. CASE UNCHANGED <<ledger, rows>>
    BY <2>1, <2>2 DEF LevelAccounts!accountVars, AccountOfLevels
  <2>3. ASSUME NEW o \in Operations, LedgerAccounts!Post(o)
        PROVE  LevelAccounts!Post(o) /\ LevelAccounts!Covered'
    <3>1. LevelAccounts!Covered'
      BY DEF LevelAccounts!Covered, LevelAccounts!Levels, Levels, LedgerInv, LevelsBounded, CheckConstraint
    <3>2. LevelAccounts!KeysOf(o) = LedgerAccounts!KeysOf(o)
      BY DEF LevelAccounts!KeysOf, LedgerAccounts!KeysOf
    <3>3. ledger' = [l \in Levels |->
                       [on_hand  |-> ledger[l].on_hand + LevelAccounts!Effect(o, l, "on_hand"),
                        reserved |-> ledger[l].reserved + LevelAccounts!Effect(o, l, "reserved")]]
      BY <2>3, EffectsAgree DEF LedgerAccounts!Post, LedgerAccounts!Levels, Levels
    <3>4. LevelAccounts!Post(o)
      BY <2>1, <2>3, <3>2, <3>3
         DEF LevelAccounts!Post, LedgerAccounts!Post, LevelAccounts!Levels, Levels, AccountOfLevels
    <3> QED
      BY <3>1, <3>4
  <2> QED
    BY <2>2, <2>3, PostedInvNext DEF LedgerInv
<1> QED
  BY LedgerInit, LedgerStep, PostedInvInit, PostedInvNext, TypeInit, TypeStep, <1>1, <1>2, PTL
     DEF Spec, ImplementsCoveredAccounts, LevelAccounts!CoveredSpec

-----------------------------------------------------------------------------
(* A request that shares its run with nobody, whatever operations run and  *)
(* whatever earlier requests left behind.                                  *)

SettledAt(r, l) ==
  View(r, l).on_hand = SeenOnHand(r, l) /\ View(r, l).reserved = SeenReserved(r, l)

(* The level is settled unless the request is in the middle of moving it.  *)
Quiet == {"check", "guard", "commit"}
Rests(r, l) == (l = Lvl(r) => pc[r] \in Quiet) => SettledAt(r, l)

LeftBehind(r) ==
  {op[r].moves[n].lvl : n \in {k \in 1..Len(op[r].moves) : k < idx[r] \/ pc[r] = "commit"}}

(* What it has read for the rewrite is still so: nobody else is open.      *)
Alone(r) ==
  /\ \A s \in Requests \ {r} : ~Open(s)
  /\ pc[r] \in {"select", "write"} =>
       /\ sums[r].on_hand = SeenOnHand(r, Lvl(r))
       /\ sums[r].reserved = SeenReserved(r, Lvl(r))
  /\ pc[r] = "write" => seen[r] = View(r, Lvl(r))

LocksOpen == \A l \in Levels : \A r \in Requests : lock[l] = r => Open(r)

AloneInv ==
  /\ LocksOpen
  /\ \A r \in Requests : r \notin overlapped /\ Open(r) =>
       Alone(r) /\ \A l \in LeftBehind(r) : Rests(r, l)

Inner(r) ==
  Check(r) \/ ApplyReserved(r) \/ InsertMovement(r) \/ SumLedger(r) \/ SelectLevel(r)
  \/ WriteLevel(r)

(* The statements between the first and the commit.                        *)
LEMMA InnerKeeps ==
  ASSUME TypeOK, NEW r \in Requests, Inner(r)
  PROVE  /\ Open(r) /\ pc'[r] \in Running /\ \A s \in Requests \ {r} : pc'[s] = pc[s]
         /\ UNCHANGED <<op, level, ledger, rows, itemVars, obsVars>>
         /\ \A s \in Requests \ {r} : \A l \in Levels : lock'[l] = s <=> lock[l] = s
<1>1. Open(r) /\ UNCHANGED <<op, level, ledger, rows, itemVars, obsVars>>
  BY DEF Inner, Check, ApplyReserved, InsertMovement, SumLedger, SelectLevel, WriteLevel,
         Open, Running, dbVars, itemVars, obsVars
<1>2. pc'[r] \in Running /\ \A s \in Requests \ {r} : pc'[s] = pc[s]
  <2>1. CASE WriteLevel(r)
    <3>1. \A s \in Requests \ {r} : pc'[s] = pc[s]
      BY <2>1 DEF WriteLevel, AfterWrite, TypeOK
    <3>2. CASE idx[r] < Len(op[r].moves)
      <4>1. idx[r] \in 1..Len(op[r].moves) /\ Len(op[r].moves) \in Nat
        BY CurrentMove, MovesCounted
      <4>2. op[r].moves[idx[r] + 1].entry \in {"check", "insert"}
        BY <3>2, <4>1, CurrentMove DEF Movements
      <4> QED
        BY <2>1, <3>1, <3>2, <4>2 DEF WriteLevel, AfterWrite, TypeOK, Running
    <3>3. CASE ~(idx[r] < Len(op[r].moves))
      BY <2>1, <3>1, <3>3 DEF WriteLevel, AfterWrite, TypeOK, Running
    <3> QED
      BY <3>2, <3>3
  <2>2. CASE ~WriteLevel(r)
    BY <2>2 DEF Inner, Check, ApplyReserved, InsertMovement, SumLedger, SelectLevel,
                TypeOK, Running
  <2> QED
    BY <2>1, <2>2
<1>3. \A s \in Requests \ {r} : \A l \in Levels : lock'[l] = s <=> lock[l] = s
  <2>1. CASE ApplyReserved(r)
    BY <2>1, CurrentMove, RequestAssumption DEF ApplyReserved, MayLock, TypeOK
  <2>2. CASE WriteLevel(r)
    BY <2>2, CurrentMove, RequestAssumption DEF WriteLevel, MayLock, TypeOK
  <2>3. CASE ~ApplyReserved(r) /\ ~WriteLevel(r)
    BY <2>3 DEF Inner, Check, InsertMovement, SumLedger, SelectLevel, openVars
  <2> QED
    BY <2>1, <2>2, <2>3
<1> QED
  BY <1>1, <1>2, <1>3

(* The rewrite settles the level, whatever its row said before.            *)
LEMMA WriteSettles ==
  ASSUME TypeOK, NEW r \in Requests, WriteLevel(r), Alone(r), NEW k \in Levels, k = Lvl(r)
  PROVE  SettledAt(r, k)'
<1>1. /\ sums[r].on_hand = SeenOnHand(r, k) /\ sums[r].reserved = SeenReserved(r, k)
      /\ seen[r] = View(r, k)
  BY DEF WriteLevel, Alone
<1>2. SeenOnHand(r, k)' = SeenOnHand(r, k) /\ SeenReserved(r, k)' = SeenReserved(r, k)
  BY DEF WriteLevel, SeenOnHand, SeenReserved, dbVars
<1>3. CASE NothingToFlush(r)
  <2>1. View(r, k)' = View(r, k)
    BY <1>3 DEF WriteLevel, View, dbVars
  <2> QED
    BY <1>1, <1>2, <1>3, <2>1 DEF NothingToFlush, SettledAt
<1>4. CASE ~NothingToFlush(r)
  <2>1. View(r, k)' = Flushed(r)
    BY <1>4 DEF WriteLevel, View, TypeOK
  <2>2. Flushed(r).on_hand = SeenOnHand(r, k) /\ Flushed(r).reserved = SeenReserved(r, k)
    BY <1>1 DEF Flushed
  <2> QED
    BY <1>2, <2>1, <2>2 DEF SettledAt
<1> QED
  BY <1>3, <1>4

(* Where a statement writes nothing of a level, it stays settled.          *)
LEMMA ElsewhereSettled ==
  ASSUME NEW r, NEW l, SettledAt(r, l), level'[l] = level[l], ledger'[l] = ledger[l],
         delta'[r][l] = delta[r][l], lock'[l] = r <=> lock[l] = r,
         lock[l] = r => pend'[l] = pend[l]
  PROVE  SettledAt(r, l)'
<1>1. View(r, l)' = View(r, l)
  BY DEF View
<1> QED
  BY <1>1 DEF SettledAt, SeenOnHand, SeenReserved

LEMMA InnerRests ==
  ASSUME TypeOK, NEW r \in Requests, Inner(r), Alone(r), NEW l \in Levels, Rests(r, l)
  PROVE  Rests(r, l)'
<1>k. PICK k \in Levels : k = Lvl(r)
  BY CurrentMove
<1>1. CASE Check(r) \/ SumLedger(r) \/ SelectLevel(r)
  <2>1. /\ UNCHANGED <<level, ledger, delta, lock, pend, op, idx>>
        /\ pc'[r] \in Quiet => pc[r] \in Quiet
    BY <1>1 DEF Check, SumLedger, SelectLevel, openVars, dbVars, Quiet, TypeOK
  <2>2. SettledAt(r, l) => SettledAt(r, l)'
    BY <2>1, ElsewhereSettled
  <2>3. Lvl(r)' = Lvl(r)
    BY <2>1 DEF Lvl, Move
  <2> QED
    BY <2>1, <2>2, <2>3 DEF Rests
<1>2. CASE ApplyReserved(r) \/ InsertMovement(r)
  <2>1. op' = op /\ idx' = idx /\ pc'[r] \in {"insert", "sum"}
    BY <1>2 DEF ApplyReserved, InsertMovement, TypeOK
  <2>2. Lvl(r)' = k
    BY <1>k, <2>1 DEF Lvl, Move
  <2>3. CASE l = k
    BY <2>1, <2>2, <2>3 DEF Rests, Quiet
  <2>4. CASE l # k
    <3>1. /\ level'[l] = level[l] /\ ledger'[l] = ledger[l] /\ delta'[r][l] = delta[r][l]
          /\ lock'[l] = lock[l] /\ pend'[l] = pend[l]
      BY <1>k, <1>2, <2>4 DEF ApplyReserved, InsertMovement, dbVars, TypeOK
    <3>2. SettledAt(r, l)
      BY <1>k, <2>4 DEF Rests
    <3> QED
      BY <3>1, <3>2, ElsewhereSettled DEF Rests
  <2> QED
    BY <2>3, <2>4
<1>3. CASE WriteLevel(r)
  <2>1. CASE l = k
    BY <1>k, <1>3, <2>1, WriteSettles DEF Rests
  <2>2. CASE l # k
    <3>1. /\ level'[l] = level[l] /\ ledger'[l] = ledger[l] /\ delta'[r][l] = delta[r][l]
          /\ lock'[l] = lock[l] /\ pend'[l] = pend[l]
      BY <1>k, <1>3, <2>2 DEF WriteLevel, dbVars, TypeOK
    <3>2. SettledAt(r, l)
      BY <1>k, <2>2 DEF Rests
    <3> QED
      BY <3>1, <3>2, ElsewhereSettled DEF Rests
  <2> QED
    BY <2>1, <2>2
<1> QED
  BY <1>1, <1>2, <1>3 DEF Inner

LEMMA InnerAlone ==
  ASSUME TypeOK, NEW r \in Requests, Inner(r), Alone(r)
  PROVE  Alone(r)'
<1>1. \A s \in Requests \ {r} : ~Open(s)'
  BY InnerKeeps DEF Alone, Open
<1>2. CASE Check(r) \/ ApplyReserved(r) \/ InsertMovement(r) \/ WriteLevel(r)
  <2>1. pc'[r] \notin {"select", "write"}
    <3>1. CASE WriteLevel(r)
      <4>1. CASE idx[r] < Len(op[r].moves)
        <5>1. idx[r] \in 1..Len(op[r].moves) /\ Len(op[r].moves) \in Nat
          BY CurrentMove, MovesCounted
        <5>2. op[r].moves[idx[r] + 1].entry \in {"check", "insert"}
          BY <4>1, <5>1, CurrentMove DEF Movements
        <5> QED
          BY <3>1, <4>1, <5>2 DEF WriteLevel, AfterWrite, TypeOK
      <4>2. CASE ~(idx[r] < Len(op[r].moves))
        BY <3>1, <4>2 DEF WriteLevel, AfterWrite, TypeOK
      <4> QED
        BY <4>1, <4>2
    <3>2. CASE ~WriteLevel(r)
      BY <1>2, <3>2 DEF Check, ApplyReserved, InsertMovement, TypeOK
    <3> QED
      BY <3>1, <3>2
  <2> QED
    BY <1>1, <2>1 DEF Alone
<1>3. CASE SumLedger(r) \/ SelectLevel(r)
  <2>1. /\ UNCHANGED <<level, ledger, delta, lock, pend, op, idx>>
    BY <1>3 DEF SumLedger, SelectLevel, openVars, dbVars
  <2>2. /\ Lvl(r)' = Lvl(r) /\ View(r, Lvl(r))' = View(r, Lvl(r))
        /\ SeenOnHand(r, Lvl(r))' = SeenOnHand(r, Lvl(r))
        /\ SeenReserved(r, Lvl(r))' = SeenReserved(r, Lvl(r))
    BY <2>1 DEF Lvl, Move, View, SeenOnHand, SeenReserved
  <2>3. CASE SumLedger(r)
    BY <1>1, <2>2, <2>3 DEF SumLedger, Alone, TypeOK, SeenOnHand, SeenReserved
  <2>4. CASE SelectLevel(r)
    BY <1>1, <2>2, <2>4 DEF SelectLevel, Alone, TypeOK
  <2> QED
    BY <1>3, <2>3, <2>4
<1> QED
  BY <1>2, <1>3 DEF Inner

LEMMA InnerLeavesBehind ==
  ASSUME TypeOK, NEW r \in Requests, Inner(r), NEW l \in LeftBehind(r)'
  PROVE  l \in Levels /\ (l \in LeftBehind(r) \/ (WriteLevel(r) /\ l = Lvl(r)))
<1>1. op' = op /\ idx[r] \in 1..Len(op[r].moves) /\ Len(op[r].moves) \in Nat
  BY InnerKeeps, CurrentMove, MovesCounted
<1>2. PICK n \in 1..Len(op[r].moves) :
        l = op[r].moves[n].lvl /\ (n < idx'[r] \/ pc'[r] = "commit")
  BY <1>1 DEF LeftBehind
<1>3. l \in Levels
  BY <1>2, CurrentMove DEF Movements
<1>4. CASE WriteLevel(r)
  <2>1. CASE idx[r] < Len(op[r].moves)
    <3>1. op[r].moves[idx[r] + 1].entry \in {"check", "insert"}
      BY <1>1, <2>1, CurrentMove DEF Movements
    <3>2. idx'[r] = idx[r] + 1 /\ pc'[r] # "commit"
      BY <1>4, <2>1, <3>1 DEF WriteLevel, AfterWrite, TypeOK
    <3>3. n < idx[r] \/ n = idx[r]
      BY <1>1, <1>2, <3>2
    <3> QED
      BY <1>2, <1>3, <1>4, <3>3 DEF LeftBehind, Lvl, Move
  <2>2. CASE ~(idx[r] < Len(op[r].moves))
    <3>1. n < idx[r] \/ n = idx[r]
      BY <1>1, <1>2, <2>2
    <3> QED
      BY <1>2, <1>3, <1>4, <3>1 DEF LeftBehind, Lvl, Move
  <2> QED
    BY <2>1, <2>2
<1>5. CASE ~WriteLevel(r)
  <2>1. idx' = idx /\ pc'[r] # "commit"
    BY <1>5 DEF Inner, Check, ApplyReserved, InsertMovement, SumLedger, SelectLevel, TypeOK
  <2> QED
    BY <1>2, <1>3, <2>1 DEF LeftBehind
<1> QED
  BY <1>4, <1>5

(* A step of a request that is not open, or of an administrator.           *)
LEMMA AloneKept ==
  ASSUME TypeOK, NEW s \in Requests, Alone(s), UNCHANGED <<op, level, ledger>>,
         pc'[s] = pc[s], idx'[s] = idx[s], sums'[s] = sums[s], seen'[s] = seen[s],
         delta'[s] = delta[s], \A l \in Levels : lock'[l] = s <=> lock[l] = s,
         \A l \in Levels : lock[l] = s => pend'[l] = pend[l],
         \A t \in Requests \ {s} : ~Open(t)'
  PROVE  /\ Alone(s)' /\ LeftBehind(s)' = LeftBehind(s)
         /\ \A l \in Levels : Rests(s, l) => Rests(s, l)'
<1>1. Lvl(s)' = Lvl(s) /\ Lvl(s) \in Levels
  BY CurrentMove DEF Lvl, Move
<1>2. \A l \in Levels : View(s, l)' = View(s, l)
  BY DEF View
<1>3. \A l \in Levels : /\ SeenOnHand(s, l)' = SeenOnHand(s, l)
                        /\ SeenReserved(s, l)' = SeenReserved(s, l)
  BY DEF SeenOnHand, SeenReserved
<1>4. Alone(s)'
  BY <1>1, <1>2, <1>3 DEF Alone
<1>5. LeftBehind(s)' = LeftBehind(s)
  BY DEF LeftBehind
<1>6. \A l \in Levels : Rests(s, l) => Rests(s, l)'
  BY <1>1, <1>2, <1>3 DEF Rests, SettledAt
<1> QED
  BY <1>4, <1>5, <1>6

(* A request that begins while nobody is open has left nothing behind.     *)
LEMMA BeginAlone ==
  ASSUME TypeOK, Tracked, NEW r \in Requests, Begin(r), r \notin overlapped'
  PROVE  Alone(r)' /\ LeftBehind(r)' = {}
<1>1. Move(r).entry \in {"check", "insert"} /\ Len(op[r].moves) \in Nat
  BY CurrentMove, MovesCounted DEF Movements
<1>2. pc'[r] \in {"check", "insert"} /\ \A s \in Requests \ {r} : pc'[s] = pc[s]
  BY <1>1 DEF Begin, TypeOK
<1>3. \A s \in Requests \ {r} : ~Open(s)
  BY DEF Begin
<1>4. idx' = idx /\ op' = op /\ idx[r] = 1
  BY DEF Begin, Tracked, Tracks
<1> QED
  BY <1>1, <1>2, <1>3, <1>4 DEF Alone, LeftBehind, Open

-----------------------------------------------------------------------------
LEMMA AloneInvInit == Init => AloneInv
  BY RequestAssumption DEF Init, AloneInv, LocksOpen, Open, Running

(* The request that steps was open before: whoever else is, overlapped.    *)
LEMMA OpenStepAlone ==
  ASSUME TypeOK, AloneInv, NEW r \in Requests, Open(r), UNCHANGED overlapped,
         \A s \in Requests \ {r} : pc'[s] = pc[s],
         r \notin overlapped /\ Open(r)' => Alone(r)' /\ \A l \in LeftBehind(r)' : Rests(r, l)',
         LocksOpen'
  PROVE  AloneInv'
<1>1. ASSUME NEW s \in Requests \ {r}, s \notin overlapped, Open(s)' PROVE FALSE
  <2>1. Open(s)
    BY <1>1 DEF Open
  <2> QED
    BY <1>1, <2>1 DEF AloneInv, Alone
<1> QED
  BY <1>1 DEF AloneInv

LEMMA InnerAloneInv ==
  ASSUME TypeOK, AloneInv, NEW r \in Requests, Inner(r)
  PROVE  AloneInv'
<1>1. /\ Open(r) /\ Open(r)' /\ UNCHANGED overlapped /\ \A s \in Requests \ {r} : pc'[s] = pc[s]
      /\ \A s \in Requests \ {r} : \A l \in Levels : lock'[l] = s <=> lock[l] = s
  BY InnerKeeps DEF obsVars, Open
<1>2. LocksOpen'
  BY <1>1 DEF AloneInv, LocksOpen, Open
<1>3. ASSUME r \notin overlapped PROVE Alone(r)' /\ \A l \in LeftBehind(r)' : Rests(r, l)'
  <2>1. Alone(r) /\ \A l \in LeftBehind(r) : Rests(r, l)
    BY <1>1, <1>3 DEF AloneInv
  <2>2. ASSUME NEW l \in LeftBehind(r)' PROVE Rests(r, l)'
    <3>1. l \in Levels /\ (l \in LeftBehind(r) \/ (WriteLevel(r) /\ l = Lvl(r)))
      BY InnerLeavesBehind
    <3>2. CASE l \in LeftBehind(r)
      BY <2>1, <3>1, <3>2, InnerRests
    <3>3. CASE WriteLevel(r) /\ l = Lvl(r)
      <4>1. SettledAt(r, l)'
        BY <2>1, <3>1, <3>3, WriteSettles
      <4> QED
        BY <4>1 DEF Rests
    <3> QED
      BY <3>1, <3>2, <3>3
  <2> QED
    BY <2>1, <2>2, InnerAlone
<1> QED
  BY <1>1, <1>2, <1>3, OpenStepAlone

LEMMA AloneInvNext == TypeOK /\ PostedInv /\ AloneInv /\ [Next]_vars => AloneInv'
<1> SUFFICES ASSUME TypeOK, PostedInv, AloneInv, [Next]_vars PROVE AloneInv'
  OBVIOUS
<1>1. ASSUME NEW r \in Requests, Begin(r) PROVE AloneInv'
  <2>1. /\ UNCHANGED <<op, idx, sums, seen, delta, lock, pend, level, ledger>>
        /\ \A s \in Requests \ {r} : pc'[s] = pc[s]
        /\ pc[r] = "idle" /\ ~Open(r)
    BY <1>1 DEF Begin, openVars, dbVars, TypeOK, Open, Running
  <2>2. Open(r)'
    <3>1. Move(r).entry \in {"check", "insert"}
      BY CurrentMove DEF Movements
    <3> QED
      BY <1>1, <3>1 DEF Begin, TypeOK, Open, Running
  <2>3. LocksOpen'
    BY <2>1, <2>2 DEF AloneInv, LocksOpen, Open
  <2>4. ASSUME NEW s \in Requests \ {r}, s \notin overlapped', Open(s)' PROVE FALSE
    <3>1. Open(s)
      BY <2>1, <2>4 DEF Open
    <3> QED
      BY <1>1, <2>4, <3>1 DEF Begin
  <2>5. r \notin overlapped' => Alone(r)' /\ LeftBehind(r)' = {}
    BY <1>1, BeginAlone DEF PostedInv
  <2> QED
    BY <2>3, <2>4, <2>5 DEF AloneInv
<1>2. ASSUME NEW r \in Requests, Inner(r) PROVE AloneInv'
  BY <1>2, InnerAloneInv
<1>3. ASSUME NEW r \in Requests, Commit(r) \/ (Open(r) /\ Rollback(r)) PROVE AloneInv'
  <2>1. /\ Open(r) /\ ~Open(r)' /\ UNCHANGED overlapped
        /\ \A s \in Requests \ {r} : pc'[s] = pc[s]
    BY <1>3 DEF Commit, Rollback, obsVars, Open, Running, TypeOK
  <2>2. \A l \in Levels : \A s \in Requests : lock'[l] = s => lock[l] = s /\ s # r
    BY <1>3, RequestAssumption DEF Commit, Rollback
  <2>3. LocksOpen'
    BY <2>1, <2>2 DEF AloneInv, LocksOpen, Open
  <2> QED
    BY <2>1, <2>3, OpenStepAlone
<1>4. ASSUME NEW r \in Requests,
             CheckFails(r) \/ GuardFails(r) \/ InsertConflicts(r) \/ WriteFails(r)
             \/ DeadlockVictim(r) \/ Lost(r)
      PROVE  Open(r) /\ Rollback(r)
  BY <1>4 DEF CheckFails, GuardFails, InsertConflicts, WriteFails, DeadlockVictim, Lost,
              Open, Running
<1>5. ASSUME UNCHANGED <<op, level, ledger, idx, sums, seen, delta, lock, pend, overlapped>>,
             \A s \in Requests : pc'[s] = pc[s] \/ (~Open(s)' /\ ~Open(s))
      PROVE  AloneInv'
  <2>1. \A s \in Requests : Open(s)' <=> Open(s)
    BY <1>5 DEF Open
  <2>2. LocksOpen'
    BY <1>5, <2>1 DEF AloneInv, LocksOpen
  <2>3. ASSUME NEW s \in Requests, s \notin overlapped, Open(s)'
        PROVE  Alone(s)' /\ \A l \in LeftBehind(s)' : Rests(s, l)'
    <3>1. Alone(s) /\ \A l \in LeftBehind(s) : Rests(s, l)
      BY <2>1, <2>3 DEF AloneInv
    <3>2. /\ Alone(s)' /\ LeftBehind(s)' = LeftBehind(s)
          /\ \A l \in Levels : Rests(s, l) => Rests(s, l)'
      BY <1>5, <2>1, <2>3, <3>1, AloneKept DEF Alone
    <3>3. LeftBehind(s) \subseteq Levels
      BY CurrentMove DEF LeftBehind, Movements
    <3> QED
      BY <3>1, <3>2, <3>3
  <2> QED
    BY <1>5, <2>2, <2>3 DEF AloneInv
<1>6. ASSUME NEW r \in Requests, Announce(r) \/ LostAnnouncement(r) PROVE AloneInv'
  <2>1. /\ UNCHANGED <<op, level, ledger, idx, sums, seen, delta, lock, pend, overlapped>>
        /\ \A s \in Requests : pc'[s] = pc[s] \/ (~Open(s)' /\ ~Open(s))
    BY <1>6 DEF Announce, LostAnnouncement, openVars, dbVars, obsVars, Open, Running, TypeOK
  <2> QED
    BY <1>5, <2>1
<1>7. ASSUME NEW x \in Archivable, Administer(x) PROVE AloneInv'
  BY <1>5, <1>7 DEF Administer, ReadReserved, Deactivate, Reactivate, reqVars, openVars,
                    dbVars, obsVars
<1>8. CASE UNCHANGED vars
  BY <1>5, <1>8 DEF vars, reqVars, openVars, dbVars, obsVars
<1> QED
  BY <1>1, <1>2, <1>3, <1>4, <1>6, <1>7, <1>8 DEF Next, Step, Inner

(* Whatever earlier requests left behind, and whichever operation it runs, *)
(* a request that overlapped nobody commits levels that equal the ledger   *)
(* (recompute_stock_level repairs a drifted level).                        *)
THEOREM LoneCommitsSettle == Spec => []LoneCommitSettles
<1>1. AloneInv => LoneCommitSettles
  <2> SUFFICES ASSUME AloneInv, NEW r \in Requests \ overlapped, pc[r] = "commit",
                      NEW n \in 1..Len(op[r].moves)
               PROVE  SettledAt(r, op[r].moves[n].lvl)
    BY DEF LoneCommitSettles, SettledAt, SeenOnHand, SeenReserved
  <2>1. op[r].moves[n].lvl \in LeftBehind(r) /\ Open(r)
    BY DEF LeftBehind, Open, Running
  <2> QED
    BY <2>1 DEF AloneInv, Rests, Quiet
<1> QED
  BY TypeInit, TypeStep, PostedInvInit, PostedInvNext, AloneInvInit, AloneInvNext, <1>1, PTL
     DEF Spec

-----------------------------------------------------------------------------
(* Alerts, while no two requests have overlapped.                          *)

Checked(r, k) == k < idx[r] \/ (k = idx[r] /\ pc[r] # "check")

(* What a request read of a level it moves is what the ledger says.        *)
HasRead(r) ==
  \A n, k \in 1..Len(op[r].moves) :
    /\ op[r].moves[n].column = "on_hand" /\ k <= n
    /\ op[r].moves[n].lvl \in ReadsAt(op[r].moves[k]) /\ Checked(r, k)
    => before[r][op[r].moves[n].lvl] = ledger[op[r].moves[n].lvl].on_hand

Started == {r \in Requests : pc[r] # "idle"}

(* The requests that have crossed the reorder point and not said so.       *)
Owing(l) == {r \in Requests : pc[r] \in {"announce", "unannounced"} /\ BreachedBy(r, l)}

Told == \A l \in Levels : crossings[l] = alerts[l] + Cardinality(Owing(l))

Working(r) ==
  /\ pc[r] = "check" => Move(r).entry = "check"
  /\ \A l \in Levels : Rests(r, l)
  /\ KeysDistinct(op[r]) => HasRead(r)

InOrder ==
  LevelMatchesLedger /\ Told /\ \A r \in Requests : Open(r) => Working(r)

AlertInv == IsFiniteSet(Started) /\ (overlapped = {} => InOrder)

-----------------------------------------------------------------------------
LEMMA OwingFinite ==
  ASSUME IsFiniteSet(Started), NEW l
  PROVE  IsFiniteSet(Owing(l)) /\ Cardinality(Owing(l)) \in Nat
<1>1. Owing(l) \subseteq Started
  BY DEF Owing, Started
<1> QED
  BY <1>1, FS_Subset, FS_CardinalityType

(* A step starts at most one request.                                      *)
LEMMA StartedFinite ==
  ASSUME IsFiniteSet(Started), NEW r, \A s \in Requests \ {r} : pc'[s] = pc[s]
  PROVE  IsFiniteSet(Started)'
<1>1. IsFiniteSet(Started \cup {r})
  BY FS_AddElement
<1>2. Started' \subseteq Started \cup {r}
  BY DEF Started
<1> QED
  BY <1>1, <1>2, FS_Subset

LEMMA AlertInvInit == Init => AlertInv
<1> SUFFICES ASSUME Init PROVE AlertInv
  OBVIOUS
<1>1. Started = {} /\ IsFiniteSet(Started)
  BY FS_EmptySet DEF Init, Started
<1>2. \A l : Owing(l) = {}
  BY DEF Init, Owing
<1>3. Told
  <2>1. \A l \in Levels : crossings[l] = 0 /\ alerts[l] = 0
    BY DEF Init
  <2>2. Cardinality({}) = 0
    BY FS_EmptySet
  <2>3. \A l \in Levels : Cardinality(Owing(l)) = 0
    BY <1>2, <2>2, Zenon
  <2> QED
    BY <2>1, <2>3 DEF Told
<1>4. LevelMatchesLedger
  BY StockAssumption DEF Init, LevelMatchesLedger
<1>5. \A r \in Requests : ~Open(r)
  BY DEF Init, Open, Running
<1> QED
  BY <1>1, <1>3, <1>4, <1>5 DEF AlertInv, InOrder

(* A step of a request that crosses nothing and announces nothing.         *)
LEMMA ToldKept ==
  ASSUME Told, UNCHANGED <<op, alerts, crossings>>,
         \A s \in Requests : \/ pc'[s] = pc[s] /\ before'[s] = before[s]
                             \/ /\ pc[s] \notin {"announce", "unannounced"}
                                /\ pc'[s] \notin {"announce", "unannounced"}
                             \/ /\ pc[s] = "announce" /\ pc'[s] = "unannounced"
                                /\ before'[s] = before[s]
  PROVE  Told'
<1>1. \A l : Owing(l)' = Owing(l)
  BY DEF Owing, BreachedBy
<1> QED
  BY <1>1 DEF Told

-----------------------------------------------------------------------------
(* The quantity a request has read when it is about to post is the ledger's.*)

LEMMA BeginWorks ==
  ASSUME TypeOK, Tracked, LocksOpen, LevelMatchesLedger, NEW r \in Requests, Begin(r)
  PROVE  Working(r)'
<1>1. /\ UNCHANGED <<op, idx, level, ledger, delta, lock, pend, before>> /\ pc[r] = "idle"
      /\ idx[r] = 1 /\ pc'[r] = op[r].moves[1].entry /\ Tracks(r)
  BY DEF Begin, openVars, dbVars, Tracked, Tracks, Move, TypeOK
<1>2. \A l \in Levels : lock[l] # r
  BY <1>1 DEF LocksOpen, Open, Running
<1>3. op[r] \in OperationType /\ Posted(r) = {}
  BY <1>1, CurrentMove, MovesCounted DEF Posted, Behind
<1>4. \A l, c : Moved(op[r], Posted(r), l, c) = 0
  BY <1>3, MovedNothing DEF Placed
<1>5. ASSUME NEW l \in Levels PROVE SettledAt(r, l)'
  <2>1. delta[r][l].on_hand = 0 /\ delta[r][l].reserved = 0
    BY <1>1, <1>4 DEF Tracks
  <2>2. View(r, l)' = level[l] /\ ledger[l] \in Totals
    BY <1>1, <1>2 DEF View, TypeOK
  <2> QED
    BY <1>1, <2>1, <2>2 DEF SettledAt, SeenOnHand, SeenReserved, LevelMatchesLedger, Totals
<1>6. HasRead(r)'
  <2> SUFFICES ASSUME NEW n \in 1..Len(op[r].moves), NEW k \in 1..Len(op[r].moves),
                      op[r].moves[n].lvl \in ReadsAt(op[r].moves[k]), Checked(r, k)'
               PROVE  FALSE
    BY <1>1 DEF HasRead
  <2>1. k = 1 /\ op[r].moves[1].entry # "check"
    BY <1>1, <1>3, MovesCounted DEF Checked
  <2> QED
    BY <2>1 DEF ReadsAt
<1>7. pc'[r] = "check" => Move(r)'.entry = "check"
  BY <1>1 DEF Move
<1> QED
  BY <1>5, <1>6, <1>7 DEF Working, Rests

LEMMA CheckReads ==
  ASSUME TypeOK, Tracked, AlertsFounded, NEW r \in Requests, Check(r), Working(r),
         KeysDistinct(op[r])
  PROVE  HasRead(r)'
<1>1. /\ UNCHANGED <<op, idx, ledger, delta>> /\ pc[r] = "check" /\ pc'[r] # "check"
      /\ Tracks(r) /\ HasRead(r)
  BY DEF Check, openVars, dbVars, Tracked, Running, Working, TypeOK
<1>2. /\ op[r] \in OperationType /\ idx[r] \in 1..Len(op[r].moves) /\ Len(op[r].moves) \in Nat
      /\ ReadsFirst(op[r])
  BY CurrentMove, MovesCounted DEF AlertsFounded, TypeOK
<1>3. SUFFICES ASSUME NEW n \in 1..Len(op[r].moves), NEW k \in 1..Len(op[r].moves),
                      op[r].moves[n].column = "on_hand", k <= n,
                      op[r].moves[n].lvl \in ReadsAt(op[r].moves[k]), Checked(r, k)'
               PROVE  before'[r][op[r].moves[n].lvl] = ledger[op[r].moves[n].lvl].on_hand
  BY <1>1 DEF HasRead
<1>l. PICK l \in Levels : l = op[r].moves[n].lvl
  BY CurrentMove DEF Movements
<1>4. before'[r][l] = IF l \in Move(r).active \cup {Lvl(r)} THEN View(r, l).on_hand
                      ELSE before[r][l]
  BY DEF Check, TypeOK
<1>5. CASE l \in ReadsAt(Move(r))
  <2>1. idx[r] <= n
    BY <1>2, <1>3, <1>l, <1>5 DEF ReadsFirst, Move
  <2>2. Placed(op[r], Posted(r), l, "on_hand") = {}
    <3> SUFFICES ASSUME NEW j \in Posted(r), op[r].moves[j].lvl = l,
                        op[r].moves[j].column = "on_hand"
                 PROVE  FALSE
      BY DEF Placed
    <3>1. j = n
      BY <1>2, <1>3, <1>l DEF ReadsFirst, Posted
    <3> QED
      BY <1>1, <1>2, <2>1, <3>1 DEF Posted, Behind
  <2>3. delta[r][l].on_hand = 0
    BY <1>1, <2>2, MovedNothing DEF Tracks
  <2>4. View(r, l).on_hand = ledger[l].on_hand + delta[r][l].on_hand
    BY <1>1 DEF Working, Rests, Quiet, SettledAt, SeenOnHand
  <2>5. ledger[l].on_hand \in Int /\ l \in Move(r).active \cup {Lvl(r)}
    BY <1>5 DEF TypeOK, Totals, ReadsAt, Lvl
  <2> QED
    BY <1>4, <1>l, <2>3, <2>4, <2>5
<1>6. CASE l \notin ReadsAt(Move(r))
  <2>1. k # idx[r]
    BY <1>3, <1>l, <1>6 DEF Move
  <2>2. Checked(r, k)
    BY <1>1, <1>3, <2>1 DEF Checked
  <2>3. before[r][l] = ledger[l].on_hand
    BY <1>1, <1>3, <1>l, <2>2 DEF HasRead
  <2>4. Move(r).entry = "check"
    BY <1>1 DEF Working
  <2> QED
    BY <1>4, <1>6, <1>l, <2>3, <2>4 DEF ReadsAt, Lvl
<1> QED
  BY <1>5, <1>6

(* The other statements read nothing that is announced.                    *)
LEMMA InnerReads ==
  ASSUME TypeOK, NEW r \in Requests, Inner(r), ~Check(r)
  PROVE  (HasRead(r) => HasRead(r)') /\ (pc'[r] = "check" => Move(r)'.entry = "check")
<1>1. UNCHANGED <<op, ledger, before>> /\ pc[r] # "check"
  BY DEF Inner, Check, ApplyReserved, InsertMovement, SumLedger, SelectLevel, WriteLevel, dbVars
<1>2. idx[r] \in 1..Len(op[r].moves) /\ Len(op[r].moves) \in Nat
  BY CurrentMove, MovesCounted
<1>3. \/ idx'[r] = idx[r] /\ pc'[r] # "check"
      \/ idx'[r] = idx[r] + 1 /\ pc'[r] = op[r].moves[idx[r] + 1].entry
  <2>1. CASE WriteLevel(r)
    <3>1. CASE idx[r] < Len(op[r].moves)
      BY <2>1, <3>1 DEF WriteLevel, AfterWrite, TypeOK
    <3>2. CASE ~(idx[r] < Len(op[r].moves))
      BY <2>1, <3>2 DEF WriteLevel, AfterWrite, TypeOK
    <3> QED
      BY <3>1, <3>2
  <2>2. CASE ~WriteLevel(r)
    BY <2>2 DEF Inner, ApplyReserved, InsertMovement, SumLedger, SelectLevel, TypeOK
  <2> QED
    BY <2>1, <2>2
<1>4. ASSUME NEW k \in 1..Len(op[r].moves), NEW l, l \in ReadsAt(op[r].moves[k]), Checked(r, k)'
      PROVE  Checked(r, k)
  <2>1. CASE idx'[r] = idx[r] /\ pc'[r] # "check"
    BY <1>1, <1>2, <1>4, <2>1 DEF Checked
  <2>2. CASE idx'[r] = idx[r] + 1 /\ pc'[r] = op[r].moves[idx[r] + 1].entry
    <3>1. k < idx[r] + 1 \/ (k = idx[r] + 1 /\ op[r].moves[k].entry # "check")
      BY <1>4, <2>2 DEF Checked
    <3>2. op[r].moves[k].entry = "check"
      BY <1>4 DEF ReadsAt
    <3>3. k < idx[r] \/ k = idx[r]
      BY <1>2, <3>1, <3>2
    <3> QED
      BY <1>1, <3>3 DEF Checked
  <2> QED
    BY <1>3, <2>1, <2>2
<1>5. ASSUME HasRead(r) PROVE HasRead(r)'
  <2> SUFFICES ASSUME NEW n \in 1..Len(op[r].moves), NEW k \in 1..Len(op[r].moves),
                      op[r].moves[n].column = "on_hand", k <= n,
                      op[r].moves[n].lvl \in ReadsAt(op[r].moves[k]), Checked(r, k)'
               PROVE  before[r][op[r].moves[n].lvl] = ledger[op[r].moves[n].lvl].on_hand
    BY <1>1 DEF HasRead
  <2>1. Checked(r, k)
    BY <1>4
  <2> QED
    BY <1>5, <2>1 DEF HasRead
<1>6. pc'[r] = "check" => Move(r)'.entry = "check"
  BY <1>1, <1>3 DEF Move
<1> QED
  BY <1>5, <1>6

LEMMA InnerWorks ==
  ASSUME TypeOK, Tracked, AlertsFounded, NEW r \in Requests, Inner(r), Alone(r), Working(r)
  PROVE  Working(r)'
<1>1. \A l \in Levels : Rests(r, l)'
  BY InnerRests DEF Working
<1>2. CASE Check(r)
  <2>1. pc'[r] # "check" /\ op'[r] = op[r]
    BY <1>2 DEF Check, TypeOK
  <2>2. KeysDistinct(op[r]) => HasRead(r)'
    BY <1>2, CheckReads
  <2> QED
    BY <1>1, <2>1, <2>2 DEF Working, KeysDistinct, KeyAt
<1>3. CASE ~Check(r)
  <2>1. op'[r] = op[r]
    BY InnerKeeps
  <2>2. (HasRead(r) => HasRead(r)') /\ (pc'[r] = "check" => Move(r)'.entry = "check")
    BY <1>3, InnerReads
  <2>3. KeysDistinct(op[r])' <=> KeysDistinct(op[r])
    BY <2>1 DEF KeysDistinct, KeyAt
  <2> QED
    BY <1>1, <2>2, <2>3 DEF Working
<1> QED
  BY <1>2, <1>3

(* Where nothing of a request and of the ledger moves, it works on.        *)
LEMMA WorkingKept ==
  ASSUME NEW s \in Requests, Working(s), UNCHANGED <<op, idx, level, ledger, delta, lock, pend, before>>,
         pc'[s] = pc[s]
  PROVE  Working(s)'
<1>1. \A l \in Levels : Rests(s, l)'
  BY DEF Working, Rests, SettledAt, View, SeenOnHand, SeenReserved, Lvl, Move
<1>2. (KeysDistinct(op[s])' <=> KeysDistinct(op[s])) /\ (HasRead(s)' <=> HasRead(s))
  BY DEF KeysDistinct, KeyAt, HasRead, Checked
<1>3. Move(s)' = Move(s)
  BY DEF Move
<1> QED
  BY <1>1, <1>2, <1>3 DEF Working

-----------------------------------------------------------------------------
(* A commit crosses the reorder point exactly where its request will say.  *)

LEMMA CommitHasRead ==
  ASSUME TypeOK, PostedInv, AlertsFounded, NEW r \in Requests, Commit(r), Working(r)
  PROVE  /\ ReadsFirst(op[r]) /\ HasRead(r)
         /\ Posted(r) = 1..Len(op[r].moves)
         /\ \A l \in Levels : /\ delta[r][l].on_hand = Moved(op[r], Posted(r), l, "on_hand")
                              /\ delta[r][l].reserved = Moved(op[r], Posted(r), l, "reserved")
<1>1. pc[r] = "commit" /\ Tracks(r)
  BY DEF Commit, PostedInv, Tracked, Running
<1>2. Posted(r) = 1..Len(op[r].moves)
  BY <1>1, CurrentMove, MovesCounted DEF Posted, Behind, Tracks
<1>3. KeysDistinct(op[r])
  BY <1>1, <1>2 DEF Tracks, KeysDistinct
<1> QED
  BY <1>1, <1>2, <1>3 DEF Working, AlertsFounded, TypeOK, Tracks

(* A level that one movement alone moves, moves by its quantity.           *)
LEMMA MovedOnce ==
  ASSUME NEW o \in OperationType, NEW n \in 1..Len(o.moves),
         Placed(o, 1..Len(o.moves), o.moves[n].lvl, o.moves[n].column) = {n}
  PROVE  Moved(o, 1..Len(o.moves), o.moves[n].lvl, o.moves[n].column) = o.moves[n].qty
<1> DEFINE S == (1..Len(o.moves)) \ {n}
<1>1. Placed(o, S, o.moves[n].lvl, o.moves[n].column) = {}
  BY DEF Placed
<1>2. Moved(o, S, o.moves[n].lvl, o.moves[n].column) = 0
  BY <1>1, MovedNothing
<1>3. S \cup {n} = 1..Len(o.moves) /\ n \notin S /\ S \in SUBSET (1..Len(o.moves))
  OBVIOUS
<1> HIDE DEF S
<1>4. Moved(o, S \cup {n}, o.moves[n].lvl, o.moves[n].column) =
        Moved(o, S, o.moves[n].lvl, o.moves[n].column) + o.moves[n].qty
  BY <1>3, MovedHere
<1>5. 0 + o.moves[n].qty = o.moves[n].qty
  BY MovesCounted
<1> QED
  BY <1>2, <1>3, <1>4, <1>5, Zenon

LEMMA CommitCrosses ==
  ASSUME TypeOK, PostedInv, AlertsFounded, NEW r \in Requests, Commit(r), Working(r),
         NEW l \in Levels
  PROVE  BreachedBy(r, l) <=> BreachCrossed(l[1], ledger[l].on_hand, ledger'[l].on_hand)
<1>1. /\ op[r] \in OperationType /\ Len(op[r].moves) \in Nat
      /\ ledger[l].on_hand \in Int /\ delta[r][l].on_hand \in Int
      /\ idx[r] = Len(op[r].moves) /\ pc[r] = "commit"
  <2>1. op[r] \in OperationType /\ Len(op[r].moves) \in Nat
    BY CurrentMove, MovesCounted
  <2>2. ledger[l].on_hand \in Int /\ delta[r][l].on_hand \in Int
    BY DEF TypeOK, Totals
  <2>3. pc[r] = "commit" /\ Tracks(r)
    BY DEF Commit, PostedInv, Tracked, Running
  <2> QED
    BY <2>1, <2>2, <2>3 DEF Tracks
<1>2. /\ ReadsFirst(op[r]) /\ HasRead(r)
      /\ delta[r][l].on_hand = Moved(op[r], 1..Len(op[r].moves), l, "on_hand")
  BY CommitHasRead
<1>3. ledger'[l].on_hand = ledger[l].on_hand + delta[r][l].on_hand
  BY DEF Commit
<1>4. ASSUME NEW n \in 1..Len(op[r].moves), op[r].moves[n].lvl = l, op[r].moves[n].column = "on_hand"
      PROVE  /\ before[r][l] = ledger[l].on_hand /\ delta[r][l].on_hand = op[r].moves[n].qty
             /\ \A k \in 1..Len(op[r].moves) :
                  op[r].moves[k].column = "on_hand" /\ op[r].moves[k].lvl = l => k = n
  <2>1. /\ \E k \in 1..n : l \in ReadsAt(op[r].moves[k])
        /\ \A k \in 1..Len(op[r].moves) :
             op[r].moves[k].column = "on_hand" /\ op[r].moves[k].lvl = l => k = n
    BY <1>2, <1>4 DEF ReadsFirst
  <2>2. PICK k \in 1..n : l \in ReadsAt(op[r].moves[k])
    BY <2>1
  <2>3. k \in 1..Len(op[r].moves) /\ k <= n /\ Checked(r, k)
    BY <1>1, <2>2 DEF Checked
  <2>4. before[r][l] = ledger[l].on_hand
    BY <1>2, <1>4, <2>2, <2>3 DEF HasRead
  <2>5. Placed(op[r], 1..Len(op[r].moves), l, "on_hand") = {n}
    BY <1>4, <2>1 DEF Placed
  <2> QED
    BY <1>1, <1>2, <1>4, <2>1, <2>4, <2>5, MovedOnce
<1>5. CASE \E n \in 1..Len(op[r].moves) :
             op[r].moves[n].lvl = l /\ op[r].moves[n].column = "on_hand"
  <2>1. PICK n \in 1..Len(op[r].moves) :
             op[r].moves[n].lvl = l /\ op[r].moves[n].column = "on_hand"
    BY <1>5
  <2>2. /\ before[r][l] = ledger[l].on_hand /\ delta[r][l].on_hand = op[r].moves[n].qty
        /\ \A k \in 1..Len(op[r].moves) :
             op[r].moves[k].column = "on_hand" /\ op[r].moves[k].lvl = l => k = n
    BY <1>4, <2>1
  <2>3. ledger'[l].on_hand = before[r][l] + op[r].moves[n].qty
    BY <1>3, <2>2
  <2>4. BreachedBy(r, l) <=> BreachCrossed(l[1], before[r][l], before[r][l] + op[r].moves[n].qty)
    BY <2>1, <2>2 DEF BreachedBy
  <2> QED
    BY <2>2, <2>3, <2>4
<1>6. CASE ~\E n \in 1..Len(op[r].moves) :
             op[r].moves[n].lvl = l /\ op[r].moves[n].column = "on_hand"
  <2>1. Placed(op[r], 1..Len(op[r].moves), l, "on_hand") = {}
    BY <1>6 DEF Placed
  <2>2. ledger'[l].on_hand = ledger[l].on_hand
    BY <1>1, <1>2, <1>3, <2>1, MovedNothing
  <2>3. ReorderPoint[l[1]] \in Int
    BY ReorderAssumption DEF Levels
  <2> QED
    BY <1>1, <1>6, <2>2, <2>3 DEF BreachedBy, BreachCrossed
<1> QED
  BY <1>5, <1>6

LEMMA CommitTells ==
  ASSUME TypeOK, PostedInv, AlertsFounded, IsFiniteSet(Started), Told,
         NEW r \in Requests, Commit(r), Working(r)
  PROVE  LevelMatchesLedger' /\ Told'
<1>1. /\ UNCHANGED <<op, before, alerts>> /\ pc[r] = "commit" /\ pc'[r] = "announce"
      /\ \A s \in Requests \ {r} : pc'[s] = pc[s]
  BY DEF Commit, TypeOK
<1>2. LevelMatchesLedger'
  <2> SUFFICES ASSUME NEW l \in Levels
               PROVE  /\ level'[l].on_hand = ledger'[l].on_hand
                      /\ level'[l].reserved = ledger'[l].reserved
    BY DEF LevelMatchesLedger
  <2>1. SettledAt(r, l)
    BY <1>1 DEF Working, Rests, Quiet
  <2> QED
    BY <2>1 DEF Commit, SettledAt, SeenOnHand, SeenReserved
<1>3. ASSUME NEW l \in Levels PROVE crossings'[l] = alerts'[l] + Cardinality(Owing(l))'
  <2>1. /\ crossings[l] = alerts[l] + Cardinality(Owing(l))
        /\ crossings[l] \in Nat /\ alerts[l] \in Nat /\ alerts' = alerts
        /\ IsFiniteSet(Owing(l)) /\ Cardinality(Owing(l)) \in Nat
    BY <1>1, OwingFinite DEF Told, TypeOK
  <2>2. r \notin Owing(l) /\ \A s : BreachedBy(s, l)' <=> BreachedBy(s, l)
    BY <1>1 DEF Owing, BreachedBy
  <2>3. crossings'[l] = IF BreachCrossed(l[1], ledger[l].on_hand, ledger'[l].on_hand)
                        THEN crossings[l] + 1 ELSE crossings[l]
    BY DEF Commit, BreachCrossed
  <2>4. CASE BreachedBy(r, l)
    <3>1. Owing(l)' = Owing(l) \cup {r}
      BY <1>1, <2>2, <2>4 DEF Owing
    <3>2. Cardinality(Owing(l) \cup {r}) = Cardinality(Owing(l)) + 1
      BY <2>1, <2>2, FS_AddElement
    <3>3. crossings'[l] = crossings[l] + 1
      BY <2>3, <2>4, CommitCrosses
    <3> QED
      BY <2>1, <3>1, <3>2, <3>3
  <2>5. CASE ~BreachedBy(r, l)
    <3>1. Owing(l)' = Owing(l)
      BY <1>1, <2>2, <2>5 DEF Owing
    <3>2. crossings'[l] = crossings[l]
      BY <2>3, <2>5, CommitCrosses
    <3> QED
      BY <2>1, <3>1, <3>2
  <2> QED
    BY <2>4, <2>5
<1>4. Told'
  BY <1>3 DEF Told
<1> QED
  BY <1>2, <1>4

LEMMA AnnounceTells ==
  ASSUME TypeOK, IsFiniteSet(Started), Told, NEW r \in Requests, Announce(r)
  PROVE  Told'
<1>1. /\ UNCHANGED <<op, before, crossings>> /\ pc[r] = "announce" /\ pc'[r] = "committed"
      /\ \A s \in Requests \ {r} : pc'[s] = pc[s]
  BY DEF Announce, TypeOK
<1>2. ASSUME NEW l \in Levels PROVE crossings'[l] = alerts'[l] + Cardinality(Owing(l))'
  <2>1. /\ crossings[l] = alerts[l] + Cardinality(Owing(l))
        /\ crossings[l] \in Nat /\ alerts[l] \in Nat /\ crossings' = crossings
        /\ IsFiniteSet(Owing(l)) /\ Cardinality(Owing(l)) \in Nat
    BY <1>1, OwingFinite DEF Told, TypeOK
  <2>2. \A s : BreachedBy(s, l)' <=> BreachedBy(s, l)
    BY <1>1 DEF BreachedBy
  <2>3. alerts'[l] = IF BreachedBy(r, l) THEN alerts[l] + 1 ELSE alerts[l]
    BY DEF Announce
  <2>4. Owing(l)' = Owing(l) \ {r} /\ (r \in Owing(l) <=> BreachedBy(r, l))
    BY <1>1, <2>2 DEF Owing
  <2>5. CASE BreachedBy(r, l)
    <3>1. Cardinality(Owing(l) \ {r}) = Cardinality(Owing(l)) - 1
      BY <2>1, <2>4, <2>5, FS_RemoveElement
    <3>2. Cardinality(Owing(l))' = Cardinality(Owing(l)) - 1
      BY <2>4, <3>1
    <3> QED
      BY <2>1, <2>3, <2>5, <3>2
  <2>6. CASE ~BreachedBy(r, l)
    <3>1. Owing(l)' = Owing(l)
      BY <2>4, <2>6
    <3>2. Cardinality(Owing(l))' = Cardinality(Owing(l))
      BY <3>1
    <3> QED
      BY <2>1, <2>3, <2>6, <3>2
  <2> QED
    BY <2>5, <2>6
<1> QED
  BY <1>2 DEF Told

-----------------------------------------------------------------------------
LEMMA InnerInOrder ==
  ASSUME TypeOK, Tracked, AlertsFounded, InOrder, NEW r \in Requests, Inner(r), Alone(r)
  PROVE  InOrder'
<1>1. /\ Open(r) /\ pc'[r] \in Running /\ \A s \in Requests \ {r} : pc'[s] = pc[s]
      /\ UNCHANGED <<op, level, ledger, alerts, crossings>>
  BY InnerKeeps DEF obsVars
<1>2. \A s \in Requests \ {r} : before'[s] = before[s]
  BY DEF Inner, Check, ApplyReserved, InsertMovement, SumLedger, SelectLevel, WriteLevel, TypeOK
<1>3. Told'
  <2>1. pc[r] \notin {"announce", "unannounced"} /\ pc'[r] \notin {"announce", "unannounced"}
    BY <1>1 DEF Open, Running
  <2> QED
    BY <1>1, <1>2, <2>1, ToldKept DEF InOrder
<1>4. LevelMatchesLedger'
  BY <1>1 DEF InOrder, LevelMatchesLedger
<1>5. Working(r)'
  BY <1>1, InnerWorks DEF InOrder
<1>6. \A s \in Requests \ {r} : ~Open(s)'
  BY <1>1 DEF Alone, Open
<1> QED
  BY <1>3, <1>4, <1>5, <1>6 DEF InOrder

(* The last step of a transaction that has the database to itself.         *)
LEMMA CloseInOrder ==
  ASSUME TypeOK, PostedInv, AlertsFounded, IsFiniteSet(Started), InOrder,
         NEW r \in Requests, Commit(r) \/ (Open(r) /\ Rollback(r)), Alone(r)
  PROVE  InOrder'
<1>1. /\ Open(r) /\ ~Open(r)' /\ \A s \in Requests \ {r} : pc'[s] = pc[s]
  BY DEF Commit, Rollback, Open, Running, TypeOK
<1>2. \A s \in Requests : ~Open(s)'
  BY <1>1 DEF Alone, Open
<1>3. CASE Commit(r)
  <2>1. LevelMatchesLedger' /\ Told'
    BY <1>1, <1>3, CommitTells DEF InOrder
  <2> QED
    BY <1>2, <2>1 DEF InOrder
<1>4. CASE Rollback(r)
  <2>1. /\ UNCHANGED <<op, level, ledger, before, alerts, crossings>>
        /\ pc[r] \notin {"announce", "unannounced"} /\ pc'[r] \notin {"announce", "unannounced"}
    BY <1>1, <1>4 DEF Rollback, dbVars, obsVars, Open, Running, TypeOK
  <2>2. Told'
    BY <1>1, <2>1, ToldKept DEF InOrder
  <2>3. LevelMatchesLedger'
    BY <2>1 DEF InOrder, LevelMatchesLedger
  <2> QED
    BY <1>2, <2>2, <2>3 DEF InOrder
<1> QED
  BY <1>3, <1>4

(* After the commit, and between requests, the ledger is left alone.       *)
LEMMA QuietInOrder ==
  ASSUME InOrder, Told', UNCHANGED <<op, idx, level, ledger, delta, lock, pend, before>>,
         \A s \in Requests : pc'[s] = pc[s] \/ ~Open(s)'
  PROVE  InOrder'
<1>1. LevelMatchesLedger'
  BY DEF InOrder, LevelMatchesLedger
<1>2. ASSUME NEW s \in Requests, Open(s)' PROVE Working(s)'
  <2>1. pc'[s] = pc[s] /\ Open(s)
    BY <1>2 DEF Open
  <2> QED
    BY <2>1, WorkingKept DEF InOrder
<1> QED
  BY <1>1, <1>2 DEF InOrder

LEMMA AlertInvNext ==
  ASSUME AlertsFounded
  PROVE  TypeOK /\ PostedInv /\ AloneInv /\ AlertInv /\ [Next]_vars => AlertInv'
<1> SUFFICES ASSUME TypeOK, PostedInv, AloneInv, AlertInv, [Next]_vars PROVE AlertInv'
  OBVIOUS
<1> USE DEF AlertInv
<1>a. \A r \in Requests : overlapped = {} /\ Open(r) => Alone(r)
  BY DEF AloneInv
<1>1. ASSUME NEW r \in Requests, Begin(r) PROVE AlertInv'
  <2>1. /\ UNCHANGED <<op, idx, level, ledger, delta, lock, pend, before, alerts, crossings>>
        /\ pc[r] = "idle" /\ \A s \in Requests \ {r} : pc'[s] = pc[s]
    BY <1>1 DEF Begin, openVars, dbVars, TypeOK
  <2>2. IsFiniteSet(Started)'
    BY <2>1, StartedFinite
  <2>3. ASSUME overlapped' = {} PROVE InOrder'
    <3>1. overlapped = {} /\ \A s \in Requests \ {r} : ~Open(s)
      BY <1>1, <2>3 DEF Begin
    <3>2. Working(r)'
      BY <1>1, <3>1, BeginWorks DEF PostedInv, AloneInv, InOrder
    <3>3. \A s \in Requests \ {r} : ~Open(s)'
      BY <2>1, <3>1 DEF Open
    <3>4. pc'[r] \notin {"announce", "unannounced"}
      <4>1. Move(r).entry \in {"check", "insert"}
        BY CurrentMove DEF Movements
      <4> QED
        BY <1>1, <4>1 DEF Begin, TypeOK
    <3>5. Told'
      BY <2>1, <3>1, <3>4, ToldKept DEF InOrder
    <3>6. LevelMatchesLedger'
      BY <2>1, <3>1 DEF InOrder, LevelMatchesLedger
    <3> QED
      BY <3>2, <3>3, <3>5, <3>6 DEF InOrder
  <2> QED
    BY <2>2, <2>3
<1>2. ASSUME NEW r \in Requests, Inner(r) PROVE AlertInv'
  <2>1. Open(r) /\ overlapped' = overlapped /\ \A s \in Requests \ {r} : pc'[s] = pc[s]
    BY <1>2, InnerKeeps DEF obsVars
  <2>2. IsFiniteSet(Started)'
    BY <2>1, StartedFinite
  <2>3. overlapped = {} => InOrder'
    BY <1>2, <1>a, <2>1, InnerInOrder DEF PostedInv
  <2> QED
    BY <2>1, <2>2, <2>3
<1>3. ASSUME NEW r \in Requests, Commit(r) \/ (Open(r) /\ Rollback(r)) PROVE AlertInv'
  <2>1. Open(r) /\ overlapped' = overlapped /\ \A s \in Requests \ {r} : pc'[s] = pc[s]
    BY <1>3 DEF Commit, Rollback, obsVars, Open, Running, TypeOK
  <2>2. IsFiniteSet(Started)'
    BY <2>1, StartedFinite
  <2>3. overlapped = {} => InOrder'
    BY <1>3, <1>a, <2>1, CloseInOrder
  <2> QED
    BY <2>1, <2>2, <2>3
<1>4. ASSUME NEW r \in Requests,
             CheckFails(r) \/ GuardFails(r) \/ InsertConflicts(r) \/ WriteFails(r)
             \/ DeadlockVictim(r) \/ Lost(r)
      PROVE  Open(r) /\ Rollback(r)
  BY <1>4 DEF CheckFails, GuardFails, InsertConflicts, WriteFails, DeadlockVictim, Lost,
              Open, Running
<1>5. ASSUME NEW r \in Requests, Announce(r) \/ LostAnnouncement(r) PROVE AlertInv'
  <2>1. /\ UNCHANGED <<op, idx, level, ledger, delta, lock, pend, before, overlapped, crossings>>
        /\ pc[r] = "announce" /\ ~Open(r)' /\ \A s \in Requests \ {r} : pc'[s] = pc[s]
    BY <1>5 DEF Announce, LostAnnouncement, openVars, dbVars, obsVars, Open, Running, TypeOK
  <2>2. IsFiniteSet(Started)'
    BY <2>1, StartedFinite
  <2>3. ASSUME overlapped = {} PROVE InOrder'
    <3>1. CASE Announce(r)
      <4>1. Told'
        BY <2>3, <3>1, AnnounceTells DEF InOrder
      <4> QED
        BY <2>1, <2>3, <4>1, QuietInOrder
    <3>2. CASE LostAnnouncement(r)
      <4>1. pc'[r] = "unannounced" /\ UNCHANGED alerts
        BY <3>2 DEF LostAnnouncement, obsVars, TypeOK
      <4>2. Told'
        BY <2>1, <2>3, <4>1, ToldKept DEF InOrder
      <4> QED
        BY <2>1, <2>3, <4>2, QuietInOrder
    <3> QED
      BY <1>5, <3>1, <3>2
  <2> QED
    BY <2>1, <2>2, <2>3
<1>6. ASSUME UNCHANGED <<reqVars, openVars, dbVars, obsVars>> PROVE AlertInv'
  <2>1. /\ UNCHANGED <<op, idx, level, ledger, delta, lock, pend, before, pc>>
        /\ UNCHANGED <<overlapped, alerts, crossings>>
    BY <1>6 DEF reqVars, openVars, dbVars, obsVars
  <2>2. Started' = Started
    BY <2>1 DEF Started
  <2>3. ASSUME overlapped = {} PROVE InOrder'
    <3>1. Told'
      BY <2>1, <2>3, ToldKept DEF InOrder
    <3> QED
      BY <2>1, <2>3, <3>1, QuietInOrder
  <2> QED
    BY <2>1, <2>2, <2>3
<1>7. ASSUME NEW x \in Archivable, Administer(x)
      PROVE  UNCHANGED <<reqVars, openVars, dbVars, obsVars>>
  BY <1>7 DEF Administer, ReadReserved, Deactivate, Reactivate
<1>8. CASE UNCHANGED vars
  BY <1>6, <1>8 DEF vars
<1> QED
  BY <1>1, <1>2, <1>3, <1>4, <1>5, <1>6, <1>7, <1>8 DEF Next, Step, Inner

(* While no two requests have overlapped, once every commit has been       *)
(* announced each level has had one alert for each time its quantity fell  *)
(* to the reorder point (_emit_level_changed, which judges by the quantity *)
(* the service read before it posted).                                     *)
THEOREM LoneAlertsAlwaysMatch ==
  ASSUME AlertsFounded
  PROVE  Spec => []LoneAlertsMatch
<1>1. TypeOK /\ AlertInv => LoneAlertsMatch
  <2> SUFFICES ASSUME TypeOK, AlertInv, overlapped = {}, AllAnnounced PROVE alerts = crossings
    BY DEF LoneAlertsMatch, OneAlertPerCrossing
  <2>1. \A l : Owing(l) = {}
    BY DEF Owing, AllAnnounced
  <2>2. Cardinality({}) = 0
    BY FS_EmptySet
  <2>3. \A l \in Levels : Cardinality(Owing(l)) = 0
    BY <2>1, <2>2, Zenon
  <2>4. \A l \in Levels : crossings[l] = alerts[l]
    BY <2>3 DEF AlertInv, InOrder, Told, TypeOK
  <2> QED
    BY <2>4 DEF TypeOK
<1> QED
  BY TypeInit, TypeStep, PostedInvInit, PostedInvNext, AloneInvInit, AloneInvNext,
     AlertInvInit, AlertInvNext, <1>1, PTL
     DEF Spec

-----------------------------------------------------------------------------
(* The hypothesis of LoneAlertsAlwaysMatch is about the code as well.      *)

LEMMA AdjustStockReads ==
  ASSUME NEW ref, NEW lvl, NEW q
  PROVE  ReadsFirst(AdjustStock(ref, lvl, q))
  BY DEF ReadsFirst, AdjustStock, ReadsAt

LEMMA TransferStockReads ==
  ASSUME NEW ref, NEW p, NEW from, NEW to, NEW q,
         KeysDistinct(TransferStock(ref, p, from, to, q))
  PROVE  ReadsFirst(TransferStock(ref, p, from, to, q))
<1> DEFINE o == TransferStock(ref, p, from, to, q)
<1>1. /\ Len(o.moves) = 2 /\ 1..Len(o.moves) = {1, 2}
      /\ o.moves[1].lvl = <<p, from>> /\ o.moves[2].lvl = <<p, to>>
      /\ o.moves[1].step = "transfer" /\ o.moves[2].step = "transfer"
  BY DEF TransferStock
<1>2. ReadsAt(o.moves[1]) = {<<p, from>>, <<p, to>>} /\ ReadsAt(o.moves[2]) = {}
  BY DEF TransferStock, ReadsAt
<1>3. o.moves[1].lvl # o.moves[2].lvl
  <2>1. KeyAt(o, 1) # KeyAt(o, 2)
    BY <1>1 DEF KeysDistinct
  <2> HIDE DEF o
  <2> QED
    BY <1>1, <2>1 DEF KeyAt
<1> HIDE DEF o
<1>4. ReadsFirst(o)
  BY <1>1, <1>2, <1>3 DEF ReadsFirst
<1> QED
  BY <1>4 DEF o

LEMMA OrderMovesRead ==
  ASSUME NEW o, \A n \in 1..Len(o.moves) : o.moves[n].column = "reserved"
  PROVE  ReadsFirst(o)
  BY DEF ReadsFirst

LEMMA ReserveOrderReads ==
  ASSUME NEW ref, NEW w, NEW lines \in Seq(OrderLine)
  PROVE  ReadsFirst(ReserveOrder(ref, w, lines)) /\ ReadsFirst(ReleaseOrder(ref, w, lines))
<1>1. \A n \in 1..Len(ReserveOrder(ref, w, lines).moves) :
        ReserveOrder(ref, w, lines).moves[n].column = "reserved"
  BY LineType DEF ReserveOrder, ReservationMove
<1>2. \A n \in 1..Len(ReleaseOrder(ref, w, lines).moves) :
        ReleaseOrder(ref, w, lines).moves[n].column = "reserved"
  BY LineType DEF ReleaseOrder, ReleaseMove
<1> QED
  BY <1>1, <1>2, OrderMovesRead

(* The release before an issue reads the level, and a second line of the   *)
(* same product would post the same keys again.                            *)
LEMMA FulfilOrderLinesReads ==
  ASSUME NEW ref, NEW w, NEW lines \in Seq(OrderLine),
         KeysDistinct(FulfilOrderLines(ref, w, lines))
  PROVE  ReadsFirst(FulfilOrderLines(ref, w, lines))
<1> DEFINE o == FulfilOrderLines(ref, w, lines)
           lvl(n) == <<lines[(n + 1) \div 2].product, w>>
<1>1. Len(lines) \in Nat
  BY LineType
<1>2. /\ Len(o.moves) = 2 * Len(lines)
      /\ \A n \in 1..(2 * Len(lines)) :
           o.moves[n] = IF n % 2 = 1 THEN ReleaseMove(lvl(n), lines[(n + 1) \div 2].qty, FALSE)
                                     ELSE IssueMove(lvl(n), lines[(n + 1) \div 2].qty)
  BY <1>1 DEF FulfilOrderLines
<1>3. \A j, k \in 1..Len(o.moves) : j # k => KeyAt(o, j) # KeyAt(o, k)
  BY DEF KeysDistinct
<1> HIDE DEF o
<1>4. ASSUME NEW n \in 1..Len(o.moves)
      PROVE  /\ n % 2 = 1 => /\ o.moves[n].column = "reserved" /\ o.moves[n].step = "release"
                             /\ ReadsAt(o.moves[n]) = {lvl(n)}
             /\ n % 2 # 1 => /\ o.moves[n].column = "on_hand" /\ o.moves[n].step = "issue"
                             /\ ReadsAt(o.moves[n]) = {}
             /\ o.moves[n].lvl = lvl(n)
  <2>1. CASE n % 2 = 1
    <3>1. o.moves[n] = ReleaseMove(lvl(n), lines[(n + 1) \div 2].qty, FALSE)
      BY <1>2, <2>1
    <3> HIDE DEF lvl
    <3>2. /\ o.moves[n].column = "reserved" /\ o.moves[n].step = "release"
          /\ o.moves[n].entry = "check" /\ o.moves[n].active = {lvl(n)} /\ o.moves[n].lvl = lvl(n)
      BY <3>1 DEF ReleaseMove
    <3> QED
      BY <2>1, <3>2 DEF ReadsAt
  <2>2. CASE n % 2 # 1
    <3>1. o.moves[n] = IssueMove(lvl(n), lines[(n + 1) \div 2].qty)
      BY <1>2, <2>2
    <3> HIDE DEF lvl
    <3>2. /\ o.moves[n].column = "on_hand" /\ o.moves[n].step = "issue"
          /\ o.moves[n].entry = "insert" /\ o.moves[n].lvl = lvl(n)
      BY <3>1 DEF IssueMove
    <3> QED
      BY <2>2, <3>2 DEF ReadsAt
  <2> QED
    BY <2>1, <2>2
<1>5. ASSUME NEW n \in 1..Len(o.moves), n % 2 # 1
      PROVE  n - 1 \in 1..Len(o.moves) /\ n - 1 < n /\ (n - 1) % 2 = 1 /\ lvl(n - 1) = lvl(n)
  <2>1. n - 1 \in 1..Len(o.moves) /\ n - 1 < n /\ (n - 1) % 2 = 1
    BY <1>1, <1>2, <1>5
  <2>2. ((n - 1) + 1) \div 2 = (n + 1) \div 2
    BY <1>1, <1>2, <1>5
  <2> QED
    BY <2>1, <2>2
<1> HIDE DEF lvl
<1>6. \A j, k \in 1..Len(o.moves) :
        j # k => ~(o.moves[j].step = o.moves[k].step /\ o.moves[j].lvl = o.moves[k].lvl)
  BY <1>3 DEF KeyAt
<1>7. SUFFICES ASSUME NEW n \in 1..Len(o.moves), o.moves[n].column = "on_hand"
               PROVE  /\ \E k \in 1..n : o.moves[n].lvl \in ReadsAt(o.moves[k])
                      /\ \A k \in 1..Len(o.moves) : k > n => o.moves[n].lvl \notin ReadsAt(o.moves[k])
                      /\ \A k \in 1..Len(o.moves) :
                           o.moves[k].column = "on_hand" /\ o.moves[k].lvl = o.moves[n].lvl => k = n
  BY DEF ReadsFirst, o
<1>8. n % 2 # 1
  BY <1>4, <1>7
<1>9. n - 1 \in 1..Len(o.moves) /\ n - 1 < n /\ (n - 1) % 2 = 1 /\ lvl(n - 1) = lvl(n)
  BY <1>5, <1>8
<1>10. \E k \in 1..n : o.moves[n].lvl \in ReadsAt(o.moves[k])
  <2>1. n - 1 \in 1..n
    BY <1>9
  <2> QED
    BY <1>4, <1>9, <2>1
<1>11. ASSUME NEW k \in 1..Len(o.moves), k > n, o.moves[n].lvl \in ReadsAt(o.moves[k]) PROVE FALSE
  <2>1. k % 2 = 1 /\ lvl(k) = lvl(n)
    BY <1>4, <1>11
  <2>2. k # n - 1
    BY <1>9, <1>11
  <2>3. o.moves[k].step = "release" /\ o.moves[k].lvl = lvl(k)
    BY <1>4, <2>1
  <2>4. o.moves[n - 1].step = "release" /\ o.moves[n - 1].lvl = lvl(n - 1)
    BY <1>4, <1>9
  <2> QED
    BY <1>6, <1>9, <2>1, <2>2, <2>3, <2>4
<1>12. ASSUME NEW k \in 1..Len(o.moves), o.moves[k].column = "on_hand",
              o.moves[k].lvl = o.moves[n].lvl, k # n
       PROVE  FALSE
  <2>1. k % 2 # 1
    BY <1>4, <1>12
  <2>2. o.moves[k].step = o.moves[n].step
    BY <1>4, <1>8, <2>1
  <2> QED
    BY <1>6, <1>12, <2>2
<1> QED
  BY <1>10, <1>11, <1>12

(* Every method of the service founds its alerts: an operation of one of   *)
(* them that can be committed at all reads each level it announces before  *)
(* it posts there, and posts there once.                                   *)
THEOREM MethodsFoundAlerts ==
  ASSUME \A o \in Operations :
           \/ \E ref \in Refs, lvl \in Levels, q \in Int : o = AdjustStock(ref, lvl, q)
           \/ \E ref \in Refs, p \in Products, from, to \in Warehouses, q \in Int :
                o = TransferStock(ref, p, from, to, q)
           \/ \E ref \in Refs, w \in Warehouses, lines \in Seq(OrderLine) :
                o \in {ReserveOrder(ref, w, lines), ReleaseOrder(ref, w, lines),
                       FulfilOrderLines(ref, w, lines)}
  PROVE  AlertsFounded
  BY AdjustStockReads, TransferStockReads, ReserveOrderReads, FulfilOrderLinesReads
     DEF AlertsFounded
=============================================================================
