----------------------------- MODULE StockLedger -----------------------------
(***************************************************************************)
(* Inventory requests of one tenant running concurrently against Postgres  *)
(* at READ COMMITTED. Each request is one transaction of one operation of  *)
(* StockOperations, executed statement by statement: a statement sees what *)
(* is committed when it starts plus the request's own writes, an UPDATE    *)
(* takes the row lock of the stock level until the transaction ends, and   *)
(* the unique index of the ledger makes an INSERT of a key another open    *)
(* transaction has inserted wait for that transaction.                     *)
(***************************************************************************)
EXTENDS StockOperations, FiniteSets

CONSTANTS
  Requests,      \* concurrent requests, each runs one operation
  NoRequest,     \* "nobody holds the row lock"
  Operations,    \* the operations clients may submit
  InitialStock,  \* units received at each level before the run
  ReorderPoint,  \* of each product
  Archivable     \* products and warehouses an administrator may archive

ASSUME RequestAssumption == NoRequest \notin Requests
ASSUME OperationAssumption ==
  \A o \in Operations : o \in OperationType /\ o.moves # << >>
ASSUME StockAssumption == InitialStock \in [Levels -> Nat]
ASSUME ReorderAssumption == ReorderPoint \in [Products -> Int]

VARIABLES
  pc, op, idx,    \* statement about to run, operation, current movement
  sums, seen,     \* result of the SUM and of the level SELECT of a recompute
  before,         \* qty_on_hand as the service read it before posting
  delta, mine,    \* the request's uncommitted ledger rows: totals and keys
  level,          \* committed erp_stock_levels rows
  pend, lock,     \* uncommitted version of a locked row, and who locked it
  ledger, rows,   \* committed erp_stock_movements: totals and keys
  active,         \* products and warehouses that are not archived
  archiving,      \* deactivations that have read qty_reserved = 0
  alerts,         \* reorder alerts fired, per level
  crossings,      \* times qty_on_hand really fell to the reorder point
  overlapped      \* requests that shared some of their run with another

reqVars  == <<pc, op, idx, sums, seen, before>>
openVars == <<delta, mine, pend, lock>>
dbVars   == <<level, ledger, rows>>
itemVars == <<active, archiving>>
obsVars  == <<alerts, crossings, overlapped>>
vars     == <<reqVars, openVars, dbVars, itemVars, obsVars>>

Zero   == [on_hand |-> 0, reserved |-> 0]
Totals == [on_hand : Int, reserved : Int]
Rows   == [exists : BOOLEAN, on_hand : Int, reserved : Int]
NoRow  == [exists |-> FALSE, on_hand |-> 0, reserved |-> 0]
Items  == Products \cup Warehouses

Ended     == {"committed", "unannounced", "rejected"}
Running   == {"check", "guard", "insert", "sum", "select", "write", "commit"}

Init ==
  /\ pc = [r \in Requests |-> "idle"]
  /\ op \in [Requests -> Operations]
  /\ idx = [r \in Requests |-> 1]
  /\ sums = [r \in Requests |-> Zero]
  /\ seen = [r \in Requests |-> NoRow]
  /\ before = [r \in Requests |-> [l \in Levels |-> 0]]
  /\ delta = [r \in Requests |-> [l \in Levels |-> Zero]]
  /\ mine = [r \in Requests |-> {}]
  /\ ledger = [l \in Levels |-> [on_hand |-> InitialStock[l], reserved |-> 0]]
  /\ rows = {}
  /\ level = [l \in Levels |-> [exists |-> InitialStock[l] > 0,
                                on_hand |-> InitialStock[l], reserved |-> 0]]
  /\ pend = level
  /\ lock = [l \in Levels |-> NoRequest]
  /\ active = Items
  /\ archiving = {}
  /\ alerts = [l \in Levels |-> 0]
  /\ crossings = [l \in Levels |-> 0]
  /\ overlapped = {}

-----------------------------------------------------------------------------
(* Operations that change no level they have not claimed first: each       *)
(* movement either runs the conditional UPDATE itself or directly follows  *)
(* one that ran it on the same level. This is so of the reservation        *)
(* methods and not of adjust_stock and transfer_stock.                     *)
GuardedMove(m) ==
  /\ m.entry = "check" /\ m.column = "reserved"
  /\ \/ m.guard = "reserve" /\ m.qty >= 0
     \/ m.guard = "release" /\ m.qty <= 0

Claims(moves) ==
  \A n \in 1..Len(moves) :
    \/ GuardedMove(moves[n])
    \/ /\ n > 1 /\ moves[n - 1].lvl = moves[n].lvl
       /\ moves[n].guard = "none" /\ moves[n].entry = "insert"

ReservationsOnly == \A o \in Operations : Claims(o.moves)

(* Operations that announce what they did: one movement of qty_on_hand per *)
(* level at most, whose level is read before it is posted and not after.   *)
(* An operation with two movements of one key is never committed.          *)
KeyAt(o, n) == [ref |-> o.ref, step |-> o.moves[n].step, lvl |-> o.moves[n].lvl]

KeysDistinct(o) == \A j, k \in 1..Len(o.moves) : j # k => KeyAt(o, j) # KeyAt(o, k)

ReadsAt(m) == IF m.entry = "check" THEN m.active \cup {m.lvl} ELSE {}

ReadsFirst(o) ==
  \A n \in 1..Len(o.moves) : o.moves[n].column = "on_hand" =>
    /\ \E k \in 1..n : o.moves[n].lvl \in ReadsAt(o.moves[k])
    /\ \A k \in 1..Len(o.moves) : k > n => o.moves[n].lvl \notin ReadsAt(o.moves[k])
    /\ \A k \in 1..Len(o.moves) :
         o.moves[k].column = "on_hand" /\ o.moves[k].lvl = o.moves[n].lvl => k = n

AlertsFounded == \A o \in Operations : KeysDistinct(o) => ReadsFirst(o)

-----------------------------------------------------------------------------
(* What a request is working on, and what its next statement can see.      *)

Move(r) == op[r].moves[idx[r]]
Lvl(r)  == Move(r).lvl
Key(r)  == [ref |-> op[r].ref, step |-> Move(r).step, lvl |-> Lvl(r)]

View(r, l) == IF lock[l] = r THEN pend[l] ELSE level[l]

Plus(t, column, q) ==
  [on_hand  |-> IF column = "on_hand" THEN t.on_hand + q ELSE t.on_hand,
   reserved |-> IF column = "reserved" THEN t.reserved + q ELSE t.reserved]

CheckConstraint(row) ==
  0 <= row.on_hand /\ 0 <= row.reserved /\ row.reserved <= row.on_hand

ActiveLevel(l) == l[1] \in active /\ l[2] \in active

Open(r) == pc[r] \in Running

MayLock(r, l) == lock[l] \in {r, NoRequest}

(* Fault variant: the failed request's session is never closed.            *)
Rollback_KeepsLocks(r) ==
  /\ pc' = [pc EXCEPT ![r] = "rejected"]
  /\ delta' = [delta EXCEPT ![r] = [l \in Levels |-> Zero]]
  /\ mine' = [mine EXCEPT ![r] = {}]
  /\ UNCHANGED <<op, idx, sums, seen, before, pend, lock, dbVars, itemVars,
                 obsVars>>

(* Rolling back drops the request's rows and locks; nothing else changes.  *)
Rollback(r) ==
  /\ pc' = [pc EXCEPT ![r] = "rejected"]
  /\ delta' = [delta EXCEPT ![r] = [l \in Levels |-> Zero]]
  /\ mine' = [mine EXCEPT ![r] = {}]
  /\ lock' = [l \in Levels |-> IF lock[l] = r THEN NoRequest ELSE lock[l]]
  /\ UNCHANGED <<op, idx, sums, seen, before, pend, dbVars, itemVars, obsVars>>

-----------------------------------------------------------------------------
(* The statements of one request.                                          *)

Begin(r) ==
  /\ pc[r] = "idle"
  /\ pc' = [pc EXCEPT ![r] = Move(r).entry]
  /\ LET others == {s \in Requests \ {r} : Open(s)}
     IN  overlapped' = IF others = {} THEN overlapped
                       ELSE overlapped \cup others \cup {r}
  /\ UNCHANGED <<op, idx, sums, seen, before, openVars, dbVars, itemVars,
                 alerts, crossings>>

CheckPasses(r) ==
  LET m == Move(r)
  IN  /\ m.replay => Key(r) \notin rows \cup mine[r]
      /\ \A l \in m.active : ActiveLevel(l)
      /\ m.nonneg => View(r, m.lvl).on_hand + m.qty >= 0

Check(r) ==
  /\ pc[r] = "check"
  /\ CheckPasses(r)
  /\ pc' = [pc EXCEPT ![r] = IF Move(r).guard = "none" THEN "insert" ELSE "guard"]
  /\ before' = [before EXCEPT ![r] =
                  [l \in Levels |-> IF l \in Move(r).active \cup {Lvl(r)}
                                    THEN View(r, l).on_hand ELSE @[l]]]
  /\ UNCHANGED <<op, idx, sums, seen, openVars, dbVars, itemVars, obsVars>>

CheckFails(r) ==
  /\ pc[r] = "check"
  /\ ~CheckPasses(r)
  /\ Rollback(r)

(* The WHERE clause of apply_reservation_qty and apply_release_qty.        *)
GuardHolds(r) ==
  LET row == View(r, Lvl(r))
      q   == row.reserved + Move(r).qty
  IN  /\ row.exists
      /\ IF Move(r).guard = "reserve" THEN q <= row.on_hand ELSE q >= 0

(* Fault variant: the condition is a SELECT, which takes no row lock.      *)
ApplyReserved_ReadOnly(r) ==
  /\ pc[r] = "guard"
  /\ GuardHolds(r)
  /\ pc' = [pc EXCEPT ![r] = "insert"]
  /\ UNCHANGED <<op, idx, sums, seen, before, openVars, dbVars, itemVars, obsVars>>

ApplyReserved(r) ==
  /\ pc[r] = "guard"
  /\ MayLock(r, Lvl(r))
  /\ GuardHolds(r)
  /\ lock' = [lock EXCEPT ![Lvl(r)] = r]
  /\ pend' = [pend EXCEPT ![Lvl(r)] =
                [View(r, Lvl(r)) EXCEPT !.reserved = @ + Move(r).qty]]
  /\ pc' = [pc EXCEPT ![r] = "insert"]
  /\ UNCHANGED <<op, idx, sums, seen, before, delta, mine, dbVars, itemVars,
                 obsVars>>

(* No committed row matches: rowcount is 0, without waiting for a lock.    *)
GuardFails(r) ==
  /\ pc[r] = "guard"
  /\ ~GuardHolds(r)
  /\ Rollback(r)

(* Fault variants: the loop runs one line too far; every line commits.     *)
AfterWrite_PastEnd(r) ==
  /\ idx' = [idx EXCEPT ![r] = @ + 1]
  /\ pc' = [pc EXCEPT ![r] = IF idx[r] < Len(op[r].moves)
                             THEN op[r].moves[idx[r] + 1].entry ELSE "commit"]

AfterWrite_CommitEachLine(r) ==
  pc' = [pc EXCEPT ![r] = "commit"] /\ UNCHANGED idx

(* On to the next movement of the operation, or to its single commit.      *)
AfterWrite(r) ==
  IF idx[r] < Len(op[r].moves)
  THEN /\ idx' = [idx EXCEPT ![r] = @ + 1]
       /\ pc' = [pc EXCEPT ![r] = op[r].moves[idx[r] + 1].entry]
  ELSE /\ pc' = [pc EXCEPT ![r] = "commit"]
       /\ UNCHANGED idx

(* Fault variant: no unique index behind the replay probe.                 *)
KeyInFlight_NoIndex(r) == {}

KeyInFlight(r) == {s \in Requests \ {r} : Key(r) \in mine[s]}

InsertMovement(r) ==
  /\ pc[r] = "insert"
  /\ KeyInFlight(r) = {}
  /\ Key(r) \notin rows \cup mine[r]
  /\ mine' = [mine EXCEPT ![r] = @ \cup {Key(r)}]
  /\ delta' = [delta EXCEPT ![r][Lvl(r)] = Plus(@, Move(r).column, Move(r).qty)]
  /\ pc' = [pc EXCEPT ![r] = "sum"]
  /\ UNCHANGED <<op, idx, sums, seen, before, pend, lock, dbVars, itemVars,
                 obsVars>>

InsertConflicts(r) ==
  /\ pc[r] = "insert"
  /\ Key(r) \in rows \cup mine[r]
  /\ Rollback(r)

(* Fault variant: the SUM runs before the INSERT.                          *)
SumLedger_BeforeInsert(r) ==
  /\ pc[r] = "sum"
  /\ sums' = [sums EXCEPT ![r] = ledger[Lvl(r)]]
  /\ pc' = [pc EXCEPT ![r] = "select"]
  /\ UNCHANGED <<op, idx, seen, before, openVars, dbVars, itemVars, obsVars>>

SumLedger(r) ==
  /\ pc[r] = "sum"
  /\ LET l == Lvl(r)
     IN  sums' = [sums EXCEPT ![r] =
                    [on_hand  |-> ledger[l].on_hand + delta[r][l].on_hand,
                     reserved |-> ledger[l].reserved + delta[r][l].reserved]]
  /\ pc' = [pc EXCEPT ![r] = "select"]
  /\ UNCHANGED <<op, idx, seen, before, openVars, dbVars, itemVars, obsVars>>

SelectLevel(r) ==
  /\ pc[r] = "select"
  /\ seen' = [seen EXCEPT ![r] = View(r, Lvl(r))]
  /\ pc' = [pc EXCEPT ![r] = "write"]
  /\ UNCHANGED <<op, idx, sums, before, openVars, dbVars, itemVars, obsVars>>

(* The flush writes only the columns that differ from what SELECT loaded,  *)
(* and writes them as absolute values.                                     *)
Flushed(r) ==
  LET row == View(r, Lvl(r))
      new == sums[r]
      old == seen[r]
  IN  IF ~old.exists
      THEN [exists |-> TRUE, on_hand |-> new.on_hand, reserved |-> new.reserved]
      ELSE [exists |-> row.exists,
            on_hand |-> IF new.on_hand # old.on_hand THEN new.on_hand
                        ELSE row.on_hand,
            reserved |-> IF new.reserved # old.reserved THEN new.reserved
                         ELSE row.reserved]

NothingToFlush(r) ==
  /\ seen[r].exists
  /\ sums[r].on_hand = seen[r].on_hand /\ sums[r].reserved = seen[r].reserved

(* The row SELECT did not find has been inserted by somebody else since.   *)
DuplicateLevel(r) == ~seen[r].exists /\ View(r, Lvl(r)).exists

WriteLevel(r) ==
  /\ pc[r] = "write"
  /\ \/ /\ NothingToFlush(r)
        /\ UNCHANGED <<pend, lock>>
     \/ /\ ~NothingToFlush(r)
        /\ MayLock(r, Lvl(r))
        /\ ~DuplicateLevel(r)
        /\ CheckConstraint(Flushed(r))
        /\ lock' = [lock EXCEPT ![Lvl(r)] = r]
        /\ pend' = [pend EXCEPT ![Lvl(r)] = Flushed(r)]
  /\ AfterWrite(r)
  /\ sums' = [sums EXCEPT ![r] = Zero]
  /\ seen' = [seen EXCEPT ![r] = NoRow]
  /\ UNCHANGED <<op, before, delta, mine, dbVars, itemVars, obsVars>>

WriteFails(r) ==
  /\ pc[r] = "write"
  /\ ~NothingToFlush(r)
  /\ MayLock(r, Lvl(r))
  /\ DuplicateLevel(r) \/ ~CheckConstraint(Flushed(r))
  /\ Rollback(r)

Commit(r) ==
  /\ pc[r] = "commit"
  /\ pc' = [pc EXCEPT ![r] = "announce"]
  /\ level' = [l \in Levels |-> View(r, l)]
  /\ lock' = [l \in Levels |-> IF lock[l] = r THEN NoRequest ELSE lock[l]]
  /\ ledger' = [l \in Levels |->
                  [on_hand  |-> ledger[l].on_hand + delta[r][l].on_hand,
                   reserved |-> ledger[l].reserved + delta[r][l].reserved]]
  /\ rows' = rows \cup mine[r]
  /\ delta' = [delta EXCEPT ![r] = [l \in Levels |-> Zero]]
  /\ mine' = [mine EXCEPT ![r] = {}]
  /\ crossings' = [l \in Levels |->
                     IF /\ ledger[l].on_hand > ReorderPoint[l[1]]
                        /\ ledger'[l].on_hand <= ReorderPoint[l[1]]
                     THEN crossings[l] + 1 ELSE crossings[l]]
  /\ UNCHANGED <<op, idx, sums, seen, before, pend, itemVars, alerts, overlapped>>

(* Fault variant: the alert waits until the level is below the point.      *)
BreachCrossed_Below(p, from, to) == from > ReorderPoint[p] /\ to < ReorderPoint[p]

BreachCrossed(p, from, to) == from > ReorderPoint[p] /\ to <= ReorderPoint[p]

(* The request moved qty_on_hand of l across the reorder point, judging by *)
(* the quantity it read before it posted.                                  *)
BreachedBy(r, l) ==
  \E n \in 1..Len(op[r].moves) :
    LET m == op[r].moves[n]
    IN  /\ m.lvl = l /\ m.column = "on_hand"
        /\ BreachCrossed(l[1], before[r][l], before[r][l] + m.qty)

(* _emit_level_changed, after the commit, from the values read before it.  *)
Announce(r) ==
  /\ pc[r] = "announce"
  /\ pc' = [pc EXCEPT ![r] = "committed"]
  /\ alerts' = [l \in Levels |-> IF BreachedBy(r, l) THEN alerts[l] + 1 ELSE alerts[l]]
  /\ UNCHANGED <<op, idx, sums, seen, before, openVars, dbVars, itemVars,
                 crossings, overlapped>>

-----------------------------------------------------------------------------
(* Lock waits, the deadlock detector of Postgres, and lost requests.       *)

WaitsFor(r) ==
  CASE pc[r] = "guard" /\ GuardHolds(r) /\ ~MayLock(r, Lvl(r)) -> {lock[Lvl(r)]}
    [] pc[r] = "write" /\ ~NothingToFlush(r) /\ ~MayLock(r, Lvl(r)) -> {lock[Lvl(r)]}
    [] pc[r] = "insert" /\ Key(r) \notin rows \cup mine[r] -> KeyInFlight(r)
    [] OTHER -> {}

OnWaitCycle(r) ==
  \E S \in SUBSET Requests :
    /\ r \in S
    /\ \A s \in S : WaitsFor(s) \cap S # {} /\ \E t \in S : s \in WaitsFor(t)

DeadlockVictim(r) ==
  /\ Open(r)
  /\ OnWaitCycle(r)
  /\ Rollback(r)

(* The client disconnects or the process dies before the commit.           *)
Lost(r) ==
  /\ Open(r)
  /\ Rollback(r)

(* The same after the commit: the stock has moved, no alert is ever sent.  *)
LostAnnouncement(r) ==
  /\ pc[r] = "announce"
  /\ pc' = [pc EXCEPT ![r] = "unannounced"]
  /\ UNCHANGED <<op, idx, sums, seen, before, openVars, dbVars, itemVars, obsVars>>

-----------------------------------------------------------------------------
(* deactivate_product / deactivate_warehouse read SUM(qty_reserved), then  *)
(* flip is_active in a later statement that locks no stock level.          *)

LevelsOf(x) == {l \in Levels : x \in {l[1], l[2]}}

ReadReserved(x) ==
  /\ x \in active \ archiving
  /\ \A l \in LevelsOf(x) : level[l].reserved = 0
  /\ archiving' = archiving \cup {x}
  /\ UNCHANGED <<reqVars, openVars, dbVars, active, obsVars>>

Deactivate(x) ==
  /\ x \in archiving
  /\ active' = active \ {x}
  /\ archiving' = archiving \ {x}
  /\ UNCHANGED <<reqVars, openVars, dbVars, obsVars>>

Reactivate(x) ==
  /\ x \in Items \ active
  /\ active' = active \cup {x}
  /\ UNCHANGED <<reqVars, openVars, dbVars, archiving, obsVars>>

-----------------------------------------------------------------------------

Step(r) ==
  \/ Check(r) \/ CheckFails(r)
  \/ ApplyReserved(r) \/ GuardFails(r)
  \/ InsertMovement(r) \/ InsertConflicts(r)
  \/ SumLedger(r) \/ SelectLevel(r)
  \/ WriteLevel(r) \/ WriteFails(r)
  \/ Commit(r) \/ Announce(r)
  \/ DeadlockVictim(r)

Administer(x) == ReadReserved(x) \/ Deactivate(x) \/ Reactivate(x)

Next ==
  \/ \E r \in Requests : Begin(r) \/ Step(r) \/ Lost(r) \/ LostAnnouncement(r)
  \/ \E x \in Archivable : Administer(x)

(* Every statement of a started request is eventually executed by the      *)
(* event loop and the database; clients, crashes and administrators owe    *)
(* nothing.                                                                *)
Fairness == \A r \in Requests : WF_vars(Step(r))

Spec     == Init /\ [][Next]_vars
FairSpec == Spec /\ Fairness
-----------------------------------------------------------------------------
(* Properties.                                                             *)

TypeOK ==
  /\ pc \in [Requests -> {"idle", "announce"} \cup Running \cup Ended]
  /\ op \in [Requests -> Operations]
  /\ idx \in [Requests -> Nat]
  /\ \A r \in Requests : idx[r] \in 1..Len(op[r].moves)
  /\ sums \in [Requests -> Totals] /\ seen \in [Requests -> Rows]
  /\ before \in [Requests -> [Levels -> Int]]
  /\ delta \in [Requests -> [Levels -> Totals]]
  /\ mine \in [Requests -> SUBSET Keys] /\ rows \subseteq Keys
  /\ level \in [Levels -> Rows] /\ pend \in [Levels -> Rows]
  /\ lock \in [Levels -> Requests \cup {NoRequest}]
  /\ ledger \in [Levels -> Totals]
  /\ active \subseteq Items /\ archiving \subseteq Items
  /\ alerts \in [Levels -> Nat] /\ crossings \in [Levels -> Nat]
  /\ overlapped \subseteq Requests

(* Rule 1: the materialized stock level is the sum of the ledger, in every *)
(* committed state (recompute_stock_level, repository.py:615).             *)
LevelMatchesLedger ==
  \A l \in Levels : /\ level[l].on_hand = ledger[l].on_hand
                    /\ level[l].reserved = ledger[l].reserved

(* The movements themselves never promise more than they hold: concurrent  *)
(* reservations cannot oversell, concurrent releases cannot free a unit    *)
(* twice. The CHECK constraint guards the level row; this is about the sum *)
(* of the ledger rows, which no constraint sees.                           *)
NeverOversold ==
  \A l \in Levels : /\ 0 <= ledger[l].reserved
                    /\ ledger[l].reserved <= ledger[l].on_hand

(* A request that shared its run with nobody leaves every level it posted  *)
(* to equal to the ledger, whatever earlier requests left there: the       *)
(* absolute rewrite of recompute_stock_level repairs a drifted level.      *)
LoneCommitSettles ==
  \A r \in Requests \ overlapped :
    pc[r] = "commit" =>
      \A n \in 1..Len(op[r].moves) :
        LET l == op[r].moves[n].lvl
        IN  /\ View(r, l).on_hand = ledger[l].on_hand + delta[r][l].on_hand
            /\ View(r, l).reserved = ledger[l].reserved + delta[r][l].reserved

AllAnnounced == \A r \in Requests : pc[r] \in {"idle", "committed", "rejected"}

(* Rule 4: one alert for each time the quantity on hand falls to the       *)
(* reorder point, no more and no fewer (_emit_level_changed).              *)
OneAlertPerCrossing == AllAnnounced => alerts = crossings

(* The same when no two requests ever overlapped.                          *)
LoneAlertsMatch == overlapped = {} => OneAlertPerCrossing

(* Rule 5: nothing stays reserved on an archived product or warehouse,     *)
(* where neither a release nor a fulfilment could reach it any more.       *)
NothingReservedOnArchived ==
  \A l \in Levels : level[l].reserved > 0 => ActiveLevel(l)

(* Every request that started is eventually committed or refused: no lock  *)
(* wait lasts, because a cycle of waits costs one of its members.          *)
EveryRequestEnds ==
  \A r \in Requests : pc[r] \in Running ~> pc[r] \notin Running

(* Callers see the levels as accounts that whole operations move at once.  *)
LevelAccounts ==
  INSTANCE StockAccounts
    WITH account <- [l \in Levels |-> [on_hand |-> level[l].on_hand,
                                       reserved |-> level[l].reserved]],
         posted <- rows
ImplementsCoveredAccounts == LevelAccounts!CoveredSpec

(* Whatever happens to the levels, the ledger itself is such an account.   *)
LedgerAccounts ==
  INSTANCE StockAccounts WITH account <- ledger, posted <- rows
ImplementsLedgerAccounts == LedgerAccounts!LedgerSpec

=============================================================================
