--------------------------- MODULE StockOperations ---------------------------
(***************************************************************************)
(* The mutating methods of InventoryService, each written as the sequence  *)
(* of ledger movements it posts in one transaction                         *)
(* (services/core/src/core/features/inventory/service.py).                 *)
(*                                                                         *)
(* A movement says what the method does before and while it posts one row  *)
(* of erp_stock_movements:                                                 *)
(*   entry    "check" when the method runs checks before this movement,    *)
(*            "insert" when it posts it right after the previous one       *)
(*   replay   the (ref, step, level) probe of _reject_replay runs          *)
(*   active   levels whose product and warehouse must not be archived      *)
(*   nonneg   the service pre-check before + qty >= 0 runs                 *)
(*   guard    the conditional UPDATE of qty_reserved that runs first       *)
(*   column   the stock level column this movement type is summed into     *)
(***************************************************************************)
EXTENDS Integers, Sequences

CONSTANTS Products, Warehouses, Refs

Levels == Products \X Warehouses

Columns == {"on_hand", "reserved"}
Guards  == {"none", "reserve", "release"}
Steps   == {"adjustment", "transfer", "reserve", "release", "issue"}

(* The columns of uq_erp_stock_movements_ref: one row per key, ever.       *)
Keys == [ref : Refs, step : Steps, lvl : Levels]

Movements == [lvl : Levels, column : Columns, qty : Int, step : Steps,
              entry : {"check", "insert"}, replay : BOOLEAN,
              active : SUBSET Levels, nonneg : BOOLEAN, guard : Guards]

OperationType == [ref : Refs, moves : Seq(Movements)]

-----------------------------------------------------------------------------

AdjustStock(ref, lvl, q) ==
  [ref |-> ref,
   moves |-> << [lvl |-> lvl, column |-> "on_hand", qty |-> q,
                 step |-> "adjustment", entry |-> "check", replay |-> TRUE,
                 active |-> {}, nonneg |-> TRUE, guard |-> "none"] >>]

(* Only the source side is probed for a replay and for a negative result.  *)
TransferStock(ref, p, from, to, q) ==
  LET Leg(w, n, entry) ==
        [lvl |-> <<p, w>>, column |-> "on_hand", qty |-> n,
         step |-> "transfer", entry |-> entry, replay |-> TRUE,
         active |-> {<<p, from>>, <<p, to>>}, nonneg |-> TRUE,
         guard |-> "none"]
  IN  [ref |-> ref, moves |-> << Leg(from, -q, "check"), Leg(to, q, "insert") >>]

ReservationMove(lvl, q) ==
  [lvl |-> lvl, column |-> "reserved", qty |-> q, step |-> "reserve",
   entry |-> "check", replay |-> TRUE, active |-> {lvl}, nonneg |-> FALSE,
   guard |-> "reserve"]

(* A release posted on its own is probed first, one posted by a fulfilment *)
(* is not: there the unique key alone stops a replay.                      *)
ReleaseMove(lvl, q, probed) ==
  [lvl |-> lvl, column |-> "reserved", qty |-> -q, step |-> "release",
   entry |-> "check", replay |-> probed, active |-> {lvl}, nonneg |-> FALSE,
   guard |-> "release"]

IssueMove(lvl, q) ==
  [lvl |-> lvl, column |-> "on_hand", qty |-> -q, step |-> "issue",
   entry |-> "insert", replay |-> FALSE, active |-> {lvl}, nonneg |-> FALSE,
   guard |-> "none"]

(* The whole-order methods post the movements of every line, in line       *)
(* order, and commit once. A line is [product, qty]; a one-line order is   *)
(* also what reserve_stock, release_reservation and fulfil_order do.       *)
ReserveOrder(ref, w, lines) ==
  [ref |-> ref,
   moves |-> [n \in 1..Len(lines) |->
                ReservationMove(<<lines[n].product, w>>, lines[n].qty)]]

ReleaseOrder(ref, w, lines) ==
  [ref |-> ref,
   moves |-> [n \in 1..Len(lines) |->
                ReleaseMove(<<lines[n].product, w>>, lines[n].qty, TRUE)]]

FulfilOrderLines(ref, w, lines) ==
  LET line(n) == lines[(n + 1) \div 2]
      lvl(n)  == <<line(n).product, w>>
  IN  [ref |-> ref,
       moves |-> [n \in 1..(2 * Len(lines)) |->
                    IF n % 2 = 1 THEN ReleaseMove(lvl(n), line(n).qty, FALSE)
                                 ELSE IssueMove(lvl(n), line(n).qty)]]

=============================================================================
