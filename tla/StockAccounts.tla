---------------------------- MODULE StockAccounts ----------------------------
(***************************************************************************)
(* What the inventory ledger promises its callers: every stock level is an *)
(* account, an operation moves all the accounts it names in one step or    *)
(* none at all, and no movement key is ever posted twice.                  *)
(***************************************************************************)
EXTENDS StockOperations, Functions

CONSTANTS Operations, InitialStock

VARIABLES account,   \* [on_hand, reserved] of each level
          posted     \* movement keys posted so far

accountVars == <<account, posted>>

Init ==
  /\ account = [l \in Levels |-> [on_hand |-> InitialStock[l], reserved |-> 0]]
  /\ posted = {}

MovesOn(o, l, column) ==
  {n \in 1..Len(o.moves) : o.moves[n].lvl = l /\ o.moves[n].column = column}

Quantities(o) == [n \in 1..Len(o.moves) |-> o.moves[n].qty]

Effect(o, l, column) == SumFunctionOnSet(Quantities(o), MovesOn(o, l, column))

KeysOf(o) ==
  {[ref |-> o.ref, step |-> o.moves[n].step, lvl |-> o.moves[n].lvl] :
     n \in 1..Len(o.moves)}

Post(o) ==
  /\ KeysOf(o) \cap posted = {}
  /\ posted' = posted \cup KeysOf(o)
  /\ account' = [l \in Levels |->
                   [on_hand  |-> account[l].on_hand + Effect(o, l, "on_hand"),
                    reserved |-> account[l].reserved + Effect(o, l, "reserved")]]

Covered ==
  \A l \in Levels : 0 <= account[l].reserved /\ account[l].reserved <= account[l].on_hand

(* The ledger alone: atomic operations, unique keys.                       *)
LedgerSpec == Init /\ [][\E o \in Operations : Post(o)]_accountVars

(* The ledger together with the stock levels: moreover nothing is oversold. *)
CoveredSpec == Init /\ [][\E o \in Operations : Post(o) /\ Covered']_accountVars
=============================================================================
