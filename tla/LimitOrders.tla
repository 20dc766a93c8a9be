----------------------------- MODULE LimitOrders -----------------------------
(***************************************************************************)
(* What a replay promises the owner of the account, with no reservations,  *)
(* lots, buckets or schedule in sight: an order is accepted or rejected    *)
(* once, every fill settles shares against cash in the same step at a      *)
(* price no worse than the order's limit, fees are only ever charged, and  *)
(* neither cash nor holdings are ever overdrawn.                           *)
(***************************************************************************)
EXTENDS Integers

CONSTANTS OrderIds, Symbols, Prices

VARIABLES
  book,    \* order id -> [symbol, side, limit, qty], given at the start
  status,  \* order id -> where it is in its lifecycle
  left,    \* order id -> shares not traded yet
  cash,
  held     \* symbol -> shares

view == <<book, status, left, cash, held>>

Working == {"Accepted", "PartiallyFilled"}

Init ==
  /\ status = [o \in DOMAIN book |-> "New"]
  /\ left = [o \in DOMAIN book |-> book[o].qty]
  /\ cash \in Nat
  /\ held \in [Symbols -> Nat]

\* An order becomes a working one, or never does.
Decide(o) ==
  /\ status[o] = "New"
  /\ \E answer \in {"Accepted", "Rejected"} : status' = [status EXCEPT ![o] = answer]
  /\ UNCHANGED <<book, left, cash, held>>

Settle(o, qty, price) ==
  LET order == book[o]
  IN  IF order.side = "BUY"
      THEN /\ price <= order.limit
           /\ held' = [held EXCEPT ![order.symbol] = @ + qty]
           /\ cash' <= cash - price * qty
      ELSE /\ price >= order.limit
           /\ held' = [held EXCEPT ![order.symbol] = @ - qty]
           /\ cash' <= cash + price * qty

\* Nothing is overdrawn by a fill.
Fill(o, qty, price) ==
  /\ status[o] \in Working
  /\ left' = [left EXCEPT ![o] = @ - qty]
  /\ status' = [status EXCEPT ![o] = IF left'[o] = 0 THEN "Filled" ELSE "PartiallyFilled"]
  /\ Settle(o, qty, price)
  /\ cash' >= 0 /\ held'[book[o].symbol] >= 0
  /\ UNCHANGED book

\* What is left of a working order is given up.
GiveUp(o) ==
  /\ status[o] \in Working
  /\ \E end \in {"Cancelled", "Expired"} : status' = [status EXCEPT ![o] = end]
  /\ UNCHANGED <<book, left, cash, held>>

Next ==
  \E o \in DOMAIN book :
    \/ Decide(o)
    \/ \E qty \in 1 .. left[o], price \in Prices : Fill(o, qty, price)
    \/ GiveUp(o)

Spec == Init /\ [][Next]_view
=============================================================================
