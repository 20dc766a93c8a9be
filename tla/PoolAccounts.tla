---------------------------- MODULE PoolAccounts ----------------------------
(***************************************************************************)
(* What the capital pool promises the cycles that share it, with no stock, *)
(* quota record, transaction or daily counter in sight: money is free, set *)
(* aside until a day, in flight with an order it was taken for, in a       *)
(* standing order, or paid in commission, and it moves between these       *)
(* accounts in the ways below only.  What was set aside until a day is     *)
(* used by that day or is free again, and an order that is undone gives    *)
(* all its money back to the account that paid for it.                     *)
(***************************************************************************)
EXTENDS Integers, Totals

CONSTANTS LastDay, Capital

VARIABLES
  free,
  aside,    \* day -> money set aside until then
  flight,   \* taken from what was set aside, for an order that is on its way
  placed,   \* in standing orders, from free money
  drawn,    \* in standing orders, from money in flight
  paid

accounts == <<free, aside, flight, placed, drawn, paid>>

Until == 1 .. LastDay

TypeOK ==
  /\ free \in Nat /\ flight \in Nat /\ placed \in Nat /\ drawn \in Nat /\ paid \in Nat
  /\ aside \in [Until -> Nat]

Init ==
  /\ free = Capital /\ aside = [e \in Until |-> 0]
  /\ flight = 0 /\ placed = 0 /\ drawn = 0 /\ paid = 0

\* On a day, what was set aside until an earlier one is free again.
FreeOn(today) == free + Total([e \in Until |-> IF e < today THEN aside[e] ELSE 0])
AsideOn(today) == [e \in Until |-> IF e < today THEN 0 ELSE aside[e]]

SetAside(e) ==
  /\ free' <= free
  /\ aside' = [aside EXCEPT ![e] = @ + (free - free')]
  /\ UNCHANGED <<flight, placed, drawn, paid>>

\* What has lapsed is free; of the rest some is taken, perhaps nothing.
Take(today) ==
  /\ free' = FreeOn(today)
  /\ \A e \in Until : aside'[e] <= AsideOn(today)[e]
  /\ flight' = flight + (Total(AsideOn(today)) - Total(aside'))
  /\ UNCHANGED <<placed, drawn, paid>>

\* An order that was not placed: what was taken for it is aside again.
GiveBack ==
  /\ \A e \in Until : aside'[e] >= aside[e]
  /\ flight' = flight - (Total(aside') - Total(aside))
  /\ UNCHANGED <<free, placed, drawn, paid>>

Place ==
  /\ free' <= free /\ placed' = placed + (free - free')
  /\ UNCHANGED <<aside, flight, drawn, paid>>

Draw ==
  /\ flight' <= flight /\ drawn' = drawn + (flight - flight')
  /\ UNCHANGED <<free, aside, placed, paid>>

UndoPlaced ==
  /\ free' >= free /\ placed' = placed - (free' - free)
  /\ UNCHANGED <<aside, flight, drawn, paid>>

UndoDrawn ==
  /\ flight' >= flight /\ drawn' = drawn - (flight' - flight)
  /\ UNCHANGED <<free, aside, placed, paid>>

\* The proceeds of a sale.
Earn(today) ==
  /\ free' >= FreeOn(today) /\ aside' = AsideOn(today)
  /\ UNCHANGED <<flight, placed, drawn, paid>>

Pay ==
  /\ free' <= free /\ paid' = paid + (free - free')
  /\ UNCHANGED <<aside, flight, placed, drawn>>

\* A new sequence begins with the capital.
Restart ==
  /\ free' = Capital /\ aside' = [e \in Until |-> 0]
  /\ flight' = 0 /\ placed' = 0 /\ drawn' = 0 /\ paid' = 0

\* No account is ever overdrawn.
Next ==
  /\ \/ \E day \in Until : SetAside(day) \/ Take(day) \/ Earn(day)
     \/ GiveBack \/ Place \/ Draw \/ UndoPlaced \/ UndoDrawn \/ Pay \/ Restart
  /\ TypeOK'

Spec == Init /\ [][Next]_accounts
=============================================================================
