------------------------------ MODULE MCBroker ------------------------------
(***************************************************************************)
(* Small replays of one symbol traded in lots of two.  Three dates of ten  *)
(* instants: date 0 has passed, buckets 1 and 2 are the last before and    *)
(* the first after lunch on date 1, bucket 3 is on the last date.  The     *)
(* instant between a bucket's start and end is one during which it trades. *)
(* The first order is a purchase that takes most of the cash or all of it; *)
(* the second one competes with it for a bucket or for cash, or sells.     *)
(***************************************************************************)
EXTENDS Broker, TLC

MCSessions == 1 :> [start |-> 12, end |-> 14] @@ 2 :> [start |-> 16, end |-> 18]
                @@ 3 :> [start |-> 22, end |-> 24]

\* A floor of seven cents exceeds what one lot sells for.
MCParams == [num |-> 1, den |-> 2, min_fee |-> 1, rounding |-> "HALF_UP"]
MCModel == [BUY |-> MCParams, SELL |-> [MCParams EXCEPT !.min_fee = 7]]

MCFacts == [k \in {7} \X {0, 1, 2} |-> [lot_size |-> 2, limit_down |-> 1, limit_up |-> 4]]

MCFillIdOf == [k \in {1, 2} \X {1, 2, 3} |-> 10 * k[1] + k[2]]
MCFillIds == {10 * o + b : o \in {1, 2}, b \in {1, 2, 3}}

MCLot(acquired) ==
  [symbol |-> 7, acquire_date |-> acquired, sellable_date |-> acquired + 1, qty |-> 2,
   lot_size |-> 2, reserved_qty |-> 0]

\* No holding, or a lot that may be sold on date 1 and one that may not yet.
MCLots == {[l \in {} |-> MCLot(0)], [l \in {5, 6} |-> IF l = 5 THEN MCLot(0) ELSE MCLot(1)]}

Traded(close, volume) ==
  [missing |-> FALSE, halted |-> FALSE, close |-> close, volume |-> volume]

MCQuotes ==
  {[missing |-> TRUE, halted |-> FALSE, close |-> 0, volume |-> 0],
   [missing |-> FALSE, halted |-> TRUE, close |-> 2, volume |-> 8],
   Traded(2, 7), Traded(2, 15), Traded(3, 11), Traded(4, 14)}

\* The second mark prices nothing, so a holding at that instant ends the run.
MCMarks == [i \in {1, 2} |-> IF i = 1 THEN [time |-> 18, priced |-> {7}]
                                        ELSE [time |-> 24, priced |-> {}]]

Order(o, side, qty, limit, at, effective, expires) ==
  [order_id |-> o, symbol |-> 7, side |-> side, qty |-> qty, limit |-> limit,
   submitted_at |-> at, effective_at |-> effective, expires_at |-> expires, sequence |-> 0]

\* Submitted before bucket 1 or as it begins; expiring between the buckets, at
\* the end of bucket 2, or after the run.
FirstOrders ==
  {Order(1, "BUY", qty, 2, at, at, expires) : qty \in {4, 6}, at \in {11, 12}, expires \in {15, 18, 30}}

\* Submitted before everything, as bucket 1 ends, or on the last date; expiring
\* with the run or after it.  A purchase takes effect at the start of bucket 2.
SecondOrders ==
  {Order(2, side, qty, IF side = "BUY" \/ qty = 2 THEN 2 ELSE 3, life[1],
         IF side = "BUY" /\ life[1] < 16 THEN 16 ELSE life[1], life[2]) :
     side \in Sides, qty \in {2, 4}, life \in {<<11, 25>>, <<14, 25>>, <<14, 30>>, <<21, 25>>}}

\* A cancel between buckets 1 and 2, and one at the instant bucket 2 ends.
Cancels == {[order_id |-> 1, submitted_at |-> 12, effective_at |-> t, sequence |-> 0] : t \in {15, 18}}

MCInputs ==
  {[submits |-> [o \in {1, 2} |-> IF o = 1 THEN c ELSE d], cancels |-> x] :
     c \in FirstOrders, d \in SecondOrders, x \in {{}} \cup {{k} : k \in Cancels}}

\* For the run that checks liveness: the first order asks for all the cash.
MCFewInputs ==
  {r \in MCInputs : /\ r.submits[1].qty = 6 /\ r.submits[1].submitted_at = 11
                   /\ r.submits[2].qty = 4}
=============================================================================
