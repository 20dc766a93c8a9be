----------------------------- MODULE MinuteDay -----------------------------
(***************************************************************************)
(* The chronological minute day: minute_cash_order.run_chronological_day   *)
(* over the held cursors of minute_held_scan_core.py, the completed-volume *)
(* cap of ashare_volume_cap.py, the tail window of tail_window_buy.py and  *)
(* the chase and pool passes of csv_simulate_loop.py, for the books whose  *)
(* exits are per lot and whose day splits a quota.                         *)
(*                                                                         *)
(* The day is a sequence of minutes; in each the held lots see the open,   *)
(* the tail parents are opened, the held lots see the close, and then the  *)
(* buyers run.  All of them share the cash and the volume of a minute.     *)
(*                                                                         *)
(* Quantities are board lots of one price; money is a natural number.  A   *)
(* bar is reduced to the limits it meets, and the rules that decide on its *)
(* prices, the gates included, are choices.  The lots of a phase and the   *)
(* chases of a day are visited in any order, which includes the code's.    *)
(***************************************************************************)
EXTENDS Integers, Sequences, FiniteSets, Totals

CONSTANTS
  Codes, LastDay,
  PoolDays,        \* pool_days: day -> the list of that day
  LastMinute,      \* minutes are 1 .. LastMinute
  ChaseMinute,     \* CHASE_HM
  BuyMinute,       \* BUY_HM
  BuyFrom,         \* the first minute a late buy may fall back to
  TailMinutes,     \* TAIL_MINUTES; {} when the tail window is off
  TailCap,         \* lots of a minute a child may take
  NextOpen,        \* fill_timing = "next_bar_open"
  Capped,          \* st.volume_cap is set
  BarBudget,       \* lots of a minute the cap allows
  AllowAdd, LimitUpChase,
  TotalCash, DailyQuota,
  LotCost,         \* notional of a lot
  OrderFee,        \* commission of an order
  Frames           \* the minute frames a code may have on a day

Days == 1 .. LastDay
Minutes == 1 .. LastMinute

Bar == [row : BOOLEAN, openDown : BOOLEAN, closeDown : BOOLEAN, closeUp : BOOLEAN]

NoRow == [row |-> FALSE, openDown |-> FALSE, closeDown |-> FALSE, closeUp |-> FALSE]

TailOn == TailMinutes # {}
TailStart == CHOOSE m \in TailMinutes : \A n \in TailMinutes : m <= n

\* The chases are over when the tail window opens, and the list is bought in it.
ValidDay ==
  /\ LastDay \in Nat \ {0} /\ LastMinute \in Nat \ {0}
  /\ PoolDays \in [Days -> Seq(Codes)]
  /\ {ChaseMinute, BuyMinute, BuyFrom} \subseteq Minutes
  /\ TailMinutes \subseteq Minutes
  /\ TailOn => ChaseMinute < TailStart /\ TailStart <= BuyMinute
  /\ {TailCap, BarBudget, TotalCash, DailyQuota, OrderFee} \subseteq Nat
  /\ LotCost \in Nat /\ LotCost > OrderFee
  /\ {NextOpen, Capped, AllowAdd, LimitUpChase} \subseteq BOOLEAN
  /\ Frames \subseteq [Minutes -> Bar]

ASSUME DayAssumption == ValidDay

VARIABLES
  day, minute, phase,
  frames,      \* the day's frame of every code
  todo,        \* lots or chases the running pass has still to visit
  listed,      \* codes of the list it has still to visit
  cash,        \* st.cash
  lots,        \* st.positions: lot -> the board lots it holds
  cursors,     \* the lots that have a HeldMinuteCursor today
  tried,       \* those whose cursor has first_exit_attempted
  queue,       \* held_fill_states: lot -> the bar that queued its exit
  used,        \* VolumeCap.used of the day's buckets
  chases,      \* pending_chase: code -> budget and signal day
  per,         \* the pool pass's budget for a name
  tails,       \* tail_orders: code -> parent
  tailCodes,   \* tail_codes
  settled,     \* tail_settled_debits
  sold,        \* history: the fills of the held scans of the day
  kept,        \* history: the codes held ever since the tail window opened
  unsliced     \* history: the cash the day would have without tail fills

vars == <<day, minute, phase, frames, todo, listed, cash, lots, cursors, tried,
          queue, used, chases, per, tails, tailCodes, settled, sold, kept, unsliced>>

clock == <<day, minute, frames>>
account == <<cash, lots, used, unsliced>>
scan == <<cursors, tried, queue, sold, kept>>
buyers == <<chases, per, tails, tailCodes, settled>>

\* A lot is named by its code, the day and the pass that bought it: each pass
\* of a day buys a code once.
Lot == Codes \X Days \X {"chase", "pool", "tail"}

Code(t) == t[1]

Held(c) == \E t \in DOMAIN lots : Code(t) = c

Listed == {PoolDays[day][n] : n \in DOMAIN PoolDays[day]}

BarOf(c, m) == frames[c][m]
HasFrame(c) == \E m \in Minutes : BarOf(c, m).row

Init ==
  /\ day = 1 /\ minute = 1 /\ phase = "begin"
  /\ frames = [c \in Codes |-> [m \in Minutes |-> NoRow]]
  /\ todo = {} /\ listed = <<>>
  /\ cash = TotalCash /\ unsliced = TotalCash
  /\ lots = Empty /\ cursors = {} /\ tried = {} /\ queue = Empty
  /\ sold = {} /\ kept = {}
  /\ used = [k \in Codes \X Minutes |-> 0]
  /\ chases = Empty /\ per = 0 /\ tails = Empty /\ tailCodes = {} /\ settled = 0

(***************************************************************************)
(* The completed-volume cap                                                *)
(***************************************************************************)

\* Mutant of Clamp: every order has the bar's whole budget.
ClampsToBudget(c, bucket, at, wanted) ==
  IF ~Capped THEN wanted ELSE IF at < bucket THEN 0 ELSE Smaller(wanted, BarBudget)

\* VolumeCap.clamp: what is left of the bucket, once it is complete.
Clamp(c, bucket, at, wanted) ==
  IF ~Capped THEN wanted
  ELSE IF at < bucket THEN 0
  ELSE Smaller(wanted, BarBudget - used[<<c, bucket>>])

Consume(c, bucket, shares) ==
  used' = IF Capped THEN [used EXCEPT ![<<c, bucket>>] = @ + shares] ELSE used

Notional(shares) == shares * LotCost
Debit(shares) == Notional(shares) + OrderFee

(***************************************************************************)
(* Exits                                                                   *)
(***************************************************************************)

\* volume_kwargs["at"]: an opening order only knows the minute before.
QuoteMinute == IF phase = "open" THEN minute - 1 ELSE minute

Filled(t) == Clamp(Code(t), minute, QuoteMinute, lots[t])

\* _sell of the lot t at the running minute.
Sell(t) ==
  IF Filled(t) = 0 THEN UNCHANGED <<account, sold>>
  ELSE /\ lots' = IF Filled(t) = lots[t] THEN Without(lots, t)
                  ELSE [lots EXCEPT ![t] = @ - Filled(t)]
       /\ cash' = cash + Notional(Filled(t)) - OrderFee
       /\ unsliced' = unsliced + Notional(Filled(t)) - OrderFee
       /\ Consume(Code(t), minute, Filled(t))
       /\ sold' = sold \cup {[lot |-> t, minute |-> minute, phase |-> phase]}

\* _price_exit: a price decision waits for the next bar.
Queues == NextOpen

\* The first candidate ends the lot's scan of the day, filled or not.
Ended(t) == tried \cup {t}

\* Mutant of Postponed: an order the lower limit blocks is withdrawn.
Withdrawn(t) == Without(queue, t)

\* A bar that opens at its lower limit leaves a queued exit where it is.
Postponed(t) == queue

PriceExit(t) ==
  IF Queues
  THEN queue' = Put(queue, t, <<day, minute>>) /\ UNCHANGED <<account, sold, tried>>
  ELSE Sell(t) /\ tried' = Ended(t) /\ UNCHANGED queue

Idle == UNCHANGED <<account, sold, tried, queue>>

\* HeldMinuteCursor.advance at the open; the cursor takes a queued exit off
\* its state before the order meets the cap.
AtOpen(t) ==
  IF BarOf(Code(t), minute).openDown
  THEN queue' = Postponed(t) /\ UNCHANGED <<account, sold, tried>>
  ELSE IF t \in DOMAIN queue
  THEN Sell(t) /\ tried' = Ended(t) /\ queue' = Without(queue, t)
  ELSE Idle \/ PriceExit(t)

\* HeldMinuteCursor._close: a price decision, which may have to wait for an
\* open, or a gate, a reserved board or a timed clearing that goes out now.  A
\* close at the lower limit defers what goes out, after it has ended the scan.
AtClose(t) ==
  LET bar == BarOf(Code(t), minute)
      Deferred == tried' = Ended(t) /\ UNCHANGED <<account, sold, queue>>
      ExitsNow == IF bar.closeDown THEN Deferred
                  ELSE Sell(t) /\ tried' = Ended(t) /\ UNCHANGED queue
  IN IF bar.openDown \/ t \in DOMAIN queue THEN Idle
     ELSE Idle \/ ExitsNow \/ (Queues /\ PriceExit(t))

HeldScan ==
  /\ phase \in {"open", "close"} /\ todo # {}
  /\ \E t \in todo :
       /\ todo' = todo \ {t}
       /\ IF t \in tried \/ ~BarOf(Code(t), minute).row THEN Idle
          ELSE IF phase = "open" THEN AtOpen(t) ELSE AtClose(t)
  /\ kept' = {c \in kept : Held(c)'}
  /\ UNCHANGED <<clock, phase, listed, cursors, buyers>>

(***************************************************************************)
(* Purchases                                                               *)
(***************************************************************************)

\* check_buy_cash, before the cap reduces the order.
Affords(shares) == Debit(shares) <= cash

Fillable(c, bucket, wanted) ==
  wanted > 0 /\ Affords(wanted) /\ Clamp(c, bucket, bucket, wanted) > 0

\* What execute_buy assigns when it fills, into the lot t.
Fill(t, bucket, wanted) ==
  \E filled \in {Clamp(Code(t), bucket, bucket, wanted)} :
    /\ cash' = cash - Debit(filled)
    /\ unsliced' = IF t[3] = "tail" THEN unsliced
                   ELSE unsliced - Debit(filled)
    /\ lots' = Put(lots, t, filled + (IF t \in DOMAIN lots THEN lots[t] ELSE 0))
    /\ Consume(Code(t), bucket, filled)

\* execute_buy within a budget: whole lots, or one when the budget is short
\* of it.
Order(t, bucket, budget) ==
  LET wanted == IF budget = 0 THEN 0
                ELSE IF budget < LotCost THEN 1 ELSE budget \div LotCost
  IN IF Fillable(Code(t), bucket, wanted) THEN Fill(t, bucket, wanted)
     ELSE UNCHANGED account

\* bucket_for: the exact row, or the last one since the earliest; 0 if none.
Bucket(c, target, earliest) ==
  LET rows == {m \in earliest .. target : BarOf(c, m).row} IN
  IF rows = {} THEN 0 ELSE CHOOSE m \in rows : \A n \in rows : n <= m

\* run_chase_due_day: a chase without a quote waits, unless the index shuts new
\* names out; every other is judged once, and what the rules refuse, or the
\* book may not add to, is dropped.
ChaseDue ==
  /\ phase = "chase" /\ todo # {}
  /\ \E c \in todo : \E bucket \in {Bucket(c, ChaseMinute, 1)} :
       /\ todo' = todo \ {c}
       /\ \/ bucket = 0 /\ (Held(c) => AllowAdd) /\ UNCHANGED <<chases, account>>
          \/ chases' = Without(chases, c) /\ UNCHANGED account
          \/ /\ bucket # 0 /\ (Held(c) => AllowAdd) /\ ~BarOf(c, bucket).closeUp
             /\ chases' = Without(chases, c)
             /\ Order(<<c, day, "chase">>, bucket, chases[c].per)
  /\ UNCHANGED <<clock, phase, listed, scan, per, tails, tailCodes, settled>>

(***************************************************************************)
(* The tail window                                                         *)
(***************************************************************************)

\* TailParent.from_budget.
Parent(budget) ==
  LET target == budget \div LotCost IN
  [target |-> target, slice |-> target \div Cardinality(TailMinutes), filled |-> 0]

Share(basis) == Smaller(DailyQuota, basis) \div Len(PoolDays[day])

\* start_tail_parents: a name that is not held takes its slot of the list even
\* when no parent is opened for it.
StartParents ==
  /\ phase = "parents"
  /\ tailCodes' = {c \in Listed : ~Held(c)} /\ kept' = {c \in Codes : Held(c)}
  /\ \E opened \in SUBSET {c \in Listed : ~Held(c) /\ BarOf(c, minute).row} :
       tails' = [c \in opened |-> Parent(Share(cash))]
  /\ phase' = "close" /\ todo' = cursors \cap DOMAIN lots
  /\ UNCHANGED <<clock, listed, account, cursors, tried, queue, sold, chases, per, settled>>

\* TailParent.allocation: the child that the cash at hand pays for.
Child(p) ==
  LET wanted == Smaller(Smaller(p.slice, TailCap), p.target - p.filled)
      payable == {n \in 1 .. wanted : Affords(n)}
  IN Cardinality(payable)

\* Mutant of Booked: the parent counts what the child asked for.
BooksRequest(c) == Child(tails[c])

\* parent.book takes the shares of the trade, after the cap.
Booked(c) == Clamp(c, minute, minute, Child(tails[c]))

\* tail_settled_debits: the trade's notional and its fees.
Settled(shares) == Debit(shares)

\* fill_tail_slice of the code c: a child without a quote, at the upper limit
\* or refused is not made up for later; its quote may fail for its volume.
FillSlice(c) ==
  \/ UNCHANGED <<account, tails, settled>>
  \/ /\ c \in DOMAIN tails /\ BarOf(c, minute).row /\ ~BarOf(c, minute).closeUp
     /\ Fillable(c, minute, Child(tails[c]))
     /\ Fill(<<c, day, "tail">>, minute, Child(tails[c]))
     /\ tails' = [tails EXCEPT ![c].filled = @ + Booked(c)]
     /\ settled' = settled + Settled(Clamp(c, minute, minute, Child(tails[c])))

TailSlice ==
  /\ phase = "slices" /\ listed # <<>>
  /\ FillSlice(Head(listed))
  /\ listed' = Tail(listed)
  /\ UNCHANGED <<clock, phase, todo, scan, chases, per, tailCodes>>

(***************************************************************************)
(* The day's list                                                          *)
(***************************************************************************)

\* Mutant of Consumed: only the names of the tail window are looked up, so one
\* cleared since is the list's to open.
ForgetsCleared(c) == TailOn /\ c \in tailCodes

\* handle_tail_code: names of the tail window, and names cleared since it was
\* opened, are not bought from the list.
Consumed(c) == TailOn /\ (c \in tailCodes \/ ~Held(c))

\* run_pool_buys_day for a name that is still the list's to buy.
Listing(c) ==
  LET bucket == Bucket(c, BuyMinute, BuyFrom) IN
  \/ UNCHANGED <<account, chases>>
  \/ /\ Held(c) => AllowAdd
     /\ bucket # 0
     /\ IF BarOf(c, bucket).closeUp
        THEN /\ LimitUpChase
             /\ chases' = Put(chases, c, [per |-> per, sig |-> day])
             /\ UNCHANGED account
        ELSE Order(<<c, day, "pool">>, bucket, per) /\ UNCHANGED chases

PoolBuy ==
  /\ phase = "pool" /\ listed # <<>>
  /\ IF Consumed(Head(listed))
     THEN /\ IF Head(listed) \in tailCodes /\ BuyMinute \in TailMinutes
             THEN FillSlice(Head(listed))
             ELSE UNCHANGED <<account, tails, settled>>
          /\ UNCHANGED chases
     ELSE Listing(Head(listed)) /\ UNCHANGED <<tails, settled>>
  /\ listed' = Tail(listed)
  /\ UNCHANGED <<clock, phase, todo, scan, per, tailCodes>>

(***************************************************************************)
(* The clock of the day                                                    *)
(***************************************************************************)

\* The frames of the day are cut, its buckets are new, and the lots on the
\* book, which were all bought on an earlier day, get their cursors.
BeginDay ==
  /\ phase = "begin" /\ minute = 1
  /\ frames' \in [Codes -> Frames]
  /\ cursors' = {t \in DOMAIN lots : \E m \in Minutes : frames'[Code(t)][m].row}
  /\ todo' = cursors' /\ phase' = "open"
  /\ tried' = {} /\ sold' = {} /\ kept' = {}
  /\ used' = [k \in Codes \X Minutes |-> 0]
  /\ tails' = Empty /\ tailCodes' = {} /\ settled' = 0 /\ unsliced' = cash
  /\ UNCHANGED <<day, minute, listed, cash, lots, queue, chases, per>>

\* Opens first; the parents are opened between them and the closes.
EndOpens ==
  /\ phase = "open" /\ todo = {}
  /\ IF TailOn /\ minute = TailStart /\ PoolDays[day] # <<>>
     THEN phase' = "parents" /\ UNCHANGED todo
     ELSE phase' = "close" /\ todo' = cursors \cap DOMAIN lots
  /\ UNCHANGED <<clock, listed, account, scan, buyers>>

EndCloses ==
  /\ phase = "close" /\ todo = {}
  /\ phase' = "slices"
  /\ listed' = IF minute \in TailMinutes \ {BuyMinute} THEN PoolDays[day] ELSE <<>>
  /\ UNCHANGED <<clock, todo, account, scan, buyers>>

EndSlices ==
  /\ phase = "slices" /\ listed = <<>>
  /\ phase' = "chase"
  /\ todo' = IF minute = ChaseMinute THEN {c \in DOMAIN chases : chases[c].sig < day}
             ELSE {}
  /\ UNCHANGED <<clock, listed, account, scan, buyers>>

\* The list is split over the cash the day would have without the slices.
EndChases ==
  /\ phase = "chase" /\ todo = {}
  /\ phase' = "pool"
  /\ IF minute = BuyMinute /\ PoolDays[day] # <<>>
     THEN listed' = PoolDays[day] /\ per' = Share(cash + settled)
     ELSE UNCHANGED <<listed, per>>
  /\ UNCHANGED <<clock, todo, account, scan, chases, tails, tailCodes, settled>>

NextMinute ==
  /\ phase = "pool" /\ listed = <<>> /\ minute < LastMinute
  /\ minute' = minute + 1 /\ phase' = "open"
  /\ todo' = cursors \cap DOMAIN lots
  /\ UNCHANGED <<day, frames, listed, account, scan, buyers>>

EndDay ==
  /\ phase = "pool" /\ listed = <<>> /\ minute = LastMinute /\ day < LastDay
  /\ day' = day + 1 /\ minute' = 1 /\ phase' = "begin" /\ per' = 0
  /\ frames' = [c \in Codes |-> [m \in Minutes |-> NoRow]]
  /\ UNCHANGED <<todo, listed, account, scan, chases, tails, tailCodes, settled>>

Next ==
  \/ BeginDay \/ HeldScan \/ EndOpens \/ StartParents \/ EndCloses \/ TailSlice
  \/ EndSlices \/ ChaseDue \/ EndChases \/ PoolBuy \/ NextMinute \/ EndDay

Spec == Init /\ [][Next]_vars

(***************************************************************************)
(* Properties                                                              *)
(***************************************************************************)

\* Types; whatever was ordered in a minute, the account is never overdrawn.
MinuteTypeOK ==
  /\ day \in Days /\ minute \in Minutes
  /\ phase \in {"begin", "open", "parents", "close", "slices", "chase", "pool"}
  /\ cash \in Nat /\ per \in Nat /\ settled \in Nat
  /\ DOMAIN lots \subseteq Lot /\ \A t \in DOMAIN lots : lots[t] \in Nat \ {0}
  /\ DOMAIN queue \subseteq Lot /\ tried \subseteq cursors

\* Sales and purchases of a bar, the purchases that fall back to it included,
\* share its budget.
VolumeBudgetHolds == \A k \in Codes \X Minutes : used[k] <= BarBudget

\* "Open triggers cannot use that bar's completed capacity."
OpensTakeNoVolume == Capped => \A s \in sold : s.phase = "close"

\* The volume of a bar is a budget all its orders share, and nothing that trades
\* at its open has a claim to it.
VolumeIsShared == VolumeBudgetHolds /\ OpensTakeNoVolume

\* A lot leaves the market at most once a day, even when the cap left a part of
\* it behind.
OneExitADay == \A r, s \in sold : r.lot = s.lot => r = s

Earlier(bar) == bar[1] < day \/ (bar[1] = day /\ bar[2] < minute)

SoldWhatWasQueued ==
  NextOpen /\ phase = "open" =>
    \A s \in sold' \ sold : s.lot \in DOMAIN queue /\ Earlier(queue[s.lot])

Visited(t) ==
  /\ phase = "open" /\ t \in todo \ todo' /\ t \notin tried
  /\ BarOf(Code(t), minute).row /\ ~BarOf(Code(t), minute).openDown

QueueWaitsForAnOpen ==
  \A t \in DOMAIN queue :
    IF Visited(t) THEN t \notin DOMAIN lots'
    ELSE t \in DOMAIN queue' /\ queue'[t] = queue[t]

\* "next_bar_open always fills at the next available eligible open": a queued
\* exit waits for the first bar that opens above its lower limit, over nights
\* and missing bars, and its whole lot leaves there.
QueuedExitsLeave == [][QueueWaitsForAnOpen]_vars

\* With the fills at the next open, what an opening sells was decided on an
\* earlier bar, and it is sold at the first open that lets it.
QueuedExitsFill == [][SoldWhatWasQueued /\ QueueWaitsForAnOpen]_vars

\* A parent knows what its children bought: the lot they were merged into.
ParentMatchesLot ==
  phase # "begin" =>
    \A c \in DOMAIN tails :
      LET t == <<c, day, "tail">> IN
      /\ tails[c].filled = (IF t \in DOMAIN lots THEN lots[t] ELSE 0)
      /\ tails[c].filled <= tails[c].target

\* The list is split as if nothing had been sliced: the children's debits are
\* put back to the last unit, and only theirs.
PoolBasisIgnoresSlices == phase # "begin" => cash + settled = unsliced

\* The children of the tail window are accounted for twice, by parent and by lot
\* and by settled debit and by cash, and both accounts agree.
SlicesAgree == ParentMatchesLot /\ PoolBasisIgnoresSlices

\* With the tail window on, the list only adds to a name that was held when the
\* window opened and ever since: one the window took is not bought from the list
\* as well, and one that was cleared after it opened is not bought late.
OneOpeningPerName ==
  TailOn => \A t \in DOMAIN lots :
              t[2] = day /\ t[3] = "pool" => Code(t) \in kept \ tailCodes

\* In one day a lot is sold in one order and a name opened by one pass, though
\* every minute asks again.
NamesTradeOnce == OneExitADay /\ OneOpeningPerName
=============================================================================
