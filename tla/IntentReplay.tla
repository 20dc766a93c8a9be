---------------------------- MODULE IntentReplay ----------------------------
(***************************************************************************)
(* The joint-return replay, joint_return_replay._Replay: dated intents are *)
(* carried over a minute timeline under one of two fill rules, M-REF at a  *)
(* reference price and M-LAG at the open within the minute's capacity.     *)
(* Each point of the timeline first closes the minute before, converts the *)
(* quantities a corporate action changes, expires and activates orders;    *)
(* an opportunity then opens the minute and attempts the eligible orders.  *)
(*                                                                         *)
(* A time is day * DayLength + minute.  Shares are natural numbers, money  *)
(* is in Unit parts of a price point so that fees are natural numbers, and *)
(* a mark is the site it was read at, not its price.                       *)
(***************************************************************************)
EXTENDS Integers, Sequences, FiniteSets, FiniteSetsExt, Totals

CONSTANTS
  Instruments, LastDay, DayLength,
  Minutes,      \* day -> minutes of its session
  Books,        \* initial lots and intents a run may be given
  Modes,        \* subset of {"M-REF", "M-LAG"}
  Factor,       \* instrument -> its quantity event, for those that have one
  Bars,         \* opportunity -> instrument -> the bars it may print
  BoardLot, Unit, MinFee, Rate, InitialCash

Days == 1 .. LastDay
DayOf(t) == t \div DayLength
Opportunities == UNION {{d * DayLength + m : m \in 1 .. Minutes[d]} : d \in Days}
SessionEnd(d) == d * DayLength + Minutes[d] + 1
Ends == {SessionEnd(d) : d \in Days}
Last == SessionEnd(LastDay)

\* A minute without a bar offers no capacity.
NoBar == [printed |-> FALSE, suspended |-> FALSE, up |-> FALSE, down |-> FALSE,
          open |-> 0, capacity |-> 0]

Terminal == {"FILLED", "REJECTED", "EXPIRED", "CANCELLED"}

Sides == {"BUY", "SELL"}

Bar ==
  [printed : BOOLEAN, suspended : BOOLEAN, up : BOOLEAN, down : BOOLEAN, open : Nat, capacity : Nat]

\* validate_intents, for the fields the replay reads.
ValidIntent(r) ==
  /\ r.side \in Sides /\ r.inst \in Instruments
  /\ {r.quantity, r.ref} \subseteq Nat \ {0}
  /\ {r.refAt, r.available, r.effective, r.expires} \subseteq Nat /\ r.exit \in BOOLEAN
  /\ r.refAt <= r.available /\ r.available <= r.effective /\ r.effective < r.expires
  /\ r.side = "BUY" => r.quantity % BoardLot = 0
  /\ r.exit => r.side = "SELL" /\ r.expires \in Ends
  /\ r.inst \in DOMAIN Factor => r.refAt # Factor[r.inst].at

\* _validate_bar_events: a unit change comes before the first minute of its day.
ValidFactor(i) ==
  /\ i \in Instruments /\ {Factor[i].num, Factor[i].den} \subseteq Nat \ {0}
  /\ Factor[i].at \in Nat /\ DayOf(Factor[i].at) \in Days /\ Factor[i].at % DayLength <= 1

\* Shares and prices are counted in units so small that a unit change comes out
\* whole, as it does in the Decimals of the code.
WholeUnits ==
  \A i \in DOMAIN Factor :
    /\ BoardLot % Factor[i].den = 0
    /\ \A b \in Books :
         /\ \A l \in DOMAIN b.lots : b.lots[l].inst = i => b.lots[l].quantity % Factor[i].den = 0
         /\ \A n \in DOMAIN b.intents :
              LET r == b.intents[n] IN
              r.inst = i /\ r.refAt < Factor[i].at =>
                r.quantity % Factor[i].den = 0 /\ (r.ref * Factor[i].den) % Factor[i].num = 0
    /\ \A t \in Opportunities : t < Factor[i].at =>
         \A b \in Bars[t][i] : b.capacity % Factor[i].den = 0

ValidInput ==
  /\ LastDay \in Nat \ {0} /\ DayLength \in Nat /\ Minutes \in [Days -> Nat \ {0}]
  /\ \A d \in Days : Minutes[d] + 1 < DayLength
  /\ \A i \in DOMAIN Factor : ValidFactor(i)
  /\ \A b \in Books :
       /\ \A l \in DOMAIN b.lots : b.lots[l].inst \in Instruments /\ b.lots[l].quantity \in Nat \ {0}
       /\ Len(b.intents) \in Nat /\ DOMAIN b.intents = 1 .. Len(b.intents)
       /\ \A n \in DOMAIN b.intents : ValidIntent(b.intents[n])
       /\ InitialCash > 0 \/ DOMAIN b.lots # {}    \* start_nav
  /\ \A t \in Opportunities, i \in Instruments : Bars[t][i] \subseteq {b \in Bar : b.printed => b.open > 0}
  /\ BoardLot \in Nat \ {0} /\ {Unit, MinFee, InitialCash} \subseteq Nat /\ Rate \in [Sides -> Nat]

ASSUME InputAssumption == ValidInput /\ WholeUnits

VARIABLES
  book, mode,
  now,        \* the point of the timeline that was reached last
  phase,      \* "wait", "open", "attempt" or "done"
  orders,     \* number of an intent -> its order
  lots,       \* positions: lot -> instrument, quantity and shares by purchase day
  seen,       \* seen_lots
  cash,
  tape,       \* the bars of the minutes that have opened
  sites,      \* _mark_sites: where marks have been read
  checked,    \* _mark_checked: instrument -> sites its mark accounts for
  live,       \* _mark_instruments
  marks,      \* instrument -> the site of its mark
  room,       \* capacity left of the running minute
  todo,       \* eligible orders still to attempt
  full,       \* history: the marks of a replay that updates every instrument
  traded      \* history: shares traded of an instrument in the running minute

vars == <<book, mode, now, phase, orders, lots, seen, cash, tape, sites, checked,
          live, marks, room, todo, full, traded>>

input == <<book, mode>>
valuation == <<sites, checked, live, marks, full>>

Intent(n) == book.intents[n]
Side(n) == Intent(n).side
Inst(n) == Intent(n).inst
Today == DayOf(now)

Held(ls) == {ls[l].inst : l \in DOMAIN ls}

NewOrder(r) ==
  [status |-> "WAITING", quantity |-> r.quantity, filled |-> 0, remaining |-> r.quantity,
   notional |-> 0, fee |-> 0, scaled |-> FALSE, frozen |-> 0, deadline |-> r.expires,
   beyond |-> FALSE]

InitialLot(l) ==
  [inst |-> l.inst, quantity |-> l.quantity,
   bought |-> [d \in 0 .. LastDay |-> IF d = 0 THEN l.quantity ELSE 0]]

Mark(site) == [site |-> site, converted |-> FALSE]
Evidence == Mark([at |-> 0, column |-> "initial"])

Init ==
  /\ book \in Books /\ mode \in Modes
  /\ now = 0 /\ phase = "wait"
  /\ orders = [n \in DOMAIN book.intents |-> NewOrder(book.intents[n])]
  /\ lots = [l \in DOMAIN book.lots |-> InitialLot(book.lots[l])]
  /\ seen = DOMAIN book.lots
  /\ cash = InitialCash
  /\ tape = Empty /\ sites = <<>> /\ checked = [i \in Instruments |-> 0]
  /\ live = Held(lots) \cup DOMAIN Factor
  /\ marks = [i \in Held(lots) |-> Evidence] /\ full = marks
  /\ room = [i \in Instruments |-> 0] /\ todo = {}
  /\ traded = [i \in Instruments |-> 0]

(***************************************************************************)
(* Marks                                                                   *)
(***************************************************************************)

\* The minute whose bar a site reads: a close is known a minute later.
BarTime(site) == IF site.column = "close" THEN site.at - 1 ELSE site.at

Prices(tp, site, i) ==
  /\ BarTime(site) \in DOMAIN tp
  /\ tp[BarTime(site)][i].printed /\ ~tp[BarTime(site)][i].suspended

\* update_marks, for the instruments is.
Updated(m, is, tp, site) ==
  LET priced == {i \in is : Prices(tp, site, i)} IN
  [i \in DOMAIN m \cup priced |-> IF i \in priced THEN Mark(site) ELSE m[i]]

\* Mutant of Backfilled: the first site since the last look, not the latest one.
TakesOldestSite(m, i) ==
  LET valid == {k \in checked[i] + 1 .. Len(sites) : Prices(tape, sites[k], i)} IN
  IF valid = {} THEN m ELSE Put(m, i, Mark(sites[Min(valid)]))

\* _backfill_mark: the latest site the instrument has a price at since it was
\* last looked at.
Backfilled(m, i) ==
  LET valid == {k \in checked[i] + 1 .. Len(sites) : Prices(tape, sites[k], i)} IN
  IF valid = {} THEN m ELSE Put(m, i, Mark(sites[Max(valid)]))

\* _refresh_mark_instrument, when the lots ls of the instrument i are held.
Refresh(i, ls) ==
  LET lives == i \in Held(ls) \cup DOMAIN Factor IN
  /\ live' = IF lives THEN live \cup {i} ELSE live \ {i}
  /\ marks' = IF lives /\ i \notin live THEN Backfilled(marks, i) ELSE marks
  /\ checked' = IF lives = (i \in live) THEN checked
                ELSE [checked EXCEPT ![i] = Len(sites)]

(***************************************************************************)
(* The lifecycle                                                           *)
(***************************************************************************)

\* A quantity in the new units; it comes out whole (WholeUnits).
Scaled(q, i) == (q * Factor[i].num) \div Factor[i].den

ConvertMarks(m, due) ==
  [i \in DOMAIN m |-> IF i \in due THEN [m[i] EXCEPT !.converted = TRUE] ELSE m[i]]

ConvertLots(due) ==
  [l \in DOMAIN lots |->
     LET p == lots[l] IN
     IF p.inst \notin due THEN p
     ELSE [p EXCEPT !.quantity = Scaled(@, p.inst),
                    !.bought = [d \in DOMAIN @ |-> Scaled(@[d], p.inst)]]]

\* Mutant of ConvertOrders: orders that are over are left as they were.
ConvertsOpenOrders(due, t) ==
  [n \in DOMAIN orders |->
     LET o == orders[n] IN
     IF Inst(n) \notin due \/ Intent(n).refAt >= t \/ o.status \in Terminal THEN o
     ELSE [o EXCEPT !.quantity = Scaled(@, Inst(n)), !.filled = Scaled(@, Inst(n)),
                    !.remaining = Scaled(@, Inst(n)), !.scaled = TRUE]]

\* convert: every order whose quantity was fixed before the event, ended or not.
ConvertOrders(due, t) ==
  [n \in DOMAIN orders |->
     LET o == orders[n] IN
     IF Inst(n) \notin due \/ Intent(n).refAt >= t THEN o
     ELSE [o EXCEPT !.quantity = Scaled(@, Inst(n)), !.filled = Scaled(@, Inst(n)),
                    !.remaining = Scaled(@, Inst(n)), !.scaled = TRUE]]

\* bar_days: the instrument printed a bar that day, suspended or not.
HasBar(d, i) == \E t \in DOMAIN tape : DayOf(t) = d /\ tape[t][i].printed

Expire(os, t) ==
  [n \in DOMAIN os |->
     LET o == os[n]
         d == DayOf(o.deadline)
     IN
     IF o.status \in Terminal \/ o.beyond \/ t < o.deadline THEN o
     ELSE IF ~Intent(n).exit \/ HasBar(d, Inst(n)) THEN [o EXCEPT !.status = "EXPIRED"]
     ELSE [o EXCEPT !.status = IF o.filled > 0 THEN "PARTIAL" ELSE "WAITING",
                    !.deadline = IF d < LastDay THEN SessionEnd(d + 1) ELSE @,
                    !.beyond = d = LastDay]]

\* Mutant of Activate: an arrival cancels what trades its own lot.
CancelsOwnLot(os, t) ==
  LET supersedes(k, n) ==
        /\ Intent(k).available = t /\ Intent(n).available < t
        /\ Intent(k).lot = Intent(n).lot /\ Side(k) # Side(n)
  IN
  [n \in DOMAIN os |->
     IF os[n].status \notin Terminal /\ \E k \in DOMAIN os : supersedes(k, n)
     THEN [os[n] EXCEPT !.status = "CANCELLED"] ELSE os[n]]

\* activate, for all arrivals of t: what is left of older orders of the other
\* side is cancelled; arrivals of one instant do not cancel each other.
Activate(os, t) ==
  LET supersedes(k, n) ==
        /\ Intent(k).available = t /\ Intent(n).available < t
        /\ Inst(k) = Inst(n) /\ Side(k) # Side(n)
  IN
  [n \in DOMAIN os |->
     IF os[n].status \notin Terminal /\ \E k \in DOMAIN os : supersedes(k, n)
     THEN [os[n] EXCEPT !.status = "CANCELLED"] ELSE os[n]]

Timeline ==
  Opportunities \cup {t + 1 : t \in Opportunities} \cup Ends
    \cup {Factor[i].at : i \in DOMAIN Factor}
    \cup {t \in UNION {{Intent(n).available, Intent(n).expires} : n \in DOMAIN orders} :
            t <= Last}

Later == {t \in Timeline : t > now}

\* The daily mark refuses an account that is worth nothing.  run asks the same
\* before the first attempt of a day; nothing has traded since the mark before,
\* or since start_nav, so an account that passed those passes it.
NavIsPositive == cash > 0 \/ DOMAIN lots # {}

Advance ==
  /\ phase = "wait" /\ Later # {}
  /\ now \in Ends => NavIsPositive
  /\ LET t == Min(Later)
         close == [at |-> t, column |-> "close"]
         due == {i \in DOMAIN Factor : Factor[i].at = t}
     IN
     /\ now' = t
     /\ phase' = IF t \in Opportunities THEN "open" ELSE "wait"
     /\ sites' = Append(sites, close)
     /\ marks' = ConvertMarks(Updated(marks, live, tape, close), due)
     /\ full' = ConvertMarks(Updated(full, Instruments, tape, close), due)
     /\ lots' = ConvertLots(due)
     /\ orders' = Activate(Expire(ConvertOrders(due, t), t), t)
     /\ traded' = [i \in Instruments |-> 0]
  /\ UNCHANGED <<input, seen, cash, tape, checked, live, room, todo>>

\* eligible_orders: M-LAG trades no intent at the instant it becomes available.
Eligible(n) ==
  /\ orders[n].status \notin Terminal /\ orders[n].frozen # Today
  /\ now >= Intent(n).effective
  /\ IF mode = "M-LAG" THEN now > Intent(n).available ELSE now >= Intent(n).available

\* The minute opens: its marks, the eligible orders and the capacity they share.
Open ==
  /\ phase = "open"
  /\ \E bars \in [Instruments -> UNION {Bars[now][i] : i \in Instruments}] :
       /\ \A i \in Instruments : bars[i] \in Bars[now][i]
       /\ tape' = Put(tape, now, bars)
       /\ room' = [i \in Instruments |-> bars[i].capacity]
  /\ LET open == [at |-> now, column |-> "open"] IN
     /\ sites' = Append(sites, open)
     /\ marks' = Updated(marks, live, tape', open)
     /\ full' = Updated(full, Instruments, tape', open)
  /\ todo' = {n \in DOMAIN orders : Eligible(n)}
  /\ phase' = IF todo' = {} THEN "wait" ELSE "attempt"
  /\ UNCHANGED <<input, now, orders, lots, seen, cash, checked, live, traded>>

(***************************************************************************)
(* An attempt                                                              *)
(***************************************************************************)

BarOf(n) == tape[now][Inst(n)]
LotOf(n) == Intent(n).lot
Own(n) == orders[n].filled > 0 /\ LotOf(n) \in DOMAIN lots

\* Mutant of Sellable: T+1 is forgotten.
SellsToday(l) == IF l \notin DOMAIN lots THEN 0 ELSE Total(lots[l].bought)

Sellable(l) ==
  IF l \notin DOMAIN lots THEN 0 ELSE Total([d \in 0 .. Today - 1 |-> lots[l].bought[d]])

Closed(n) ==
  ~BarOf(n).printed \/ BarOf(n).suspended \/ (Side(n) = "BUY" /\ BarOf(n).up)

LimitDown(n) == ~Closed(n) /\ Side(n) = "SELL" /\ BarOf(n).down

Tradable(n) == ~Closed(n) /\ ~LimitDown(n)

\* SELLABLE_INSUFFICIENT and UNIT_MAPPING_BLOCKED.
Mismatched(n) ==
  IF Side(n) = "SELL"
  THEN ~\E l \in DOMAIN lots : /\ l = LotOf(n) /\ lots[l].inst = Inst(n)
                              /\ orders[n].remaining <= lots[l].quantity
  ELSE ~Own(n) /\ (Inst(n) \in Held(lots) \/ LotOf(n) \in seen)

\* What the market and the lot let the order trade.
Wanted(n) ==
  LET left == orders[n].remaining
      offered == IF mode = "M-REF" THEN left ELSE Smaller(left, room[Inst(n)])
  IN IF Side(n) = "SELL" THEN Smaller(offered, Sellable(LotOf(n)))
     ELSE BoardLot * (offered \div BoardLot)

Price(n) ==
  IF mode = "M-LAG" THEN BarOf(n).open
  ELSE IF orders[n].scaled
       THEN (Intent(n).ref * Factor[Inst(n)].den) \div Factor[Inst(n)].num
       ELSE Intent(n).ref

Larger(a, b) == IF a <= b THEN b ELSE a
FeeOf(side, notional) == Larger(MinFee, notional * Rate[side])

\* incremental_fee
FeeFor(n, q) == FeeOf(Side(n), orders[n].notional + q * Price(n)) - orders[n].fee

Cost(n, q) == q * Price(n) * Unit + FeeFor(n, q)

\* The board lots the cash pays for: the binary search of a monotone cost.
Affordable(n) ==
  Max({0} \cup {k \in 1 .. Wanted(n) \div BoardLot : Cost(n, k * BoardLot) <= cash}) * BoardLot

Quantity(n) == IF Side(n) = "BUY" THEN Affordable(n) ELSE Wanted(n)

Proceeds(n) == Wanted(n) * Price(n) * Unit - FeeFor(n, Wanted(n))

BelowBoardLot(n) == Side(n) = "BUY" /\ Wanted(n) = 0 /\ orders[n].remaining < BoardLot

Unfunded(n) ==
  Wanted(n) > 0 /\ (IF Side(n) = "BUY" THEN Affordable(n) = 0 ELSE cash + Proceeds(n) < 0)

Refused(n) == Tradable(n) /\ (Mismatched(n) \/ BelowBoardLot(n) \/ Unfunded(n))

Waits(n) ==
  \/ Closed(n)
  \/ Tradable(n) /\ ~Mismatched(n) /\ Wanted(n) = 0 /\ ~BelowBoardLot(n)

\* Sells first, then by number.
First ==
  CHOOSE n \in todo :
    \A k \in todo : \/ Side(n) = "SELL" /\ Side(k) = "BUY"
                    \/ Side(n) = Side(k) /\ n <= k

Attempted(n, o) ==
  /\ phase = "attempt" /\ n = First
  /\ orders' = [orders EXCEPT ![n] = o]
  /\ todo' = todo \ {n}
  /\ phase' = IF todo' = {} THEN "wait" ELSE "attempt"
  /\ UNCHANGED <<input, now, tape, sites, full>>

Ended(n, status) ==
  /\ Attempted(n, [orders[n] EXCEPT !.status = status])
  /\ UNCHANGED <<lots, seen, cash, checked, live, marks, room, traded>>

Tried(n) == IF orders[n].filled > 0 THEN "PARTIAL" ELSE "ACTIVE"

AttemptWaits(n) == Waits(n) /\ Ended(n, Tried(n))

\* A limit-down open keeps the order out of the market for the day.
AttemptFreezes(n) ==
  /\ LimitDown(n)
  /\ Attempted(n, [orders[n] EXCEPT !.status = Tried(n), !.frozen = Today])
  /\ UNCHANGED <<lots, seen, cash, checked, live, marks, room, traded>>

AttemptRefused(n) == Refused(n) /\ Ended(n, "REJECTED")

\* The order after it traded q shares; a purchase cut by the cash is over.
After(n, q) ==
  LET o == orders[n]
      left == o.remaining - q
  IN [o EXCEPT !.filled = @ + q, !.remaining = left,
               !.notional = @ + q * Price(n), !.fee = @ + FeeFor(n, q),
               !.status = IF left = 0 THEN "FILLED"
                          ELSE IF Side(n) = "BUY" /\ q < Wanted(n) THEN "REJECTED"
                          ELSE "PARTIAL"]

\* The shares of the earlier days leave, the oldest first.
Drawn(bought, q) ==
  [d \in DOMAIN bought |->
     IF d >= Today THEN bought[d]
     ELSE LET before == Total([e \in 0 .. d - 1 |-> bought[e]])
          IN bought[d] - Smaller(bought[d], Larger(0, q - before))]

LotsAfterSell(l, q) ==
  IF lots[l].quantity = q THEN Without(lots, l)
  ELSE [lots EXCEPT ![l].quantity = @ - q, ![l].bought = Drawn(@, q)]

LotsAfterBuy(n, q) ==
  LET l == LotOf(n)
      p == IF l \in DOMAIN lots THEN lots[l]
           ELSE InitialLot([inst |-> Inst(n), quantity |-> 0])
  IN Put(lots, l, [p EXCEPT !.quantity = @ + q, !.bought[Today] = @ + q])

AttemptFills(n) ==
  /\ Tradable(n) /\ ~Waits(n) /\ ~Refused(n)
  /\ LET q == Quantity(n)
         i == Inst(n)
     IN
     /\ Attempted(n, After(n, q))
     /\ lots' = IF Side(n) = "SELL" THEN LotsAfterSell(LotOf(n), q) ELSE LotsAfterBuy(n, q)
     /\ cash' = IF Side(n) = "SELL" THEN cash + Proceeds(n) ELSE cash - Cost(n, q)
     /\ seen' = IF Side(n) = "BUY" THEN seen \cup {LotOf(n)} ELSE seen
     /\ Refresh(i, lots')
     /\ room' = IF mode = "M-LAG" THEN [room EXCEPT ![i] = @ - q] ELSE room
     /\ traded' = [traded EXCEPT ![i] = @ + q]

\* run ends with a snapshot of every order, which looks up its mark.
Finish ==
  /\ phase = "wait" /\ Later = {} /\ NavIsPositive
  /\ phase' = "done"
  /\ LET cold == {Inst(n) : n \in DOMAIN orders} \ live IN
     /\ marks' = [i \in DOMAIN marks \cup {j \in cold : j \in DOMAIN Backfilled(marks, j)} |->
                    IF i \in cold THEN Backfilled(marks, i)[i] ELSE marks[i]]
     /\ checked' = [i \in Instruments |-> IF i \in cold THEN Len(sites) ELSE checked[i]]
  /\ UNCHANGED <<input, now, orders, lots, seen, cash, tape, sites, live, room, todo, full, traded>>

Next ==
  \/ Advance \/ Open \/ Finish
  \/ \E n \in DOMAIN orders :
       phase = "attempt" /\ n = First
         /\ (AttemptWaits(n) \/ AttemptFreezes(n) \/ AttemptRefused(n) \/ AttemptFills(n))

Spec == Init /\ [][Next]_vars

(***************************************************************************)
(* Properties                                                              *)
(***************************************************************************)

\* Shares an order set has traded of a lot, in the units of the day.
FilledOf(l, side) ==
  Total([n \in {k \in DOMAIN orders : LotOf(k) = l /\ Side(k) = side} |-> orders[n].filled])

\* Shares of a lot at the start, in the units of the day.
StartOf(l) ==
  IF l \notin DOMAIN book.lots THEN 0
  ELSE LET p == book.lots[l] IN
       IF p.inst \in DOMAIN Factor /\ now >= Factor[p.inst].at
       THEN Scaled(p.quantity, p.inst) ELSE p.quantity

MoneyOf(side) ==
  Total([n \in {k \in DOMAIN orders : Side(k) = side} |-> orders[n].notional]) * Unit

\* The account is what the orders made of it: each lot holds what its orders
\* bought less what they sold, across a conversion of the units; the cash is the
\* start, the notionals and the fees; an order's fee is that of its notional, and
\* its filled and remaining shares make up its quantity.
AccountFollowsOrders ==
  /\ \A l \in DOMAIN lots \cup {LotOf(n) : n \in DOMAIN orders} :
       (IF l \in DOMAIN lots THEN lots[l].quantity ELSE 0)
         = StartOf(l) + FilledOf(l, "BUY") - FilledOf(l, "SELL")
  /\ \A l \in DOMAIN lots : lots[l].quantity = Total(lots[l].bought) /\ lots[l].quantity > 0
  /\ cash >= 0
  /\ cash = InitialCash + MoneyOf("SELL") - MoneyOf("BUY")
              - Total([n \in DOMAIN orders |-> orders[n].fee])
  /\ \A n \in DOMAIN orders :
       LET o == orders[n] IN
       /\ o.quantity = o.filled + o.remaining
       /\ o.fee = (IF o.notional = 0 THEN 0 ELSE FeeOf(Side(n), o.notional))
       /\ o.remaining = 0 <=> o.status = "FILLED"

\* An order trades within its clocks, before any later intent of the other side
\* became available, never after it was over or on a day it was frozen; a sale
\* leaves the shares bought today, a purchase joins no other lot of its
\* instrument, and in M-LAG all orders of a minute share its capacity.
FillsAreLegal ==
  [][\A n \in DOMAIN orders :
       orders'[n].notional # orders[n].notional =>
         LET r == Intent(n)
             l == r.lot
         IN
         /\ orders[n].status \notin Terminal /\ orders[n].frozen # Today
         /\ r.effective <= now /\ (now < orders[n].deadline \/ orders[n].beyond)
         /\ ~\E k \in DOMAIN orders : /\ Inst(k) = Inst(n) /\ Side(k) # Side(n)
                                      /\ Intent(k).available \in r.available + 1 .. now
         /\ Side(n) = "SELL" =>
              lots[l].bought[Today] = (IF l \in DOMAIN lots' THEN lots'[l].bought[Today] ELSE 0)
         /\ Side(n) = "BUY" => \A k \in DOMAIN lots : lots[k].inst = r.inst => k = l
         /\ mode = "M-LAG" =>
              /\ r.available < now
              /\ traded'[Inst(n)] <= BarOf(n).capacity]_vars

\* The instruments whose mark is read: those held or converted, those traded in
\* the running minute, and at the end those of every order.
Read ==
  live \cup Held(lots) \cup {i \in Instruments : traded[i] > 0}
    \cup (IF phase = "done" THEN {Inst(n) : n \in DOMAIN orders} ELSE {})

\* A mark that is looked up lazily is the mark of a replay that updates every
\* instrument at every point: no stale price, and none of a minute to come.
MarksAreExact ==
  \A i \in Read :
    /\ i \in DOMAIN marks <=> i \in DOMAIN full
    /\ i \in DOMAIN marks => marks[i] = full[i]
=============================================================================
