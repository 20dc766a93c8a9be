------------------------------- MODULE Clock -------------------------------
(***************************************************************************)
(* The replay clock of minute_orders_backend/clock.py: which commands it   *)
(* accepts and the totally ordered schedule it builds from them.           *)
(*                                                                         *)
(* An instant is a number, DayLength of them to a date.  A command's       *)
(* available_at is left out: it is checked against submitted_at and used   *)
(* nowhere else.                                                           *)
(***************************************************************************)
EXTENDS Integers, FiniteSets

CONSTANTS
  Sessions,       \* bucket id -> [start, end): one minute of continuous trading
  StartAt, EndAt, \* the replayed interval
  DayLength,
  TradingDates,
  NoBucket        \* the bucket of an event that is not about one

DateOf(t) == t \div DayLength

\* What _validate requires of the calendar.
ValidCalendar ==
  /\ DayLength \in Nat \ {0}
  /\ StartAt \in Nat /\ EndAt \in Nat /\ StartAt < EndAt
  /\ TradingDates \subseteq Nat /\ IsFiniteSet(TradingDates)
  /\ NoBucket \notin DOMAIN Sessions
  /\ \A b \in DOMAIN Sessions :
       /\ Sessions[b].start \in Nat /\ Sessions[b].end \in Nat
       /\ StartAt <= Sessions[b].start /\ Sessions[b].start < Sessions[b].end
       /\ Sessions[b].end <= EndAt
       /\ DateOf(Sessions[b].start) \in TradingDates
       /\ DateOf(Sessions[b].start) = DateOf(Sessions[b].end)
       /\ \A c \in DOMAIN Sessions \ {b} :
            Sessions[b].end <= Sessions[c].start \/ Sessions[c].end <= Sessions[b].start

ASSUME ClockAssumption == ValidCalendar

\* The next date of the calendar, which has to have one.
LaterDates(d) == {n \in TradingDates : n > d}

NextDate(d) == CHOOSE n \in LaterDates(d) : \A m \in LaterDates(d) : n <= m

-----------------------------------------------------------------------------
(* Commands. *)

InRun(t) == StartAt <= t /\ t <= EndAt /\ DateOf(t) \in TradingDates

ValidSubmit(c) ==
  /\ InRun(c.submitted_at)
  /\ c.submitted_at <= c.effective_at
  /\ c.effective_at < c.expires_at

ValidCancel(c, order) ==
  /\ InRun(c.submitted_at)
  /\ order.submitted_at <= c.submitted_at /\ c.submitted_at <= c.effective_at
  /\ order.submitted_at < c.effective_at

\* Fault: an order may trade in the bucket during which it was submitted.
EligibleInSameBucket(order, symbol, b, at) ==
  /\ at = Sessions[b].end
  /\ order.symbol = symbol
  /\ order.submitted_at < Sessions[b].end
  /\ order.effective_at <= Sessions[b].end
  /\ at < order.expires_at

\* Only a bucket that began after the submission and once the order was in
\* effect, and that ends before the order expires, can match it.
Eligible(order, symbol, b, at) ==
  /\ at = Sessions[b].end
  /\ order.symbol = symbol
  /\ order.submitted_at < Sessions[b].start
  /\ order.effective_at <= Sessions[b].start
  /\ at < order.expires_at

-----------------------------------------------------------------------------
(* The schedule. *)

\* Phase, in the order the phases of one instant are handled.
EXPIRY == 0
CANCEL == 1
BUCKET == 2
MATCH  == 3
SUBMIT == 4
MARK   == 5

\* Fault: cancels of an instant are handled before its expiries.
CancelFirst(phase) == IF phase = EXPIRY THEN CANCEL ELSE IF phase = CANCEL THEN EXPIRY ELSE phase

\* Fault: the orders of an instant are matched before its bucket is visible.
MatchFirst(phase) == IF phase = BUCKET THEN MATCH ELSE IF phase = MATCH THEN BUCKET ELSE phase

Rank(phase) == phase

\* ClockEvent.key, compared component by component.
Key(e) == <<e.time, Rank(e.phase), e.buy, e.submitted_at, e.sequence, e.id>>

Before(e, f) ==
  \E i \in 1 .. 6 :
    /\ Key(e)[i] < Key(f)[i]
    /\ \A j \in 1 .. (i - 1) : Key(e)[j] = Key(f)[j]

\* Fault: purchases are matched before sales.
SellsLast(side) == IF side = "BUY" THEN 0 ELSE 1

BuyFlag(side) == IF side = "BUY" THEN 1 ELSE 0

OrderEvent(at, phase, order, submitted_at, sequence, b) ==
  [time |-> at, phase |-> phase, buy |-> BuyFlag(order.side),
   submitted_at |-> submitted_at, sequence |-> sequence, id |-> order.order_id, bucket |-> b]

OwnEvent(at, phase, order, b) ==
  OrderEvent(at, phase, order, order.submitted_at, order.sequence, b)

\* An event of a bucket or a mark, with the symbol or the mark as tie-break.
FactEvent(at, phase, id, b) ==
  [time |-> at, phase |-> phase, buy |-> 0, submitted_at |-> at, sequence |-> 0,
   id |-> id, bucket |-> b]

\* Fault: an event at the very end of the run is dropped.
BeforeEnd(t) == t < EndAt

\* An expiry or a cancel beyond the end of the run never becomes an event.
WithinRun(t) == t <= EndAt

\* _events: submits is a function from order ids to SubmitOrder commands,
\* cancels a set of CancelOrder commands, marks a function from ids to instants.
Events(submits, cancels, symbols, marks) ==
  LET os == DOMAIN submits
      bs == DOMAIN Sessions
  IN  {OwnEvent(submits[o].submitted_at, SUBMIT, submits[o], NoBucket) : o \in os}
      \cup {OwnEvent(submits[o].expires_at, EXPIRY, submits[o], NoBucket) :
              o \in {o \in os : WithinRun(submits[o].expires_at)}}
      \cup {OrderEvent(c.effective_at, CANCEL, submits[c.order_id],
                       c.submitted_at, c.sequence, NoBucket) :
              c \in {c \in cancels : WithinRun(c.effective_at)}}
      \cup {FactEvent(Sessions[b].end, BUCKET, s, b) : b \in bs, s \in symbols}
      \cup {OwnEvent(Sessions[k[2]].end, MATCH, submits[k[1]], k[2]) :
              k \in {k \in os \X bs : Eligible(submits[k[1]], submits[k[1]].symbol, k[2],
                                                Sessions[k[2]].end)}}
      \cup {FactEvent(marks[i], MARK, i, NoBucket) : i \in DOMAIN marks}

\* events.sort(key=...): each event at the place its predecessors leave it.
Schedule(events) ==
  LET place == [e \in events |-> Cardinality({f \in events : Before(f, e)}) + 1]
  IN  [i \in 1 .. Cardinality(events) |-> CHOOSE e \in events : place[e] = i]

\* No two events, and no two commands, may claim the same place.
Unambiguous(events, submits, cancels) ==
  /\ \A e, f \in events : Key(e) = Key(f) => e = f
  /\ \A c, d \in cancels :
       /\ c.effective_at = d.effective_at /\ c.submitted_at = d.submitted_at
       /\ c.sequence = d.sequence /\ c.order_id = d.order_id
       => c = d
=============================================================================
