------------------------------- MODULE Broker -------------------------------
(***************************************************************************)
(* The replay of minute_orders_backend/broker.py: limit orders that are    *)
(* submitted, matched against the completed minute buckets, cancelled and  *)
(* expired in the order of the clock, over the one ledger that owns cash   *)
(* and shares.                                                             *)
(*                                                                         *)
(* One step handles one event, with every ledger command the handler       *)
(* issues; a handler that raises ends the run and leaves what was          *)
(* committed.  The run's commands are chosen at the start, because the     *)
(* schedule is built from them; what a bucket traded is chosen at its      *)
(* BUCKET event, before which nothing of the program looks at it.          *)
(***************************************************************************)
EXTENDS Ledger, Clock, Sequences

CONSTANTS
  Inputs,      \* the commands of a run: [submits, cancels]
  Marks,       \* mark id -> [time, priced]: an instant and the symbols it prices
  Facts,       \* <<symbol, date>> -> [lot_size, limit_down, limit_up]
  Quotes,      \* [missing, halted, close, volume]: what a bucket may turn out to be
  RateNum, RateDen,  \* participation_rate
  FillIdOf     \* <<order id, bucket id>> -> the fill id made of the two

Submit ==
  [order_id : OrderIds, symbol : Symbols, side : Sides, qty : Quantities, limit : Prices,
   submitted_at : Nat, effective_at : Nat, expires_at : Nat, sequence : Nat]

Cancel ==
  [order_id : OrderIds, submitted_at : Nat, effective_at : Nat, sequence : Nat]

WithinLimits(price, facts) == facts.limit_down <= price /\ price <= facts.limit_up

MarkTimes == [i \in DOMAIN Marks |-> Marks[i].time]

EventsOf(run) == Events(run.submits, run.cancels, Symbols, MarkTimes)

\* The runs Clock and _validate_market accept.
ValidRun(run) ==
  /\ DOMAIN run.submits \subseteq OrderIds
  /\ \A o \in DOMAIN run.submits :
       LET c == run.submits[o]
           facts == Facts[<<c.symbol, DateOf(c.submitted_at)>>]
       IN  /\ c \in Submit /\ c.order_id = o
           /\ ValidSubmit(c)
           /\ WithinLimits(c.limit, facts) /\ c.qty % facts.lot_size = 0
  /\ IsFiniteSet(run.cancels)
  /\ \A c \in run.cancels :
       /\ c \in Cancel /\ c.order_id \in DOMAIN run.submits
       /\ ValidCancel(c, run.submits[c.order_id])
  /\ Unambiguous(EventsOf(run), run.submits, run.cancels)

\* What _validate_market and the construction of the broker require of the facts.
ValidFacts ==
  /\ DOMAIN Sessions = BucketIds /\ Dates = TradingDates
  /\ Facts \in [Symbols \X TradingDates -> [lot_size : LotSizes, limit_down : Prices, limit_up : Prices]]
  /\ \A s \in Symbols, d, e \in TradingDates :
       /\ Facts[<<s, d>>].limit_down < Facts[<<s, d>>].limit_up
       /\ Facts[<<s, d>>].lot_size = Facts[<<s, e>>].lot_size
  /\ RateNum \in Nat /\ RateDen \in Nat \ {0} /\ RateNum <= RateDen
  /\ FillIdOf \in [OrderIds \X BucketIds -> FillIds]
  /\ \A j, k \in OrderIds \X BucketIds : FillIdOf[j] = FillIdOf[k] => j = k
  /\ \A i \in DOMAIN Marks :
       Marks[i].time \in Nat /\ InRun(Marks[i].time) /\ Marks[i].priced \subseteq Symbols
  /\ \A ls \in InitialLots : \A l \in DOMAIN ls :
       /\ ls[l].acquire_date <= DateOf(StartAt)
       /\ LaterDates(ls[l].acquire_date) # {}
       /\ DateOf(StartAt) \in TradingDates
       /\ ls[l].sellable_date = NextDate(ls[l].acquire_date)
       /\ ls[l].lot_size = Facts[<<ls[l].symbol, DateOf(StartAt)>>].lot_size

\* What _validate_market requires of a bucket that is there, and the whole lots
\* an order or a bucket can be divided into, which the ledger's sets have to name.
ValidQuotes ==
  /\ Quotes \subseteq [missing : BOOLEAN, halted : BOOLEAN, close : Nat, volume : Nat]
  /\ \A q \in Quotes : q.missing \/ q.close \in Prices
  /\ 0 \in Capacities
  /\ \A q \in Quotes, size \in LotSizes :
       BucketCapacity(size, q.volume, RateNum, RateDen) \in Capacities
  /\ \A qty \in Quantities, size \in LotSizes :
       \A part \in 1 .. qty : part % size = 0 => part \in Quantities

\* Identities are strings, of which the code only uses that they are ordered.
ValidIds ==
  /\ OrderIds \cup Symbols \cup DOMAIN Marks \subseteq Int
  /\ IsFiniteSet(Symbols) /\ IsFiniteSet(BucketIds) /\ IsFiniteSet(DOMAIN Marks)

ASSUME BrokerAssumption == ValidFacts /\ ValidQuotes /\ ValidIds

VARIABLES
  run,      \* the commands, fixed at the start
  agenda,   \* the events not handled yet, in order
  orders,   \* order id -> [status, filled_qty, remaining_qty]
  visible,  \* <<symbol, bucket id>> -> quote, once its BUCKET event is handled
  failure   \* what the run was aborted by

brokerVars == <<run, agenda, orders, visible, failure>>
vars == <<ledgerVars, brokerVars>>

ActiveStatuses == {"Accepted", "PartiallyFilled"}
TerminalStatuses == {"Rejected", "Filled", "Cancelled", "Expired"}

OrderState ==
  [status : ActiveStatuses \cup TerminalStatuses, filled_qty : Nat, remaining_qty : Nat]

\* "contract" stands for every error the replay's own orders should never raise.
Failures == {"none", "no next trading date", "unpayable fill", "unpriced holding", "contract"}

Init ==
  /\ LedgerInit
  /\ run \in {r \in Inputs : ValidRun(r)}
  /\ agenda = Schedule(EventsOf(run))
  /\ orders = Empty
  /\ visible = Empty
  /\ failure = "none"

Active(o) == o \in DOMAIN orders /\ orders[o].status \in ActiveStatuses

FactsAt(symbol, t) == Facts[<<symbol, DateOf(t)>>]

\* A handler that raises: the run is over.
Abort(reason) ==
  /\ failure' = reason
  /\ UNCHANGED <<ledgerVars, agenda, orders, visible>>

Handled == agenda' = Tail(agenda) /\ failure' = failure

-----------------------------------------------------------------------------
(* The handlers, one for each phase. *)

StatusOnSubmit(o) == IF o \in DOMAIN reservations' THEN "Accepted" ELSE "Rejected"

\* _submit: the order is Submitted and, in the same call, Accepted with all its
\* resources reserved or Rejected.
HandleSubmit(e) ==
  LET c == run.submits[e.id]
      size == FactsAt(c.symbol, c.submitted_at).lot_size
  IN  /\ IF c.side = "BUY"
         THEN ReserveBuy(c.order_id, c.symbol, c.limit, c.qty, size)
         ELSE ReserveSell(c.order_id, c.symbol, c.limit, c.qty, size, DateOf(c.submitted_at))
      /\ orders' = Put(orders, c.order_id,
                       [status |-> StatusOnSubmit(c.order_id), filled_qty |-> 0,
                        remaining_qty |-> c.qty])
      /\ Handled
      /\ UNCHANGED visible

\* Fault: what a cancelled order has reserved is not given back.
KeepsResources(o, side) == UNCHANGED ledgerVars

GiveBack(o, side) == Release(o, side)

MayEnd(o) == Active(o)

FinalStatus(e) == IF e.phase = EXPIRY THEN "Expired" ELSE "Cancelled"

AfterRelease(e) ==
  IF MayEnd(e.id) THEN [orders EXCEPT ![e.id].status = FinalStatus(e)] ELSE orders

\* _release: a working order is cancelled or expires; any other is left alone.
HandleRelease(e) ==
  /\ IF MayEnd(e.id)
     THEN GiveBack(e.id, run.submits[e.id].side)
     ELSE UNCHANGED ledgerVars
  /\ orders' = AfterRelease(e)
  /\ Handled
  /\ UNCHANGED visible

\* _register: the bucket's facts become visible and its capacity is installed,
\* none for a bucket that is missing or halted.
HandleBucket(e) ==
  LET start == Sessions[e.bucket].start
      facts == FactsAt(e.id, start)
      size == facts.lot_size
  IN  \E quote \in {q \in Quotes : q.missing \/ WithinLimits(q.close, facts)} :
        /\ RegisterBucket(e.id, e.bucket, DateOf(start), size,
             IF quote.missing \/ quote.halted
             THEN 0
             ELSE BucketCapacity(size, quote.volume, RateNum, RateDen))
        /\ visible' = Put(visible, <<e.id, e.bucket>>, quote)
        /\ Handled
        /\ UNCHANGED orders

\* A close at the limit in the order's own direction has no other side.
Locked(side, quote, facts) ==
  IF side = "BUY" THEN quote.close = facts.limit_up ELSE quote.close = facts.limit_down

\* The proposal _match makes from the snapshot, for qty shares.
FillFor(c, b, quote, qty) ==
  LET date == DateOf(Sessions[b].start)
  IN  Proposal(c.order_id, FillIdOf[<<c.order_id, b>>], qty, quote.close,
               FeeDue(c.order_id, quote.close * qty), b, date,
               IF c.side = "BUY" THEN NextDate(date) ELSE NoDate, ledger_version)

\* Nothing trades: the order is done, the bucket carries no trade, the price is
\* out of reach, or no whole lot is left.
NoMatch(c, b, quote) ==
  LET facts == FactsAt(c.symbol, Sessions[b].start)
  IN  \/ quote.missing \/ quote.halted
      \/ Locked(c.side, quote, facts)
      \/ ~Crosses(c.side, quote.close, c.limit)
      \/ ProposedQty(orders[c.order_id].remaining_qty,
                     buckets[<<c.symbol, b>>].remaining, facts.lot_size) = 0

\* The ledger applies the proposal and the order's state follows, or apply_fill raises.
Settle(p) ==
  LET o == p.order_id
      left == orders[o].remaining_qty - p.qty
  IN  IF FillAccepted(p)
      THEN /\ ApplyFill(p)
           /\ orders' = [orders EXCEPT ![o] =
                [status |-> IF left = 0 THEN "Filled" ELSE "PartiallyFilled",
                 filled_qty |-> @.filled_qty + p.qty, remaining_qty |-> left]]
           /\ Handled
           /\ UNCHANGED visible
      ELSE Abort(IF WellFormedFill(p) /\ AdmissibleFill(p)
                      /\ (IF p.side = "BUY" THEN BuyIsCovered(p) ELSE SellIsBacked(p))
                 THEN "unpayable fill"
                 ELSE "contract")

\* _match, once the order is known to be working and the bucket visible.
Trade(c, b, quote) ==
  LET start == Sessions[b].start
      qty == ProposedQty(orders[c.order_id].remaining_qty, buckets[<<c.symbol, b>>].remaining,
                         FactsAt(c.symbol, start).lot_size)
  IN  \/ /\ c.side = "BUY" /\ LaterDates(DateOf(start)) = {}
         /\ Abort("no next trading date")
      \/ /\ c.side = "SELL" \/ LaterDates(DateOf(start)) # {}
         /\ \E p \in {FillFor(c, b, quote, qty)} : Settle(p)

HandleMatch(e) ==
  LET c == run.submits[e.id]
      key == <<c.symbol, e.bucket>>
  IN  \/ /\ ~Active(e.id) \/ ~Eligible(c, c.symbol, e.bucket, e.time)
         /\ Handled
         /\ UNCHANGED <<ledgerVars, orders, visible>>
      \/ /\ Active(e.id) /\ Eligible(c, c.symbol, e.bucket, e.time)
         /\ IF key \notin DOMAIN visible
            THEN Abort("contract")
            ELSE \/ /\ NoMatch(c, e.bucket, visible[key])
                    /\ Handled
                    /\ UNCHANGED <<ledgerVars, orders, visible>>
                 \/ /\ ~NoMatch(c, e.bucket, visible[key])
                    /\ Trade(c, e.bucket, visible[key])

\* _mark: every symbol held has to be priced.
HandleMark(e) ==
  IF {lots[l].symbol : l \in DOMAIN lots} \subseteq Marks[e.id].priced
  THEN Handled /\ UNCHANGED <<ledgerVars, orders, visible>>
  ELSE Abort("unpriced holding")

Handle(e) ==
  \/ e.phase = SUBMIT /\ HandleSubmit(e)
  \/ e.phase \in {EXPIRY, CANCEL} /\ HandleRelease(e)
  \/ e.phase = BUCKET /\ HandleBucket(e)
  \/ e.phase = MATCH /\ HandleMatch(e)
  \/ e.phase = MARK /\ HandleMark(e)

Next ==
  /\ failure = "none"
  /\ agenda # <<>>
  /\ Handle(Head(agenda))
  /\ UNCHANGED run

\* run() is a loop over a finite schedule: it never stops between two events.
Spec == Init /\ [][Next]_vars /\ WF_vars(Next)

-----------------------------------------------------------------------------
(* What a replay promises. *)

QtyFilled(o) ==
  Total([f \in FillsOf(LAMBDA p : p.order_id = o) |-> applied_fills[f].proposal.qty])

\* Broker and ledger keep their own record of an order and never disagree: an
\* order works exactly while it has a reservation, for the same quantity, and
\* what it counts as filled is what the ledger's fills of it add up to.
OrdersAgreeWithLedger ==
  \A o \in DOMAIN run.submits :
    /\ Active(o) <=> o \in DOMAIN reservations
    /\ o \in DOMAIN orders => o \in used_order_ids
    /\ o \in DOMAIN reservations =>
         /\ orders[o].remaining_qty = reservations[o].remaining_qty
         /\ agenda = <<>> => run.submits[o].expires_at > EndAt
    /\ o \in DOMAIN orders =>
         /\ orders[o].filled_qty = QtyFilled(o)
         /\ orders[o].filled_qty + orders[o].remaining_qty = run.submits[o].qty
         /\ orders[o].status = "Filled" <=> orders[o].remaining_qty = 0

\* Valid facts are never answered by a contract error: every proposal the broker
\* makes passes the ledger's checks, and a bucket is visible when it is matched.
NoContractError == failure # "contract"

\* The close price of a bucket only trades orders submitted before the bucket
\* began, in effect by then, and not yet expired when it ended; and within limits.
FillsUseLaterBuckets ==
  \A f \in DOMAIN applied_fills :
    LET p == applied_fills[f].proposal
        c == run.submits[p.order_id]
        b == Sessions[p.bucket_id]
    IN  /\ c.submitted_at < b.start /\ c.effective_at <= b.start
        /\ b.end < c.expires_at
        /\ p.price = visible[<<p.symbol, p.bucket_id>>].close
        /\ ~visible[<<p.symbol, p.bucket_id>>].halted

\* All fills of a bucket together keep to its participation in what traded.
ParticipationIsBounded ==
  \A key \in DOMAIN visible :
    LET q == visible[key]
        traded == Total([f \in FillsOf(LAMBDA p : <<p.symbol, p.bucket_id>> = key) |->
                           applied_fills[f].proposal.qty])
    IN  IF q.missing \/ q.halted THEN traded = 0 ELSE RateDen * traded <= RateNum * q.volume

SharesTraded(symbol, side, Test(_)) ==
  Total([f \in FillsOf(LAMBDA p : p.symbol = symbol /\ p.side = side /\ Test(p.trade_date)) |->
           applied_fills[f].proposal.qty])

\* T+1: what is sold on a date was held when the date began.
NoSameDayResale ==
  \E start \in InitialLots : \A symbol \in Symbols, d \in TradingDates :
    SharesTraded(symbol, "SELL", LAMBDA t : t <= d)
      <= Total([l \in {l \in DOMAIN start : start[l].symbol = symbol
                                             /\ start[l].sellable_date <= d} |-> start[l].qty])
           + SharesTraded(symbol, "BUY", LAMBDA t : t < d)

\* Every fill is one the market allowed: after its order, within the traded volume
\* and of shares held overnight.
FillsObeyTheMarket == FillsUseLaterBuckets /\ ParticipationIsBounded /\ NoSameDayResale

\* An order that both expires and is cancelled at one instant has expired, and
\* none is cancelled later than it expires.
ExpiryBeatsCancel ==
  [][\A o \in DOMAIN orders :
       orders[o].status # "Cancelled" /\ orders'[o].status = "Cancelled" =>
         Head(agenda).time < run.submits[o].expires_at]_vars

\* The claim of order o to a bucket is considered before that of order p.
Outranks(o, p) ==
  LET c == run.submits[o]
      d == run.submits[p]
  IN  \/ c.side = "SELL" /\ d.side = "BUY"
      \/ /\ c.side = d.side
         /\ \/ c.submitted_at < d.submitted_at
            \/ /\ c.submitted_at = d.submitted_at
               /\ \/ c.sequence < d.sequence
                  \/ c.sequence = d.sequence /\ o < p

\* Sales come before purchases and, on a side, earlier orders before later ones:
\* no fill uses capacity while a better placed order that could trade still wants some.
NoFillJumpsTheQueue ==
  [][\A f \in DOMAIN applied_fills' \ DOMAIN applied_fills :
       LET p == applied_fills'[f].proposal
           at == Sessions[p.bucket_id]
           quote == visible[<<p.symbol, p.bucket_id>>]
       IN  \A o \in DOMAIN reservations \ {p.order_id} :
             ~ /\ Outranks(o, p.order_id)
               /\ Eligible(run.submits[o], p.symbol, p.bucket_id, at.end)
               /\ Crosses(run.submits[o].side, quote.close, run.submits[o].limit)
               /\ ~Locked(run.submits[o].side, quote, FactsAt(p.symbol, at.start))]_vars

\* How a replay looks to the owner of the account: reservations, lots, buckets
\* and the schedule are forgotten.
Account ==
  INSTANCE LimitOrders WITH
    book <- run.submits,
    status <- [o \in DOMAIN run.submits |-> IF o \in DOMAIN orders THEN orders[o].status ELSE "New"],
    left <- [o \in DOMAIN run.submits |->
               IF o \in DOMAIN orders THEN orders[o].remaining_qty ELSE run.submits[o].qty],
    held <- [s \in Symbols |-> Total([l \in {l \in DOMAIN lots : lots[l].symbol = s} |-> lots[l].qty])]

\* The replay keeps the promise LimitOrders states: each order is decided once,
\* each fill settles cash against shares at a price within the limit, and
\* whatever the ledger reserves, moves or refuses, nothing is ever overdrawn.
SettlesLimitOrders == Account!Spec

\* Unless a handler raises, an order that expires within the run gets a final status.
ExpiringOrdersFinish ==
  \A o \in OrderIds :
    (o \in DOMAIN orders /\ run.submits[o].expires_at <= EndAt)
      ~> (failure # "none" \/ (o \in DOMAIN orders /\ orders[o].status \in TerminalStatuses))
=============================================================================
