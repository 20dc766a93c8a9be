------------------------------- MODULE Ledger -------------------------------
(***************************************************************************)
(* The resource owner of minute_orders_backend/ledger.py: cash, tax lots,  *)
(* the resources reserved by working orders, the shared capacity of the    *)
(* minute buckets and the fills applied.                                   *)
(*                                                                         *)
(* A command prepares a replacement snapshot and publishes it with one     *)
(* assignment (_commit), so a command is one step.  A command that raises  *)
(* LedgerError leaves the snapshot as it was: its guard is false here.  A  *)
(* command that only acknowledges what was already done (a replayed fill,  *)
(* a repeated bucket registration) changes nothing either, and is the      *)
(* stuttering step every specification allows.                             *)
(*                                                                         *)
(* Mappings of the snapshot are functions from the identity each command   *)
(* looks them up by.  Money is in cents, dates are the ordinals of the     *)
(* trading calendar, and a lot id is a number because the code orders lots *)
(* of one acquisition date by id.                                          *)
(***************************************************************************)
EXTENDS Integers, FiniteSets, Totals, Fees, Matching

CONSTANTS
  OrderIds, Symbols, BucketIds, FillIds,
  LotIds,        \* lot identities, "fill:" + fill_id being the number of the fill
  Prices,        \* limits and fill prices, in cents
  Quantities,    \* shares of a submitted order or of a fill
  LotSizes,      \* shares in a board lot
  Capacities,    \* shares a bucket is registered with
  Dates,         \* trading dates
  NoDate,        \* the sellable_date of a SELL proposal
  Model,         \* the FeeModel: the parameters of each side
  InitialCash,   \* the amounts the account may start with
  InitialLots    \* the holdings it may start with

Lot ==
  [symbol : Symbols, acquire_date : Dates, sellable_date : Dates,
   qty : Nat \ {0}, lot_size : LotSizes, reserved_qty : Nat]

\* Shares each lot lends to a SELL order; only the positive ones are stored.
Allocation == [LotIds -> Nat]

NoAllocation == [l \in LotIds |-> 0]

Reservation ==
  [symbol : Symbols, side : Sides, limit : Prices, remaining_qty : Nat \ {0},
   lot_size : LotSizes, cash : Nat, alloc : Allocation]

OrderTotals == [side : Sides, notional : Nat, fees_paid : Nat]

Bucket ==
  [trade_date : Dates, lot_size : LotSizes, capacity : Capacities, remaining : Nat]

\* capacity_consumed is left out: a proposal where it differs from qty is refused.
FillProposal ==
  [fill_id : FillIds, order_id : OrderIds, symbol : Symbols, side : Sides,
   qty : Quantities, price : Prices, fee_delta : Nat, bucket_id : BucketIds,
   lot_size : LotSizes, trade_date : Dates, sellable_date : Dates \cup {NoDate},
   expected_version : Nat]

FillApplied == [proposal : FillProposal, ledger_version : Nat]

\* What __init__ accepts as initial_lots.
ValidLots(ls) ==
  /\ DOMAIN ls \subseteq LotIds
  /\ ls \in [DOMAIN ls -> Lot]
  /\ \A l \in DOMAIN ls :
       /\ ls[l].qty % ls[l].lot_size = 0
       /\ ls[l].sellable_date > ls[l].acquire_date
       /\ ls[l].reserved_qty = 0
       /\ \A k \in DOMAIN ls : ls[k].symbol = ls[l].symbol => ls[k].lot_size = ls[l].lot_size

ASSUME LedgerAssumption ==
  /\ IsFiniteSet(OrderIds) /\ IsFiniteSet(LotIds) /\ IsFiniteSet(FillIds)
  /\ LotIds \subseteq Nat /\ FillIds \subseteq LotIds
  /\ Prices \subseteq Nat \ {0} /\ Quantities \subseteq Nat \ {0}
  /\ LotSizes \subseteq Nat \ {0} /\ Capacities \subseteq Nat
  /\ Dates \subseteq Nat /\ NoDate \notin Dates
  /\ Model \in [Sides -> FeeParams]
  /\ InitialCash \subseteq Nat
  /\ \A ls \in InitialLots : ValidLots(ls)

VARIABLES
  cash, lots, reservations, order_totals, buckets, applied_fills,
  used_order_ids, ledger_version, fees_paid

ledgerVars ==
  <<cash, lots, reservations, order_totals, buckets, applied_fills,
    used_order_ids, ledger_version, fees_paid>>

LedgerInit ==
  /\ cash \in InitialCash
  /\ lots \in InitialLots
  /\ reservations = Empty /\ order_totals = Empty
  /\ buckets = Empty /\ applied_fills = Empty
  /\ used_order_ids = {}
  /\ ledger_version = 0
  /\ fees_paid = 0

-----------------------------------------------------------------------------
(* Publishing a snapshot. *)

\* reserved_cash, which every commit recomputes from the reservations.
ReservedCash(rs) == Total([o \in DOMAIN rs |-> rs[o].cash])

FreeCash == cash - ReservedCash(reservations)

\* One published snapshot: its reservations have to be covered by its cash.
Commit(newCash, newReservations) ==
  /\ newCash >= ReservedCash(newReservations)
  /\ cash' = newCash
  /\ reservations' = newReservations
  /\ ledger_version' = ledger_version + 1

-----------------------------------------------------------------------------
(* Submitting an order: reserve its worst case or reject it for good. *)

\* Whatever already mentions the symbol has to agree on its lot size.
SymbolLot(symbol, size) ==
  /\ \A l \in DOMAIN lots : lots[l].symbol = symbol => lots[l].lot_size = size
  /\ \A o \in DOMAIN reservations :
       reservations[o].symbol = symbol => reservations[o].lot_size = size
  /\ \A k \in DOMAIN buckets : k[1] = symbol => buckets[k].lot_size = size

NewId(o) == o \notin used_order_ids

NewOrder(o, symbol, qty, size) ==
  /\ NewId(o)
  /\ SymbolLot(symbol, size)
  /\ qty % size = 0

\* Only the identity is remembered: no order, no claim, no later revival.
Reject(o) ==
  /\ Commit(cash, reservations)
  /\ used_order_ids' = used_order_ids \cup {o}
  /\ UNCHANGED <<lots, order_totals, buckets, applied_fills, fees_paid>>

Reserve(o, reservation) ==
  /\ Commit(cash, Put(reservations, o, reservation))
  /\ order_totals' =
       Put(order_totals, o, [side |-> reservation.side, notional |-> 0, fees_paid |-> 0])
  /\ used_order_ids' = used_order_ids \cup {o}
  /\ UNCHANGED <<buckets, applied_fills, fees_paid>>

\* Fault: the fee is not part of what is set aside.
RequirementWithoutFee(paid, limit, remaining) == limit * remaining

\* Cash to set aside for `remaining' shares once `paid' of notional has traded.
BuyRequirement(paid, limit, remaining) ==
  limit * remaining + BuyFeeUpperBound(Model["BUY"], paid, limit, remaining)

ReserveBuy(o, symbol, limit, qty, size) ==
  /\ NewOrder(o, symbol, qty, size)
  /\ LET required == BuyRequirement(0, limit, qty)
     IN  \/ /\ required > FreeCash
            /\ Reject(o)
         \/ /\ required <= FreeCash
            /\ UNCHANGED lots
            /\ Reserve(o, [symbol |-> symbol, side |-> "BUY", limit |-> limit,
                           remaining_qty |-> qty, lot_size |-> size,
                           cash |-> required, alloc |-> NoAllocation])

\* Fault: lots are drawn by id alone.
OlderById(k, l) == k < l

\* The order lots are drawn in: by acquisition date, then by lot id.
Older(k, l) ==
  \/ lots[k].acquire_date < lots[l].acquire_date
  \/ lots[k].acquire_date = lots[l].acquire_date /\ k < l

\* qty shares drawn from amounts, the oldest lot first.
FifoTake(amounts, qty) ==
  [l \in LotIds |->
     LET ahead == Total([k \in {k \in LotIds : amounts[k] > 0 /\ Older(k, l)} |-> amounts[k]])
     IN  IF amounts[l] = 0 \/ ahead >= qty THEN 0 ELSE Smaller(amounts[l], qty - ahead)]

\* Fault: shares another order has reserved count as free.
WholeQty(l) == lots[l].qty

FreeQty(l) == lots[l].qty - lots[l].reserved_qty

\* The free shares of each lot of the symbol that may be sold on the date.
SellableLots(symbol, date) ==
  [l \in LotIds |->
     IF l \in DOMAIN lots /\ lots[l].symbol = symbol /\ lots[l].sellable_date <= date
     THEN FreeQty(l)
     ELSE 0]

ReserveSell(o, symbol, limit, qty, size, date) ==
  /\ NewOrder(o, symbol, qty, size)
  /\ LET sellable == SellableLots(symbol, date)
         take == FifoTake(sellable, qty)
     IN  \/ /\ qty > Total(sellable)
            /\ Reject(o)
         \/ /\ qty <= Total(sellable)
            /\ lots' = [l \in DOMAIN lots |->
                          [lots[l] EXCEPT !.reserved_qty = @ + take[l]]]
            /\ Reserve(o, [symbol |-> symbol, side |-> "SELL", limit |-> limit,
                           remaining_qty |-> qty, lot_size |-> size,
                           cash |-> 0, alloc |-> take])

-----------------------------------------------------------------------------
(* Releasing what is left of a reservation. *)

Release(o, side) ==
  /\ o \in DOMAIN reservations
  /\ reservations[o].side = side
  /\ lots' = [l \in DOMAIN lots |->
                [lots[l] EXCEPT !.reserved_qty = @ - reservations[o].alloc[l]]]
  /\ Commit(cash, Without(reservations, o))
  /\ UNCHANGED <<order_totals, buckets, applied_fills, used_order_ids, fees_paid>>

-----------------------------------------------------------------------------
(* Bucket capacity, shared by both sides and installed once. *)

UnknownBucket(symbol, b) == <<symbol, b>> \notin DOMAIN buckets

\* Registering a known bucket again returns it, or raises if the facts differ.
RegisterBucket(symbol, b, date, size, capacity) ==
  /\ SymbolLot(symbol, size)
  /\ capacity % size = 0
  /\ UnknownBucket(symbol, b)
  /\ buckets' = Put(buckets, <<symbol, b>>,
                    [trade_date |-> date, lot_size |-> size,
                     capacity |-> capacity, remaining |-> capacity])
  /\ Commit(cash, reservations)
  /\ UNCHANGED <<lots, order_totals, applied_fills, used_order_ids, fees_paid>>

-----------------------------------------------------------------------------
(* Applying a fill. *)

\* The checks of a proposal against itself.
WellFormedFill(p) ==
  /\ p.qty % p.lot_size = 0
  /\ IF p.side = "BUY"
     THEN p.sellable_date # NoDate /\ p.sellable_date > p.trade_date
     ELSE p.sellable_date = NoDate

\* Fault: a fill id may be applied again.
AppliesReplay(p) == TRUE

\* A replay of an applied fill is acknowledged, a different payload refused.
NotApplied(p) == p.fill_id \notin DOMAIN applied_fills

\* Fault: a proposal computed from an earlier snapshot is accepted.
AcceptsStale(p) == TRUE

NotStale(p) == p.expected_version = ledger_version

\* The checks against the reservation, the bucket and the fee model.
AdmissibleFill(p) ==
  LET r == reservations[p.order_id]
      key == <<p.symbol, p.bucket_id>>
      paid == order_totals[p.order_id].notional
  IN  /\ NotApplied(p)
      /\ NotStale(p)
      /\ p.order_id \in DOMAIN reservations
      /\ r.side = p.side /\ r.symbol = p.symbol /\ r.lot_size = p.lot_size
      /\ p.qty <= r.remaining_qty
      /\ Crosses(p.side, p.price, r.limit)
      /\ key \in DOMAIN buckets
      /\ buckets[key].trade_date = p.trade_date
      /\ buckets[key].lot_size = p.lot_size
      /\ p.qty <= buckets[key].remaining
      /\ p.fee_delta = FeeDelta(Model[p.side], paid, paid + p.price * p.qty)

\* Fault: the fee still to pay is no longer reserved after a fill.
KeptWithoutFee(r, paid, remaining) == r.limit * remaining

\* Cash a BUY reservation keeps for `remaining' shares.
KeptCash(r, paid, remaining) == BuyRequirement(paid, r.limit, remaining)

\* What the fill takes from each lot the order had reserved, oldest first.
Taken(p) == FifoTake(reservations[p.order_id].alloc, p.qty)

\* The order's reservation after the fill, before an empty one is dropped.
RestOfReservation(p) ==
  LET r == reservations[p.order_id]
      after == order_totals[p.order_id].notional + p.price * p.qty
      remaining == r.remaining_qty - p.qty
  IN  IF p.side = "BUY"
      THEN [r EXCEPT !.remaining_qty = remaining, !.cash = KeptCash(r, after, remaining)]
      ELSE [r EXCEPT !.remaining_qty = remaining,
                     !.alloc = [l \in LotIds |-> r.alloc[l] - Taken(p)[l]]]

\* Fault: a reservation with nothing remaining stays.
KeepsEmptyReservation(o, rest) == [reservations EXCEPT ![o] = rest]

\* The reservations once order o's has become `rest'.
AfterFill(o, rest) ==
  IF rest.remaining_qty = 0
  THEN Without(reservations, o)
  ELSE [reservations EXCEPT ![o] = rest]

\* Fault: the fee of a sale is credited instead of charged.
CreditsFee(p) ==
  IF p.side = "BUY"
  THEN cash - (p.price * p.qty + p.fee_delta)
  ELSE cash + p.price * p.qty + p.fee_delta

CashAfter(p) ==
  IF p.side = "BUY"
  THEN cash - (p.price * p.qty + p.fee_delta)
  ELSE cash + p.price * p.qty - p.fee_delta

\* A BUY reservation has to cover the fill and the worst case of what remains.
BuyIsCovered(p) ==
  /\ p.price * p.qty + p.fee_delta + RestOfReservation(p).cash <= reservations[p.order_id].cash
  /\ p.fill_id \notin DOMAIN lots

\* Fault: the date a lot may be sold from is not looked at again.
MayConsumeAnyDate(l, taken, date) == taken <= lots[l].reserved_qty /\ taken <= lots[l].qty

MayConsume(l, taken, date) ==
  /\ lots[l].sellable_date <= date
  /\ taken <= lots[l].reserved_qty
  /\ taken <= lots[l].qty

\* _consume_sell: the reserved lots have to be sellable and to suffice.
SellIsBacked(p) ==
  /\ \A l \in LotIds : Taken(p)[l] > 0 => MayConsume(l, Taken(p)[l], p.trade_date)
  /\ Total(Taken(p)) = p.qty

\* The cash left has to cover what the orders still reserve.
FillIsPayable(p) ==
  /\ CashAfter(p) >= 0
  /\ CashAfter(p) >= ReservedCash(AfterFill(p.order_id, RestOfReservation(p)))

\* Every check of apply_fill; the command raises when one of them fails.
FillAccepted(p) ==
  /\ WellFormedFill(p)
  /\ AdmissibleFill(p)
  /\ IF p.side = "BUY" THEN BuyIsCovered(p) ELSE SellIsBacked(p)
  /\ FillIsPayable(p)

\* The lots once `take' has been sold from them; a sold-out lot is gone.
LotsAfterSale(take) ==
  [l \in {l \in DOMAIN lots : lots[l].qty > take[l]} |->
     [lots[l] EXCEPT !.qty = @ - take[l], !.reserved_qty = @ - take[l]]]

\* The lots once the shares of a BUY fill have become one of their own.
LotsAfterPurchase(p) ==
  Put(lots, p.fill_id,
      [symbol |-> p.symbol, acquire_date |-> p.trade_date, sellable_date |-> p.sellable_date,
       qty |-> p.qty, lot_size |-> p.lot_size, reserved_qty |-> 0])

ApplyFill(p) ==
  /\ FillAccepted(p)
  /\ lots' = IF p.side = "BUY" THEN LotsAfterPurchase(p) ELSE LotsAfterSale(Taken(p))
  /\ Commit(CashAfter(p), AfterFill(p.order_id, RestOfReservation(p)))
  /\ order_totals' =
       [order_totals EXCEPT ![p.order_id].notional = @ + p.price * p.qty,
                            ![p.order_id].fees_paid = @ + p.fee_delta]
  /\ fees_paid' = fees_paid + p.fee_delta
  /\ buckets' = [buckets EXCEPT ![<<p.symbol, p.bucket_id>>].remaining = @ - p.qty]
  /\ applied_fills' =
       Put(applied_fills, p.fill_id, [proposal |-> p, ledger_version |-> ledger_version + 1])
  /\ UNCHANGED used_order_ids

-----------------------------------------------------------------------------
(* A client that issues any command at any time. *)

\* What the fee model charges a working order for trading value more.
FeeDue(o, value) ==
  FeeDelta(Model[reservations[o].side], order_totals[o].notional, order_totals[o].notional + value)

\* A proposal for a working order; one for any other order is refused.
Proposal(o, f, qty, price, fee, b, date, sellable, version) ==
  LET r == reservations[o]
  IN  [fill_id |-> f, order_id |-> o, symbol |-> r.symbol, side |-> r.side, qty |-> qty,
       price |-> price, fee_delta |-> fee, bucket_id |-> b, lot_size |-> r.lot_size,
       trade_date |-> date, sellable_date |-> sellable, expected_version |-> version]

LedgerNext ==
  \/ \E o \in OrderIds, symbol \in Symbols, limit \in Prices, qty \in Quantities,
        size \in LotSizes :
       \/ ReserveBuy(o, symbol, limit, qty, size)
       \/ \E d \in Dates : ReserveSell(o, symbol, limit, qty, size, d)
  \/ \E o \in OrderIds, side \in Sides : Release(o, side)
  \/ \E symbol \in Symbols, b \in BucketIds, d \in Dates, size \in LotSizes,
        capacity \in Capacities :
       RegisterBucket(symbol, b, d, size, capacity)
  \/ \E o \in DOMAIN reservations, qty \in Quantities, price \in Prices :
       \E fee \in {FeeDue(o, price * qty)}, f \in FillIds, b \in BucketIds, d \in Dates,
          s \in Dates \cup {NoDate}, v \in {ledger_version, ledger_version - 1} \cap Nat :
         ApplyFill(Proposal(o, f, qty, price, fee, b, d, s, v))

LedgerSpec == LedgerInit /\ [][LedgerNext]_ledgerVars

-----------------------------------------------------------------------------
(* What the ledger promises. *)

\* A working order has its totals and its id is used; a BUY order holds no lots
\* and a SELL order no cash.
RecordsAgree ==
  /\ DOMAIN reservations \subseteq DOMAIN order_totals
  /\ DOMAIN order_totals \subseteq used_order_ids
  /\ \A o \in DOMAIN reservations :
       /\ order_totals[o].side = reservations[o].side
       /\ IF reservations[o].side = "BUY"
          THEN reservations[o].alloc = NoAllocation
          ELSE reservations[o].cash = 0

\* Every part of the snapshot has the shape types.py declares: lots hold and
\* lend whole positive amounts, money is never negative, keys are known ids.
LedgerTypeOK ==
  /\ cash \in Nat
  /\ DOMAIN lots \subseteq LotIds /\ lots \in [DOMAIN lots -> Lot]
  /\ DOMAIN reservations \subseteq OrderIds /\ reservations \in [DOMAIN reservations -> Reservation]
  /\ DOMAIN order_totals \subseteq OrderIds /\ order_totals \in [DOMAIN order_totals -> OrderTotals]
  /\ DOMAIN buckets \subseteq Symbols \X BucketIds /\ buckets \in [DOMAIN buckets -> Bucket]
  /\ DOMAIN applied_fills \subseteq FillIds /\ applied_fills \in [DOMAIN applied_fills -> FillApplied]
  /\ used_order_ids \subseteq OrderIds
  /\ ledger_version \in Nat
  /\ fees_paid \in Nat
  /\ RecordsAgree

\* A BUY reservation holds exactly the notional of its remainder at the limit
\* and the fee still owed if all of it trades there, whatever fills preceded.
BuyReservationIsExact ==
  \A o \in DOMAIN reservations :
    reservations[o].side = "BUY" =>
      reservations[o].cash =
        BuyRequirement(order_totals[o].notional, reservations[o].limit,
                       reservations[o].remaining_qty)

\* No fill that respects the limit can ask a BUY order for more than it set
\* aside: the "BUY exceeds its reserved cash" error cannot be raised by one.
BuyFillIsCovered ==
  \A o \in DOMAIN reservations :
    LET r == reservations[o]
        paid == order_totals[o].notional
    IN  r.side = "BUY" =>
          \A price \in Prices, qty \in Quantities :
            price <= r.limit /\ qty <= r.remaining_qty =>
              LET after == paid + price * qty
              IN  price * qty + FeeDelta(Model["BUY"], paid, after)
                    + BuyRequirement(after, r.limit, r.remaining_qty - qty) <= r.cash

\* The shares a lot has reserved are those lent to working orders, no more
\* than it has: no share backs two orders and none stays locked by a dead one.
ReservedSharesAreLent ==
  \A l \in LotIds :
    LET lent == Total([o \in DOMAIN reservations |-> reservations[o].alloc[l]])
    IN  IF l \in DOMAIN lots
        THEN lots[l].reserved_qty = lent /\ lent <= lots[l].qty
        ELSE lent = 0

\* A working SELL order still holds lots for exactly its remaining shares, so
\* consuming a fill from them never runs short.
SellRemainderIsBacked ==
  \A o \in DOMAIN reservations :
    Total(reservations[o].alloc) =
      IF reservations[o].side = "SELL" THEN reservations[o].remaining_qty ELSE 0

\* A working order keeps exactly what its remainder may need, in cash or in lots,
\* however many fills, of its own and of others, came before.
ReservationsAreExact == BuyReservationIsExact /\ SellRemainderIsBacked

\* Charging by differences of the cumulative fee makes what an order has paid
\* a function of its notional alone, however it was split into fills.
FeesFollowNotional ==
  /\ \A o \in DOMAIN order_totals :
       order_totals[o].fees_paid =
         CumulativeFee(Model[order_totals[o].side], order_totals[o].notional)
  /\ fees_paid = Total([o \in DOMAIN order_totals |-> order_totals[o].fees_paid])

FillsOf(Test(_)) == {f \in DOMAIN applied_fills : Test(applied_fills[f].proposal)}

Notional(f) == applied_fills[f].proposal.price * applied_fills[f].proposal.qty

\* Cash moved by exactly the applied fills: each one paid or received its
\* notional once and paid its fee once.
CashIsConserved ==
  LET Flow(side) ==
        Total([f \in FillsOf(LAMBDA p : p.side = side) |-> Notional(f)])
  IN  \E start \in InitialCash : cash = start + Flow("SELL") - Flow("BUY") - fees_paid

\* Shares moved by exactly the applied fills: what a symbol's lots hold is what
\* they started with, plus what was bought, less what was sold.
SharesAreConserved ==
  \E start \in InitialLots : \A symbol \in Symbols :
    LET Held(ls) == Total([l \in {l \in DOMAIN ls : ls[l].symbol = symbol} |-> ls[l].qty])
        Traded(side) ==
          Total([f \in FillsOf(LAMBDA p : p.side = side /\ p.symbol = symbol) |->
                   applied_fills[f].proposal.qty])
    IN  Held(lots) = Held(start) + Traded("BUY") - Traded("SELL")

\* The fills of a bucket, of both sides together, used exactly the capacity
\* that is gone from it and never more than it was registered with.
BucketCapacityIsShared ==
  \A key \in DOMAIN buckets :
    Total([f \in FillsOf(LAMBDA p : <<p.symbol, p.bucket_id>> = key) |->
             applied_fills[f].proposal.qty])
      = buckets[key].capacity - buckets[key].remaining

\* The fill history accounts for the account: replaying it from the start yields
\* the cash, the shares and the capacity that are there.
AccountIsConserved == CashIsConserved /\ SharesAreConserved /\ BucketCapacityIsShared

\* What has happened is not done over: an order id works at most once, an order
\* that ended stays ended, a fill stays in the history as it was, and it was
\* computed from the very snapshot it replaced.
HistoryIsFinal ==
  [][/\ \A o \in used_order_ids :
          /\ o \in used_order_ids'
          /\ o \notin DOMAIN reservations => o \notin DOMAIN reservations'
     /\ \A f \in DOMAIN applied_fills :
          f \in DOMAIN applied_fills' /\ applied_fills'[f] = applied_fills[f]
     /\ \A f \in DOMAIN applied_fills' \ DOMAIN applied_fills :
          /\ applied_fills'[f].ledger_version = ledger_version'
          /\ applied_fills'[f].proposal.expected_version = ledger_version]_ledgerVars

\* Shares leave a lot only through a SELL fill of its own symbol dated on or
\* after its sellable date (T+1), and only shares that had been reserved.
SharesLeaveOnlyWhenSellable ==
  [][\A l \in DOMAIN lots :
       LET left == IF l \in DOMAIN lots' THEN lots[l].qty - lots'[l].qty ELSE lots[l].qty
       IN  left # 0 =>
             /\ left <= lots[l].reserved_qty
             /\ \E f \in DOMAIN applied_fills' \ DOMAIN applied_fills :
                  LET p == applied_fills'[f].proposal
                  IN  p.side = "SELL" /\ p.symbol = lots[l].symbol
                        /\ lots[l].sellable_date <= p.trade_date]_ledgerVars

\* A SELL order draws on the oldest lots: it takes from a lot only when no older
\* lot of the symbol that may be sold on its date has free shares left.
SellsReserveOldestFirst ==
  [][\A o \in DOMAIN reservations' \ DOMAIN reservations :
       \A k, l \in DOMAIN lots :
         /\ reservations'[o].alloc[l] > 0
         /\ lots[k].symbol = lots[l].symbol
         /\ lots[k].sellable_date <= lots[l].sellable_date
         /\ lots[k].acquire_date < lots[l].acquire_date
         => lots'[k].reserved_qty = lots'[k].qty]_ledgerVars
=============================================================================
