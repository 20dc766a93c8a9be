----------------------------- MODULE DailyBook ------------------------------
(***************************************************************************)
(* The daily CSV engine: csv_daily_backtest.simulate over the handlers of  *)
(* csv_simulate_loop.py and the ledger of csv_ledger.py, for the books     *)
(* that split a daily quota over the day's list.                           *)
(*                                                                         *)
(* One trading day scans the held codes, then judges the chases (names     *)
(* that were at their upper limit on an earlier day), then buys the day's  *)
(* list.  Each pass works on a snapshot of codes and every code is a step: *)
(* what one code does to the cash, the positions and the pending chases is *)
(* what the next one sees.                                                 *)
(*                                                                         *)
(* Quantities are whole board lots; money is a natural number.  A quote is *)
(* a code's bar of the day with the verdicts of the rules that read it: is *)
(* the board known, do the buy gate and the add gate let it in, is it ST.  *)
(* The exit rule of a strategy is a choice among CloseReasons, so a lot's  *)
(* peak, which only that rule reads, is left out.                          *)
(***************************************************************************)
EXTENDS Integers, Sequences, FiniteSets, FiniteSetsExt, Totals

CONSTANTS
  Codes,            \* the codes of the market
  Rank,             \* the place of a code among the sorted codes
  LastDay,          \* the calendar is 1 .. LastDay
  PoolDays,         \* pool_days: day -> the list of that day
  Quotes,           \* the bars and verdicts a code may have on a day
  LotUnit,          \* money per lot and unit of price
  FeeRate,          \* commission per lot and unit of price
  MinFee,           \* min_cost
  Reasons,          \* what a take-profit rule or a sell gate may return
  Profiles          \* the books that may be run

Days == 1 .. LastDay

Quote ==
  [bar : BOOLEAN, open : Nat, low : Nat, close : Nat, up : Nat, down : Nat,
   board : BOOLEAN, gate : BOOLEAN, add : BOOLEAN, st : BOOLEAN]

\* A suspended code: the loader drops its bar.
NoQuote ==
  [bar |-> FALSE, open |-> 0, low |-> 0, close |-> 0, up |-> 0, down |-> 0,
   board |-> FALSE, gate |-> FALSE, add |-> FALSE, st |-> FALSE]

\* Why a lot is sold, and the reason of a lot that is not to be.
ExitReasons ==
  Reasons \cup {"stop_loss:close", "stop_loss:gap_open", "stop_loss:touch", "open_board"}
NoReason == "none"

\* What distinguishes the books: the rule profile and the hooks of a strategy.
Profile ==
  [total_cash : Nat, daily_quota : Nat,
   close_reasons : SUBSET Reasons,    \* what its rule returns
   same_bar_reasons : SUBSET ExitReasons,  \* daily_same_bar_prefixes
   stop_gap : Nat,                    \* how far below its cost a lot's stop lies
   stop_fill : {"touch", "close"},
   industry : BOOLEAN,                \* rule_profile: industry, or legacy
   allow_add : BOOLEAN, index_blocks_add : BOOLEAN, limit_up_chase : BOOLEAN,
   limit_down_pending : BOOLEAN, forbid_all_at_limit : BOOLEAN,
   reserve_limit_up : BOOLEAN, defer_limit_up : BOOLEAN]

\* A list that names a code twice is refused when it is read.
ValidBook ==
  /\ IsFiniteSet(Codes) /\ Rank \in [Codes -> Nat]
  /\ \A c, k \in Codes : Rank[c] = Rank[k] => c = k
  /\ LastDay \in Nat \ {0} /\ PoolDays \in [Days -> Seq(Codes)]
  /\ \A d \in Days : \A n, m \in DOMAIN PoolDays[d] :
       PoolDays[d][n] = PoolDays[d][m] => n = m
  /\ Quotes \subseteq Quote
  /\ LotUnit \in Nat \ {0} /\ FeeRate \in Nat /\ MinFee \in Nat
  /\ Profiles \subseteq Profile

ASSUME BookAssumption == ValidBook

VARIABLES
  book,        \* the profile this run has
  day, phase,
  todo,        \* codes the running pass has still to visit
  quotes,      \* the day's quote of every code
  gateOpen,    \* allow_new_name: whether the index lets new names in
  cash,        \* st.cash
  positions,   \* st.positions: code -> its lots
  pending,     \* pending_chase: code -> budget, day of the signal, place in the dict
  per,         \* the pool pass's budget for a name
  quotaUsed,   \* st.daily_quota_used
  trades,      \* the day's rows of st.trades: a row names its lot, so no two are alike
  stats,       \* the chase counters of st.stats
  fate         \* history: limit-up signal -> what became of it

vars == <<book, day, phase, todo, quotes, gateOpen, cash, positions, pending, per,
          quotaUsed, trades, stats, fate>>

Counters ==
  {"skip_limit_up", "chase_buy", "chase_abandon", "chase_skip_limit", "chase_no_bar",
   "chase_overwrite", "chase_buy_fail", "chase_pending_eod", "chase_skip_held"}

Lot == [id : Nat, lots : Nat \ {0}, cost : Nat, entry : Days,
        pending : ExitReasons \cup {NoReason}, reserved : BOOLEAN]

Entry == [per : Int, sig : Days, at : Nat]

Init ==
  /\ book \in Profiles
  /\ day = 1 /\ phase = "begin" /\ todo = <<>>
  /\ quotes = [c \in Codes |-> NoQuote]
  /\ gateOpen = TRUE
  /\ cash = book.total_cash
  /\ positions = [c \in Codes |-> {}]
  /\ pending = Empty
  /\ per = 0 /\ quotaUsed = 0
  /\ trades = {}
  /\ stats = [k \in Counters |-> 0]
  /\ fate = Empty

Held(c) == positions[c] # {}

\* The sequences (there is one) of the codes of S by their places.
InOrder(S, place) ==
  {s \in [1 .. Cardinality(S) -> S] :
     /\ {s[n] : n \in DOMAIN s} = S
     /\ \A n, m \in DOMAIN s : n < m => place[s[n]] < place[s[m]]}

\* held_codes: a sorted snapshot.
HeldCodes == InOrder({c \in Codes : Held(c)}, Rank)

AtUp(px, q) == px >= q.up
AtDown(px, q) == px <= q.down

Larger(a, b) == IF a >= b THEN a ELSE b

Notional(lots, px) == lots * px * LotUnit
Fee(lots, px) == Larger(lots * px * FeeRate, MinFee)
Debit(lots, px) == Notional(lots, px) + Fee(lots, px)

(***************************************************************************)
(* The scan of the held codes                                              *)
(***************************************************************************)

\* A verdict on a lot: sold at px for a reason, or kept as it now is.
Sells(l, px, why) == [sold |-> TRUE, px |-> px, why |-> why, lot |-> l]
Keeps(l) == [sold |-> FALSE, px |-> 0, why |-> NoReason, lot |-> l]
Latches(l, why) == Keeps([l EXCEPT !.pending = why])

Sellable(l) == l.entry < day

\* Mutant of LatchedExit: a latch that met the lower limit is dropped.
ForgetsLatch(l, q) ==
  IF AtDown(q.open, q) THEN Keeps([l EXCEPT !.pending = NoReason])
  ELSE Sells(l, q.open, l.pending)

\* An exit latched on an earlier day leaves at the open.
LatchedExit(l, q) ==
  IF AtDown(q.open, q) THEN Keeps(l) ELSE Sells(l, q.open, l.pending)

Trigger(l) == l.cost - book.stop_gap

StopHit(l, q) ==
  IF book.stop_fill = "close" THEN q.close <= Trigger(l)
  ELSE q.open <= Trigger(l) \/ q.low <= Trigger(l)

\* A stop at the close fills at the lower limit too; a touched one is latched.
StopExit(l, q) ==
  IF book.stop_fill = "close" THEN Sells(l, q.close, "stop_loss:close")
  ELSE IF q.open <= Trigger(l)
  THEN IF AtDown(q.open, q) THEN Keeps(l) ELSE Sells(l, q.open, "stop_loss:gap_open")
  ELSE IF ~AtDown(Trigger(l), q) THEN Sells(l, Trigger(l), "stop_loss:touch")
  ELSE IF book.limit_down_pending THEN Latches(l, "stop_loss:touch") ELSE Keeps(l)

\* The closes that are tried again on another day rather than latched.
ForcedCloses ==
  {"force_sell:t1_close", "force_sell:t2_close", "force_sell:t4_close"}

\* Mutant of RuleExit: only a latch looks at the lower limit.
SellsAtAnyClose(l, q, why) ==
  IF why = NoReason THEN Keeps(l)
  ELSE IF why \in book.same_bar_reasons THEN Sells(l, q.close, why)
  ELSE Latches(l, why)

\* What a reason to leave at the close comes to.
RuleExit(l, q, why) ==
  LET blocked == \/ AtDown(q.close, q)
                 \/ book.forbid_all_at_limit /\ AtUp(q.close, q)
  IN IF why = NoReason THEN Keeps(l)
     ELSE IF blocked
     THEN IF why \in ForcedCloses \/ ~book.limit_down_pending THEN Keeps(l) ELSE Latches(l, why)
     ELSE IF why \in book.same_bar_reasons THEN Sells(l, q.close, why)
     ELSE Latches(l, why)

\* A lot that opened at its upper limit waits for the board to open.
ReservedExit(l, q) ==
  IF AtUp(q.close, q) THEN Keeps([l EXCEPT !.reserved = TRUE])
  ELSE RuleExit([l EXCEPT !.reserved = FALSE], q, "open_board")

Verdict(l, q, why) ==
  IF ~Sellable(l) THEN Keeps(l)
  ELSE IF l.pending # NoReason THEN LatchedExit(l, q)
  ELSE IF StopHit(l, q) THEN StopExit(l, q)
  ELSE IF book.defer_limit_up /\ AtUp(q.close, q) THEN Keeps(l)
  ELSE IF book.reserve_limit_up /\ (l.reserved \/ AtUp(q.open, q)) THEN ReservedExit(l, q)
  ELSE RuleExit(l, q, why)

SellRow(c, v) ==
  [side |-> "SELL", code |-> c, px |-> v.px, lots |-> v.lot.lots, lot |-> v.lot.id,
   why |-> v.why]

Proceeds(sold) ==
  Total([v \in sold |-> Notional(v.lot.lots, v.px)])
  - Total([v \in sold |-> Fee(v.lot.lots, v.px)])

\* What the verdicts on a code's lots make of it: _sell books a row and removes
\* the lot, one lot after the other.
Settle(c, verdicts) ==
  \E sold \in {{v \in verdicts : v.sold}} :
    /\ cash' = cash + Proceeds(sold)
    /\ positions' = [positions EXCEPT ![c] = {v.lot : v \in verdicts \ sold}]
    /\ trades' = trades \cup {SellRow(c, v) : v \in sold}

ScanHeld ==
  /\ phase = "scan" /\ todo # <<>>
  /\ LET c == Head(todo)
         q == quotes[c]
     IN IF ~q.bar \/ ~q.board
        THEN UNCHANGED <<cash, positions, trades>>
        ELSE \E why \in [positions[c] -> book.close_reasons \cup {NoReason}] :
               Settle(c, {Verdict(l, q, why[l]) : l \in positions[c]})
  /\ todo' = Tail(todo)
  /\ UNCHANGED <<day, phase, quotes, gateOpen, pending, per, quotaUsed, stats, fate>>

(***************************************************************************)
(* Buying                                                                  *)
(***************************************************************************)

\* Mutant of Declared: the fee is not part of the budget.
IgnoresFee(budget, px) == budget \div (px * LotUnit)

\* preview_final_buy_declaration: whole lots within the budget.  The legacy
\* profile tops up to one lot, the industry profile pays the fee out of the
\* budget and shrinks to the cash at hand.
Declared(budget, px) ==
  LET wanted == budget \div (px * LotUnit)
      most == Smaller(budget, cash)
      payable == {k \in 1 .. wanted : Debit(k, px) <= most}
  IN IF px = 0 \/ budget <= 0 THEN 0
     ELSE IF book.industry THEN Cardinality(payable) ELSE Larger(wanted, 1)

\* execute_buy's own refusals, in its order.
BuyFails(q, budget) ==
  \/ Declared(budget, q.close) = 0
  \/ Debit(Declared(budget, q.close), q.close) > cash

NextLotId(c) == IF Held(c) THEN Max({l.id : l \in positions[c]}) + 1 ELSE 0

\* What execute_buy assigns when it fills.
Fill(c, px, budget, why) ==
  \E lots \in {Declared(budget, px)} :
    /\ cash' = cash - Debit(lots, px)
    /\ positions' = [positions EXCEPT ![c] = @ \cup
         {[id |-> NextLotId(c), lots |-> lots, cost |-> px, entry |-> day,
           pending |-> NoReason, reserved |-> FALSE]}]
    /\ quotaUsed' = quotaUsed + Smaller(budget, Notional(lots, px))
    /\ trades' = trades \cup
         {[side |-> "BUY", code |-> c, px |-> px, lots |-> lots, lot |-> NextLotId(c),
           why |-> why]}

IndexShut(c) == ~gateOpen /\ (book.index_blocks_add \/ ~Held(c))

\* Gates both passes put a priced order through before they buy.
Gate(c, q) ==
  IF ~q.gate THEN "skip_buy_gate"
  ELSE IF Held(c) /\ ~q.add THEN "skip_add_loser"
  ELSE "pass"

IsPending(c) == c \in DOMAIN pending
Signal(c) == <<c, pending[c].sig>>

(***************************************************************************)
(* The chases                                                              *)
(***************************************************************************)

\* run_chase_due_day: how the chase of a due entry ends, or that it waits.
ChaseVerdict(c, q) ==
  IF Held(c) /\ ~book.allow_add THEN "chase_skip_held"
  ELSE IF IndexShut(c) THEN "skip_index_gate"
  ELSE IF ~q.bar THEN "wait"
  ELSE IF ~q.board THEN "skip_unknown_board"
  ELSE IF AtUp(q.close, q) THEN "chase_skip_limit"
  ELSE IF q.close <= q.open THEN "chase_abandon"
  ELSE IF Gate(c, q) # "pass" THEN Gate(c, q)
  ELSE IF q.st THEN "skip_st"
  ELSE IF BuyFails(q, pending[c].per) THEN "chase_buy_fail"
  ELSE "chase_buy"

\* Mutant of Judged: a purchase that failed is tried again.
RetriesFailed(verdict) == verdict \notin {"wait", "chase_buy_fail"}

\* An entry that was judged is popped, whatever came of it.
Judged(verdict) == verdict # "wait"

Counted(verdict) ==
  [k \in Counters |-> stats[k] + (IF k = verdict THEN 1 ELSE 0)]

\* The snapshot of due codes: every entry of an earlier day.
DueCodes ==
  InOrder({c \in DOMAIN pending : day > pending[c].sig},
          [c \in DOMAIN pending |-> pending[c].at])

ChaseDue ==
  /\ phase = "chase" /\ todo # <<>>
  /\ LET c == Head(todo)
         q == quotes[c]
         verdict == ChaseVerdict(c, q)
     IN /\ IF Judged(verdict)
           THEN /\ pending' = Without(pending, c)
                /\ fate' = Put(fate, Signal(c), verdict)
           ELSE UNCHANGED <<pending, fate>>
        /\ stats' = Counted(verdict)
        /\ IF verdict = "chase_buy"
           THEN Fill(c, q.close, pending[c].per, "chase:T+1")
           ELSE UNCHANGED <<cash, positions, quotaUsed, trades>>
  /\ todo' = Tail(todo)
  /\ UNCHANGED <<day, phase, quotes, gateOpen, per>>

(***************************************************************************)
(* The day's list                                                          *)
(***************************************************************************)

\* run_pool_buys_day: what becomes of one listed name.
PoolVerdict(c, q) ==
  IF Held(c) /\ ~book.allow_add THEN "skip_held"
  ELSE IF IndexShut(c) THEN "skip_index_gate"
  ELSE IF ~q.bar THEN "skip_no_bar"
  ELSE IF ~q.board THEN "skip_unknown_board"
  ELSE IF AtUp(q.close, q) \/ (book.forbid_all_at_limit /\ AtDown(q.close, q))
  THEN "skip_limit_up"
  ELSE IF Gate(c, q) # "pass" THEN Gate(c, q)
  ELSE IF q.st THEN "skip_st"
  ELSE IF BuyFails(q, per) THEN "skip_cash"
  ELSE "pool"

\* A new entry comes last in the dict; one that is assigned again keeps its place.
PlaceOf(c) ==
  IF IsPending(c) THEN pending[c].at
  ELSE Max({0} \cup {pending[k].at : k \in DOMAIN pending}) + 1

\* queue_limit_up_chase: a second signal takes the entry of the first.
Queue(c) ==
  /\ pending' = Put(pending, c, [per |-> per, sig |-> day, at |-> PlaceOf(c)])
  /\ stats' = [Counted("skip_limit_up") EXCEPT !["chase_overwrite"] =
                 @ + (IF IsPending(c) THEN 1 ELSE 0)]
  /\ fate' = Put(IF IsPending(c) THEN Put(fate, Signal(c), "chase_overwrite") ELSE fate,
                 <<c, day>>, "pending")

PoolBuy ==
  /\ phase = "pool" /\ todo # <<>>
  /\ LET c == Head(todo)
         q == quotes[c]
         verdict == PoolVerdict(c, q)
     IN /\ IF verdict = "skip_limit_up" /\ book.limit_up_chase
           THEN Queue(c)
           ELSE /\ stats' = Counted(verdict)
                /\ UNCHANGED <<pending, fate>>
        /\ IF verdict = "pool"
           THEN Fill(c, q.close, per, "pool")
           ELSE UNCHANGED <<cash, positions, quotaUsed, trades>>
  /\ todo' = Tail(todo)
  /\ UNCHANGED <<day, phase, quotes, gateOpen, per>>

(***************************************************************************)
(* The day loop                                                            *)
(***************************************************************************)

Planned == PoolDays[day]

\* Only the quotes of these codes are read today.
Wanted(c) == Held(c) \/ IsPending(c) \/ c \in {Planned[n] : n \in DOMAIN Planned}

BeginDay ==
  /\ phase = "begin"
  /\ gateOpen' \in BOOLEAN
  /\ quotes' \in {q \in [Codes -> Quotes \cup {NoQuote}] :
                    \A c \in Codes : Wanted(c) \/ q[c] = NoQuote}
  /\ quotaUsed' = 0 /\ trades' = {}
  /\ phase' = "scan" /\ todo' \in HeldCodes
  /\ UNCHANGED <<day, cash, positions, pending, per, stats, fate>>

BeginChases ==
  /\ phase = "scan" /\ todo = <<>>
  /\ phase' = "chase" /\ todo' \in DueCodes
  /\ UNCHANGED <<day, quotes, gateOpen, cash, positions, pending, per, quotaUsed,
                 trades, stats, fate>>

\* The budget of a name is fixed before the first of them is bought.
BeginPool ==
  /\ phase = "chase" /\ todo = <<>>
  /\ phase' = "pool" /\ todo' = Planned
  /\ per' = IF Planned = <<>> THEN 0 ELSE Smaller(book.daily_quota, cash) \div Len(Planned)
  /\ UNCHANGED <<day, quotes, gateOpen, cash, positions, pending, quotaUsed, trades,
                 stats, fate>>

EndDay ==
  /\ phase = "pool" /\ todo = <<>> /\ day < LastDay
  /\ day' = day + 1 /\ phase' = "begin"
  /\ per' = 0
  /\ quotes' = [c \in Codes |-> NoQuote]
  /\ UNCHANGED <<todo, gateOpen, cash, positions, pending, quotaUsed, trades, stats, fate>>

\* finish_pending_chase after the last day.
Finish ==
  /\ phase = "pool" /\ todo = <<>> /\ day = LastDay
  /\ phase' = "done"
  /\ stats' = [stats EXCEPT !["chase_pending_eod"] = Cardinality(DOMAIN pending)]
  /\ UNCHANGED <<day, todo, quotes, gateOpen, cash, positions, pending, per, quotaUsed,
                 trades, fate>>

Next ==
  /\ \/ BeginDay \/ ScanHeld \/ BeginChases \/ ChaseDue \/ BeginPool \/ PoolBuy
     \/ EndDay \/ Finish
  /\ UNCHANGED book

Spec == Init /\ [][Next]_vars

(***************************************************************************)
(* Properties                                                              *)
(***************************************************************************)

Rows(side) == {t \in trades : t.side = side}

\* Nothing is bought at the upper limit or sold at the lower one; the one
\* exception the rules name is the stop at the close.
LimitsRespected ==
  /\ \A t \in Rows("BUY") : t.px < quotes[t.code].up \/ phase = "begin"
  /\ \A t \in Rows("SELL") :
       t.px > quotes[t.code].down \/ t.why = "stop_loss:close" \/ phase = "begin"

\* A latched exit is neither forgotten nor replaced: it stays until the first
\* open above the lower limit, and leaves at that open for the latched reason.
LatchedExitsLeaveAtTheOpen ==
  [][\A c \in Codes : \A l \in positions[c] :
       LET q == quotes[c]
           scanned == phase = "scan" /\ todo # <<>> /\ Head(todo) = c
                        /\ q.bar /\ q.board
           sale == [side |-> "SELL", code |-> c, px |-> q.open, lots |-> l.lots,
                    lot |-> l.id, why |-> l.pending]
       IN l.pending # NoReason =>
            IF scanned /\ ~AtDown(q.open, q)
            THEN sale \in trades' ELSE l \in positions'[c]]_vars

\* A book that does not add holds one lot of a name, although the chase and
\* the list may both want it.
OneLotPerName ==
  ~book.allow_add => \A c \in Codes : \A l, k \in positions[c] : l = k

\* Whatever the order of scan, chases and list, every row of the day and every
\* holding is one the rules allow.
TradesAreLegal == LimitsRespected /\ OneLotPerName

\* E-R4: an entry that outlives a chase pass of a later day had no bar that
\* day; one that had a bar was judged, once, and is gone.
UnquotedChasesWait ==
  \A c \in DOMAIN pending :
    (pending[c].sig < day /\ phase \in {"pool", "done"}) => ~quotes[c].bar

\* Since a name without a bar is not on the day's list either, no signal ever
\* takes the entry of an earlier one.
NoChaseIsOverwritten == stats["chase_overwrite"] = 0

\* Every limit-up signal of a book that chases has one fate: the counters count
\* the fates, and the pending entries are the signals still open.
FatesAgree ==
  /\ book.limit_up_chase => stats["skip_limit_up"] = Cardinality(DOMAIN fate)
  /\ \A k \in Counters \ {"skip_limit_up", "chase_pending_eod"} :
       stats[k] = Cardinality({s \in DOMAIN fate : fate[s] = k})
  /\ {s \in DOMAIN fate : fate[s] = "pending"} = {Signal(c) : c \in DOMAIN pending}

\* A pending chase waits for its first quoted day, is judged then, once, and nothing
\* takes its place meanwhile; every signal comes to one end.
ChasesAreJudgedOnce == UnquotedChasesWait /\ NoChaseIsOverwritten /\ FatesAgree

PoolRows == {t \in Rows("BUY") : t.why = "pool"}
PoolSpent == Total([t \in PoolRows |-> Debit(t.lots, t.px)])

\* The industry profile spends no more than the quota on the day's list, its
\* fees included, and leaves every name still to come its whole budget: the
\* order of the list decides nothing.
QuotaHolds ==
  book.industry =>
    /\ PoolSpent <= book.daily_quota
    /\ phase = "pool" /\ per > 0 => cash >= per * Len(todo)

=============================================================================
