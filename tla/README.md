# Verification of the MyQuant backtests

TLA+ models, TLC runs and TLAPS proofs for the core of this repository: the
books and schedulers a backtest trusts with its money. They are

* the order-level minute backend (`minute_orders_backend/`), which replays
  explicit limit orders over one account of cash and tax lots and leaves the
  result as a directory of evidence;
* the global capital pool, which shares cash and a daily quota among all cycles;
* the CSV engines: the daily loop with its latched exits and chases, the
  independent signal groups, and the chronological minute day in which exits,
  tail children, chases and the list compete for cash and completed volume;
* the joint-return replay, which carries dated intents over a minute timeline.

That is the part of the repository that keeps state and makes promises about it,
and a small part of its lines, about one in thirty: most of them are strategy rules over
floating-point prices, readers of market data, reports, gates and scripts, which
section 6 lists with the reason why each is left out.

Paths below are relative to `src/backtest/research/` unless they start with
`src/`; those of section 1.1 and of the modules Totals to Artifacts are in
`minute_orders_backend/` there.

## 1. The system

### 1.1 The minute-order backend

| Part | State | Operations | Correct when |
|---|---|---|---|
| Ledger, `ledger.py` | one published snapshot: cash, lots with `reserved_qty`, reservations, per-order totals, buckets with remaining capacity, fill history, used ids, version | `reserve_buy`, `reserve_sell`, `release_buy`, `release_sell`, `register_bucket`, `apply_fill` | reservations are exact and never overlap; cash, shares and capacity are conserved; a fill is booked once; T+1 |
| Fee model, `fees.py` | none | `cumulative_fee`, `fee_delta`, `buy_fee_upper_bound` | the fee of an order depends on its notional alone; a BUY bound is never exceeded |
| Matching, `match.py` | none | `compute_bucket_capacity`, `match_candidates` | participation is respected in whole lots |
| Clock, `clock.py` | the sorted schedule | validation, event keys, eligibility, sort | no look-ahead; the order of handling does not depend on the order of the input |
| Broker, `broker.py` | order states, visible buckets, position in the schedule | one handler per phase: expiry, cancel, bucket, match, submit, mark | lifecycle and ledger agree; terminal states are final; queue order is respected |
| Runner, `runner.py` | none | run once, then write the evidence | the writer is called exactly once, for success and failure alike |
| Artifact writer, `artifacts.py` | a directory per run id | exclusive mkdir, write, stage and rename, read back, failure evidence | `summary.json` is there exactly for a complete, successful run |
| Source loader, codec, provenance, CLI | none between calls | read, pin, map and re-check input files | the sources did not change under a hybrid run |

How they interact. The broker is the only caller of the ledger. It builds the
whole schedule from the commands before the first event, then handles one event
after the other; a handler reads the ledger's snapshot, computes a proposal and
calls the ledger, which checks the proposal against the snapshot's version and
publishes a replacement with a single assignment. Expected rejections are values;
every other refusal is an exception that ends the replay. The runner turns either
outcome into one call of the artifact writer; the writer never re-runs anything.

What is hard. Nothing here runs in parallel inside a replay; the difficulty is
in long legal sequences whose order the inputs choose: two orders over the same
lot, the same bucket and the same cash; events of one instant, ordered by a key of
six parts; partial fills that re-bound the fee still owed; an expiry, a cancel
and the last fill on one instant; handlers that raise after half of a run was
committed. Around it: file operations that fail one by one, a process killed
between them, two calls for one run id, and sources edited meanwhile.
`PROJECT.json` lists these hazards line by line with the properties that would
catch them.

### 1.2 The rest of the repository

| Part | State and operations | Hard behaviour, and what makes it correct | Here |
|---|---|---|---|
| Global capital manager, `src/backtest/global_capital_manager.py` | cash, daily quota, deferred quotas with expiry, supplementary capital, investments; invest, undo, reflow, reset, audit | an undo after the day or after an expiry; two indexes of one reserve; an investment in two parts with one check each — no amount appears or vanishes | `CapitalPool` |
| CSV ledger, `csv_ledger.py`, `ledger_math.py`, `lot_rounding.py`, `ashare_fees.py` | positions, T+1 lots, groups, cash, quota, rows | partial exits, reopened groups, latched sales — T+1 by lot, one id for one lot | `DailyBook`, `SignalGroups`, `MinuteDay` (partly) |
| CSV loop and drivers, `csv_simulate_loop.py`, `csv_daily_backtest.py`, `csv_minute_backtest.py` | pending chases, the day's quota, pass by pass | the order of scan, chases, list and adds in a day — every signal has one end | `DailyBook`, `SignalGroups`, `MinuteDay` (partly) |
| Shared-minute cash order, `minute_cash_order.py`, `minute_held_scan_core.py` | a chronological schedule over one cash balance, one cursor per held lot | exits and buys of one minute; an exit queued overnight | `MinuteDay` (partly) |
| Volume cap, session, fill clock, tail-window buys | per-minute capacity, parent and child orders | capacity shared by competing orders; parents and lots that tell one story | `MinuteDay` (partly) |
| Joint-return replay, `joint_return_replay.py` | orders, lots by purchase day, marks, capacity of the minute | opposite intents, unit changes between fills, marks looked up lazily | `IntentReplay` (partly) |
| Ex-rights economics | entitlements per event and position | applied once | planned |
| TopK books | none: selection by score | the dropout rule against a reference definition | planned |
| Strategy books and engines | floating-point policy state | decides what to ask of the ledger | not planned |
| Unified exit grids | sweeps over frozen data | no interaction between instances | not planned |
| Run protocol, outputs, accounting checks | none | dispatch and formatting | not planned |
| Market data, factors, infrastructure, Rust kernel, scripts | I/O and numerics | – | not planned |

How they interact. A driver builds the day and calls the loop's passes; a pass
visits a snapshot of codes or lots and, for each, a rule decides and the ledger
books. What one visit does to cash, positions, quota and volume is what the next
one sees, so the order of visits is part of the behaviour. Nothing runs in
parallel; the difficulty is what persists between passes and days: a latched
exit, a pending chase, a queued fill, a group's ladder, a deferred quota. The
capital pool is shared by cycles behind one lock, which makes each of its
methods one step and leaves the order of the methods to its callers.

Every part is a component of `PROJECT.json`, with the reason when it is not
modelled.

## 2. Modules

    Totals ── Fees ── Matching            operators
       │        │        │
       └──── Ledger ─────┘                ledger.py
                │
             Clock                        clock.py
                │
             Broker ── LimitOrders        broker.py, and what it implements
    Artifacts                             runner.py, artifacts.py
    CapitalPool ── PoolAccounts           global_capital_manager.py, and what it implements
    DailyBook                             csv_daily_backtest.py, csv_simulate_loop.py
    SignalGroups                          the groups of csv_ledger.py and the loop
    MinuteDay                             minute_cash_order.py and the cap, cursors, tails
    IntentReplay                          joint_return_replay.py

The proofs of a module are in a module of their own: `TotalsProofs` (which
`BrokerProofs`, `CapitalProofs`, `ReplayProofs` and `DailyProofs` extend),
`BrokerProofs` (in its first part Fees and Ledger, in its second Broker and what it
implements), `ArtifactsProofs`, `CapitalProofs`, `GroupsProofs` (SignalGroups),
`MinuteProofs` (MinuteDay), `ReplayProofs` (IntentReplay) and `DailyProofs` (DailyBook).

**Totals.** Sums over finite functions, by counting, and `Put`/`Without` for
mappings. No code of its own; `sum(...)` and dict updates throughout.

**Fees.** `FeeModel` over integer cents. A rate is a fraction; every rounding
mode the code accepts (`_MONOTONE_ROUNDING`) is modelled by what it does to a
fraction. Decimal precision is left out: the code picks enough digits for exact
products (`fees.py:82-95`).

**Matching.** `BucketCapacity` and `ProposedQty`: participation and remainder,
rounded down to whole lots; `Crosses` compares close and limit.

**Ledger.** Each attribute of the snapshot is a variable of the same name; a
mapping is a function from the identity it is looked up by. `_commit` publishes
with one assignment, so a command is one action; a command that raises leaves the
snapshot alone, so it is disabled; a replayed fill or registration is a stutter.
`ReserveBuy`, `ReserveSell`, `Release`, `RegisterBucket` and `ApplyFill` are the
commands. `ReserveSell` draws lots oldest first (`FifoTake`), `ApplyFill` consumes
the order's own allocation. A `fill:` lot id is the number of the fill.
`LedgerNext` enumerates every command with every argument of the small sets, in
any order, so the ledger is examined for callers more liberal than the broker.

**Clock.** Instants are numbers, `DayLength` of them to a date. `ValidSubmit`
and `ValidCancel` are the command checks, `Eligible` the look-ahead rule, `Events`
the schedule and `Schedule` its sort by the code's key. `Unambiguous` is the
refusal of two events with one key.

**Broker.** One step is one event with every ledger command its handler issues.
A handler that raises ends the run with what was committed; `failure` says by what.
The named failures are those a valid input can reach: `no next trading date`
(`broker.py:58`), `unpayable fill` (`ledger.py:352`), `unpriced holding`
(`broker.py:212`); `contract` stands for all others and `NoContractError` says
they never happen. What a bucket traded is chosen when its BUCKET event is
handled, which no earlier handler can see; the commands are chosen in `Init`
because the schedule is built from them.

**LimitOrders.** The abstract account: an order is decided once, a fill settles
cash against shares within the limit, what is left is given up once, nothing is
overdrawn. `Broker!Account` maps a replay to it: reservations, lots, buckets and
schedule are forgotten, the ledger's cash is the account's cash, its lots are
summed by symbol, an order not yet submitted is `New`.

**Artifacts.** A call is a state (`mode`) and the list of file operations it
still has to do (`todo`); `Program`, `Completion`, `FailureProgram` and `Publish`
are the code's statements in their order, and one step is one operation. Each may
fail with the file missing or half written, or write wrong bytes without an error;
a rename may take effect and still report one. A file is known by what it claims
to be (`says`), what a manifest lists (`refs`) and whether its bytes are the ones
meant (`intact`); rows and hashes are not modelled. `Kill` ends a call between two
steps (a kill during a write is a damaged write and a kill), `ChangeSources` edits
the sources of hybrid runs. A directory is found by run id, so the second call for
the same id is part of the model.

**CapitalPool.** `GlobalCapitalManager`. Every public method holds the instance
lock from its first read to its last write, so a method is one step; a refused
call returns before it assigns and is disabled. `reserved` and `quota` are the
two indexes of the deferred quota the code keeps by separate statements;
`invested`, `supplementary`, `inflow` and `reinvested` are its per-date
dictionaries; `ledger` is the transaction ledger and `cancelled` the reverse
entries in it. The pool does not remember what a use of quota was for, its
caller does: `uses` is the memory of the order handler the docstrings describe,
which uses quota, then records the investment or gives the quota back, and undoes
an investment whose order failed. `AuditPasses` is the daily audit in both its
modes.

**PoolAccounts.** The abstract pool: money is free, aside until a day, in flight,
placed from free money, drawn from money in flight, or paid, and each account pays only
the ones the module names. `CapitalPool!Accounts` maps the pool to it: stocks, quota
records, transactions and the day's counters are forgotten, the standing orders are
summed by what paid for them.

**DailyBook.** `csv_daily_backtest.simulate` for books that split a quota over a
list. A day is three passes, `ScanHeld`, `ChaseDue` and `PoolBuy`, over snapshots
of codes, and one code is one step. A snapshot is sorted (`HeldCodes`, by the rank of
a code) or in the order of the dict (`DueCodes`, where an entry keeps the place it was
first given); a list names no code twice, because the loader refuses one that does
(`pool_csv.py:42-59`). What tells the books apart (rule profile, stop fill, whether
they chase, add, reserve boards, latch at the lower limit) is a record, chosen in
`Init`; what a strategy's rule says is a choice among `Reasons`. Lots and the day's
rows are sets: a lot has an id, and a row names its lot. `fate` is history: what became
of every limit-up signal. The hook for an absolute exit is left out.

**SignalGroups.** The independent groups (S8 in the code) of one code: the lots
of each signal day, one exit decision for all of them, a ladder of price adds,
the latch that waits for T+1 and for an open above the limit, and the reopening of
a closed group by a continuation rung. Prices are reduced to the limits and the
rung they reach. `ids` and `locked` are history: ids given out, and lots T+1 held
back on the day of the decision.

**MinuteDay.** `run_chronological_day`: in every minute the held lots see the
open (`HeldScan` in phase `open`), the tail parents are opened (`StartParents`),
the held lots see the close, and then children (`TailSlice`), chases (`ChaseDue`)
and the list (`PoolBuy`) buy. All share `cash` and the volume `used` of a bar. A
cursor is a lot in `cursors`, its `first_exit_attempted` is `tried`, its queued
fill is in `queue`, which outlives the day. The lots of a phase are visited in any
order, which includes the code's, so no property depends on it. `kept` is history: the
codes held when the tail window opened and ever since, so that a name cleared in between
can be told from one that may still be added to.

**IntentReplay.** `joint_return_replay._Replay`. `Advance` is everything that
happens between two opportunities: the close of the minute before, the unit
changes that are due, expiry, activation; `Open` starts the minute and collects
the eligible orders; each attempt waits, freezes the order for the day, refuses it
or fills it. Marks are the sites they were read at, so that "the right price at the
right time" can be asked without prices; `full` is history: the marks of a replay
that updates every instrument at every point.

MC modules (`MCLedger`, `MCBroker`, `MCArtifacts`, `MCCapitalPool`, `MCDailyBook`,
`MCSignalGroups`, `MCMinuteDay`, `MCIntentReplay`) hold the small instances. The
operators a comment calls a *fault* are not part of the model: each is a
plausible mistake in the definition after it, used to see that a property
notices it.

## 3. Runs

| Run | Size | Shows |
|---|---|---|
| `ledger` (`MCLedger.cfg`) | 88 thousand states | every interleaving of every command by two orders |
| `replay` (`MCBroker.cfg`) | about 1 million states | every replay of the chosen commands with every outcome of three buckets |
| `replay_live` (`MCBrokerLive.cfg`) | the same instance, fewer commands | expiring orders get a final status |
| `artifacts` (`MCArtifacts.cfg`) | 136 thousand states | two calls for one run id under every failure and kill |
| `capital` (`MCCapitalPool.cfg`) | 261 thousand states | every order of calls on a pool two stocks share |
| `capital_audit` (`MCCapitalPoolAudit.cfg`) | violated | the audit after an undone investment |
| `daily` (`MCDailyBook.cfg`) | 2.3 million states | three days of three books with every quote of two codes |
| `groups` (`MCSignalGroups.cfg`) | 2.5 million states | two groups of one code over five days |
| `minute` (`MCMinuteDay.cfg`) | 1.7 million states | tail window, chases, list and exits under a volume cap |
| `minute_next` (`MCMinuteDayNext.cfg`) | 177 thousand states | exits that fill at the next open |
| `minute_carry` (`MCMinuteDayCarry.cfg`) | violated | the same under a volume cap |
| `intents` (`MCIntentReplay.cfg`) | 490 thousand states | two books of intents over three days and a unit change |

Each takes up to a few minutes with two workers.

**ledger.** `ReservationsAreExact` and `BuyFillIsCovered`: a BUY has set aside its
worst case and a SELL lots for its remainder, after any partial fills, and no fill
within the limit can need more. `ReservedSharesAreLent`: what lots have reserved
and what orders hold is one thing seen from two sides. `FeesFollowNotional`.
`AccountIsConserved`: replaying the fill history gives the cash, the shares and the
capacity that are there. As action properties `HistoryIsFinal` (nothing recorded
is undone, a fill replaced the very snapshot it was computed from),
`SharesLeaveOnlyWhenSellable`, `SellsReserveOldestFirst`; and `LedgerTypeOK`.
Bounds: two interchangeable orders (two is what it takes to compete), one symbol,
one bucket, three fills, so that an order can be filled in parts while another one
trades; two initial lots with different sellable dates, so that a SELL can span
lots; three dates; two prices, so that fills may better the limit; two lot sizes
and a quantity of three, so that odd quantities are tried; a fee of half the
notional with a floor as large as a small fill, so that floor, rounding and
reservation interfere. Runs may stop: ids and fills are used up.

**replay.** `OrdersAgreeWithLedger`; `NoContractError`; `FillsObeyTheMarket` (no
look-ahead, participation, no same-day resale); `ExpiryBeatsCancel`;
`NoFillJumpsTheQueue`; and the refinement `SettlesLimitOrders`. Two orders, two
buckets of one date on either side of lunch and one on the last date of the
calendar; a bucket is missing, halted, or trades at, below or above the limits with
more or less volume than the orders want; orders are submitted before a bucket, as
it begins, or as it ends, expire between buckets, at a bucket's end, with the run or
after it; a cancel falls between buckets or on the instant of an expiry; marks price
the holding or do not. All three abort reasons other than `contract` are reached.

**replay_live.** `ExpiringOrdersFinish` under `WF(Next)`: unless a handler raises
one of the named errors, every order that expires within the run gets a final
status. The fairness is that of `run()`, a loop over a finite list with nothing to
wait for: it does not stop between two events. Fewer commands, because liveness
checking needs the whole graph.

**artifacts.** `SummaryMeansComplete` (at every instant, whenever the marker is
there so is everything else, undamaged, under a manifest that lists it);
`ReportMatchesDirectory` (what a call returns or raises agrees with what it left);
`SuccessSawPinnedSources`; `OnlyTheOwnerWrites`; `CallsEnd`. One synthetic and one
hybrid call with one run id; calls with different ids share nothing. `MaxDamage`
bounds how many files of a directory hold wrong bytes at once: two, so that a
damaged document and a damaged piece of failure evidence meet. Fairness is
`WF(Progress(w))` for each call: one that is not killed goes on. `Kill` and
`ChangeSources` have none.

**capital.** `MoneyIsConserved` (what is free, reserved, in flight, invested and paid
in commission adds up to the capital and the reflow); `IndexesAgree` (the reserve by
expiry is the sum of the stocks' records); `DailyQuotaHolds`; and the refinement
`MovesBetweenAccounts`, which says more than conservation: lapsed money is free before
any of the rest is used, so that no use takes what has expired, although the loop that
takes quota looks at no date; and an order that is undone pays the account that paid for
it. Two interchangeable stocks,
three days of which the first is no trading day, so that quota deferred then
expires on a later trading day or on the last one of the calendar; a validity of one
or two trading days; a capital of three and a day's quota of two with amounts of one
and two, so that an order may exhaust the quota, need supplementary capital for a
part, or be refused by either check. `MaxTransactions = 2` bounds the ledger to two entries, which
compete for one quota or one of which is undone before the other is made, and
`MaxUses = 1` the uses of deferred quota.
Days pass freely and in any order: a call names its day, as in the code. Deadlock is
checked: a pool can always be reset.

**capital_audit.** `AuditAcceptsUndoneOrders` is violated, see section 5.

**daily.** `TradesAreLegal` (no purchase at the upper limit, no sale at the lower one
but the stop the rules name, one lot of a name in a book that does not add);
`ChasesAreJudgedOnce` (a pending chase waits for its first quoted day, is judged
then, once, and every signal has one end); `QuotaHolds` (the list spends no more than
the quota, fees included, and leaves every name its budget); and the action property
`LatchedExitsLeaveAtTheOpen`. Two codes and three days, so that a chase can fall due
on a day with or without a bar while its name is listed again, and a latched exit can
meet a second limit-down day. A quote rises, falls, is sealed or opened at the upper
limit, crashes to the lower one, has no bar, or fails one gate. Three profiles: at
the ends of what the engine offers an industry book with adds, chases, reserved
boards and latches and a legacy book with none of them, and between them a legacy book
that holds a name once but chases it, so that the chase and the list of one day may both
want it. Runs stop after the last day.

**groups.** `GroupsAgree` (closed exactly while empty, one cap of adds for all groups);
`SettlementIsKept` (T+1 lot by lot, and exactly the rows it delayed say so);
`ExitsFinish` (a decided exit takes the whole group at the first open that trades, and
nothing joins it meanwhile); `LotIdsAreNeverReused`. Two signal days, so that groups
share the cap; three rungs of which two are continuations; a cap of four adds, fewer
than the rungs of both; five days, enough for purchase, add, partial exit, retry,
reopening and a second exit.

**minute.** `VolumeIsShared`; `SlicesAgree` (parent and merged lot, settled debits and
cash); `NamesTradeOnce` (one exit of a lot a day; and the list adds only to names held
ever since the tail window opened: it buys none the window took, and none an exit cleared
between the window's opening and the list, `minute_cash_order.py:880-884`). Two codes and
three days of four minutes: the chase minute, the opening of the tail window, the list
minute and the close, the last three of them tail minutes, so that a name held at the
opening can be cleared at that minute's close or in the list minute itself. The cap is two lots of a bar against children of up to three,
so that clipping happens; the cash is what it takes for parents that large. A frame is quiet,
sealed at the end, opens at the lower limit, loses minutes or is missing.

**minute_next.** `QueuedExitsFill`: what an opening sells was decided on an earlier bar
and leaves at the first open that lets it, over missing bars and nights. The same
frames without tail window and without cap, and cash the list of one day uses up.

**minute_carry.** `QueuedExitsLeave`, the second half of that, is violated once there
is a cap, see section 5.

**intents.** `AccountFollowsOrders` (lots, cash, fees and remainders are what the orders
made them, across a change of units); `FillsAreLegal` (an order trades within its clocks,
not once an opposite intent became available, not on a frozen day, never shares bought
today, within the minute's capacity); `MarksAreExact` (a mark looked up lazily is the
mark of a replay that updates everything). Two books: one that sells "a" over its unit
change against buying it again, with almost all the cash in "b", so that the fee of
selling a share is not covered; one whose purchase of "a" is part done when its unit
changes. Three days of two, two and one minutes; every minute is thin, deep, halted, at
a limit or missing. Both fill rules.

No run but `replay_live` and `artifacts` assumes fairness. The other loops walk finite
lists, so that what must eventually happen in them is stated as what has happened when
a pass is over (`ExitsFinish`, `ChasesAreJudgedOnce`, `QueuedExitsFill`), which needs
none and says more.

## 4. Proofs

TLAPS checks these for every value of the constants. The assumptions are named and
TLC evaluates each of them on every run of its module: `LedgerAssumption` (the
identities are finite sets, prices, quantities and lot sizes are positive, the fee
model is one the code accepts, the initial holding is one `Ledger.__init__`
accepts), `ClockAssumption` and `BrokerAssumption` (the calendar is a finite set of
dates; the sessions of the run lie on one trading date each and do not overlap; a
symbol has one lot size; the initial lots were bought before the start, and their
quantities fit it; quotes are quotes; a fill id names one order and one bucket),
`ArtifactsAssumption`, `PoolAssumption` (finite stocks, a calendar with a
trading day, amounts and validities are positive), `GroupsAssumption` (signal days in
the calendar, a ladder with its continuation rungs), `DayAssumption` (minutes inside
the day, the tail window opens after the chase minute and no later than the list minute,
as 9:45, 14:30 and 14:55 do, amounts are natural numbers, an order fee below the price
of a lot) and
`InputAssumption` (what the replay's validation accepts: an intent is priced before it
is available, available before it takes effect, and expires later; an exit expires at
the end of a day; the account starts with cash or shares; a purchase is in board lots; a factor is a positive fraction; and,
in `WholeUnits`, shares and prices are counted in units so small that a unit change of
what exists before it comes out whole, as it does in the Decimals the code multiplies
and divides, `joint_return_replay.py:919-936` and 1019) and `BookAssumption` (finitely
many codes that sort, lists without repetition, quotes that are quotes, profiles that
are profiles, amounts of money that are natural numbers).

* **TotalsProofs** — the laws of sums. `Total(f)` is the number of units
  `{<<x, i>> : i \in 1..f[x]}`, so each law (put, remove, change one entry, add,
  subtract, compare) follows from finite cardinality, with no induction over data;
  so does `LargestExists`, a finite set of numbers has a largest one, on which the
  calendar of the capital pool rests. `CountUp` is induction over the numbers up to a
  bound, stated for a set of them (a set that does not hold them all has a smallest
  number it lacks): with it `TotalTimes` and `TotalPrefix` follow, the sum of multiples
  and the sums up to a day.
* **BrokerProofs**, part one, the ledger — first the operators. `QuantizeMonotone`: rounding is monotone in
  every accepted mode; so is `CumulativeFee`; so `FeeDeltaNonnegative`: the error
  "fee model is not monotone" cannot arise. `FifoTakeTotal`: number the shares on
  offer in the order they are drawn (shares of older lots first); the numbering is
  one-to-one into `1 .. total`, hence onto by counting, and drawing the first `q` takes
  exactly `q`. Then the inductive invariant

      LedgerIInv == LedgerTypeOK /\ BuyReservationIsExact /\ ReservedSharesAreLent
                    /\ SellRemainderIsBacked /\ FeesFollowNotional

  Type correctness alone is not inductive. That a release or a fill does not take
  a lot's `reserved_qty` below zero needs `ReservedSharesAreLent`; that the last
  SELL fill leaves no residue in its allocation needs `SellRemainderIsBacked`;
  that the cash of a partly filled BUY stays non-negative, and what it keeps is
  what its reservation must hold, needs `BuyReservationIsExact` with
  `FeesFollowNotional`. The proof has one lemma per command
  (`ReserveBuyStep`, `ReserveSellStep`, `ReleaseStep`, `RegisterBucketStep`,
  `BuyFillStep`, `SellFillStep`), each over lemmas on how one changed reservation
  moves the sums (`LentPut`, `LentWithout`, `LentUpdate`, `FeesPut`, `FeesUpdate`).
  The theorems are `LedgerInvariant` and its readings `LedgerTypeCorrect`,
  `ReservedSharesAreAlwaysLent`, `ReservationsAreAlwaysExact`,
  `FeesAlwaysFollowNotional` and `BuyFillIsAlwaysCovered` (from `RequirementCoversFill`: what a fill costs plus
  what the rest then requires never exceeds what was required before, because the
  differences of a monotone cumulative fee telescope).

  On top of it stands what the fill history says. The laws are stated over values (`CashMoves`, `SharesMove`, `CapacityMoves`: what one more fill
  does to replaying a history) and the commands only have to show which values they
  publish. The invariant

      HistoryIInv == LedgerIInv /\ AccountIsConserved /\ FillsAreBooked /\ LoansMatchSymbol

  needs two facts no run states: a bucket that is just installed has traded nothing
  yet because every fill's bucket is known (`FillsAreBooked`), and a sale leaves only
  lots of its own symbol because an order borrows only those (`LoansMatchSymbol`). The
  theorems `AccountIsAlwaysConserved`, `HistoryIsAlwaysFinal`,
  `SharesOnlyLeaveWhenSellable` and `SellsAlwaysReserveOldestFirst` complete the
  ledger: every property of run `ledger` is proved.

* **CapitalProofs** — three invariants, each over the one before. `PoolIInv` carries the
  types, the agreement of the two indexes and what uses took; that quota is not used
  after its expiry follows from the release of what expired, which precedes every use,
  and from expiry dates being days of the calendar (`ExpiryType`). `MoneyInv` adds
  `UsesMatch`: uses and standing deferred investments match one to one, without which an
  undone use would be counted twice or not at all. From it follow the audit's error, by
  splitting the ledger's investments into those that stand and those undone
  (`LedgerParts`), and the refinement: one lemma per method (`ReleaseMoves` to
  `ResetMoves`) names the move of `PoolAccounts` it is. `QuotaInv` adds `SuppFits`: a
  supplementary part is no larger than its investment and none is in an ordinary
  one. The theorems are `PoolNeverLends`, `ReserveIndexesAlwaysAgree`,
  `ExpiredQuotaIsNeverUsed`, `MoneyIsAlwaysConserved`, `DailyQuotaAlwaysHolds`,
  `AuditAlwaysErrsByTheUndone` and `PoolMovesBetweenAccounts`
  (`Spec => Accounts!Spec`): every property of run `capital`, and two that no run
  states: `NoExpiredQuotaIsUsed`, and `AuditErrsByTheUndone` (the sum the daily audit
  compares with the capital is off by the undone investments less the money in flight,
  and by nothing else, which is the exact extent of the finding in section 5).

* **GroupsProofs** — `GroupsIInv == LotsInv /\ PassInv`. Three things have to be known
  together: a lot's id was given out and the group's counter is past it
  (`IdsAreNumbered`); the lots of a latched group that are locked are those that entered
  on the day of the decision or later (`LatchesAreDated`), which rests on `AgesAreKnown`;
  and a scan at a trading open still has every group that is due ahead of it
  (`ScanIsAhead`). Theorems `GroupsTypeCorrect`, `GroupsAlwaysAgree`, `LotIdsStayUnique`,
  `SettlementIsAlwaysKept`, `ExitsAlwaysFinish`: every property of run `groups`.

* **MinuteProofs** — `DayInv`, in seven parts: the pass, the account, the ages of lots
  (what has a cursor is older than the day, so what the tail window buys stays in its
  lot), what was sold (it has ended its scan), the queue (an exit was queued at a bar
  that is over when a later open looks at it), the tail (parents and lots agree) and the
  window (from its opening on every held name is the window's or is in `kept`: chases are
  over by then, children only buy names of the window, the list only names that are held,
  and a sale that leaves something of a name leaves it in `kept`). Theorems `MinuteTypeCorrect`,
  `VolumeIsAlwaysShared`, `SlicesAlwaysAgree`, `NamesAlwaysTradeOnce`, and
  `QueuedExitsAlwaysFill`, which needs `~Capped`: with a cap it is false.

* **BrokerProofs**, part two, the broker — `BrokerIInv` puts the broker's books beside the ledger's
  `HistoryIInv`, in ten parts named after what fits: the agenda (it is sorted, and what
  was handled is before it), the order states, the reservations, the fills, the
  buckets, the queue, and so on. Agreement of the two books is not inductive alone. That
  an order is submitted once, expires before it is cancelled, and is matched only
  against buckets it may see needs `AgendaFits`; that the ledger accepts what the
  handler proposes needs `ReservationsFit` and `BucketsFit` (a reservation is in whole
  lots, and the lots it borrows were sellable on its day); that a better placed
  order has left less than a lot of a bucket needs `QueueFits`. Theorems
  `OrdersAlwaysAgree`, `FillsAlwaysObeyTheMarket`, `ExpiryAlwaysBeatsCancel`,
  `TheQueueIsKept` and `NeverAContractError`. The last has the hypothesis
  `LotNamesAreFree`: an initial lot may have the name of a later fill, nothing in the
  code keeps the two apart, and the ledger then refuses the fill (section 5).
  `SettlesTheOrders` is the refinement: `Spec => Account!Spec`. Each handler is shown to
  be one of four abstract moves: one the account does not see (`Unseen`), a decision
  (`Decides`), the end of an order (`Ends`) or a fill (`Settles`), for which the
  ledger's sums by symbol are what a fill of one lot, or of several, leaves of them.

* **ArtifactsProofs** — `ArtifactsIInv == RootsFit /\ CallsFit`. `Fits` says, for every
  mode of a call and every number of its statements still to do, what the directory
  holds: the invariant a reader of the code would write between any two lines. A step
  that fails, writes half, lies or is killed has to land in one of these states, and a
  call that does not own the directory changes none of them. Theorems
  `MarkerMeansComplete`, `ReportIsHonest`, `SuccessIsPinned` and the action property
  `DirectoriesAreOwned`: every safety property of run `artifacts`, for any number of
  calls and run ids.

* **ReplayProofs** — `ReplayIInv == ReplayTypeOK /\ MarksFit /\ OwnersFit`, and
  `LegalIInv`, which adds `ClocksFit`, `MinuteFits` and `SharesFit`, and `AccountIInv`,
  which adds `TapeFits` and `AccountFits`. `MarksFit` says of an
  instrument that is not live that its mark *would be* the eager one if it were looked
  up now; a lookup, a new site, a unit change and a halted instrument each keep that,
  for a reason of their own. `OwnersFit` is there because a fill can end a holding and a
  purchase begin it: an instrument has one lot while an order of it is working. For
  `FillsAreLegal`, `ClocksFit` shows that no expiry and no opposite intent is passed
  over, because the timeline contains each of these times and `Advance` goes to the next;
  `SharesFit` bounds the shares of a lot by purchase day by its quantity, which a sale
  keeps because it draws on the earlier days only (`DrawnBelow`, over prefix sums) and
  a unit change keeps although it floors every day on its own; and `MinuteFits` adds up
  the fills of a minute and what is left of its capacity. For `AccountFollowsOrders`,
  the balance of every lot name the book can speak of (`LotsBalance`: the shares there
  are plus what was sold, the shares at the start plus what was bought) is kept by a
  fill because it moves one order and one lot by the same amount (`FilledMoves`), and by
  a unit change because all four sums scale alike (`FilledScales`). That needs two
  facts no run states: until its unit changes all there is of an instrument is whole,
  the capacity left in the minute included (`WholeFits`), or the quotients would round
  apart; and a lot name speaks of one instrument only, closed and never filled lots
  included (`NamesFit`), or the change would scale a part of the sums. `MoneyFits`
  follows each fill's notional and the fee it adds (`MoneyMoves`). Theorems
  `MarksAlwaysExact`, `FillsAlwaysLegal` and `AccountAlwaysFollows`: every property of
  run `intents`.

* **DailyProofs** — `DailyTypes == DailyTypeOK /\ PassFits`, where `PassFits` says of the
  codes a pass has still to visit that none comes twice and that a chase pass has only
  pending ones ahead of it: the day's chases are a snapshot, and each visit takes its
  entry out. Over the types stand three invariants. `LegalFits` adds `LatchesAreOld` to
  what `TradesAreLegal` says: an exit is latched on a day after the purchase, so T+1
  never holds back a latched lot, and the scan passes `StopExit`, `RuleExit` and the rest
  only with lots that have no latch. A book that does not add buys a name only when it holds
  none, whichever pass comes first. `ChaseFits` adds the ages of pending entries and of
  signals (`PendingAge`, `FateAge`): a name the list has still to reach has no signal of
  today, so that a new signal is not in `fate` yet and the counters stay equal to the
  number of fates. Why no signal takes the entry of an earlier one needs `ChasesLeft`:
  what a chase pass leaves has no bar today, and a name without a bar is not queued.
  `QuotaFits` adds `BuysFit` (a row of today's purchases names a lot that is still held
  after the scan, so the row of the next purchase is a new one and the sum over the rows
  grows by exactly its debit) and `BudgetsFit` (what was spent plus the budgets still to
  come is within the quota, and they are within the cash). That an industry debit fits its
  budget rests on `PayableFacts`: the payable quantities are downward closed, so their
  number is the largest of them. The second half of `QuotaHolds` is about positive
  budgets: a minimum fee above the proceeds of a sale can take the cash below zero, and
  then there is no budget to keep. Theorems `DailyTypeCorrect`, `TradesAlwaysLegal`,
  `ChasesAlwaysJudgedOnce`, `QuotaAlwaysHolds` and the action property
  `LatchedExitsAlwaysLeave`: every property of run `daily`.

Every safety property of every passing run is proved. Out of the
prover's reach and left to TLC: liveness under fairness (`CallsEnd`, `ExpiringOrdersFinish`), ENABLED, and
the two violated properties. The theorems of the library that do induction take an
operator as a parameter, which no backend instantiates; where the proofs need induction
it is over a set of numbers (`CountUp`) or replaced by counting. The modules declare
nothing RECURSIVE.

## 5. Observations

Facts about the code met while modelling. Two contradict what the repository says of
itself and are the findings of `PROJECT.json`:

* **The audit after an undone investment** (`src/backtest/global_capital_manager.py:236`).
  `undo_investment` returns the money and appends an `INVEST_CANCEL` entry, which the
  design note says keeps the audit whole; the audit sums `INVEST` and `REFLOW` entries
  only, so after one undone order the balance fails by its amount. Run `capital_audit`.
* **Queued exits under a volume cap** (`minute_held_scan_core.py:226`). The cursor takes a
  queued exit off its fill state before the order meets the cap; the order is clamped with
  the minute before as its time, which the cap always refuses
  (`ashare_volume_cap.py:57`), and nothing queues it again. The documentation of the fill
  setting says such an exit always fills at the next eligible open and that the carry is
  kept until the lot is closed. Run `minute_carry`.

A third departs from a docstring and is not run:

* **The breakdown of chases.** `chase_explained` is documented as the sum of the chase
  outcomes "that should line up with the limit-up skips"
  (「涨停跳过应对齐的追买分解合计」, `csv_ledger.py:788-799`), and the report prints the
  two side by side (`csv_artifacts.py:358`). A chase that the index gate ends
  (`csv_simulate_loop.py:328`), or a buy gate, an add rule, an ST name or an unknown board,
  is counted under that refusal and under no `chase_*` counter, so the sum falls short of
  the skips by these. `fate` in `DailyBook` follows the code: every signal has one end,
  whatever counter it is under (`ChasesAreJudgedOnce`).

The others contradict nothing the repository states:

* Undoing an investment with a supplementary part leaves its regular part in the day's
  `investment_records` (`src/backtest/global_capital_manager.py:752`): the day's quota
  stays used up by an order that no longer stands. `DailyQuotaHolds` therefore bounds
  the standing investments by the record and does not equate them.
* Nothing marks an investment as undone when `undo_investment` looks it up
  (`src/backtest/global_capital_manager.py:768`); a second undo pays its money back
  again. The modelled order handler undoes an order once.
* A SELL reserves no cash for its fee. When all cash is reserved by BUY orders
  and the fee floor exceeds the proceeds, `apply_fill` refuses the fill
  (`ledger.py:352`) and the replay aborts; the books agree at that point.
* A BUY that trades on the last date of the calendar has no sellable date and
  aborts the replay (`broker.py:58`).
* An initial lot with an id `fill:<fill id>` of a later BUY fill makes that fill
  fail (`ledger.py:335`); the instances keep the two kinds of ids apart.
* When recording a run's failure fails after its evidence was staged, the second
  recording always finds the staged file in its way (`artifacts.py:320-332`) and
  the error says that evidence could not be written. The marker is gone by then,
  so no reader is misled. This is the outcome `raised without evidence`, the one
  in which nothing is promised about the directory beyond `SummaryMeansComplete`:
  a summary may stand there, over a complete run, when its
  rename reported an error and its removal then failed too.

## 6. Not modelled

*Minute-order backend.* Argument types, time zones and the text of errors;
`available_at` (checked against `submitted_at` and used nowhere else); the list of
transitions and mark observations, which are only reported; the rows and hashes inside
artifacts; the checks of the evidence request, which precede the directory; the parsing
and certification of sources and the side tools around the backend, whose state is what
they return.

*Capital pool.* Log lines, summaries and the lock itself; the tolerance of 0.01 that
absorbs floating-point noise (money is a natural number here).

*CSV engines.* Parked cash, skims and scale-outs, per-name budgets, rebalance rows, the
per-order fee ledger, overlay and regime passes, version 9, step adds of plain lots, the
second ladder and rebuy queue of the groups, the minute-open and session books, minute
top-k purchases, the advance of the signal groups inside a minute and side orders. How a
rule arrives at its verdict, and how limit prices and budgets are computed from bars, is
a choice of the environment: the strategy books and engines are dozens of policies of
the same shape over floating-point prices, and decide what is asked of the ledger, not
whether the ledger keeps its promises.

*Joint-return replay.* The abort before the first attempt of a day on which the account is
worth nothing (`joint_return_replay.py:1151`): nothing trades between the daily mark of the
day before, or the initial mark (`:783`), and that attempt, so an account that passed the
one passes the other, and `NavIsPositive` stands at the daily marks only. The contract and
hash checks of the frozen bundle, the daily
metrics and the columnar packs of the bars. The precision of Decimals: shares and
prices are natural numbers, counted so finely that a unit change leaves no remainder
(`WholeUnits`).

*Without state of their own, so that a state model has nothing to say:* the unified exit
grids (sweeps over independent instances), the run protocol (a dispatch table), output
and accounting checks (formatting), readers of market data, factors and price domains
(I/O and numerics), the turnover-resistance kernel (arithmetic over floating-point
series, in parallel over independent stocks), configuration, logging and secrets, and
the scripts, gates and generators that make up most of the repository's lines.

*Not yet modelled:* the ex-rights entitlements and the TopK selection (section 7).

## 7. Plan

Done: Totals, Fees, Matching, Ledger → Clock, Broker → LimitOrders → the ledger's
inductive invariant and its history → Artifacts → CapitalPool → PoolAccounts and their proofs → DailyBook
→ SignalGroups and its proofs → MinuteDay and its proofs → IntentReplay → the proofs of
Artifacts, Broker with its refinement, IntentReplay and DailyBook.

Still to model, in this order:

1. `ExRights`: entitlements of cash and shares per event and position, applied once
   across partial sales and reopened groups.
2. Inside `SignalGroups`: the second ladder and the rebuy queue; inside `MinuteDay`: the
   advance of the groups, the minute-open and session books and side orders; inside
   `DailyBook`: the overlay and regime passes and step adds.
3. `TopkDropout`: the selection rule against a reference definition over bounded scores.
