---------------------------- MODULE CapitalPool -----------------------------
(***************************************************************************)
(* GlobalCapitalManager (backtest/global_capital_manager.py): one pool of  *)
(* cash shared by every cycle of a backtest, the part of it reserved for   *)
(* purchases a limit-up price postponed, the day's investment quota and    *)
(* the transaction ledger the daily audit reads.                           *)
(*                                                                         *)
(* Every method holds the instance lock from its first read to its last    *)
(* write, so a method is one step.  A refused call returns before it       *)
(* assigns anything: its guard is false here.  Dictionaries with a default *)
(* of zero are total functions, and an entry the code deletes is zero.     *)
(* Money is a natural number; the code's tolerance of 0.01, which absorbs  *)
(* floating-point noise, has nothing to absorb and is left out.            *)
(*                                                                         *)
(* The pool's caller is the order handler its docstrings describe: it uses *)
(* deferred quota, then records the investment or gives the quota back,    *)
(* and undoes an investment whose order failed.  Its memory is uses.       *)
(***************************************************************************)
EXTENDS Integers, FiniteSets, Totals

CONSTANTS
  Stocks,
  LastDay,          \* the calendar is 1 .. LastDay
  TradingDays,      \* the trading_days the pool is constructed with
  DeferredDays,     \* _deferred_quota_valid_days
  ValidDays,        \* validities a caller asks for
  TotalCapital, DailyInvestment,
  Amounts,          \* amounts a caller asks for
  MaxTransactions,  \* bound on _next_transaction_id
  MaxUses           \* bound on the uses of quota

Days == 1 .. LastDay

ValidPool ==
  /\ IsFiniteSet(Stocks)
  /\ LastDay \in Nat
  /\ TradingDays \subseteq Days /\ TradingDays # {}
  /\ DeferredDays \in Nat \ {0} /\ ValidDays \subseteq Nat \ {0}
  /\ TotalCapital \in Nat /\ DailyInvestment \in Nat
  /\ Amounts \subseteq Nat \ {0}
  /\ MaxTransactions \in Nat /\ MaxUses \in Nat

ASSUME PoolAssumption == ValidPool

VARIABLES
  available,      \* available_regular_capital
  reserved,       \* _deferred_reserved_by_date: expiry -> amount
  quota,          \* _deferred_quota_records: stock, expiry -> amount
  invested,       \* investment_records: date -> regular investment
  supplementary,  \* _supplementary_capital_used: date -> amount
  inflow,         \* _daily_reinvestment_inflow: date -> amount
  reinvested,     \* _daily_reinvestment_used: date -> amount
  commission,     \* total_commission
  ledger,         \* _transaction_ledger, but for the UNDO_ entries: number -> entry
  cancelled,      \* numbers of the investments that have an UNDO_ entry
  uses            \* the caller's: number of a use of quota -> what it took

vars == <<available, reserved, quota, invested, supplementary, inflow,
          reinvested, commission, ledger, cancelled, uses>>

Sources == {"NORMAL", "SUPPLEMENTARY", "DEFERRED"}

\* supp is the share the entry's ref_info records; the amount is unsigned.
Entry ==
  [type : {"INVEST", "REFLOW", "COMMISSION", "INVEST_CANCEL"}, source : Sources,
   date : Days, amount : Nat, supp : Nat]

\* tx is the deferred investment the use paid for, 0 while there is none.
Use == [stock : Stocks, date : Days, details : [Days -> Nat],
        tx : Nat, open : BOOLEAN]

NoMoney == [d \in Days |-> 0]

Init ==
  /\ available = TotalCapital
  /\ reserved = NoMoney
  /\ quota = [p \in Stocks \X Days |-> 0]
  /\ invested = NoMoney
  /\ supplementary = NoMoney
  /\ inflow = NoMoney
  /\ reinvested = NoMoney
  /\ commission = 0
  /\ ledger = Empty
  /\ cancelled = {}
  /\ uses = Empty

NextId(f) == Cardinality(DOMAIN f) + 1

MayRecord == Cardinality(DOMAIN ledger) < MaxTransactions

Record(e) == ledger' = Put(ledger, NextId(ledger), e)

(***************************************************************************)
(* Expiry                                                                  *)
(***************************************************************************)

\* The days-th trading day after from, or the last one the calendar has.
ExpiryDate(from, days) ==
  LET later == {t \in TradingDays : t > from}
      reached == {t \in later : Cardinality({u \in later : u <= t}) = days}
  IN IF reached # {} THEN CHOOSE t \in reached : TRUE
     ELSE CHOOSE t \in TradingDays : \A u \in TradingDays : u <= t

\* Mutant of Expired: the last day of a reserve is no longer a day to use it.
ExpiredOnItsDay(e, today) == e <= today

Expired(e, today) == e < today

\* _release_expired_deferred: what the pool holds once expired reserves are back.
AvailableAt(today) ==
  available + Total([e \in Days |-> IF Expired(e, today) THEN reserved[e] ELSE 0])

ReservedAt(today) ==
  [e \in Days |-> IF Expired(e, today) THEN 0 ELSE reserved[e]]

\* Mutant of QuotaAt: a release leaves the stocks' records.
KeepsRecords(today) == quota

QuotaAt(today) ==
  [p \in Stocks \X Days |-> IF Expired(p[2], today) THEN 0 ELSE quota[p]]

\* Every query, the daily audit and the close of the day release first.
ReleaseExpired(today) ==
  /\ available' = AvailableAt(today)
  /\ reserved' = ReservedAt(today)
  /\ quota' = QuotaAt(today)
  /\ UNCHANGED <<invested, supplementary, inflow, reinvested, commission, ledger,
                 cancelled, uses>>

(***************************************************************************)
(* Deferred quota                                                          *)
(***************************************************************************)

DeferQuota(s, from, amount, days) ==
  LET e == ExpiryDate(from, days) IN
  /\ amount <= available
  /\ available' = available - amount
  /\ reserved' = [reserved EXCEPT ![e] = @ + amount]
  /\ quota' = [quota EXCEPT ![<<s, e>>] = @ + amount]
  /\ UNCHANGED <<invested, supplementary, inflow, reinvested, commission, ledger,
                 cancelled, uses>>

QuotaOf(q, s) == [e \in Days |-> q[<<s, e>>]]

\* What a use of amount takes from the records of one stock, by expiry.
Taken(record, amount) ==
  [e \in Days |->
     LET earlier == Total([x \in 1 .. (e - 1) |-> record[x]]) IN
     IF earlier >= amount THEN 0 ELSE Smaller(record[e], amount - earlier)]

\* Expired reserves return first, also when the stock then has no quota left.
UseDeferredQuota(s, today, amount) ==
  \E record \in {QuotaOf(QuotaAt(today), s)} :
  \E actual \in {Smaller(amount, Total(record))} :
  \E details \in {Taken(record, actual)} :
    /\ available' = AvailableAt(today)
    /\ reserved' = [e \in Days |-> ReservedAt(today)[e] - details[e]]
    /\ quota' = [p \in Stocks \X Days |->
                   QuotaAt(today)[p] - (IF p[1] = s THEN details[p[2]] ELSE 0)]
    /\ uses' = IF actual = 0 THEN uses
               ELSE Put(uses, NextId(uses),
                        [stock |-> s, date |-> today, details |-> details,
                         tx |-> 0, open |-> TRUE])
    /\ UNCHANGED <<invested, supplementary, inflow, reinvested, commission, ledger,
                   cancelled>>

\* undo_deferred_quota: with the details the use returned, or without them.
Restored(use, withDetails) ==
  IF withDetails THEN use.details
  ELSE [NoMoney EXCEPT ![ExpiryDate(use.date, DeferredDays)] = Total(use.details)]

UndoDeferredQuota(k, withDetails) ==
  /\ uses[k].open /\ uses[k].tx = 0 /\ MayRecord
  /\ \E back \in {Restored(uses[k], withDetails)} :
       /\ reserved' = [e \in Days |-> reserved[e] + back[e]]
       /\ quota' = [p \in Stocks \X Days |->
                      quota[p] + (IF p[1] = uses[k].stock THEN back[p[2]] ELSE 0)]
  /\ Record([type |-> "INVEST_CANCEL", source |-> "DEFERRED", date |-> uses[k].date,
             amount |-> Total(uses[k].details), supp |-> 0])
  /\ uses' = [uses EXCEPT ![k].open = FALSE]
  /\ UNCHANGED <<available, invested, supplementary, inflow, reinvested, commission,
                 cancelled>>

(***************************************************************************)
(* Investments                                                             *)
(***************************************************************************)

\* _allocate_investment_funds: the day's reflow is spent first, on paper.
Allocated(today, amount) ==
  Smaller(amount, IF inflow[today] > reinvested[today]
                  THEN inflow[today] - reinvested[today] ELSE 0)

\* Mutant of WithinLimits: the day's quota is not looked at.
IgnoresDayQuota(today, amount, supp) == supp <= amount /\ amount <= available

WithinLimits(today, amount, supp) ==
  /\ supp <= amount
  /\ invested[today] + (amount - supp) <= DailyInvestment
  /\ amount <= available

\* Mutant of Charge: supplementary money is only counted.
ChargesRegularPart(amount, supp) == amount - supp

\* What a regular investment costs the pool, its supplementary part included.
Charge(amount, supp) == (amount - supp) + supp

RecordInvestment(today, amount, supp) ==
  /\ MayRecord /\ WithinLimits(today, amount, supp)
  /\ available' = available - Charge(amount, supp)
  /\ invested' = [invested EXCEPT ![today] = @ + (amount - supp)]
  /\ supplementary' = [supplementary EXCEPT ![today] = @ + supp]
  /\ reinvested' = [reinvested EXCEPT ![today] = @ + Allocated(today, amount)]
  /\ Record([type |-> "INVEST",
             source |-> IF supp > 0 THEN "SUPPLEMENTARY" ELSE "NORMAL",
             date |-> today, amount |-> amount, supp |-> supp])
  /\ UNCHANGED <<reserved, quota, inflow, commission, cancelled, uses>>

\* is_deferred: the quota was deducted by the use, only the ledger grows.
RecordDeferred(k) ==
  LET amount == Total(uses[k].details) IN
  /\ uses[k].open /\ uses[k].tx = 0 /\ MayRecord
  /\ reinvested' = [reinvested EXCEPT ![uses[k].date] =
                      @ + Allocated(uses[k].date, amount)]
  /\ Record([type |-> "INVEST", source |-> "DEFERRED", date |-> uses[k].date,
             amount |-> amount, supp |-> 0])
  /\ uses' = [uses EXCEPT ![k].tx = NextId(ledger)]
  /\ UNCHANGED <<available, reserved, quota, invested, supplementary, inflow,
                 commission, cancelled>>

\* The handler undoes an order once.  The entry stays an INVEST: nothing in it
\* would refuse a second undo.
MayUndo(n) == ledger[n].type = "INVEST" /\ n \notin cancelled

Less(f, d, amount) ==
  [f EXCEPT ![d] = IF @ > amount THEN @ - amount ELSE 0]

UndoInvestment(n) ==
  LET e == ledger[n] IN
  /\ MayUndo(n)
  /\ available' = IF e.source = "DEFERRED" THEN available ELSE available + e.amount
  /\ invested' = IF e.source = "NORMAL" THEN Less(invested, e.date, e.amount)
                 ELSE invested
  /\ supplementary' = IF e.source = "SUPPLEMENTARY"
                      THEN Less(supplementary, e.date, e.amount) ELSE supplementary
  /\ cancelled' = cancelled \cup {n}
  /\ uses' = [k \in DOMAIN uses |->
                IF uses[k].tx = n THEN [uses[k] EXCEPT !.tx = 0] ELSE uses[k]]
  /\ UNCHANGED <<reserved, quota, inflow, reinvested, commission, ledger>>

(***************************************************************************)
(* Reflow, commission, the next sequence                                   *)
(***************************************************************************)

\* The log line asks what is available, and so releases what expired.
RecordReflow(today, amount) ==
  /\ MayRecord
  /\ available' = AvailableAt(today) + amount
  /\ reserved' = ReservedAt(today)
  /\ quota' = QuotaAt(today)
  /\ inflow' = [inflow EXCEPT ![today] = @ + amount]
  /\ Record([type |-> "REFLOW", source |-> "NORMAL", date |-> today,
             amount |-> amount, supp |-> 0])
  /\ UNCHANGED <<invested, supplementary, reinvested, commission, cancelled, uses>>

RecordCommission(today, amount) ==
  /\ MayRecord /\ amount <= available
  /\ available' = available - amount
  /\ commission' = commission + amount
  /\ Record([type |-> "COMMISSION", source |-> "NORMAL", date |-> today,
             amount |-> amount, supp |-> 0])
  /\ UNCHANGED <<reserved, quota, invested, supplementary, inflow, reinvested,
                 cancelled, uses>>

\* reset_for_new_sequence: everything but the constructor's arguments.
ResetState ==
  /\ available' = TotalCapital
  /\ reserved' = NoMoney
  /\ quota' = [p \in Stocks \X Days |-> 0]
  /\ invested' = NoMoney
  /\ supplementary' = NoMoney
  /\ inflow' = NoMoney
  /\ reinvested' = NoMoney
  /\ commission' = 0
  /\ ledger' = Empty
  /\ cancelled' = {}
  /\ uses' = Empty

Next ==
  \/ \E today \in Days : ReleaseExpired(today)
  \/ \E s \in Stocks, d \in Days, a \in Amounts, v \in ValidDays : DeferQuota(s, d, a, v)
  \/ \E s \in Stocks, d \in Days, a \in Amounts :
       Cardinality(DOMAIN uses) < MaxUses /\ UseDeferredQuota(s, d, a)
  \/ \E k \in DOMAIN uses, w \in BOOLEAN : UndoDeferredQuota(k, w)
  \/ \E d \in Days, a \in Amounts, supp \in Amounts \cup {0} : RecordInvestment(d, a, supp)
  \/ \E k \in DOMAIN uses : RecordDeferred(k)
  \/ \E n \in DOMAIN ledger : UndoInvestment(n)
  \/ \E d \in Days, a \in Amounts : RecordReflow(d, a)
  \/ \E d \in Days, a \in Amounts : RecordCommission(d, a)
  \/ ResetState

Spec == Init /\ [][Next]_vars

(***************************************************************************)
(* The daily audit: validate_with_authoritative_cash                       *)
(***************************************************************************)

\* The trades of the T+1 queue, from which a failed order was taken back.
Trades == [n \in DOMAIN ledger \ cancelled |-> ledger[n]]

Invested(f, d) ==
  Total([n \in {m \in DOMAIN f : f[m].type = "INVEST" /\ f[m].date \in d}
           |-> f[n].amount])

Reflowed(f, d) ==
  Total([n \in {m \in DOMAIN f : f[m].type = "REFLOW" /\ f[m].date \in d}
           |-> f[n].amount])

Count(f, type, d) == Cardinality({n \in DOMAIN f : f[n].type = type /\ f[n].date = d})

\* Light mode: the net investment and the number of records of every date.
QuickCheck ==
  \A d \in Days :
    /\ Invested(Trades, {d}) - Reflowed(Trades, {d})
         = Invested(ledger, {d}) - Reflowed(ledger, {d})
    /\ \A type \in {"INVEST", "REFLOW"} : Count(Trades, type, d) = Count(ledger, type, d)

\* Entry by entry: every trade is in the ledger, for it was recorded there.
NetAgrees ==
  Invested(Trades, Days) - Reflowed(Trades, Days)
    = Invested(ledger, Days) - Reflowed(ledger, Days)

\* Free cash, net investment, reserve and commission.
Audited ==
  available + Invested(ledger, Days) - Reflowed(ledger, Days)
    + Total(reserved) + commission

CapitalBalances == Audited = TotalCapital

AuditPasses == (QuickCheck \/ NetAgrees) /\ CapitalBalances

(***************************************************************************)
(* Properties                                                              *)
(***************************************************************************)

\* Every amount is a natural number: the pool never lends cash it has not got.
PoolTypeOK ==
  /\ available \in Nat /\ commission \in Nat
  /\ reserved \in [Days -> Nat]
  /\ quota \in [Stocks \X Days -> Nat]
  /\ invested \in [Days -> Nat]
  /\ supplementary \in [Days -> Nat]
  /\ inflow \in [Days -> Nat]
  /\ reinvested \in [Days -> Nat]
  /\ ledger \in [1 .. Cardinality(DOMAIN ledger) -> Entry]
  /\ cancelled \subseteq DOMAIN ledger
  /\ uses \in [1 .. Cardinality(DOMAIN uses) -> Use]

\* Quota taken by a use whose order has neither been recorded nor given back.
InFlight ==
  Total([k \in {x \in DOMAIN uses : uses[x].open /\ uses[x].tx = 0} |->
           Total(uses[k].details)])

\* No call creates or destroys money: what the pool holds free and reserved,
\* what uses hold in flight, what standing investments hold and what was paid
\* in commission add up to the capital and the reflow.
MoneyIsConserved ==
  available + Total(reserved) + InFlight + Invested(Trades, Days) + commission
    = TotalCapital + Reflowed(ledger, Days)

\* The reserve by expiry, which releases pay out, is the sum of the stocks'
\* records, which uses draw on: neither index forgets what the other holds.
IndexesAgree ==
  \A e \in Days : reserved[e] = Total([s \in Stocks |-> quota[<<s, e>>]])

\* A use never takes quota that expired before its day, although the loop that
\* takes it looks at no date.
NoExpiredQuotaIsUsed ==
  \A k \in DOMAIN uses : \A e \in Days :
    uses[k].details[e] > 0 => e >= uses[k].date

\* The regular parts of the standing investments of a day stay within the
\* day's quota, whatever was undone in between.
Standing(d) ==
  {n \in DOMAIN Trades : Trades[n].type = "INVEST" /\ Trades[n].source # "DEFERRED"
                           /\ Trades[n].date = d}

RegularPart(d) == Total([n \in Standing(d) |-> ledger[n].amount - ledger[n].supp])

DailyQuotaHolds ==
  \A d \in Days : RegularPart(d) <= invested[d] /\ invested[d] <= DailyInvestment

\* The audit's sum of the capital is wrong by the investments that were undone, but
\* for money in flight, and by nothing else: the audit of a day on which no order
\* failed or is on its way is right.
Undone == [n \in cancelled |-> ledger[n]]

AuditErrsByTheUndone ==
  Audited + InFlight = TotalCapital + Invested(Undone, Days)

\* The accounts of PoolAccounts: standing orders by what paid for them.
StandingIn(sources) ==
  Total([n \in {m \in DOMAIN Trades : Trades[m].type = "INVEST" /\ Trades[m].source \in sources}
           |-> ledger[n].amount])

Accounts ==
  INSTANCE PoolAccounts WITH
    Capital <- TotalCapital,
    free <- available, aside <- reserved, flight <- InFlight,
    placed <- StandingIn({"NORMAL", "SUPPLEMENTARY"}), drawn <- StandingIn({"DEFERRED"}),
    paid <- commission

\* Every method moves money between the accounts of PoolAccounts and in its ways:
\* what is reserved until a day is used by then or is free again, and an order that
\* is undone, in whatever order the calls come, pays the account that paid for it.
MovesBetweenAccounts == Accounts!Spec

\* "标记原流水为已撤销（通过添加反向流水）": the reverse entry marks the investment
\* as undone, and the audit of a day on which an order failed passes too.
AuditAcceptsUndoneOrders == InFlight = 0 => AuditPasses

=============================================================================
