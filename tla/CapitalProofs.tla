--------------------------- MODULE CapitalProofs ---------------------------
(***************************************************************************)
(* The capital pool, for every calendar and capital and every order of     *)
(* calls.  PoolIInv carries the types, the agreement of the two indexes of *)
(* the deferred quota and what uses took; MoneyInv adds that uses and      *)
(* standing deferred investments match one to one, without which an undo   *)
(* could not be balanced; QuotaInv adds where supplementary money may be.  *)
(* From MoneyInv follow what the audit gets wrong and that every call is a *)
(* move between the accounts of PoolAccounts.                              *)
(***************************************************************************)
EXTENDS CapitalPool, TotalsProofs

(***************************************************************************)
(* The calendar                                                            *)
(***************************************************************************)

LEMMA DaysFinite == IsFiniteSet(Days) /\ Days \subseteq Nat /\ LastDay \in Nat
BY PoolAssumption, FS_Interval DEF Days, ValidPool

\* Whatever validity is asked for, quota expires on a day of the calendar.
LEMMA ExpiryType ==
  ASSUME NEW from, NEW days
  PROVE  ExpiryDate(from, days) \in Days
<1>1. TradingDays \subseteq Days /\ TradingDays # {}
  BY PoolAssumption DEF ValidPool
<1>2. IsFiniteSet(TradingDays) /\ TradingDays \subseteq Nat
  BY <1>1, DaysFinite, FS_Subset, Zenon
<1>3. \E t \in TradingDays : \A u \in TradingDays : u <= t
  BY <1>1, <1>2, LargestExists, Zenon
<1> DEFINE later == {t \in TradingDays : t > from}
           reached == {t \in later : Cardinality({u \in later : u <= t}) = days}
<1>4. reached \subseteq Days
  BY <1>1
<1>5. ExpiryDate(from, days) =
        IF reached # {} THEN CHOOSE t \in reached : TRUE
        ELSE CHOOSE t \in TradingDays : \A u \in TradingDays : u <= t
  BY DEF ExpiryDate
<1> HIDE DEF reached
<1> QED BY <1>1, <1>3, <1>4, <1>5, Zenon

(***************************************************************************)
(* Expiry                                                                  *)
(***************************************************************************)

\* A release moves money from the reserve to the pool, and drops the records of
\* the reserve it pays out.
LEMMA ReleaseType ==
  ASSUME PoolTypeOK, NEW today \in Days
  PROVE  /\ AvailableAt(today) \in Nat
         /\ ReservedAt(today) \in [Days -> Nat]
         /\ QuotaAt(today) \in [Stocks \X Days -> Nat]
         /\ AvailableAt(today) + Total(ReservedAt(today)) = available + Total(reserved)
         /\ \A p \in Stocks \X Days : p[2] < today => QuotaAt(today)[p] = 0
<1> DEFINE due == [e \in Days |-> IF Expired(e, today) THEN reserved[e] ELSE 0]
           kept == ReservedAt(today)
<1>1. due \in [Days -> Nat] /\ kept \in [Days -> Nat]
  BY DEF PoolTypeOK, ReservedAt
<1>2. QuotaAt(today) \in [Stocks \X Days -> Nat]
      /\ \A p \in Stocks \X Days : p[2] < today => QuotaAt(today)[p] = 0
  BY DEF PoolTypeOK, QuotaAt, Expired
<1>3. [e \in Days |-> due[e] + kept[e]] = reserved
  BY DEF PoolTypeOK, ReservedAt
<1>4. Total(due) \in Nat /\ Total(kept) \in Nat
  BY <1>1, DaysFinite, TotalType, Zenon
<1>5. Total(reserved) = Total(due) + Total(kept)
  <2> HIDE DEF due, kept
  <2> QED BY <1>1, <1>3, DaysFinite, TotalSum
<1>6. AvailableAt(today) = available + Total(due) /\ available \in Nat
  BY DEF AvailableAt, PoolTypeOK
<1> QED BY <1>1, <1>2, <1>4, <1>5, <1>6

\* The two indexes still agree after it.
LEMMA ReleaseKeepsIndexes ==
  ASSUME PoolTypeOK, IndexesAgree, NEW today \in Days, NEW e \in Days
  PROVE  ReservedAt(today)[e] = Total([s \in Stocks |-> QuotaAt(today)[<<s, e>>]])
<1>1. \A s \in Stocks : <<s, e>> \in Stocks \X Days
  OBVIOUS
<1>2. CASE Expired(e, today)
  <2>1. [s \in Stocks |-> QuotaAt(today)[<<s, e>>]] \in [Stocks -> {0}]
    BY <1>1, <1>2 DEF QuotaAt
  <2>2. ReservedAt(today)[e] = 0
    BY <1>2 DEF ReservedAt
  <2> QED BY <2>1, <2>2, TotalZero
<1>3. CASE ~Expired(e, today)
  <2>1. [s \in Stocks |-> QuotaAt(today)[<<s, e>>]] = [s \in Stocks |-> quota[<<s, e>>]]
    BY <1>1, <1>3 DEF QuotaAt
  <2>2. ReservedAt(today)[e] = reserved[e]
    BY <1>3 DEF ReservedAt
  <2> QED BY <2>1, <2>2 DEF IndexesAgree
<1> QED BY <1>2, <1>3

(***************************************************************************)
(* The indexes                                                             *)
(***************************************************************************)

\* When one stock's records change by delta, so do the sums over the stocks.
LEMMA IndexChange ==
  ASSUME NEW q \in [Stocks \X Days -> Nat], NEW r \in [Stocks \X Days -> Nat],
         NEW s \in Stocks, NEW delta \in [Days -> Int],
         \A p \in Stocks \X Days : r[p] = q[p] + (IF p[1] = s THEN delta[p[2]] ELSE 0),
         NEW e \in Days
  PROVE  Total([x \in Stocks |-> r[<<x, e>>]]) = Total([x \in Stocks |-> q[<<x, e>>]]) + delta[e]
<1> DEFINE old == [x \in Stocks |-> q[<<x, e>>]]
           new == [x \in Stocks |-> r[<<x, e>>]]
<1>1. \A x \in Stocks : <<x, e>> \in Stocks \X Days
  OBVIOUS
<1>2. old \in [Stocks -> Nat] /\ IsFiniteSet(Stocks) /\ r[<<s, e>>] \in Nat
  BY <1>1, PoolAssumption DEF ValidPool
<1>3. new = [old EXCEPT ![s] = r[<<s, e>>]]
  <2>1. \A x \in Stocks : x # s => r[<<x, e>>] = q[<<x, e>>]
    BY <1>1
  <2> QED BY <2>1
<1>4. old[s] = q[<<s, e>>] /\ r[<<s, e>>] = q[<<s, e>>] + delta[e] /\ q[<<s, e>>] \in Nat
  BY <1>1
<1>5. Total(old) \in Nat
  BY <1>2, TotalType, Zenon
<1>6. Total(new) = Total(old) - old[s] + r[<<s, e>>]
  <2> HIDE DEF old, new
  <2> QED BY <1>2, <1>3, TotalUpdate
<1> HIDE DEF old, new
<1>7. delta[e] \in Int
  OBVIOUS
<1> QED BY <1>4, <1>5, <1>6, <1>7 DEF old, new

\* No stock's record is more than the reserve of its date.
LEMMA RecordWithinReserve ==
  ASSUME NEW q \in [Stocks \X Days -> Nat], NEW r \in [Days -> Nat],
         \A e \in Days : r[e] = Total([x \in Stocks |-> q[<<x, e>>]]),
         NEW s \in Stocks, NEW e \in Days
  PROVE  q[<<s, e>>] <= r[e]
<1> DEFINE old == [x \in Stocks |-> q[<<x, e>>]]
<1>1. old \in [Stocks -> Nat] /\ IsFiniteSet(Stocks) /\ old[s] = q[<<s, e>>]
  BY PoolAssumption DEF ValidPool
<1>2. old[s] <= Total(old)
  <2> HIDE DEF old
  <2> QED BY <1>1, TotalBoundsEntry
<1> QED BY <1>1, <1>2

\* What a use takes of each record is a part of it.
LEMMA TakenType ==
  ASSUME NEW record \in [Days -> Nat], NEW amount \in Nat
  PROVE  /\ Taken(record, amount) \in [Days -> Nat]
         /\ \A e \in Days : Taken(record, amount)[e] <= record[e]
<1> SUFFICES ASSUME NEW e \in Days
             PROVE  /\ Taken(record, amount)[e] \in Nat
                    /\ Taken(record, amount)[e] <= record[e]
  BY DEF Taken
<1> DEFINE earlier == Total([x \in 1 .. (e - 1) |-> record[x]])
<1>1. e \in Nat /\ 1 .. (e - 1) \subseteq Days
  BY DaysFinite DEF Days
<1>2. [x \in 1 .. (e - 1) |-> record[x]] \in [1 .. (e - 1) -> Nat]
  BY <1>1
<1>3. earlier \in Nat
  BY <1>1, <1>2, DaysFinite, FS_Subset, TotalType, Zenon
<1>4. Taken(record, amount)[e] =
        IF earlier >= amount THEN 0 ELSE Smaller(record[e], amount - earlier)
  BY DEF Taken
<1> HIDE DEF earlier
<1> QED BY <1>3, <1>4 DEF Smaller

(***************************************************************************)
(* The inductive invariant                                                 *)
(***************************************************************************)

PoolIInv ==
  /\ PoolTypeOK
  /\ IsFiniteSet(DOMAIN ledger) /\ IsFiniteSet(DOMAIN uses)
  /\ IndexesAgree
  /\ NoExpiredQuotaIsUsed

\* _next_transaction_id numbers the entries without a gap.
LEMMA NumberedPut ==
  ASSUME NEW S, NEW f, IsFiniteSet(DOMAIN f), f \in [1 .. Cardinality(DOMAIN f) -> S],
         NEW v \in S
  PROVE  /\ NextId(f) \in Nat /\ NextId(f) # 0 /\ NextId(f) \notin DOMAIN f
         /\ DOMAIN Put(f, NextId(f), v) = DOMAIN f \cup {NextId(f)}
         /\ IsFiniteSet(DOMAIN Put(f, NextId(f), v))
         /\ Put(f, NextId(f), v) \in [1 .. Cardinality(DOMAIN Put(f, NextId(f), v)) -> S]
         /\ Put(f, NextId(f), v)[NextId(f)] = v
<1> DEFINE n == Cardinality(DOMAIN f)
           g == Put(f, NextId(f), v)
<1>1. n \in Nat /\ NextId(f) = n + 1
  BY FS_CardinalityType DEF NextId
<1>2. DOMAIN f = 1 .. n
  OBVIOUS
<1>3. DOMAIN g = DOMAIN f \cup {NextId(f)}
  BY DEF Put
<1>4. NextId(f) \notin DOMAIN f
  BY <1>1, <1>2
<1>5. IsFiniteSet(DOMAIN g) /\ Cardinality(DOMAIN g) = n + 1
  BY <1>1, <1>3, <1>4, FS_AddElement
<1>6. DOMAIN g = 1 .. (n + 1)
  <2> HIDE DEF n, g
  <2>1. (1 .. n) \cup {n + 1} = 1 .. (n + 1)
    BY <1>1
  <2> QED BY <1>1, <1>2, <1>3, <2>1
<1>7. g[NextId(f)] = v
  BY DEF Put
<1>8. g \in [DOMAIN g -> S]
  BY DEF Put
<1>9. g \in [1 .. Cardinality(DOMAIN g) -> S]
  <2> HIDE DEF n, g
  <2> QED BY <1>5, <1>6, <1>8
<1> QED BY <1>1, <1>3, <1>4, <1>5, <1>7, <1>9

\* The ledger after a call that records an entry.
LEMMA RecordType ==
  ASSUME PoolIInv, NEW e \in Entry, Record(e)
  PROVE  /\ NextId(ledger) \notin DOMAIN ledger /\ NextId(ledger) # 0
         /\ NextId(ledger) \in Nat
         /\ DOMAIN ledger' = DOMAIN ledger \cup {NextId(ledger)}
         /\ IsFiniteSet(DOMAIN ledger')
         /\ ledger' \in [1 .. Cardinality(DOMAIN ledger') -> Entry]
         /\ ledger'[NextId(ledger)] = e /\ \A n \in DOMAIN ledger : ledger'[n] = ledger[n]
<1>1. IsFiniteSet(DOMAIN ledger) /\ ledger \in [1 .. Cardinality(DOMAIN ledger) -> Entry]
  BY DEF PoolIInv, PoolTypeOK
<1> DEFINE g == Put(ledger, NextId(ledger), e)
<1>2. /\ NextId(ledger) \in Nat /\ NextId(ledger) # 0 /\ NextId(ledger) \notin DOMAIN ledger
      /\ DOMAIN g = DOMAIN ledger \cup {NextId(ledger)} /\ IsFiniteSet(DOMAIN g)
      /\ g \in [1 .. Cardinality(DOMAIN g) -> Entry]
      /\ g[NextId(ledger)] = e
  BY <1>1, NumberedPut, Zenon
<1>3. \A n \in DOMAIN ledger : g[n] = ledger[n]
  BY <1>2 DEF Put
<1>4. ledger' = g
  BY DEF Record
<1> HIDE DEF g
<1> QED BY <1>2, <1>3, <1>4

\* Calls that touch neither index keep them in agreement.
LEMMA IndexesFrame ==
  ASSUME IndexesAgree, reserved' = reserved, quota' = quota
  PROVE  IndexesAgree'
BY DEF IndexesAgree

LEMMA UsesFrame ==
  ASSUME NoExpiredQuotaIsUsed, uses' = uses
  PROVE  NoExpiredQuotaIsUsed'
BY DEF NoExpiredQuotaIsUsed

\* A change of a use's state is no change of what it took.
LEMMA UsesKeepDetails ==
  ASSUME NoExpiredQuotaIsUsed, DOMAIN uses' = DOMAIN uses,
         \A k \in DOMAIN uses : /\ uses'[k].details = uses[k].details
                                /\ uses'[k].date = uses[k].date
  PROVE  NoExpiredQuotaIsUsed'
BY DEF NoExpiredQuotaIsUsed

\* Neither does the number of a use change.
LEMMA UseType ==
  ASSUME PoolIInv, NEW k \in DOMAIN uses
  PROVE  /\ uses[k] \in Use /\ uses[k].details \in [Days -> Nat]
         /\ Total(uses[k].details) \in Nat
         /\ uses[k].stock \in Stocks /\ uses[k].date \in Days
         /\ uses[k].tx \in Nat /\ uses[k].open \in BOOLEAN
<1>1. uses[k] \in Use
  BY DEF PoolIInv, PoolTypeOK
<1>2. uses[k].details \in [Days -> Nat] /\ uses[k].stock \in Stocks
      /\ uses[k].date \in Days /\ uses[k].tx \in Nat /\ uses[k].open \in BOOLEAN
  BY <1>1 DEF Use
<1> QED BY <1>1, <1>2, DaysFinite, TotalType, Zenon

LEMMA InitEstablishesPool == Init => PoolIInv
<1> SUFFICES ASSUME Init
             PROVE  PoolIInv
  OBVIOUS
<1>1. DOMAIN ledger = {} /\ DOMAIN uses = {}
  BY DEF Init, Empty
<1>2. IsFiniteSet({}) /\ Cardinality({}) = 0 /\ 1 .. 0 = {}
  BY FS_EmptySet
<1>3. ledger \in [1 .. Cardinality(DOMAIN ledger) -> Entry]
      /\ uses \in [1 .. Cardinality(DOMAIN uses) -> Use]
  BY <1>1, <1>2 DEF Init, Empty
<1>4. PoolTypeOK
  BY <1>1, <1>3, PoolAssumption DEF Init, PoolTypeOK, NoMoney, ValidPool
<1>5. IndexesAgree
  <2> SUFFICES ASSUME NEW e \in Days
               PROVE  reserved[e] = Total([s \in Stocks |-> quota[<<s, e>>]])
    BY DEF IndexesAgree
  <2>1. [s \in Stocks |-> quota[<<s, e>>]] \in [Stocks -> {0}] /\ reserved[e] = 0
    BY DEF Init, NoMoney
  <2> QED BY <2>1, TotalZero
<1>6. NoExpiredQuotaIsUsed
  BY <1>1 DEF NoExpiredQuotaIsUsed
<1> QED BY <1>1, <1>2, <1>4, <1>5, <1>6 DEF PoolIInv

LEMMA ReleaseStep ==
  ASSUME PoolIInv, NEW today \in Days, ReleaseExpired(today)
  PROVE  PoolIInv'
<1>1. PoolTypeOK'
  BY ReleaseType DEF PoolIInv, PoolTypeOK, ReleaseExpired
<1>2. IndexesAgree'
  BY ReleaseKeepsIndexes DEF PoolIInv, IndexesAgree, ReleaseExpired
<1> QED BY <1>1, <1>2, UsesFrame DEF PoolIInv, ReleaseExpired

LEMMA DeferStep ==
  ASSUME PoolIInv, NEW s \in Stocks, NEW from \in Days, NEW amount \in Amounts,
         NEW days \in ValidDays, DeferQuota(s, from, amount, days)
  PROVE  PoolIInv'
<1> DEFINE e == ExpiryDate(from, days)
           delta == [NoMoney EXCEPT ![e] = amount]
<1>1. e \in Days /\ amount \in Nat
  BY ExpiryType, PoolAssumption DEF ValidPool
<1> HIDE DEF e
<1>2. /\ amount <= available /\ available' = available - amount
      /\ reserved' = [reserved EXCEPT ![e] = @ + amount]
      /\ quota' = [quota EXCEPT ![<<s, e>>] = @ + amount]
      /\ UNCHANGED <<invested, supplementary, inflow, reinvested, commission, ledger,
                     cancelled, uses>>
  BY DEF DeferQuota, e
<1>3. PoolTypeOK'
  <2>1. available' \in Nat
    BY <1>1, <1>2 DEF PoolIInv, PoolTypeOK
  <2>2. reserved' \in [Days -> Nat]
    BY <1>1, <1>2 DEF PoolIInv, PoolTypeOK
  <2>3. quota' \in [Stocks \X Days -> Nat]
    BY <1>1, <1>2 DEF PoolIInv, PoolTypeOK
  <2> QED BY <1>2, <2>1, <2>2, <2>3 DEF PoolIInv, PoolTypeOK
<1>4. IndexesAgree'
  <2> SUFFICES ASSUME NEW d \in Days
               PROVE  reserved'[d] = Total([x \in Stocks |-> quota'[<<x, d>>]])
    BY DEF IndexesAgree
  <2>1. quota \in [Stocks \X Days -> Nat] /\ quota' \in [Stocks \X Days -> Nat]
        /\ reserved \in [Days -> Nat]
    BY <1>3 DEF PoolIInv, PoolTypeOK
  <2>2. delta \in [Days -> Int] /\ delta[d] = (IF d = e THEN amount ELSE 0)
    BY <1>1 DEF NoMoney
  <2>3. \A p \in Stocks \X Days : quota'[p] = quota[p] + (IF p[1] = s THEN delta[p[2]] ELSE 0)
    BY <1>1, <1>2, <2>1 DEF NoMoney
  <2> HIDE DEF delta
  <2>4. Total([x \in Stocks |-> quota'[<<x, d>>]])
          = Total([x \in Stocks |-> quota[<<x, d>>]]) + delta[d]
    BY <2>1, <2>2, <2>3, IndexChange, Zenon
  <2>5. Total([x \in Stocks |-> quota[<<x, d>>]]) = reserved[d]
    BY DEF PoolIInv, IndexesAgree
  <2> QED BY <1>1, <1>2, <2>1, <2>2, <2>4, <2>5
<1> QED BY <1>2, <1>3, <1>4, UsesFrame DEF PoolIInv

\* What a use takes of the records of a stock, once expired reserves returned.
LEMMA UseDetails ==
  ASSUME PoolIInv, NEW today \in Days, NEW s \in Stocks, NEW amount \in Nat,
         NEW details, details = Taken(QuotaOf(QuotaAt(today), s), amount)
  PROVE  /\ details \in [Days -> Nat]
         /\ \A e \in Days : /\ details[e] <= QuotaAt(today)[<<s, e>>]
                            /\ details[e] <= ReservedAt(today)[e]
                            /\ details[e] > 0 => e >= today
<1> DEFINE record == QuotaOf(QuotaAt(today), s)
<1>1. PoolTypeOK /\ IndexesAgree
  BY DEF PoolIInv
<1>2. /\ QuotaAt(today) \in [Stocks \X Days -> Nat] /\ ReservedAt(today) \in [Days -> Nat]
      /\ \A p \in Stocks \X Days : p[2] < today => QuotaAt(today)[p] = 0
  BY <1>1, ReleaseType
<1>3. record \in [Days -> Nat] /\ \A e \in Days : record[e] = QuotaAt(today)[<<s, e>>]
  BY <1>2 DEF QuotaOf
<1>4. \A e \in Days : ReservedAt(today)[e] = Total([x \in Stocks |-> QuotaAt(today)[<<x, e>>]])
  BY <1>1, ReleaseKeepsIndexes
<1>5. \A e \in Days : QuotaAt(today)[<<s, e>>] <= ReservedAt(today)[e]
  BY <1>2, <1>4, RecordWithinReserve
<1>6. details \in [Days -> Nat] /\ \A e \in Days : details[e] <= record[e]
  <2> HIDE DEF record
  <2> QED BY <1>3, TakenType DEF record
<1>7. \A e \in Days : e < today => record[e] = 0
  BY <1>2, <1>3
<1>8. \A e \in Days : e \in Nat /\ today \in Nat
  BY DaysFinite
<1> HIDE DEF record
<1> SUFFICES ASSUME NEW e \in Days
             PROVE  /\ details[e] <= QuotaAt(today)[<<s, e>>]
                    /\ details[e] <= ReservedAt(today)[e]
                    /\ details[e] > 0 => e >= today
  BY <1>6
<1>9. details[e] \in Nat /\ record[e] \in Nat /\ ReservedAt(today)[e] \in Nat
      /\ details[e] <= record[e] /\ record[e] = QuotaAt(today)[<<s, e>>]
      /\ QuotaAt(today)[<<s, e>>] <= ReservedAt(today)[e]
      /\ (e < today => record[e] = 0) /\ e \in Nat /\ today \in Nat
  BY <1>2, <1>3, <1>5, <1>6, <1>7, <1>8
<1> QED BY <1>9

LEMMA UseStep ==
  ASSUME PoolIInv, NEW s \in Stocks, NEW today \in Days, NEW amount \in Amounts,
         UseDeferredQuota(s, today, amount)
  PROVE  PoolIInv'
<1> DEFINE record == QuotaOf(QuotaAt(today), s)
           actual == Smaller(amount, Total(record))
           details == Taken(record, actual)
           use == [stock |-> s, date |-> today, details |-> details, tx |-> 0, open |-> TRUE]
<1>0. PoolTypeOK /\ amount \in Nat
  BY PoolAssumption DEF PoolIInv, ValidPool
<1>1. /\ available' = AvailableAt(today)
      /\ reserved' = [e \in Days |-> ReservedAt(today)[e] - details[e]]
      /\ quota' = [p \in Stocks \X Days |->
                     QuotaAt(today)[p] - (IF p[1] = s THEN details[p[2]] ELSE 0)]
      /\ uses' = IF actual = 0 THEN uses ELSE Put(uses, NextId(uses), use)
      /\ UNCHANGED <<invested, supplementary, inflow, reinvested, commission, ledger,
                     cancelled>>
  BY DEF UseDeferredQuota
<1>2. /\ AvailableAt(today) \in Nat /\ ReservedAt(today) \in [Days -> Nat]
      /\ QuotaAt(today) \in [Stocks \X Days -> Nat]
  BY <1>0, ReleaseType
<1>3. actual \in Nat
  <2>1. record \in [Days -> Nat]
    BY <1>2 DEF QuotaOf
  <2>2. Total(record) \in Nat
    <3> HIDE DEF record
    <3> QED BY <2>1, DaysFinite, TotalType
  <2> HIDE DEF record
  <2> QED BY <1>0, <2>2 DEF Smaller
<1>4. /\ details \in [Days -> Nat]
      /\ \A e \in Days : /\ details[e] <= QuotaAt(today)[<<s, e>>]
                         /\ details[e] <= ReservedAt(today)[e]
                         /\ details[e] > 0 => e >= today
  <2> HIDE DEF actual
  <2> QED BY <1>3, UseDetails, Zenon
<1> HIDE DEF record, actual, details
<1>5. reserved' \in [Days -> Nat]
  <2> SUFFICES ASSUME NEW e \in Days
               PROVE  ReservedAt(today)[e] - details[e] \in Nat
    BY <1>1
  <2>1. details[e] \in Nat /\ ReservedAt(today)[e] \in Nat
        /\ details[e] <= ReservedAt(today)[e]
    BY <1>2, <1>4
  <2> QED BY <2>1
<1>6. quota' \in [Stocks \X Days -> Nat]
  <2> SUFFICES ASSUME NEW p \in Stocks \X Days
               PROVE  QuotaAt(today)[p] - (IF p[1] = s THEN details[p[2]] ELSE 0) \in Nat
    BY <1>1
  <2>1. p[2] \in Days /\ p = <<p[1], p[2]>> /\ QuotaAt(today)[p] \in Nat
    BY <1>2
  <2>2. details[p[2]] \in Nat /\ (p[1] = s => details[p[2]] <= QuotaAt(today)[p])
    BY <1>4, <2>1
  <2> QED BY <2>1, <2>2
<1>7. use \in Use
  BY <1>4 DEF Use
<1>8. /\ IsFiniteSet(DOMAIN uses') /\ uses' \in [1 .. Cardinality(DOMAIN uses') -> Use]
      /\ NoExpiredQuotaIsUsed'
  <2>1. IsFiniteSet(DOMAIN uses) /\ uses \in [1 .. Cardinality(DOMAIN uses) -> Use]
        /\ NoExpiredQuotaIsUsed
    BY DEF PoolIInv, PoolTypeOK
  <2>2. CASE actual = 0
    BY <1>1, <2>1, <2>2, UsesFrame
  <2>3. CASE actual # 0
    <3> DEFINE g == Put(uses, NextId(uses), use)
    <3>1. /\ NextId(uses) \notin DOMAIN uses
          /\ DOMAIN g = DOMAIN uses \cup {NextId(uses)} /\ IsFiniteSet(DOMAIN g)
          /\ g \in [1 .. Cardinality(DOMAIN g) -> Use] /\ g[NextId(uses)] = use
      <4> HIDE DEF use
      <4> QED BY <1>7, <2>1, NumberedPut, Zenon
    <3>2. \A k \in DOMAIN uses : g[k] = uses[k]
      BY <3>1 DEF Put
    <3>3. uses' = g
      BY <1>1, <2>3
    <3>4. use.details = details /\ use.date = today
      OBVIOUS
    <3> HIDE DEF g, use
    <3>5. NoExpiredQuotaIsUsed'
      BY <1>4, <2>1, <3>1, <3>2, <3>3, <3>4 DEF NoExpiredQuotaIsUsed
    <3> QED BY <3>1, <3>3, <3>5
  <2> QED BY <2>2, <2>3
<1>9. IndexesAgree'
  <2> DEFINE delta == [e \in Days |-> 0 - details[e]]
  <2> SUFFICES ASSUME NEW d \in Days
               PROVE  reserved'[d] = Total([x \in Stocks |-> quota'[<<x, d>>]])
    BY DEF IndexesAgree
  <2>1. delta \in [Days -> Int] /\ delta[d] = 0 - details[d]
    BY <1>4
  <2>2. \A p \in Stocks \X Days :
          quota'[p] = QuotaAt(today)[p] + (IF p[1] = s THEN delta[p[2]] ELSE 0)
    <3> TAKE p \in Stocks \X Days
    <3>1. p[2] \in Days /\ QuotaAt(today)[p] \in Nat /\ details[p[2]] \in Nat
      BY <1>2, <1>4
    <3>2. quota'[p] = QuotaAt(today)[p] - (IF p[1] = s THEN details[p[2]] ELSE 0)
      BY <1>1
    <3> QED BY <3>1, <3>2
  <2> HIDE DEF delta
  <2>3. Total([x \in Stocks |-> quota'[<<x, d>>]])
          = Total([x \in Stocks |-> QuotaAt(today)[<<x, d>>]]) + delta[d]
    BY <1>2, <1>6, <2>1, <2>2, IndexChange, Zenon
  <2>4. ReservedAt(today)[d] = Total([x \in Stocks |-> QuotaAt(today)[<<x, d>>]])
    BY <1>0, ReleaseKeepsIndexes DEF PoolIInv
  <2>5. reserved'[d] = ReservedAt(today)[d] - details[d] /\ details[d] \in Nat
        /\ ReservedAt(today)[d] \in Nat
    BY <1>1, <1>2, <1>4
  <2> QED BY <2>1, <2>3, <2>4, <2>5
<1> QED BY <1>0, <1>1, <1>2, <1>5, <1>6, <1>8, <1>9 DEF PoolIInv, PoolTypeOK

LEMMA UndoQuotaStep ==
  ASSUME PoolIInv, NEW k \in DOMAIN uses, NEW w \in BOOLEAN, UndoDeferredQuota(k, w)
  PROVE  PoolIInv'
<1> DEFINE back == Restored(uses[k], w)
           s == uses[k].stock
           e == [type |-> "INVEST_CANCEL", source |-> "DEFERRED", date |-> uses[k].date,
                 amount |-> Total(uses[k].details), supp |-> 0]
<1>1. /\ uses[k] \in Use /\ uses[k].details \in [Days -> Nat]
      /\ Total(uses[k].details) \in Nat /\ s \in Stocks /\ uses[k].date \in Days
  BY UseType
<1>2. back \in [Days -> Nat]
  <2>1. ExpiryDate(uses[k].date, DeferredDays) \in Days
    BY ExpiryType
  <2> QED BY <1>1, <2>1 DEF Restored, NoMoney
<1>3. /\ reserved' = [d \in Days |-> reserved[d] + back[d]]
      /\ quota' = [p \in Stocks \X Days |->
                     quota[p] + (IF p[1] = s THEN back[p[2]] ELSE 0)]
      /\ Record(e) /\ uses' = [uses EXCEPT ![k].open = FALSE]
      /\ UNCHANGED <<available, invested, supplementary, inflow, reinvested, commission,
                     cancelled>>
  BY DEF UndoDeferredQuota
<1>4. e \in Entry
  BY <1>1 DEF Entry, Sources
<1>5. /\ IsFiniteSet(DOMAIN ledger') /\ DOMAIN ledger \subseteq DOMAIN ledger'
      /\ ledger' \in [1 .. Cardinality(DOMAIN ledger') -> Entry]
  <2> HIDE DEF e
  <2> QED BY <1>3, <1>4, RecordType
<1>6. /\ DOMAIN uses' = DOMAIN uses /\ uses' \in [DOMAIN uses -> Use]
      /\ \A j \in DOMAIN uses : /\ uses'[j].details = uses[j].details
                                /\ uses'[j].date = uses[j].date
  BY <1>1, <1>3 DEF PoolIInv, PoolTypeOK, Use
<1>7. NoExpiredQuotaIsUsed'
  BY <1>6, UsesKeepDetails DEF PoolIInv
<1> HIDE DEF back, s, e
<1>8. reserved' \in [Days -> Nat] /\ quota' \in [Stocks \X Days -> Nat]
  <2>1. quota \in [Stocks \X Days -> Nat] /\ reserved \in [Days -> Nat]
    BY DEF PoolIInv, PoolTypeOK
  <2>2. reserved' \in [Days -> Nat]
    BY <1>2, <1>3, <2>1
  <2>3. quota' \in [Stocks \X Days -> Nat]
    <3> SUFFICES ASSUME NEW p \in Stocks \X Days
                 PROVE  quota[p] + (IF p[1] = s THEN back[p[2]] ELSE 0) \in Nat
      BY <1>3
    <3>1. p[2] \in Days /\ quota[p] \in Nat /\ back[p[2]] \in Nat
      BY <1>2, <2>1
    <3> QED BY <3>1
  <2> QED BY <2>2, <2>3
<1>9. IndexesAgree'
  <2> SUFFICES ASSUME NEW d \in Days
               PROVE  reserved'[d] = Total([x \in Stocks |-> quota'[<<x, d>>]])
    BY DEF IndexesAgree
  <2>1. quota \in [Stocks \X Days -> Nat] /\ reserved \in [Days -> Nat]
    BY DEF PoolIInv, PoolTypeOK
  <2>2. back \in [Days -> Int]
    BY <1>2
  <2>3. \A p \in Stocks \X Days : quota'[p] = quota[p] + (IF p[1] = s THEN back[p[2]] ELSE 0)
    BY <1>3
  <2>4. Total([x \in Stocks |-> quota'[<<x, d>>]])
          = Total([x \in Stocks |-> quota[<<x, d>>]]) + back[d]
    BY <1>1, <1>8, <2>1, <2>2, <2>3, IndexChange, Zenon DEF s
  <2>5. reserved[d] = Total([x \in Stocks |-> quota[<<x, d>>]])
    BY DEF PoolIInv, IndexesAgree
  <2> QED BY <1>2, <1>3, <2>4, <2>5
<1>10. PoolTypeOK'
  <2>1. cancelled' \subseteq DOMAIN ledger'
    BY <1>3, <1>5 DEF PoolIInv, PoolTypeOK
  <2>2. uses' \in [1 .. Cardinality(DOMAIN uses') -> Use]
    BY <1>6 DEF PoolIInv, PoolTypeOK
  <2> QED BY <1>3, <1>5, <1>8, <2>1, <2>2 DEF PoolIInv, PoolTypeOK
<1> QED BY <1>5, <1>6, <1>7, <1>9, <1>10 DEF PoolIInv

\* What an investment takes of the day's reflow.
LEMMA AllocatedType ==
  ASSUME PoolTypeOK, NEW today \in Days, NEW amount \in Nat
  PROVE  Allocated(today, amount) \in Nat
BY DEF PoolTypeOK, Allocated, Smaller

LEMMA InvestStep ==
  ASSUME PoolIInv, NEW today \in Days, NEW amount \in Amounts, NEW supp \in Amounts \cup {0},
         RecordInvestment(today, amount, supp)
  PROVE  PoolIInv'
<1> DEFINE e == [type |-> "INVEST",
                 source |-> IF supp > 0 THEN "SUPPLEMENTARY" ELSE "NORMAL",
                 date |-> today, amount |-> amount, supp |-> supp]
<1>1. amount \in Nat /\ supp \in Nat
  BY PoolAssumption DEF ValidPool
<1>2. /\ supp <= amount /\ amount <= available
      /\ available' = available - Charge(amount, supp)
      /\ invested' = [invested EXCEPT ![today] = @ + (amount - supp)]
      /\ supplementary' = [supplementary EXCEPT ![today] = @ + supp]
      /\ reinvested' = [reinvested EXCEPT ![today] = @ + Allocated(today, amount)]
      /\ Record(e)
      /\ UNCHANGED <<reserved, quota, inflow, commission, cancelled, uses>>
  BY DEF RecordInvestment, WithinLimits
<1>3. e \in Entry
  BY <1>1 DEF Entry, Sources
<1>4. /\ IsFiniteSet(DOMAIN ledger') /\ DOMAIN ledger \subseteq DOMAIN ledger'
      /\ ledger' \in [1 .. Cardinality(DOMAIN ledger') -> Entry]
  <2> HIDE DEF e
  <2> QED BY <1>2, <1>3, RecordType
<1> HIDE DEF e
<1>5. available' \in Nat
  BY <1>1, <1>2 DEF PoolIInv, PoolTypeOK, Charge
<1>6. invested' \in [Days -> Nat] /\ supplementary' \in [Days -> Nat]
  BY <1>1, <1>2 DEF PoolIInv, PoolTypeOK
<1>7. reinvested' \in [Days -> Nat]
  <2>1. PoolTypeOK
    BY DEF PoolIInv
  <2>2. Allocated(today, amount) \in Nat
    BY <1>1, <2>1, AllocatedType
  <2> QED BY <1>2, <2>1, <2>2 DEF PoolTypeOK
<1>8. PoolTypeOK'
  BY <1>2, <1>4, <1>5, <1>6, <1>7 DEF PoolIInv, PoolTypeOK
<1> QED BY <1>2, <1>4, <1>8, IndexesFrame, UsesFrame DEF PoolIInv

LEMMA DeferredStep ==
  ASSUME PoolIInv, NEW k \in DOMAIN uses, RecordDeferred(k)
  PROVE  PoolIInv'
<1> DEFINE e == [type |-> "INVEST", source |-> "DEFERRED", date |-> uses[k].date,
                 amount |-> Total(uses[k].details), supp |-> 0]
           paid == Allocated(uses[k].date, Total(uses[k].details))
<1>1. uses[k].date \in Days /\ Total(uses[k].details) \in Nat /\ uses[k] \in Use
  BY UseType
<1>2. /\ reinvested' = [reinvested EXCEPT ![uses[k].date] = @ + paid]
      /\ Record(e) /\ uses' = [uses EXCEPT ![k].tx = NextId(ledger)]
      /\ UNCHANGED <<available, reserved, quota, invested, supplementary, inflow,
                     commission, cancelled>>
  BY DEF RecordDeferred
<1>3. e \in Entry
  BY <1>1 DEF Entry, Sources
<1>4. paid \in Nat
  BY <1>1, AllocatedType DEF PoolIInv
<1>5. /\ IsFiniteSet(DOMAIN ledger') /\ DOMAIN ledger \subseteq DOMAIN ledger'
      /\ NextId(ledger) \in Nat
      /\ ledger' \in [1 .. Cardinality(DOMAIN ledger') -> Entry]
  <2> HIDE DEF e, paid
  <2> QED BY <1>2, <1>3, RecordType
<1> HIDE DEF e, paid
<1>6. /\ DOMAIN uses' = DOMAIN uses /\ uses' \in [DOMAIN uses -> Use]
      /\ \A j \in DOMAIN uses : /\ uses'[j].details = uses[j].details
                                /\ uses'[j].date = uses[j].date
  BY <1>1, <1>2, <1>5 DEF PoolIInv, PoolTypeOK, Use
<1>7. reinvested' \in [Days -> Nat]
  BY <1>1, <1>2, <1>4 DEF PoolIInv, PoolTypeOK
<1>8. PoolTypeOK'
  <2>1. cancelled' \subseteq DOMAIN ledger'
    BY <1>2, <1>5 DEF PoolIInv, PoolTypeOK
  <2>2. uses' \in [1 .. Cardinality(DOMAIN uses') -> Use]
    BY <1>6 DEF PoolIInv, PoolTypeOK
  <2> QED BY <1>2, <1>5, <1>7, <2>1, <2>2 DEF PoolIInv, PoolTypeOK
<1> QED BY <1>2, <1>5, <1>6, <1>8, IndexesFrame, UsesKeepDetails DEF PoolIInv

LEMMA UndoStep ==
  ASSUME PoolIInv, NEW n \in DOMAIN ledger, UndoInvestment(n)
  PROVE  PoolIInv'
<1> DEFINE e == ledger[n]
<1>1. e \in Entry /\ e.amount \in Nat /\ e.date \in Days
  BY DEF PoolIInv, PoolTypeOK, Entry
<1>2. /\ available' = IF e.source = "DEFERRED" THEN available ELSE available + e.amount
      /\ invested' = IF e.source = "NORMAL" THEN Less(invested, e.date, e.amount) ELSE invested
      /\ supplementary' = IF e.source = "SUPPLEMENTARY"
                          THEN Less(supplementary, e.date, e.amount) ELSE supplementary
      /\ cancelled' = cancelled \cup {n}
      /\ uses' = [k \in DOMAIN uses |->
                    IF uses[k].tx = n THEN [uses[k] EXCEPT !.tx = 0] ELSE uses[k]]
      /\ UNCHANGED <<reserved, quota, inflow, reinvested, commission, ledger>>
  BY DEF UndoInvestment
<1> HIDE DEF e
<1>3. /\ DOMAIN uses' = DOMAIN uses /\ uses' \in [DOMAIN uses -> Use]
      /\ \A j \in DOMAIN uses : /\ uses'[j].details = uses[j].details
                                /\ uses'[j].date = uses[j].date
  <2>1. \A j \in DOMAIN uses : uses[j] \in Use
    BY UseType
  <2> QED BY <1>2, <2>1 DEF Use
<1>4. PoolTypeOK'
  <2>1. available' \in Nat
    BY <1>1, <1>2 DEF PoolIInv, PoolTypeOK
  <2>2. invested' \in [Days -> Nat] /\ supplementary' \in [Days -> Nat]
    <3>1. \A f \in [Days -> Nat] : Less(f, e.date, e.amount) \in [Days -> Nat]
      BY <1>1 DEF Less
    <3> QED BY <1>2, <3>1 DEF PoolIInv, PoolTypeOK
  <2>3. uses' \in [1 .. Cardinality(DOMAIN uses') -> Use]
    BY <1>3 DEF PoolIInv, PoolTypeOK
  <2> QED BY <1>2, <2>1, <2>2, <2>3 DEF PoolIInv, PoolTypeOK
<1> QED BY <1>2, <1>3, <1>4, IndexesFrame, UsesKeepDetails DEF PoolIInv

LEMMA ReflowStep ==
  ASSUME PoolIInv, NEW today \in Days, NEW amount \in Amounts, RecordReflow(today, amount)
  PROVE  PoolIInv'
<1> DEFINE e == [type |-> "REFLOW", source |-> "NORMAL", date |-> today,
                 amount |-> amount, supp |-> 0]
<1>1. amount \in Nat
  BY PoolAssumption DEF ValidPool
<1>2. /\ available' = AvailableAt(today) + amount
      /\ reserved' = ReservedAt(today) /\ quota' = QuotaAt(today)
      /\ inflow' = [inflow EXCEPT ![today] = @ + amount]
      /\ Record(e)
      /\ UNCHANGED <<invested, supplementary, reinvested, commission, cancelled, uses>>
  BY DEF RecordReflow
<1>3. e \in Entry
  BY <1>1 DEF Entry, Sources
<1>4. /\ IsFiniteSet(DOMAIN ledger') /\ DOMAIN ledger \subseteq DOMAIN ledger'
      /\ ledger' \in [1 .. Cardinality(DOMAIN ledger') -> Entry]
  <2> HIDE DEF e
  <2> QED BY <1>2, <1>3, RecordType
<1> HIDE DEF e
<1>5. /\ AvailableAt(today) \in Nat /\ ReservedAt(today) \in [Days -> Nat]
      /\ QuotaAt(today) \in [Stocks \X Days -> Nat]
  BY ReleaseType DEF PoolIInv
<1>6. inflow' \in [Days -> Nat]
  BY <1>1, <1>2 DEF PoolIInv, PoolTypeOK
<1>7. available' \in Nat
  BY <1>1, <1>2, <1>5
<1>8. PoolTypeOK'
  BY <1>2, <1>4, <1>5, <1>6, <1>7 DEF PoolIInv, PoolTypeOK
<1>9. IndexesAgree'
  BY <1>2, ReleaseKeepsIndexes DEF PoolIInv, IndexesAgree
<1> QED BY <1>2, <1>4, <1>8, <1>9, UsesFrame DEF PoolIInv

LEMMA CommissionStep ==
  ASSUME PoolIInv, NEW today \in Days, NEW amount \in Amounts, RecordCommission(today, amount)
  PROVE  PoolIInv'
<1> DEFINE e == [type |-> "COMMISSION", source |-> "NORMAL", date |-> today,
                 amount |-> amount, supp |-> 0]
<1>1. amount \in Nat
  BY PoolAssumption DEF ValidPool
<1>2. /\ amount <= available /\ available' = available - amount
      /\ commission' = commission + amount /\ Record(e)
      /\ UNCHANGED <<reserved, quota, invested, supplementary, inflow, reinvested,
                     cancelled, uses>>
  BY DEF RecordCommission
<1>3. e \in Entry
  BY <1>1 DEF Entry, Sources
<1>4. /\ IsFiniteSet(DOMAIN ledger') /\ DOMAIN ledger \subseteq DOMAIN ledger'
      /\ ledger' \in [1 .. Cardinality(DOMAIN ledger') -> Entry]
  <2> HIDE DEF e
  <2> QED BY <1>2, <1>3, RecordType
<1> HIDE DEF e
<1>5. available' \in Nat /\ commission' \in Nat
  BY <1>1, <1>2 DEF PoolIInv, PoolTypeOK
<1>6. PoolTypeOK'
  BY <1>2, <1>4, <1>5 DEF PoolIInv, PoolTypeOK
<1> QED BY <1>2, <1>4, <1>6, IndexesFrame, UsesFrame DEF PoolIInv

\* A reset is an initial state of the same pool.
LEMMA ResetStep ==
  ASSUME ResetState
  PROVE  PoolIInv'
<1>1. DOMAIN ledger' = {} /\ DOMAIN uses' = {}
  BY DEF ResetState, Empty
<1>2. IsFiniteSet({}) /\ Cardinality({}) = 0 /\ 1 .. 0 = {}
  BY FS_EmptySet
<1>3. ledger' \in [1 .. Cardinality(DOMAIN ledger') -> Entry]
      /\ uses' \in [1 .. Cardinality(DOMAIN uses') -> Use]
  BY <1>1, <1>2 DEF ResetState, Empty
<1>4. PoolTypeOK'
  BY <1>1, <1>3, PoolAssumption DEF ResetState, PoolTypeOK, NoMoney, ValidPool
<1>5. IndexesAgree'
  <2> SUFFICES ASSUME NEW e \in Days
               PROVE  reserved'[e] = Total([s \in Stocks |-> quota'[<<s, e>>]])
    BY DEF IndexesAgree
  <2>1. [s \in Stocks |-> quota'[<<s, e>>]] \in [Stocks -> {0}] /\ reserved'[e] = 0
    BY DEF ResetState, NoMoney
  <2> QED BY <2>1, TotalZero
<1>6. NoExpiredQuotaIsUsed'
  BY <1>1 DEF NoExpiredQuotaIsUsed
<1> QED BY <1>1, <1>2, <1>4, <1>5, <1>6 DEF PoolIInv

LEMMA NextPreservesPool ==
  ASSUME PoolIInv, [Next]_vars
  PROVE  PoolIInv'
<1>1. ASSUME NEW today \in Days, ReleaseExpired(today)
      PROVE  PoolIInv'
  BY <1>1, ReleaseStep
<1>2. ASSUME NEW s \in Stocks, NEW d \in Days, NEW a \in Amounts, NEW v \in ValidDays,
             DeferQuota(s, d, a, v)
      PROVE  PoolIInv'
  BY <1>2, DeferStep
<1>3. ASSUME NEW s \in Stocks, NEW d \in Days, NEW a \in Amounts,
             UseDeferredQuota(s, d, a)
      PROVE  PoolIInv'
  BY <1>3, UseStep
<1>4. ASSUME NEW k \in DOMAIN uses, NEW w \in BOOLEAN, UndoDeferredQuota(k, w)
      PROVE  PoolIInv'
  BY <1>4, UndoQuotaStep
<1>5. ASSUME NEW d \in Days, NEW a \in Amounts, NEW supp \in Amounts \cup {0},
             RecordInvestment(d, a, supp)
      PROVE  PoolIInv'
  BY <1>5, InvestStep
<1>6. ASSUME NEW k \in DOMAIN uses, RecordDeferred(k)
      PROVE  PoolIInv'
  BY <1>6, DeferredStep
<1>7. ASSUME NEW n \in DOMAIN ledger, UndoInvestment(n)
      PROVE  PoolIInv'
  BY <1>7, UndoStep
<1>8. ASSUME NEW d \in Days, NEW a \in Amounts, RecordReflow(d, a)
      PROVE  PoolIInv'
  BY <1>8, ReflowStep
<1>9. ASSUME NEW d \in Days, NEW a \in Amounts, RecordCommission(d, a)
      PROVE  PoolIInv'
  BY <1>9, CommissionStep
<1>10. CASE ResetState
  BY <1>10, ResetStep
<1>11. CASE UNCHANGED vars
  BY <1>11 DEF vars, PoolIInv, PoolTypeOK, IndexesAgree, NoExpiredQuotaIsUsed
<1> QED BY <1>1, <1>2, <1>3, <1>4, <1>5, <1>6, <1>7, <1>8, <1>9, <1>10, <1>11 DEF Next

(***************************************************************************)
(* Sums over the ledger and over the uses                                  *)
(***************************************************************************)

\* The amounts of the entries of one type, but for those in c.
AmountsOf(f, c, type) ==
  [n \in {m \in DOMAIN f \ c : f[m].type = type} |-> f[n].amount]

\* The quota in flight, by use.
FlightOf(u) ==
  [k \in {x \in DOMAIN u : u[x].open /\ u[x].tx = 0} |-> Total(u[k].details)]

LEMMA AmountsType ==
  ASSUME NEW f, IsFiniteSet(DOMAIN f), f \in [DOMAIN f -> Entry], NEW c, NEW type
  PROVE  /\ IsFiniteSet(DOMAIN AmountsOf(f, c, type))
         /\ AmountsOf(f, c, type) \in [DOMAIN AmountsOf(f, c, type) -> Nat]
         /\ Total(AmountsOf(f, c, type)) \in Nat
<1> DEFINE a == AmountsOf(f, c, type)
<1>1. DOMAIN a \in SUBSET DOMAIN f
  BY DEF AmountsOf
<1>2. IsFiniteSet(DOMAIN a)
  <2> HIDE DEF a
  <2> QED BY <1>1, FS_Subset
<1>3. a \in [DOMAIN a -> Nat]
  BY DEF AmountsOf, Entry
<1>4. Total(a) \in Nat
  <2> HIDE DEF a
  <2> QED BY <1>2, <1>3, TotalType
<1> QED BY <1>2, <1>3, <1>4

\* Every date is one of the calendar, so the sums over it are over all entries.
LEMMA InvestedSum ==
  ASSUME NEW f, f \in [DOMAIN f -> Entry], NEW c
  PROVE  /\ Invested([n \in DOMAIN f \ c |-> f[n]], Days) = Total(AmountsOf(f, c, "INVEST"))
         /\ Reflowed(f, Days) = Total(AmountsOf(f, {}, "REFLOW"))
<1> DEFINE g == [n \in DOMAIN f \ c |-> f[n]]
<1>1. \A n \in DOMAIN f : f[n].date \in Days
  BY DEF Entry
<1>2. {m \in DOMAIN g : g[m].type = "INVEST" /\ g[m].date \in Days}
        = {m \in DOMAIN f \ c : f[m].type = "INVEST"}
  BY <1>1
<1>3. [n \in {m \in DOMAIN g : g[m].type = "INVEST" /\ g[m].date \in Days} |-> g[n].amount]
        = AmountsOf(f, c, "INVEST")
  BY <1>2 DEF AmountsOf
<1>4. {m \in DOMAIN f : f[m].type = "REFLOW" /\ f[m].date \in Days}
        = {m \in DOMAIN f \ {} : f[m].type = "REFLOW"}
  BY <1>1
<1>5. [n \in {m \in DOMAIN f : f[m].type = "REFLOW" /\ f[m].date \in Days} |-> f[n].amount]
        = AmountsOf(f, {}, "REFLOW")
  BY <1>4 DEF AmountsOf
<1> QED BY <1>3, <1>5 DEF Invested, Reflowed

\* A new entry counts in the sum of its own type only.
LEMMA AmountsPut ==
  ASSUME NEW f, IsFiniteSet(DOMAIN f), f \in [DOMAIN f -> Entry], NEW n, n \notin DOMAIN f,
         NEW e \in Entry, NEW g, DOMAIN g = DOMAIN f \cup {n}, g[n] = e,
         \A m \in DOMAIN f : g[m] = f[m], NEW c, c \subseteq DOMAIN f, NEW type
  PROVE  Total(AmountsOf(g, c, type))
           = Total(AmountsOf(f, c, type)) + (IF e.type = type THEN e.amount ELSE 0)
<1> DEFINE a == AmountsOf(f, c, type)
           b == AmountsOf(g, c, type)
<1>1. IsFiniteSet(DOMAIN a) /\ a \in [DOMAIN a -> Nat] /\ Total(a) \in Nat
  BY AmountsType, Zenon
<1>2. n \notin DOMAIN a /\ n \notin c /\ e.amount \in Nat
  BY DEF AmountsOf, Entry
<1>3. CASE e.type = type
  <2>1. DOMAIN b = DOMAIN a \cup {n}
    BY <1>2, <1>3 DEF AmountsOf
  <2>2. b[n] = e.amount
    BY <1>2, <1>3 DEF AmountsOf
  <2>3. \A m \in DOMAIN a : b[m] = a[m]
    BY DEF AmountsOf
  <2>4. b = [m \in DOMAIN b |-> b[m]]
    BY DEF AmountsOf
  <2> HIDE DEF a, b
  <2>5. b = Put(a, n, e.amount)
    BY <1>2, <2>1, <2>2, <2>3, <2>4 DEF Put
  <2>6. Total(b) = Total(a) + e.amount
    BY <1>1, <1>2, <2>5, TotalPut
  <2> QED BY <1>3, <2>6 DEF a, b
<1>4. CASE e.type # type
  <2>1. a = b
    BY <1>4 DEF AmountsOf
  <2> HIDE DEF a, b
  <2>2. Total(b) = Total(a) + 0
    BY <1>1, <2>1
  <2> QED BY <1>4, <2>2 DEF a, b
<1> QED BY <1>3, <1>4

\* An undone investment leaves the sum.
LEMMA AmountsCancel ==
  ASSUME NEW f, IsFiniteSet(DOMAIN f), f \in [DOMAIN f -> Entry], NEW c, NEW type,
         NEW n \in DOMAIN f, n \notin c, f[n].type = type
  PROVE  Total(AmountsOf(f, c, type)) = Total(AmountsOf(f, c \cup {n}, type)) + f[n].amount
<1> DEFINE a == AmountsOf(f, c, type)
           b == AmountsOf(f, c \cup {n}, type)
<1>1. IsFiniteSet(DOMAIN a) /\ a \in [DOMAIN a -> Nat] /\ Total(a) \in Nat
  BY AmountsType, Zenon
<1>2. n \in DOMAIN a /\ a[n] = f[n].amount
  BY DEF AmountsOf
<1>3. b = [x \in DOMAIN a \ {n} |-> a[x]]
  BY DEF AmountsOf
<1> HIDE DEF a, b
<1>4. Total(a) = a[n] + Total([x \in DOMAIN a \ {n} |-> a[x]])
      /\ Total([x \in DOMAIN a \ {n} |-> a[x]]) \in Nat
  BY <1>1, <1>2, TotalSplit
<1>5. f[n].amount \in Nat
  BY DEF Entry
<1>6. Total(a) = Total(b) + f[n].amount
  BY <1>2, <1>3, <1>4, <1>5
<1> QED BY <1>6 DEF a, b

LEMMA FlightType ==
  ASSUME NEW u, IsFiniteSet(DOMAIN u), u \in [DOMAIN u -> Use]
  PROVE  /\ IsFiniteSet(DOMAIN FlightOf(u))
         /\ FlightOf(u) \in [DOMAIN FlightOf(u) -> Nat]
         /\ Total(FlightOf(u)) \in Nat
<1> DEFINE a == FlightOf(u)
<1>1. DOMAIN a \in SUBSET DOMAIN u
  BY DEF FlightOf
<1>2. IsFiniteSet(DOMAIN a)
  <2> HIDE DEF a
  <2> QED BY <1>1, FS_Subset
<1>3. \A k \in DOMAIN u : Total(u[k].details) \in Nat
  <2> TAKE k \in DOMAIN u
  <2>1. u[k].details \in [Days -> Nat]
    BY DEF Use
  <2> QED BY <2>1, DaysFinite, TotalType, Zenon
<1>4. a \in [DOMAIN a -> Nat]
  BY <1>3 DEF FlightOf
<1>5. Total(a) \in Nat
  <2> HIDE DEF a
  <2> QED BY <1>2, <1>4, TotalType
<1> QED BY <1>2, <1>4, <1>5

\* One more use in flight adds what it took.
LEMMA FlightGains ==
  ASSUME NEW u, IsFiniteSet(DOMAIN u), u \in [DOMAIN u -> Use], NEW v, NEW k, NEW amount \in Nat,
         k \notin DOMAIN FlightOf(u), DOMAIN FlightOf(v) = DOMAIN FlightOf(u) \cup {k},
         FlightOf(v)[k] = amount,
         \A j \in DOMAIN FlightOf(u) : v[j].details = u[j].details
  PROVE  Total(FlightOf(v)) = Total(FlightOf(u)) + amount
<1> DEFINE a == FlightOf(u)
           b == FlightOf(v)
<1>1. IsFiniteSet(DOMAIN a) /\ a \in [DOMAIN a -> Nat] /\ Total(a) \in Nat
  BY FlightType, Zenon
<1>2. \A j \in DOMAIN a : b[j] = a[j]
  <2> TAKE j \in DOMAIN a
  <2>1. j \in DOMAIN b /\ v[j].details = u[j].details
    OBVIOUS
  <2> QED BY <2>1 DEF FlightOf
<1>3. b = [m \in DOMAIN b |-> b[m]]
  BY DEF FlightOf
<1> HIDE DEF a, b
<1>4. b = Put(a, k, amount)
  BY <1>2, <1>3 DEF Put, a, b
<1>5. Total(b) = Total(a) + amount
  BY <1>1, <1>4, TotalPut DEF a, b
<1> QED BY <1>5 DEF a, b

(***************************************************************************)
(* Conservation: what the caller's uses and the ledger know of each other  *)
(***************************************************************************)

\* The deferred investment a use paid for stands in the ledger.
StandsFor(u, n) ==
  /\ u.open /\ n \in DOMAIN ledger \ cancelled
  /\ ledger[n].type = "INVEST" /\ ledger[n].source = "DEFERRED"
  /\ ledger[n].amount = Total(u.details)

StandingDeferred ==
  {n \in DOMAIN ledger \ cancelled : ledger[n].type = "INVEST" /\ ledger[n].source = "DEFERRED"}

\* Uses and standing deferred investments match one to one.
UsesMatch ==
  /\ \A k \in DOMAIN uses : uses[k].tx # 0 => StandsFor(uses[k], uses[k].tx)
  /\ \A n \in StandingDeferred : \E k \in DOMAIN uses : uses[k].tx = n
  /\ \A j, k \in DOMAIN uses : uses[j].tx = uses[k].tx /\ uses[j].tx # 0 => j = k

MoneyInv == PoolIInv /\ UsesMatch /\ MoneyIsConserved

\* What the pool and its caller hold, less what flowed back.
Holdings(av, re, u, f, c, co) ==
  av + Total(re) + Total(FlightOf(u)) + Total(AmountsOf(f, c, "INVEST")) + co
    - Total(AmountsOf(f, {}, "REFLOW"))

LEMMA MoneyParts ==
  ASSUME PoolIInv
  PROVE  /\ available \in Nat /\ commission \in Nat
         /\ Total(reserved) \in Nat /\ Total(FlightOf(uses)) \in Nat
         /\ Total(AmountsOf(ledger, cancelled, "INVEST")) \in Nat
         /\ Total(AmountsOf(ledger, {}, "REFLOW")) \in Nat
<1>1. /\ reserved \in [Days -> Nat] /\ IsFiniteSet(DOMAIN ledger) /\ IsFiniteSet(DOMAIN uses)
      /\ ledger \in [DOMAIN ledger -> Entry] /\ uses \in [DOMAIN uses -> Use]
      /\ available \in Nat /\ commission \in Nat
  BY DEF PoolIInv, PoolTypeOK
<1> QED BY <1>1, DaysFinite, TotalType, FlightType, AmountsType, Zenon

LEMMA MoneyPartsNext ==
  ASSUME PoolIInv'
  PROVE  /\ available' \in Nat /\ commission' \in Nat
         /\ Total(reserved') \in Nat /\ Total(FlightOf(uses')) \in Nat
         /\ Total(AmountsOf(ledger', cancelled', "INVEST")) \in Nat
         /\ Total(AmountsOf(ledger', {}, "REFLOW")) \in Nat
<1>1. /\ reserved' \in [Days -> Nat] /\ IsFiniteSet(DOMAIN ledger') /\ IsFiniteSet(DOMAIN uses')
      /\ ledger' \in [DOMAIN ledger' -> Entry] /\ uses' \in [DOMAIN uses' -> Use]
      /\ available' \in Nat /\ commission' \in Nat
  BY DEF PoolIInv, PoolTypeOK
<1> QED BY <1>1, DaysFinite, TotalType, FlightType, AmountsType, Zenon

\* A step that keeps the holdings keeps the balance.
LEMMA HoldingsKept ==
  ASSUME PoolIInv, PoolIInv', MoneyIsConserved,
         Holdings(available', reserved', uses', ledger', cancelled', commission')
           = Holdings(available, reserved, uses, ledger, cancelled, commission)
  PROVE  MoneyIsConserved'
<1>1. ledger \in [DOMAIN ledger -> Entry] /\ ledger' \in [DOMAIN ledger' -> Entry]
  BY DEF PoolIInv, PoolTypeOK
<1>2. /\ Invested(Trades, Days) = Total(AmountsOf(ledger, cancelled, "INVEST"))
      /\ Reflowed(ledger, Days) = Total(AmountsOf(ledger, {}, "REFLOW"))
  BY <1>1, InvestedSum DEF Trades
<1>3. /\ Invested(Trades', Days) = Total(AmountsOf(ledger', cancelled', "INVEST"))
      /\ Reflowed(ledger', Days) = Total(AmountsOf(ledger', {}, "REFLOW"))
  <2>1. Trades' = [n \in DOMAIN ledger' \ cancelled' |-> ledger'[n]]
    BY DEF Trades
  <2> QED BY <1>1, <2>1, InvestedSum
<1>4. InFlight = Total(FlightOf(uses)) /\ InFlight' = Total(FlightOf(uses'))
  BY DEF InFlight, FlightOf
<1>5. available + Total(reserved) + Total(FlightOf(uses))
        + Total(AmountsOf(ledger, cancelled, "INVEST")) + commission
        = TotalCapital + Total(AmountsOf(ledger, {}, "REFLOW"))
  BY <1>2, <1>4 DEF MoneyIsConserved
<1>6. TotalCapital \in Nat
  BY PoolAssumption DEF ValidPool
<1>7. available' + Total(reserved') + Total(FlightOf(uses'))
        + Total(AmountsOf(ledger', cancelled', "INVEST")) + commission'
        = TotalCapital + Total(AmountsOf(ledger', {}, "REFLOW"))
  BY <1>5, <1>6, MoneyParts, MoneyPartsNext DEF Holdings
<1>8. MoneyIsConserved' <=>
        available' + Total(reserved') + InFlight' + Invested(Trades', Days) + commission'
          = TotalCapital + Reflowed(ledger', Days)
  BY DEF MoneyIsConserved, Invested, Reflowed, Days
<1> QED BY <1>3, <1>4, <1>7, <1>8

\* What a recorded entry adds to the sums over the ledger.
LEMMA RecordAmounts ==
  ASSUME PoolIInv, NEW e \in Entry, Record(e)
  PROVE  /\ Total(AmountsOf(ledger', cancelled, "INVEST"))
              = Total(AmountsOf(ledger, cancelled, "INVEST"))
                  + (IF e.type = "INVEST" THEN e.amount ELSE 0)
         /\ Total(AmountsOf(ledger', {}, "REFLOW"))
              = Total(AmountsOf(ledger, {}, "REFLOW"))
                  + (IF e.type = "REFLOW" THEN e.amount ELSE 0)
<1>1. /\ IsFiniteSet(DOMAIN ledger) /\ ledger \in [DOMAIN ledger -> Entry]
      /\ cancelled \subseteq DOMAIN ledger /\ {} \subseteq DOMAIN ledger
  BY DEF PoolIInv, PoolTypeOK
<1>2. /\ NextId(ledger) \notin DOMAIN ledger
      /\ DOMAIN ledger' = DOMAIN ledger \cup {NextId(ledger)}
      /\ ledger'[NextId(ledger)] = e /\ \A n \in DOMAIN ledger : ledger'[n] = ledger[n]
  BY RecordType
<1> QED BY <1>1, <1>2, AmountsPut

\* An entry that is no deferred investment concerns no use.
LEMMA RecordKeepsMatch ==
  ASSUME PoolIInv, UsesMatch, NEW e \in Entry, Record(e),
         ~(e.type = "INVEST" /\ e.source = "DEFERRED"),
         uses' = uses, cancelled' = cancelled
  PROVE  UsesMatch'
<1>1. /\ NextId(ledger) \notin DOMAIN ledger
      /\ DOMAIN ledger' = DOMAIN ledger \cup {NextId(ledger)}
      /\ ledger'[NextId(ledger)] = e /\ \A n \in DOMAIN ledger : ledger'[n] = ledger[n]
  BY RecordType
<1>2. \A k \in DOMAIN uses' : uses'[k].tx # 0 => StandsFor(uses[k], uses[k].tx)'
  BY <1>1 DEF UsesMatch, StandsFor
<1>3. StandingDeferred' = StandingDeferred
  BY <1>1 DEF StandingDeferred
<1> QED BY <1>2, <1>3 DEF UsesMatch

LEMMA FrameKeepsMatch ==
  ASSUME UsesMatch, uses' = uses, cancelled' = cancelled, ledger' = ledger
  PROVE  UsesMatch'
BY DEF UsesMatch, StandsFor, StandingDeferred

LEMMA MoneyRelease ==
  ASSUME MoneyInv, PoolIInv', NEW today \in Days, ReleaseExpired(today)
  PROVE  UsesMatch' /\ MoneyIsConserved'
<1>1. PoolIInv /\ PoolTypeOK /\ UsesMatch /\ MoneyIsConserved
  BY DEF MoneyInv, PoolIInv
<1>2. /\ available' = AvailableAt(today) /\ reserved' = ReservedAt(today)
      /\ UNCHANGED <<commission, ledger, cancelled, uses>>
  BY DEF ReleaseExpired
<1>3. available' + Total(reserved') = available + Total(reserved)
  BY <1>1, <1>2, ReleaseType
<1>4. Holdings(available', reserved', uses', ledger', cancelled', commission')
        = Holdings(available, reserved, uses, ledger, cancelled, commission)
  BY <1>2, <1>3 DEF Holdings
<1>5. MoneyIsConserved'
  BY <1>1, <1>4, HoldingsKept
<1> QED BY <1>1, <1>2, <1>5, FrameKeepsMatch

LEMMA MoneyDefer ==
  ASSUME MoneyInv, PoolIInv', NEW s \in Stocks, NEW from \in Days, NEW amount \in Amounts,
         NEW days \in ValidDays, DeferQuota(s, from, amount, days)
  PROVE  UsesMatch' /\ MoneyIsConserved'
<1> DEFINE e == ExpiryDate(from, days)
<1>1. PoolIInv /\ UsesMatch /\ MoneyIsConserved
  BY DEF MoneyInv
<1>2. e \in Days /\ amount \in Nat
  BY ExpiryType, PoolAssumption DEF ValidPool
<1> HIDE DEF e
<1>3. /\ available' = available - amount /\ reserved' = [reserved EXCEPT ![e] = @ + amount]
      /\ UNCHANGED <<commission, ledger, cancelled, uses>>
  BY DEF DeferQuota, e
<1>4. reserved \in [Days -> Nat] /\ reserved[e] \in Nat /\ available \in Nat
  BY <1>1, <1>2 DEF PoolIInv, PoolTypeOK
<1>5. Total(reserved') = Total(reserved) + amount
  <2>1. reserved' = [reserved EXCEPT ![e] = reserved[e] + amount] /\ reserved[e] + amount \in Nat
    BY <1>2, <1>3, <1>4
  <2>2. Total(reserved') = Total(reserved) - reserved[e] + (reserved[e] + amount)
    BY <1>2, <1>4, <2>1, DaysFinite, TotalUpdate
  <2> QED BY <1>1, <1>2, <1>4, <2>2, MoneyParts
<1>6. available' + Total(reserved') = available + Total(reserved)
  BY <1>1, <1>2, <1>3, <1>4, <1>5, MoneyParts
<1>7. Holdings(available', reserved', uses', ledger', cancelled', commission')
        = Holdings(available, reserved, uses, ledger, cancelled, commission)
  BY <1>3, <1>6 DEF Holdings
<1>8. MoneyIsConserved'
  BY <1>1, <1>7, HoldingsKept
<1> QED BY <1>1, <1>3, <1>8, FrameKeepsMatch

LEMMA MoneyUse ==
  ASSUME MoneyInv, PoolIInv', NEW s \in Stocks, NEW today \in Days, NEW amount \in Amounts,
         UseDeferredQuota(s, today, amount)
  PROVE  /\ UsesMatch' /\ MoneyIsConserved'
         /\ \A e \in Days : reserved'[e] <= ReservedAt(today)[e]
         /\ Total(FlightOf(uses'))
              = Total(FlightOf(uses)) + (Total(ReservedAt(today)) - Total(reserved'))
<1> DEFINE record == QuotaOf(QuotaAt(today), s)
           actual == Smaller(amount, Total(record))
           details == Taken(record, actual)
           use == [stock |-> s, date |-> today, details |-> details, tx |-> 0, open |-> TRUE]
<1>1. PoolIInv /\ PoolTypeOK /\ UsesMatch /\ MoneyIsConserved /\ amount \in Nat
  BY PoolAssumption DEF MoneyInv, PoolIInv, ValidPool
<1>2. /\ available' = AvailableAt(today)
      /\ reserved' = [e \in Days |-> ReservedAt(today)[e] - details[e]]
      /\ uses' = IF actual = 0 THEN uses ELSE Put(uses, NextId(uses), use)
      /\ UNCHANGED <<commission, ledger, cancelled>>
  BY DEF UseDeferredQuota
<1>3. /\ AvailableAt(today) \in Nat /\ ReservedAt(today) \in [Days -> Nat]
      /\ AvailableAt(today) + Total(ReservedAt(today)) = available + Total(reserved)
      /\ QuotaAt(today) \in [Stocks \X Days -> Nat]
  BY <1>1, ReleaseType
<1>4. actual \in Nat
  <2>1. record \in [Days -> Nat]
    BY <1>3 DEF QuotaOf
  <2>2. Total(record) \in Nat
    <3> HIDE DEF record
    <3> QED BY <2>1, DaysFinite, TotalType
  <2> HIDE DEF record
  <2> QED BY <1>1, <2>2 DEF Smaller
<1>5. details \in [Days -> Nat] /\ \A e \in Days : details[e] <= ReservedAt(today)[e]
  <2> HIDE DEF actual
  <2> QED BY <1>1, <1>4, UseDetails, Zenon
<1>6. actual = 0 => details \in [Days -> {0}]
  <2> SUFFICES ASSUME actual = 0, NEW e \in Days
               PROVE  details[e] = 0
    BY <1>5
  <2> DEFINE earlier == Total([x \in 1 .. (e - 1) |-> record[x]])
  <2>1. e \in Nat /\ 1 .. (e - 1) \subseteq Days
    BY DaysFinite DEF Days
  <2>2. record \in [Days -> Nat]
    BY <1>3 DEF QuotaOf
  <2> HIDE DEF record
  <2>3. [x \in 1 .. (e - 1) |-> record[x]] \in [1 .. (e - 1) -> Nat]
    BY <2>1, <2>2
  <2>4. earlier \in Nat
    BY <2>1, <2>3, DaysFinite, FS_Subset, TotalType, Zenon
  <2>5. details[e] = IF earlier >= actual THEN 0 ELSE Smaller(record[e], actual - earlier)
    BY DEF Taken
  <2> HIDE DEF earlier, details
  <2> QED BY <2>4, <2>5
<1> HIDE DEF record, actual, details
<1>7. Total(reserved') = Total(ReservedAt(today)) - Total(details)
  BY <1>2, <1>3, <1>5, DaysFinite, TotalDifference
<1>8. Total(details) \in Nat /\ Total(ReservedAt(today)) \in Nat
  BY <1>3, <1>5, DaysFinite, TotalType, Zenon
<1>9. IsFiniteSet(DOMAIN uses) /\ uses \in [1 .. Cardinality(DOMAIN uses) -> Use]
  BY <1>1 DEF PoolIInv, PoolTypeOK
<1>12. \A e \in Days : reserved'[e] <= ReservedAt(today)[e]
  BY <1>2, <1>3, <1>5
<1>10. CASE actual = 0
  <2>1. Total(details) = 0
    BY <1>6, <1>10, TotalZero
  <2>2. available' + Total(reserved') = available + Total(reserved)
    BY <1>1, <1>2, <1>3, <1>7, <1>8, <2>1, MoneyParts
  <2>3. Holdings(available', reserved', uses', ledger', cancelled', commission')
          = Holdings(available, reserved, uses, ledger, cancelled, commission)
    BY <1>2, <1>10, <2>2 DEF Holdings
  <2>4. MoneyIsConserved'
    BY <1>1, <2>3, HoldingsKept
  <2>5. Total(FlightOf(uses'))
          = Total(FlightOf(uses)) + (Total(ReservedAt(today)) - Total(reserved'))
    BY <1>1, <1>2, <1>7, <1>8, <1>10, <2>1, MoneyParts
  <2> QED BY <1>1, <1>2, <1>10, <1>12, <2>4, <2>5, FrameKeepsMatch
<1>11. CASE actual # 0
  <2> DEFINE n == NextId(uses)
  <2>1. uses' = Put(uses, n, use) /\ use \in Use
    BY <1>2, <1>5, <1>11 DEF Use
  <2>2. n \notin DOMAIN uses /\ DOMAIN Put(uses, n, use) = DOMAIN uses \cup {n}
        /\ Put(uses, n, use)[n] = use
    <3> HIDE DEF use
    <3> QED BY <1>9, <2>1, NumberedPut, Zenon
  <2>3. \A k \in DOMAIN uses : Put(uses, n, use)[k] = uses[k]
    BY <2>2 DEF Put
  <2>4. /\ DOMAIN uses' = DOMAIN uses \cup {n} /\ uses'[n] = use /\ n \notin DOMAIN uses
        /\ \A k \in DOMAIN uses : uses'[k] = uses[k]
    BY <2>1, <2>2, <2>3
  <2>5. use.details = details /\ use.tx = 0 /\ use.open = TRUE
    OBVIOUS
  <2> HIDE DEF n, use
  <2>6. /\ n \notin DOMAIN FlightOf(uses)
        /\ DOMAIN FlightOf(uses') = DOMAIN FlightOf(uses) \cup {n}
        /\ FlightOf(uses')[n] = Total(details)
        /\ \A j \in DOMAIN FlightOf(uses) : uses'[j].details = uses[j].details
    BY <2>4, <2>5 DEF FlightOf
  <2>7. Total(FlightOf(uses')) = Total(FlightOf(uses)) + Total(details)
    BY <1>8, <1>9, <2>6, FlightGains
  <2>8. Holdings(available', reserved', uses', ledger', cancelled', commission')
          = Holdings(available, reserved, uses, ledger, cancelled, commission)
    BY <1>1, <1>2, <1>3, <1>7, <1>8, <2>7, MoneyParts, MoneyPartsNext DEF Holdings
  <2>9. MoneyIsConserved'
    BY <1>1, <2>8, HoldingsKept
  <2>10. UsesMatch'
    <3>1. \A k \in DOMAIN uses' : uses'[k].tx # 0 => StandsFor(uses[k], uses[k].tx)' /\ k \in DOMAIN uses
      BY <1>1, <1>2, <2>4, <2>5 DEF UsesMatch, StandsFor
    <3>2. StandingDeferred' = StandingDeferred
      BY <1>2 DEF StandingDeferred
    <3>3. \A m \in StandingDeferred : \E k \in DOMAIN uses' : uses'[k].tx = m
      BY <1>1, <2>4 DEF UsesMatch
    <3>4. \A j, k \in DOMAIN uses' : uses'[j].tx = uses'[k].tx /\ uses'[j].tx # 0 => j = k
      BY <1>1, <2>4, <2>5 DEF UsesMatch
    <3> QED BY <3>1, <3>2, <3>3, <3>4 DEF UsesMatch
  <2>11. Total(FlightOf(uses'))
           = Total(FlightOf(uses)) + (Total(ReservedAt(today)) - Total(reserved'))
    BY <1>1, <1>7, <1>8, <2>7, MoneyParts
  <2> QED BY <1>12, <2>9, <2>10, <2>11
<1> QED BY <1>10, <1>11

LEMMA MoneyUndoQuota ==
  ASSUME MoneyInv, PoolIInv', NEW k \in DOMAIN uses, NEW w \in BOOLEAN, UndoDeferredQuota(k, w)
  PROVE  /\ UsesMatch' /\ MoneyIsConserved'
         /\ \A e \in Days : reserved'[e] >= reserved[e]
         /\ Total(FlightOf(uses'))
              = Total(FlightOf(uses)) - (Total(reserved') - Total(reserved))
<1> DEFINE back == Restored(uses[k], w)
           amount == Total(uses[k].details)
           e == [type |-> "INVEST_CANCEL", source |-> "DEFERRED", date |-> uses[k].date,
                 amount |-> amount, supp |-> 0]
<1>1. PoolIInv /\ UsesMatch /\ MoneyIsConserved
  BY DEF MoneyInv
<1>2. /\ uses[k] \in Use /\ uses[k].details \in [Days -> Nat] /\ amount \in Nat
      /\ uses[k].date \in Days /\ reserved \in [Days -> Nat]
      /\ IsFiniteSet(DOMAIN uses') /\ uses' \in [DOMAIN uses' -> Use]
  BY <1>1, UseType DEF PoolIInv, PoolTypeOK
<1>3. back \in [Days -> Nat] /\ Total(back) = amount
  <2>1. CASE w
    BY <1>2, <2>1 DEF Restored
  <2>2. CASE ~w
    <3> DEFINE d == ExpiryDate(uses[k].date, DeferredDays)
    <3>1. d \in Days
      BY ExpiryType
    <3> HIDE DEF d
    <3>2. NoMoney \in [Days -> Nat] /\ NoMoney \in [Days -> {0}] /\ NoMoney[d] = 0
      BY <3>1 DEF NoMoney
    <3>3. Total([NoMoney EXCEPT ![d] = amount]) = Total(NoMoney) - NoMoney[d] + amount
      <4> HIDE DEF amount
      <4> QED BY <1>2, <3>1, <3>2, DaysFinite, TotalUpdate, ZenonT(30)
    <3>4. Total(NoMoney) = 0
      BY <3>2, TotalZero
    <3>5. back = [NoMoney EXCEPT ![d] = amount]
      BY <2>2 DEF Restored, d
    <3> HIDE DEF amount, back
    <3> QED BY <1>2, <3>1, <3>2, <3>3, <3>4, <3>5
  <2> QED BY <2>1, <2>2
<1>4. /\ reserved' = [d \in Days |-> reserved[d] + back[d]]
      /\ Record(e) /\ uses' = [uses EXCEPT ![k].open = FALSE]
      /\ uses[k].open /\ uses[k].tx = 0
      /\ UNCHANGED <<available, commission, cancelled>>
  BY DEF UndoDeferredQuota
<1>5. e \in Entry /\ e.type = "INVEST_CANCEL"
  BY <1>2 DEF Entry, Sources
<1> HIDE DEF back, amount, e
<1>6. Total(reserved') = Total(reserved) + amount
  BY <1>2, <1>3, <1>4, DaysFinite, TotalSum
<1>7. /\ DOMAIN uses' = DOMAIN uses /\ uses'[k].open = FALSE /\ uses'[k].tx = 0
      /\ \A j \in DOMAIN uses : /\ uses'[j].details = uses[j].details
                                /\ uses'[j].tx = uses[j].tx
                                /\ (j # k => uses'[j] = uses[j])
  <2>1. \A j \in DOMAIN uses : uses[j] \in Use
    BY <1>1, UseType
  <2> QED BY <1>4, <2>1 DEF Use
<1>8. Total(FlightOf(uses)) = Total(FlightOf(uses')) + amount
  <2>1. /\ k \notin DOMAIN FlightOf(uses')
        /\ DOMAIN FlightOf(uses) = DOMAIN FlightOf(uses') \cup {k}
        /\ FlightOf(uses)[k] = amount
        /\ \A j \in DOMAIN FlightOf(uses') : uses[j].details = uses'[j].details
    BY <1>4, <1>7 DEF FlightOf, amount
  <2> QED BY <1>2, <2>1, FlightGains
<1>9. /\ Total(AmountsOf(ledger', cancelled', "INVEST"))
           = Total(AmountsOf(ledger, cancelled, "INVEST"))
      /\ Total(AmountsOf(ledger', {}, "REFLOW")) = Total(AmountsOf(ledger, {}, "REFLOW"))
  BY <1>1, <1>4, <1>5, RecordAmounts, MoneyParts
<1>10. Holdings(available', reserved', uses', ledger', cancelled', commission')
         = Holdings(available, reserved, uses, ledger, cancelled, commission)
  BY <1>1, <1>2, <1>4, <1>6, <1>8, <1>9, MoneyParts, MoneyPartsNext DEF Holdings
<1>11. MoneyIsConserved'
  BY <1>1, <1>10, HoldingsKept
<1>12. UsesMatch'
  <2>1. /\ NextId(ledger) \notin DOMAIN ledger
        /\ DOMAIN ledger' = DOMAIN ledger \cup {NextId(ledger)}
        /\ ledger'[NextId(ledger)] = e /\ \A n \in DOMAIN ledger : ledger'[n] = ledger[n]
    BY <1>1, <1>4, <1>5, RecordType
  <2>2. \A j \in DOMAIN uses' : uses'[j].tx # 0 => StandsFor(uses[j], uses[j].tx)'
    <3> SUFFICES ASSUME NEW j \in DOMAIN uses, uses'[j].tx # 0
                 PROVE  StandsFor(uses[j], uses[j].tx)'
      BY <1>7
    <3>1. j # k /\ uses'[j] = uses[j] /\ StandsFor(uses[j], uses[j].tx)
      BY <1>1, <1>7 DEF UsesMatch
    <3> QED BY <1>4, <2>1, <3>1 DEF StandsFor
  <2>3. StandingDeferred' = StandingDeferred
    BY <1>4, <1>5, <2>1 DEF StandingDeferred
  <2>4. \A n \in StandingDeferred : \E j \in DOMAIN uses' : uses'[j].tx = n
    BY <1>1, <1>7 DEF UsesMatch
  <2>5. \A i, j \in DOMAIN uses' : uses'[i].tx = uses'[j].tx /\ uses'[i].tx # 0 => i = j
    BY <1>1, <1>7 DEF UsesMatch
  <2> QED BY <2>2, <2>3, <2>4, <2>5 DEF UsesMatch
<1>13. \A d \in Days : reserved'[d] >= reserved[d]
  BY <1>2, <1>3, <1>4
<1>14. Total(FlightOf(uses')) = Total(FlightOf(uses)) - (Total(reserved') - Total(reserved))
  BY <1>1, <1>2, <1>6, <1>8, MoneyParts, MoneyPartsNext
<1> QED BY <1>11, <1>12, <1>13, <1>14

LEMMA MoneyInvest ==
  ASSUME MoneyInv, PoolIInv', NEW today \in Days, NEW amount \in Amounts,
         NEW supp \in Amounts \cup {0}, RecordInvestment(today, amount, supp)
  PROVE  UsesMatch' /\ MoneyIsConserved'
<1> DEFINE e == [type |-> "INVEST",
                 source |-> IF supp > 0 THEN "SUPPLEMENTARY" ELSE "NORMAL",
                 date |-> today, amount |-> amount, supp |-> supp]
<1>1. PoolIInv /\ UsesMatch /\ MoneyIsConserved
  BY DEF MoneyInv
<1>2. amount \in Nat /\ supp \in Nat
  BY PoolAssumption DEF ValidPool
<1>3. /\ available' = available - Charge(amount, supp) /\ Record(e)
      /\ UNCHANGED <<reserved, commission, cancelled, uses>>
  BY DEF RecordInvestment
<1>4. e \in Entry /\ e.type = "INVEST" /\ e.source # "DEFERRED" /\ e.amount = amount
  BY <1>2 DEF Entry, Sources
<1> HIDE DEF e
<1>5. /\ Total(AmountsOf(ledger', cancelled', "INVEST"))
           = Total(AmountsOf(ledger, cancelled, "INVEST")) + amount
      /\ Total(AmountsOf(ledger', {}, "REFLOW")) = Total(AmountsOf(ledger, {}, "REFLOW"))
  BY <1>1, <1>2, <1>3, <1>4, RecordAmounts, MoneyParts
<1>6. available' = available - amount
  BY <1>1, <1>2, <1>3, MoneyParts DEF Charge
<1>7. Holdings(available', reserved', uses', ledger', cancelled', commission')
        = Holdings(available, reserved, uses, ledger, cancelled, commission)
  BY <1>1, <1>2, <1>3, <1>5, <1>6, MoneyParts DEF Holdings
<1>8. MoneyIsConserved'
  BY <1>1, <1>7, HoldingsKept
<1> QED BY <1>1, <1>3, <1>4, <1>8, RecordKeepsMatch

LEMMA MoneyDeferred ==
  ASSUME MoneyInv, PoolIInv', NEW k \in DOMAIN uses, RecordDeferred(k)
  PROVE  /\ UsesMatch' /\ MoneyIsConserved'
         /\ Total(FlightOf(uses)) = Total(FlightOf(uses')) + Total(uses[k].details)
<1> DEFINE amount == Total(uses[k].details)
           e == [type |-> "INVEST", source |-> "DEFERRED", date |-> uses[k].date,
                 amount |-> amount, supp |-> 0]
           n == NextId(ledger)
<1>1. PoolIInv /\ UsesMatch /\ MoneyIsConserved
  BY DEF MoneyInv
<1>2. /\ uses[k] \in Use /\ amount \in Nat /\ uses[k].date \in Days
      /\ IsFiniteSet(DOMAIN uses') /\ uses' \in [DOMAIN uses' -> Use]
      /\ cancelled \subseteq DOMAIN ledger
  BY <1>1, UseType DEF PoolIInv, PoolTypeOK
<1>3. /\ Record(e) /\ uses' = [uses EXCEPT ![k].tx = n] /\ uses[k].open /\ uses[k].tx = 0
      /\ UNCHANGED <<available, reserved, commission, cancelled>>
  BY DEF RecordDeferred
<1>4. /\ e \in Entry /\ e.type = "INVEST" /\ e.source = "DEFERRED" /\ e.amount = amount
  BY <1>2 DEF Entry, Sources
<1> HIDE DEF amount, e
<1>5. /\ n \notin DOMAIN ledger /\ n # 0 /\ DOMAIN ledger' = DOMAIN ledger \cup {n}
      /\ ledger'[n] = e /\ \A m \in DOMAIN ledger : ledger'[m] = ledger[m]
  BY <1>1, <1>3, <1>4, RecordType
<1> HIDE DEF n
<1>6. /\ DOMAIN uses' = DOMAIN uses /\ uses'[k].open = TRUE /\ uses'[k].tx = n
      /\ uses'[k].details = uses[k].details
      /\ \A j \in DOMAIN uses : j # k => uses'[j] = uses[j]
  <2>1. \A j \in DOMAIN uses : uses[j] \in Use
    BY <1>1, UseType
  <2> QED BY <1>3, <2>1 DEF Use
<1>7. Total(FlightOf(uses)) = Total(FlightOf(uses')) + amount
  <2>1. /\ k \notin DOMAIN FlightOf(uses')
        /\ DOMAIN FlightOf(uses) = DOMAIN FlightOf(uses') \cup {k}
        /\ FlightOf(uses)[k] = amount
        /\ \A j \in DOMAIN FlightOf(uses') : uses[j].details = uses'[j].details
    BY <1>3, <1>5, <1>6 DEF FlightOf, amount
  <2> QED BY <1>2, <2>1, FlightGains
<1>8. /\ Total(AmountsOf(ledger', cancelled', "INVEST"))
           = Total(AmountsOf(ledger, cancelled, "INVEST")) + amount
      /\ Total(AmountsOf(ledger', {}, "REFLOW")) = Total(AmountsOf(ledger, {}, "REFLOW"))
  BY <1>1, <1>2, <1>3, <1>4, RecordAmounts, MoneyParts
<1>9. Holdings(available', reserved', uses', ledger', cancelled', commission')
        = Holdings(available, reserved, uses, ledger, cancelled, commission)
  BY <1>1, <1>2, <1>3, <1>7, <1>8, MoneyParts, MoneyPartsNext DEF Holdings
<1>10. MoneyIsConserved'
  BY <1>1, <1>9, HoldingsKept
<1>11. UsesMatch'
  <2>1. \A j \in DOMAIN uses : uses[j].tx # n /\ (j # k => uses'[j].tx # n)
    BY <1>1, <1>5, <1>6 DEF UsesMatch, StandsFor
  <2>2. \A j \in DOMAIN uses' : uses'[j].tx # 0 => StandsFor(uses[j], uses[j].tx)'
    <3> SUFFICES ASSUME NEW j \in DOMAIN uses, uses'[j].tx # 0
                 PROVE  StandsFor(uses[j], uses[j].tx)'
      BY <1>6
    <3>1. CASE j = k
      BY <1>2, <1>3, <1>4, <1>5, <1>6, <3>1 DEF StandsFor, amount
    <3>2. CASE j # k
      <4>1. uses'[j] = uses[j] /\ StandsFor(uses[j], uses[j].tx)
        BY <1>1, <1>6, <3>2 DEF UsesMatch
      <4> QED BY <1>3, <1>5, <4>1 DEF StandsFor
    <3> QED BY <3>1, <3>2
  <2>3. StandingDeferred' = StandingDeferred \cup {n}
    BY <1>2, <1>3, <1>4, <1>5 DEF StandingDeferred
  <2>4. \A m \in StandingDeferred' : \E j \in DOMAIN uses' : uses'[j].tx = m
    <3> SUFFICES ASSUME NEW m \in StandingDeferred
                 PROVE  \E j \in DOMAIN uses' : uses'[j].tx = m
      BY <1>6, <2>3
    <3>1. PICK j \in DOMAIN uses : uses[j].tx = m
      BY <1>1 DEF UsesMatch
    <3>2. m # 0
      <4>1. m \in DOMAIN ledger
        BY DEF StandingDeferred
      <4>2. DOMAIN ledger = 1 .. Cardinality(DOMAIN ledger)
        BY <1>1 DEF PoolIInv, PoolTypeOK
      <4>3. Cardinality(DOMAIN ledger) \in Nat
        BY <1>1, FS_CardinalityType DEF PoolIInv
      <4> QED BY <4>1, <4>2, <4>3
    <3>3. j # k
      BY <1>3, <3>1, <3>2
    <3> QED BY <1>6, <3>1, <3>3
  <2>5. \A i, j \in DOMAIN uses' : uses'[i].tx = uses'[j].tx /\ uses'[i].tx # 0 => i = j
    <3> SUFFICES ASSUME NEW i \in DOMAIN uses, NEW j \in DOMAIN uses,
                        uses'[i].tx = uses'[j].tx, uses'[i].tx # 0
                 PROVE  i = j
      BY <1>6
    <3>1. i = k <=> j = k
      BY <1>6, <2>1
    <3>2. i # k => uses'[i] = uses[i] /\ uses'[j] = uses[j]
      BY <1>6, <3>1
    <3> QED BY <1>1, <3>1, <3>2 DEF UsesMatch
  <2> QED BY <2>2, <2>4, <2>5 DEF UsesMatch
<1> QED BY <1>7, <1>10, <1>11 DEF amount

LEMMA MoneyUndo ==
  ASSUME MoneyInv, PoolIInv', NEW n \in DOMAIN ledger, UndoInvestment(n)
  PROVE  /\ UsesMatch' /\ MoneyIsConserved'
         /\ Total(FlightOf(uses')) = Total(FlightOf(uses))
              + (IF ledger[n].source = "DEFERRED" THEN ledger[n].amount ELSE 0)
<1> DEFINE e == ledger[n]
<1>1. PoolIInv /\ UsesMatch /\ MoneyIsConserved
  BY DEF MoneyInv
<1>2. /\ e \in Entry /\ e.amount \in Nat /\ n # 0
      /\ IsFiniteSet(DOMAIN ledger) /\ ledger \in [DOMAIN ledger -> Entry]
      /\ IsFiniteSet(DOMAIN uses) /\ uses \in [DOMAIN uses -> Use]
  <2>1. Cardinality(DOMAIN ledger) \in Nat /\ DOMAIN ledger = 1 .. Cardinality(DOMAIN ledger)
    BY <1>1, FS_CardinalityType DEF PoolIInv, PoolTypeOK
  <2>2. n # 0
    BY <2>1
  <2> QED BY <1>1, <2>2 DEF PoolIInv, PoolTypeOK, Entry
<1>3. /\ e.type = "INVEST" /\ n \notin cancelled
      /\ available' = IF e.source = "DEFERRED" THEN available ELSE available + e.amount
      /\ cancelled' = cancelled \cup {n}
      /\ uses' = [k \in DOMAIN uses |->
                    IF uses[k].tx = n THEN [uses[k] EXCEPT !.tx = 0] ELSE uses[k]]
      /\ UNCHANGED <<reserved, commission, ledger>>
  BY DEF UndoInvestment, MayUndo
<1>4. /\ DOMAIN uses' = DOMAIN uses
      /\ \A j \in DOMAIN uses : /\ uses'[j].details = uses[j].details
                                /\ uses'[j].open = uses[j].open
                                /\ uses'[j].tx = IF uses[j].tx = n THEN 0 ELSE uses[j].tx
  BY <1>2, <1>3 DEF Use
<1>5. Total(AmountsOf(ledger, cancelled, "INVEST"))
        = Total(AmountsOf(ledger, cancelled', "INVEST")) + e.amount
  <2>1. /\ ledger[n].type = "INVEST" /\ n \in DOMAIN ledger /\ n \notin cancelled
        /\ IsFiniteSet(DOMAIN ledger) /\ ledger \in [DOMAIN ledger -> Entry]
    BY <1>2, <1>3
  <2> HIDE DEF e
  <2>2. Total(AmountsOf(ledger, cancelled, "INVEST"))
          = Total(AmountsOf(ledger, cancelled \cup {n}, "INVEST")) + ledger[n].amount
    BY <2>1, AmountsCancel, ZenonT(30)
  <2> QED BY <1>3, <2>2 DEF e
<1> HIDE DEF e
<1>6. StandingDeferred' = StandingDeferred \ {n}
  BY <1>3 DEF StandingDeferred
<1>7. UsesMatch'
  <2>1. \A j \in DOMAIN uses' : uses'[j].tx # 0 => StandsFor(uses[j], uses[j].tx)'
    <3> SUFFICES ASSUME NEW j \in DOMAIN uses, uses'[j].tx # 0
                 PROVE  StandsFor(uses[j], uses[j].tx)'
      BY <1>4
    <3>1. uses'[j].tx = uses[j].tx /\ uses[j].tx # n /\ StandsFor(uses[j], uses[j].tx)
      BY <1>1, <1>4 DEF UsesMatch
    <3> QED BY <1>3, <1>4, <3>1 DEF StandsFor
  <2>2. \A m \in StandingDeferred \ {n} : \E j \in DOMAIN uses' : uses'[j].tx = m
    BY <1>1, <1>4 DEF UsesMatch
  <2>3. \A i, j \in DOMAIN uses' : uses'[i].tx = uses'[j].tx /\ uses'[i].tx # 0 => i = j
    BY <1>1, <1>4 DEF UsesMatch
  <2> QED BY <1>6, <2>1, <2>2, <2>3 DEF UsesMatch
<1>8. CASE e.source = "DEFERRED"
  <2>1. n \in StandingDeferred
    BY <1>3, <1>8 DEF StandingDeferred, e
  <2>2. PICK k \in DOMAIN uses : uses[k].tx = n
    BY <1>1, <2>1 DEF UsesMatch
  <2>3. uses[k].open /\ e.amount = Total(uses[k].details)
        /\ \A j \in DOMAIN uses : uses[j].tx = n => j = k
    BY <1>1, <1>2, <2>2 DEF UsesMatch, StandsFor, e
  <2>4. /\ k \notin DOMAIN FlightOf(uses)
        /\ DOMAIN FlightOf(uses') = DOMAIN FlightOf(uses) \cup {k}
        /\ FlightOf(uses')[k] = e.amount
        /\ \A j \in DOMAIN FlightOf(uses) : uses'[j].details = uses[j].details
    BY <1>2, <1>4, <2>2, <2>3 DEF FlightOf
  <2>5. Total(FlightOf(uses')) = Total(FlightOf(uses)) + e.amount
    BY <1>2, <2>4, FlightGains
  <2>6. Holdings(available', reserved', uses', ledger', cancelled', commission')
          = Holdings(available, reserved, uses, ledger, cancelled, commission)
    BY <1>1, <1>2, <1>3, <1>5, <1>8, <2>5, MoneyParts, MoneyPartsNext DEF Holdings
  <2> QED BY <1>1, <1>7, <1>8, <2>5, <2>6, HoldingsKept DEF e
<1>9. CASE e.source # "DEFERRED"
  <2>1. \A j \in DOMAIN uses : uses[j].tx # n
    BY <1>1, <1>2, <1>9 DEF UsesMatch, StandsFor, e
  <2>2. uses' = uses
    BY <1>2, <1>3, <2>1
  <2>3. Holdings(available', reserved', uses', ledger', cancelled', commission')
          = Holdings(available, reserved, uses, ledger, cancelled, commission)
    BY <1>1, <1>2, <1>3, <1>5, <1>9, <2>2, MoneyParts, MoneyPartsNext DEF Holdings
  <2>4. Total(FlightOf(uses')) = Total(FlightOf(uses)) + 0
    BY <1>1, <2>2, MoneyParts
  <2> QED BY <1>1, <1>7, <1>9, <2>3, <2>4, HoldingsKept DEF e
<1> QED BY <1>8, <1>9

LEMMA MoneyReflow ==
  ASSUME MoneyInv, PoolIInv', NEW today \in Days, NEW amount \in Amounts,
         RecordReflow(today, amount)
  PROVE  UsesMatch' /\ MoneyIsConserved'
<1> DEFINE e == [type |-> "REFLOW", source |-> "NORMAL", date |-> today,
                 amount |-> amount, supp |-> 0]
<1>1. PoolIInv /\ PoolTypeOK /\ UsesMatch /\ MoneyIsConserved /\ amount \in Nat
  BY PoolAssumption DEF MoneyInv, PoolIInv, ValidPool
<1>2. /\ available' = AvailableAt(today) + amount /\ reserved' = ReservedAt(today)
      /\ Record(e) /\ UNCHANGED <<commission, cancelled, uses>>
  BY DEF RecordReflow
<1>3. e \in Entry /\ e.type = "REFLOW" /\ e.amount = amount
  BY <1>1 DEF Entry, Sources
<1> HIDE DEF e
<1>4. /\ Total(AmountsOf(ledger', cancelled', "INVEST"))
           = Total(AmountsOf(ledger, cancelled, "INVEST"))
      /\ Total(AmountsOf(ledger', {}, "REFLOW"))
           = Total(AmountsOf(ledger, {}, "REFLOW")) + amount
  BY <1>1, <1>2, <1>3, RecordAmounts, MoneyParts
<1>5. AvailableAt(today) + Total(ReservedAt(today)) = available + Total(reserved)
      /\ AvailableAt(today) \in Nat
  BY <1>1, ReleaseType
<1>6. Holdings(available', reserved', uses', ledger', cancelled', commission')
        = Holdings(available, reserved, uses, ledger, cancelled, commission)
  BY <1>1, <1>2, <1>4, <1>5, MoneyParts, MoneyPartsNext DEF Holdings
<1>7. MoneyIsConserved'
  BY <1>1, <1>6, HoldingsKept
<1> QED BY <1>1, <1>2, <1>3, <1>7, RecordKeepsMatch

LEMMA MoneyCommission ==
  ASSUME MoneyInv, PoolIInv', NEW today \in Days, NEW amount \in Amounts,
         RecordCommission(today, amount)
  PROVE  UsesMatch' /\ MoneyIsConserved'
<1> DEFINE e == [type |-> "COMMISSION", source |-> "NORMAL", date |-> today,
                 amount |-> amount, supp |-> 0]
<1>1. PoolIInv /\ UsesMatch /\ MoneyIsConserved /\ amount \in Nat
  BY PoolAssumption DEF MoneyInv, ValidPool
<1>2. /\ available' = available - amount /\ commission' = commission + amount /\ Record(e)
      /\ UNCHANGED <<reserved, cancelled, uses>>
  BY DEF RecordCommission
<1>3. e \in Entry /\ e.type = "COMMISSION"
  BY <1>1 DEF Entry, Sources
<1> HIDE DEF e
<1>4. /\ Total(AmountsOf(ledger', cancelled', "INVEST"))
           = Total(AmountsOf(ledger, cancelled, "INVEST"))
      /\ Total(AmountsOf(ledger', {}, "REFLOW")) = Total(AmountsOf(ledger, {}, "REFLOW"))
  BY <1>1, <1>2, <1>3, RecordAmounts, MoneyParts
<1>5. Holdings(available', reserved', uses', ledger', cancelled', commission')
        = Holdings(available, reserved, uses, ledger, cancelled, commission)
  BY <1>1, <1>2, <1>4, MoneyParts DEF Holdings
<1>6. MoneyIsConserved'
  BY <1>1, <1>5, HoldingsKept
<1> QED BY <1>1, <1>2, <1>3, <1>6, RecordKeepsMatch

\* Nothing is held, recorded or in flight: the pool is the capital.
LEMMA MoneyAtTheStart ==
  ASSUME available = TotalCapital, reserved = NoMoney, commission = 0, ledger = Empty,
         cancelled = {}, uses = Empty
  PROVE  UsesMatch /\ MoneyIsConserved
<1>1. DOMAIN ledger = {} /\ DOMAIN uses = {} /\ Empty = [x \in {} |-> 0]
  BY DEF Empty
<1>2. UsesMatch
  BY <1>1 DEF UsesMatch, StandingDeferred
<1>3. Total(reserved) = 0
  <2>1. reserved \in [Days -> {0}]
    BY DEF NoMoney
  <2> QED BY <2>1, TotalZero
<1>4. InFlight = 0
  <2>1. [k \in {x \in DOMAIN uses : uses[x].open /\ uses[x].tx = 0} |->
           Total(uses[k].details)] \in [{} -> {0}]
    BY <1>1
  <2> QED BY <2>1, TotalZero DEF InFlight
<1>5. DOMAIN Trades = {}
  BY <1>1 DEF Trades
<1>6. Invested(Trades, Days) = 0
  <2>1. [n \in {m \in DOMAIN Trades : Trades[m].type = "INVEST" /\ Trades[m].date \in Days}
           |-> Trades[n].amount] \in [{} -> {0}]
    BY <1>5
  <2> QED BY <2>1, TotalZero DEF Invested
<1>7. Reflowed(ledger, Days) = 0
  <2>1. [n \in {m \in DOMAIN ledger : ledger[m].type = "REFLOW" /\ ledger[m].date \in Days}
           |-> ledger[n].amount] \in [{} -> {0}]
    BY <1>1
  <2> QED BY <2>1, TotalZero DEF Reflowed
<1>8. TotalCapital \in Nat
  BY PoolAssumption DEF ValidPool
<1> QED BY <1>2, <1>3, <1>4, <1>6, <1>7, <1>8 DEF MoneyIsConserved

\* The same after a reset.
LEMMA MoneyReset ==
  ASSUME ResetState
  PROVE  UsesMatch' /\ MoneyIsConserved'
<1>1. /\ available' = TotalCapital /\ reserved' = NoMoney /\ commission' = 0
      /\ ledger' = Empty /\ cancelled' = {} /\ uses' = Empty
  BY DEF ResetState
<1>2. DOMAIN ledger' = {} /\ DOMAIN uses' = {}
  BY <1>1 DEF Empty
<1>3. UsesMatch'
  BY <1>2 DEF UsesMatch, StandingDeferred
<1>4. Total(reserved') = 0
  <2>1. reserved' \in [Days -> {0}]
    BY <1>1 DEF NoMoney
  <2> QED BY <2>1, TotalZero
<1>5. InFlight' = 0
  <2>1. [k \in {x \in DOMAIN uses' : uses'[x].open /\ uses'[x].tx = 0} |->
           Total(uses'[k].details)] \in [{} -> {0}]
    BY <1>2
  <2>2. InFlight' = Total([k \in {x \in DOMAIN uses' : uses'[x].open /\ uses'[x].tx = 0} |->
                             Total(uses'[k].details)])
    BY DEF InFlight
  <2> QED BY <2>1, <2>2, TotalZero
<1>6. DOMAIN Trades' = {}
  BY <1>2 DEF Trades
<1>7. Invested(Trades', Days) = 0
  <2>1. [n \in {m \in DOMAIN Trades' : Trades'[m].type = "INVEST" /\ Trades'[m].date \in Days}
           |-> Trades'[n].amount] \in [{} -> {0}]
    BY <1>6
  <2> QED BY <2>1, TotalZero DEF Invested
<1>8. Reflowed(ledger', Days) = 0
  <2>1. [n \in {m \in DOMAIN ledger' : ledger'[m].type = "REFLOW" /\ ledger'[m].date \in Days}
           |-> ledger'[n].amount] \in [{} -> {0}]
    BY <1>2
  <2> QED BY <2>1, TotalZero DEF Reflowed
<1>9. MoneyIsConserved' <=>
        available' + Total(reserved') + InFlight' + Invested(Trades', Days) + commission'
          = TotalCapital + Reflowed(ledger', Days)
  BY DEF MoneyIsConserved, Invested, Reflowed, Days
<1>10. TotalCapital \in Nat
  BY PoolAssumption DEF ValidPool
<1> QED BY <1>1, <1>3, <1>4, <1>5, <1>7, <1>8, <1>9, <1>10

LEMMA InitEstablishesMoney == Init => MoneyInv
BY InitEstablishesPool, MoneyAtTheStart DEF Init, MoneyInv

LEMMA NextPreservesMoney ==
  ASSUME MoneyInv, [Next]_vars
  PROVE  MoneyInv'
<1>0. PoolIInv'
  BY NextPreservesPool DEF MoneyInv
<1> SUFFICES UsesMatch' /\ MoneyIsConserved'
  BY <1>0 DEF MoneyInv
<1>1. ASSUME NEW today \in Days, ReleaseExpired(today)
      PROVE  UsesMatch' /\ MoneyIsConserved'
  BY <1>0, <1>1, MoneyRelease
<1>2. ASSUME NEW s \in Stocks, NEW d \in Days, NEW a \in Amounts, NEW v \in ValidDays,
             DeferQuota(s, d, a, v)
      PROVE  UsesMatch' /\ MoneyIsConserved'
  BY <1>0, <1>2, MoneyDefer
<1>3. ASSUME NEW s \in Stocks, NEW d \in Days, NEW a \in Amounts,
             UseDeferredQuota(s, d, a)
      PROVE  UsesMatch' /\ MoneyIsConserved'
  BY <1>0, <1>3, MoneyUse
<1>4. ASSUME NEW k \in DOMAIN uses, NEW w \in BOOLEAN, UndoDeferredQuota(k, w)
      PROVE  UsesMatch' /\ MoneyIsConserved'
  BY <1>0, <1>4, MoneyUndoQuota
<1>5. ASSUME NEW d \in Days, NEW a \in Amounts, NEW supp \in Amounts \cup {0},
             RecordInvestment(d, a, supp)
      PROVE  UsesMatch' /\ MoneyIsConserved'
  BY <1>0, <1>5, MoneyInvest
<1>6. ASSUME NEW k \in DOMAIN uses, RecordDeferred(k)
      PROVE  UsesMatch' /\ MoneyIsConserved'
  BY <1>0, <1>6, MoneyDeferred
<1>7. ASSUME NEW n \in DOMAIN ledger, UndoInvestment(n)
      PROVE  UsesMatch' /\ MoneyIsConserved'
  BY <1>0, <1>7, MoneyUndo
<1>8. ASSUME NEW d \in Days, NEW a \in Amounts, RecordReflow(d, a)
      PROVE  UsesMatch' /\ MoneyIsConserved'
  BY <1>0, <1>8, MoneyReflow
<1>9. ASSUME NEW d \in Days, NEW a \in Amounts, RecordCommission(d, a)
      PROVE  UsesMatch' /\ MoneyIsConserved'
  BY <1>0, <1>9, MoneyCommission
<1>10. CASE ResetState
  BY <1>10, MoneyReset
<1>11. CASE UNCHANGED vars
  <2>1. UNCHANGED <<available, reserved, commission, ledger, cancelled, uses>>
    BY <1>11 DEF vars
  <2>2. PoolIInv /\ UsesMatch /\ MoneyIsConserved
    BY DEF MoneyInv
  <2>3. Holdings(available', reserved', uses', ledger', cancelled', commission')
          = Holdings(available, reserved, uses, ledger, cancelled, commission)
    BY <2>1 DEF Holdings
  <2> QED BY <1>0, <2>1, <2>2, <2>3, HoldingsKept, FrameKeepsMatch
<1> QED BY <1>1, <1>2, <1>3, <1>4, <1>5, <1>6, <1>7, <1>8, <1>9, <1>10, <1>11 DEF Next

(***************************************************************************)
(* The day's quota: its use is the regular part of what stands             *)
(***************************************************************************)

\* The regular parts of the standing investments of a day, by number.
RegularOf(f, c, d) ==
  [n \in {m \in DOMAIN f \ c : f[m].type = "INVEST" /\ f[m].source # "DEFERRED"
                                 /\ f[m].date = d}
     |-> f[n].amount - f[n].supp]

\* Supplementary money is a part of the order, and of a supplementary order only.
SuppFits(f) ==
  \A n \in DOMAIN f : f[n].supp <= f[n].amount /\ (f[n].source = "NORMAL" => f[n].supp = 0)

QuotaInv == PoolIInv /\ SuppFits(ledger) /\ DailyQuotaHolds

LEMMA RegularType ==
  ASSUME NEW f, IsFiniteSet(DOMAIN f), f \in [DOMAIN f -> Entry], SuppFits(f), NEW c, NEW d
  PROVE  /\ IsFiniteSet(DOMAIN RegularOf(f, c, d))
         /\ RegularOf(f, c, d) \in [DOMAIN RegularOf(f, c, d) -> Nat]
         /\ Total(RegularOf(f, c, d)) \in Nat
<1> DEFINE a == RegularOf(f, c, d)
<1>1. DOMAIN a \in SUBSET DOMAIN f
  BY DEF RegularOf
<1>2. IsFiniteSet(DOMAIN a)
  <2> HIDE DEF a
  <2> QED BY <1>1, FS_Subset
<1>3. \A n \in DOMAIN f : f[n].amount - f[n].supp \in Nat
  <2> TAKE n \in DOMAIN f
  <2>1. f[n].amount \in Nat /\ f[n].supp \in Nat /\ f[n].supp <= f[n].amount
    BY DEF Entry, SuppFits
  <2> QED BY <2>1
<1>4. a \in [DOMAIN a -> Nat]
  BY <1>3 DEF RegularOf
<1>5. Total(a) \in Nat
  <2> HIDE DEF a
  <2> QED BY <1>2, <1>4, TotalType
<1> QED BY <1>2, <1>4, <1>5

LEMMA RegularPut ==
  ASSUME NEW f, IsFiniteSet(DOMAIN f), f \in [DOMAIN f -> Entry], SuppFits(f),
         NEW n, n \notin DOMAIN f, NEW e \in Entry, e.supp <= e.amount,
         NEW g, DOMAIN g = DOMAIN f \cup {n}, g[n] = e,
         \A m \in DOMAIN f : g[m] = f[m], NEW c, c \subseteq DOMAIN f, NEW d
  PROVE  Total(RegularOf(g, c, d))
           = Total(RegularOf(f, c, d))
               + (IF e.type = "INVEST" /\ e.source # "DEFERRED" /\ e.date = d
                  THEN e.amount - e.supp ELSE 0)
<1> DEFINE a == RegularOf(f, c, d)
           b == RegularOf(g, c, d)
           counts == e.type = "INVEST" /\ e.source # "DEFERRED" /\ e.date = d
<1>1. IsFiniteSet(DOMAIN a) /\ a \in [DOMAIN a -> Nat] /\ Total(a) \in Nat
  BY RegularType, Zenon
<1>2. n \notin DOMAIN a /\ n \notin c /\ e.amount - e.supp \in Nat
  <2>1. e.amount \in Nat /\ e.supp \in Nat
    BY DEF Entry
  <2> QED BY <2>1 DEF RegularOf
<1>3. CASE counts
  <2>1. DOMAIN b = DOMAIN a \cup {n}
    BY <1>2, <1>3 DEF RegularOf
  <2>2. b[n] = e.amount - e.supp
    BY <1>2, <1>3 DEF RegularOf
  <2>3. \A m \in DOMAIN a : b[m] = a[m]
    BY DEF RegularOf
  <2>4. b = [m \in DOMAIN b |-> b[m]]
    BY DEF RegularOf
  <2> HIDE DEF a, b
  <2>5. b = Put(a, n, e.amount - e.supp)
    BY <1>2, <2>1, <2>2, <2>3, <2>4 DEF Put
  <2>6. Total(b) = Total(a) + (e.amount - e.supp)
    BY <1>1, <1>2, <2>5, TotalPut
  <2> QED BY <1>3, <2>6 DEF a, b
<1>4. CASE ~counts
  <2>1. a = b
    BY <1>4 DEF RegularOf
  <2> HIDE DEF a, b
  <2>2. Total(b) = Total(a) + 0
    BY <1>1, <2>1
  <2> QED BY <1>4, <2>2 DEF a, b
<1> QED BY <1>3, <1>4

LEMMA RegularCancel ==
  ASSUME NEW f, IsFiniteSet(DOMAIN f), f \in [DOMAIN f -> Entry], SuppFits(f), NEW c,
         NEW n \in DOMAIN f, n \notin c, f[n].type = "INVEST", NEW d
  PROVE  Total(RegularOf(f, c, d))
           = Total(RegularOf(f, c \cup {n}, d))
               + (IF f[n].source # "DEFERRED" /\ f[n].date = d
                  THEN f[n].amount - f[n].supp ELSE 0)
<1> DEFINE a == RegularOf(f, c, d)
           b == RegularOf(f, c \cup {n}, d)
           counts == f[n].source # "DEFERRED" /\ f[n].date = d
<1>1. IsFiniteSet(DOMAIN a) /\ a \in [DOMAIN a -> Nat] /\ Total(a) \in Nat
  BY RegularType, Zenon
<1>2. CASE counts
  <2>1. n \in DOMAIN a /\ a[n] = f[n].amount - f[n].supp
    BY <1>2 DEF RegularOf
  <2>2. b = [x \in DOMAIN a \ {n} |-> a[x]]
    BY DEF RegularOf
  <2> HIDE DEF a, b
  <2>3. Total(a) = a[n] + Total([x \in DOMAIN a \ {n} |-> a[x]])
        /\ Total([x \in DOMAIN a \ {n} |-> a[x]]) \in Nat
    BY <1>1, <2>1, TotalSplit
  <2>4. a[n] \in Nat
    BY <1>1, <2>1
  <2>5. Total(a) = Total(b) + (f[n].amount - f[n].supp)
    BY <2>1, <2>2, <2>3, <2>4
  <2> QED BY <1>2, <2>5 DEF a, b
<1>3. CASE ~counts
  <2>1. a = b
    BY <1>3 DEF RegularOf
  <2> HIDE DEF a, b
  <2>2. Total(a) = Total(b) + 0
    BY <1>1, <2>1
  <2> QED BY <1>3, <2>2 DEF a, b
<1> QED BY <1>2, <1>3

LEMMA RegularPartIs ==
  ASSUME NEW d \in Days
  PROVE  /\ RegularPart(d) = Total(RegularOf(ledger, cancelled, d))
         /\ RegularPart(d)' = Total(RegularOf(ledger', cancelled', d))
<1>1. Standing(d) = {m \in DOMAIN ledger \ cancelled :
                       ledger[m].type = "INVEST" /\ ledger[m].source # "DEFERRED"
                         /\ ledger[m].date = d}
  BY DEF Standing, Trades
<1>2. Standing(d)' = {m \in DOMAIN ledger' \ cancelled' :
                        ledger'[m].type = "INVEST" /\ ledger'[m].source # "DEFERRED"
                          /\ ledger'[m].date = d}
  BY DEF Standing, Trades
<1> QED BY <1>1, <1>2 DEF RegularPart, RegularOf

\* Calls that leave the day's use alone may record anything else.
LEMMA RecordKeepsQuota ==
  ASSUME QuotaInv, NEW e \in Entry, Record(e), e.supp = 0,
         e.type = "INVEST" => e.source = "DEFERRED",
         invested' = invested, cancelled' = cancelled
  PROVE  SuppFits(ledger') /\ DailyQuotaHolds'
<1>1. PoolIInv /\ SuppFits(ledger) /\ DailyQuotaHolds
  BY DEF QuotaInv
<1>2. /\ NextId(ledger) \notin DOMAIN ledger
      /\ DOMAIN ledger' = DOMAIN ledger \cup {NextId(ledger)}
      /\ ledger'[NextId(ledger)] = e /\ \A n \in DOMAIN ledger : ledger'[n] = ledger[n]
  BY <1>1, RecordType
<1>3. /\ IsFiniteSet(DOMAIN ledger) /\ ledger \in [DOMAIN ledger -> Entry]
      /\ cancelled \subseteq DOMAIN ledger
  BY <1>1 DEF PoolIInv, PoolTypeOK
<1>4. e.supp <= e.amount
  BY DEF Entry
<1>5. SuppFits(ledger')
  BY <1>1, <1>2, <1>4 DEF SuppFits
<1>6. \A d \in Days : RegularPart(d)' = RegularPart(d)
  <2> TAKE d \in Days
  <2>0. Total(RegularOf(ledger', cancelled, d))
          = Total(RegularOf(ledger, cancelled, d))
              + (IF e.type = "INVEST" /\ e.source # "DEFERRED" /\ e.date = d
                 THEN e.amount - e.supp ELSE 0)
    BY <1>1, <1>2, <1>3, <1>4, RegularPut
  <2>1. Total(RegularOf(ledger', cancelled, d)) = Total(RegularOf(ledger, cancelled, d)) + 0
    BY <2>0
  <2>2. Total(RegularOf(ledger, cancelled, d)) \in Nat
    BY <1>1, <1>3, RegularType, Zenon
  <2> QED BY <2>1, <2>2, RegularPartIs
<1>7. DailyQuotaHolds'
  BY <1>1, <1>6 DEF DailyQuotaHolds
<1> QED BY <1>5, <1>7

LEMMA QuotaInvest ==
  ASSUME QuotaInv, NEW today \in Days, NEW amount \in Amounts, NEW supp \in Amounts \cup {0},
         RecordInvestment(today, amount, supp)
  PROVE  SuppFits(ledger') /\ DailyQuotaHolds'
<1> DEFINE e == [type |-> "INVEST",
                 source |-> IF supp > 0 THEN "SUPPLEMENTARY" ELSE "NORMAL",
                 date |-> today, amount |-> amount, supp |-> supp]
<1>1. PoolIInv /\ SuppFits(ledger) /\ DailyQuotaHolds
  BY DEF QuotaInv
<1>2. amount \in Nat /\ supp \in Nat /\ DailyInvestment \in Nat
  BY PoolAssumption DEF ValidPool
<1>3. /\ supp <= amount /\ invested[today] + (amount - supp) <= DailyInvestment
      /\ invested' = [invested EXCEPT ![today] = @ + (amount - supp)]
      /\ Record(e) /\ cancelled' = cancelled
  BY DEF RecordInvestment, WithinLimits
<1>4. /\ e \in Entry /\ e.type = "INVEST" /\ e.source # "DEFERRED" /\ e.date = today
      /\ e.amount = amount /\ e.supp = supp /\ (e.source = "NORMAL" => e.supp = 0)
  BY <1>2 DEF Entry, Sources
<1> HIDE DEF e
<1>5. /\ NextId(ledger) \notin DOMAIN ledger
      /\ DOMAIN ledger' = DOMAIN ledger \cup {NextId(ledger)}
      /\ ledger'[NextId(ledger)] = e /\ \A n \in DOMAIN ledger : ledger'[n] = ledger[n]
  BY <1>1, <1>3, <1>4, RecordType
<1>6. /\ IsFiniteSet(DOMAIN ledger) /\ ledger \in [DOMAIN ledger -> Entry]
      /\ cancelled \subseteq DOMAIN ledger /\ invested \in [Days -> Nat]
  BY <1>1 DEF PoolIInv, PoolTypeOK
<1>7. SuppFits(ledger')
  BY <1>1, <1>3, <1>4, <1>5 DEF SuppFits
<1>8. \A d \in Days :
        RegularPart(d)' = RegularPart(d) + (IF d = today THEN amount - supp ELSE 0)
        /\ RegularPart(d) \in Nat
  <2> TAKE d \in Days
  <2>0. Total(RegularOf(ledger', cancelled, d))
          = Total(RegularOf(ledger, cancelled, d))
              + (IF e.type = "INVEST" /\ e.source # "DEFERRED" /\ e.date = d
                 THEN e.amount - e.supp ELSE 0)
    <3>1. e.supp <= e.amount
      BY <1>3, <1>4
    <3> QED BY <1>1, <1>4, <1>5, <1>6, <3>1, RegularPut, SMTT(30)
  <2>1. Total(RegularOf(ledger', cancelled, d))
          = Total(RegularOf(ledger, cancelled, d)) + (IF d = today THEN amount - supp ELSE 0)
    BY <1>4, <2>0
  <2>2. Total(RegularOf(ledger, cancelled, d)) \in Nat
    BY <1>1, <1>6, RegularType, Zenon
  <2> QED BY <1>3, <2>1, <2>2, RegularPartIs
<1>9. DailyQuotaHolds'
  <2> SUFFICES ASSUME NEW d \in Days
               PROVE  RegularPart(d)' <= invested'[d] /\ invested'[d] <= DailyInvestment
    BY DEF DailyQuotaHolds
  <2>1. /\ RegularPart(d) <= invested[d] /\ invested[d] <= DailyInvestment
        /\ invested[d] \in Nat
        /\ invested'[d] = IF d = today THEN invested[d] + (amount - supp) ELSE invested[d]
    BY <1>1, <1>3, <1>6 DEF DailyQuotaHolds
  <2> QED BY <1>2, <1>3, <1>8, <2>1
<1> QED BY <1>7, <1>9

LEMMA QuotaUndo ==
  ASSUME QuotaInv, NEW n \in DOMAIN ledger, UndoInvestment(n)
  PROVE  SuppFits(ledger') /\ DailyQuotaHolds'
<1> DEFINE e == ledger[n]
<1>1. PoolIInv /\ SuppFits(ledger) /\ DailyQuotaHolds
  BY DEF QuotaInv
<1>2. /\ IsFiniteSet(DOMAIN ledger) /\ ledger \in [DOMAIN ledger -> Entry]
      /\ invested \in [Days -> Nat] /\ DailyInvestment \in Nat
  BY <1>1, PoolAssumption DEF PoolIInv, PoolTypeOK, ValidPool
<1>3. /\ e.amount \in Nat /\ e.supp \in Nat /\ e.supp <= e.amount /\ e.date \in Days
      /\ (e.source = "NORMAL" => e.supp = 0)
  BY <1>1, <1>2 DEF Entry, SuppFits
<1>4. /\ ledger[n].type = "INVEST" /\ n \notin cancelled /\ ledger' = ledger
      /\ cancelled' = cancelled \cup {n}
      /\ invested' = IF e.source = "NORMAL" THEN Less(invested, e.date, e.amount) ELSE invested
  BY DEF UndoInvestment, MayUndo
<1>5. \A d \in Days :
        /\ RegularPart(d) = RegularPart(d)'
             + (IF e.source # "DEFERRED" /\ e.date = d THEN e.amount - e.supp ELSE 0)
        /\ RegularPart(d) \in Nat /\ RegularPart(d)' \in Nat
  <2> TAKE d \in Days
  <2>1. Total(RegularOf(ledger, cancelled, d))
          = Total(RegularOf(ledger, cancelled \cup {n}, d))
              + (IF e.source # "DEFERRED" /\ e.date = d THEN e.amount - e.supp ELSE 0)
    BY <1>1, <1>2, <1>4, RegularCancel
  <2>2. /\ Total(RegularOf(ledger, cancelled, d)) \in Nat
        /\ Total(RegularOf(ledger, cancelled \cup {n}, d)) \in Nat
    BY <1>1, <1>2, RegularType, Zenon
  <2> HIDE DEF e
  <2> QED BY <1>4, <2>1, <2>2, RegularPartIs
<1> HIDE DEF e
<1>6. DailyQuotaHolds'
  <2> SUFFICES ASSUME NEW d \in Days
               PROVE  RegularPart(d)' <= invested'[d] /\ invested'[d] <= DailyInvestment
    BY DEF DailyQuotaHolds
  <2>1. RegularPart(d) <= invested[d] /\ invested[d] <= DailyInvestment /\ invested[d] \in Nat
    BY <1>1, <1>2 DEF DailyQuotaHolds
  <2>2. CASE e.source = "NORMAL" /\ e.date = d
    <3>1. invested'[d] = IF invested[d] > e.amount THEN invested[d] - e.amount ELSE 0
      BY <1>2, <1>4, <2>2 DEF Less
    <3>2. RegularPart(d) = RegularPart(d)' + e.amount /\ RegularPart(d)' \in Nat
      BY <1>3, <1>5, <2>2
    <3> QED BY <1>2, <1>3, <2>1, <3>1, <3>2
  <2>3. CASE ~(e.source = "NORMAL" /\ e.date = d)
    <3>1. invested'[d] = invested[d]
      BY <1>2, <1>4, <2>3 DEF Less
    <3>2. RegularPart(d)' <= RegularPart(d)
      BY <1>3, <1>5
    <3>3. RegularPart(d)' \in Nat /\ RegularPart(d) \in Nat
      BY <1>5
    <3> QED BY <2>1, <3>1, <3>2, <3>3
  <2> QED BY <2>2, <2>3
<1> QED BY <1>1, <1>4, <1>6

LEMMA QuotaFrame ==
  ASSUME QuotaInv, invested' = invested, ledger' = ledger, cancelled' = cancelled
  PROVE  SuppFits(ledger') /\ DailyQuotaHolds'
<1>1. \A d \in Days : RegularPart(d)' = RegularPart(d)
  BY RegularPartIs
<1> QED BY <1>1 DEF QuotaInv, DailyQuotaHolds

LEMMA InitEstablishesQuota == Init => QuotaInv
<1> SUFFICES ASSUME Init
             PROVE  QuotaInv
  OBVIOUS
<1>1. DOMAIN ledger = {} /\ DailyInvestment \in Nat
  BY PoolAssumption DEF Init, Empty, ValidPool
<1>2. \A d \in Days : RegularPart(d) = 0
  <2> TAKE d \in Days
  <2>1. RegularOf(ledger, cancelled, d) \in [{} -> {0}]
    BY <1>1 DEF RegularOf
  <2> QED BY <2>1, TotalZero, RegularPartIs
<1>3. DailyQuotaHolds
  BY <1>1, <1>2 DEF DailyQuotaHolds, Init, NoMoney
<1> QED BY <1>1, <1>3, InitEstablishesPool DEF QuotaInv, SuppFits

LEMMA NextPreservesQuota ==
  ASSUME QuotaInv, [Next]_vars
  PROVE  QuotaInv'
<1>0. PoolIInv /\ PoolIInv'
  BY NextPreservesPool DEF QuotaInv
<1> SUFFICES SuppFits(ledger') /\ DailyQuotaHolds'
  BY <1>0 DEF QuotaInv
<1>1. ASSUME NEW today \in Days, ReleaseExpired(today)
      PROVE  SuppFits(ledger') /\ DailyQuotaHolds'
  BY <1>1, QuotaFrame DEF ReleaseExpired
<1>2. ASSUME NEW s \in Stocks, NEW d \in Days, NEW a \in Amounts, NEW v \in ValidDays,
             DeferQuota(s, d, a, v)
      PROVE  SuppFits(ledger') /\ DailyQuotaHolds'
  BY <1>2, QuotaFrame DEF DeferQuota
<1>3. ASSUME NEW s \in Stocks, NEW d \in Days, NEW a \in Amounts,
             UseDeferredQuota(s, d, a)
      PROVE  SuppFits(ledger') /\ DailyQuotaHolds'
  BY <1>3, QuotaFrame DEF UseDeferredQuota
<1>4. ASSUME NEW k \in DOMAIN uses, NEW w \in BOOLEAN, UndoDeferredQuota(k, w)
      PROVE  SuppFits(ledger') /\ DailyQuotaHolds'
  <2> DEFINE e == [type |-> "INVEST_CANCEL", source |-> "DEFERRED", date |-> uses[k].date,
                   amount |-> Total(uses[k].details), supp |-> 0]
  <2>1. Record(e) /\ invested' = invested /\ cancelled' = cancelled
    BY <1>4 DEF UndoDeferredQuota
  <2>2. e \in Entry /\ e.type # "INVEST" /\ e.supp = 0
    BY <1>0, UseType DEF Entry, Sources
  <2> HIDE DEF e
  <2> QED BY <2>1, <2>2, RecordKeepsQuota
<1>5. ASSUME NEW d \in Days, NEW a \in Amounts, NEW supp \in Amounts \cup {0},
             RecordInvestment(d, a, supp)
      PROVE  SuppFits(ledger') /\ DailyQuotaHolds'
  BY <1>5, QuotaInvest
<1>6. ASSUME NEW k \in DOMAIN uses, RecordDeferred(k)
      PROVE  SuppFits(ledger') /\ DailyQuotaHolds'
  <2> DEFINE e == [type |-> "INVEST", source |-> "DEFERRED", date |-> uses[k].date,
                   amount |-> Total(uses[k].details), supp |-> 0]
  <2>1. Record(e) /\ invested' = invested /\ cancelled' = cancelled
    BY <1>6 DEF RecordDeferred
  <2>2. e \in Entry /\ e.source = "DEFERRED" /\ e.supp = 0
    BY <1>0, UseType DEF Entry, Sources
  <2> HIDE DEF e
  <2> QED BY <2>1, <2>2, RecordKeepsQuota
<1>7. ASSUME NEW n \in DOMAIN ledger, UndoInvestment(n)
      PROVE  SuppFits(ledger') /\ DailyQuotaHolds'
  BY <1>7, QuotaUndo
<1>8. ASSUME NEW d \in Days, NEW a \in Amounts, RecordReflow(d, a)
      PROVE  SuppFits(ledger') /\ DailyQuotaHolds'
  <2> DEFINE e == [type |-> "REFLOW", source |-> "NORMAL", date |-> d,
                   amount |-> a, supp |-> 0]
  <2>1. Record(e) /\ invested' = invested /\ cancelled' = cancelled
    BY <1>8 DEF RecordReflow
  <2>2. e \in Entry /\ e.type # "INVEST" /\ e.supp = 0
    BY PoolAssumption DEF Entry, Sources, ValidPool
  <2> HIDE DEF e
  <2> QED BY <2>1, <2>2, RecordKeepsQuota
<1>9. ASSUME NEW d \in Days, NEW a \in Amounts, RecordCommission(d, a)
      PROVE  SuppFits(ledger') /\ DailyQuotaHolds'
  <2> DEFINE e == [type |-> "COMMISSION", source |-> "NORMAL", date |-> d,
                   amount |-> a, supp |-> 0]
  <2>1. Record(e) /\ invested' = invested /\ cancelled' = cancelled
    BY <1>9 DEF RecordCommission
  <2>2. e \in Entry /\ e.type # "INVEST" /\ e.supp = 0
    BY PoolAssumption DEF Entry, Sources, ValidPool
  <2> HIDE DEF e
  <2> QED BY <2>1, <2>2, RecordKeepsQuota
<1>10. CASE ResetState
  <2>1. DOMAIN ledger' = {} /\ DailyInvestment \in Nat /\ invested' = NoMoney
    BY <1>10, PoolAssumption DEF ResetState, Empty, ValidPool
  <2>2. \A d \in Days : RegularPart(d)' = 0
    <3> TAKE d \in Days
    <3>1. RegularOf(ledger', cancelled', d) \in [{} -> {0}]
      BY <2>1 DEF RegularOf
    <3> QED BY <3>1, TotalZero, RegularPartIs
  <2>3. DailyQuotaHolds'
    BY <2>1, <2>2 DEF DailyQuotaHolds, NoMoney
  <2> QED BY <2>1, <2>3 DEF SuppFits
<1>11. CASE UNCHANGED vars
  BY <1>11, QuotaFrame DEF vars
<1> QED BY <1>1, <1>2, <1>3, <1>4, <1>5, <1>6, <1>7, <1>8, <1>9, <1>10, <1>11 DEF Next

(***************************************************************************)
(* The accounts of PoolAccounts                                            *)
(***************************************************************************)

PlacedBy == {"NORMAL", "SUPPLEMENTARY"}
DrawnBy == {"DEFERRED"}

\* The amounts of the standing orders some sources paid for.
StandingOf(f, c, sources) ==
  [n \in {m \in DOMAIN f \ c : f[m].type = "INVEST" /\ f[m].source \in sources} |-> f[n].amount]

LEMMA StandingType ==
  ASSUME NEW f, IsFiniteSet(DOMAIN f), f \in [DOMAIN f -> Entry], NEW c, NEW sources
  PROVE  /\ IsFiniteSet(DOMAIN StandingOf(f, c, sources))
         /\ StandingOf(f, c, sources) \in [DOMAIN StandingOf(f, c, sources) -> Nat]
         /\ Total(StandingOf(f, c, sources)) \in Nat
<1> DEFINE a == StandingOf(f, c, sources)
<1>1. DOMAIN a \in SUBSET DOMAIN f
  BY DEF StandingOf
<1>2. IsFiniteSet(DOMAIN a)
  <2> HIDE DEF a
  <2> QED BY <1>1, FS_Subset
<1>3. a \in [DOMAIN a -> Nat]
  BY DEF StandingOf, Entry
<1>4. Total(a) \in Nat
  <2> HIDE DEF a
  <2> QED BY <1>2, <1>3, TotalType
<1> QED BY <1>2, <1>3, <1>4

\* One more standing order adds its amount.
LEMMA StandingGains ==
  ASSUME NEW f, IsFiniteSet(DOMAIN f), f \in [DOMAIN f -> Entry], NEW c, NEW sources,
         NEW g, NEW d, NEW n, NEW amount \in Nat,
         n \notin DOMAIN StandingOf(f, c, sources),
         DOMAIN StandingOf(g, d, sources) = DOMAIN StandingOf(f, c, sources) \cup {n},
         g[n].amount = amount,
         \A m \in DOMAIN StandingOf(f, c, sources) : g[m].amount = f[m].amount
  PROVE  Total(StandingOf(g, d, sources)) = Total(StandingOf(f, c, sources)) + amount
<1> DEFINE a == StandingOf(f, c, sources)
           b == StandingOf(g, d, sources)
<1>1. IsFiniteSet(DOMAIN a) /\ a \in [DOMAIN a -> Nat]
  BY StandingType, Zenon
<1>2. \A m \in DOMAIN a : b[m] = a[m]
  <2> TAKE m \in DOMAIN a
  <2>1. m \in DOMAIN b /\ g[m].amount = f[m].amount
    OBVIOUS
  <2> QED BY <2>1 DEF StandingOf
<1>3. b = [m \in DOMAIN b |-> b[m]] /\ b[n] = amount
  BY DEF StandingOf
<1> HIDE DEF a, b
<1>4. b = Put(a, n, amount)
  BY <1>2, <1>3 DEF Put, a, b
<1>5. Total(b) = Total(a) + amount
  BY <1>1, <1>4, TotalPut DEF a, b
<1> QED BY <1>5 DEF a, b

\* The abstract sums are the sums of this module.
LEMMA SameTotal == \A f : Accounts!Total(f) = Total(f)
BY DEF Accounts!Total, Accounts!Units, Accounts!Cardinality, Accounts!IsFiniteSet, Total, Units, Cardinality, IsFiniteSet

LEMMA SameStanding ==
  ASSUME NEW sources
  PROVE  /\ StandingIn(sources) = Total(StandingOf(ledger, cancelled, sources))
         /\ StandingIn(sources)' = Total(StandingOf(ledger', cancelled', sources))
<1>1. {m \in DOMAIN Trades : Trades[m].type = "INVEST" /\ Trades[m].source \in sources}
        = {m \in DOMAIN ledger \ cancelled : ledger[m].type = "INVEST" /\ ledger[m].source \in sources}
  BY DEF Trades
<1>2. {m \in DOMAIN Trades' : Trades'[m].type = "INVEST" /\ Trades'[m].source \in sources}
        = {m \in DOMAIN ledger' \ cancelled' :
             ledger'[m].type = "INVEST" /\ ledger'[m].source \in sources}
  BY DEF Trades
<1> QED BY <1>1, <1>2 DEF StandingIn, StandingOf

LEMMA SameFlight ==
  InFlight = Total(FlightOf(uses)) /\ InFlight' = Total(FlightOf(uses'))
BY DEF InFlight, FlightOf

\* No account is overdrawn, before a step or after it.
LEMMA AccountsType ==
  ASSUME PoolIInv, PoolIInv'
  PROVE  /\ available \in Nat /\ commission \in Nat /\ reserved \in [Days -> Nat]
         /\ InFlight \in Nat /\ StandingIn(PlacedBy) \in Nat /\ StandingIn(DrawnBy) \in Nat
         /\ Accounts!TypeOK'
<1>1. /\ reserved \in [Days -> Nat] /\ reserved' \in [Days -> Nat]
      /\ IsFiniteSet(DOMAIN ledger) /\ ledger \in [DOMAIN ledger -> Entry]
      /\ IsFiniteSet(DOMAIN ledger') /\ ledger' \in [DOMAIN ledger' -> Entry]
  BY DEF PoolIInv, PoolTypeOK
<1>2. /\ Total(StandingOf(ledger, cancelled, PlacedBy)) \in Nat
      /\ Total(StandingOf(ledger, cancelled, DrawnBy)) \in Nat
      /\ Total(StandingOf(ledger', cancelled', PlacedBy)) \in Nat
      /\ Total(StandingOf(ledger', cancelled', DrawnBy)) \in Nat
  BY <1>1, StandingType, Zenon
<1>3. /\ available' \in Nat /\ commission' \in Nat /\ InFlight' \in Nat
      /\ StandingIn(PlacedBy)' \in Nat /\ StandingIn(DrawnBy)' \in Nat
  BY <1>2, MoneyPartsNext, SameStanding, SameFlight
<1>4. Accounts!TypeOK'
  BY <1>1, <1>3 DEF Accounts!TypeOK, Accounts!Until, Days, PlacedBy, DrawnBy
<1> QED BY <1>1, <1>2, <1>4, MoneyParts, SameStanding, SameFlight

\* What a recorded entry adds to the standing orders.
LEMMA RecordStanding ==
  ASSUME PoolIInv, NEW e \in Entry, Record(e), cancelled' = cancelled, NEW sources
  PROVE  StandingIn(sources)' = StandingIn(sources)
           + (IF e.type = "INVEST" /\ e.source \in sources THEN e.amount ELSE 0)
<1> DEFINE n == NextId(ledger)
<1>1. /\ IsFiniteSet(DOMAIN ledger) /\ ledger \in [DOMAIN ledger -> Entry]
      /\ cancelled \subseteq DOMAIN ledger
  BY DEF PoolIInv, PoolTypeOK
<1>2. /\ n \notin DOMAIN ledger /\ DOMAIN ledger' = DOMAIN ledger \cup {n}
      /\ ledger'[n] = e /\ \A m \in DOMAIN ledger : ledger'[m] = ledger[m]
  BY RecordType
<1>3. e.amount \in Nat /\ Total(StandingOf(ledger, cancelled, sources)) \in Nat
  BY <1>1, StandingType DEF Entry
<1> HIDE DEF n
<1>4. CASE e.type = "INVEST" /\ e.source \in sources
  <2>1. /\ n \notin DOMAIN StandingOf(ledger, cancelled, sources)
        /\ DOMAIN StandingOf(ledger', cancelled', sources)
             = DOMAIN StandingOf(ledger, cancelled, sources) \cup {n}
        /\ ledger'[n].amount = e.amount
        /\ \A m \in DOMAIN StandingOf(ledger, cancelled, sources) :
             ledger'[m].amount = ledger[m].amount
    BY <1>1, <1>2, <1>4 DEF StandingOf
  <2>2. Total(StandingOf(ledger', cancelled', sources))
          = Total(StandingOf(ledger, cancelled, sources)) + e.amount
    BY <1>1, <1>3, <2>1, StandingGains
  <2> QED BY <1>4, <2>2, SameStanding
<1>5. CASE ~(e.type = "INVEST" /\ e.source \in sources)
  <2>1. StandingOf(ledger', cancelled', sources) = StandingOf(ledger, cancelled, sources)
    BY <1>1, <1>2, <1>5 DEF StandingOf
  <2> QED BY <1>3, <1>5, <2>1, SameStanding
<1> QED BY <1>4, <1>5

LEMMA StandingFrame ==
  ASSUME ledger' = ledger, cancelled' = cancelled, NEW sources
  PROVE  StandingIn(sources)' = StandingIn(sources)
BY DEF StandingIn, Trades


\* On every day the two see the same money as lapsed.
LEMMA SameLapse ==
  ASSUME NEW today
  PROVE  Accounts!FreeOn(today) = AvailableAt(today) /\ Accounts!AsideOn(today) = ReservedAt(today)
BY SameTotal DEF Accounts!FreeOn, Accounts!AsideOn, Accounts!Until, AvailableAt, ReservedAt,
     Expired, Days

LEMMA ReleaseMoves ==
  ASSUME PoolIInv, PoolIInv', NEW today \in Days, ReleaseExpired(today)
  PROVE  Accounts!Next
<1>1. /\ available' = AvailableAt(today) /\ reserved' = ReservedAt(today)
      /\ UNCHANGED <<commission, ledger, cancelled, uses>>
  BY DEF ReleaseExpired
<1>2. ReservedAt(today) \in [Days -> Nat] /\ Total(ReservedAt(today)) \in Nat
  BY ReleaseType, DaysFinite, TotalType DEF PoolIInv
<1>3. \A sources : StandingIn(sources)' = StandingIn(sources)
  BY <1>1, StandingFrame
<1>4. InFlight \in Nat /\ InFlight' = InFlight /\ Accounts!TypeOK'
  BY <1>1, AccountsType DEF InFlight
<1>5. \A e \in Days : reserved'[e] <= ReservedAt(today)[e]
  BY <1>1, <1>2
<1>6. InFlight' = InFlight + (Total(ReservedAt(today)) - Total(reserved'))
  BY <1>1, <1>2, <1>4
<1>7. Accounts!Take(today)
  BY <1>1, <1>3, <1>5, <1>6, SameLapse, SameTotal DEF Accounts!Take, Accounts!Until, Days
<1> QED BY <1>4, <1>7 DEF Accounts!Next, Accounts!Until, Days

LEMMA DeferMoves ==
  ASSUME PoolIInv, PoolIInv', NEW s \in Stocks, NEW from \in Days, NEW amount \in Amounts,
         NEW days \in ValidDays, DeferQuota(s, from, amount, days)
  PROVE  Accounts!Next
<1> DEFINE e == ExpiryDate(from, days)
<1>1. e \in Days /\ amount \in Nat
  BY ExpiryType, PoolAssumption DEF ValidPool
<1> HIDE DEF e
<1>2. /\ amount <= available /\ available' = available - amount
      /\ reserved' = [reserved EXCEPT ![e] = @ + amount]
      /\ UNCHANGED <<commission, ledger, cancelled, uses>>
  BY DEF DeferQuota, e
<1>3. /\ available \in Nat /\ InFlight' = InFlight /\ Accounts!TypeOK'
      /\ \A sources : StandingIn(sources)' = StandingIn(sources)
  BY <1>2, AccountsType, StandingFrame DEF InFlight
<1>4. available' <= available /\ amount = available - available'
  BY <1>1, <1>2, <1>3
<1>5. Accounts!SetAside(e)
  BY <1>2, <1>3, <1>4 DEF Accounts!SetAside
<1> QED BY <1>1, <1>3, <1>5 DEF Accounts!Next, Accounts!Until, Days

LEMMA UseMoves ==
  ASSUME MoneyInv, PoolIInv', NEW s \in Stocks, NEW today \in Days, NEW amount \in Amounts,
         UseDeferredQuota(s, today, amount)
  PROVE  Accounts!Next
<1>1. available' = AvailableAt(today) /\ UNCHANGED <<commission, ledger, cancelled>>
  BY DEF UseDeferredQuota
<1>2. /\ \A e \in Days : reserved'[e] <= ReservedAt(today)[e]
      /\ InFlight' = InFlight + (Total(ReservedAt(today)) - Total(reserved'))
  BY MoneyUse, SameFlight
<1>3. Accounts!TypeOK' /\ \A sources : StandingIn(sources)' = StandingIn(sources)
  BY <1>1, AccountsType, StandingFrame DEF MoneyInv
<1>4. Accounts!Take(today)
  BY <1>1, <1>2, <1>3, SameLapse, SameTotal DEF Accounts!Take, Accounts!Until, Days
<1> QED BY <1>3, <1>4 DEF Accounts!Next, Accounts!Until, Days

LEMMA UndoQuotaMoves ==
  ASSUME MoneyInv, PoolIInv', NEW k \in DOMAIN uses, NEW w \in BOOLEAN, UndoDeferredQuota(k, w)
  PROVE  Accounts!Next
<1> DEFINE e == [type |-> "INVEST_CANCEL", source |-> "DEFERRED", date |-> uses[k].date,
                 amount |-> Total(uses[k].details), supp |-> 0]
<1>1. Record(e) /\ UNCHANGED <<available, commission, cancelled>>
  BY DEF UndoDeferredQuota
<1>2. /\ \A d \in Days : reserved'[d] >= reserved[d]
      /\ InFlight' = InFlight - (Total(reserved') - Total(reserved))
  BY MoneyUndoQuota, SameFlight
<1>3. e \in Entry
  <2>1. uses[k].details \in [Days -> Nat] /\ uses[k].date \in Days
    BY UseType DEF MoneyInv
  <2>2. Total(uses[k].details) \in Nat
    BY <2>1, DaysFinite, TotalType
  <2> QED BY <2>1, <2>2 DEF Entry, Sources
<1>4. e.type # "INVEST"
  OBVIOUS
<1> HIDE DEF e
<1>5. \A sources : StandingIn(sources)' = StandingIn(sources) + 0
  BY <1>1, <1>3, <1>4, RecordStanding DEF MoneyInv
<1>6. /\ Accounts!TypeOK' /\ StandingIn(PlacedBy)' = StandingIn(PlacedBy)
      /\ StandingIn(DrawnBy)' = StandingIn(DrawnBy)
  BY <1>5, AccountsType DEF MoneyInv
<1>7. Accounts!GiveBack
  BY <1>1, <1>2, <1>6, SameTotal
  DEF Accounts!GiveBack, Accounts!Until, Days, PlacedBy, DrawnBy
<1> QED BY <1>6, <1>7 DEF Accounts!Next

LEMMA InvestMoves ==
  ASSUME PoolIInv, PoolIInv', NEW today \in Days, NEW amount \in Amounts,
         NEW supp \in Amounts \cup {0}, RecordInvestment(today, amount, supp)
  PROVE  Accounts!Next
<1> DEFINE e == [type |-> "INVEST",
                 source |-> IF supp > 0 THEN "SUPPLEMENTARY" ELSE "NORMAL",
                 date |-> today, amount |-> amount, supp |-> supp]
<1>1. amount \in Nat /\ supp \in Nat
  BY PoolAssumption DEF ValidPool
<1>2. /\ available' = available - Charge(amount, supp) /\ Record(e)
      /\ UNCHANGED <<reserved, commission, cancelled, uses>>
  BY DEF RecordInvestment
<1>3. e \in Entry /\ e.type = "INVEST" /\ e.source \in PlacedBy /\ e.source \notin DrawnBy
      /\ e.amount = amount
  BY <1>1 DEF Entry, Sources, PlacedBy, DrawnBy
<1> HIDE DEF e
<1>4. /\ StandingIn(PlacedBy)' = StandingIn(PlacedBy) + amount
      /\ StandingIn(DrawnBy)' = StandingIn(DrawnBy) + 0
  BY <1>2, <1>3, RecordStanding
<1>5. /\ available \in Nat /\ InFlight' = InFlight /\ Accounts!TypeOK'
      /\ StandingIn(DrawnBy)' = StandingIn(DrawnBy)
  BY <1>2, <1>4, AccountsType DEF InFlight
<1>6. available' <= available /\ amount = available - available'
  BY <1>1, <1>2, <1>5 DEF Charge
<1>7. Accounts!Place
  BY <1>2, <1>4, <1>5, <1>6 DEF Accounts!Place, PlacedBy, DrawnBy
<1> QED BY <1>5, <1>7 DEF Accounts!Next

LEMMA DeferredMoves ==
  ASSUME MoneyInv, PoolIInv', NEW k \in DOMAIN uses, RecordDeferred(k)
  PROVE  Accounts!Next
<1> DEFINE amount == Total(uses[k].details)
           e == [type |-> "INVEST", source |-> "DEFERRED", date |-> uses[k].date,
                 amount |-> amount, supp |-> 0]
<1>1. Record(e) /\ UNCHANGED <<available, reserved, commission, cancelled>>
  BY DEF RecordDeferred
<1>2. InFlight = InFlight' + amount
  BY MoneyDeferred, SameFlight
<1>3. amount \in Nat /\ e \in Entry
  <2>1. uses[k].details \in [Days -> Nat] /\ uses[k].date \in Days
    BY UseType DEF MoneyInv
  <2>2. amount \in Nat
    BY <2>1, DaysFinite, TotalType
  <2> QED BY <2>1, <2>2 DEF Entry, Sources
<1>4. e.type = "INVEST" /\ e.source \in DrawnBy /\ e.source \notin PlacedBy /\ e.amount = amount
  BY DEF PlacedBy, DrawnBy
<1> HIDE DEF e, amount
<1>5. /\ StandingIn(PlacedBy)' = StandingIn(PlacedBy) + 0
      /\ StandingIn(DrawnBy)' = StandingIn(DrawnBy) + amount
  BY <1>1, <1>3, <1>4, RecordStanding DEF MoneyInv
<1>6. /\ InFlight \in Nat /\ Accounts!TypeOK'
      /\ StandingIn(PlacedBy)' = StandingIn(PlacedBy)
  BY <1>5, AccountsType DEF MoneyInv
<1>7. InFlight' \in Nat
  BY MoneyPartsNext, SameFlight
<1>8. InFlight' <= InFlight /\ amount = InFlight - InFlight'
  <2>1. ASSUME NEW x \in Nat, NEW y \in Nat, NEW z \in Nat, x = y + z
        PROVE  y <= x /\ z = x - y
    BY <2>1
  <2>2. amount \in Nat /\ InFlight \in Nat /\ InFlight' \in Nat
    BY <1>3, <1>6, <1>7
  <2> QED BY <1>2, <2>1, <2>2
<1>9. StandingIn(DrawnBy)' = StandingIn(DrawnBy) + (InFlight - InFlight')
  BY <1>5, <1>8
<1>10. Accounts!Draw
  BY <1>1, <1>6, <1>8, <1>9 DEF Accounts!Draw, PlacedBy, DrawnBy
<1> QED BY <1>6, <1>10 DEF Accounts!Next

\* An order that is undone pays the account that paid for it.
LEMMA UndoMoves ==
  ASSUME MoneyInv, PoolIInv', NEW n \in DOMAIN ledger, UndoInvestment(n)
  PROVE  Accounts!Next
<1>1. /\ n \notin cancelled /\ ledger[n].type = "INVEST"
      /\ available' = (IF ledger[n].source = "DEFERRED" THEN available
                       ELSE available + ledger[n].amount)
      /\ cancelled' = cancelled \cup {n} /\ UNCHANGED <<reserved, commission, ledger>>
  BY DEF UndoInvestment, MayUndo
<1>2. InFlight' = InFlight + (IF ledger[n].source = "DEFERRED" THEN ledger[n].amount ELSE 0)
  BY MoneyUndo, SameFlight
<1>3. /\ IsFiniteSet(DOMAIN ledger) /\ ledger \in [DOMAIN ledger -> Entry]
      /\ ledger[n].amount \in Nat /\ ledger[n].source \in Sources
  BY DEF MoneyInv, PoolIInv, PoolTypeOK, Entry
<1>4. ASSUME NEW sources, ledger[n].source \in sources
      PROVE  StandingIn(sources) = StandingIn(sources)' + ledger[n].amount
  <2>1. /\ n \notin DOMAIN StandingOf(ledger, cancelled', sources)
        /\ DOMAIN StandingOf(ledger, cancelled, sources)
             = DOMAIN StandingOf(ledger, cancelled', sources) \cup {n}
    BY <1>1, <1>4 DEF StandingOf
  <2>2. Total(StandingOf(ledger, cancelled, sources))
          = Total(StandingOf(ledger, cancelled', sources)) + ledger[n].amount
    BY <1>3, <2>1, StandingGains
  <2> QED BY <1>1, <2>2, SameStanding
<1>5. ASSUME NEW sources, ledger[n].source \notin sources
      PROVE  StandingIn(sources)' = StandingIn(sources)
  <2>1. StandingOf(ledger, cancelled', sources) = StandingOf(ledger, cancelled, sources)
    BY <1>1, <1>5 DEF StandingOf
  <2> QED BY <1>1, <2>1, SameStanding
<1>6. /\ available \in Nat /\ InFlight \in Nat /\ Accounts!TypeOK'
      /\ StandingIn(PlacedBy)' \in Nat /\ StandingIn(DrawnBy)' \in Nat
  BY AccountsType DEF MoneyInv, Accounts!TypeOK, PlacedBy, DrawnBy
<1>7. CASE ledger[n].source = "DEFERRED"
  <2>1. /\ StandingIn(DrawnBy) = StandingIn(DrawnBy)' + ledger[n].amount
        /\ StandingIn(PlacedBy)' = StandingIn(PlacedBy)
    BY <1>4, <1>5, <1>7 DEF PlacedBy, DrawnBy
  <2>2. /\ InFlight' >= InFlight
        /\ StandingIn(DrawnBy)' = StandingIn(DrawnBy) - (InFlight' - InFlight)
    BY <1>2, <1>3, <1>6, <1>7, <2>1
  <2>3. Accounts!UndoDrawn
    BY <1>1, <1>7, <2>1, <2>2 DEF Accounts!UndoDrawn, PlacedBy, DrawnBy
  <2> QED BY <1>6, <2>3 DEF Accounts!Next
<1>8. CASE ledger[n].source # "DEFERRED"
  <2>1. /\ StandingIn(PlacedBy) = StandingIn(PlacedBy)' + ledger[n].amount
        /\ StandingIn(DrawnBy)' = StandingIn(DrawnBy)
    BY <1>3, <1>4, <1>5, <1>8 DEF PlacedBy, DrawnBy, Sources
  <2>2. /\ available' >= available /\ InFlight' = InFlight
        /\ StandingIn(PlacedBy)' = StandingIn(PlacedBy) - (available' - available)
    BY <1>1, <1>2, <1>3, <1>6, <1>8, <2>1
  <2>3. Accounts!UndoPlaced
    BY <1>1, <2>1, <2>2 DEF Accounts!UndoPlaced, PlacedBy, DrawnBy
  <2> QED BY <1>6, <2>3 DEF Accounts!Next
<1> QED BY <1>7, <1>8

LEMMA ReflowMoves ==
  ASSUME PoolIInv, PoolIInv', NEW today \in Days, NEW amount \in Amounts,
         RecordReflow(today, amount)
  PROVE  Accounts!Next
<1> DEFINE e == [type |-> "REFLOW", source |-> "NORMAL", date |-> today,
                 amount |-> amount, supp |-> 0]
<1>1. amount \in Nat
  BY PoolAssumption DEF ValidPool
<1>2. /\ available' = AvailableAt(today) + amount /\ reserved' = ReservedAt(today)
      /\ Record(e) /\ UNCHANGED <<commission, cancelled, uses>>
  BY DEF RecordReflow
<1>3. e \in Entry /\ e.type # "INVEST"
  BY <1>1 DEF Entry, Sources
<1> HIDE DEF e
<1>4. \A sources : StandingIn(sources)' = StandingIn(sources) + 0
  BY <1>2, <1>3, RecordStanding
<1>5. /\ InFlight' = InFlight /\ Accounts!TypeOK'
      /\ StandingIn(PlacedBy)' = StandingIn(PlacedBy) /\ StandingIn(DrawnBy)' = StandingIn(DrawnBy)
  BY <1>2, <1>4, AccountsType DEF InFlight
<1>6. available' >= AvailableAt(today)
  BY <1>1, <1>2, ReleaseType DEF PoolIInv
<1>7. Accounts!Earn(today)
  BY <1>2, <1>5, <1>6, SameLapse DEF Accounts!Earn, PlacedBy, DrawnBy
<1> QED BY <1>5, <1>7 DEF Accounts!Next, Accounts!Until, Days

LEMMA CommissionMoves ==
  ASSUME PoolIInv, PoolIInv', NEW today \in Days, NEW amount \in Amounts,
         RecordCommission(today, amount)
  PROVE  Accounts!Next
<1> DEFINE e == [type |-> "COMMISSION", source |-> "NORMAL", date |-> today,
                 amount |-> amount, supp |-> 0]
<1>1. amount \in Nat
  BY PoolAssumption DEF ValidPool
<1>2. /\ available' = available - amount /\ commission' = commission + amount
      /\ Record(e) /\ UNCHANGED <<reserved, cancelled, uses>>
  BY DEF RecordCommission
<1>3. e \in Entry /\ e.type # "INVEST"
  BY <1>1 DEF Entry, Sources
<1> HIDE DEF e
<1>4. \A sources : StandingIn(sources)' = StandingIn(sources) + 0
  BY <1>2, <1>3, RecordStanding
<1>5. /\ available \in Nat /\ InFlight' = InFlight /\ Accounts!TypeOK'
      /\ StandingIn(PlacedBy)' = StandingIn(PlacedBy) /\ StandingIn(DrawnBy)' = StandingIn(DrawnBy)
  BY <1>2, <1>4, AccountsType DEF InFlight
<1>6. available' <= available /\ commission' = commission + (available - available')
  BY <1>1, <1>2, <1>5
<1>7. Accounts!Pay
  BY <1>2, <1>5, <1>6 DEF Accounts!Pay, PlacedBy, DrawnBy
<1> QED BY <1>5, <1>7 DEF Accounts!Next

\* An empty ledger has no standing order.
LEMMA NothingStands ==
  ASSUME NEW c, NEW sources
  PROVE  Total(StandingOf(Empty, c, sources)) = 0
<1>1. StandingOf(Empty, c, sources) \in [{} -> {0}]
  BY DEF StandingOf, Empty
<1> QED BY <1>1, TotalZero

LEMMA NothingInFlight == Total(FlightOf(Empty)) = 0
<1>1. FlightOf(Empty) \in [{} -> {0}]
  BY DEF FlightOf, Empty
<1> QED BY <1>1, TotalZero

LEMMA ResetMoves ==
  ASSUME PoolIInv, PoolIInv', ResetState
  PROVE  Accounts!Next
<1>1. /\ available' = TotalCapital /\ reserved' = NoMoney /\ commission' = 0
      /\ ledger' = Empty /\ cancelled' = {} /\ uses' = Empty
  BY DEF ResetState
<1>2. /\ InFlight' = 0 /\ StandingIn(PlacedBy)' = 0 /\ StandingIn(DrawnBy)' = 0
  BY <1>1, NothingStands, NothingInFlight, SameStanding, SameFlight
<1>3. Accounts!Restart
  BY <1>1, <1>2 DEF Accounts!Restart, Accounts!Until, Days, NoMoney, PlacedBy, DrawnBy
<1> QED BY <1>3, AccountsType DEF Accounts!Next

LEMMA AccountsStart == Init => Accounts!Init
<1> SUFFICES ASSUME Init PROVE Accounts!Init
  OBVIOUS
<1>1. /\ available = TotalCapital /\ reserved = NoMoney /\ commission = 0
      /\ ledger = Empty /\ cancelled = {} /\ uses = Empty
  BY DEF Init
<1>2. /\ InFlight = 0 /\ StandingIn(PlacedBy) = 0 /\ StandingIn(DrawnBy) = 0
  BY <1>1, NothingStands, NothingInFlight, SameStanding, SameFlight
<1> QED BY <1>1, <1>2 DEF Accounts!Init, Accounts!Until, Days, NoMoney, PlacedBy, DrawnBy

\* Every call maps to a move between the accounts.
LEMMA CallsMoveMoney ==
  ASSUME MoneyInv, [Next]_vars
  PROVE  [Accounts!Next]_(Accounts!accounts)
<1>0. PoolIInv /\ PoolIInv'
  BY NextPreservesPool DEF MoneyInv
<1>1. ASSUME NEW today \in Days, ReleaseExpired(today)
      PROVE  Accounts!Next
  BY <1>0, <1>1, ReleaseMoves
<1>2. ASSUME NEW s \in Stocks, NEW d \in Days, NEW a \in Amounts, NEW v \in ValidDays,
             DeferQuota(s, d, a, v)
      PROVE  Accounts!Next
  BY <1>0, <1>2, DeferMoves
<1>3. ASSUME NEW s \in Stocks, NEW d \in Days, NEW a \in Amounts,
             UseDeferredQuota(s, d, a)
      PROVE  Accounts!Next
  BY <1>0, <1>3, UseMoves
<1>4. ASSUME NEW k \in DOMAIN uses, NEW w \in BOOLEAN, UndoDeferredQuota(k, w)
      PROVE  Accounts!Next
  BY <1>0, <1>4, UndoQuotaMoves
<1>5. ASSUME NEW d \in Days, NEW a \in Amounts, NEW supp \in Amounts \cup {0},
             RecordInvestment(d, a, supp)
      PROVE  Accounts!Next
  BY <1>0, <1>5, InvestMoves
<1>6. ASSUME NEW k \in DOMAIN uses, RecordDeferred(k)
      PROVE  Accounts!Next
  BY <1>0, <1>6, DeferredMoves
<1>7. ASSUME NEW n \in DOMAIN ledger, UndoInvestment(n)
      PROVE  Accounts!Next
  BY <1>0, <1>7, UndoMoves
<1>8. ASSUME NEW d \in Days, NEW a \in Amounts, RecordReflow(d, a)
      PROVE  Accounts!Next
  BY <1>0, <1>8, ReflowMoves
<1>9. ASSUME NEW d \in Days, NEW a \in Amounts, RecordCommission(d, a)
      PROVE  Accounts!Next
  BY <1>0, <1>9, CommissionMoves
<1>10. CASE ResetState
  BY <1>0, <1>10, ResetMoves
<1>11. CASE UNCHANGED vars
  <2>1. UNCHANGED Accounts!accounts
    BY <1>11 DEF vars, Accounts!accounts, InFlight, StandingIn, Trades
  <2> QED BY <2>1
<1> QED BY <1>1, <1>2, <1>3, <1>4, <1>5, <1>6, <1>7, <1>8, <1>9, <1>10, <1>11 DEF Next


(***************************************************************************)
(* The audit                                                               *)
(***************************************************************************)

\* A sum over two sets that share no element is the sum over one and the other.
LEMMA TotalOfParts ==
  ASSUME NEW D, IsFiniteSet(D), NEW f \in [D -> Nat], NEW S, S \subseteq D
  PROVE  Total(f) = Total([x \in S |-> f[x]]) + Total([x \in D \ S |-> f[x]])
<1> DEFINE g == [x \in D |-> IF x \in S THEN f[x] ELSE 0]
           h == [x \in D |-> IF x \in S THEN 0 ELSE f[x]]
<1>1. g \in [D -> Nat] /\ h \in [D -> Nat] /\ f = [x \in D |-> g[x] + h[x]]
  OBVIOUS
<1>2. Units(g) = Units([x \in S |-> f[x]])
  BY DEF Units
<1>3. Units(h) = Units([x \in D \ S |-> f[x]])
  BY DEF Units
<1> HIDE DEF g, h
<1>4. Total(f) = Total(g) + Total(h)
  BY <1>1, TotalSum, Zenon
<1> QED BY <1>2, <1>3, <1>4 DEF Total

\* The investments of the ledger are those that stand and those that were undone.
LEMMA LedgerParts ==
  ASSUME PoolIInv
  PROVE  /\ Invested(ledger, Days) = Invested(Trades, Days) + Invested(Undone, Days)
         /\ Invested(ledger, Days) \in Nat /\ Invested(Trades, Days) \in Nat
         /\ Invested(Undone, Days) \in Nat
<1> DEFINE inv == {n \in DOMAIN ledger : ledger[n].type = "INVEST" /\ ledger[n].date \in Days}
           a == [n \in inv |-> ledger[n].amount]
           gone == inv \cap cancelled
<1>1. /\ IsFiniteSet(DOMAIN ledger) /\ ledger \in [DOMAIN ledger -> Entry]
      /\ cancelled \subseteq DOMAIN ledger
  BY DEF PoolIInv, PoolTypeOK
<1>2. inv \in SUBSET DOMAIN ledger /\ gone \subseteq inv /\ a \in [inv -> Nat]
  BY <1>1 DEF Entry
<1>3. IsFiniteSet(inv) /\ IsFiniteSet(gone) /\ IsFiniteSet(inv \ gone)
  <2> HIDE DEF inv
  <2> QED BY <1>1, <1>2, FS_Subset
<1>4. Invested(Undone, Days) = Total([n \in gone |-> a[n]])
  <2>1. {n \in DOMAIN Undone : Undone[n].type = "INVEST" /\ Undone[n].date \in Days} = gone
    BY <1>1 DEF Undone
  <2>2. [n \in gone |-> Undone[n].amount] = [n \in gone |-> a[n]]
    BY DEF Undone
  <2> HIDE DEF gone, a
  <2> QED BY <2>1, <2>2 DEF Invested
<1>5. Invested(Trades, Days) = Total([n \in inv \ gone |-> a[n]])
  <2>1. {n \in DOMAIN Trades : Trades[n].type = "INVEST" /\ Trades[n].date \in Days} = inv \ gone
    BY <1>1 DEF Trades
  <2>2. [n \in inv \ gone |-> Trades[n].amount] = [n \in inv \ gone |-> a[n]]
    BY DEF Trades
  <2> HIDE DEF gone, a, inv
  <2> QED BY <2>1, <2>2 DEF Invested
<1>6. Invested(ledger, Days) = Total(a)
  BY DEF Invested
<1> HIDE DEF inv, a, gone
<1>7. Total(a) = Total([n \in gone |-> a[n]]) + Total([n \in inv \ gone |-> a[n]])
  BY <1>2, <1>3, TotalOfParts
<1>8. [n \in gone |-> a[n]] \in [gone -> Nat] /\ [n \in inv \ gone |-> a[n]] \in [inv \ gone -> Nat]
  BY <1>2
<1>9. /\ Total([n \in gone |-> a[n]]) \in Nat /\ Total([n \in inv \ gone |-> a[n]]) \in Nat
      /\ Total(a) \in Nat
  BY <1>2, <1>3, <1>8, TotalType, Zenon
<1> QED BY <1>4, <1>5, <1>6, <1>7, <1>9

LEMMA AuditError == MoneyInv => AuditErrsByTheUndone
<1> SUFFICES ASSUME MoneyInv PROVE AuditErrsByTheUndone
  OBVIOUS
<1>1. PoolIInv /\ MoneyIsConserved
  BY DEF MoneyInv
<1>2. Reflowed(ledger, Days) \in Nat /\ InFlight \in Nat
  <2>1. ledger \in [DOMAIN ledger -> Entry]
    BY <1>1 DEF PoolIInv, PoolTypeOK
  <2> QED BY <1>1, <2>1, InvestedSum, MoneyParts, SameFlight
<1>3. TotalCapital \in Nat
  BY PoolAssumption DEF ValidPool
<1> QED BY <1>1, <1>2, <1>3, LedgerParts, MoneyParts DEF MoneyIsConserved, AuditErrsByTheUndone, Audited


(***************************************************************************)
(* The theorems                                                            *)
(***************************************************************************)

\* Whatever is called, the pool, the reserve and every counter stay natural
\* numbers: no call lends cash the pool has not got, and the transaction numbers
\* have no gap.
THEOREM PoolNeverLends == Spec => []PoolTypeOK
<1>1. PoolIInv => PoolTypeOK
  BY DEF PoolIInv
<1> QED BY <1>1, InitEstablishesPool, NextPreservesPool, PTL DEF Spec

\* The reserve of every expiry date is the sum of what the stocks hold of it:
\* no release, use or undo moves one index without the other.
THEOREM ReserveIndexesAlwaysAgree == Spec => []IndexesAgree
<1>1. PoolIInv => IndexesAgree
  BY DEF PoolIInv
<1> QED BY <1>1, InitEstablishesPool, NextPreservesPool, PTL DEF Spec

\* No purchase was ever paid from quota that had expired on its day, whatever the
\* calendar, the validities asked for and the order of the calls.
THEOREM ExpiredQuotaIsNeverUsed == Spec => []NoExpiredQuotaIsUsed
<1>1. PoolIInv => NoExpiredQuotaIsUsed
  BY DEF PoolIInv
<1> QED BY <1>1, InitEstablishesPool, NextPreservesPool, PTL DEF Spec
\* No order of calls creates or destroys money: what is free, reserved, in flight,
\* invested and paid in commission is always the capital and the reflow.  The undo
\* of a deferred investment is the hard case: it pays nothing back, because the
\* use it belongs to is in flight again.
THEOREM MoneyIsAlwaysConserved == Spec => []MoneyIsConserved
<1>1. MoneyInv => MoneyIsConserved
  BY DEF MoneyInv
<1> QED BY <1>1, InitEstablishesMoney, NextPreservesMoney, PTL DEF Spec

\* The regular parts of the standing investments of a day never exceed the day's
\* quota, although an undo of a mixed order leaves its regular part counted.
THEOREM DailyQuotaAlwaysHolds == Spec => []DailyQuotaHolds
<1>1. QuotaInv => DailyQuotaHolds
  BY DEF QuotaInv
<1> QED BY <1>1, InitEstablishesQuota, NextPreservesQuota, PTL DEF Spec

\* The pool implements PoolAccounts (MovesBetweenAccounts): whatever is called in
\* whatever order, what was set aside until a day is used by then or is free again,
\* and an order that is undone pays the account that paid for it.
THEOREM PoolMovesBetweenAccounts == Spec => MovesBetweenAccounts
<1>1. MoneyInv /\ [Next]_vars => [Accounts!Next]_(Accounts!accounts)
  BY CallsMoveMoney
<1> QED BY <1>1, AccountsStart, InitEstablishesMoney, NextPreservesMoney,
           PTL DEF Spec, Accounts!Spec, MovesBetweenAccounts

\* The audit's sum is the capital but for the undone investments and the money in
\* flight, whatever was called before: the disagreement with undone orders is the
\* only one there is.
THEOREM AuditAlwaysErrsByTheUndone == Spec => []AuditErrsByTheUndone
<1> QED BY AuditError, InitEstablishesMoney, NextPreservesMoney, PTL DEF Spec

=============================================================================
