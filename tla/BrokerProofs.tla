----------------------------- MODULE BrokerProofs -----------------------------
(***************************************************************************)
(* The minute-order ledger, and then the replay that drives it.            *)
(*                                                                         *)
(* Part one: the ledger's invariant, for every account, calendar, fee      *)
(* schedule and number of orders, after the two algorithms it calls, the   *)
(* cumulative fee and the drawing of shares, oldest lot first; and then    *)
(* what the history of its fills says of the account.                      *)
(*                                                                         *)
(* Part two: the replay, for every run the broker accepts, every calendar  *)
(* and every outcome of the buckets: broker, ledger and schedule never     *)
(* disagree, the fills obey the market and the queue, a release is settled *)
(* by the clock, and the account does what LimitOrders promises its owner. *)
(*                                                                         *)
(* The invariant of part two ties three records of one order together:     *)
(* what the broker counts, what the ledger reserves, and which of its      *)
(* events are still on the agenda.  The agenda is sorted by the clock's    *)
(* key and holds every event later than what was handled, so "this event   *)
(* is handled first" is a comparison of two keys, and what a handler finds *)
(* when it runs follows from the events that sort before its own.          *)
(***************************************************************************)
EXTENDS Broker, TotalsProofs

(***************************************************************************)
(* Part one: the ledger                                                    *)
(***************************************************************************)

-----------------------------------------------------------------------------
(* The cumulative fee never decreases as an order trades, for every rate,  *)
(* floor and accepted rounding mode.  fees.py relies on it twice: a fill is *)
(* never charged a negative amount, and the fee reserved at submission      *)
(* bounds whatever the fills turn out to cost.                              *)

\* Division with remainder, in the form the arguments below use it.
LEMMA DivMod ==
  ASSUME NEW x \in Nat, NEW d \in Nat \ {0}
  PROVE  /\ x \div d \in Nat /\ x % d \in 0 .. (d - 1)
         /\ x = d * (x \div d) + (x % d)
  BY SMT

\* A larger amount has at least as many whole units, and with as many of them
\* at least as large a remainder.
LEMMA DivMonotone ==
  ASSUME NEW x \in Nat, NEW y \in Nat, x <= y, NEW d \in Nat \ {0}
  PROVE  \/ x \div d + 1 <= y \div d
         \/ x \div d = y \div d /\ x % d <= y % d
<1> DEFINE qx == x \div d
           qy == y \div d
           rx == x % d
           ry == y % d
<1>1. qx \in Nat /\ qy \in Nat /\ rx \in 0 .. (d - 1) /\ ry \in 0 .. (d - 1)
  BY DivMod
<1>2. x = d * qx + rx /\ y = d * qy + ry
  BY DivMod
<1> HIDE DEF qx, qy, rx, ry
<1>3. ASSUME qy + 1 <= qx PROVE FALSE
  <2>1. d * (qy + 1) <= d * qx
    BY <1>1, <1>3
  <2>2. d * (qy + 1) = d * qy + d
    BY <1>1
  <2> QED BY <1>1, <1>2, <2>1, <2>2
<1>4. qx = qy => rx <= ry
  BY <1>1, <1>2
<1>5. qx + 1 <= qy \/ qx = qy
  BY <1>1, <1>3
<1> QED BY <1>4, <1>5 DEF qx, qy, rx, ry

\* Rounding: a natural number, at least the number of whole cents.
LEMMA QuantizeType ==
  ASSUME NEW rounding \in Roundings, NEW x \in Nat, NEW d \in Nat \ {0}
  PROVE  /\ Quantize(rounding, x, d) \in Nat
         /\ x \div d <= Quantize(rounding, x, d)
         /\ Quantize(rounding, x, d) <= x \div d + 1
<1>1. x \div d \in Nat
  BY DivMod
<1>2. \/ Quantize(rounding, x, d) = x \div d + 1
      \/ Quantize(rounding, x, d) = x \div d
  BY <1>1 DEF Quantize
<1> QED BY <1>1, <1>2

\* Every accepted rounding mode is monotone (_MONOTONE_ROUNDING in fees.py).
THEOREM QuantizeMonotone ==
  ASSUME NEW rounding \in Roundings, NEW x \in Nat, NEW y \in Nat, x <= y,
         NEW d \in Nat \ {0}
  PROVE  Quantize(rounding, x, d) <= Quantize(rounding, y, d)
<1>1. CASE x \div d + 1 <= y \div d
  <2>1. /\ Quantize(rounding, x, d) \in Nat /\ Quantize(rounding, y, d) \in Nat
        /\ Quantize(rounding, x, d) <= x \div d + 1
        /\ y \div d <= Quantize(rounding, y, d)
    BY QuantizeType
  <2>2. x \div d \in Nat /\ y \div d \in Nat
    BY DivMod
  <2> QED BY <1>1, <2>1, <2>2
<1>2. CASE x \div d = y \div d /\ x % d <= y % d
  <2>1. RoundsUp(rounding, x \div d, x % d, d) => RoundsUp(rounding, y \div d, y % d, d)
    <3> DEFINE q == x \div d
               r == x % d
               s == y % d
    <3>1. q \in Nat /\ r \in 0 .. (d - 1) /\ s \in 0 .. (d - 1)
      BY DivMod
    <3>2. r <= s /\ y \div d = q
      BY <1>2
    <3> HIDE DEF q, r, s
    <3>3. RoundsUp(rounding, q, r, d) => RoundsUp(rounding, q, s, d)
      BY <3>1, <3>2 DEF RoundsUp, Roundings
    <3> QED BY <3>2, <3>3 DEF q, r, s
  <2> QED BY <1>2, <2>1, DivMod DEF Quantize
<1> QED BY <1>1, <1>2, DivMonotone

\* A fee is a whole number of cents.
LEMMA CumulativeFeeType ==
  ASSUME NEW params \in FeeParams, NEW n \in Nat
  PROVE  CumulativeFee(params, n) \in Nat
<1>1. params.num \in Nat /\ params.den \in Nat \ {0} /\ params.min_fee \in Nat
        /\ params.rounding \in Roundings
  BY DEF FeeParams
<1>2. Larger(params.min_fee * params.den, n * params.num) \in Nat
  BY <1>1 DEF Larger
<1> QED BY <1>1, <1>2, QuantizeType DEF CumulativeFee

\* F is monotone: trading more never lowers what an order has to pay in all.
THEOREM CumulativeFeeMonotone ==
  ASSUME NEW params \in FeeParams, NEW n \in Nat, NEW m \in Nat, n <= m
  PROVE  CumulativeFee(params, n) <= CumulativeFee(params, m)
<1> DEFINE num == params.num
           den == params.den
           base == params.min_fee * den
<1>1. num \in Nat /\ den \in Nat \ {0} /\ params.min_fee \in Nat
        /\ params.rounding \in Roundings
  BY DEF FeeParams
<1>2. CASE n = 0
  BY <1>2, CumulativeFeeType DEF CumulativeFee
<1>3. CASE n # 0
  <2>1. base \in Nat /\ n * num \in Nat /\ m * num \in Nat
    BY <1>1
  <2>2. n * num <= m * num
    BY <1>1
  <2>3. /\ Larger(base, n * num) \in Nat /\ Larger(base, m * num) \in Nat
        /\ Larger(base, n * num) <= Larger(base, m * num)
    <3> DEFINE a == n * num
               b == m * num
    <3> SUFFICES ASSUME a \in Nat, b \in Nat, base \in Nat, a <= b
                 PROVE  /\ Larger(base, a) \in Nat /\ Larger(base, b) \in Nat
                        /\ Larger(base, a) <= Larger(base, b)
      BY <2>1, <2>2
    <3> HIDE DEF a, b, base
    <3> QED BY DEF Larger
  <2>4. Quantize(params.rounding, Larger(base, n * num), den)
          <= Quantize(params.rounding, Larger(base, m * num), den)
    BY <1>1, <2>3, QuantizeMonotone
  <2> QED BY <1>3, <2>4 DEF CumulativeFee
<1> QED BY <1>2, <1>3

\* No fill is charged a negative fee: "fee model is not monotone" is unreachable.
THEOREM FeeDeltaNonnegative ==
  ASSUME NEW params \in FeeParams, NEW before \in Nat, NEW after \in Nat,
         before <= after
  PROVE  FeeDelta(params, before, after) \in Nat
<1>1. CumulativeFee(params, before) \in Nat /\ CumulativeFee(params, after) \in Nat
  BY CumulativeFeeType
<1>2. CumulativeFee(params, before) <= CumulativeFee(params, after)
  BY CumulativeFeeMonotone
<1> QED BY <1>1, <1>2 DEF FeeDelta

-----------------------------------------------------------------------------
(* What FifoTake returns: a part of what each lot offers, that adds up to  *)
(* the quantity asked for whenever the offers do.                          *)
(*                                                                         *)
(* The shares on offer are numbered from 1 in the order they are drawn:    *)
(* share i of lot l has number (what is ahead of l) + i.  The numbering is *)
(* one-to-one into 1 .. Total(amounts) and there are that many shares, so  *)
(* it is onto; FifoTake draws the shares numbered up to the quantity.      *)

\* Lots that offer shares are held, so Older orders them.
Offers(amounts) ==
  /\ amounts \in [LotIds -> Nat]
  /\ \A l \in LotIds : amounts[l] > 0 => l \in DOMAIN lots
  /\ \A l \in DOMAIN lots : lots[l].acquire_date \in Nat

AheadOf(amounts, l) == {k \in LotIds : amounts[k] > 0 /\ Older(k, l)}

SharesAhead(amounts, l) == Total([k \in AheadOf(amounts, l) |-> amounts[k]])

\* The shares ahead of a lot and its own are among all that is offered.
LEMMA SharesAheadFit ==
  ASSUME NEW amounts, Offers(amounts), NEW l \in LotIds
  PROVE  /\ SharesAhead(amounts, l) \in Nat
         /\ amounts[l] > 0 => SharesAhead(amounts, l) + amounts[l] <= Total(amounts)
<1> DEFINE S == AheadOf(amounts, l)
<1>1. IsFiniteSet(LotIds) /\ LotIds \subseteq Nat /\ S \subseteq LotIds
  BY LedgerAssumption DEF AheadOf
<1>2. amounts \in [LotIds -> Nat]
  BY DEF Offers
<1>3. IsFiniteSet(S) /\ [k \in S |-> amounts[k]] \in [S -> Nat]
  BY <1>1, <1>2, FS_Subset
<1>4. SharesAhead(amounts, l) \in Nat
  BY <1>3, TotalType DEF SharesAhead
<1>5. ASSUME amounts[l] > 0
      PROVE  SharesAhead(amounts, l) + amounts[l] <= Total(amounts)
  <2>1. l \in DOMAIN lots /\ lots[l].acquire_date \in Nat /\ l \in Nat
    BY <1>1, <1>5 DEF Offers
  <2>2. l \in LotIds \ S
    BY <2>1 DEF AheadOf, Older
  <2> HIDE DEF S
  <2>3. Total([k \in S |-> amounts[k]]) + amounts[l] <= Total(amounts)
    BY <1>1, <1>2, <2>2, TotalOfPartAndEntry
  <2> QED BY <2>3 DEF SharesAhead, S
<1> QED BY <1>4, <1>5

\* An older lot, with all it offers, is ahead of a newer one.
LEMMA OlderIsAhead ==
  ASSUME NEW amounts, Offers(amounts), NEW k \in LotIds, NEW l \in LotIds,
         amounts[k] > 0, amounts[l] > 0, Older(k, l)
  PROVE  SharesAhead(amounts, k) + amounts[k] <= SharesAhead(amounts, l)
<1> DEFINE S == AheadOf(amounts, k)
           T == AheadOf(amounts, l)
           part == [j \in T |-> amounts[j]]
<1>1. IsFiniteSet(LotIds) /\ LotIds \subseteq Nat /\ amounts \in [LotIds -> Nat]
  BY LedgerAssumption DEF Offers
<1>2. T \subseteq LotIds /\ IsFiniteSet(T)
  BY <1>1, FS_Subset DEF AheadOf
<1>3. k \in T /\ k \notin S /\ S \subseteq T
  <2>1. \A j \in LotIds : amounts[j] > 0 =>
          j \in Nat /\ j \in DOMAIN lots /\ lots[j].acquire_date \in Nat
    BY <1>1 DEF Offers
  <2> QED BY <2>1 DEF AheadOf, Older
<1>4. part \in [T -> Nat] /\ part[k] = amounts[k] /\ k \in T \ S
  BY <1>1, <1>2, <1>3
<1>5. [j \in S |-> part[j]] = [j \in S |-> amounts[j]]
  BY <1>3
<1> HIDE DEF S, T, part
<1>6. Total([j \in S |-> part[j]]) + part[k] <= Total(part)
  BY <1>2, <1>3, <1>4, TotalOfPartAndEntry
<1> QED BY <1>4, <1>5, <1>6 DEF SharesAhead, S, T, part

\* Of two different lots one is older.
LEMMA OlderIsTotal ==
  ASSUME NEW amounts, Offers(amounts), NEW k \in LotIds, NEW l \in LotIds,
         amounts[k] > 0, amounts[l] > 0, k # l
  PROVE  Older(k, l) \/ Older(l, k)
<1>1. k \in Nat /\ l \in Nat
  BY LedgerAssumption
<1>2. lots[k].acquire_date \in Nat /\ lots[l].acquire_date \in Nat
  BY DEF Offers
<1> QED BY <1>1, <1>2 DEF Older

Number(amounts) ==
  [u \in Units(amounts) |-> SharesAhead(amounts, u[1]) + u[2]]

\* A unit of what is offered is one numbered share of one lot.
LEMMA UnitsAreShares ==
  ASSUME NEW amounts, Offers(amounts), NEW u \in Units(amounts)
  PROVE  /\ u = <<u[1], u[2]>> /\ u[1] \in LotIds /\ amounts[u[1]] \in Nat \ {0}
         /\ u[2] \in Nat \ {0} /\ u[2] <= amounts[u[1]]
         /\ SharesAhead(amounts, u[1]) \in Nat
<1>1. amounts \in [LotIds -> Nat]
  BY DEF Offers
<1>2. PICK l \in LotIds : u \in {l} \X (1 .. amounts[l])
  BY <1>1 DEF Units
<1>3. u = <<u[1], u[2]>> /\ u[1] = l /\ u[2] \in 1 .. amounts[l] /\ amounts[l] \in Nat
  BY <1>1, <1>2
<1> QED BY <1>3, SharesAheadFit

\* No two offered shares get the same place in the queue.
LEMMA NumberIsInjective ==
  ASSUME NEW amounts, Offers(amounts)
  PROVE  Number(amounts) \in Injection(Units(amounts), 1 .. Total(amounts))
<1> DEFINE U == Units(amounts)
           num == Number(amounts)
<1>0. Total(amounts) \in Nat
  BY TotalType, LedgerAssumption DEF Offers
<1>1. num \in [U -> 1 .. Total(amounts)]
  <2> SUFFICES ASSUME NEW u \in U
               PROVE  SharesAhead(amounts, u[1]) + u[2] \in 1 .. Total(amounts)
    BY DEF Number
  <2>1. /\ u[1] \in LotIds /\ amounts[u[1]] \in Nat \ {0}
        /\ u[2] \in Nat \ {0} /\ u[2] <= amounts[u[1]]
        /\ SharesAhead(amounts, u[1]) \in Nat
    BY UnitsAreShares
  <2>2. SharesAhead(amounts, u[1]) + amounts[u[1]] <= Total(amounts)
    BY <2>1, SharesAheadFit
  <2> QED BY <1>0, <2>1, <2>2
<1>2. \A u, v \in U : num[u] = num[v] => u = v
  <2> SUFFICES ASSUME NEW u \in U, NEW v \in U, num[u] = num[v]
               PROVE  u = v
    OBVIOUS
  <2>1. SharesAhead(amounts, u[1]) + u[2] = SharesAhead(amounts, v[1]) + v[2]
    BY DEF Number
  <2>2. /\ u = <<u[1], u[2]>> /\ u[1] \in LotIds /\ amounts[u[1]] \in Nat \ {0}
        /\ u[2] \in Nat \ {0} /\ u[2] <= amounts[u[1]]
        /\ SharesAhead(amounts, u[1]) \in Nat
    BY UnitsAreShares
  <2>3. /\ v = <<v[1], v[2]>> /\ v[1] \in LotIds /\ amounts[v[1]] \in Nat \ {0}
        /\ v[2] \in Nat \ {0} /\ v[2] <= amounts[v[1]]
        /\ SharesAhead(amounts, v[1]) \in Nat
    BY UnitsAreShares
  <2>4. CASE u[1] = v[1]
    <3>1. u[2] = v[2]
      BY <2>1, <2>2, <2>3, <2>4
    <3> QED BY <2>2, <2>3, <2>4, <3>1
  <2>5. CASE u[1] # v[1]
    <3>1. Older(u[1], v[1]) \/ Older(v[1], u[1])
      BY <2>2, <2>3, <2>5, OlderIsTotal
    <3>2. \/ SharesAhead(amounts, u[1]) + amounts[u[1]] <= SharesAhead(amounts, v[1])
          \/ SharesAhead(amounts, v[1]) + amounts[v[1]] <= SharesAhead(amounts, u[1])
      BY <2>2, <2>3, <3>1, OlderIsAhead
    <3> QED BY <2>1, <2>2, <2>3, <3>2
  <2> QED BY <2>4, <2>5
<1> QED BY <1>1, <1>2 DEF Injection, IsInjective

\* No lot is asked for more than it offers.
LEMMA FifoTakeIsPart ==
  ASSUME NEW amounts, Offers(amounts), NEW qty \in Nat
  PROVE  /\ FifoTake(amounts, qty) \in [LotIds -> Nat]
         /\ \A l \in LotIds : FifoTake(amounts, qty)[l] <= amounts[l]
<1>1. amounts \in [LotIds -> Nat]
  BY DEF Offers
<1>2. FifoTake(amounts, qty) =
        [l \in LotIds |->
           IF amounts[l] = 0 \/ SharesAhead(amounts, l) >= qty
           THEN 0
           ELSE Smaller(amounts[l], qty - SharesAhead(amounts, l))]
  BY DEF FifoTake, SharesAhead, AheadOf
<1>3. \A l \in LotIds : SharesAhead(amounts, l) \in Nat
  BY SharesAheadFit
<1> QED BY <1>1, <1>2, <1>3 DEF Smaller

\* The loop of reserve_sell draws exactly what was asked for if it is there.
THEOREM FifoTakeTotal ==
  ASSUME NEW amounts, Offers(amounts), NEW qty \in Nat, qty <= Total(amounts)
  PROVE  Total(FifoTake(amounts, qty)) = qty
<1> DEFINE take == FifoTake(amounts, qty)
           U == Units(amounts)
           num == Number(amounts)
           V == {u \in U : num[u] <= qty}
           first == [u \in V |-> num[u]]
<1>1. amounts \in [LotIds -> Nat] /\ IsFiniteSet(LotIds)
  BY LedgerAssumption DEF Offers
<1>2. IsFiniteSet(U) /\ Cardinality(U) = Total(amounts) /\ Total(amounts) \in Nat
  BY <1>1, UnitsFinite, TotalType DEF Total
<1>3. num \in Injection(U, 1 .. Total(amounts))
  BY NumberIsInjective
<1>4. num \in Surjection(U, 1 .. Total(amounts))
  <2>1. /\ IsFiniteSet(1 .. Total(amounts))
        /\ Cardinality(1 .. Total(amounts)) = Total(amounts)
    <3>1. 1 \in Int /\ Total(amounts) \in Int
      BY <1>2
    <3>2. /\ IsFiniteSet(1 .. Total(amounts))
          /\ Cardinality(1 .. Total(amounts)) =
               IF 1 > Total(amounts) THEN 0 ELSE Total(amounts) - 1 + 1
      BY <3>1, FS_Interval
    <3> QED BY <1>2, <3>2
  <2> HIDE DEF U, num
  <2> QED BY <1>2, <1>3, <2>1, FS_Injection
<1>5. Units(take) = V
  <2>1. take \in [LotIds -> Nat]
    BY FifoTakeIsPart
  <2>2. \A l \in LotIds : SharesAhead(amounts, l) \in Nat
    BY SharesAheadFit
  <2>3. \A l \in LotIds : \A i \in Nat \ {0} :
          i \in 1 .. take[l] <=> i \in 1 .. amounts[l] /\ SharesAhead(amounts, l) + i <= qty
    <3> SUFFICES ASSUME NEW l \in LotIds, NEW i \in Nat \ {0}
                 PROVE  i \in 1 .. take[l] <=>
                          i \in 1 .. amounts[l] /\ SharesAhead(amounts, l) + i <= qty
      OBVIOUS
    <3>1. take[l] = IF amounts[l] = 0 \/ SharesAhead(amounts, l) >= qty
                    THEN 0
                    ELSE Smaller(amounts[l], qty - SharesAhead(amounts, l))
      BY DEF FifoTake, SharesAhead, AheadOf
    <3>2. amounts[l] \in Nat /\ SharesAhead(amounts, l) \in Nat
      BY <1>1, <2>2
    <3> HIDE DEF take
    <3> QED BY <3>1, <3>2 DEF Smaller
  <2> HIDE DEF take
  <2>4. ASSUME NEW u \in Units(take) PROVE u \in V
    <3>1. PICK l \in LotIds : u \in {l} \X (1 .. take[l])
      BY <2>1 DEF Units
    <3>2. u = <<l, u[2]>> /\ u[1] = l /\ u[2] \in 1 .. take[l]
      BY <3>1
    <3>3. u[2] \in Nat \ {0}
      BY <2>1, <3>2
    <3>4. u[2] \in 1 .. amounts[l] /\ SharesAhead(amounts, l) + u[2] <= qty
      BY <2>3, <3>2, <3>3
    <3>5. u \in U
      BY <1>1, <3>2, <3>4 DEF Units
    <3>6. num[u] = SharesAhead(amounts, l) + u[2]
      BY <3>2, <3>5 DEF Number
    <3> QED BY <3>4, <3>5, <3>6
  <2>5. ASSUME NEW u \in V PROVE u \in Units(take)
    <3>1. /\ u = <<u[1], u[2]>> /\ u[1] \in LotIds /\ u[2] \in Nat \ {0}
          /\ u[2] <= amounts[u[1]] /\ amounts[u[1]] \in Nat
      BY UnitsAreShares
    <3>2. SharesAhead(amounts, u[1]) + u[2] <= qty
      BY DEF Number
    <3>3. u[2] \in 1 .. take[u[1]]
      BY <2>3, <3>1, <3>2
    <3> QED BY <2>1, <3>1, <3>3 DEF Units
  <2> QED BY <2>4, <2>5
<1>6. first \in Bijection(V, 1 .. qty)
  <2> HIDE DEF U, num
  <2>1. \A u \in U : num[u] \in 1 .. Total(amounts)
    BY <1>3 DEF Injection
  <2>2. first \in [V -> 1 .. qty]
    BY <1>2, <2>1
  <2>3. \A u, v \in V : first[u] = first[v] => u = v
    BY <1>3 DEF Injection, IsInjective
  <2>4. \A n \in 1 .. qty : \E u \in V : first[u] = n
    <3> SUFFICES ASSUME NEW n \in 1 .. qty PROVE \E u \in V : first[u] = n
      OBVIOUS
    <3>1. n \in 1 .. Total(amounts)
      BY <1>2
    <3>2. PICK u \in U : num[u] = n
      BY <1>4, <3>1 DEF Surjection
    <3> QED BY <3>2
  <2> QED BY <2>2, <2>3, <2>4 DEF Bijection, Injection, Surjection, IsInjective
<1>7. Cardinality(V) = qty
  <2>1. IsFiniteSet(V)
    BY <1>2, FS_Subset
  <2>2. ExistsBijection(V, 1 .. qty)
    BY <1>6 DEF ExistsBijection
  <2> HIDE DEF V
  <2>3. Cardinality(1 .. qty) = Cardinality(V)
    BY <2>1, <2>2, FS_Bijection
  <2>4. Cardinality(1 .. qty) = IF 1 > qty THEN 0 ELSE qty - 1 + 1
    BY FS_Interval
  <2> QED BY <2>3, <2>4
<1> QED BY <1>5, <1>7 DEF Total

-----------------------------------------------------------------------------
(* The invariant.  Type correctness is not inductive by itself: that a     *)
(* release cannot take a lot's reserved shares below zero needs            *)
(* ReservedSharesAreLent, which after a SELL order's last fill needs       *)
(* SellRemainderIsBacked.  Together they are.                              *)

LedgerIInv ==
  /\ LedgerTypeOK
  /\ BuyReservationIsExact
  /\ ReservedSharesAreLent
  /\ SellRemainderIsBacked
  /\ FeesFollowNotional

Lent(rs, l) == Total([o \in DOMAIN rs |-> rs[o].alloc[l]])

FeesOf(ts) == Total([o \in DOMAIN ts |-> ts[o].fees_paid])

IsReservations(rs) == DOMAIN rs \subseteq OrderIds /\ rs \in [DOMAIN rs -> Reservation]

IsOrderTotals(ts) == DOMAIN ts \subseteq OrderIds /\ ts \in [DOMAIN ts -> OrderTotals]

-----------------------------------------------------------------------------
(* What a change of one reservation does to the sums over all of them. *)

\* The reserved cash is an amount.
LEMMA ReservedCashType ==
  ASSUME NEW rs, IsReservations(rs)
  PROVE  ReservedCash(rs) \in Nat
<1>1. IsFiniteSet(DOMAIN rs)
  BY LedgerAssumption, FS_Subset DEF IsReservations
<1>2. [o \in DOMAIN rs |-> rs[o].cash] \in [DOMAIN rs -> Nat]
  BY DEF IsReservations, Reservation
<1> QED BY <1>1, <1>2, TotalType DEF ReservedCash

\* The shares of one lot lent to each order are amounts.
LEMMA AllocType ==
  ASSUME NEW rs, IsReservations(rs), NEW o \in DOMAIN rs
  PROVE  /\ rs[o].alloc \in [LotIds -> Nat]
         /\ \A l \in LotIds : rs[o].alloc[l] \in Nat
BY DEF IsReservations, Reservation, Allocation

\* What a lot has lent is an amount.
LEMMA LentType ==
  ASSUME NEW rs, IsReservations(rs), NEW l \in LotIds
  PROVE  /\ IsFiniteSet(DOMAIN rs)
         /\ [o \in DOMAIN rs |-> rs[o].alloc[l]] \in [DOMAIN rs -> Nat]
         /\ Lent(rs, l) \in Nat
<1>1. IsFiniteSet(DOMAIN rs)
  BY LedgerAssumption, FS_Subset DEF IsReservations
<1>2. [o \in DOMAIN rs |-> rs[o].alloc[l]] \in [DOMAIN rs -> Nat]
  BY AllocType
<1> QED BY <1>1, <1>2, TotalType DEF Lent

\* No single loan exceeds what the lot has lent in all.
LEMMA LentBounds ==
  ASSUME NEW rs, IsReservations(rs), NEW l \in LotIds, NEW o \in DOMAIN rs
  PROVE  rs[o].alloc[l] <= Lent(rs, l)
<1> DEFINE f == [x \in DOMAIN rs |-> rs[x].alloc[l]]
<1>1. IsFiniteSet(DOMAIN rs) /\ f \in [DOMAIN rs -> Nat] /\ f[o] = rs[o].alloc[l]
  BY LentType
<1> HIDE DEF f
<1>2. f[o] <= Total(f)
  BY <1>1, TotalBoundsEntry
<1> QED BY <1>1, <1>2 DEF Lent, f

\* A new reservation adds its own loan.
LEMMA LentPut ==
  ASSUME NEW rs, IsReservations(rs), NEW o, o \notin DOMAIN rs, NEW r \in Reservation,
         NEW l \in LotIds
  PROVE  Lent(Put(rs, o, r), l) = Lent(rs, l) + r.alloc[l]
<1> DEFINE f == [x \in DOMAIN rs |-> rs[x].alloc[l]]
           new == Put(rs, o, r)
<1>1. [x \in DOMAIN new |-> new[x].alloc[l]] = Put(f, o, r.alloc[l])
  BY DEF Put
<1>2. r.alloc[l] \in Nat
  BY DEF Reservation, Allocation
<1>3. IsFiniteSet(DOMAIN rs) /\ f \in [DOMAIN rs -> Nat]
  BY LentType
<1> HIDE DEF f, new
<1>4. Total(Put(f, o, r.alloc[l])) = Total(f) + r.alloc[l]
  BY <1>2, <1>3, TotalPut
<1> QED BY <1>1, <1>4 DEF Lent, f, new

\* A dropped reservation takes its loan back.
LEMMA LentWithout ==
  ASSUME NEW rs, IsReservations(rs), NEW o \in DOMAIN rs, NEW l \in LotIds
  PROVE  Lent(Without(rs, o), l) = Lent(rs, l) - rs[o].alloc[l]
<1> DEFINE f == [x \in DOMAIN rs |-> rs[x].alloc[l]]
           new == Without(rs, o)
<1>1. [x \in DOMAIN new |-> new[x].alloc[l]] = Without(f, o) /\ f[o] = rs[o].alloc[l]
  BY DEF Without
<1>2. IsFiniteSet(DOMAIN rs) /\ f \in [DOMAIN rs -> Nat]
  BY LentType
<1> HIDE DEF f, new
<1>3. Total(Without(f, o)) = Total(f) - f[o]
  BY <1>2, TotalWithout
<1> QED BY <1>1, <1>3 DEF Lent, f, new

\* A changed reservation changes the loans by the difference.
LEMMA LentUpdate ==
  ASSUME NEW rs, IsReservations(rs), NEW o \in DOMAIN rs, NEW r \in Reservation,
         NEW l \in LotIds
  PROVE  Lent([rs EXCEPT ![o] = r], l) = Lent(rs, l) - rs[o].alloc[l] + r.alloc[l]
<1> DEFINE f == [x \in DOMAIN rs |-> rs[x].alloc[l]]
           new == [rs EXCEPT ![o] = r]
<1>1. rs \in [DOMAIN rs -> Reservation]
  BY DEF IsReservations
<1>2. /\ [x \in DOMAIN new |-> new[x].alloc[l]] = [f EXCEPT ![o] = r.alloc[l]]
      /\ f[o] = rs[o].alloc[l]
  BY <1>1
<1>3. r.alloc[l] \in Nat
  BY DEF Reservation, Allocation
<1>4. IsFiniteSet(DOMAIN rs) /\ f \in [DOMAIN rs -> Nat]
  BY LentType
<1> HIDE DEF f, new
<1>5. Total([f EXCEPT ![o] = r.alloc[l]]) = Total(f) - f[o] + r.alloc[l]
  BY <1>3, <1>4, TotalUpdate
<1> QED BY <1>2, <1>5 DEF Lent, f, new

\* A new order has paid nothing yet.
LEMMA FeesPut ==
  ASSUME NEW ts, IsOrderTotals(ts), NEW o, o \notin DOMAIN ts, NEW t \in OrderTotals
  PROVE  FeesOf(Put(ts, o, t)) = FeesOf(ts) + t.fees_paid
<1> DEFINE f == [x \in DOMAIN ts |-> ts[x].fees_paid]
           new == Put(ts, o, t)
<1>1. [x \in DOMAIN new |-> new[x].fees_paid] = Put(f, o, t.fees_paid)
  BY DEF Put
<1>2. IsFiniteSet(DOMAIN ts)
  BY LedgerAssumption, FS_Subset DEF IsOrderTotals
<1>3. f \in [DOMAIN ts -> Nat] /\ t.fees_paid \in Nat
  BY DEF IsOrderTotals, OrderTotals
<1> HIDE DEF f, new
<1>4. Total(Put(f, o, t.fees_paid)) = Total(f) + t.fees_paid
  BY <1>2, <1>3, TotalPut
<1> QED BY <1>1, <1>4 DEF FeesOf, f, new

\* A fee paid by one order is a fee paid by the account.
LEMMA FeesUpdate ==
  ASSUME NEW ts, IsOrderTotals(ts), NEW o \in DOMAIN ts, NEW t \in OrderTotals
  PROVE  FeesOf([ts EXCEPT ![o] = t]) = FeesOf(ts) - ts[o].fees_paid + t.fees_paid
<1> DEFINE f == [x \in DOMAIN ts |-> ts[x].fees_paid]
           new == [ts EXCEPT ![o] = t]
<1>1. ts \in [DOMAIN ts -> OrderTotals]
  BY DEF IsOrderTotals
<1>2. /\ [x \in DOMAIN new |-> new[x].fees_paid] = [f EXCEPT ![o] = t.fees_paid]
      /\ f[o] = ts[o].fees_paid
  BY <1>1
<1>3. IsFiniteSet(DOMAIN ts)
  BY LedgerAssumption, FS_Subset DEF IsOrderTotals
<1>4. f \in [DOMAIN ts -> Nat] /\ t.fees_paid \in Nat
  BY DEF IsOrderTotals, OrderTotals
<1> HIDE DEF f, new
<1>5. Total([f EXCEPT ![o] = t.fees_paid]) = Total(f) - f[o] + t.fees_paid
  BY <1>3, <1>4, TotalUpdate
<1> QED BY <1>2, <1>5 DEF FeesOf, f, new

-----------------------------------------------------------------------------
(* What a BUY order sets aside. *)

\* Each side of the fee model has parameters.
LEMMA ModelType ==
  ASSUME NEW side \in Sides
  PROVE  Model[side] \in FeeParams
BY LedgerAssumption

\* Prices and quantities are positive amounts.
LEMMA PricesAreNat ==
  /\ \A x \in Prices : x \in Nat \ {0}
  /\ \A q \in Quantities : q \in Nat \ {0}
BY LedgerAssumption

\* A price times a quantity is an amount.
LEMMA ProductType ==
  ASSUME NEW a \in Nat, NEW b \in Nat
  PROVE  a * b \in Nat
OBVIOUS

\* What a BUY order sets aside is an amount.
LEMMA BuyRequirementType ==
  ASSUME NEW paid \in Nat, NEW limit \in Nat, NEW remaining \in Nat
  PROVE  BuyRequirement(paid, limit, remaining) \in Nat
<1> DEFINE value == limit * remaining
           after == paid + value
<1>1. value \in Nat
  BY ProductType
<1>2. Model["BUY"] \in FeeParams
  BY ModelType DEF Sides
<1>3. BuyRequirement(paid, limit, remaining) = value + FeeDelta(Model["BUY"], paid, after)
  BY DEF BuyRequirement, BuyFeeUpperBound
<1> HIDE DEF value
<1>4. after \in Nat /\ paid <= after
  BY <1>1
<1> HIDE DEF after
<1>5. FeeDelta(Model["BUY"], paid, after) \in Nat
  BY <1>2, <1>4, FeeDeltaNonnegative
<1> QED BY <1>1, <1>3, <1>5

\* A fill within the limit and the worst case of the rest never cost more than
\* what was set aside before the fill.
LEMMA RequirementCoversFill ==
  ASSUME NEW paid \in Nat, NEW limit \in Nat, NEW remaining \in Nat,
         NEW price \in Nat, NEW qty \in Nat, price <= limit, qty <= remaining
  PROVE  price * qty + FeeDelta(Model["BUY"], paid, paid + price * qty)
           + BuyRequirement(paid + price * qty, limit, remaining - qty)
         <= BuyRequirement(paid, limit, remaining)
<1> DEFINE spent == price * qty
           rest == limit * (remaining - qty)
           worst == limit * remaining
           fee(n) == CumulativeFee(Model["BUY"], n)
<1>1. spent \in Nat /\ rest \in Nat /\ worst \in Nat
  BY ProductType
<1>2. spent + rest <= worst
  <2>1. price * qty <= limit * qty
    BY SMT
  <2>2. limit * remaining = limit * qty + limit * (remaining - qty)
    BY SMT
  <2> QED BY <2>1, <2>2
<1>3. Model["BUY"] \in FeeParams
  BY ModelType DEF Sides
<1>4. BuyRequirement(paid, limit, remaining) = worst + (fee(paid + worst) - fee(paid))
  BY DEF BuyRequirement, BuyFeeUpperBound, FeeDelta
<1>5. BuyRequirement(paid + spent, limit, remaining - qty)
        = rest + (fee(paid + spent + rest) - fee(paid + spent))
  BY DEF BuyRequirement, BuyFeeUpperBound, FeeDelta
<1>6. FeeDelta(Model["BUY"], paid, paid + spent) = fee(paid + spent) - fee(paid)
  BY DEF FeeDelta
<1> HIDE DEF spent, rest, worst
<1>7. paid + spent + rest \in Nat /\ paid + worst \in Nat /\ paid + spent \in Nat
  BY <1>1
<1>8. fee(paid + spent + rest) <= fee(paid + worst)
  BY <1>1, <1>2, <1>3, <1>7, CumulativeFeeMonotone
<1>9. /\ fee(paid) \in Nat /\ fee(paid + spent) \in Nat
      /\ fee(paid + spent + rest) \in Nat /\ fee(paid + worst) \in Nat
  BY <1>3, <1>7, CumulativeFeeType
<1> HIDE DEF fee
<1>10. spent + FeeDelta(Model["BUY"], paid, paid + spent)
         + BuyRequirement(paid + spent, limit, remaining - qty)
       <= BuyRequirement(paid, limit, remaining)
  BY <1>1, <1>2, <1>4, <1>5, <1>6, <1>8, <1>9
<1> QED BY <1>10 DEF spent

-----------------------------------------------------------------------------
(* The invariant, read at one reservation or one lot. *)

\* The parts of the type invariant the later lemmas use.
LEMMA InvariantTypes ==
  ASSUME LedgerIInv
  PROVE  /\ IsReservations(reservations) /\ IsOrderTotals(order_totals)
         /\ cash \in Nat /\ fees_paid \in Nat /\ ledger_version \in Nat
         /\ DOMAIN lots \subseteq LotIds /\ lots \in [DOMAIN lots -> Lot]
         /\ fees_paid = FeesOf(order_totals)
BY DEF LedgerIInv, LedgerTypeOK, IsReservations, IsOrderTotals, FeesFollowNotional, FeesOf

\* The fields of a lot the account holds.
LEMMA LotType ==
  ASSUME LedgerIInv, NEW l \in DOMAIN lots
  PROVE  /\ l \in LotIds /\ lots[l] \in Lot
         /\ lots[l].qty \in Nat \ {0} /\ lots[l].reserved_qty \in Nat
         /\ lots[l].reserved_qty = Lent(reservations, l)
         /\ Lent(reservations, l) <= lots[l].qty
<1>1. l \in LotIds /\ lots[l] \in Lot
  BY InvariantTypes
<1>2. lots[l].reserved_qty = Lent(reservations, l) /\ Lent(reservations, l) <= lots[l].qty
  BY <1>1 DEF LedgerIInv, ReservedSharesAreLent, Lent
<1> QED BY <1>1, <1>2 DEF Lot

\* A lot the account does not hold lends nothing.
LEMMA NoLotNoLoan ==
  ASSUME LedgerIInv, NEW l \in LotIds, l \notin DOMAIN lots
  PROVE  Lent(reservations, l) = 0
BY DEF LedgerIInv, ReservedSharesAreLent, Lent

\* The fields of a reservation and of the totals of its order.
LEMMA ReservationType ==
  ASSUME LedgerIInv, NEW o \in DOMAIN reservations
  PROVE  /\ o \in OrderIds /\ o \in used_order_ids /\ o \in DOMAIN order_totals
         /\ reservations[o] \in Reservation /\ order_totals[o] \in OrderTotals
         /\ order_totals[o].side = reservations[o].side
         /\ reservations[o].remaining_qty \in Nat \ {0}
         /\ reservations[o].limit \in Nat \ {0}
         /\ reservations[o].cash \in Nat
         /\ reservations[o].alloc \in [LotIds -> Nat]
         /\ order_totals[o].notional \in Nat /\ order_totals[o].fees_paid \in Nat
<1>1. /\ o \in OrderIds /\ o \in used_order_ids /\ o \in DOMAIN order_totals
      /\ reservations[o] \in Reservation /\ order_totals[o] \in OrderTotals
      /\ order_totals[o].side = reservations[o].side
  BY DEF LedgerIInv, LedgerTypeOK, RecordsAgree
<1>2. reservations[o].limit \in Nat \ {0}
  BY <1>1, PricesAreNat DEF Reservation
<1> QED BY <1>1, <1>2 DEF Reservation, OrderTotals, Allocation

\* An order without lots holds zero shares of each.
LEMMA NoAllocationType ==
  /\ NoAllocation \in Allocation
  /\ \A l \in LotIds : NoAllocation[l] = 0
  /\ Total(NoAllocation) = 0
<1>1. NoAllocation \in [LotIds -> {0}]
  BY DEF NoAllocation
<1>2. Total(NoAllocation) = 0
  BY <1>1, TotalZero
<1> QED BY <1>2 DEF NoAllocation, Allocation

-----------------------------------------------------------------------------
(* Reserving, and rejecting. *)

\* Both sides reserve in the same way: a new order's lots lend what they can.
LEMMA ReserveStep ==
  ASSUME LedgerIInv, NEW o \in OrderIds, NewId(o), NEW r \in Reservation, Reserve(o, r),
         IF r.side = "BUY"
         THEN r.alloc = NoAllocation /\ r.cash = BuyRequirement(0, r.limit, r.remaining_qty)
         ELSE r.cash = 0 /\ Total(r.alloc) = r.remaining_qty,
         lots' = [l \in DOMAIN lots |-> [lots[l] EXCEPT !.reserved_qty = @ + r.alloc[l]]],
         \A l \in LotIds : r.alloc[l] <= IF l \in DOMAIN lots THEN FreeQty(l) ELSE 0
  PROVE  LedgerIInv'
<1> DEFINE t == [side |-> r.side, notional |-> 0, fees_paid |-> 0]
<1>1. /\ cash' = cash /\ ledger_version' = ledger_version + 1
      /\ reservations' = Put(reservations, o, r)
      /\ order_totals' = Put(order_totals, o, t)
      /\ used_order_ids' = used_order_ids \cup {o}
      /\ UNCHANGED <<buckets, applied_fills, fees_paid>>
  BY DEF Reserve, Commit
<1>2. o \notin DOMAIN order_totals /\ o \notin DOMAIN reservations
  BY DEF NewId, LedgerIInv, LedgerTypeOK, RecordsAgree
<1>3. t \in OrderTotals
  BY DEF OrderTotals, Reservation
<1>4. /\ r.alloc \in [LotIds -> Nat] /\ r.side \in Sides
      /\ r.remaining_qty \in Nat \ {0}
  BY DEF Reservation, Allocation
<1>5. \A l \in DOMAIN lots :
        /\ lots[l] \in Lot /\ l \in LotIds
        /\ lots[l].qty \in Nat /\ lots[l].reserved_qty \in Nat /\ r.alloc[l] \in Nat
        /\ lots[l].reserved_qty + r.alloc[l] <= lots[l].qty
  BY <1>4, LotType DEF FreeQty
<1>6. LedgerTypeOK'
  <2>1. lots' \in [DOMAIN lots' -> Lot] /\ DOMAIN lots' = DOMAIN lots
    BY <1>5 DEF Lot
  <2>2. /\ reservations' \in [DOMAIN reservations' -> Reservation]
        /\ DOMAIN reservations' = DOMAIN reservations \cup {o}
    BY <1>1, InvariantTypes DEF Put, IsReservations
  <2>3. /\ order_totals' \in [DOMAIN order_totals' -> OrderTotals]
        /\ DOMAIN order_totals' = DOMAIN order_totals \cup {o}
    BY <1>1, <1>3, InvariantTypes DEF Put, IsOrderTotals
  <2>4. RecordsAgree'
    <3>1. \A x \in DOMAIN reservations' :
            /\ order_totals'[x].side = reservations'[x].side
            /\ IF reservations'[x].side = "BUY"
               THEN reservations'[x].alloc = NoAllocation
               ELSE reservations'[x].cash = 0
      BY <1>1, <1>2 DEF Put, LedgerIInv, LedgerTypeOK, RecordsAgree
    <3>2. /\ DOMAIN reservations \subseteq DOMAIN order_totals
          /\ DOMAIN order_totals \subseteq used_order_ids
      BY DEF LedgerIInv, LedgerTypeOK, RecordsAgree
    <3> QED BY <1>1, <2>2, <2>3, <3>1, <3>2 DEF RecordsAgree
  <2> QED BY <1>1, <2>1, <2>2, <2>3, <2>4 DEF LedgerIInv, LedgerTypeOK
<1>7. BuyReservationIsExact'
  BY <1>1, <1>2 DEF Put, LedgerIInv, BuyReservationIsExact, LedgerTypeOK, RecordsAgree
<1>8. ReservedSharesAreLent'
  <2> SUFFICES ASSUME NEW l \in LotIds
               PROVE  IF l \in DOMAIN lots'
                      THEN /\ lots'[l].reserved_qty = Lent(reservations', l)
                           /\ Lent(reservations', l) <= lots'[l].qty
                      ELSE Lent(reservations', l) = 0
    BY DEF ReservedSharesAreLent, Lent
  <2>1. Lent(reservations', l) = Lent(reservations, l) + r.alloc[l]
    BY <1>1, <1>2, LentPut, InvariantTypes
  <2>2. CASE l \in DOMAIN lots
    <3>1. /\ lots'[l].reserved_qty = lots[l].reserved_qty + r.alloc[l]
          /\ lots'[l].qty = lots[l].qty /\ l \in DOMAIN lots'
      BY <1>5, <2>2 DEF Lot
    <3> QED BY <1>5, <2>1, <2>2, <3>1, LotType
  <2>3. CASE l \notin DOMAIN lots
    <3>1. r.alloc[l] = 0 /\ l \notin DOMAIN lots'
      BY <1>4, <2>3
    <3> QED BY <2>1, <2>3, <3>1, NoLotNoLoan
  <2> QED BY <2>2, <2>3
<1>9. SellRemainderIsBacked'
  BY <1>1, <1>2, <1>4, NoAllocationType DEF Put, LedgerIInv, SellRemainderIsBacked, Sides
<1>10. FeesFollowNotional'
  <2>1. FeesOf(order_totals') = FeesOf(order_totals) + 0
    BY <1>1, <1>2, <1>3, FeesPut, InvariantTypes
  <2>2. fees_paid' = FeesOf(order_totals')
    BY <1>1, <2>1, InvariantTypes
  <2>3. CumulativeFee(Model[r.side], 0) = 0
    BY DEF CumulativeFee
  <2>4. \A x \in DOMAIN order_totals' :
          order_totals'[x].fees_paid =
            CumulativeFee(Model[order_totals'[x].side], order_totals'[x].notional)
    BY <1>1, <1>2, <2>3 DEF Put, LedgerIInv, FeesFollowNotional
  <2> QED BY <2>2, <2>4 DEF FeesFollowNotional, FeesOf
<1> QED BY <1>6, <1>7, <1>8, <1>9, <1>10 DEF LedgerIInv

\* A commit of the very same reservations only moves the version.
LEMMA SameResourcesStep ==
  ASSUME LedgerIInv, Commit(cash, reservations),
         UNCHANGED <<lots, order_totals, applied_fills, fees_paid>>,
         used_order_ids \subseteq used_order_ids', used_order_ids' \subseteq OrderIds,
         DOMAIN buckets' \subseteq Symbols \X BucketIds, buckets' \in [DOMAIN buckets' -> Bucket]
  PROVE  LedgerIInv'
<1>1. /\ cash' = cash /\ reservations' = reservations
      /\ ledger_version' = ledger_version + 1
  BY DEF Commit
<1>2. LedgerTypeOK'
  BY <1>1 DEF LedgerIInv, LedgerTypeOK, RecordsAgree
<1>3. BuyReservationIsExact' /\ SellRemainderIsBacked'
  BY <1>1 DEF LedgerIInv, BuyReservationIsExact, SellRemainderIsBacked
<1>4. ReservedSharesAreLent'
  BY <1>1 DEF LedgerIInv, ReservedSharesAreLent
<1>5. FeesFollowNotional'
  BY <1>1 DEF LedgerIInv, FeesFollowNotional
<1> QED BY <1>2, <1>3, <1>4, <1>5 DEF LedgerIInv

\* A rejection preserves the invariant.
LEMMA RejectStep ==
  ASSUME LedgerIInv, NEW o \in OrderIds, Reject(o)
  PROVE  LedgerIInv'
<1>1. DOMAIN buckets \subseteq Symbols \X BucketIds /\ buckets \in [DOMAIN buckets -> Bucket]
  BY DEF LedgerIInv, LedgerTypeOK
<1>2. used_order_ids \subseteq OrderIds
  BY DEF LedgerIInv, LedgerTypeOK
<1> QED BY <1>1, <1>2, SameResourcesStep DEF Reject

\* Registering a bucket preserves the invariant.
LEMMA RegisterBucketStep ==
  ASSUME LedgerIInv, NEW symbol \in Symbols, NEW b \in BucketIds, NEW d \in Dates,
         NEW size \in LotSizes, NEW capacity \in Capacities,
         RegisterBucket(symbol, b, d, size, capacity)
  PROVE  LedgerIInv'
<1> DEFINE bucket == [trade_date |-> d, lot_size |-> size,
                      capacity |-> capacity, remaining |-> capacity]
<1>1. bucket \in Bucket
  BY LedgerAssumption DEF Bucket
<1>2. DOMAIN buckets \subseteq Symbols \X BucketIds /\ buckets \in [DOMAIN buckets -> Bucket]
  BY DEF LedgerIInv, LedgerTypeOK
<1>3. buckets' = Put(buckets, <<symbol, b>>, bucket)
  BY DEF RegisterBucket
<1> HIDE DEF bucket
<1>4. DOMAIN buckets' \subseteq Symbols \X BucketIds /\ buckets' \in [DOMAIN buckets' -> Bucket]
  BY <1>1, <1>2, <1>3 DEF Put
<1>5. used_order_ids \subseteq OrderIds
  BY DEF LedgerIInv, LedgerTypeOK
<1> QED BY <1>4, <1>5, SameResourcesStep DEF RegisterBucket

\* reserve_buy preserves the invariant, accepted or rejected.
LEMMA ReserveBuyStep ==
  ASSUME LedgerIInv, NEW o \in OrderIds, NEW symbol \in Symbols, NEW limit \in Prices,
         NEW qty \in Quantities, NEW size \in LotSizes,
         ReserveBuy(o, symbol, limit, qty, size)
  PROVE  LedgerIInv'
<1> DEFINE required == BuyRequirement(0, limit, qty)
           r == [symbol |-> symbol, side |-> "BUY", limit |-> limit, remaining_qty |-> qty,
                 lot_size |-> size, cash |-> required, alloc |-> NoAllocation]
<1>1. CASE Reject(o)
  BY <1>1, RejectStep
<1>2. CASE UNCHANGED lots /\ Reserve(o, r)
  <2>1. limit \in Nat /\ qty \in Nat \ {0}
    BY PricesAreNat
  <2>2. required \in Nat
    BY <2>1, BuyRequirementType
  <2>3. r \in Reservation
    BY <2>1, <2>2, NoAllocationType DEF Reservation, Sides
  <2>4. NewId(o)
    BY DEF ReserveBuy, NewOrder
  <2>5. \A l \in DOMAIN lots : lots[l] = [lots[l] EXCEPT !.reserved_qty = @ + NoAllocation[l]]
    BY LotType, NoAllocationType DEF Lot
  <2>6. lots' = [l \in DOMAIN lots |-> [lots[l] EXCEPT !.reserved_qty = @ + NoAllocation[l]]]
    BY <1>2, <2>5, InvariantTypes
  <2>7. \A l \in LotIds : NoAllocation[l] <= IF l \in DOMAIN lots THEN FreeQty(l) ELSE 0
    <3>1. \A l \in DOMAIN lots : FreeQty(l) \in Nat
      BY LotType DEF FreeQty
    <3> QED BY <3>1, NoAllocationType
  <2> HIDE DEF required
  <2> QED BY <1>2, <2>3, <2>4, <2>6, <2>7, ReserveStep DEF required
<1> QED BY <1>1, <1>2 DEF ReserveBuy

\* What reserve_sell sees of the lots is on offer in the sense of Offers.
LEMMA SellableIsOffered ==
  ASSUME LedgerIInv, NEW symbol, NEW date
  PROVE  /\ Offers(SellableLots(symbol, date))
         /\ \A l \in LotIds :
              SellableLots(symbol, date)[l] <= IF l \in DOMAIN lots THEN FreeQty(l) ELSE 0
<1>1. \A l \in DOMAIN lots : FreeQty(l) \in Nat
  BY LotType DEF FreeQty
<1>2. \A l \in DOMAIN lots : lots[l].acquire_date \in Nat
  <2>1. Dates \subseteq Nat
    BY LedgerAssumption
  <2> QED BY <2>1, LotType DEF Lot
<1> QED BY <1>1, <1>2 DEF Offers, SellableLots

\* reserve_sell preserves the invariant, accepted or rejected.
LEMMA ReserveSellStep ==
  ASSUME LedgerIInv, NEW o \in OrderIds, NEW symbol \in Symbols, NEW limit \in Prices,
         NEW qty \in Quantities, NEW size \in LotSizes, NEW date \in Dates,
         ReserveSell(o, symbol, limit, qty, size, date)
  PROVE  LedgerIInv'
<1> DEFINE sellable == SellableLots(symbol, date)
           take == FifoTake(sellable, qty)
           r == [symbol |-> symbol, side |-> "SELL", limit |-> limit, remaining_qty |-> qty,
                 lot_size |-> size, cash |-> 0, alloc |-> take]
<1>1. CASE Reject(o)
  BY <1>1, RejectStep
<1>2. CASE /\ qty <= Total(sellable)
           /\ lots' = [l \in DOMAIN lots |-> [lots[l] EXCEPT !.reserved_qty = @ + take[l]]]
           /\ Reserve(o, r)
  <2>1. limit \in Nat /\ qty \in Nat \ {0}
    BY PricesAreNat
  <2>2. /\ Offers(sellable)
        /\ \A l \in LotIds : sellable[l] <= IF l \in DOMAIN lots THEN FreeQty(l) ELSE 0
    BY SellableIsOffered
  <2>3. /\ take \in [LotIds -> Nat]
        /\ \A l \in LotIds : take[l] <= sellable[l]
    <3> HIDE DEF sellable
    <3> QED BY <2>1, <2>2, FifoTakeIsPart
  <2>4. Total(take) = qty
    <3> HIDE DEF sellable
    <3> QED BY <1>2, <2>1, <2>2, FifoTakeTotal
  <2>5. NewId(o)
    BY DEF ReserveSell, NewOrder
  <2>6. \A l \in LotIds : take[l] <= IF l \in DOMAIN lots THEN FreeQty(l) ELSE 0
    <3>1. \A l \in DOMAIN lots : FreeQty(l) \in Nat
      BY LotType DEF FreeQty
    <3>2. \A l \in LotIds : sellable[l] \in Nat /\ take[l] \in Nat
      BY <2>2, <2>3 DEF Offers
    <3> HIDE DEF sellable, take
    <3> QED BY <2>2, <2>3, <3>1, <3>2
  <2> HIDE DEF sellable, take
  <2>7. r \in Reservation
    BY <2>1, <2>3 DEF Reservation, Sides, Allocation
  <2> QED BY <1>2, <2>4, <2>5, <2>6, <2>7, ReserveStep
<1> QED BY <1>1, <1>2 DEF ReserveSell

-----------------------------------------------------------------------------
(* Releasing. *)

\* release_buy and release_sell preserve the invariant.
LEMMA ReleaseStep ==
  ASSUME LedgerIInv, NEW o \in OrderIds, NEW side \in Sides, Release(o, side)
  PROVE  LedgerIInv'
<1> DEFINE mine == reservations[o].alloc
<1>1. /\ o \in DOMAIN reservations
      /\ cash' = cash /\ ledger_version' = ledger_version + 1
      /\ reservations' = Without(reservations, o)
      /\ lots' = [l \in DOMAIN lots |-> [lots[l] EXCEPT !.reserved_qty = @ - mine[l]]]
      /\ UNCHANGED <<order_totals, buckets, applied_fills, used_order_ids, fees_paid>>
  BY DEF Release, Commit
<1>2. mine \in [LotIds -> Nat]
  BY <1>1, ReservationType
<1>3. \A l \in DOMAIN lots :
        /\ lots[l] \in Lot /\ l \in LotIds
        /\ lots[l].qty \in Nat /\ lots[l].reserved_qty \in Nat /\ mine[l] \in Nat
        /\ mine[l] <= lots[l].reserved_qty
  BY <1>1, <1>2, LotType, LentBounds, InvariantTypes
<1>4. LedgerTypeOK'
  <2>1. lots' \in [DOMAIN lots' -> Lot] /\ DOMAIN lots' = DOMAIN lots
    BY <1>1, <1>3 DEF Lot
  <2>2. /\ reservations' \in [DOMAIN reservations' -> Reservation]
        /\ DOMAIN reservations' \subseteq DOMAIN reservations
    BY <1>1, InvariantTypes DEF Without, IsReservations
  <2>3. RecordsAgree'
    BY <1>1 DEF Without, LedgerIInv, LedgerTypeOK, RecordsAgree
  <2> QED BY <1>1, <2>1, <2>2, <2>3 DEF LedgerIInv, LedgerTypeOK
<1>5. BuyReservationIsExact' /\ SellRemainderIsBacked'
  BY <1>1 DEF Without, LedgerIInv, BuyReservationIsExact, SellRemainderIsBacked
<1>6. ReservedSharesAreLent'
  <2> SUFFICES ASSUME NEW l \in LotIds
               PROVE  IF l \in DOMAIN lots'
                      THEN /\ lots'[l].reserved_qty = Lent(reservations', l)
                           /\ Lent(reservations', l) <= lots'[l].qty
                      ELSE Lent(reservations', l) = 0
    BY DEF ReservedSharesAreLent, Lent
  <2>1. /\ Lent(reservations', l) = Lent(reservations, l) - mine[l]
        /\ mine[l] <= Lent(reservations, l)
        /\ Lent(reservations, l) \in Nat /\ mine[l] \in Nat
    BY <1>1, <1>2, LentWithout, LentBounds, LentType, InvariantTypes
  <2>2. CASE l \in DOMAIN lots
    <3>1. /\ lots'[l].reserved_qty = lots[l].reserved_qty - mine[l]
          /\ lots'[l].qty = lots[l].qty /\ l \in DOMAIN lots'
      BY <1>1, <1>3, <2>2 DEF Lot
    <3>2. lots[l].reserved_qty = Lent(reservations, l) /\ Lent(reservations, l) <= lots[l].qty
      BY <2>2, LotType
    <3> HIDE DEF mine
    <3> QED BY <1>3, <2>1, <2>2, <3>1, <3>2
  <2>3. CASE l \notin DOMAIN lots
    <3>1. Lent(reservations, l) = 0 /\ l \notin DOMAIN lots'
      BY <1>1, <2>3, NoLotNoLoan
    <3> HIDE DEF mine
    <3> QED BY <2>1, <3>1
  <2> QED BY <2>2, <2>3
<1>7. FeesFollowNotional'
  BY <1>1 DEF LedgerIInv, FeesFollowNotional
<1> QED BY <1>4, <1>5, <1>6, <1>7 DEF LedgerIInv

-----------------------------------------------------------------------------
(* Applying a fill. *)

\* The reservation of order o becomes rest, or goes if nothing remains of it.
LEMMA LentAfterFill ==
  ASSUME IsReservations(reservations), NEW o \in DOMAIN reservations, NEW rest,
         rest.remaining_qty # 0 => rest \in Reservation,
         NEW l \in LotIds, rest.remaining_qty = 0 => rest.alloc[l] = 0
  PROVE  Lent(AfterFill(o, rest), l)
           = Lent(reservations, l) - reservations[o].alloc[l] + rest.alloc[l]
<1>1. Lent(reservations, l) \in Nat /\ reservations[o].alloc[l] \in Nat
  BY LentType, AllocType
<1>2. CASE rest.remaining_qty = 0
  <2>1. Lent(AfterFill(o, rest), l) = Lent(reservations, l) - reservations[o].alloc[l]
    BY <1>2, LentWithout DEF AfterFill
  <2> QED BY <1>1, <1>2, <2>1
<1>3. CASE rest.remaining_qty # 0
  BY <1>3, LentUpdate DEF AfterFill
<1> QED BY <1>2, <1>3

\* What both sides have in common.
LEMMA FillFacts ==
  ASSUME LedgerIInv, NEW p \in FillProposal, ApplyFill(p)
  PROVE  /\ p.order_id \in DOMAIN reservations
         /\ p.side = reservations[p.order_id].side
         /\ p.qty \in Nat \ {0} /\ p.price \in Nat \ {0} /\ p.fee_delta \in Nat
         /\ p.price * p.qty \in Nat
         /\ reservations[p.order_id].remaining_qty - p.qty \in Nat
         /\ p.fee_delta = FeeDelta(Model[p.side], order_totals[p.order_id].notional,
                                   order_totals[p.order_id].notional + p.price * p.qty)
BY ReservationType, PricesAreNat, ProductType
   DEF ApplyFill, FillAccepted, AdmissibleFill, FillProposal

\* Both sides keep the invariant if the lots follow what the order still lends.
LEMMA FillStep ==
  ASSUME LedgerIInv, NEW p \in FillProposal, ApplyFill(p), NEW rest,
         rest = RestOfReservation(p),
         rest.side = p.side, rest.remaining_qty \in Nat,
         rest.remaining_qty # 0 => rest \in Reservation,
         \A l \in LotIds : rest.remaining_qty = 0 => rest.alloc[l] = 0,
         IF p.side = "BUY"
         THEN /\ rest.alloc = NoAllocation
              /\ rest.cash = BuyRequirement(order_totals[p.order_id].notional + p.price * p.qty,
                                            rest.limit, rest.remaining_qty)
         ELSE rest.cash = 0 /\ Total(rest.alloc) = rest.remaining_qty,
         DOMAIN lots' \subseteq LotIds, lots' \in [DOMAIN lots' -> Lot],
         \A l \in LotIds :
           LET lent == Lent(reservations, l) - reservations[p.order_id].alloc[l] + rest.alloc[l]
           IN  IF l \in DOMAIN lots'
               THEN lots'[l].reserved_qty = lent /\ lent <= lots'[l].qty
               ELSE lent = 0
  PROVE  LedgerIInv'
<1> DEFINE o == p.order_id
           value == p.price * p.qty
           t == [side |-> order_totals[o].side,
                 notional |-> order_totals[o].notional + value,
                 fees_paid |-> order_totals[o].fees_paid + p.fee_delta]
<1>0. /\ o \in DOMAIN reservations /\ p.side = reservations[o].side
      /\ p.qty \in Nat \ {0} /\ value \in Nat /\ p.fee_delta \in Nat
      /\ p.fee_delta = FeeDelta(Model[p.side], order_totals[o].notional,
                                order_totals[o].notional + value)
  BY FillFacts
<1> HIDE DEF value
<1>1. /\ o \in DOMAIN order_totals /\ o \in OrderIds /\ o \in used_order_ids
      /\ order_totals[o] \in OrderTotals /\ order_totals[o].side = p.side
      /\ order_totals[o].notional \in Nat /\ order_totals[o].fees_paid \in Nat
      /\ p.side \in Sides
  BY <1>0, ReservationType DEF OrderTotals
<1>2. t \in OrderTotals
  BY <1>0, <1>1 DEF OrderTotals
<1>3. /\ cash' = CashAfter(p) /\ ledger_version' = ledger_version + 1
      /\ cash' >= ReservedCash(reservations')
      /\ reservations' = AfterFill(o, rest)
      /\ fees_paid' = fees_paid + p.fee_delta
      /\ used_order_ids' = used_order_ids
  BY DEF ApplyFill, Commit
<1>4. order_totals' = [order_totals EXCEPT ![o] = t]
  <2>1. order_totals \in [DOMAIN order_totals -> OrderTotals]
    BY InvariantTypes DEF IsOrderTotals
  <2>2. order_totals' = [order_totals EXCEPT ![o].notional = @ + value,
                                             ![o].fees_paid = @ + p.fee_delta]
    BY DEF ApplyFill, value
  <2> DEFINE ts == [order_totals EXCEPT ![o].notional = @ + value,
                                        ![o].fees_paid = @ + p.fee_delta]
  <2>3. order_totals[o] \in [side : Sides, notional : Nat, fees_paid : Nat]
    BY <1>1 DEF OrderTotals
  <2>4. ts[o] = t
    BY <1>1, <2>1, <2>3
  <2>5. \A x \in DOMAIN order_totals : x # o => ts[x] = order_totals[x]
    OBVIOUS
  <2>6. ts = [x \in DOMAIN order_totals |-> ts[x]]
    BY <2>1
  <2>7. [order_totals EXCEPT ![o] = t]
          = [x \in DOMAIN order_totals |-> IF x = o THEN t ELSE order_totals[x]]
    BY <2>1
  <2> HIDE DEF t
  <2>8. order_totals' = ts
    BY <2>2
  <2> HIDE DEF ts
  <2> QED BY <2>4, <2>5, <2>6, <2>7, <2>8
<1> HIDE DEF t
<1>5. /\ DOMAIN reservations' \subseteq DOMAIN reservations
      /\ IsReservations(reservations')
      /\ \A x \in DOMAIN reservations' : x # o => reservations'[x] = reservations[x]
      /\ o \in DOMAIN reservations' => reservations'[o] = rest /\ rest.remaining_qty # 0
  <2>1. IsReservations(reservations)
    BY InvariantTypes
  <2>2. CASE rest.remaining_qty = 0
    BY <1>3, <2>1, <2>2 DEF AfterFill, Without, IsReservations
  <2>3. CASE rest.remaining_qty # 0
    BY <1>0, <1>3, <2>1, <2>3 DEF AfterFill, IsReservations
  <2> QED BY <2>2, <2>3
<1>6. /\ DOMAIN order_totals' = DOMAIN order_totals
      /\ IsOrderTotals(order_totals')
      /\ order_totals'[o] = t
      /\ \A x \in DOMAIN order_totals : x # o => order_totals'[x] = order_totals[x]
  BY <1>1, <1>2, <1>4, InvariantTypes DEF IsOrderTotals
<1>7. /\ t.side = p.side /\ t.notional = order_totals[o].notional + value
      /\ t.fees_paid = order_totals[o].fees_paid + p.fee_delta
  BY <1>1 DEF t
<1>8. LedgerTypeOK'
  <2>1. cash' \in Nat
    <3>1. ReservedCash(reservations') \in Nat
      BY <1>5, ReservedCashType
    <3>2. cash' \in Int
      BY <1>0, <1>3, InvariantTypes DEF CashAfter, value
    <3> QED BY <1>3, <3>1, <3>2
  <2>2. RecordsAgree'
    <3>1. /\ DOMAIN reservations' \subseteq DOMAIN order_totals'
          /\ DOMAIN order_totals' \subseteq used_order_ids'
      BY <1>3, <1>5, <1>6 DEF LedgerIInv, LedgerTypeOK, RecordsAgree
    <3>2. ASSUME NEW x \in DOMAIN reservations'
          PROVE  /\ order_totals'[x].side = reservations'[x].side
                 /\ IF reservations'[x].side = "BUY"
                    THEN reservations'[x].alloc = NoAllocation
                    ELSE reservations'[x].cash = 0
      <4>1. CASE x = o
        BY <1>5, <1>6, <1>7, <3>2, <4>1
      <4>2. CASE x # o
        BY <1>5, <1>6, <3>2, <4>2 DEF LedgerIInv, LedgerTypeOK, RecordsAgree
      <4> QED BY <4>1, <4>2
    <3> QED BY <3>1, <3>2 DEF RecordsAgree
  <2>3. DOMAIN buckets' \subseteq Symbols \X BucketIds /\ buckets' \in [DOMAIN buckets' -> Bucket]
    <3> DEFINE key == <<p.symbol, p.bucket_id>>
    <3>1. /\ buckets' = [buckets EXCEPT ![key].remaining = @ - p.qty]
          /\ key \in DOMAIN buckets /\ p.qty <= buckets[key].remaining
      BY DEF ApplyFill, FillAccepted, AdmissibleFill
    <3>2. buckets \in [DOMAIN buckets -> Bucket] /\ DOMAIN buckets \subseteq Symbols \X BucketIds
      BY DEF LedgerIInv, LedgerTypeOK
    <3> HIDE DEF key
    <3>3. buckets[key] \in Bucket /\ buckets[key].remaining \in Nat
      BY <3>1, <3>2 DEF Bucket
    <3>4. [buckets[key] EXCEPT !.remaining = @ - p.qty] \in Bucket
      BY <1>0, <3>1, <3>3 DEF Bucket
    <3> QED BY <3>1, <3>2, <3>4
  <2>4. /\ DOMAIN applied_fills' \subseteq FillIds
        /\ applied_fills' \in [DOMAIN applied_fills' -> FillApplied]
    <3> DEFINE done == [proposal |-> p, ledger_version |-> ledger_version + 1]
    <3>1. applied_fills' = Put(applied_fills, p.fill_id, done)
      BY DEF ApplyFill
    <3>2. done \in FillApplied /\ p.fill_id \in FillIds
      BY InvariantTypes DEF FillApplied, FillProposal
    <3> HIDE DEF done
    <3> QED BY <3>1, <3>2 DEF Put, LedgerIInv, LedgerTypeOK
  <2>5. fees_paid' \in Nat /\ ledger_version' \in Nat /\ used_order_ids' \subseteq OrderIds
    BY <1>0, <1>3, InvariantTypes DEF LedgerIInv, LedgerTypeOK
  <2> QED BY <1>5, <1>6, <2>1, <2>2, <2>3, <2>4, <2>5
          DEF LedgerTypeOK, IsReservations, IsOrderTotals
<1>9. BuyReservationIsExact'
  <2> SUFFICES ASSUME NEW x \in DOMAIN reservations', reservations'[x].side = "BUY"
               PROVE  reservations'[x].cash =
                        BuyRequirement(order_totals'[x].notional, reservations'[x].limit,
                                       reservations'[x].remaining_qty)
    BY DEF BuyReservationIsExact, BuyRequirement
  <2>1. CASE x = o
    BY <1>5, <1>6, <1>7, <2>1 DEF value
  <2>2. CASE x # o
    BY <1>5, <1>6, <2>2 DEF LedgerIInv, BuyReservationIsExact, LedgerTypeOK, RecordsAgree
  <2> QED BY <2>1, <2>2
<1>10. ReservedSharesAreLent'
  <2>1. \A l \in LotIds :
          Lent(reservations', l)
            = Lent(reservations, l) - reservations[o].alloc[l] + rest.alloc[l]
    BY <1>0, <1>3, LentAfterFill, InvariantTypes
  <2> QED BY <2>1 DEF ReservedSharesAreLent, Lent
<1>11. SellRemainderIsBacked'
  <2> SUFFICES ASSUME NEW x \in DOMAIN reservations'
               PROVE  Total(reservations'[x].alloc) =
                        IF reservations'[x].side = "SELL"
                        THEN reservations'[x].remaining_qty ELSE 0
    BY DEF SellRemainderIsBacked
  <2>1. CASE x = o
    BY <1>1, <1>5, <2>1, NoAllocationType DEF Sides
  <2>2. CASE x # o
    BY <1>5, <2>2 DEF LedgerIInv, SellRemainderIsBacked
  <2> QED BY <2>1, <2>2
<1>12. FeesFollowNotional'
  <2>1. FeesOf(order_totals') = FeesOf(order_totals) - order_totals[o].fees_paid + t.fees_paid
    BY <1>1, <1>2, <1>4, FeesUpdate, InvariantTypes
  <2>2. fees_paid' = FeesOf(order_totals')
    <3>1. fees_paid = FeesOf(order_totals) /\ fees_paid \in Nat
      BY InvariantTypes
    <3> QED BY <1>0, <1>1, <1>3, <1>7, <2>1, <3>1
  <2>3. ASSUME NEW x \in DOMAIN order_totals'
        PROVE  order_totals'[x].fees_paid =
                 CumulativeFee(Model[order_totals'[x].side], order_totals'[x].notional)
    <3>1. CASE x = o
      <4> DEFINE before == CumulativeFee(Model[p.side], order_totals[o].notional)
                 after == CumulativeFee(Model[p.side], order_totals[o].notional + value)
      <4>1. order_totals[o].fees_paid = before
        BY <1>1 DEF LedgerIInv, FeesFollowNotional
      <4>2. p.fee_delta = after - before
        BY <1>0 DEF FeeDelta
      <4>3. before \in Nat /\ after \in Nat
        BY <1>0, <1>1, ModelType, CumulativeFeeType
      <4> HIDE DEF before, after
      <4>4. t.fees_paid = after
        BY <1>7, <4>1, <4>2, <4>3
      <4> QED BY <1>6, <1>7, <3>1, <4>4 DEF after
    <3>2. CASE x # o
      BY <1>6, <2>3, <3>2 DEF LedgerIInv, FeesFollowNotional
    <3> QED BY <3>1, <3>2
  <2> QED BY <2>2, <2>3 DEF FeesFollowNotional, FeesOf
<1> QED BY <1>8, <1>9, <1>10, <1>11, <1>12 DEF LedgerIInv

\* apply_fill of a purchase preserves the invariant.
LEMMA BuyFillStep ==
  ASSUME LedgerIInv, NEW p \in FillProposal, ApplyFill(p), p.side = "BUY"
  PROVE  LedgerIInv'
<1> DEFINE r == reservations[p.order_id]
           left == r.remaining_qty - p.qty
           after == order_totals[p.order_id].notional + p.price * p.qty
           kept == BuyRequirement(after, r.limit, left)
           bought == [symbol |-> p.symbol, acquire_date |-> p.trade_date,
                      sellable_date |-> p.sellable_date, qty |-> p.qty,
                      lot_size |-> p.lot_size, reserved_qty |-> 0]
<1>0. PICK rest : rest = RestOfReservation(p)
  OBVIOUS
<1>1. /\ p.order_id \in DOMAIN reservations /\ r.side = "BUY"
      /\ left \in Nat /\ after \in Nat
  BY FillFacts, ReservationType
<1>2. /\ r \in Reservation /\ r.limit \in Nat /\ r.alloc = NoAllocation
  BY <1>1, ReservationType DEF LedgerIInv, LedgerTypeOK, RecordsAgree
<1> HIDE DEF left, after
<1>3. kept \in Nat
  BY <1>1, <1>2, BuyRequirementType
<1>4. rest = [r EXCEPT !.remaining_qty = left, !.cash = kept]
  BY <1>0 DEF RestOfReservation, KeptCash, left, after
<1> HIDE DEF kept
<1>5. /\ rest.side = "BUY" /\ rest.remaining_qty = left /\ rest.cash = kept
      /\ rest.limit = r.limit /\ rest.alloc = NoAllocation
      /\ left # 0 => rest \in Reservation
  BY <1>1, <1>2, <1>3, <1>4 DEF Reservation
<1>6. /\ lots' = Put(lots, p.fill_id, bought)
      /\ p.fill_id \in LotIds /\ p.fill_id \notin DOMAIN lots
  <2>1. p.fill_id \in LotIds
    BY LedgerAssumption DEF FillProposal
  <2>2. p.fill_id \notin DOMAIN lots
    BY DEF ApplyFill, FillAccepted, BuyIsCovered
  <2> QED BY <2>1, <2>2 DEF ApplyFill, LotsAfterPurchase
<1>7. bought \in Lot
  <2>1. p.sellable_date \in Dates
    BY DEF ApplyFill, FillAccepted, WellFormedFill, FillProposal
  <2>2. p.qty \in Nat \ {0}
    BY FillFacts
  <2> QED BY <2>1, <2>2 DEF Lot, FillProposal
<1>8. bought.reserved_qty = 0 /\ bought.qty \in Nat
  BY <1>7 DEF Lot
<1> HIDE DEF bought, r
<1>9. DOMAIN lots' \subseteq LotIds /\ lots' \in [DOMAIN lots' -> Lot]
  BY <1>6, <1>7, InvariantTypes DEF Put
<1>10. \A l \in LotIds :
         LET lent == Lent(reservations, l) - r.alloc[l] + rest.alloc[l]
         IN  IF l \in DOMAIN lots'
             THEN lots'[l].reserved_qty = lent /\ lent <= lots'[l].qty
             ELSE lent = 0
  <2> SUFFICES ASSUME NEW l \in LotIds
               PROVE  IF l \in DOMAIN lots'
                      THEN /\ lots'[l].reserved_qty = Lent(reservations, l)
                           /\ Lent(reservations, l) <= lots'[l].qty
                      ELSE Lent(reservations, l) = 0
    <3>1. \A l \in LotIds : Lent(reservations, l) \in Nat
      BY InvariantTypes, LentType
    <3>2. \A l \in LotIds : r.alloc[l] = 0 /\ rest.alloc[l] = 0
      BY <1>2, <1>5, NoAllocationType
    <3> QED BY <3>1, <3>2
  <2>1. CASE l = p.fill_id
    BY <1>6, <1>8, <2>1, NoLotNoLoan DEF Put
  <2>2. CASE l # p.fill_id
    <3>1. l \in DOMAIN lots' <=> l \in DOMAIN lots
      BY <1>6, <2>2 DEF Put
    <3>2. l \in DOMAIN lots => lots'[l] = lots[l]
      BY <1>6, <2>2 DEF Put
    <3> QED BY <3>1, <3>2, LotType, NoLotNoLoan
  <2> QED BY <2>1, <2>2
<1> QED BY <1>0, <1>1, <1>5, <1>9, <1>10, NoAllocationType, FillStep DEF r, after, kept

\* apply_fill of a sale preserves the invariant.
LEMMA SellFillStep ==
  ASSUME LedgerIInv, NEW p \in FillProposal, ApplyFill(p), p.side = "SELL"
  PROVE  LedgerIInv'
<1> DEFINE r == reservations[p.order_id]
           left == r.remaining_qty - p.qty
           take == Taken(p)
           still == [l \in LotIds |-> r.alloc[l] - take[l]]
<1>0. PICK rest : rest = RestOfReservation(p)
  OBVIOUS
<1>1. /\ p.order_id \in DOMAIN reservations /\ r.side = "SELL"
      /\ left \in Nat /\ p.qty \in Nat /\ r.remaining_qty \in Nat
  BY FillFacts, ReservationType
<1>2. /\ r \in Reservation /\ r.alloc \in [LotIds -> Nat] /\ r.cash = 0
      /\ Total(r.alloc) = r.remaining_qty
  BY <1>1, ReservationType
     DEF LedgerIInv, LedgerTypeOK, RecordsAgree, SellRemainderIsBacked
<1>3. \A l \in LotIds : /\ Lent(reservations, l) \in Nat
                        /\ r.alloc[l] \in Nat
                        /\ r.alloc[l] <= Lent(reservations, l)
  BY <1>1, <1>2, InvariantTypes, LentType, LentBounds
<1>4. take \in [LotIds -> Nat] /\ \A l \in LotIds : take[l] <= r.alloc[l]
  <2>1. \A l \in DOMAIN lots : lots[l].acquire_date \in Nat
    <3>1. Dates \subseteq Nat
      BY LedgerAssumption
    <3> QED BY <3>1, LotType DEF Lot
  <2>2. \A l \in LotIds : r.alloc[l] > 0 => l \in DOMAIN lots
    BY <1>3, NoLotNoLoan
  <2>3. Offers(r.alloc)
    BY <1>2, <2>1, <2>2 DEF Offers
  <2>4. take = FifoTake(r.alloc, p.qty)
    BY DEF Taken
  <2> HIDE DEF r, take
  <2> QED BY <1>1, <2>3, <2>4, FifoTakeIsPart
<1>5. Total(take) = p.qty
  BY DEF ApplyFill, FillAccepted, SellIsBacked
<1>6. rest = [r EXCEPT !.remaining_qty = left, !.alloc = still]
  BY <1>0 DEF RestOfReservation
<1>7. lots' = [l \in {l \in DOMAIN lots : lots[l].qty > take[l]} |->
                 [lots[l] EXCEPT !.qty = @ - take[l], !.reserved_qty = @ - take[l]]]
  BY DEF ApplyFill, LotsAfterSale
<1> HIDE DEF take
<1>8. still \in [LotIds -> Nat] /\ \A l \in LotIds : still[l] = r.alloc[l] - take[l]
  BY <1>3, <1>4
<1>9. Total(still) = left
  <2>1. IsFiniteSet(LotIds)
    BY LedgerAssumption
  <2> HIDE DEF r
  <2>2. Total(still) = Total(r.alloc) - Total(take)
    BY <1>2, <1>4, <2>1, TotalDifference
  <2> QED BY <1>2, <1>5, <2>2 DEF r
<1> HIDE DEF still, left
<1>10. /\ rest.side = "SELL" /\ rest.remaining_qty = left /\ rest.cash = 0
       /\ rest.alloc = still
       /\ left # 0 => rest \in Reservation
  BY <1>1, <1>2, <1>6, <1>8 DEF Reservation, Allocation
<1>11. \A l \in LotIds : left = 0 => still[l] = 0
  <2> SUFFICES ASSUME NEW l \in LotIds, left = 0 PROVE still[l] = 0
    OBVIOUS
  <2>1. IsFiniteSet(LotIds)
    BY LedgerAssumption
  <2>2. still[l] <= Total(still)
    BY <1>8, <2>1, TotalBoundsEntry
  <2>3. still[l] \in Nat
    BY <1>8
  <2> QED BY <1>9, <2>2, <2>3
<1> HIDE DEF r
<1>12. \A l \in DOMAIN lots :
         /\ l \in LotIds /\ lots[l] \in Lot
         /\ lots[l].qty \in Nat /\ lots[l].reserved_qty \in Nat /\ take[l] \in Nat
         /\ lots[l].reserved_qty = Lent(reservations, l)
         /\ take[l] <= lots[l].reserved_qty /\ lots[l].reserved_qty <= lots[l].qty
  BY <1>3, <1>4, LotType
<1>13. DOMAIN lots' \subseteq LotIds /\ lots' \in [DOMAIN lots' -> Lot]
  <2> DEFINE kept(l) == [lots[l] EXCEPT !.qty = @ - take[l], !.reserved_qty = @ - take[l]]
  <2>1. \A l \in DOMAIN lots : lots[l].qty > take[l] => kept(l) \in Lot
    <3> SUFFICES ASSUME NEW l \in DOMAIN lots, lots[l].qty > take[l]
                 PROVE  kept(l) \in Lot
      OBVIOUS
    <3>1. /\ lots[l].qty - take[l] \in Nat \ {0}
          /\ lots[l].reserved_qty - take[l] \in Nat
      BY <1>12
    <3>2. lots[l] \in Lot
      BY <1>12
    <3> QED BY <3>1, <3>2 DEF Lot
  <2> HIDE DEF kept
  <2>2. lots' = [l \in {l \in DOMAIN lots : lots[l].qty > take[l]} |-> kept(l)]
    BY <1>7 DEF kept
  <2> QED BY <1>12, <2>1, <2>2
<1>14. \A l \in LotIds :
         LET lent == Lent(reservations, l) - r.alloc[l] + rest.alloc[l]
         IN  IF l \in DOMAIN lots'
             THEN lots'[l].reserved_qty = lent /\ lent <= lots'[l].qty
             ELSE lent = 0
  <2> SUFFICES ASSUME NEW l \in LotIds
               PROVE  IF l \in DOMAIN lots'
                      THEN /\ lots'[l].reserved_qty = Lent(reservations, l) - take[l]
                           /\ Lent(reservations, l) - take[l] <= lots'[l].qty
                      ELSE Lent(reservations, l) - take[l] = 0
    <3>1. \A l \in LotIds :
            Lent(reservations, l) - r.alloc[l] + rest.alloc[l] = Lent(reservations, l) - take[l]
      BY <1>3, <1>4, <1>8, <1>10
    <3> QED BY <3>1
  <2>1. CASE l \in DOMAIN lots /\ lots[l].qty > take[l]
    <3>1. /\ l \in DOMAIN lots'
          /\ lots'[l].qty = lots[l].qty - take[l]
          /\ lots'[l].reserved_qty = lots[l].reserved_qty - take[l]
      BY <1>7, <1>12, <2>1 DEF Lot
    <3> QED BY <1>12, <2>1, <3>1
  <2>2. CASE l \in DOMAIN lots /\ ~(lots[l].qty > take[l])
    <3>1. l \notin DOMAIN lots'
      BY <1>7, <2>2
    <3> QED BY <1>12, <2>2, <3>1
  <2>3. CASE l \notin DOMAIN lots
    <3>1. l \notin DOMAIN lots'
      BY <1>7, <2>3
    <3>2. Lent(reservations, l) = 0
      BY <2>3, NoLotNoLoan
    <3>3. take[l] \in Nat /\ take[l] <= r.alloc[l] /\ r.alloc[l] \in Nat
          /\ r.alloc[l] <= Lent(reservations, l)
      BY <1>3, <1>4
    <3> QED BY <3>1, <3>2, <3>3
  <2> QED BY <2>1, <2>2, <2>3
<1> QED BY <1>0, <1>1, <1>9, <1>10, <1>11, <1>13, <1>14, FillStep DEF r

-----------------------------------------------------------------------------
(* The theorems. *)

\* What a working order owes for a fill is an amount.
LEMMA FeeDueType ==
  ASSUME LedgerIInv, NEW o \in DOMAIN reservations, NEW qty \in Quantities, NEW price \in Prices
  PROVE  FeeDue(o, price * qty) \in Nat
<1> DEFINE r == reservations[o]
           paid == order_totals[o].notional
           value == price * qty
<1>1. r \in Reservation /\ paid \in Nat
  BY ReservationType
<1>2. value \in Nat
  BY PricesAreNat, ProductType
<1>3. r.side \in Sides
  BY <1>1 DEF Reservation
<1> HIDE DEF value
<1>4. paid + value \in Nat /\ paid <= paid + value
  BY <1>1, <1>2
<1>5. FeeDelta(Model[r.side], paid, paid + value) \in Nat
  BY <1>1, <1>3, <1>4, ModelType, FeeDeltaNonnegative
<1> QED BY <1>5 DEF FeeDue, value

\* The proposal made for a working order is a FillProposal.
LEMMA ProposalType ==
  ASSUME LedgerIInv, NEW o \in DOMAIN reservations, NEW f \in FillIds, NEW qty \in Quantities,
         NEW price \in Prices, NEW fee \in Nat, NEW b \in BucketIds, NEW d \in Dates,
         NEW sellable \in Dates \cup {NoDate}, NEW version \in Nat
  PROVE  Proposal(o, f, qty, price, fee, b, d, sellable, version) \in FillProposal
<1>1. reservations[o] \in Reservation /\ o \in OrderIds
  BY ReservationType
<1> QED BY <1>1 DEF Proposal, FillProposal, Reservation

\* What __init__ sets up satisfies the invariant.
LEMMA InitEstablishes == LedgerInit => LedgerIInv
<1> SUFFICES ASSUME LedgerInit PROVE LedgerIInv
  OBVIOUS
<1>1. /\ cash \in Nat /\ DOMAIN lots \subseteq LotIds /\ lots \in [DOMAIN lots -> Lot]
      /\ \A l \in DOMAIN lots : lots[l].reserved_qty = 0
  BY LedgerAssumption DEF LedgerInit, ValidLots
<1>2. /\ DOMAIN reservations = {} /\ DOMAIN order_totals = {}
      /\ DOMAIN buckets = {} /\ DOMAIN applied_fills = {}
  BY DEF LedgerInit, Empty
<1>3. LedgerTypeOK
  <2>1. /\ reservations \in [DOMAIN reservations -> Reservation]
        /\ order_totals \in [DOMAIN order_totals -> OrderTotals]
        /\ buckets \in [DOMAIN buckets -> Bucket]
        /\ applied_fills \in [DOMAIN applied_fills -> FillApplied]
    BY <1>2 DEF LedgerInit, Empty
  <2> QED BY <1>1, <1>2, <2>1 DEF LedgerInit, LedgerTypeOK, RecordsAgree
<1>4. BuyReservationIsExact /\ SellRemainderIsBacked
  BY <1>2 DEF BuyReservationIsExact, SellRemainderIsBacked
<1>5. ReservedSharesAreLent
  <2>1. \A l \in LotIds : Total([o \in DOMAIN reservations |-> reservations[o].alloc[l]]) = 0
    <3> SUFFICES ASSUME NEW l \in LotIds
                 PROVE  Total([o \in DOMAIN reservations |-> reservations[o].alloc[l]]) = 0
      OBVIOUS
    <3>1. [o \in DOMAIN reservations |-> reservations[o].alloc[l]] \in [{} -> {0}]
      BY <1>2
    <3> QED BY <3>1, TotalZero
  <2>2. \A l \in DOMAIN lots : 0 <= lots[l].qty
    BY <1>1 DEF Lot
  <2> QED BY <1>1, <2>1, <2>2 DEF ReservedSharesAreLent
<1>6. FeesFollowNotional
  <2>1. [o \in DOMAIN order_totals |-> order_totals[o].fees_paid] \in [{} -> {0}]
    BY <1>2
  <2>2. Total([o \in DOMAIN order_totals |-> order_totals[o].fees_paid]) = 0
    BY <2>1, TotalZero
  <2> QED BY <1>2, <2>2 DEF LedgerInit, FeesFollowNotional
<1> QED BY <1>3, <1>4, <1>5, <1>6 DEF LedgerIInv

\* Every command preserves the invariant.
LEMMA NextPreserves == LedgerIInv /\ [LedgerNext]_ledgerVars => LedgerIInv'
<1> SUFFICES ASSUME LedgerIInv, [LedgerNext]_ledgerVars PROVE LedgerIInv'
  OBVIOUS
<1>1. ASSUME NEW o \in OrderIds, NEW symbol \in Symbols, NEW limit \in Prices,
             NEW qty \in Quantities, NEW size \in LotSizes,
             ReserveBuy(o, symbol, limit, qty, size)
      PROVE  LedgerIInv'
  BY <1>1, ReserveBuyStep
<1>2. ASSUME NEW o \in OrderIds, NEW symbol \in Symbols, NEW limit \in Prices,
             NEW qty \in Quantities, NEW size \in LotSizes, NEW d \in Dates,
             ReserveSell(o, symbol, limit, qty, size, d)
      PROVE  LedgerIInv'
  BY <1>2, ReserveSellStep
<1>3. ASSUME NEW o \in OrderIds, NEW side \in Sides, Release(o, side)
      PROVE  LedgerIInv'
  BY <1>3, ReleaseStep
<1>4. ASSUME NEW symbol \in Symbols, NEW b \in BucketIds, NEW d \in Dates,
             NEW size \in LotSizes, NEW capacity \in Capacities,
             RegisterBucket(symbol, b, d, size, capacity)
      PROVE  LedgerIInv'
  BY <1>4, RegisterBucketStep
<1>5. ASSUME NEW o \in DOMAIN reservations, NEW qty \in Quantities, NEW price \in Prices,
             NEW fee \in {FeeDue(o, price * qty)}, NEW f \in FillIds, NEW b \in BucketIds,
             NEW d \in Dates, NEW s \in Dates \cup {NoDate},
             NEW v \in {ledger_version, ledger_version - 1} \cap Nat,
             ApplyFill(Proposal(o, f, qty, price, fee, b, d, s, v))
      PROVE  LedgerIInv'
  <2>0. fee \in Nat
    BY FeeDueType
  <2>1. PICK p \in FillProposal : ApplyFill(p)
    BY <1>5, <2>0, ProposalType
  <2>2. p.side = "BUY" \/ p.side = "SELL"
    BY DEF FillProposal, Sides
  <2> QED BY <2>1, <2>2, BuyFillStep, SellFillStep
<1>6. CASE UNCHANGED ledgerVars
  BY <1>6 DEF ledgerVars, LedgerIInv, LedgerTypeOK, RecordsAgree, BuyReservationIsExact,
              ReservedSharesAreLent, SellRemainderIsBacked, FeesFollowNotional
<1> QED BY <1>1, <1>2, <1>3, <1>4, <1>5, <1>6 DEF LedgerNext

\* The inductive invariant: the shape of the snapshot and the agreement of its
\* parts, which every command of ledger.py that commits preserves.
THEOREM LedgerInvariant == LedgerSpec => []LedgerIInv
BY InitEstablishes, NextPreserves, PTL DEF LedgerSpec

\* The snapshot always has the shape types.py declares: no command can make
\* cash, a lot, a reservation or a bucket negative, or lose an order's records.
THEOREM LedgerTypeCorrect == LedgerSpec => []LedgerTypeOK
<1>1. LedgerIInv => LedgerTypeOK
  BY DEF LedgerIInv
<1> QED BY <1>1, LedgerInvariant, PTL

\* No share backs two orders and none stays locked: what a lot has reserved is
\* what the working orders hold of it (reserve_sell, release, _consume_sell).
THEOREM ReservedSharesAreAlwaysLent == LedgerSpec => []ReservedSharesAreLent
<1>1. LedgerIInv => ReservedSharesAreLent
  BY DEF LedgerIInv
<1> QED BY <1>1, LedgerInvariant, PTL

\* What an order and the account have paid in fees depends on notionals alone.
THEOREM FeesAlwaysFollowNotional == LedgerSpec => []FeesFollowNotional
<1>1. LedgerIInv => FeesFollowNotional
  BY DEF LedgerIInv
<1> QED BY <1>1, LedgerInvariant, PTL

\* A working order keeps exactly what its remainder may need, after any partial
\* fills: a BUY the worst case of the limit, a SELL lots for its remaining shares,
\* so the "insufficient reserved sellable qty" error of _consume_sell cannot arise.
THEOREM ReservationsAreAlwaysExact == LedgerSpec => []ReservationsAreExact
<1>1. LedgerIInv => ReservationsAreExact
  BY DEF LedgerIInv, ReservationsAreExact
<1> QED BY <1>1, LedgerInvariant, PTL

\* So a fill within the limit never exceeds its own reservation: the "BUY exceeds
\* its reserved cash" error of apply_fill cannot be raised for one, whatever the
\* rate, the floor and the (monotone) rounding of the fee model are.
THEOREM BuyFillIsAlwaysCovered == LedgerSpec => []BuyFillIsCovered
<1>1. LedgerIInv => BuyFillIsCovered
  <2> SUFFICES ASSUME LedgerIInv, NEW o \in DOMAIN reservations, reservations[o].side = "BUY",
                      NEW price \in Prices, NEW qty \in Quantities,
                      price <= reservations[o].limit, qty <= reservations[o].remaining_qty
               PROVE  price * qty
                        + FeeDelta(Model["BUY"], order_totals[o].notional,
                                   order_totals[o].notional + price * qty)
                        + BuyRequirement(order_totals[o].notional + price * qty,
                                         reservations[o].limit, reservations[o].remaining_qty - qty)
                      <= reservations[o].cash
    BY Zenon DEF BuyFillIsCovered
  <2>1. /\ order_totals[o].notional \in Nat /\ reservations[o].limit \in Nat
        /\ reservations[o].remaining_qty \in Nat /\ price \in Nat /\ qty \in Nat
    BY ReservationType, PricesAreNat
  <2>2. reservations[o].cash =
          BuyRequirement(order_totals[o].notional, reservations[o].limit,
                         reservations[o].remaining_qty)
    BY DEF LedgerIInv, BuyReservationIsExact
  <2> DEFINE paid == order_totals[o].notional
             r == reservations[o]
  <2>3. price * qty + FeeDelta(Model["BUY"], paid, paid + price * qty)
          + BuyRequirement(paid + price * qty, r.limit, r.remaining_qty - qty)
        <= BuyRequirement(paid, r.limit, r.remaining_qty)
    <3>1. paid \in Nat /\ r.limit \in Nat /\ r.remaining_qty \in Nat
          /\ price <= r.limit /\ qty <= r.remaining_qty
      BY <2>1
    <3> HIDE DEF paid, r
    <3> QED BY <2>1, <3>1, RequirementCoversFill, Zenon
  <2> QED BY <2>2, <2>3, Zenon
<1> QED BY <1>1, LedgerInvariant, PTL

-----------------------------------------------------------------------------
(* The history: replaying the applied fills from the start yields the      *)
(* cash, the shares and the capacity that are there, nothing in it is      *)
(* undone, and shares leave and are lent by date.  Each conservation law   *)
(* is a relation between a part of the snapshot and a history, stated over *)
(* values, so that what one more fill does to it is a law of sums; the     *)
(* commands then only have to show which values they publish.              *)


IsHistory(h) == DOMAIN h \subseteq FillIds /\ h \in [DOMAIN h -> FillApplied]

IsHolding(ls) == DOMAIN ls \subseteq LotIds /\ ls \in [DOMAIN ls -> Lot]

Value(p) == p.price * p.qty

FlowFills(h, side) == {f \in DOMAIN h : h[f].proposal.side = side}
TradeFills(h, side, symbol) ==
  {f \in DOMAIN h : h[f].proposal.side = side /\ h[f].proposal.symbol = symbol}
BucketFills(h, key) ==
  {f \in DOMAIN h : <<h[f].proposal.symbol, h[f].proposal.bucket_id>> = key}

Flow(h, side) == Total([f \in FlowFills(h, side) |-> Value(h[f].proposal)])
Traded(h, side, symbol) ==
  Total([f \in TradeFills(h, side, symbol) |-> h[f].proposal.qty])
Used(h, key) == Total([f \in BucketFills(h, key) |-> h[f].proposal.qty])

LotsIn(ls, symbol) == {l \in DOMAIN ls : ls[l].symbol = symbol}
Held(ls, symbol) == Total([l \in LotsIn(ls, symbol) |-> ls[l].qty])

CashAgrees(c, h, fees) ==
  \E start \in InitialCash : c = start + Flow(h, "SELL") - Flow(h, "BUY") - fees

SharesAgree(ls, h) ==
  \E start \in InitialLots : \A symbol \in Symbols :
    Held(ls, symbol)
      = Held(start, symbol) + Traded(h, "BUY", symbol) - Traded(h, "SELL", symbol)

CapacityAgrees(bs, h) ==
  \A key \in DOMAIN bs : Used(h, key) = bs[key].capacity - bs[key].remaining

LEMMA ConservationReads ==
  AccountIsConserved <=> /\ CashAgrees(cash, applied_fills, fees_paid)
                         /\ SharesAgree(lots, applied_fills)
                         /\ CapacityAgrees(buckets, applied_fills)
<1>1. CashIsConserved <=> CashAgrees(cash, applied_fills, fees_paid)
  BY DEF CashIsConserved, CashAgrees, Flow, FlowFills, Value, FillsOf, Notional
<1>2. SharesAreConserved <=> SharesAgree(lots, applied_fills)
  BY DEF SharesAreConserved, SharesAgree, Held, LotsIn, Traded, TradeFills, FillsOf
<1>3. BucketCapacityIsShared <=> CapacityAgrees(buckets, applied_fills)
  BY DEF BucketCapacityIsShared, CapacityAgrees, Used, BucketFills, FillsOf
<1> QED BY <1>1, <1>2, <1>3 DEF AccountIsConserved

-----------------------------------------------------------------------------
(* Sums over one more fill. *)

\* One entry more.
LEMMA TotalExtended ==
  ASSUME NEW S, IsFiniteSet(S), NEW T, NEW f, f \notin S, T = S \cup {f},
         NEW v \in [S -> Nat], NEW w \in [T -> Nat], \A x \in S : w[x] = v[x]
  PROVE  Total(w) = Total(v) + w[f]
<1>1. w = Put(v, f, w[f])
  BY DEF Put
<1>2. w[f] \in Nat
  OBVIOUS
<1> QED BY <1>1, <1>2, TotalPut

\* The amounts in a history.
LEMMA FillAmounts ==
  ASSUME NEW h, IsHistory(h), NEW f \in DOMAIN h
  PROVE  /\ h[f].proposal \in FillProposal /\ h[f].proposal.qty \in Nat
         /\ Value(h[f].proposal) \in Nat
<1>1. h[f].proposal \in FillProposal
  BY DEF IsHistory, FillApplied
<1>2. h[f].proposal.qty \in Nat /\ h[f].proposal.price \in Nat
  BY <1>1, PricesAreNat DEF FillProposal
<1>3. Value(h[f].proposal) \in Nat
  BY <1>2, ProductType DEF Value
<1> QED BY <1>1, <1>2, <1>3

LEMMA HistoryIsFinite ==
  ASSUME NEW h, IsHistory(h), NEW S, S \subseteq DOMAIN h
  PROVE  IsFiniteSet(S)
<1>1. IsFiniteSet(FillIds) /\ S \subseteq FillIds
  BY LedgerAssumption DEF IsHistory
<1> QED BY <1>1, FS_Subset

LEMMA FlowType ==
  ASSUME NEW h, IsHistory(h), NEW side
  PROVE  /\ [f \in FlowFills(h, side) |-> Value(h[f].proposal)] \in [FlowFills(h, side) -> Nat]
         /\ IsFiniteSet(FlowFills(h, side)) /\ Flow(h, side) \in Nat
<1>1. FlowFills(h, side) \subseteq DOMAIN h
  BY DEF FlowFills
<1>2. [f \in FlowFills(h, side) |-> Value(h[f].proposal)] \in [FlowFills(h, side) -> Nat]
  BY <1>1, FillAmounts
<1> QED BY <1>1, <1>2, HistoryIsFinite, TotalType DEF Flow

LEMMA TradedType ==
  ASSUME NEW h, IsHistory(h), NEW side, NEW symbol
  PROVE  /\ [f \in TradeFills(h, side, symbol) |-> h[f].proposal.qty]
              \in [TradeFills(h, side, symbol) -> Nat]
         /\ IsFiniteSet(TradeFills(h, side, symbol)) /\ Traded(h, side, symbol) \in Nat
<1>1. TradeFills(h, side, symbol) \subseteq DOMAIN h
  BY DEF TradeFills
<1>2. [f \in TradeFills(h, side, symbol) |-> h[f].proposal.qty]
         \in [TradeFills(h, side, symbol) -> Nat]
  BY <1>1, FillAmounts
<1> QED BY <1>1, <1>2, HistoryIsFinite, TotalType DEF Traded

LEMMA UsedType ==
  ASSUME NEW h, IsHistory(h), NEW key
  PROVE  /\ [f \in BucketFills(h, key) |-> h[f].proposal.qty] \in [BucketFills(h, key) -> Nat]
         /\ IsFiniteSet(BucketFills(h, key)) /\ Used(h, key) \in Nat
<1>1. BucketFills(h, key) \subseteq DOMAIN h
  BY DEF BucketFills
<1>2. [f \in BucketFills(h, key) |-> h[f].proposal.qty] \in [BucketFills(h, key) -> Nat]
  BY <1>1, FillAmounts
<1> QED BY <1>1, <1>2, HistoryIsFinite, TotalType DEF Used

\* The history with one more fill is one.
LEMMA HistoryGrows ==
  \A h : IsHistory(h) =>
    \A f \in FillIds \ DOMAIN h : \A e \in FillApplied :
      /\ IsHistory(Put(h, f, e)) /\ DOMAIN Put(h, f, e) = DOMAIN h \cup {f}
      /\ Put(h, f, e)[f] = e
      /\ \A x \in DOMAIN h : Put(h, f, e)[x] = h[x] /\ x # f
BY DEF IsHistory, Put

LEMMA FlowGrows ==
  ASSUME NEW h, IsHistory(h), NEW f \in FillIds, f \notin DOMAIN h, NEW e \in FillApplied,
         NEW g, g = Put(h, f, e), NEW side
  PROVE  Flow(g, side) = IF e.proposal.side = side
                         THEN Flow(h, side) + Value(e.proposal) ELSE Flow(h, side)
<1>1. /\ IsHistory(g) /\ DOMAIN g = DOMAIN h \cup {f} /\ g[f] = e
      /\ \A x \in DOMAIN h : g[x] = h[x] /\ x # f
  BY HistoryGrows
<1> DEFINE v == [x \in FlowFills(h, side) |-> Value(h[x].proposal)]
           w == [x \in FlowFills(g, side) |-> Value(g[x].proposal)]
<1>2. /\ v \in [FlowFills(h, side) -> Nat] /\ w \in [FlowFills(g, side) -> Nat]
      /\ IsFiniteSet(FlowFills(h, side))
  BY <1>1, FlowType
<1>3. Flow(h, side) = Total(v) /\ Flow(g, side) = Total(w)
  BY DEF Flow
<1>4. CASE e.proposal.side = side
  <2>1. FlowFills(g, side) = FlowFills(h, side) \cup {f} /\ f \notin FlowFills(h, side)
    BY <1>1, <1>4 DEF FlowFills
  <2>2. w[f] = Value(e.proposal) /\ \A x \in FlowFills(h, side) : w[x] = v[x]
    BY <1>1, <2>1 DEF FlowFills
  <2> HIDE DEF v, w
  <2> QED BY <1>2, <1>3, <1>4, <2>1, <2>2, TotalExtended
<1>5. CASE e.proposal.side # side
  <2>1. FlowFills(g, side) = FlowFills(h, side)
    BY <1>1, <1>5 DEF FlowFills
  <2>2. v = w
    BY <1>1, <2>1 DEF FlowFills
  <2> HIDE DEF v, w
  <2> QED BY <1>3, <1>5, <2>2
<1> QED BY <1>4, <1>5

LEMMA TradedGrows ==
  ASSUME NEW h, IsHistory(h), NEW f \in FillIds, f \notin DOMAIN h, NEW e \in FillApplied,
         NEW g, g = Put(h, f, e), NEW side, NEW symbol
  PROVE  Traded(g, side, symbol) = IF e.proposal.side = side /\ e.proposal.symbol = symbol
                                   THEN Traded(h, side, symbol) + e.proposal.qty
                                   ELSE Traded(h, side, symbol)
<1>1. /\ IsHistory(g) /\ DOMAIN g = DOMAIN h \cup {f} /\ g[f] = e
      /\ \A x \in DOMAIN h : g[x] = h[x] /\ x # f
  BY HistoryGrows
<1> DEFINE S == TradeFills(h, side, symbol)
           T == TradeFills(g, side, symbol)
           v == [x \in S |-> h[x].proposal.qty]
           w == [x \in T |-> g[x].proposal.qty]
<1>2. v \in [S -> Nat] /\ w \in [T -> Nat] /\ IsFiniteSet(S)
  BY <1>1, TradedType
<1>3. Traded(h, side, symbol) = Total(v) /\ Traded(g, side, symbol) = Total(w)
  BY DEF Traded
<1>4. CASE e.proposal.side = side /\ e.proposal.symbol = symbol
  <2>1. T = S \cup {f} /\ f \notin S
    BY <1>1, <1>4 DEF TradeFills
  <2>2. w[f] = e.proposal.qty /\ \A x \in S : w[x] = v[x]
    BY <1>1, <2>1 DEF TradeFills
  <2> HIDE DEF v, w, S, T
  <2> QED BY <1>2, <1>3, <1>4, <2>1, <2>2, TotalExtended
<1>5. CASE ~(e.proposal.side = side /\ e.proposal.symbol = symbol)
  <2>1. T = S
    BY <1>1, <1>5 DEF TradeFills
  <2>2. v = w
    BY <1>1, <2>1 DEF TradeFills
  <2> HIDE DEF v, w
  <2> QED BY <1>3, <1>5, <2>2
<1> QED BY <1>4, <1>5

LEMMA UsedGrows ==
  ASSUME NEW h, IsHistory(h), NEW f \in FillIds, f \notin DOMAIN h, NEW e \in FillApplied,
         NEW g, g = Put(h, f, e), NEW key
  PROVE  Used(g, key) = IF <<e.proposal.symbol, e.proposal.bucket_id>> = key
                        THEN Used(h, key) + e.proposal.qty ELSE Used(h, key)
<1>1. /\ IsHistory(g) /\ DOMAIN g = DOMAIN h \cup {f} /\ g[f] = e
      /\ \A x \in DOMAIN h : g[x] = h[x] /\ x # f
  BY HistoryGrows
<1> DEFINE S == BucketFills(h, key)
           T == BucketFills(g, key)
           v == [x \in S |-> h[x].proposal.qty]
           w == [x \in T |-> g[x].proposal.qty]
<1>2. v \in [S -> Nat] /\ w \in [T -> Nat] /\ IsFiniteSet(S)
  BY <1>1, UsedType
<1>3. Used(h, key) = Total(v) /\ Used(g, key) = Total(w)
  BY DEF Used
<1>4. CASE <<e.proposal.symbol, e.proposal.bucket_id>> = key
  <2>1. T = S \cup {f} /\ f \notin S
    BY <1>1, <1>4 DEF BucketFills
  <2>2. w[f] = e.proposal.qty /\ \A x \in S : w[x] = v[x]
    BY <1>1, <2>1 DEF BucketFills
  <2> HIDE DEF v, w, S, T
  <2>3. Total(w) = Total(v) + w[f]
    BY <1>2, <2>1, <2>2, TotalExtended
  <2> QED BY <1>3, <1>4, <2>2, <2>3
<1>5. CASE <<e.proposal.symbol, e.proposal.bucket_id>> # key
  <2>1. T = S
    BY <1>1, <1>5 DEF BucketFills
  <2>2. v = w
    BY <1>1, <2>1 DEF BucketFills
  <2> HIDE DEF v, w
  <2> QED BY <1>3, <1>5, <2>2
<1> QED BY <1>4, <1>5


-----------------------------------------------------------------------------
(* What one more fill does to each conservation law. *)

\* The entry of a fill.
LEMMA EntryType ==
  ASSUME NEW e \in FillApplied
  PROVE  /\ e.proposal.side \in Sides /\ e.proposal.qty \in Nat \ {0}
         /\ Value(e.proposal) \in Nat /\ e.proposal.fee_delta \in Nat
         /\ e.proposal.side = "BUY" \/ e.proposal.side = "SELL"
<1>1. e.proposal \in FillProposal
  BY DEF FillApplied
<1>2. e.proposal.qty \in Nat \ {0} /\ e.proposal.price \in Nat
  BY <1>1, PricesAreNat DEF FillProposal
<1>3. Value(e.proposal) \in Nat
  BY <1>2, ProductType DEF Value
<1> QED BY <1>1, <1>2, <1>3 DEF FillProposal, Sides

LEMMA CashMoves ==
  ASSUME NEW c \in Int, NEW fees \in Nat, NEW h, IsHistory(h), CashAgrees(c, h, fees),
         NEW f \in FillIds \ DOMAIN h, NEW e \in FillApplied,
         NEW d, d = e.proposal.fee_delta, NEW v, v = Value(e.proposal)
  PROVE  CashAgrees(IF e.proposal.side = "BUY" THEN c - (v + d) ELSE c + v - d,
                    Put(h, f, e), fees + d)
<1> DEFINE g == Put(h, f, e)
           sells == Flow(h, "SELL")
           buys == Flow(h, "BUY")
<1>1. sells \in Nat /\ buys \in Nat
  BY FlowType
<1>2. v \in Nat /\ d \in Nat /\ (e.proposal.side = "BUY" \/ e.proposal.side = "SELL")
  BY EntryType
<1>3. /\ Flow(g, "SELL") = IF e.proposal.side = "SELL" THEN sells + v ELSE sells
      /\ Flow(g, "BUY") = IF e.proposal.side = "BUY" THEN buys + v ELSE buys
  BY FlowGrows
<1>4. PICK start \in InitialCash : c = start + sells - buys - fees
  BY DEF CashAgrees
<1>5. start \in Nat
  BY LedgerAssumption
<1> HIDE DEF sells, buys, g
<1>6. CASE e.proposal.side = "BUY"
  <2>1. c - (v + d) = start + sells - (buys + v) - (fees + d)
    BY <1>1, <1>2, <1>4, <1>5
  <2> QED BY <1>3, <1>6, <2>1 DEF CashAgrees, g
<1>7. CASE e.proposal.side = "SELL"
  <2>1. c + v - d = start + (sells + v) - buys - (fees + d)
    BY <1>1, <1>2, <1>4, <1>5
  <2> QED BY <1>3, <1>7, <2>1 DEF CashAgrees, g
<1> QED BY <1>2, <1>6, <1>7

\* The shares of a symbol.
LEMMA HeldType ==
  ASSUME NEW ls, IsHolding(ls), NEW symbol
  PROVE  /\ [l \in LotsIn(ls, symbol) |-> ls[l].qty] \in [LotsIn(ls, symbol) -> Nat]
         /\ IsFiniteSet(LotsIn(ls, symbol)) /\ Held(ls, symbol) \in Nat
<1>1. LotsIn(ls, symbol) \subseteq DOMAIN ls /\ DOMAIN ls \subseteq LotIds
  BY DEF LotsIn, IsHolding
<1>2. IsFiniteSet(LotsIn(ls, symbol))
  BY <1>1, LedgerAssumption, FS_Subset
<1>3. [l \in LotsIn(ls, symbol) |-> ls[l].qty] \in [LotsIn(ls, symbol) -> Nat]
  BY <1>1 DEF IsHolding, Lot
<1> QED BY <1>2, <1>3, TotalType DEF Held

\* Lots that only lend differently hold the same.
LEMMA HeldSame ==
  ASSUME NEW ls, NEW ms, DOMAIN ms = DOMAIN ls,
         \A l \in DOMAIN ls : ms[l].symbol = ls[l].symbol /\ ms[l].qty = ls[l].qty,
         NEW symbol
  PROVE  Held(ms, symbol) = Held(ls, symbol)
<1>1. LotsIn(ms, symbol) = LotsIn(ls, symbol)
  BY DEF LotsIn
<1>2. [l \in LotsIn(ms, symbol) |-> ms[l].qty] = [l \in LotsIn(ls, symbol) |-> ls[l].qty]
  BY <1>1 DEF LotsIn
<1> QED BY <1>2 DEF Held

LEMMA HeldAfterPurchase ==
  ASSUME NEW ls, IsHolding(ls), NEW k \in LotIds \ DOMAIN ls, NEW lot \in Lot, NEW symbol
  PROVE  Held(Put(ls, k, lot), symbol)
           = IF lot.symbol = symbol THEN Held(ls, symbol) + lot.qty ELSE Held(ls, symbol)
<1> DEFINE ms == Put(ls, k, lot)
           S == LotsIn(ls, symbol)
           T == LotsIn(ms, symbol)
           v == [l \in S |-> ls[l].qty]
           w == [l \in T |-> ms[l].qty]
<1>1. /\ DOMAIN ms = DOMAIN ls \cup {k} /\ ms[k] = lot
      /\ \A l \in DOMAIN ls : ms[l] = ls[l] /\ l # k
  BY DEF Put
<1> HIDE DEF ms
<1>2. IsHolding(ms)
  <2>1. ms \in [DOMAIN ms -> Lot]
    BY <1>1 DEF IsHolding, ms, Put
  <2> QED BY <1>1, <2>1 DEF IsHolding
<1>3. v \in [S -> Nat] /\ w \in [T -> Nat] /\ IsFiniteSet(S)
  BY <1>2, HeldType
<1>4. Held(ls, symbol) = Total(v) /\ Held(ms, symbol) = Total(w)
  BY DEF Held
<1>5. CASE lot.symbol = symbol
  <2>1. T = S \cup {k} /\ k \notin S
    BY <1>1, <1>5 DEF LotsIn
  <2>2. w[k] = lot.qty /\ \A l \in S : w[l] = v[l]
    BY <1>1, <2>1 DEF LotsIn
  <2> HIDE DEF v, w, S, T
  <2>3. Total(w) = Total(v) + w[k]
    BY <1>3, <2>1, <2>2, TotalExtended
  <2> QED BY <1>4, <1>5, <2>2, <2>3 DEF ms
<1>6. CASE lot.symbol # symbol
  <2>1. T = S
    BY <1>1, <1>6 DEF LotsIn
  <2>2. v = w
    BY <1>1, <2>1 DEF LotsIn
  <2> HIDE DEF v, w, S, T
  <2> QED BY <1>4, <1>6, <2>2 DEF ms
<1> QED BY <1>5, <1>6

\* Entries of zero add nothing.
LEMMA TotalOfSupport ==
  ASSUME NEW D, NEW f \in [D -> Nat], NEW S, S \subseteq D, \A x \in D \ S : f[x] = 0
  PROVE  Total([x \in S |-> f[x]]) = Total(f)
<1> DEFINE g == [x \in S |-> f[x]]
<1>1. Units(f) \subseteq Units(g)
  <2> SUFFICES ASSUME NEW x \in D, NEW u \in {x} \X (1 .. f[x])
               PROVE  u \in Units(g)
    BY DEF Units
  <2>1. f[x] # 0
    OBVIOUS
  <2>2. x \in S /\ g[x] = f[x]
    BY <2>1
  <2> QED BY <2>2 DEF Units
<1>2. Units(g) \subseteq Units(f)
  BY DEF Units
<1>3. Units(g) = Units(f)
  BY <1>1, <1>2
<1> QED BY <1>3 DEF Total

LEMMA HeldAfterSale ==
  ASSUME NEW ls, IsHolding(ls), NEW take \in [LotIds -> Nat], NEW traded \in Symbols,
         \A l \in LotIds : take[l] # 0 =>
           l \in DOMAIN ls /\ ls[l].symbol = traded /\ take[l] <= ls[l].qty,
         NEW ms, DOMAIN ms = {l \in DOMAIN ls : ls[l].qty > take[l]},
         \A l \in DOMAIN ms : ms[l].symbol = ls[l].symbol /\ ms[l].qty = ls[l].qty - take[l],
         NEW symbol
  PROVE  /\ traded = symbol => Held(ms, symbol) = Held(ls, symbol) - Total(take)
         /\ traded # symbol => Held(ms, symbol) = Held(ls, symbol)
<1> DEFINE S == LotsIn(ls, symbol)
           T == LotsIn(ms, symbol)
           v == [l \in S |-> ls[l].qty]
           t == [l \in S |-> take[l]]
           w == [l \in S |-> v[l] - t[l]]
<1>1. v \in [S -> Nat] /\ IsFiniteSet(S) /\ Held(ls, symbol) = Total(v)
  BY HeldType DEF Held
<1>2. S \subseteq DOMAIN ls /\ S \subseteq LotIds
  BY DEF LotsIn, IsHolding
<1>3. t \in [S -> Nat] /\ \A l \in S : t[l] <= v[l]
  BY <1>1, <1>2
<1>4. w \in [S -> Nat]
  BY <1>1, <1>3
<1>5. Total(w) = Total(v) - Total(t)
  <2> HIDE DEF v, t, S
  <2> QED BY <1>1, <1>3, TotalDifference
<1>6. T \subseteq S /\ \A l \in S \ T : w[l] = 0
  <2>1. T \subseteq S
    BY DEF LotsIn
  <2>2. \A l \in S \ T : ~(ls[l].qty > take[l])
    BY DEF LotsIn
  <2>3. \A l \in S \ T : w[l] = 0
    BY <1>1, <1>2, <1>3, <2>2
  <2> QED BY <2>1, <2>3
<1>7. Held(ms, symbol) = Total([l \in T |-> w[l]])
  <2>1. [l \in T |-> ms[l].qty] = [l \in T |-> w[l]]
    BY <1>6 DEF LotsIn
  <2> QED BY <2>1 DEF Held
<1>8. Held(ms, symbol) = Total(w)
  <2> HIDE DEF w, S, T
  <2> QED BY <1>4, <1>6, <1>7, TotalOfSupport
<1>9. CASE traded = symbol
  <2>1. \A l \in LotIds \ S : take[l] = 0
    BY <1>9 DEF LotsIn
  <2>2. Total(t) = Total(take)
    <3> HIDE DEF S
    <3> QED BY <1>2, <2>1, TotalOfSupport
  <2> HIDE DEF v, t, w
  <2> QED BY <1>1, <1>5, <1>8, <1>9, <2>2
<1>10. CASE traded # symbol
  <2>1. \A l \in S : t[l] = 0
    BY <1>2, <1>10 DEF LotsIn
  <2>2. t \in [S -> {0}]
    BY <2>1
  <2> HIDE DEF v, t, w
  <2>3. Total(t) = 0 /\ Total(v) \in Nat
    BY <1>1, <2>2, TotalZero, TotalType
  <2> QED BY <1>1, <1>5, <1>8, <1>10, <2>3
<1> QED BY <1>9, <1>10

LEMMA StartsAreHoldings ==
  ASSUME NEW ls \in InitialLots
  PROVE  IsHolding(ls)
BY LedgerAssumption DEF ValidLots, IsHolding

\* A purchase or a sale of one symbol moves what is held and what was traded alike.
LEMMA SharesMove ==
  ASSUME NEW ls, IsHolding(ls), NEW h, IsHistory(h), SharesAgree(ls, h),
         NEW f \in FillIds \ DOMAIN h, NEW e \in FillApplied, NEW ms,
         \A symbol \in Symbols :
           Held(ms, symbol)
             = IF e.proposal.symbol # symbol THEN Held(ls, symbol)
               ELSE IF e.proposal.side = "BUY" THEN Held(ls, symbol) + e.proposal.qty
               ELSE Held(ls, symbol) - e.proposal.qty
  PROVE  SharesAgree(ms, Put(h, f, e))
<1>1. PICK start \in InitialLots : \A symbol \in Symbols :
        Held(ls, symbol)
          = Held(start, symbol) + Traded(h, "BUY", symbol) - Traded(h, "SELL", symbol)
  BY DEF SharesAgree
<1>2. ASSUME NEW symbol \in Symbols
      PROVE  Held(ms, symbol)
               = Held(start, symbol) + Traded(Put(h, f, e), "BUY", symbol)
                   - Traded(Put(h, f, e), "SELL", symbol)
  <2>1. /\ Held(start, symbol) \in Nat /\ Held(ls, symbol) \in Nat
        /\ Traded(h, "BUY", symbol) \in Nat /\ Traded(h, "SELL", symbol) \in Nat
    BY StartsAreHoldings, HeldType, TradedType
  <2>2. /\ e.proposal.qty \in Nat
        /\ e.proposal.side = "BUY" \/ e.proposal.side = "SELL"
    BY EntryType
  <2>3. /\ Traded(Put(h, f, e), "BUY", symbol)
             = IF e.proposal.side = "BUY" /\ e.proposal.symbol = symbol
               THEN Traded(h, "BUY", symbol) + e.proposal.qty ELSE Traded(h, "BUY", symbol)
        /\ Traded(Put(h, f, e), "SELL", symbol)
             = IF e.proposal.side = "SELL" /\ e.proposal.symbol = symbol
               THEN Traded(h, "SELL", symbol) + e.proposal.qty ELSE Traded(h, "SELL", symbol)
    BY TradedGrows
  <2> QED BY <1>1, <2>1, <2>2, <2>3
<1> QED BY <1>2 DEF SharesAgree

LEMMA CapacityMoves ==
  ASSUME NEW bs, bs \in [DOMAIN bs -> Bucket], NEW h, IsHistory(h), CapacityAgrees(bs, h),
         NEW f \in FillIds \ DOMAIN h, NEW e \in FillApplied,
         NEW key, key = <<e.proposal.symbol, e.proposal.bucket_id>>, key \in DOMAIN bs
  PROVE  CapacityAgrees([bs EXCEPT ![key].remaining = @ - e.proposal.qty], Put(h, f, e))
<1> DEFINE cs == [bs EXCEPT ![key].remaining = @ - e.proposal.qty]
<1>1. e.proposal.qty \in Nat
  BY EntryType
<1>2. \A k \in DOMAIN bs : bs[k].capacity \in Nat /\ bs[k].remaining \in Nat /\ bs[k] \in Bucket
  BY LedgerAssumption DEF Bucket
<1>3. /\ DOMAIN cs = DOMAIN bs
      /\ \A k \in DOMAIN bs : k # key => cs[k] = bs[k]
  OBVIOUS
<1>4. cs[key].capacity = bs[key].capacity
      /\ cs[key].remaining = bs[key].remaining - e.proposal.qty
  BY <1>2 DEF Bucket
<1> HIDE DEF cs
<1>5. ASSUME NEW k \in DOMAIN bs
      PROVE  Used(Put(h, f, e), k) = cs[k].capacity - cs[k].remaining
  <2>1. Used(h, k) = bs[k].capacity - bs[k].remaining /\ Used(h, k) \in Nat
    BY UsedType DEF CapacityAgrees
  <2>2. Used(Put(h, f, e), k) = IF key = k THEN Used(h, k) + e.proposal.qty ELSE Used(h, k)
    BY UsedGrows
  <2>3. CASE k = key
    BY <1>1, <1>2, <1>4, <2>1, <2>2, <2>3
  <2>4. CASE k # key
    BY <1>3, <2>1, <2>2, <2>4
  <2> QED BY <2>3, <2>4
<1> QED BY <1>3, <1>5 DEF CapacityAgrees, cs

\* A bucket nothing has traded in can be installed.
LEMMA CapacityStarts ==
  ASSUME NEW bs, NEW h, CapacityAgrees(bs, h), NEW key, NEW b, b.capacity \in Nat,
         b.remaining = b.capacity,
         \A f \in DOMAIN h : <<h[f].proposal.symbol, h[f].proposal.bucket_id>> # key
  PROVE  CapacityAgrees(Put(bs, key, b), h)
<1>1. Used(h, key) = 0
  <2>1. BucketFills(h, key) = {}
    BY DEF BucketFills
  <2>2. [f \in BucketFills(h, key) |-> h[f].proposal.qty] \in [BucketFills(h, key) -> {0}]
    BY <2>1
  <2> QED BY <2>2, TotalZero DEF Used
<1> QED BY <1>1 DEF CapacityAgrees, Put


-----------------------------------------------------------------------------
(* The invariant: the laws, and what their steps rest on.  A bucket that is *)
(* installed has traded nothing yet because every fill's bucket is known;   *)
(* a sale leaves only lots of its own symbol because an order borrows only  *)
(* those.                                                                   *)

FillsAreBooked ==
  \A f \in DOMAIN applied_fills :
    <<applied_fills[f].proposal.symbol, applied_fills[f].proposal.bucket_id>> \in DOMAIN buckets

LoansMatchSymbol ==
  \A o \in DOMAIN reservations : \A l \in DOMAIN lots :
    reservations[o].alloc[l] > 0 => lots[l].symbol = reservations[o].symbol

HistoryIInv == LedgerIInv /\ AccountIsConserved /\ FillsAreBooked /\ LoansMatchSymbol

LEMMA ConservationReadsNext ==
  AccountIsConserved' <=> /\ CashAgrees(cash', applied_fills', fees_paid')
                          /\ SharesAgree(lots', applied_fills')
                          /\ CapacityAgrees(buckets', applied_fills')
<1>1. CashIsConserved' <=> CashAgrees(cash', applied_fills', fees_paid')
  BY DEF CashIsConserved, CashAgrees, Flow, FlowFills, Value, FillsOf, Notional
<1>2. SharesAreConserved' <=> SharesAgree(lots', applied_fills')
  BY DEF SharesAreConserved, SharesAgree, Held, LotsIn, Traded, TradeFills, FillsOf
<1>3. BucketCapacityIsShared' <=> CapacityAgrees(buckets', applied_fills')
  BY DEF BucketCapacityIsShared, CapacityAgrees, Used, BucketFills, FillsOf
<1> QED BY <1>1, <1>2, <1>3 DEF AccountIsConserved

\* The invariant's values, in the terms of the laws.
LEMMA HistoryTypes ==
  ASSUME HistoryIInv
  PROVE  /\ LedgerIInv /\ IsHistory(applied_fills) /\ IsHolding(lots)
         /\ buckets \in [DOMAIN buckets -> Bucket]
         /\ CashAgrees(cash, applied_fills, fees_paid)
         /\ SharesAgree(lots, applied_fills) /\ CapacityAgrees(buckets, applied_fills)
         /\ FillsAreBooked /\ LoansMatchSymbol
<1>1. /\ LedgerIInv /\ LedgerTypeOK /\ AccountIsConserved
      /\ FillsAreBooked /\ LoansMatchSymbol
  BY DEF HistoryIInv, LedgerIInv
<1>2. IsHistory(applied_fills) /\ IsHolding(lots) /\ buckets \in [DOMAIN buckets -> Bucket]
  BY <1>1 DEF LedgerTypeOK, IsHistory, IsHolding
<1> QED BY <1>1, <1>2, ConservationReads

\* A lot the account does not hold is lent to nobody.
LEMMA LoansAreOfLots ==
  ASSUME LedgerIInv, NEW o \in DOMAIN reservations, NEW l \in LotIds \ DOMAIN lots
  PROVE  reservations[o].alloc[l] = 0
<1>1. Lent(reservations, l) = 0
  BY NoLotNoLoan
<1>2. reservations[o].alloc[l] <= Lent(reservations, l) /\ reservations[o].alloc[l] \in Nat
  BY InvariantTypes, LentBounds, AllocType
<1> QED BY <1>1, <1>2

-----------------------------------------------------------------------------
(* The commands that trade nothing. *)

\* Without a fill, only what is lent and which buckets are known may change.
LEMMA QuietStep ==
  ASSUME HistoryIInv, LedgerIInv', UNCHANGED <<cash, fees_paid, applied_fills>>,
         DOMAIN lots' = DOMAIN lots,
         \A l \in DOMAIN lots : lots'[l].symbol = lots[l].symbol /\ lots'[l].qty = lots[l].qty,
         CapacityAgrees(buckets', applied_fills), DOMAIN buckets \subseteq DOMAIN buckets',
         LoansMatchSymbol'
  PROVE  HistoryIInv'
<1>1. CashAgrees(cash', applied_fills', fees_paid')
  BY HistoryTypes
<1>2. \A symbol : Held(lots', symbol) = Held(lots, symbol)
  BY HeldSame
<1>3. SharesAgree(lots', applied_fills')
  BY <1>2, HistoryTypes DEF SharesAgree
<1>4. FillsAreBooked'
  BY HistoryTypes DEF FillsAreBooked
<1> QED BY <1>1, <1>3, <1>4, ConservationReadsNext DEF HistoryIInv

\* Loans stay within a symbol when they shrink and lots keep theirs.
LEMMA LoansShrink ==
  ASSUME LoansMatchSymbol, DOMAIN reservations' \subseteq DOMAIN reservations,
         DOMAIN lots' \subseteq DOMAIN lots,
         \A l \in DOMAIN lots' : lots'[l].symbol = lots[l].symbol,
         \A o \in DOMAIN reservations' :
           /\ reservations'[o].symbol = reservations[o].symbol
           /\ \A l \in DOMAIN lots' :
                reservations'[o].alloc[l] > 0 => reservations[o].alloc[l] > 0
  PROVE  LoansMatchSymbol'
BY DEF LoansMatchSymbol

\* The lots a reservation leaves behind.
LEMMA LotsOnlyLend ==
  ASSUME LedgerIInv, NEW loan \in [LotIds -> Int],
         \/ lots' = lots
         \/ lots' = [l \in DOMAIN lots |-> [lots[l] EXCEPT !.reserved_qty = @ + loan[l]]]
         \/ lots' = [l \in DOMAIN lots |-> [lots[l] EXCEPT !.reserved_qty = @ - loan[l]]]
  PROVE  /\ DOMAIN lots' = DOMAIN lots
         /\ \A l \in DOMAIN lots : /\ lots'[l].symbol = lots[l].symbol
                                   /\ lots'[l].qty = lots[l].qty
BY LotType DEF Lot

\* A rejection keeps the history.
LEMMA RejectKeepsHistory ==
  ASSUME HistoryIInv, NEW o \in OrderIds, Reject(o)
  PROVE  HistoryIInv'
<1>1. /\ UNCHANGED <<cash, fees_paid, applied_fills, lots, buckets, reservations>>
  BY DEF Reject, Commit
<1>2. LedgerIInv'
  BY HistoryTypes, RejectStep
<1>3. LoansMatchSymbol'
  BY <1>1, HistoryTypes DEF LoansMatchSymbol
<1> QED BY <1>1, <1>2, <1>3, HistoryTypes, QuietStep

\* A reservation borrows from lots of its own symbol.
LEMMA ReserveKeepsHistory ==
  ASSUME HistoryIInv, LedgerIInv', NEW o \in OrderIds, NewId(o), NEW r, Reserve(o, r),
         r.alloc \in [LotIds -> Nat],
         \A l \in DOMAIN lots : r.alloc[l] > 0 => lots[l].symbol = r.symbol,
         \/ lots' = lots
         \/ lots' = [l \in DOMAIN lots |-> [lots[l] EXCEPT !.reserved_qty = @ + r.alloc[l]]]
  PROVE  HistoryIInv'
<1>1. /\ UNCHANGED <<cash, fees_paid, applied_fills, buckets>>
      /\ reservations' = Put(reservations, o, r)
  BY DEF Reserve, Commit
<1>2. /\ DOMAIN lots' = DOMAIN lots
      /\ \A l \in DOMAIN lots : lots'[l].symbol = lots[l].symbol /\ lots'[l].qty = lots[l].qty
  <2> DEFINE loan == r.alloc
  <2>1. loan \in [LotIds -> Int]
    OBVIOUS
  <2>2. \/ lots' = lots
        \/ lots' = [l \in DOMAIN lots |-> [lots[l] EXCEPT !.reserved_qty = @ + loan[l]]]
    OBVIOUS
  <2> HIDE DEF loan
  <2> QED BY <2>1, <2>2, HistoryTypes, LotsOnlyLend
<1>3. LoansMatchSymbol'
  BY <1>1, <1>2, HistoryTypes DEF LoansMatchSymbol, Put
<1> QED BY <1>1, <1>2, <1>3, HistoryTypes, QuietStep

\* reserve_buy keeps the history.
LEMMA ReserveBuyKeepsHistory ==
  ASSUME HistoryIInv, NEW o \in OrderIds, NEW symbol \in Symbols, NEW limit \in Prices,
         NEW qty \in Quantities, NEW size \in LotSizes,
         ReserveBuy(o, symbol, limit, qty, size)
  PROVE  HistoryIInv'
<1> DEFINE r == [symbol |-> symbol, side |-> "BUY", limit |-> limit, remaining_qty |-> qty,
                 lot_size |-> size, cash |-> BuyRequirement(0, limit, qty),
                 alloc |-> NoAllocation]
<1>1. CASE Reject(o)
  BY <1>1, RejectKeepsHistory
<1>2. CASE UNCHANGED lots /\ Reserve(o, r)
  <2>1. LedgerIInv' /\ NewId(o)
    BY HistoryTypes, ReserveBuyStep DEF ReserveBuy, NewOrder
  <2>2. r.alloc \in [LotIds -> Nat] /\ \A l \in LotIds : r.alloc[l] = 0
    BY NoAllocationType DEF Allocation
  <2>3. DOMAIN lots \subseteq LotIds
    BY HistoryTypes DEF IsHolding
  <2>4. \A l \in DOMAIN lots : r.alloc[l] > 0 => lots[l].symbol = r.symbol
    BY <2>2, <2>3
  <2> HIDE DEF r
  <2> QED BY <1>2, <2>1, <2>2, <2>4, ReserveKeepsHistory
<1> QED BY <1>1, <1>2 DEF ReserveBuy

\* What a SELL order draws, and how little of each lot.
LEMMA SaleDraws ==
  ASSUME LedgerIInv, NEW symbol, NEW date, NEW qty \in Quantities,
         NEW sellable, sellable = SellableLots(symbol, date),
         NEW take, take = FifoTake(sellable, qty)
  PROVE  /\ Offers(sellable) /\ qty \in Nat
         /\ take \in [LotIds -> Nat] /\ \A l \in LotIds : take[l] <= sellable[l]
         /\ \A l \in LotIds : take[l] > 0 =>
              l \in DOMAIN lots /\ lots[l].symbol = symbol /\ lots[l].sellable_date <= date
<1>1. qty \in Nat
  BY PricesAreNat
<1>2. Offers(sellable)
  BY SellableIsOffered
<1>3. take \in [LotIds -> Nat] /\ \A l \in LotIds : take[l] <= sellable[l]
  BY <1>1, <1>2, FifoTakeIsPart
<1>4. \A l \in LotIds :
        ~(l \in DOMAIN lots /\ lots[l].symbol = symbol /\ lots[l].sellable_date <= date)
          => sellable[l] = 0
  BY DEF SellableLots
<1>5. \A l \in LotIds : take[l] > 0 =>
        l \in DOMAIN lots /\ lots[l].symbol = symbol /\ lots[l].sellable_date <= date
  BY <1>3, <1>4
<1> QED BY <1>1, <1>2, <1>3, <1>5

\* reserve_sell keeps the history.
LEMMA ReserveSellKeepsHistory ==
  ASSUME HistoryIInv, NEW o \in OrderIds, NEW symbol \in Symbols, NEW limit \in Prices,
         NEW qty \in Quantities, NEW size \in LotSizes, NEW date \in Dates,
         ReserveSell(o, symbol, limit, qty, size, date)
  PROVE  HistoryIInv'
<1> DEFINE take == FifoTake(SellableLots(symbol, date), qty)
           r == [symbol |-> symbol, side |-> "SELL", limit |-> limit, remaining_qty |-> qty,
                 lot_size |-> size, cash |-> 0, alloc |-> take]
<1>1. CASE Reject(o)
  BY <1>1, RejectKeepsHistory
<1>2. CASE /\ lots' = [l \in DOMAIN lots |-> [lots[l] EXCEPT !.reserved_qty = @ + take[l]]]
           /\ Reserve(o, r)
  <2>1. LedgerIInv' /\ NewId(o)
    BY HistoryTypes, ReserveSellStep DEF ReserveSell, NewOrder
  <2>2. /\ take \in [LotIds -> Nat]
        /\ \A l \in LotIds : take[l] > 0 => lots[l].symbol = symbol
    BY HistoryTypes, SaleDraws
  <2>3. DOMAIN lots \subseteq LotIds
    BY HistoryTypes DEF IsHolding
  <2> HIDE DEF take
  <2>4. r.alloc = take /\ r.symbol = symbol
    OBVIOUS
  <2> HIDE DEF r
  <2> QED BY <1>2, <2>1, <2>2, <2>3, <2>4, ReserveKeepsHistory
<1> QED BY <1>1, <1>2 DEF ReserveSell

\* A release keeps the history.
LEMMA ReleaseKeepsHistory ==
  ASSUME HistoryIInv, NEW o \in OrderIds, NEW side \in Sides, Release(o, side)
  PROVE  HistoryIInv'
<1> DEFINE loan == reservations[o].alloc
<1>1. /\ o \in DOMAIN reservations /\ reservations' = Without(reservations, o)
      /\ UNCHANGED <<cash, fees_paid, applied_fills, buckets>>
      /\ lots' = [l \in DOMAIN lots |-> [lots[l] EXCEPT !.reserved_qty = @ - loan[l]]]
  BY DEF Release, Commit
<1>2. loan \in [LotIds -> Int]
  BY <1>1, HistoryTypes, ReservationType
<1>3. LedgerIInv'
  BY HistoryTypes, ReleaseStep
<1> HIDE DEF loan
<1>4. /\ DOMAIN lots' = DOMAIN lots
      /\ \A l \in DOMAIN lots : lots'[l].symbol = lots[l].symbol /\ lots'[l].qty = lots[l].qty
  BY <1>1, <1>2, HistoryTypes, LotsOnlyLend
<1>5. LoansMatchSymbol'
  BY <1>1, <1>4, HistoryTypes, LoansShrink DEF Without
<1> QED BY <1>1, <1>3, <1>4, <1>5, HistoryTypes, QuietStep

\* register_bucket keeps the history: nothing has traded in a new bucket.
LEMMA RegisterKeepsHistory ==
  ASSUME HistoryIInv, NEW symbol \in Symbols, NEW b \in BucketIds, NEW d \in Dates,
         NEW size \in LotSizes, NEW capacity \in Capacities,
         RegisterBucket(symbol, b, d, size, capacity)
  PROVE  HistoryIInv'
<1> DEFINE bucket == [trade_date |-> d, lot_size |-> size,
                      capacity |-> capacity, remaining |-> capacity]
           key == <<symbol, b>>
<1>1. /\ UNCHANGED <<cash, fees_paid, applied_fills, lots, reservations>>
      /\ buckets' = Put(buckets, key, bucket) /\ key \notin DOMAIN buckets
  BY DEF RegisterBucket, Commit, UnknownBucket
<1>2. bucket.capacity \in Nat /\ bucket.remaining = bucket.capacity
  BY LedgerAssumption
<1>3. LedgerIInv'
  BY HistoryTypes, RegisterBucketStep
<1> HIDE DEF key, bucket
<1>4. \A f \in DOMAIN applied_fills :
        <<applied_fills[f].proposal.symbol, applied_fills[f].proposal.bucket_id>> # key
  BY <1>1, HistoryTypes DEF FillsAreBooked
<1>5. CapacityAgrees(Put(buckets, key, bucket), applied_fills)
  BY <1>2, <1>4, HistoryTypes, CapacityStarts
<1>6. DOMAIN buckets \subseteq DOMAIN buckets'
  BY <1>1 DEF Put
<1>7. LoansMatchSymbol'
  BY <1>1, HistoryTypes DEF LoansMatchSymbol
<1> QED BY <1>1, <1>3, <1>5, <1>6, <1>7, QuietStep


-----------------------------------------------------------------------------
(* The fill, which moves everything at once. *)

FillRecord(p, version) == [proposal |-> p, ledger_version |-> version + 1]

\* What a fill publishes, and that its id and its bucket are as it needs them.
LEMMA FillPublishes ==
  ASSUME HistoryIInv, NEW p \in FillProposal, ApplyFill(p),
         NEW e, e = FillRecord(p, ledger_version)
  PROVE  /\ e \in FillApplied /\ e.proposal = p
         /\ p.fill_id \in FillIds \ DOMAIN applied_fills
         /\ cash' = CashAfter(p) /\ fees_paid' = fees_paid + p.fee_delta
         /\ applied_fills' = Put(applied_fills, p.fill_id, e)
         /\ <<p.symbol, p.bucket_id>> \in DOMAIN buckets
         /\ buckets' = [buckets EXCEPT ![<<p.symbol, p.bucket_id>>].remaining = @ - p.qty]
         /\ lots' = IF p.side = "BUY" THEN LotsAfterPurchase(p) ELSE LotsAfterSale(Taken(p))
         /\ reservations' = AfterFill(p.order_id, RestOfReservation(p))
         /\ p.order_id \in DOMAIN reservations
         /\ reservations[p.order_id].symbol = p.symbol
         /\ p.side = "BUY" \/ p.side = "SELL"
<1>1. e \in FillApplied /\ e.proposal = p
  BY HistoryTypes, InvariantTypes DEF FillApplied, FillRecord
<1>2. p.side = "BUY" \/ p.side = "SELL"
  BY DEF FillProposal, Sides
<1>3. p.fill_id \in FillIds
  BY DEF FillProposal
<1> QED BY <1>1, <1>2, <1>3
        DEF ApplyFill, Commit, FillAccepted, AdmissibleFill, NotApplied, FillRecord

\* What a sale takes of each lot: only lots of its symbol that may be sold by
\* then, no more than they had reserved, its quantity in all.
LEMMA SaleTakes ==
  ASSUME HistoryIInv, NEW p \in FillProposal, ApplyFill(p), p.side = "SELL",
         NEW take, take = Taken(p)
  PROVE  /\ take \in [LotIds -> Nat] /\ Total(take) = p.qty
         /\ \A l \in LotIds : take[l] <= reservations[p.order_id].alloc[l]
         /\ \A l \in LotIds : take[l] # 0 =>
              /\ l \in DOMAIN lots /\ lots[l].symbol = p.symbol
              /\ lots[l].sellable_date <= p.trade_date
              /\ take[l] <= lots[l].reserved_qty /\ take[l] <= lots[l].qty
<1> DEFINE alloc == reservations[p.order_id].alloc
<1>1. LedgerIInv /\ p.order_id \in DOMAIN reservations
      /\ reservations[p.order_id].symbol = p.symbol
  BY HistoryTypes, FillPublishes
<1>2. alloc \in [LotIds -> Nat] /\ p.qty \in Nat
  BY <1>1, ReservationType, FillFacts
<1>3. \A l \in LotIds : l \notin DOMAIN lots => alloc[l] = 0
  BY <1>1, LoansAreOfLots
<1>4. \A l \in DOMAIN lots : lots[l].acquire_date \in Nat
  <2>1. Dates \subseteq Nat
    BY LedgerAssumption
  <2> QED BY <1>1, <2>1, LotType DEF Lot
<1>5. Offers(alloc)
  BY <1>2, <1>3, <1>4 DEF Offers
<1>6. take = FifoTake(alloc, p.qty)
  BY DEF Taken
<1> HIDE DEF alloc
<1>7. take \in [LotIds -> Nat] /\ \A l \in LotIds : take[l] <= alloc[l]
  BY <1>2, <1>5, <1>6, FifoTakeIsPart
<1>8. /\ \A l \in LotIds : take[l] > 0 => MayConsume(l, take[l], p.trade_date)
      /\ Total(take) = p.qty
  BY DEF ApplyFill, FillAccepted, SellIsBacked
<1>9. ASSUME NEW l \in LotIds, take[l] # 0
      PROVE  /\ l \in DOMAIN lots /\ lots[l].symbol = p.symbol
             /\ lots[l].sellable_date <= p.trade_date
             /\ take[l] <= lots[l].reserved_qty /\ take[l] <= lots[l].qty
  <2>1. take[l] \in Nat /\ alloc[l] \in Nat /\ take[l] <= alloc[l]
    BY <1>2, <1>7
  <2>2. take[l] > 0 /\ alloc[l] > 0
    BY <1>9, <2>1
  <2>3. l \in DOMAIN lots
    BY <1>3, <2>2
  <2>4. lots[l].symbol = p.symbol
    BY <1>1, <2>2, <2>3, HistoryTypes DEF LoansMatchSymbol, alloc
  <2> QED BY <1>8, <2>2, <2>3, <2>4 DEF MayConsume
<1> QED BY <1>7, <1>8, <1>9 DEF alloc

\* A fill keeps the account of cash.
LEMMA FillKeepsCash ==
  ASSUME HistoryIInv, NEW p \in FillProposal, ApplyFill(p)
  PROVE  CashAgrees(cash', applied_fills', fees_paid')
<1>1. PICK e : e = FillRecord(p, ledger_version)
  OBVIOUS
<1>2. /\ e \in FillApplied /\ e.proposal = p /\ p.fill_id \in FillIds \ DOMAIN applied_fills
      /\ cash' = CashAfter(p) /\ fees_paid' = fees_paid + p.fee_delta
      /\ applied_fills' = Put(applied_fills, p.fill_id, e)
  BY <1>1, FillPublishes
<1>3. /\ IsHistory(applied_fills) /\ CashAgrees(cash, applied_fills, fees_paid)
      /\ cash \in Int /\ fees_paid \in Nat
  BY HistoryTypes, InvariantTypes
<1>4. PICK d : d = p.fee_delta
  OBVIOUS
<1>5. PICK v : v = Value(p)
  OBVIOUS
<1>6. CashAgrees(IF e.proposal.side = "BUY" THEN cash - (v + d) ELSE cash + v - d,
                 Put(applied_fills, p.fill_id, e), fees_paid + d)
  BY <1>2, <1>3, <1>4, <1>5, CashMoves
<1>7. cash' = IF e.proposal.side = "BUY" THEN cash - (v + d) ELSE cash + v - d
  BY <1>2, <1>4, <1>5 DEF CashAfter, Value
<1> QED BY <1>2, <1>4, <1>6, <1>7

\* A fill adds its quantity to what its symbol holds, or takes it away.
LEMMA FillMovesShares ==
  ASSUME HistoryIInv, NEW p \in FillProposal, ApplyFill(p), NEW symbol \in Symbols
  PROVE  Held(lots', symbol)
           = IF p.symbol # symbol THEN Held(lots, symbol)
             ELSE IF p.side = "BUY" THEN Held(lots, symbol) + p.qty
             ELSE Held(lots, symbol) - p.qty
<1>1. PICK e : e = FillRecord(p, ledger_version)
  OBVIOUS
<1>2. /\ e \in FillApplied /\ e.proposal = p /\ p.fill_id \in FillIds \ DOMAIN applied_fills
      /\ applied_fills' = Put(applied_fills, p.fill_id, e)
      /\ lots' = IF p.side = "BUY" THEN LotsAfterPurchase(p) ELSE LotsAfterSale(Taken(p))
      /\ p.side = "BUY" \/ p.side = "SELL"
  BY <1>1, FillPublishes
<1>3. LedgerIInv /\ IsHolding(lots)
  BY HistoryTypes
<1>4. ASSUME p.side = "BUY"
      PROVE  Held(lots', symbol)
               = IF p.symbol # symbol THEN Held(lots, symbol) ELSE Held(lots, symbol) + p.qty
  <2>1. PICK bought : bought = [symbol |-> p.symbol, acquire_date |-> p.trade_date,
                                sellable_date |-> p.sellable_date, qty |-> p.qty,
                                lot_size |-> p.lot_size, reserved_qty |-> 0]
    OBVIOUS
  <2>2. /\ lots' = Put(lots, p.fill_id, bought)
        /\ p.fill_id \in LotIds \ DOMAIN lots
    <3>1. p.fill_id \in LotIds
      BY LedgerAssumption DEF FillProposal
    <3>2. p.fill_id \notin DOMAIN lots
      BY <1>4 DEF ApplyFill, FillAccepted, BuyIsCovered
    <3> QED BY <1>2, <1>4, <2>1, <3>1, <3>2 DEF LotsAfterPurchase
  <2>3. bought \in Lot
    <3>1. p.sellable_date \in Dates
      BY <1>4 DEF ApplyFill, FillAccepted, WellFormedFill, FillProposal
    <3>2. p.qty \in Nat \ {0}
      BY <1>3, FillFacts
    <3> QED BY <2>1, <3>1, <3>2 DEF Lot, FillProposal
  <2>4. bought.symbol = p.symbol /\ bought.qty = p.qty
    BY <2>1
  <2> QED BY <1>3, <2>2, <2>3, <2>4, HeldAfterPurchase
<1>5. ASSUME p.side = "SELL"
      PROVE  Held(lots', symbol)
               = IF p.symbol # symbol THEN Held(lots, symbol) ELSE Held(lots, symbol) - p.qty
  <2>1. PICK take : take = Taken(p)
    OBVIOUS
  <2>2. /\ take \in [LotIds -> Nat] /\ Total(take) = p.qty
        /\ \A l \in LotIds : take[l] # 0 =>
             l \in DOMAIN lots /\ lots[l].symbol = p.symbol /\ take[l] <= lots[l].qty
    BY <1>5, <2>1, SaleTakes
  <2>3. lots' = LotsAfterSale(take)
    BY <1>2, <1>5, <2>1
  <2>4. PICK ms : ms = lots'
    OBVIOUS
  <2>5. DOMAIN ms = {l \in DOMAIN lots : lots[l].qty > take[l]}
    BY <2>3, <2>4 DEF LotsAfterSale
  <2>6. \A l \in DOMAIN ms : ms[l].symbol = lots[l].symbol /\ ms[l].qty = lots[l].qty - take[l]
    BY <1>3, <2>3, <2>4, LotType DEF LotsAfterSale, Lot
  <2>7. /\ p.symbol = symbol => Held(ms, symbol) = Held(lots, symbol) - Total(take)
        /\ p.symbol # symbol => Held(ms, symbol) = Held(lots, symbol)
    <3>1. PICK ls : ls = lots
      OBVIOUS
    <3>2. /\ IsHolding(ls) /\ DOMAIN ms = {l \in DOMAIN ls : ls[l].qty > take[l]}
          /\ \A l \in DOMAIN ms : ms[l].symbol = ls[l].symbol /\ ms[l].qty = ls[l].qty - take[l]
          /\ \A l \in LotIds : take[l] # 0 =>
               l \in DOMAIN ls /\ ls[l].symbol = p.symbol /\ take[l] <= ls[l].qty
      BY <1>3, <2>2, <2>5, <2>6, <3>1
    <3>3. /\ p.symbol = symbol => Held(ms, symbol) = Held(ls, symbol) - Total(take)
          /\ p.symbol # symbol => Held(ms, symbol) = Held(ls, symbol)
      <4>1. p.symbol \in Symbols
        BY DEF FillProposal
      <4> QED BY <2>2, <3>2, <4>1, HeldAfterSale
    <3> QED BY <3>1, <3>3
  <2>8. Total(take) = p.qty /\ Held(lots', symbol) = Held(ms, symbol)
    BY <2>2, <2>4
  <2> QED BY <2>7, <2>8
<1> QED BY <1>2, <1>4, <1>5

\* A fill keeps the account of shares.
LEMMA FillKeepsShares ==
  ASSUME HistoryIInv, NEW p \in FillProposal, ApplyFill(p)
  PROVE  SharesAgree(lots', applied_fills')
<1>1. PICK e : e = FillRecord(p, ledger_version)
  OBVIOUS
<1>2. /\ e \in FillApplied /\ e.proposal = p /\ p.fill_id \in FillIds \ DOMAIN applied_fills
      /\ applied_fills' = Put(applied_fills, p.fill_id, e)
  BY <1>1, FillPublishes
<1>3. IsHolding(lots) /\ IsHistory(applied_fills) /\ SharesAgree(lots, applied_fills)
  BY HistoryTypes
<1>4. \A symbol \in Symbols :
        Held(lots', symbol)
          = IF e.proposal.symbol # symbol THEN Held(lots, symbol)
            ELSE IF e.proposal.side = "BUY" THEN Held(lots, symbol) + e.proposal.qty
            ELSE Held(lots, symbol) - e.proposal.qty
  BY <1>2, FillMovesShares
<1>5. PICK ms : ms = lots'
  OBVIOUS
<1>6. SharesAgree(ms, Put(applied_fills, p.fill_id, e))
  BY <1>2, <1>3, <1>4, <1>5, SharesMove
<1> QED BY <1>2, <1>5, <1>6

\* A fill keeps the account of capacity.
LEMMA FillKeepsCapacity ==
  ASSUME HistoryIInv, NEW p \in FillProposal, ApplyFill(p)
  PROVE  CapacityAgrees(buckets', applied_fills') /\ FillsAreBooked'
<1>1. PICK e : e = FillRecord(p, ledger_version)
  OBVIOUS
<1>2. PICK key : key = <<p.symbol, p.bucket_id>>
  OBVIOUS
<1>3. /\ e \in FillApplied /\ e.proposal = p /\ p.fill_id \in FillIds \ DOMAIN applied_fills
      /\ applied_fills' = Put(applied_fills, p.fill_id, e)
      /\ key \in DOMAIN buckets
      /\ buckets' = [buckets EXCEPT ![key].remaining = @ - p.qty]
  BY <1>1, <1>2, FillPublishes
<1>4. CapacityAgrees([buckets EXCEPT ![key].remaining = @ - e.proposal.qty],
                     Put(applied_fills, p.fill_id, e))
  BY <1>2, <1>3, HistoryTypes, CapacityMoves
<1>5. DOMAIN buckets' = DOMAIN buckets
  BY <1>3
<1>6. FillsAreBooked'
  BY <1>2, <1>3, <1>5, HistoryTypes DEF FillsAreBooked, Put
<1> QED BY <1>3, <1>4, <1>6

\* A fill lends nothing new.
LEMMA FillKeepsLoans ==
  ASSUME HistoryIInv, NEW p \in FillProposal, ApplyFill(p)
  PROVE  LoansMatchSymbol'
<1> DEFINE o == p.order_id
           rest == RestOfReservation(p)
<1>1. /\ o \in DOMAIN reservations /\ reservations' = AfterFill(o, rest)
      /\ lots' = IF p.side = "BUY" THEN LotsAfterPurchase(p) ELSE LotsAfterSale(Taken(p))
      /\ p.side = "BUY" \/ p.side = "SELL"
  BY FillPublishes
<1>2. LedgerIInv /\ LoansMatchSymbol
  BY HistoryTypes
<1>3. IsReservations(reservations) /\ reservations[o] \in Reservation
      /\ DOMAIN lots \subseteq LotIds
  BY <1>1, <1>2, InvariantTypes, ReservationType
<1>4. rest.symbol = reservations[o].symbol
      /\ \A l \in LotIds : rest.alloc[l] > 0 => reservations[o].alloc[l] > 0
  <2>1. CASE p.side = "BUY"
    BY <1>3, <2>1 DEF RestOfReservation, Reservation
  <2>2. CASE p.side = "SELL"
    <3>1. PICK take : take = Taken(p)
      OBVIOUS
    <3>2. take \in [LotIds -> Nat]
      BY <2>2, <3>1, SaleTakes
    <3>3. rest = [reservations[o] EXCEPT
                    !.remaining_qty = reservations[o].remaining_qty - p.qty,
                    !.alloc = [l \in LotIds |-> reservations[o].alloc[l] - take[l]]]
      BY <2>2, <3>1 DEF RestOfReservation
    <3>4. rest.symbol = reservations[o].symbol
          /\ rest.alloc = [l \in LotIds |-> reservations[o].alloc[l] - take[l]]
      BY <1>3, <3>3 DEF Reservation
    <3>5. reservations[o].alloc \in [LotIds -> Nat]
      BY <1>3 DEF Reservation, Allocation
    <3> HIDE DEF rest
    <3> QED BY <3>2, <3>4, <3>5
  <2> QED BY <1>1, <2>1, <2>2
<1> HIDE DEF rest, o
<1>5. /\ DOMAIN reservations' \subseteq DOMAIN reservations
      /\ \A x \in DOMAIN reservations' :
           /\ reservations'[x].symbol = reservations[x].symbol
           /\ \A l \in LotIds : reservations'[x].alloc[l] > 0 => reservations[x].alloc[l] > 0
  <2>1. CASE rest.remaining_qty = 0
    BY <1>1, <1>3, <2>1 DEF AfterFill, Without, IsReservations
  <2>2. CASE rest.remaining_qty # 0
    BY <1>1, <1>3, <1>4, <2>2 DEF AfterFill, IsReservations
  <2> QED BY <2>1, <2>2
<1>6. CASE p.side = "SELL"
  <2>1. lots' = LotsAfterSale(Taken(p))
    BY <1>1, <1>6
  <2>2. DOMAIN lots' \subseteq DOMAIN lots
        /\ \A l \in DOMAIN lots' : lots'[l].symbol = lots[l].symbol
    BY <1>2, <2>1, LotType DEF LotsAfterSale, Lot
  <2> QED BY <1>2, <1>3, <1>5, <2>2, LoansShrink
<1>7. CASE p.side = "BUY"
  <2>1. p.fill_id \in LotIds \ DOMAIN lots
    BY <1>7, LedgerAssumption DEF ApplyFill, FillAccepted, BuyIsCovered, FillProposal
  <2>2. /\ DOMAIN lots' = DOMAIN lots \cup {p.fill_id}
        /\ \A l \in DOMAIN lots : lots'[l] = lots[l]
    BY <1>1, <1>7, <2>1 DEF LotsAfterPurchase, Put
  <2>3. ASSUME NEW x \in DOMAIN reservations', NEW l \in DOMAIN lots',
               reservations'[x].alloc[l] > 0
        PROVE  lots'[l].symbol = reservations'[x].symbol
    <3>1. x \in DOMAIN reservations /\ l \in LotIds
      BY <1>3, <1>5, <2>1, <2>2
    <3>2. reservations[x].alloc[l] > 0
      BY <1>5, <2>3, <3>1
    <3>3. l \in DOMAIN lots
      BY <1>2, <3>1, <3>2, LoansAreOfLots
    <3> QED BY <1>2, <1>5, <2>2, <3>1, <3>2, <3>3 DEF LoansMatchSymbol
  <2> QED BY <2>3 DEF LoansMatchSymbol
<1> QED BY <1>1, <1>6, <1>7

\* apply_fill keeps the history.
LEMMA FillKeepsHistory ==
  ASSUME HistoryIInv, NEW p \in FillProposal, ApplyFill(p)
  PROVE  HistoryIInv'
<1>1. p.side = "BUY" \/ p.side = "SELL"
  BY DEF FillProposal, Sides
<1>2. LedgerIInv'
  BY <1>1, HistoryTypes, BuyFillStep, SellFillStep
<1>3. AccountIsConserved'
  BY FillKeepsCash, FillKeepsShares, FillKeepsCapacity, ConservationReadsNext
<1> QED BY <1>2, <1>3, FillKeepsCapacity, FillKeepsLoans DEF HistoryIInv

-----------------------------------------------------------------------------
(* The account's theorem. *)

\* Nothing has traded at the start.
LEMMA HistoryStarts == LedgerInit => HistoryIInv
<1> SUFFICES ASSUME LedgerInit PROVE HistoryIInv
  OBVIOUS
<1>1. LedgerIInv
  BY InitEstablishes
<1>2. /\ DOMAIN applied_fills = {} /\ DOMAIN buckets = {} /\ DOMAIN reservations = {}
      /\ cash \in InitialCash /\ lots \in InitialLots /\ fees_paid = 0
  BY DEF LedgerInit, Empty
<1>3. FillsAreBooked /\ LoansMatchSymbol
  BY <1>2 DEF FillsAreBooked, LoansMatchSymbol
<1>4. \A side : Flow(applied_fills, side) = 0
  <2>1. ASSUME NEW side
        PROVE  [f \in FlowFills(applied_fills, side) |-> Value(applied_fills[f].proposal)]
                 \in [{} -> {0}]
    BY <1>2 DEF FlowFills
  <2> QED BY <2>1, TotalZero DEF Flow
<1>5. \A side, symbol : Traded(applied_fills, side, symbol) = 0
  <2>1. ASSUME NEW side, NEW symbol
        PROVE  [f \in TradeFills(applied_fills, side, symbol) |-> applied_fills[f].proposal.qty]
                 \in [{} -> {0}]
    BY <1>2 DEF TradeFills
  <2> QED BY <2>1, TotalZero DEF Traded
<1>6. CashAgrees(cash, applied_fills, fees_paid)
  <2>1. cash \in Nat
    BY <1>2, LedgerAssumption
  <2>2. cash = cash + Flow(applied_fills, "SELL") - Flow(applied_fills, "BUY") - fees_paid
    BY <1>2, <1>4, <2>1
  <2> QED BY <1>2, <2>2 DEF CashAgrees
<1>7. SharesAgree(lots, applied_fills)
  <2>1. \A symbol \in Symbols : Held(lots, symbol) \in Nat
    BY <1>2, StartsAreHoldings, HeldType
  <2>2. \A symbol \in Symbols :
          Held(lots, symbol) = Held(lots, symbol) + Traded(applied_fills, "BUY", symbol)
                                 - Traded(applied_fills, "SELL", symbol)
    BY <1>5, <2>1
  <2> QED BY <1>2, <2>2 DEF SharesAgree
<1>8. CapacityAgrees(buckets, applied_fills)
  BY <1>2 DEF CapacityAgrees
<1> QED BY <1>1, <1>3, <1>6, <1>7, <1>8, ConservationReads DEF HistoryIInv

\* The fill the client proposes is one of FillProposal.
LEMMA AppliedIsProposal ==
  ASSUME LedgerIInv, NEW o \in DOMAIN reservations, NEW qty \in Quantities, NEW price \in Prices,
         NEW fee \in {FeeDue(o, price * qty)}, NEW f \in FillIds, NEW b \in BucketIds,
         NEW d \in Dates, NEW s \in Dates \cup {NoDate},
         NEW v \in {ledger_version, ledger_version - 1} \cap Nat,
         ApplyFill(Proposal(o, f, qty, price, fee, b, d, s, v))
  PROVE  \E p \in FillProposal : ApplyFill(p)
<1>1. fee \in Nat
  BY FeeDueType
<1> QED BY <1>1, ProposalType

\* Every command keeps the history.
LEMMA HistoryStep == HistoryIInv /\ [LedgerNext]_ledgerVars => HistoryIInv'
<1> SUFFICES ASSUME HistoryIInv, [LedgerNext]_ledgerVars PROVE HistoryIInv'
  OBVIOUS
<1>1. ASSUME NEW o \in OrderIds, NEW symbol \in Symbols, NEW limit \in Prices,
             NEW qty \in Quantities, NEW size \in LotSizes,
             ReserveBuy(o, symbol, limit, qty, size)
      PROVE  HistoryIInv'
  BY <1>1, ReserveBuyKeepsHistory
<1>2. ASSUME NEW o \in OrderIds, NEW symbol \in Symbols, NEW limit \in Prices,
             NEW qty \in Quantities, NEW size \in LotSizes, NEW d \in Dates,
             ReserveSell(o, symbol, limit, qty, size, d)
      PROVE  HistoryIInv'
  BY <1>2, ReserveSellKeepsHistory
<1>3. ASSUME NEW o \in OrderIds, NEW side \in Sides, Release(o, side)
      PROVE  HistoryIInv'
  BY <1>3, ReleaseKeepsHistory
<1>4. ASSUME NEW symbol \in Symbols, NEW b \in BucketIds, NEW d \in Dates,
             NEW size \in LotSizes, NEW capacity \in Capacities,
             RegisterBucket(symbol, b, d, size, capacity)
      PROVE  HistoryIInv'
  BY <1>4, RegisterKeepsHistory
<1>5. ASSUME NEW p \in FillProposal, ApplyFill(p)
      PROVE  HistoryIInv'
  BY <1>5, FillKeepsHistory
<1>6. CASE UNCHANGED ledgerVars
  <2>1. LedgerIInv'
    BY <1>6, HistoryTypes, NextPreserves
  <2>2. AccountIsConserved'
    BY <1>6, HistoryTypes, ConservationReadsNext DEF ledgerVars
  <2>3. FillsAreBooked' /\ LoansMatchSymbol'
    BY <1>6, HistoryTypes DEF ledgerVars, FillsAreBooked, LoansMatchSymbol
  <2> QED BY <2>1, <2>2, <2>3 DEF HistoryIInv
<1> QED BY <1>1, <1>2, <1>3, <1>4, <1>5, <1>6, HistoryTypes, AppliedIsProposal DEF LedgerNext

\* The inductive invariant of the history.
THEOREM HistoryInvariant == LedgerSpec => []HistoryIInv
BY HistoryStarts, HistoryStep, PTL DEF LedgerSpec

\* The fill history accounts for the account: the cash, each symbol's shares and
\* each bucket's capacity are what replaying the applied fills from the start
\* yields, so nothing is paid, delivered or consumed twice or outside a fill.
THEOREM AccountIsAlwaysConserved == LedgerSpec => []AccountIsConserved
<1>1. HistoryIInv => AccountIsConserved
  BY DEF HistoryIInv
<1> QED BY <1>1, HistoryInvariant, PTL


-----------------------------------------------------------------------------
(* What a single command may do to the history, to the lots and to the free *)
(* shares.                                                                  *)

FinalStep ==
  /\ \A o \in used_order_ids :
       /\ o \in used_order_ids'
       /\ o \notin DOMAIN reservations => o \notin DOMAIN reservations'
  /\ \A f \in DOMAIN applied_fills :
       f \in DOMAIN applied_fills' /\ applied_fills'[f] = applied_fills[f]
  /\ \A f \in DOMAIN applied_fills' \ DOMAIN applied_fills :
       /\ applied_fills'[f].ledger_version = ledger_version'
       /\ applied_fills'[f].proposal.expected_version = ledger_version

LeavingStep ==
  \A l \in DOMAIN lots :
    LET left == IF l \in DOMAIN lots' THEN lots[l].qty - lots'[l].qty ELSE lots[l].qty
    IN  left # 0 =>
          /\ left <= lots[l].reserved_qty
          /\ \E f \in DOMAIN applied_fills' \ DOMAIN applied_fills :
               LET p == applied_fills'[f].proposal
               IN  p.side = "SELL" /\ p.symbol = lots[l].symbol
                     /\ lots[l].sellable_date <= p.trade_date

OldestStep ==
  \A o \in DOMAIN reservations' \ DOMAIN reservations :
    \A k, l \in DOMAIN lots :
      /\ reservations'[o].alloc[l] > 0
      /\ lots[k].symbol = lots[l].symbol
      /\ lots[k].sellable_date <= lots[l].sellable_date
      /\ lots[k].acquire_date < lots[l].acquire_date
      => lots'[k].reserved_qty = lots'[k].qty

\* Without a fill, lots that keep their shares show it.
LEMMA QuietMoves ==
  ASSUME LedgerIInv, UNCHANGED applied_fills, DOMAIN lots' = DOMAIN lots,
         \A l \in DOMAIN lots : lots'[l].symbol = lots[l].symbol /\ lots'[l].qty = lots[l].qty,
         used_order_ids \subseteq used_order_ids',
         \A o \in DOMAIN reservations' \ DOMAIN reservations : o \notin used_order_ids
  PROVE  FinalStep /\ LeavingStep
<1>1. FinalStep
  BY DEF FinalStep
<1>2. \A l \in DOMAIN lots : l \in DOMAIN lots' /\ lots[l].qty - lots'[l].qty = 0
  BY LotType
<1>3. LeavingStep
  BY <1>2 DEF LeavingStep
<1> QED BY <1>1, <1>3

\* A rejection moves nothing.
LEMMA RejectMoves ==
  ASSUME LedgerIInv, NEW o \in OrderIds, Reject(o)
  PROVE  FinalStep /\ LeavingStep /\ OldestStep
<1>1. /\ UNCHANGED <<applied_fills, lots, reservations>>
      /\ used_order_ids \subseteq used_order_ids'
  BY DEF Reject, Commit
<1>2. FinalStep /\ LeavingStep
  BY <1>1, QuietMoves
<1> QED BY <1>1, <1>2 DEF OldestStep

\* An older lot on offer is drawn out before a newer one is touched.
LEMMA OldestIsDrawnOut ==
  ASSUME NEW amounts, Offers(amounts), NEW qty \in Nat, NEW k \in LotIds, NEW l \in LotIds,
         Older(k, l), FifoTake(amounts, qty)[l] > 0
  PROVE  FifoTake(amounts, qty)[k] = amounts[k]
<1>1. amounts[k] \in Nat /\ amounts[l] \in Nat
  BY DEF Offers
<1>2. \A j \in LotIds :
        FifoTake(amounts, qty)[j]
          = IF amounts[j] = 0 \/ SharesAhead(amounts, j) >= qty
            THEN 0 ELSE Smaller(amounts[j], qty - SharesAhead(amounts, j))
  BY DEF FifoTake, SharesAhead, AheadOf
<1>3. amounts[l] # 0 /\ ~(SharesAhead(amounts, l) >= qty)
  BY <1>2
<1>4. CASE amounts[k] = 0
  BY <1>2, <1>4
<1>5. CASE amounts[k] # 0
  <2>1. amounts[k] > 0 /\ amounts[l] > 0
    BY <1>1, <1>3, <1>5
  <2>2. /\ SharesAhead(amounts, k) + amounts[k] <= SharesAhead(amounts, l)
        /\ SharesAhead(amounts, k) \in Nat /\ SharesAhead(amounts, l) \in Nat
    BY <2>1, OlderIsAhead, SharesAheadFit
  <2>3. SharesAhead(amounts, k) < qty /\ amounts[k] <= qty - SharesAhead(amounts, k)
    BY <1>1, <1>3, <2>1, <2>2
  <2>4. ~(SharesAhead(amounts, k) >= qty)
    BY <2>2, <2>3
  <2> QED BY <1>2, <1>5, <2>3, <2>4 DEF Smaller
<1> QED BY <1>4, <1>5

\* A reservation is of a new id, and moves no shares.
LEMMA ReserveMoves ==
  ASSUME LedgerIInv, NEW o \in OrderIds, NewId(o), NEW r, Reserve(o, r),
         r.alloc \in [LotIds -> Nat],
         \/ lots' = lots
         \/ lots' = [l \in DOMAIN lots |-> [lots[l] EXCEPT !.reserved_qty = @ + r.alloc[l]]]
  PROVE  /\ FinalStep /\ LeavingStep
         /\ DOMAIN reservations' = DOMAIN reservations \cup {o} /\ reservations'[o] = r
<1>1. /\ UNCHANGED applied_fills /\ used_order_ids \subseteq used_order_ids'
      /\ reservations' = Put(reservations, o, r)
  BY DEF Reserve, Commit
<1>2. DOMAIN reservations' = DOMAIN reservations \cup {o} /\ reservations'[o] = r
  BY <1>1 DEF Put
<1>3. /\ DOMAIN lots' = DOMAIN lots
      /\ \A l \in DOMAIN lots : lots'[l].symbol = lots[l].symbol /\ lots'[l].qty = lots[l].qty
  <2> DEFINE loan == r.alloc
  <2>1. loan \in [LotIds -> Int]
    OBVIOUS
  <2>2. \/ lots' = lots
        \/ lots' = [l \in DOMAIN lots |-> [lots[l] EXCEPT !.reserved_qty = @ + loan[l]]]
    OBVIOUS
  <2> HIDE DEF loan
  <2> QED BY <2>1, <2>2, LotsOnlyLend
<1>4. \A x \in DOMAIN reservations' \ DOMAIN reservations : x \notin used_order_ids
  BY <1>2 DEF NewId
<1> QED BY <1>1, <1>2, <1>3, <1>4, QuietMoves

\* reserve_buy borrows nothing.
LEMMA ReserveBuyMoves ==
  ASSUME LedgerIInv, NEW o \in OrderIds, NEW symbol \in Symbols, NEW limit \in Prices,
         NEW qty \in Quantities, NEW size \in LotSizes,
         ReserveBuy(o, symbol, limit, qty, size)
  PROVE  FinalStep /\ LeavingStep /\ OldestStep
<1> DEFINE r == [symbol |-> symbol, side |-> "BUY", limit |-> limit, remaining_qty |-> qty,
                 lot_size |-> size, cash |-> BuyRequirement(0, limit, qty),
                 alloc |-> NoAllocation]
<1>1. CASE Reject(o)
  BY <1>1, RejectMoves
<1>2. CASE UNCHANGED lots /\ Reserve(o, r)
  <2>1. NewId(o)
    BY DEF ReserveBuy, NewOrder
  <2>2. r.alloc \in [LotIds -> Nat] /\ \A l \in LotIds : r.alloc[l] = 0
    BY NoAllocationType DEF Allocation
  <2>3. DOMAIN lots \subseteq LotIds
    BY InvariantTypes
  <2> HIDE DEF r
  <2>4. /\ FinalStep /\ LeavingStep
        /\ DOMAIN reservations' = DOMAIN reservations \cup {o} /\ reservations'[o] = r
    BY <1>2, <2>1, <2>2, ReserveMoves
  <2> QED BY <2>2, <2>3, <2>4 DEF OldestStep
<1> QED BY <1>1, <1>2 DEF ReserveBuy

\* reserve_sell borrows from the oldest lots.
LEMMA ReserveSellMoves ==
  ASSUME LedgerIInv, NEW o \in OrderIds, NEW symbol \in Symbols, NEW limit \in Prices,
         NEW qty \in Quantities, NEW size \in LotSizes, NEW date \in Dates,
         ReserveSell(o, symbol, limit, qty, size, date)
  PROVE  FinalStep /\ LeavingStep /\ OldestStep
<1> DEFINE sellable == SellableLots(symbol, date)
           take == FifoTake(sellable, qty)
           r == [symbol |-> symbol, side |-> "SELL", limit |-> limit, remaining_qty |-> qty,
                 lot_size |-> size, cash |-> 0, alloc |-> take]
<1>1. CASE Reject(o)
  BY <1>1, RejectMoves
<1>2. CASE /\ lots' = [l \in DOMAIN lots |-> [lots[l] EXCEPT !.reserved_qty = @ + take[l]]]
           /\ Reserve(o, r)
  <2>1. NewId(o)
    BY DEF ReserveSell, NewOrder
  <2>2. /\ Offers(sellable) /\ qty \in Nat /\ take \in [LotIds -> Nat]
        /\ \A l \in LotIds : take[l] > 0 =>
             l \in DOMAIN lots /\ lots[l].symbol = symbol /\ lots[l].sellable_date <= date
    BY SaleDraws
  <2>3. DOMAIN lots \subseteq LotIds /\ Dates \subseteq Nat /\ date \in Nat
    BY InvariantTypes, LedgerAssumption
  <2>4. \A k, l \in LotIds : Older(k, l) /\ take[l] > 0 => take[k] = sellable[k]
    <3> HIDE DEF sellable
    <3> QED BY <2>2, OldestIsDrawnOut
  <2>5. \A k \in DOMAIN lots :
          lots[k].symbol = symbol /\ lots[k].sellable_date <= date
            => sellable[k] = lots[k].qty - lots[k].reserved_qty
    BY <2>3 DEF SellableLots, FreeQty
  <2> HIDE DEF take, sellable
  <2>6. r.alloc = take /\ r.alloc \in [LotIds -> Nat]
    BY <2>2
  <2> HIDE DEF r
  <2>7. /\ FinalStep /\ LeavingStep
        /\ DOMAIN reservations' = DOMAIN reservations \cup {o} /\ reservations'[o] = r
    BY <1>2, <2>1, <2>6, ReserveMoves
  <2>8. ASSUME NEW k \in DOMAIN lots, NEW l \in DOMAIN lots, take[l] > 0,
               lots[k].symbol = lots[l].symbol,
               lots[k].sellable_date <= lots[l].sellable_date,
               lots[k].acquire_date < lots[l].acquire_date
        PROVE  lots'[k].reserved_qty = lots'[k].qty
    <3>1. k \in LotIds /\ l \in LotIds
      BY <2>3
    <3>2. take[k] = sellable[k]
      BY <2>4, <2>8, <3>1 DEF Older
    <3>3. /\ lots[k] \in Lot /\ lots[k].sellable_date \in Nat /\ lots[l].sellable_date \in Nat
          /\ lots[k].qty \in Nat /\ lots[k].reserved_qty \in Nat
      BY <2>3, LotType DEF Lot
    <3>4. lots[k].symbol = symbol /\ lots[k].sellable_date <= date
      BY <2>2, <2>3, <2>8, <3>1, <3>3
    <3>5. take[k] = lots[k].qty - lots[k].reserved_qty
      BY <2>5, <3>2, <3>4
    <3>6. /\ lots'[k].reserved_qty = lots[k].reserved_qty + take[k]
          /\ lots'[k].qty = lots[k].qty
      BY <1>2, <3>3 DEF Lot
    <3> QED BY <3>3, <3>5, <3>6
  <2>9. OldestStep
    BY <2>6, <2>7, <2>8 DEF OldestStep
  <2> QED BY <2>7, <2>9
<1> QED BY <1>1, <1>2 DEF ReserveSell

\* A release only gives back.
LEMMA ReleaseMoves ==
  ASSUME LedgerIInv, NEW o \in OrderIds, NEW side \in Sides, Release(o, side)
  PROVE  FinalStep /\ LeavingStep /\ OldestStep
<1> DEFINE loan == reservations[o].alloc
<1>1. /\ o \in DOMAIN reservations /\ reservations' = Without(reservations, o)
      /\ UNCHANGED <<applied_fills, used_order_ids>>
      /\ lots' = [l \in DOMAIN lots |-> [lots[l] EXCEPT !.reserved_qty = @ - loan[l]]]
  BY DEF Release, Commit
<1>2. loan \in [LotIds -> Int]
  BY <1>1, ReservationType
<1> HIDE DEF loan
<1>3. /\ DOMAIN lots' = DOMAIN lots
      /\ \A l \in DOMAIN lots : lots'[l].symbol = lots[l].symbol /\ lots'[l].qty = lots[l].qty
  BY <1>1, <1>2, LotsOnlyLend
<1>4. DOMAIN reservations' \subseteq DOMAIN reservations
  BY <1>1 DEF Without
<1>5. FinalStep /\ LeavingStep
  BY <1>1, <1>3, <1>4, QuietMoves
<1> QED BY <1>4, <1>5 DEF OldestStep

\* A fill is new, was computed from this snapshot, and takes what it may.
LEMMA FillMoves ==
  ASSUME HistoryIInv, NEW p \in FillProposal, ApplyFill(p)
  PROVE  FinalStep /\ LeavingStep /\ OldestStep
<1>1. PICK e : e = FillRecord(p, ledger_version)
  OBVIOUS
<1>2. /\ e.proposal = p /\ p.fill_id \in FillIds \ DOMAIN applied_fills
      /\ applied_fills' = Put(applied_fills, p.fill_id, e)
      /\ lots' = IF p.side = "BUY" THEN LotsAfterPurchase(p) ELSE LotsAfterSale(Taken(p))
      /\ reservations' = AfterFill(p.order_id, RestOfReservation(p))
      /\ p.order_id \in DOMAIN reservations /\ (p.side = "BUY" \/ p.side = "SELL")
  BY <1>1, FillPublishes
<1>3. /\ ledger_version' = ledger_version + 1 /\ used_order_ids' = used_order_ids
      /\ p.expected_version = ledger_version /\ e.ledger_version = ledger_version + 1
  BY <1>1 DEF ApplyFill, Commit, FillAccepted, AdmissibleFill, NotStale, FillRecord
<1>4. /\ DOMAIN applied_fills' \ DOMAIN applied_fills = {p.fill_id}
      /\ applied_fills'[p.fill_id] = e
      /\ \A f \in DOMAIN applied_fills :
           f \in DOMAIN applied_fills' /\ applied_fills'[f] = applied_fills[f]
  BY <1>2 DEF Put
<1>5. DOMAIN reservations' \subseteq DOMAIN reservations
  BY <1>2 DEF AfterFill, Without
<1>6. FinalStep
  BY <1>2, <1>3, <1>4, <1>5 DEF FinalStep
<1>7. OldestStep
  BY <1>5 DEF OldestStep
<1>8. LedgerIInv
  BY HistoryTypes
<1>9. CASE p.side = "BUY"
  <2>1. p.fill_id \notin DOMAIN lots
    BY <1>9 DEF ApplyFill, FillAccepted, BuyIsCovered
  <2>2. \A l \in DOMAIN lots : l \in DOMAIN lots' /\ lots'[l] = lots[l]
    BY <1>2, <1>9, <2>1 DEF LotsAfterPurchase, Put
  <2>3. \A l \in DOMAIN lots : lots[l].qty - lots'[l].qty = 0
    BY <1>8, <2>2, LotType
  <2>4. LeavingStep
    BY <2>2, <2>3 DEF LeavingStep
  <2> QED BY <1>6, <1>7, <2>4
<1>10. CASE p.side = "SELL"
  <2>1. PICK take : take = Taken(p)
    OBVIOUS
  <2>2. /\ take \in [LotIds -> Nat]
        /\ \A l \in LotIds : take[l] # 0 =>
             /\ l \in DOMAIN lots /\ lots[l].symbol = p.symbol
             /\ lots[l].sellable_date <= p.trade_date
             /\ take[l] <= lots[l].reserved_qty /\ take[l] <= lots[l].qty
    BY <1>10, <2>1, SaleTakes
  <2>3. lots' = LotsAfterSale(take)
    BY <1>2, <1>10, <2>1
  <2>4. ASSUME NEW l \in DOMAIN lots
        PROVE  (IF l \in DOMAIN lots' THEN lots[l].qty - lots'[l].qty ELSE lots[l].qty) = take[l]
    <3>1. l \in LotIds /\ lots[l] \in Lot /\ lots[l].qty \in Nat \ {0} /\ take[l] \in Nat
      BY <1>8, <2>2, LotType
    <3>2. l \in DOMAIN lots' <=> lots[l].qty > take[l]
      BY <2>3 DEF LotsAfterSale
    <3>3. CASE lots[l].qty > take[l]
      <4>1. l \in DOMAIN lots' /\ lots'[l].qty = lots[l].qty - take[l]
        BY <2>3, <3>1, <3>3 DEF LotsAfterSale, Lot
      <4> QED BY <3>1, <4>1
    <3>4. CASE ~(lots[l].qty > take[l])
      <4>1. take[l] # 0
        BY <3>1, <3>4
      <4>2. take[l] = lots[l].qty
        BY <2>2, <3>1, <3>4, <4>1
      <4> QED BY <3>2, <3>4, <4>2
    <3> QED BY <3>3, <3>4
  <2>5. ASSUME NEW l \in DOMAIN lots, take[l] # 0
        PROVE  /\ take[l] <= lots[l].reserved_qty
               /\ \E f \in DOMAIN applied_fills' \ DOMAIN applied_fills :
                    LET q == applied_fills'[f].proposal
                    IN  q.side = "SELL" /\ q.symbol = lots[l].symbol
                          /\ lots[l].sellable_date <= q.trade_date
    <3>1. l \in LotIds
      BY <1>8, LotType
    <3>2. applied_fills'[p.fill_id].proposal = p
      BY <1>2, <1>4
    <3> QED BY <1>4, <1>10, <2>2, <2>5, <3>1, <3>2
  <2>6. LeavingStep
    BY <2>4, <2>5 DEF LeavingStep
  <2> QED BY <1>6, <1>7, <2>6
<1> QED BY <1>2, <1>9, <1>10

\* Every command moves as it should.
LEMMA NextMoves ==
  HistoryIInv /\ [LedgerNext]_ledgerVars
    => [FinalStep /\ LeavingStep /\ OldestStep]_ledgerVars
<1> SUFFICES ASSUME HistoryIInv, LedgerNext
             PROVE  FinalStep /\ LeavingStep /\ OldestStep
  OBVIOUS
<1> USE HistoryTypes
<1>1. ASSUME NEW o \in OrderIds, NEW symbol \in Symbols, NEW limit \in Prices,
             NEW qty \in Quantities, NEW size \in LotSizes,
             ReserveBuy(o, symbol, limit, qty, size)
      PROVE  FinalStep /\ LeavingStep /\ OldestStep
  BY <1>1, ReserveBuyMoves
<1>2. ASSUME NEW o \in OrderIds, NEW symbol \in Symbols, NEW limit \in Prices,
             NEW qty \in Quantities, NEW size \in LotSizes, NEW d \in Dates,
             ReserveSell(o, symbol, limit, qty, size, d)
      PROVE  FinalStep /\ LeavingStep /\ OldestStep
  BY <1>2, ReserveSellMoves
<1>3. ASSUME NEW o \in OrderIds, NEW side \in Sides, Release(o, side)
      PROVE  FinalStep /\ LeavingStep /\ OldestStep
  BY <1>3, ReleaseMoves
<1>4. ASSUME NEW symbol \in Symbols, NEW b \in BucketIds, NEW d \in Dates,
             NEW size \in LotSizes, NEW capacity \in Capacities,
             RegisterBucket(symbol, b, d, size, capacity)
      PROVE  FinalStep /\ LeavingStep /\ OldestStep
  <2>1. UNCHANGED <<applied_fills, lots, reservations, used_order_ids>>
    BY <1>4 DEF RegisterBucket, Commit
  <2>2. FinalStep /\ LeavingStep
    BY <2>1, QuietMoves
  <2> QED BY <2>1, <2>2 DEF OldestStep
<1>5. ASSUME NEW p \in FillProposal, ApplyFill(p)
      PROVE  FinalStep /\ LeavingStep /\ OldestStep
  BY <1>5, FillMoves
<1> QED BY <1>1, <1>2, <1>3, <1>4, <1>5, AppliedIsProposal, ZenonT(30) DEF LedgerNext

\* What has happened is not done over: no order id works twice, an ended order
\* stays ended, and a fill stays as it was and replaced the snapshot it was
\* computed from, so of two proposals for one snapshot at most one is applied.
THEOREM HistoryIsAlwaysFinal == LedgerSpec => HistoryIsFinal
<1>1. HistoryIInv /\ [LedgerNext]_ledgerVars => [FinalStep]_ledgerVars
  BY NextMoves
<1> QED BY <1>1, HistoryInvariant, PTL DEF LedgerSpec, HistoryIsFinal, FinalStep

\* Shares leave a lot only when they may: through a SELL fill of its symbol, dated
\* on or after its sellable date, and only those an order had reserved.
THEOREM SharesOnlyLeaveWhenSellable == LedgerSpec => SharesLeaveOnlyWhenSellable
<1>1. HistoryIInv /\ [LedgerNext]_ledgerVars => [LeavingStep]_ledgerVars
  BY NextMoves
<1> QED BY <1>1, HistoryInvariant, PTL DEF LedgerSpec, SharesLeaveOnlyWhenSellable, LeavingStep

\* A SELL order leaves no older lot that may be sold on its date with free shares
\* when it takes from a newer one.
THEOREM SellsAlwaysReserveOldestFirst == LedgerSpec => SellsReserveOldestFirst
<1>1. HistoryIInv /\ [LedgerNext]_ledgerVars => [OldestStep]_ledgerVars
  BY NextMoves
<1> QED BY <1>1, HistoryInvariant, PTL DEF LedgerSpec, SellsReserveOldestFirst, OldestStep

(***************************************************************************)
(* Part two: the replay                                                    *)
(***************************************************************************)

\* The events of an order: it is submitted, expires and meets a bucket; a bucket ends.
SubmitOf(o) == OwnEvent(run.submits[o].submitted_at, SUBMIT, run.submits[o], NoBucket)
ExpiryOf(o) == OwnEvent(run.submits[o].expires_at, EXPIRY, run.submits[o], NoBucket)
MatchOf(o, b) == OwnEvent(Sessions[b].end, MATCH, run.submits[o], b)
BucketOf(s, b) == FactEvent(Sessions[b].end, BUCKET, s, b)

\* The events still to be handled.
Pending == {agenda[i] : i \in 1 .. Len(agenda)}

\* What has been handled: the submission of an order, its expiry, the arrival of a
\* bucket, the match of an order and a bucket.
Submitted(o) == SubmitOf(o) \notin Pending
Lapsed(o) == ExpiryOf(o) \notin Pending
Known(s, b) == BucketOf(s, b) \notin Pending
Matched(o, b) == MatchOf(o, b) \in EventsOf(run) \ Pending

\* The agenda is the part of the schedule that nothing handled comes after.
AgendaFits ==
  /\ agenda \in Seq(EventsOf(run))
  /\ \A i, j \in 1 .. Len(agenda) : i < j => Before(agenda[i], agenda[j])
  /\ \A e \in EventsOf(run) \ Pending, f \in Pending : Before(e, f)

\* A symbol trades in lots of one size on every date.
HasSize(symbol, size) == \A d \in TradingDates : Facts[<<symbol, d>>].lot_size = size

\* The broker knows the orders submitted so far; the ledger keeps a reservation for
\* each that still works.
OrdersFit ==
  /\ DOMAIN orders \subseteq DOMAIN run.submits /\ orders \in [DOMAIN orders -> OrderState]
  /\ used_order_ids = DOMAIN orders
  /\ \A o \in DOMAIN run.submits : o \in DOMAIN orders <=> Submitted(o)
  /\ \A o \in DOMAIN orders :
       /\ Active(o) <=> o \in DOMAIN reservations
       /\ orders[o].filled_qty + orders[o].remaining_qty = run.submits[o].qty
       /\ orders[o].status = "Filled" <=> orders[o].remaining_qty = 0

\* What a working order has reserved is what it asked for.
ReservationsFit ==
  \A o \in DOMAIN reservations :
    LET r == reservations[o]
        c == run.submits[o]
    IN  /\ r.symbol = c.symbol /\ r.side = c.side /\ r.limit = c.limit
        /\ HasSize(r.symbol, r.lot_size) /\ r.remaining_qty % r.lot_size = 0
        /\ r.remaining_qty = orders[o].remaining_qty
        /\ WithinRun(c.expires_at) => ~Lapsed(o)
        /\ \A l \in DOMAIN lots : r.alloc[l] > 0 => lots[l].sellable_date <= DateOf(c.submitted_at)

\* The fills of an order in a history, and the shares they settled.
FilledBy(h, o) == {f \in DOMAIN h : h[f].proposal.order_id = o}
Filled(h, o) == Total([f \in FilledBy(h, o) |-> h[f].proposal.qty])

\* Each fill is of an order and a bucket that met, at the bucket's close; an order
\* counts as filled what its fills add up to.
FillsFit ==
  /\ \A o \in DOMAIN orders : orders[o].filled_qty = Filled(applied_fills, o)
  /\ \A f \in DOMAIN applied_fills :
       LET p == applied_fills[f].proposal
           key == <<p.symbol, p.bucket_id>>
       IN  /\ p.order_id \in DOMAIN orders
           /\ f = FillIdOf[<<p.order_id, p.bucket_id>>]
           /\ Matched(p.order_id, p.bucket_id)
           /\ p.symbol = run.submits[p.order_id].symbol
           /\ key \in DOMAIN visible
           /\ ~visible[key].missing /\ ~visible[key].halted /\ p.price = visible[key].close

\* The capacity _register installs.
CapacityOf(quote, size) ==
  IF quote.missing \/ quote.halted THEN 0 ELSE BucketCapacity(size, quote.volume, RateNum, RateDen)

\* Broker and ledger know the same buckets: those whose event was handled.
BucketsFit ==
  /\ DOMAIN buckets = DOMAIN visible
  /\ \A s \in Symbols, b \in BucketIds :
       <<s, b>> \in DOMAIN visible <=> Known(s, b)
  /\ \A key \in DOMAIN visible :
       /\ visible[key] \in Quotes
       /\ buckets[key].trade_date = DateOf(Sessions[key[2]].start)
       /\ HasSize(key[1], buckets[key].lot_size)
       /\ buckets[key].capacity = CapacityOf(visible[key], buckets[key].lot_size)

\* No lot held at the start has the name a fill will give to a lot of its own.
LotNamesAreFree == \A ls \in InitialLots : DOMAIN ls \cap FillIds = {}

\* Then a lot with such a name was bought.
LotsFit ==
  LotNamesAreFree => \A l \in DOMAIN lots : l \in FillIds => l \in DOMAIN applied_fills

\* An order that has been matched against a bucket and still works left less than a
\* lot of it, or could not trade.
Tradeable(o, b) ==
  LET c == run.submits[o]
      quote == visible[<<c.symbol, b>>]
  IN  /\ ~quote.missing /\ ~quote.halted
      /\ Crosses(c.side, quote.close, c.limit)
      /\ ~Locked(c.side, quote, FactsAt(c.symbol, Sessions[b].start))

\* ... so that the queue's order is kept.
QueueFits ==
  \A o \in DOMAIN reservations, b \in BucketIds :
    LET key == <<run.submits[o].symbol, b>>
    IN  /\ Matched(o, b)
        /\ Tradeable(o, b)
        => buckets[key].remaining < reservations[o].lot_size

\* The sales of a symbol up to a date, its purchases before it, and their shares.
SoldBy(h, symbol, d) ==
  {f \in DOMAIN h : /\ h[f].proposal.symbol = symbol /\ h[f].proposal.side = "SELL"
                    /\ h[f].proposal.trade_date <= d}
BoughtBefore(h, symbol, d) ==
  {f \in DOMAIN h : /\ h[f].proposal.symbol = symbol /\ h[f].proposal.side = "BUY"
                    /\ h[f].proposal.trade_date < d}
QtyOf(h, fs) == Total([f \in fs |-> h[f].proposal.qty])

\* The lots of a symbol that may be sold by a date, and their shares.
FreeLots(ls, symbol, d) == {l \in DOMAIN ls : ls[l].symbol = symbol /\ ls[l].sellable_date <= d}
FreeBy(ls, symbol, d) == Total([l \in FreeLots(ls, symbol, d) |-> ls[l].qty])

\* What was sold by a date and what could still be sold on it were held at the start
\* or bought before it.
ResaleAgrees(ls, h) ==
  \E start \in InitialLots : \A symbol \in Symbols, d \in TradingDates :
    QtyOf(h, SoldBy(h, symbol, d)) + FreeBy(ls, symbol, d)
      <= FreeBy(start, symbol, d) + QtyOf(h, BoughtBefore(h, symbol, d))

\* The replay's own lots and fills.
ResaleFits == ResaleAgrees(lots, applied_fills)

\* A run whose lots have names of their own is not aborted by a contract error.
NoContractFits == LotNamesAreFree => failure # "contract"

-----------------------------------------------------------------------------
(* The order of events. *)

\* What the clock sorts.
EventType ==
  [time : Nat, phase : 0 .. 5, buy : 0 .. 1, submitted_at : Nat, sequence : Nat, id : Int,
   bucket : BucketIds \cup {NoBucket}]

\* ClockEvent.key of one event is smaller than that of another.
Earlier(e, f) ==
  \/ e.time < f.time
  \/ /\ e.time = f.time
     /\ \/ e.phase < f.phase
        \/ /\ e.phase = f.phase
           /\ \/ e.buy < f.buy
              \/ /\ e.buy = f.buy
                 /\ \/ e.submitted_at < f.submitted_at
                    \/ /\ e.submitted_at = f.submitted_at
                       /\ \/ e.sequence < f.sequence
                          \/ e.sequence = f.sequence /\ e.id < f.id

\* Finitely many events, no two of which claim the same place.
Ordered(E) ==
  /\ E \subseteq EventType /\ IsFiniteSet(E)
  /\ \A e, f \in E : Key(e) = Key(f) => e = f

\* Comparing the keys component by component.
LEMMA BeforeMeans ==
  ASSUME NEW e, NEW f
  PROVE  Before(e, f) <=> Earlier(e, f)
<1> DEFINE k == Key(e)
           l == Key(f)
<1>1. /\ k[1] = e.time /\ k[2] = e.phase /\ k[3] = e.buy
      /\ k[4] = e.submitted_at /\ k[5] = e.sequence /\ k[6] = e.id
      /\ l[1] = f.time /\ l[2] = f.phase /\ l[3] = f.buy
      /\ l[4] = f.submitted_at /\ l[5] = f.sequence /\ l[6] = f.id
  BY DEF Key, Rank
<1>2. Before(e, f) <=> \E i \in 1 .. 6 : k[i] < l[i] /\ \A j \in 1 .. (i - 1) : k[j] = l[j]
  BY DEF Before
<1> HIDE DEF k, l
<1>3. ASSUME NEW i \in 1 .. 6, k[i] < l[i], \A j \in 1 .. (i - 1) : k[j] = l[j]
      PROVE  Earlier(e, f)
  <2>1. i = 1 \/ i = 2 \/ i = 3 \/ i = 4 \/ i = 5 \/ i = 6
    OBVIOUS
  <2> QED BY <1>1, <1>3, <2>1 DEF Earlier
<1>4. ASSUME Earlier(e, f)
      PROVE  \E i \in 1 .. 6 : k[i] < l[i] /\ \A j \in 1 .. (i - 1) : k[j] = l[j]
  <2>1. /\ \A j \in 1 .. (1 - 1) : FALSE
        /\ \A j \in 1 .. (2 - 1) : j = 1
        /\ \A j \in 1 .. (3 - 1) : j = 1 \/ j = 2
        /\ \A j \in 1 .. (4 - 1) : j = 1 \/ j = 2 \/ j = 3
        /\ \A j \in 1 .. (5 - 1) : j = 1 \/ j = 2 \/ j = 3 \/ j = 4
        /\ \A j \in 1 .. (6 - 1) : j = 1 \/ j = 2 \/ j = 3 \/ j = 4 \/ j = 5
    OBVIOUS
  <2>2. 1 \in 1 .. 6 /\ 2 \in 1 .. 6 /\ 3 \in 1 .. 6 /\ 4 \in 1 .. 6 /\ 5 \in 1 .. 6 /\ 6 \in 1 .. 6
    OBVIOUS
  <2>3. \/ k[1] < l[1]
        \/ k[1] = l[1] /\ k[2] < l[2]
        \/ k[1] = l[1] /\ k[2] = l[2] /\ k[3] < l[3]
        \/ k[1] = l[1] /\ k[2] = l[2] /\ k[3] = l[3] /\ k[4] < l[4]
        \/ k[1] = l[1] /\ k[2] = l[2] /\ k[3] = l[3] /\ k[4] = l[4] /\ k[5] < l[5]
        \/ k[1] = l[1] /\ k[2] = l[2] /\ k[3] = l[3] /\ k[4] = l[4] /\ k[5] = l[5] /\ k[6] < l[6]
    BY <1>1, <1>4 DEF Earlier
  <2> QED BY <2>1, <2>2, <2>3
<1> QED BY <1>2, <1>3, <1>4

\* The order of the schedule is strict.
LEMMA BeforeIsStrict ==
  ASSUME NEW e \in EventType, NEW f \in EventType, NEW g \in EventType
  PROVE  /\ ~Before(e, e)
         /\ Before(e, f) /\ Before(f, g) => Before(e, g)
         /\ Before(e, f) => ~Before(f, e)
<1>1. /\ e.time \in Int /\ e.phase \in Int /\ e.buy \in Int
      /\ e.submitted_at \in Int /\ e.sequence \in Int /\ e.id \in Int
      /\ f.time \in Int /\ f.phase \in Int /\ f.buy \in Int
      /\ f.submitted_at \in Int /\ f.sequence \in Int /\ f.id \in Int
      /\ g.time \in Int /\ g.phase \in Int /\ g.buy \in Int
      /\ g.submitted_at \in Int /\ g.sequence \in Int /\ g.id \in Int
  BY DEF EventType
<1>2. ~Earlier(e, e)
  BY <1>1 DEF Earlier
<1>3. Earlier(e, f) /\ Earlier(f, g) => Earlier(e, g)
  BY <1>1 DEF Earlier
<1>4. Earlier(e, f) => ~Earlier(f, e)
  BY <1>1 DEF Earlier
<1> QED BY <1>2, <1>3, <1>4, BeforeMeans

\* Of two events of a run one comes first.
LEMMA BeforeIsTotal ==
  ASSUME NEW E, Ordered(E), NEW e \in E, NEW f \in E, e # f
  PROVE  Before(e, f) \/ Before(f, e)
<1>1. e \in EventType /\ f \in EventType /\ Key(e) # Key(f)
  BY DEF Ordered
<1>2. /\ e.time \in Int /\ e.phase \in Int /\ e.buy \in Int
      /\ e.submitted_at \in Int /\ e.sequence \in Int /\ e.id \in Int
      /\ f.time \in Int /\ f.phase \in Int /\ f.buy \in Int
      /\ f.submitted_at \in Int /\ f.sequence \in Int /\ f.id \in Int
  BY <1>1 DEF EventType
<1>3. ~(/\ e.time = f.time /\ e.phase = f.phase /\ e.buy = f.buy
        /\ e.submitted_at = f.submitted_at /\ e.sequence = f.sequence /\ e.id = f.id)
  BY <1>1 DEF Key, Rank
<1>4. Earlier(e, f) \/ Earlier(f, e)
  BY <1>2, <1>3 DEF Earlier
<1> QED BY <1>4, BeforeMeans

\* Sorting puts every event in exactly one place, after all those before it.
LEMMA ScheduleIsSorted ==
  ASSUME NEW E, Ordered(E)
  PROVE  LET s == Schedule(E)
         IN  /\ s \in Seq(E) /\ E = {s[i] : i \in 1 .. Len(s)}
             /\ \A i, j \in 1 .. Len(s) : i < j => Before(s[i], s[j])
<1> DEFINE ahead(e) == {f \in E : Before(f, e)}
           place == [e \in E |-> Cardinality(ahead(e)) + 1]
           n == Cardinality(E)
           s == Schedule(E)
<1>1. n \in Nat /\ IsFiniteSet(E) /\ E \subseteq EventType
  BY FS_CardinalityType DEF Ordered
<1>2. ASSUME NEW e \in E
      PROVE  IsFiniteSet(ahead(e)) /\ Cardinality(ahead(e)) \in Nat /\ Cardinality(ahead(e)) < n
  <2>1. e \notin ahead(e) /\ ahead(e) \in SUBSET E
    BY <1>1, BeforeIsStrict
  <2> HIDE DEF ahead
  <2>2. IsFiniteSet(ahead(e)) /\ Cardinality(ahead(e)) <= n /\ Cardinality(ahead(e)) # n
    BY <1>1, <2>1, FS_Subset
  <2>3. Cardinality(ahead(e)) \in Nat
    BY <2>2, FS_CardinalityType
  <2> QED BY <1>1, <2>2, <2>3
<1>3. ASSUME NEW e \in E, NEW f \in E, Before(e, f)
      PROVE  place[e] < place[f]
  <2>1. ahead(e) \in SUBSET ahead(f) /\ e \in ahead(f) /\ e \notin ahead(e)
    BY <1>1, <1>3, BeforeIsStrict
  <2>2. /\ IsFiniteSet(ahead(e)) /\ IsFiniteSet(ahead(f))
        /\ Cardinality(ahead(e)) \in Nat /\ Cardinality(ahead(f)) \in Nat
    BY <1>2
  <2>3. place[e] = Cardinality(ahead(e)) + 1 /\ place[f] = Cardinality(ahead(f)) + 1
    OBVIOUS
  <2> HIDE DEF ahead, place
  <2>4. Cardinality(ahead(e)) <= Cardinality(ahead(f)) /\ Cardinality(ahead(e)) # Cardinality(ahead(f))
    BY <2>1, <2>2, FS_Subset
  <2> QED BY <2>2, <2>3, <2>4
<1>4. place \in [E -> 1 .. n]
  <2>1. ASSUME NEW e \in E PROVE Cardinality(ahead(e)) + 1 \in 1 .. n
    <3> HIDE DEF ahead, n, place
    <3>1. PICK c \in Nat : c = Cardinality(ahead(e)) /\ c < n
      BY <1>2
    <3>2. c + 1 \in 1 .. n
      BY <1>1, <3>1
    <3> QED BY <3>1, <3>2
  <2> HIDE DEF ahead
  <2> QED BY <2>1
<1>5. \A e, f \in E : e # f => place[e] # place[f]
  <2> SUFFICES ASSUME NEW e \in E, NEW f \in E, e # f PROVE place[e] # place[f]
    OBVIOUS
  <2>1. Before(e, f) \/ Before(f, e)
    BY BeforeIsTotal
  <2>2. place[e] < place[f] \/ place[f] < place[e]
    BY <1>3, <2>1
  <2>3. place[e] \in Int /\ place[f] \in Int
    BY <1>1, <1>4
  <2> HIDE DEF place
  <2> QED BY <2>2, <2>3
<1> HIDE DEF place
<1>6. \A i \in 1 .. n : \E e \in E : place[e] = i
  <2>1. place \in Injection(E, 1 .. n)
    BY <1>4, <1>5 DEF Injection, IsInjective
  <2>2. IsFiniteSet(1 .. n) /\ Cardinality(1 .. n) = n
    BY <1>1, FS_Interval
  <2> HIDE DEF n
  <2>3. place \in Surjection(E, 1 .. n)
    BY <1>1, <2>1, <2>2, FS_Injection DEF n
  <2> QED BY <2>3 DEF Surjection
<1>7. s = [i \in 1 .. n |-> CHOOSE e \in E : place[e] = i]
  BY DEF Schedule, place
<1> HIDE DEF s, n
<1>8. \A i \in 1 .. n : s[i] \in E /\ place[s[i]] = i
  <2> SUFFICES ASSUME NEW i \in 1 .. n PROVE s[i] \in E /\ place[s[i]] = i
    OBVIOUS
  <2>1. s[i] = CHOOSE e \in E : place[e] = i
    BY <1>7
  <2> QED BY <1>6, <2>1
<1>9. s \in [1 .. n -> E]
  BY <1>7, <1>8
<1>10. s \in Seq(E) /\ Len(s) = n
  BY <1>1, <1>9
<1>11. E = {s[i] : i \in 1 .. n}
  <2>1. ASSUME NEW e \in E PROVE e \in {s[i] : i \in 1 .. n}
    <3>1. place[e] \in 1 .. n
      BY <1>4
    <3>2. s[place[e]] \in E /\ place[s[place[e]]] = place[e]
      BY <1>8, <3>1
    <3>3. s[place[e]] = e
      BY <1>5, <3>2
    <3> QED BY <3>1, <3>3
  <2> QED BY <1>8, <2>1
<1>12. \A i, j \in 1 .. n : i < j => Before(s[i], s[j])
  <2> SUFFICES ASSUME NEW i \in 1 .. n, NEW j \in 1 .. n, i < j PROVE Before(s[i], s[j])
    OBVIOUS
  <2>1. s[i] \in E /\ s[j] \in E /\ place[s[i]] = i /\ place[s[j]] = j
    BY <1>8
  <2>2. s[i] # s[j]
    BY <2>1
  <2>3. Before(s[i], s[j]) \/ Before(s[j], s[i])
    BY <2>1, <2>2, BeforeIsTotal
  <2>4. Before(s[j], s[i]) => j < i
    BY <1>3, <2>1
  <2> QED BY <1>1, <2>3, <2>4
<1> QED BY <1>10, <1>11, <1>12 DEF s

-----------------------------------------------------------------------------
(* The events of a run. *)

\* The events of a cancel and of a mark.
CancelOf(c) ==
  OrderEvent(c.effective_at, CANCEL, run.submits[c.order_id], c.submitted_at, c.sequence, NoBucket)
MarkOf(i) == FactEvent(Marks[i].time, MARK, i, NoBucket)

\* The facts and the calendar a broker accepts.
LEMMA MarketTypes ==
  /\ DOMAIN Sessions = BucketIds /\ Dates = TradingDates
  /\ DayLength \in Nat \ {0} /\ StartAt \in Nat /\ EndAt \in Nat
  /\ IsFiniteSet(BucketIds) /\ IsFiniteSet(Symbols) /\ IsFiniteSet(DOMAIN Marks)
  /\ OrderIds \subseteq Int /\ Symbols \subseteq Int /\ DOMAIN Marks \subseteq Int
  /\ \A i \in DOMAIN Marks : Marks[i].time \in Nat /\ InRun(Marks[i].time)
  /\ \A b \in BucketIds : /\ Sessions[b].start \in Nat /\ Sessions[b].end \in Nat
                          /\ Sessions[b].start < Sessions[b].end
                          /\ DateOf(Sessions[b].start) \in TradingDates
  /\ TradingDates \subseteq Nat
BY BrokerAssumption, ClockAssumption DEF ValidFacts, ValidIds, ValidCalendar

\* What is accepted as a submission.
LEMMA SubmitType ==
  ASSUME NEW r, ValidRun(r), NEW o \in DOMAIN r.submits
  PROVE  LET c == r.submits[o]
         IN  /\ o \in OrderIds /\ c.order_id = o
             /\ c.symbol \in Symbols /\ c.side \in Sides /\ c.qty \in Quantities /\ c.limit \in Prices
             /\ c.submitted_at \in Nat /\ c.effective_at \in Nat /\ c.expires_at \in Nat
             /\ c.sequence \in Nat
             /\ InRun(c.submitted_at) /\ c.submitted_at < c.expires_at
             /\ DateOf(c.submitted_at) \in TradingDates
             /\ c.qty % Facts[<<c.symbol, DateOf(c.submitted_at)>>].lot_size = 0
<1> DEFINE c == r.submits[o]
<1>1. /\ o \in OrderIds /\ c \in Submit /\ c.order_id = o /\ ValidSubmit(c)
      /\ c.qty % Facts[<<c.symbol, DateOf(c.submitted_at)>>].lot_size = 0
  BY DEF ValidRun
<1> HIDE DEF c
<1>2. /\ c.symbol \in Symbols /\ c.side \in Sides /\ c.qty \in Quantities /\ c.limit \in Prices
      /\ c.submitted_at \in Nat /\ c.effective_at \in Nat /\ c.expires_at \in Nat
      /\ c.sequence \in Nat
  BY <1>1 DEF Submit
<1>3. InRun(c.submitted_at) /\ c.submitted_at < c.expires_at
  BY <1>1, <1>2 DEF ValidSubmit
<1> QED BY <1>1, <1>2, <1>3 DEF c, InRun

\* What is accepted as a cancel.
LEMMA CancelType ==
  ASSUME NEW r, ValidRun(r), NEW c \in r.cancels
  PROVE  /\ c.order_id \in DOMAIN r.submits
         /\ c.submitted_at \in Nat /\ c.effective_at \in Nat /\ c.sequence \in Nat
         /\ r.submits[c.order_id].submitted_at < c.effective_at
BY DEF ValidRun, Cancel, ValidCancel

\* The events of each kind: of the commands, of the buckets, of the marks.
SubmitEvents(r) ==
  {OwnEvent(r.submits[o].submitted_at, SUBMIT, r.submits[o], NoBucket) : o \in DOMAIN r.submits}
Expiring(r) == {o \in DOMAIN r.submits : WithinRun(r.submits[o].expires_at)}
ExpiryEvents(r) ==
  {OwnEvent(r.submits[o].expires_at, EXPIRY, r.submits[o], NoBucket) : o \in Expiring(r)}
Cancelling(r) == {c \in r.cancels : WithinRun(c.effective_at)}
CancelEvents(r) ==
  {OrderEvent(c.effective_at, CANCEL, r.submits[c.order_id], c.submitted_at, c.sequence, NoBucket) :
     c \in Cancelling(r)}
BucketEvents == {FactEvent(Sessions[b].end, BUCKET, s, b) : b \in DOMAIN Sessions, s \in Symbols}
Matching(r) ==
  {k \in (DOMAIN r.submits) \X (DOMAIN Sessions) :
     Eligible(r.submits[k[1]], r.submits[k[1]].symbol, k[2], Sessions[k[2]].end)}
MatchEvents(r) == {OwnEvent(Sessions[k[2]].end, MATCH, r.submits[k[1]], k[2]) : k \in Matching(r)}
MarkEvents == {FactEvent(MarkTimes[i], MARK, i, NoBucket) : i \in DOMAIN MarkTimes}

\* The commands of each kind and the facts make the events.
LEMMA EventKinds ==
  ASSUME NEW r
  PROVE  EventsOf(r) = SubmitEvents(r) \cup ExpiryEvents(r) \cup CancelEvents(r)
                         \cup BucketEvents \cup MatchEvents(r) \cup MarkEvents
<1>1. Events(r.submits, r.cancels, Symbols, MarkTimes)
        = SubmitEvents(r) \cup ExpiryEvents(r) \cup CancelEvents(r)
            \cup BucketEvents \cup MatchEvents(r) \cup MarkEvents
  BY DEF Events, SubmitEvents, ExpiryEvents, CancelEvents, BucketEvents, MatchEvents,
         MarkEvents, Expiring, Cancelling, Matching
<1> QED BY <1>1 DEF EventsOf

\* An order as its events show it.
LEMMA OrderShown ==
  ASSUME NEW r, ValidRun(r), NEW o \in DOMAIN r.submits
  PROVE  /\ o \in Int /\ r.submits[o].order_id = o
         /\ r.submits[o].submitted_at \in Nat /\ r.submits[o].effective_at \in Nat
         /\ r.submits[o].expires_at \in Nat /\ r.submits[o].sequence \in Nat
         /\ BuyFlag(r.submits[o].side) \in 0 .. 1
<1>1. BuyFlag(r.submits[o].side) \in 0 .. 1
  BY DEF BuyFlag
<1> QED BY <1>1, SubmitType, MarketTypes

\* Events have the fields of one.
LEMMA OwnEventType ==
  ASSUME NEW c, NEW at \in Nat, NEW phase \in 0 .. 5, c.order_id \in Int, BuyFlag(c.side) \in 0 .. 1,
         NEW t \in Nat, NEW n \in Nat, NEW b \in BucketIds \cup {NoBucket}
  PROVE  OrderEvent(at, phase, c, t, n, b) \in EventType
BY DEF EventType, OrderEvent

\* ... those of a bucket or a mark too.
LEMMA FactEventType ==
  ASSUME NEW at \in Nat, NEW phase \in 0 .. 5, NEW i \in Int, NEW b \in BucketIds \cup {NoBucket}
  PROVE  FactEvent(at, phase, i, b) \in EventType
BY DEF EventType, FactEvent

\* Every event has its fields.
LEMMA EventsHaveType ==
  ASSUME NEW r, ValidRun(r)
  PROVE  EventsOf(r) \subseteq EventType
<1>1. /\ SUBMIT \in 0 .. 5 /\ EXPIRY \in 0 .. 5 /\ CANCEL \in 0 .. 5
      /\ BUCKET \in 0 .. 5 /\ MATCH \in 0 .. 5 /\ MARK \in 0 .. 5
  BY DEF SUBMIT, EXPIRY, CANCEL, BUCKET, MATCH, MARK
<1>2. SubmitEvents(r) \subseteq EventType
  BY <1>1, OrderShown, OwnEventType DEF SubmitEvents, OwnEvent
<1>3. ExpiryEvents(r) \subseteq EventType
  BY <1>1, OrderShown, OwnEventType DEF ExpiryEvents, Expiring, OwnEvent
<1>4. CancelEvents(r) \subseteq EventType
  <2> SUFFICES ASSUME NEW c \in r.cancels
               PROVE  OrderEvent(c.effective_at, CANCEL, r.submits[c.order_id], c.submitted_at,
                                 c.sequence, NoBucket) \in EventType
    BY DEF CancelEvents, Cancelling
  <2>1. /\ c.order_id \in DOMAIN r.submits
        /\ c.submitted_at \in Nat /\ c.effective_at \in Nat /\ c.sequence \in Nat
    BY CancelType
  <2>2. r.submits[c.order_id].order_id \in Int /\ BuyFlag(r.submits[c.order_id].side) \in 0 .. 1
    BY <2>1, OrderShown
  <2> QED BY <1>1, <2>1, <2>2, OwnEventType
<1>5. BucketEvents \subseteq EventType
  <2> SUFFICES ASSUME NEW b \in BucketIds, NEW s \in Symbols
               PROVE  FactEvent(Sessions[b].end, BUCKET, s, b) \in EventType
    BY MarketTypes DEF BucketEvents
  <2>1. Sessions[b].end \in Nat /\ s \in Int
    BY MarketTypes
  <2> QED BY <1>1, <2>1, FactEventType
<1>6. MatchEvents(r) \subseteq EventType
  <2> SUFFICES ASSUME NEW o \in DOMAIN r.submits, NEW b \in BucketIds
               PROVE  OwnEvent(Sessions[b].end, MATCH, r.submits[o], b) \in EventType
    BY MarketTypes DEF MatchEvents, Matching
  <2>1. Sessions[b].end \in Nat
    BY MarketTypes
  <2> QED BY <1>1, <2>1, OrderShown, OwnEventType DEF OwnEvent
<1>7. MarkEvents \subseteq EventType
  <2> SUFFICES ASSUME NEW i \in DOMAIN Marks
               PROVE  FactEvent(Marks[i].time, MARK, i, NoBucket) \in EventType
    BY DEF MarkEvents, MarkTimes
  <2>1. Marks[i].time \in Nat /\ i \in Int
    BY MarketTypes DEF InRun
  <2> QED BY <1>1, <2>1, FactEventType
<1> QED BY <1>2, <1>3, <1>4, <1>5, <1>6, <1>7, EventKinds

\* Pairs and their components.
LEMMA Pairs ==
  ASSUME NEW S, NEW T
  PROVE  /\ \A k \in S \X T : k[1] \in S /\ k[2] \in T
         /\ \A s \in S, t \in T : <<s, t>> \in S \X T /\ <<s, t>>[1] = s /\ <<s, t>>[2] = t
         /\ IsFiniteSet(S) /\ IsFiniteSet(T) => IsFiniteSet(S \X T)
<1>1. IsFiniteSet(S) /\ IsFiniteSet(T) => IsFiniteSet(S \X T)
  BY FS_Product
<1> QED BY <1>1

\* What a finite set is mapped to is finite.
LEMMA ImageIsFinite ==
  ASSUME NEW S, IsFiniteSet(S), NEW g, NEW T, T = {g[x] : x \in S}
  PROVE  IsFiniteSet(T)
<1>1. [x \in S |-> g[x]] \in Surjection(S, T)
  BY Zenon DEF Surjection
<1> QED BY <1>1, FS_Surjection

\* There are finitely many events.
LEMMA EventsAreFinite ==
  ASSUME NEW r, ValidRun(r)
  PROVE  IsFiniteSet(EventsOf(r))
<1>1. IsFiniteSet(DOMAIN r.submits) /\ IsFiniteSet(r.cancels)
  <2>1. DOMAIN r.submits \in SUBSET OrderIds /\ IsFiniteSet(r.cancels) /\ IsFiniteSet(OrderIds)
    BY LedgerAssumption DEF ValidRun
  <2> QED BY <2>1, FS_Subset
<1>2. IsFiniteSet(SubmitEvents(r))
  <2> DEFINE g == [o \in DOMAIN r.submits |->
                     OwnEvent(r.submits[o].submitted_at, SUBMIT, r.submits[o], NoBucket)]
  <2>1. SubmitEvents(r) = {g[o] : o \in DOMAIN r.submits}
    BY DEF SubmitEvents
  <2> HIDE DEF g
  <2> QED BY <1>1, <2>1, ImageIsFinite
<1>3. IsFiniteSet(ExpiryEvents(r))
  <2> DEFINE g == [o \in Expiring(r) |->
                     OwnEvent(r.submits[o].expires_at, EXPIRY, r.submits[o], NoBucket)]
  <2>1. ExpiryEvents(r) = {g[o] : o \in Expiring(r)}
    BY DEF ExpiryEvents
  <2>2. Expiring(r) \in SUBSET DOMAIN r.submits
    BY DEF Expiring
  <2> HIDE DEF g
  <2>3. IsFiniteSet(Expiring(r))
    BY <1>1, <2>2, FS_Subset
  <2> QED BY <2>1, <2>3, ImageIsFinite
<1>4. IsFiniteSet(CancelEvents(r))
  <2> DEFINE g == [c \in Cancelling(r) |->
                     OrderEvent(c.effective_at, CANCEL, r.submits[c.order_id],
                                c.submitted_at, c.sequence, NoBucket)]
  <2>1. CancelEvents(r) = {g[c] : c \in Cancelling(r)}
    BY DEF CancelEvents
  <2>2. Cancelling(r) \in SUBSET r.cancels
    BY DEF Cancelling
  <2> HIDE DEF g
  <2>3. IsFiniteSet(Cancelling(r))
    BY <1>1, <2>2, FS_Subset
  <2> QED BY <2>1, <2>3, ImageIsFinite
<1>5. IsFiniteSet(BucketEvents)
  <2> DEFINE K == (DOMAIN Sessions) \X Symbols
             g == [k \in K |-> FactEvent(Sessions[k[1]].end, BUCKET, k[2], k[1])]
  <2>1. BucketEvents = {g[k] : k \in K}
    <3>1. ASSUME NEW b \in DOMAIN Sessions, NEW s \in Symbols
          PROVE  FactEvent(Sessions[b].end, BUCKET, s, b) \in {g[k] : k \in K}
      <4> DEFINE k == <<b, s>>
      <4>0. k \in K /\ k[1] = b /\ k[2] = s
        BY Pairs, Zenon
      <4> HIDE DEF k, K
      <4>1. k \in K /\ g[k] = FactEvent(Sessions[b].end, BUCKET, s, b)
        BY <4>0
      <4> HIDE DEF g, K
      <4> QED BY <4>1
    <3>2. ASSUME NEW k \in K
          PROVE  g[k] \in BucketEvents
      <4>0. k[1] \in DOMAIN Sessions /\ k[2] \in Symbols
        BY Pairs, Zenon
      <4> HIDE DEF K
      <4>1. k[1] \in DOMAIN Sessions /\ k[2] \in Symbols
            /\ g[k] = FactEvent(Sessions[k[1]].end, BUCKET, k[2], k[1])
        BY <4>0
      <4> HIDE DEF g, K
      <4> QED BY <4>1 DEF BucketEvents
    <3> HIDE DEF g, K
    <3>3. BucketEvents \subseteq {g[k] : k \in K}
      BY <3>1 DEF BucketEvents
    <3> QED BY <3>2, <3>3
  <2> HIDE DEF g
  <2>2. IsFiniteSet(DOMAIN Sessions) /\ IsFiniteSet(Symbols)
    BY MarketTypes
  <2>3. IsFiniteSet(K)
    BY <2>2, Pairs, Zenon
  <2> HIDE DEF K
  <2> QED BY <2>1, <2>3, ImageIsFinite
<1>6. IsFiniteSet(MatchEvents(r))
  <2> DEFINE g == [k \in Matching(r) |-> OwnEvent(Sessions[k[2]].end, MATCH, r.submits[k[1]], k[2])]
             K == (DOMAIN r.submits) \X (DOMAIN Sessions)
  <2>1. MatchEvents(r) = {g[k] : k \in Matching(r)}
    BY DEF MatchEvents
  <2>2. IsFiniteSet(DOMAIN Sessions)
    BY MarketTypes
  <2>3. IsFiniteSet(K)
    BY <1>1, <2>2, Pairs, Zenon
  <2>4. Matching(r) \in SUBSET K
    BY DEF Matching
  <2> HIDE DEF g, K
  <2>5. IsFiniteSet(Matching(r))
    BY <2>3, <2>4, FS_Subset
  <2> QED BY <2>1, <2>5, ImageIsFinite
<1>7. IsFiniteSet(MarkEvents)
  <2> DEFINE g == [i \in DOMAIN MarkTimes |-> FactEvent(MarkTimes[i], MARK, i, NoBucket)]
  <2>1. MarkEvents = {g[i] : i \in DOMAIN MarkTimes}
    BY DEF MarkEvents
  <2>2. IsFiniteSet(DOMAIN MarkTimes)
    BY MarketTypes DEF MarkTimes
  <2> HIDE DEF g
  <2> QED BY <2>1, <2>2, ImageIsFinite
<1>8. IsFiniteSet(SubmitEvents(r) \cup ExpiryEvents(r) \cup CancelEvents(r))
  BY <1>2, <1>3, <1>4, FS_Union
<1>9. IsFiniteSet(BucketEvents \cup MatchEvents(r) \cup MarkEvents)
  BY <1>5, <1>6, <1>7, FS_Union
<1>10. EventsOf(r) = (SubmitEvents(r) \cup ExpiryEvents(r) \cup CancelEvents(r))
                       \cup (BucketEvents \cup MatchEvents(r) \cup MarkEvents)
  BY EventKinds
<1> QED BY <1>8, <1>9, <1>10, FS_Union

\* The schedule of a run is well defined.
LEMMA EventsAreOrdered ==
  ASSUME NEW r, ValidRun(r)
  PROVE  Ordered(EventsOf(r))
<1>1. \A e, f \in EventsOf(r) : Key(e) = Key(f) => e = f
  BY DEF ValidRun, Unambiguous
<1> QED BY <1>1, EventsHaveType, EventsAreFinite DEF Ordered

\* What the events of orders, buckets and cancels say.
LEMMA EventFields ==
  /\ \A o : /\ SubmitOf(o).time = run.submits[o].submitted_at /\ SubmitOf(o).phase = SUBMIT
            /\ SubmitOf(o).id = run.submits[o].order_id
  /\ \A o : /\ ExpiryOf(o).time = run.submits[o].expires_at /\ ExpiryOf(o).phase = EXPIRY
            /\ ExpiryOf(o).id = run.submits[o].order_id
  /\ \A s, b : /\ BucketOf(s, b).time = Sessions[b].end /\ BucketOf(s, b).phase = BUCKET
               /\ BucketOf(s, b).id = s /\ BucketOf(s, b).bucket = b
  /\ \A c : /\ CancelOf(c).time = c.effective_at /\ CancelOf(c).phase = CANCEL
            /\ CancelOf(c).id = run.submits[c.order_id].order_id
  /\ \A i : MarkOf(i).phase = MARK
BY DEF SubmitOf, ExpiryOf, BucketOf, CancelOf, MarkOf, OwnEvent, OrderEvent, FactEvent

\* What the match of an order and a bucket says.
LEMMA MatchFields ==
  ASSUME NEW o, NEW b
  PROVE  /\ MatchOf(o, b).time = Sessions[b].end /\ MatchOf(o, b).phase = MATCH
         /\ MatchOf(o, b).id = run.submits[o].order_id /\ MatchOf(o, b).bucket = b
         /\ MatchOf(o, b).buy = BuyFlag(run.submits[o].side)
         /\ MatchOf(o, b).submitted_at = run.submits[o].submitted_at
         /\ MatchOf(o, b).sequence = run.submits[o].sequence
BY DEF MatchOf, OwnEvent, OrderEvent

\* The phases are different.
LEMMA Phases ==
  /\ EXPIRY = 0 /\ CANCEL = 1 /\ BUCKET = 2 /\ MATCH = 3 /\ SUBMIT = 4 /\ MARK = 5
BY DEF SUBMIT, EXPIRY, CANCEL, BUCKET, MATCH, MARK

\* Every event is of one of the six kinds.
LEMMA EventOf ==
  ASSUME ValidRun(run), NEW e \in EventsOf(run)
  PROVE  \/ \E o \in DOMAIN run.submits : e = SubmitOf(o)
         \/ \E o \in DOMAIN run.submits : e = ExpiryOf(o) /\ WithinRun(run.submits[o].expires_at)
         \/ \E c \in run.cancels : e = CancelOf(c) /\ WithinRun(c.effective_at)
         \/ \E s \in Symbols, b \in BucketIds : e = BucketOf(s, b)
         \/ \E o \in DOMAIN run.submits, b \in BucketIds :
              /\ e = MatchOf(o, b)
              /\ Eligible(run.submits[o], run.submits[o].symbol, b, Sessions[b].end)
         \/ \E i \in DOMAIN Marks : e = MarkOf(i)
<1>1. CASE e \in SubmitEvents(run)
  BY <1>1 DEF SubmitEvents, SubmitOf
<1>2. CASE e \in ExpiryEvents(run)
  BY <1>2 DEF ExpiryEvents, Expiring, ExpiryOf
<1>3. CASE e \in CancelEvents(run)
  BY <1>3 DEF CancelEvents, Cancelling, CancelOf
<1>4. CASE e \in BucketEvents
  <2>1. PICK b \in DOMAIN Sessions, s \in Symbols : e = FactEvent(Sessions[b].end, BUCKET, s, b)
    BY <1>4 DEF BucketEvents
  <2> QED BY <2>1, MarketTypes DEF BucketOf
<1>5. CASE e \in MatchEvents(run)
  <2>1. PICK k \in Matching(run) : e = OwnEvent(Sessions[k[2]].end, MATCH, run.submits[k[1]], k[2])
    BY <1>5 DEF MatchEvents
  <2>2. /\ k[1] \in DOMAIN run.submits /\ k[2] \in DOMAIN Sessions
        /\ Eligible(run.submits[k[1]], run.submits[k[1]].symbol, k[2], Sessions[k[2]].end)
    BY DEF Matching
  <2>3. e = MatchOf(k[1], k[2])
    BY <2>1 DEF MatchOf
  <2> QED BY <2>2, <2>3, MarketTypes
<1>6. CASE e \in MarkEvents
  BY <1>6 DEF MarkEvents, MarkTimes, MarkOf
<1> QED BY <1>1, <1>2, <1>3, <1>4, <1>5, <1>6, EventKinds

\* What an event of each phase is about.
LEMMA EventIs ==
  ASSUME ValidRun(run), NEW e \in EventsOf(run)
  PROVE  /\ e.phase = SUBMIT => e.id \in DOMAIN run.submits /\ e = SubmitOf(e.id)
         /\ e.phase = EXPIRY => e.id \in DOMAIN run.submits /\ e = ExpiryOf(e.id)
         /\ e.phase = CANCEL =>
              /\ e.id \in DOMAIN run.submits /\ run.submits[e.id].submitted_at < e.time
              /\ WithinRun(e.time)
         /\ e.phase = BUCKET =>
              e.id \in Symbols /\ e.bucket \in BucketIds /\ e = BucketOf(e.id, e.bucket)
         /\ e.phase = MATCH =>
              /\ e.id \in DOMAIN run.submits /\ e.bucket \in BucketIds /\ e = MatchOf(e.id, e.bucket)
              /\ Eligible(run.submits[e.id], run.submits[e.id].symbol, e.bucket, e.time)
<1>0. \A o \in DOMAIN run.submits : run.submits[o].order_id = o
  BY OrderShown
<1>1. CASE \E o \in DOMAIN run.submits : e = SubmitOf(o)
  <2>1. PICK o \in DOMAIN run.submits : e = SubmitOf(o)
    BY <1>1
  <2>2. e.phase = SUBMIT /\ e.id = o
    BY <2>1, <1>0, EventFields
  <2> QED BY <2>1, <2>2, Phases
<1>2. CASE \E o \in DOMAIN run.submits : e = ExpiryOf(o)
  <2>1. PICK o \in DOMAIN run.submits : e = ExpiryOf(o)
    BY <1>2
  <2>2. e.phase = EXPIRY /\ e.id = o
    BY <2>1, <1>0, EventFields
  <2> QED BY <2>1, <2>2, Phases
<1>3. CASE \E c \in run.cancels : e = CancelOf(c) /\ WithinRun(c.effective_at)
  <2>1. PICK c \in run.cancels : e = CancelOf(c) /\ WithinRun(c.effective_at)
    BY <1>3
  <2>2. c.order_id \in DOMAIN run.submits /\ run.submits[c.order_id].submitted_at < c.effective_at
    BY CancelType
  <2>3. e.phase = CANCEL /\ e.id = c.order_id /\ e.time = c.effective_at
    BY <2>1, <2>2, <1>0, EventFields
  <2> QED BY <2>1, <2>2, <2>3, Phases
<1>4. CASE \E s \in Symbols, b \in BucketIds : e = BucketOf(s, b)
  <2>1. PICK s \in Symbols, b \in BucketIds : e = BucketOf(s, b)
    BY <1>4
  <2>2. e.phase = BUCKET /\ e.id = s /\ e.bucket = b
    BY <2>1, EventFields
  <2> QED BY <2>1, <2>2, Phases
<1>5. CASE \E o \in DOMAIN run.submits, b \in BucketIds :
             /\ e = MatchOf(o, b)
             /\ Eligible(run.submits[o], run.submits[o].symbol, b, Sessions[b].end)
  <2>1. PICK o \in DOMAIN run.submits, b \in BucketIds :
          /\ e = MatchOf(o, b)
          /\ Eligible(run.submits[o], run.submits[o].symbol, b, Sessions[b].end)
    BY <1>5
  <2>2. MatchOf(o, b).id = o /\ MatchOf(o, b).phase = MATCH /\ MatchOf(o, b).bucket = b
        /\ MatchOf(o, b).time = Sessions[b].end
    BY <1>0, MatchFields
  <2>3. e.phase = MATCH /\ e.id = o /\ e.bucket = b /\ e.time = Sessions[b].end
    BY <2>1, <2>2
  <2> QED BY <2>1, <2>3, Phases
<1>6. CASE \E i \in DOMAIN Marks : e = MarkOf(i)
  <2>1. PICK i \in DOMAIN Marks : e = MarkOf(i)
    BY <1>6
  <2>2. e.phase = MARK
    BY <2>1, EventFields
  <2> QED BY <2>2, Phases
<1> QED BY <1>1, <1>2, <1>3, <1>4, <1>5, <1>6, EventOf

\* The events a command or a bucket has.
LEMMA EventExists ==
  ASSUME ValidRun(run)
  PROVE  /\ \A o \in DOMAIN run.submits :
              /\ SubmitOf(o) \in EventsOf(run)
              /\ WithinRun(run.submits[o].expires_at) => ExpiryOf(o) \in EventsOf(run)
         /\ \A s \in Symbols, b \in BucketIds : BucketOf(s, b) \in EventsOf(run)
         /\ \A o \in DOMAIN run.submits, b \in BucketIds :
              Eligible(run.submits[o], run.submits[o].symbol, b, Sessions[b].end)
                => MatchOf(o, b) \in EventsOf(run)
<1>1. \A o \in DOMAIN run.submits : SubmitOf(o) \in SubmitEvents(run)
  BY DEF SubmitEvents, SubmitOf
<1>2. \A o \in DOMAIN run.submits :
        WithinRun(run.submits[o].expires_at) => ExpiryOf(o) \in ExpiryEvents(run)
  BY DEF ExpiryEvents, Expiring, ExpiryOf
<1>3. \A s \in Symbols, b \in BucketIds : BucketOf(s, b) \in BucketEvents
  BY MarketTypes DEF BucketEvents, BucketOf
<1>4. ASSUME NEW o \in DOMAIN run.submits, NEW b \in BucketIds,
             Eligible(run.submits[o], run.submits[o].symbol, b, Sessions[b].end)
      PROVE  MatchOf(o, b) \in MatchEvents(run)
  <2> DEFINE k == <<o, b>>
  <2>1. k \in (DOMAIN run.submits) \X (DOMAIN Sessions) /\ k[1] = o /\ k[2] = b
    BY MarketTypes
  <2> HIDE DEF k
  <2>2. k \in Matching(run)
    BY <1>4, <2>1 DEF Matching
  <2>3. MatchOf(o, b) = OwnEvent(Sessions[k[2]].end, MATCH, run.submits[k[1]], k[2])
    BY <2>1 DEF MatchOf
  <2> QED BY <2>2, <2>3 DEF MatchEvents
<1> QED BY <1>1, <1>2, <1>3, <1>4, EventKinds

\* The instants and the keys of a run's events.
LEMMA EventTimes ==
  ASSUME ValidRun(run), NEW o \in DOMAIN run.submits
  PROVE  /\ run.submits[o].submitted_at \in Nat /\ run.submits[o].effective_at \in Nat
         /\ run.submits[o].expires_at \in Nat /\ run.submits[o].sequence \in Nat
         /\ run.submits[o].order_id = o /\ o \in Int /\ o \in OrderIds
         /\ run.submits[o].submitted_at < run.submits[o].expires_at
         /\ run.submits[o].symbol \in Symbols /\ run.submits[o].side \in Sides
<1>1. /\ run.submits[o].submitted_at \in Nat /\ run.submits[o].effective_at \in Nat
      /\ run.submits[o].expires_at \in Nat /\ run.submits[o].sequence \in Nat
      /\ run.submits[o].order_id = o /\ o \in Int
  BY OrderShown
<1> QED BY <1>1, SubmitType

\* A match is one the order is eligible for.
LEMMA MatchIsEligible ==
  ASSUME ValidRun(run), NEW o \in DOMAIN run.submits, NEW b \in BucketIds,
         MatchOf(o, b) \in EventsOf(run)
  PROVE  Eligible(run.submits[o], run.submits[o].symbol, b, Sessions[b].end)
<1>1. MatchOf(o, b).phase = MATCH /\ MatchOf(o, b).id = o /\ MatchOf(o, b).bucket = b
      /\ MatchOf(o, b).time = Sessions[b].end
  BY MatchFields, EventTimes
<1> DEFINE e == MatchOf(o, b)
<1>2. e \in EventsOf(run) /\ e.phase = MATCH
  BY <1>1
<1> HIDE DEF e
<1>3. Eligible(run.submits[e.id], run.submits[e.id].symbol, e.bucket, e.time)
  BY <1>2, EventIs
<1> QED BY <1>1, <1>3 DEF e

\* An order is submitted before it is matched, and matched before it expires; a
\* bucket is visible before it is matched.
LEMMA MatchOrder ==
  ASSUME ValidRun(run), NEW o \in DOMAIN run.submits, NEW b \in BucketIds,
         MatchOf(o, b) \in EventsOf(run)
  PROVE  /\ Before(SubmitOf(o), MatchOf(o, b))
         /\ Before(BucketOf(run.submits[o].symbol, b), MatchOf(o, b))
         /\ Before(MatchOf(o, b), ExpiryOf(o))
<1>1. /\ run.submits[o].submitted_at < Sessions[b].start
      /\ Sessions[b].end < run.submits[o].expires_at
  BY MatchIsEligible DEF Eligible
<1>2. /\ Sessions[b].start \in Nat /\ Sessions[b].end \in Nat /\ Sessions[b].start < Sessions[b].end
      /\ run.submits[o].submitted_at \in Nat /\ run.submits[o].expires_at \in Nat
  BY MarketTypes, EventTimes
<1>3. MatchOf(o, b).time = Sessions[b].end /\ MatchOf(o, b).phase = MATCH
  BY MatchFields
<1>4. Earlier(SubmitOf(o), MatchOf(o, b))
  <2>1. SubmitOf(o).time = run.submits[o].submitted_at
    BY EventFields
  <2>2. run.submits[o].submitted_at < Sessions[b].end
    BY <1>1, <1>2
  <2> QED BY <1>3, <2>1, <2>2 DEF Earlier
<1>5. Earlier(MatchOf(o, b), ExpiryOf(o))
  BY <1>1, <1>2, <1>3, EventFields DEF Earlier
<1>6. /\ BucketOf(run.submits[o].symbol, b).time = Sessions[b].end
      /\ BucketOf(run.submits[o].symbol, b).phase = BUCKET
  BY EventFields
<1>7. Earlier(BucketOf(run.submits[o].symbol, b), MatchOf(o, b))
  BY <1>3, <1>6, Phases DEF Earlier
<1> QED BY <1>4, <1>5, <1>7, BeforeMeans

\* An order is submitted before it expires or is cancelled, and a cancel that is
\* not before the expiry comes after it.
LEMMA ReleaseOrder ==
  ASSUME ValidRun(run), NEW e \in EventsOf(run), e.phase \in {EXPIRY, CANCEL}
  PROVE  /\ e.id \in DOMAIN run.submits /\ Before(SubmitOf(e.id), e)
         /\ e.phase = CANCEL /\ ~(e.time < run.submits[e.id].expires_at) => Before(ExpiryOf(e.id), e)
<1>1. /\ e.id \in DOMAIN run.submits
      /\ e.phase = EXPIRY => e = ExpiryOf(e.id)
      /\ e.phase = CANCEL => run.submits[e.id].submitted_at < e.time
  BY EventIs
<1>2. /\ run.submits[e.id].submitted_at \in Nat /\ run.submits[e.id].expires_at \in Nat
      /\ run.submits[e.id].submitted_at < run.submits[e.id].expires_at
  BY <1>1, EventTimes
<1>3. e.phase = EXPIRY => e.time = run.submits[e.id].expires_at
  BY <1>1, EventFields
<1>4. Earlier(SubmitOf(e.id), e)
  BY <1>1, <1>2, <1>3, EventFields DEF Earlier
<1>5. e.time \in Nat
  BY EventsHaveType DEF EventType
<1>6. ASSUME e.phase = CANCEL, ~(e.time < run.submits[e.id].expires_at)
      PROVE  Earlier(ExpiryOf(e.id), e)
  <2>1. ExpiryOf(e.id).time = run.submits[e.id].expires_at /\ ExpiryOf(e.id).phase = EXPIRY
    BY EventFields
  <2> QED BY <1>2, <1>5, <1>6, <2>1, Phases DEF Earlier
<1> QED BY <1>1, <1>4, <1>6, BeforeMeans

-----------------------------------------------------------------------------
(* The agenda. *)

\* The events of the run, none of which is before itself or before one before it.
LEMMA OrderIsStrict ==
  ASSUME ValidRun(run), NEW e \in EventsOf(run), NEW f \in EventsOf(run)
  PROVE  ~Before(e, e) /\ (Before(e, f) => ~Before(f, e))
<1>1. e \in EventType /\ f \in EventType
  BY EventsHaveType
<1> QED BY <1>1, BeforeIsStrict

\* The agenda starts as the whole schedule.
LEMMA AgendaStarts ==
  ASSUME ValidRun(run), agenda = Schedule(EventsOf(run))
  PROVE  AgendaFits /\ Pending = EventsOf(run)
<1> DEFINE E == EventsOf(run)
<1>1. Ordered(E)
  BY EventsAreOrdered
<1> HIDE DEF E
<1>2. LET s == Schedule(E)
      IN  /\ s \in Seq(E) /\ E = {s[i] : i \in 1 .. Len(s)}
          /\ \A i, j \in 1 .. Len(s) : i < j => Before(s[i], s[j])
  BY <1>1, ScheduleIsSorted
<1>3. agenda = Schedule(E)
  BY DEF E
<1>4. /\ agenda \in Seq(E) /\ E = Pending
      /\ \A i, j \in 1 .. Len(agenda) : i < j => Before(agenda[i], agenda[j])
  BY <1>2, <1>3 DEF Pending
<1> QED BY <1>4 DEF AgendaFits, E

\* What is handled next: after everything handled, before everything else.
LEMMA HeadIsNext ==
  ASSUME ValidRun(run), AgendaFits, agenda # <<>>, NEW e, e = Head(agenda)
  PROVE  /\ e \in Pending /\ Pending \subseteq EventsOf(run)
         /\ \A f \in EventsOf(run) : Before(f, e) => f \notin Pending
         /\ \A f \in EventsOf(run) : Before(e, f) => f \in Pending \ {e}
<1>1. agenda \in Seq(EventsOf(run)) /\ Len(agenda) \in Nat /\ Len(agenda) # 0 /\ e = agenda[1]
  BY DEF AgendaFits
<1>2. 1 \in 1 .. Len(agenda)
  BY <1>1
<1>3. e \in Pending /\ Pending \subseteq EventsOf(run) /\ e \in EventsOf(run)
  BY <1>1, <1>2 DEF Pending
<1>4. ASSUME NEW f \in Pending, f # e PROVE Before(e, f)
  <2>1. PICK i \in 1 .. Len(agenda) : f = agenda[i]
    BY DEF Pending
  <2>2. 1 < i
    BY <1>1, <1>4, <2>1
  <2> QED BY <1>1, <1>2, <2>1, <2>2 DEF AgendaFits
<1>5. \A f \in EventsOf(run) \ Pending : Before(f, e)
  BY <1>3 DEF AgendaFits
<1>6. ASSUME NEW f \in EventsOf(run), Before(f, e) PROVE f \notin Pending
  BY <1>3, <1>4, <1>6, OrderIsStrict
<1>7. ASSUME NEW f \in EventsOf(run), Before(e, f) PROVE f \in Pending \ {e}
  BY <1>3, <1>5, <1>7, OrderIsStrict
<1> QED BY <1>3, <1>6, <1>7

\* Handling the next event takes it, and only it, off the agenda.
LEMMA AgendaMoves ==
  ASSUME ValidRun(run), AgendaFits, agenda # <<>>, agenda' = Tail(agenda), run' = run
  PROVE  AgendaFits' /\ Pending' = Pending \ {Head(agenda)}
<1> DEFINE e == Head(agenda)
           n == Len(agenda)
<1>1. /\ agenda \in Seq(EventsOf(run)) /\ n \in Nat /\ n # 0 /\ e = agenda[1]
      /\ agenda' \in Seq(EventsOf(run)) /\ Len(agenda') = n - 1
      /\ \A i \in 1 .. (n - 1) : agenda'[i] = agenda[i + 1]
  BY DEF AgendaFits
<1>2. EventsOf(run)' = EventsOf(run)
  BY DEF EventsOf
<1>3. e \in Pending /\ Pending \subseteq EventsOf(run)
  BY HeadIsNext
<1> HIDE DEF e, n
<1>4. \A i, j \in 1 .. n : i < j => Before(agenda[i], agenda[j])
  BY DEF AgendaFits, n
<1>5. \A i \in 1 .. n : agenda[i] \in EventsOf(run)
  BY <1>1 DEF n
<1>6. Pending = {agenda[i] : i \in 1 .. n}
  BY DEF Pending, n
<1>7. Pending' = {agenda'[i] : i \in 1 .. (n - 1)}
  BY <1>1 DEF Pending
<1>8. ASSUME NEW i \in 1 .. (n - 1) PROVE agenda'[i] \in Pending \ {e}
  <2>1. i + 1 \in 1 .. n /\ 1 \in 1 .. n /\ 1 < i + 1 /\ agenda'[i] = agenda[i + 1]
    BY <1>1
  <2>2. Before(e, agenda[i + 1])
    BY <1>1, <1>4, <2>1
  <2>3. agenda[i + 1] # e
    BY <1>3, <2>2, OrderIsStrict
  <2> QED BY <1>6, <2>1, <2>3
<1>9. ASSUME NEW f \in Pending \ {e} PROVE f \in Pending'
  <2>1. PICK i \in 1 .. n : f = agenda[i]
    BY <1>6
  <2>2. i # 1
    BY <1>1, <2>1
  <2>3. i - 1 \in 1 .. (n - 1) /\ agenda'[i - 1] = agenda[i]
    BY <1>1, <2>2
  <2> QED BY <1>7, <2>1, <2>3
<1>10. Pending' = Pending \ {e}
  BY <1>7, <1>8, <1>9
<1>11. \A i, j \in 1 .. Len(agenda') : i < j => Before(agenda'[i], agenda'[j])
  <2> SUFFICES ASSUME NEW i \in 1 .. (n - 1), NEW j \in 1 .. (n - 1), i < j
               PROVE  Before(agenda'[i], agenda'[j])
    BY <1>1
  <2>1. i + 1 \in 1 .. n /\ j + 1 \in 1 .. n /\ i + 1 < j + 1
    BY <1>1
  <2>2. agenda'[i] = agenda[i + 1] /\ agenda'[j] = agenda[j + 1]
    BY <1>1
  <2> QED BY <1>4, <2>1, <2>2
<1>12. \A f \in EventsOf(run) \ Pending', g \in Pending' : Before(f, g)
  <2> SUFFICES ASSUME NEW f \in EventsOf(run), f \notin Pending', NEW g \in Pending'
               PROVE  Before(f, g)
    OBVIOUS
  <2>1. g \in Pending /\ g # e
    BY <1>10
  <2>2. CASE f = e
    <3>1. PICK i \in 1 .. n : g = agenda[i]
      BY <1>6, <2>1
    <3>2. 1 \in 1 .. n /\ 1 < i
      BY <1>1, <2>1, <3>1
    <3> QED BY <1>1, <1>4, <2>2, <3>1, <3>2
  <2>3. CASE f \notin Pending
    BY <2>1, <2>3 DEF AgendaFits
  <2> QED BY <1>10, <2>2, <2>3
<1> QED BY <1>1, <1>2, <1>10, <1>11, <1>12 DEF AgendaFits, e

\* What is before an event that was handled was handled too.
LEMMA HandledBefore ==
  ASSUME ValidRun(run), AgendaFits, NEW e \in EventsOf(run), NEW f \in EventsOf(run),
         Before(e, f), f \notin Pending
  PROVE  e \notin Pending
BY OrderIsStrict DEF AgendaFits

\* A match is handled after the order was submitted and the bucket arrived.
LEMMA MatchedMeans ==
  ASSUME ValidRun(run), AgendaFits, NEW o \in DOMAIN run.submits, NEW b \in BucketIds, Matched(o, b)
  PROVE  Submitted(o) /\ Known(run.submits[o].symbol, b)
<1>1. MatchOf(o, b) \in EventsOf(run) /\ MatchOf(o, b) \notin Pending
  BY DEF Matched
<1>2. /\ Before(SubmitOf(o), MatchOf(o, b))
      /\ Before(BucketOf(run.submits[o].symbol, b), MatchOf(o, b))
  BY <1>1, MatchOrder
<1>3. run.submits[o].symbol \in Symbols
  BY EventTimes
<1>4. SubmitOf(o) \in EventsOf(run) /\ BucketOf(run.submits[o].symbol, b) \in EventsOf(run)
  BY <1>3, EventExists
<1> QED BY <1>1, <1>2, <1>4, HandledBefore DEF Submitted, Known

\* What the event handled next is about, and what has been handled before it.
LEMMA HeadMeans ==
  ASSUME ValidRun(run), AgendaFits, agenda # <<>>, NEW e, e = Head(agenda)
  PROVE  /\ e.phase = SUBMIT => e.id \in DOMAIN run.submits /\ ~Submitted(e.id)
         /\ e.phase \in {EXPIRY, CANCEL} => e.id \in DOMAIN run.submits /\ Submitted(e.id)
         /\ e.phase = CANCEL /\ ~(e.time < run.submits[e.id].expires_at) =>
              WithinRun(run.submits[e.id].expires_at) /\ Lapsed(e.id)
         /\ e.phase = BUCKET => e.id \in Symbols /\ e.bucket \in BucketIds /\ ~Known(e.id, e.bucket)
         /\ e.phase = MATCH =>
              /\ e.id \in DOMAIN run.submits /\ e.bucket \in BucketIds
              /\ MatchOf(e.id, e.bucket) \in EventsOf(run) /\ ~Matched(e.id, e.bucket)
              /\ Submitted(e.id) /\ Known(run.submits[e.id].symbol, e.bucket)
<1>1. /\ e \in Pending /\ Pending \subseteq EventsOf(run) /\ e \in EventsOf(run)
      /\ \A f \in EventsOf(run) : Before(f, e) => f \notin Pending
  BY HeadIsNext
<1>2. ASSUME e.phase = SUBMIT
      PROVE  e.id \in DOMAIN run.submits /\ ~Submitted(e.id)
  BY <1>1, <1>2, EventIs DEF Submitted
<1>3. ASSUME e.phase \in {EXPIRY, CANCEL}
      PROVE  /\ e.id \in DOMAIN run.submits /\ Submitted(e.id)
             /\ e.phase = CANCEL /\ ~(e.time < run.submits[e.id].expires_at) =>
                  WithinRun(run.submits[e.id].expires_at) /\ Lapsed(e.id)
  <2>1. /\ e.id \in DOMAIN run.submits /\ Before(SubmitOf(e.id), e)
        /\ e.phase = CANCEL /\ ~(e.time < run.submits[e.id].expires_at) => Before(ExpiryOf(e.id), e)
    BY <1>1, <1>3, ReleaseOrder
  <2>2. Submitted(e.id)
    BY <1>1, <2>1, EventExists DEF Submitted
  <2>3. ASSUME e.phase = CANCEL, ~(e.time < run.submits[e.id].expires_at)
        PROVE  WithinRun(run.submits[e.id].expires_at) /\ Lapsed(e.id)
    <3>1. WithinRun(e.time)
      BY <1>1, <2>3, EventIs
    <3>2. run.submits[e.id].expires_at \in Nat /\ e.time \in Nat /\ EndAt \in Nat
      BY <1>1, <2>1, EventTimes, EventsHaveType, MarketTypes DEF EventType
    <3>3. WithinRun(run.submits[e.id].expires_at)
      BY <2>3, <3>1, <3>2 DEF WithinRun
    <3>4. ExpiryOf(e.id) \in EventsOf(run)
      BY <2>1, <3>3, EventExists
    <3> QED BY <1>1, <2>1, <2>3, <3>3, <3>4 DEF Lapsed
  <2> QED BY <2>1, <2>2, <2>3
<1>4. ASSUME e.phase = BUCKET
      PROVE  e.id \in Symbols /\ e.bucket \in BucketIds /\ ~Known(e.id, e.bucket)
  BY <1>1, <1>4, EventIs DEF Known
<1>5. ASSUME e.phase = MATCH
      PROVE  /\ e.id \in DOMAIN run.submits /\ e.bucket \in BucketIds
             /\ MatchOf(e.id, e.bucket) \in EventsOf(run) /\ ~Matched(e.id, e.bucket)
             /\ Submitted(e.id) /\ Known(run.submits[e.id].symbol, e.bucket)
  <2>1. e.id \in DOMAIN run.submits /\ e.bucket \in BucketIds /\ e = MatchOf(e.id, e.bucket)
    BY <1>1, <1>5, EventIs
  <2>2. MatchOf(e.id, e.bucket) \in EventsOf(run)
    BY <1>1, <2>1
  <2>3. /\ Before(SubmitOf(e.id), e)
        /\ Before(BucketOf(run.submits[e.id].symbol, e.bucket), e)
    BY <2>1, <2>2, MatchOrder
  <2>4. run.submits[e.id].symbol \in Symbols
    BY <2>1, EventTimes
  <2>5. /\ SubmitOf(e.id) \in EventsOf(run)
        /\ BucketOf(run.submits[e.id].symbol, e.bucket) \in EventsOf(run)
    BY <2>1, <2>4, EventExists
  <2> QED BY <1>1, <2>1, <2>2, <2>3, <2>5 DEF Matched, Submitted, Known
<1> QED BY <1>2, <1>3, <1>4, <1>5, Phases

\* What handling the next event adds to what has been handled.
LEMMA HandledMoves ==
  ASSUME ValidRun(run), AgendaFits, agenda # <<>>, agenda' = Tail(agenda), run' = run,
         NEW e, e = Head(agenda)
  PROVE  /\ AgendaFits'
         /\ \A o \in DOMAIN run.submits :
              Submitted(o)' <=> Submitted(o) \/ (e.phase = SUBMIT /\ e.id = o)
         /\ \A o \in DOMAIN run.submits :
              Lapsed(o)' <=> Lapsed(o) \/ (e.phase = EXPIRY /\ e.id = o)
         /\ \A s \in Symbols, b \in BucketIds :
              Known(s, b)' <=> Known(s, b) \/ (e.phase = BUCKET /\ e.id = s /\ e.bucket = b)
         /\ \A o \in DOMAIN run.submits, b \in BucketIds :
              Matched(o, b)' <=> Matched(o, b) \/ (e.phase = MATCH /\ e.id = o /\ e.bucket = b)
<1>1. AgendaFits' /\ Pending' = Pending \ {e}
  BY AgendaMoves
<1>2. EventsOf(run)' = EventsOf(run)
  BY DEF EventsOf
<1>3. e \in Pending /\ e \in EventsOf(run)
  BY HeadIsNext
<1>4. ASSUME NEW o \in DOMAIN run.submits
      PROVE  SubmitOf(o) = e <=> e.phase = SUBMIT /\ e.id = o
  <2>1. SubmitOf(o).phase = SUBMIT /\ SubmitOf(o).id = o
    BY EventFields, EventTimes
  <2> QED BY <1>3, <2>1, EventIs
<1>5. ASSUME NEW o \in DOMAIN run.submits
      PROVE  ExpiryOf(o) = e <=> e.phase = EXPIRY /\ e.id = o
  <2>1. ExpiryOf(o).phase = EXPIRY /\ ExpiryOf(o).id = o
    BY EventFields, EventTimes
  <2> QED BY <1>3, <2>1, EventIs
<1>6. \A s \in Symbols, b \in BucketIds :
        BucketOf(s, b) = e <=> e.phase = BUCKET /\ e.id = s /\ e.bucket = b
  BY <1>3, EventIs, EventFields
<1>7. ASSUME NEW o \in DOMAIN run.submits, NEW b \in BucketIds
      PROVE  MatchOf(o, b) = e <=> e.phase = MATCH /\ e.id = o /\ e.bucket = b
  <2>1. MatchOf(o, b).phase = MATCH /\ MatchOf(o, b).id = o /\ MatchOf(o, b).bucket = b
    BY MatchFields, EventTimes
  <2> QED BY <1>3, <2>1, EventIs
<1>8. /\ \A o : SubmitOf(o)' = SubmitOf(o)
      /\ \A o : ExpiryOf(o)' = ExpiryOf(o)
      /\ \A s, b : BucketOf(s, b)' = BucketOf(s, b)
      /\ \A o, b : MatchOf(o, b)' = MatchOf(o, b)
  BY DEF SubmitOf, ExpiryOf, BucketOf, MatchOf
<1>9. \A o \in DOMAIN run.submits :
        Submitted(o)' <=> Submitted(o) \/ (e.phase = SUBMIT /\ e.id = o)
  BY <1>1, <1>3, <1>4, <1>8 DEF Submitted
<1>10. \A o \in DOMAIN run.submits :
        Lapsed(o)' <=> Lapsed(o) \/ (e.phase = EXPIRY /\ e.id = o)
  BY <1>1, <1>3, <1>5, <1>8 DEF Lapsed
<1>11. \A s \in Symbols, b \in BucketIds :
        Known(s, b)' <=> Known(s, b) \/ (e.phase = BUCKET /\ e.id = s /\ e.bucket = b)
  BY <1>1, <1>3, <1>6, <1>8 DEF Known
<1>12. \A o \in DOMAIN run.submits, b \in BucketIds :
        Matched(o, b)' <=> Matched(o, b) \/ (e.phase = MATCH /\ e.id = o /\ e.bucket = b)
  BY <1>1, <1>2, <1>3, <1>7, <1>8 DEF Matched
<1> QED BY <1>1, <1>9, <1>10, <1>11, <1>12

-----------------------------------------------------------------------------
(* The invariant and what keeps its parts when they are not concerned.     *)

\* The commands are valid, the ledger's own invariant holds, and the three records of
\* an order agree.
BrokerIInv ==
  /\ ValidRun(run) /\ AgendaFits /\ HistoryIInv
  /\ OrdersFit /\ ReservationsFit /\ FillsFit /\ BucketsFit /\ QueueFits /\ ResaleFits
  /\ LotsFit /\ NoContractFits

\* The next event is handled and comes off the agenda.
Handling(e) == agenda # <<>> /\ e = Head(agenda) /\ agenda' = Tail(agenda) /\ run' = run

\* A working order was submitted and has a reservation of its own.
LEMMA WorkingOrder ==
  ASSUME BrokerIInv, NEW o \in DOMAIN reservations
  PROVE  /\ o \in DOMAIN orders /\ o \in DOMAIN run.submits /\ o \in OrderIds /\ Active(o)
         /\ reservations[o] \in Reservation
<1>1. LedgerTypeOK
  BY DEF BrokerIInv, HistoryIInv, LedgerIInv
<1>2. o \in OrderIds /\ reservations[o] \in Reservation /\ o \in used_order_ids
  BY <1>1 DEF LedgerTypeOK, RecordsAgree
<1> QED BY <1>2 DEF BrokerIInv, OrdersFit

\* The bound names of the invariant's parts mean the same before and after.
LEMMA SameRun ==
  ASSUME BrokerIInv, NEW e, Handling(e)
  PROVE  /\ ValidRun(run)' /\ AgendaFits'
         /\ \A o \in DOMAIN run.submits :
              /\ Submitted(o)' <=> Submitted(o) \/ (e.phase = SUBMIT /\ e.id = o)
              /\ Lapsed(o)' <=> Lapsed(o) \/ (e.phase = EXPIRY /\ e.id = o)
         /\ \A s \in Symbols, b \in BucketIds :
              Known(s, b)' <=> Known(s, b) \/ (e.phase = BUCKET /\ e.id = s /\ e.bucket = b)
         /\ \A o \in DOMAIN run.submits, b \in BucketIds :
              Matched(o, b)' <=> Matched(o, b) \/ (e.phase = MATCH /\ e.id = o /\ e.bucket = b)
<1>1. ValidRun(run) /\ AgendaFits
  BY DEF BrokerIInv
<1>2. agenda # <<>> /\ e = Head(agenda) /\ agenda' = Tail(agenda) /\ run' = run
  BY DEF Handling
<1>3. ValidRun(run)'
  BY <1>1, <1>2
<1> QED BY <1>1, <1>2, <1>3, HandledMoves

\* An order nothing was filled for has nothing filled.
LEMMA NothingFilled ==
  ASSUME NEW h, NEW o, \A f \in DOMAIN h : h[f].proposal.order_id # o
  PROVE  Filled(h, o) = 0
<1>1. FilledBy(h, o) = {}
  BY DEF FilledBy
<1>2. [f \in FilledBy(h, o) |-> h[f].proposal.qty] \in [{} -> {0}]
  BY <1>1
<1> QED BY <1>2, TotalZero DEF Filled

\* A step without a fill keeps what the fills say.
LEMMA FillsStay ==
  ASSUME BrokerIInv, NEW e, Handling(e), applied_fills' = applied_fills,
         \A o \in DOMAIN orders : o \in DOMAIN orders' /\ orders'[o].filled_qty = orders[o].filled_qty,
         \A o \in DOMAIN orders' \ DOMAIN orders : orders'[o].filled_qty = 0,
         \A key \in DOMAIN visible : key \in DOMAIN visible' /\ visible'[key] = visible[key]
  PROVE  FillsFit'
<1>1. run' = run /\ FillsFit
  BY DEF Handling, BrokerIInv
<1>2. \A o \in DOMAIN run.submits, b \in BucketIds : Matched(o, b) => Matched(o, b)'
  BY SameRun
<1>3. DOMAIN orders \subseteq DOMAIN run.submits
  BY DEF BrokerIInv, OrdersFit
<1>4. \A f \in DOMAIN applied_fills : applied_fills[f].proposal.bucket_id \in BucketIds
  BY DEF BrokerIInv, HistoryIInv, LedgerIInv, LedgerTypeOK, FillApplied, FillProposal
<1>5. ASSUME NEW o \in DOMAIN orders'
      PROVE  orders'[o].filled_qty = Filled(applied_fills, o)
  <2>1. CASE o \in DOMAIN orders
    BY <1>1, <2>1 DEF FillsFit
  <2>2. CASE o \notin DOMAIN orders
    <3>1. \A f \in DOMAIN applied_fills : applied_fills[f].proposal.order_id # o
      BY <1>1, <2>2 DEF FillsFit
    <3> QED BY <2>2, <3>1, NothingFilled
  <2> QED BY <2>1, <2>2
<1>6. ASSUME NEW f \in DOMAIN applied_fills
      PROVE  LET p == applied_fills[f].proposal
                 key == <<p.symbol, p.bucket_id>>
             IN  /\ p.order_id \in DOMAIN orders'
                 /\ f = FillIdOf[<<p.order_id, p.bucket_id>>]
                 /\ Matched(p.order_id, p.bucket_id)'
                 /\ p.symbol = run.submits[p.order_id].symbol
                 /\ key \in DOMAIN visible'
                 /\ ~visible'[key].missing /\ ~visible'[key].halted /\ p.price = visible'[key].close
  <2> DEFINE p == applied_fills[f].proposal
             key == <<p.symbol, p.bucket_id>>
  <2>1. /\ p.order_id \in DOMAIN orders
        /\ f = FillIdOf[<<p.order_id, p.bucket_id>>]
        /\ Matched(p.order_id, p.bucket_id)
        /\ p.symbol = run.submits[p.order_id].symbol
        /\ key \in DOMAIN visible
        /\ ~visible[key].missing /\ ~visible[key].halted /\ p.price = visible[key].close
    BY <1>1 DEF FillsFit
  <2>2. p.bucket_id \in BucketIds /\ p.order_id \in DOMAIN run.submits
    BY <1>3, <1>4, <2>1
  <2> HIDE DEF p, key
  <2>3. Matched(p.order_id, p.bucket_id)'
    BY <1>2, <2>1, <2>2 DEF p
  <2> QED BY <2>1, <2>3 DEF p, key
<1>7. \A f \in DOMAIN applied_fills : applied_fills'[f] = applied_fills[f]
  OBVIOUS
<1> QED BY <1>1, <1>5, <1>6, <1>7 DEF FillsFit

\* A step that is not a submission and leaves the orders and who works alone.
LEMMA OrdersStay ==
  ASSUME BrokerIInv, NEW e, Handling(e), e.phase # SUBMIT, orders' = orders,
         used_order_ids' = used_order_ids, DOMAIN reservations' = DOMAIN reservations
  PROVE  OrdersFit'
<1>1. run' = run /\ OrdersFit
  BY DEF Handling, BrokerIInv
<1>2. \A o \in DOMAIN run.submits : Submitted(o)' <=> Submitted(o)
  BY SameRun
<1>3. \A o : Active(o)' <=> Active(o)
  BY DEF Active
<1> QED BY <1>1, <1>2, <1>3 DEF OrdersFit

\* Reservations that stay as they are, when no working order expires.
LEMMA ReservationsStay ==
  ASSUME BrokerIInv, NEW e, Handling(e), DOMAIN reservations' \subseteq DOMAIN reservations,
         e.phase = EXPIRY => e.id \notin DOMAIN reservations',
         \A o \in DOMAIN reservations' :
           /\ reservations'[o] = reservations[o]
           /\ orders'[o].remaining_qty = orders[o].remaining_qty,
         DOMAIN lots' = DOMAIN lots,
         \A l \in DOMAIN lots : lots'[l].sellable_date = lots[l].sellable_date
  PROVE  ReservationsFit'
<1>1. run' = run /\ ReservationsFit
  BY DEF Handling, BrokerIInv
<1>2. \A o \in DOMAIN reservations' : o \in DOMAIN run.submits
  BY WorkingOrder
<1>3. \A o \in DOMAIN reservations' : Lapsed(o)' => Lapsed(o)
  BY <1>2, SameRun
<1> QED BY <1>1, <1>3 DEF ReservationsFit

\* Buckets that stay as they are, when none arrives.
LEMMA BucketsStay ==
  ASSUME BrokerIInv, NEW e, Handling(e), e.phase # BUCKET, buckets' = buckets, visible' = visible
  PROVE  BucketsFit'
<1>1. \A s \in Symbols, b \in BucketIds : Known(s, b)' <=> Known(s, b)
  BY SameRun
<1> QED BY <1>1 DEF BrokerIInv, BucketsFit

\* When nothing is matched, the queues of the known buckets stay.
LEMMA QueueStays ==
  ASSUME BrokerIInv, NEW e, Handling(e), e.phase # MATCH,
         \A o \in DOMAIN reservations' :
           \/ o \in DOMAIN reservations /\ reservations'[o] = reservations[o]
           \/ e.phase = SUBMIT /\ o = e.id,
         \A key \in DOMAIN visible : /\ visible'[key] = visible[key]
                                     /\ buckets'[key] = buckets[key]
  PROVE  QueueFits'
<1>1. run' = run /\ QueueFits /\ BucketsFit /\ ValidRun(run) /\ AgendaFits
  BY DEF Handling, BrokerIInv
<1> SUFFICES ASSUME NEW o \in DOMAIN reservations', NEW b \in BucketIds,
                    Matched(o, b)', Tradeable(o, b)'
             PROVE  buckets'[<<run.submits[o].symbol, b>>].remaining < reservations'[o].lot_size
  BY <1>1 DEF QueueFits
<1>2. o \in DOMAIN run.submits
  <2>1. CASE o \in DOMAIN reservations
    BY <2>1, WorkingOrder
  <2>2. CASE e.phase = SUBMIT /\ o = e.id
    BY <1>1, <2>2, HeadMeans DEF Handling
  <2> QED BY <2>1, <2>2
<1>3. Matched(o, b)
  BY <1>2, SameRun
<1>4. Submitted(o) /\ Known(run.submits[o].symbol, b)
  BY <1>1, <1>2, <1>3, MatchedMeans
<1>5. o \in DOMAIN reservations /\ reservations'[o] = reservations[o]
  <2>1. ~(e.phase = SUBMIT /\ o = e.id)
    BY <1>1, <1>4, HeadMeans DEF Handling
  <2> QED BY <2>1
<1>6. run.submits[o].symbol \in Symbols
  BY <1>1, <1>2, EventTimes
<1>7. <<run.submits[o].symbol, b>> \in DOMAIN visible
  BY <1>1, <1>4, <1>6 DEF BucketsFit
<1>8. Tradeable(o, b)
  BY <1>1, <1>7 DEF Tradeable
<1> QED BY <1>1, <1>3, <1>5, <1>7, <1>8 DEF QueueFits

\* Lots that only lend differently are as free to sell as before.
LEMMA FreeBySame ==
  ASSUME NEW ls, NEW ms, DOMAIN ms = DOMAIN ls,
         \A l \in DOMAIN ls : /\ ms[l].symbol = ls[l].symbol /\ ms[l].qty = ls[l].qty
                              /\ ms[l].sellable_date = ls[l].sellable_date,
         NEW symbol, NEW d
  PROVE  FreeBy(ms, symbol, d) = FreeBy(ls, symbol, d)
<1>1. FreeLots(ms, symbol, d) = FreeLots(ls, symbol, d)
  BY DEF FreeLots
<1>2. [l \in FreeLots(ms, symbol, d) |-> ms[l].qty] = [l \in FreeLots(ls, symbol, d) |-> ls[l].qty]
  BY <1>1 DEF FreeLots
<1> QED BY <1>2 DEF FreeBy

\* A step that moves no shares.
LEMMA SharesStay ==
  ASSUME BrokerIInv, applied_fills' = applied_fills, DOMAIN lots' = DOMAIN lots,
         \A l \in DOMAIN lots : /\ lots'[l].symbol = lots[l].symbol /\ lots'[l].qty = lots[l].qty
                                /\ lots'[l].sellable_date = lots[l].sellable_date
  PROVE  ResaleFits' /\ LotsFit'
<1>1. \A symbol, d : FreeBy(lots', symbol, d) = FreeBy(lots, symbol, d)
  BY FreeBySame
<1>2. ResaleAgrees(lots, applied_fills) /\ LotsFit
  BY DEF BrokerIInv, ResaleFits
<1>3. ResaleAgrees(lots', applied_fills')
  BY <1>1, <1>2 DEF ResaleAgrees
<1> QED BY <1>2, <1>3 DEF ResaleFits, LotsFit, LotNamesAreFree

\* The ledger's history through a step that leaves the ledger alone.
LEMMA LedgerStays ==
  ASSUME HistoryIInv, UNCHANGED ledgerVars
  PROVE  HistoryIInv'
BY HistoryStep

-----------------------------------------------------------------------------
(* The handlers that trade nothing. *)

\* A handler that raises anything but a contract error leaves all else as it was.
LEMMA AbortKeeps ==
  ASSUME BrokerIInv, run' = run, UNCHANGED <<ledgerVars, agenda, orders, visible>>,
         LotNamesAreFree => failure' # "contract"
  PROVE  BrokerIInv'
<1>1. HistoryIInv'
  BY LedgerStays DEF BrokerIInv
<1>2. /\ cash' = cash /\ lots' = lots /\ reservations' = reservations /\ buckets' = buckets
      /\ applied_fills' = applied_fills /\ used_order_ids' = used_order_ids
  BY DEF ledgerVars
<1>3. EventsOf(run)' = EventsOf(run) /\ Pending' = Pending
  BY DEF EventsOf, Pending
<1>4. ValidRun(run)' /\ AgendaFits'
  BY <1>3 DEF BrokerIInv, AgendaFits
<1>5. /\ \A o : Submitted(o)' <=> Submitted(o)
      /\ \A o : Lapsed(o)' <=> Lapsed(o)
      /\ \A s, b : Known(s, b)' <=> Known(s, b)
      /\ \A o, b : Matched(o, b)' <=> Matched(o, b)
      /\ \A o : Active(o)' <=> Active(o)
  BY <1>3 DEF Submitted, SubmitOf, Lapsed, ExpiryOf, Known, BucketOf, Matched, MatchOf, Active
<1>6. OrdersFit'
  BY <1>2, <1>5 DEF BrokerIInv, OrdersFit
<1>7. ReservationsFit'
  BY <1>2, <1>5 DEF BrokerIInv, ReservationsFit
<1>8. FillsFit'
  BY <1>2, <1>5 DEF BrokerIInv, FillsFit
<1>9. BucketsFit'
  BY <1>2, <1>5 DEF BrokerIInv, BucketsFit
<1>10. \A o, b : Tradeable(o, b)' <=> Tradeable(o, b)
  BY DEF Tradeable
<1>11. QueueFits'
  BY <1>2, <1>5, <1>10 DEF BrokerIInv, QueueFits
<1>12. ResaleFits' /\ LotsFit'
  BY <1>2, SharesStay
<1>13. NoContractFits'
  BY DEF NoContractFits, LotNamesAreFree
<1> QED BY <1>1, <1>4, <1>6, <1>7, <1>8, <1>9, <1>11, <1>12, <1>13 DEF BrokerIInv

\* An event handled without any effect: the mark of a priced holding, the release
\* of an order that is done, a match in which nothing trades.
LEMMA QuietKeeps ==
  ASSUME BrokerIInv, NEW e, Handling(e), failure' = failure,
         UNCHANGED <<ledgerVars, orders, visible>>, e.phase \notin {SUBMIT, BUCKET},
         e.phase = EXPIRY => e.id \notin DOMAIN reservations,
         e.phase = MATCH /\ e.id \in DOMAIN reservations /\ Tradeable(e.id, e.bucket) =>
           buckets[<<run.submits[e.id].symbol, e.bucket>>].remaining < reservations[e.id].lot_size
  PROVE  BrokerIInv'
<1>1. HistoryIInv'
  BY LedgerStays DEF BrokerIInv
<1>2. /\ lots' = lots /\ reservations' = reservations /\ buckets' = buckets
      /\ applied_fills' = applied_fills /\ used_order_ids' = used_order_ids
  BY DEF ledgerVars
<1>3. ValidRun(run)' /\ AgendaFits'
  BY SameRun
<1>4. OrdersFit'
  BY <1>2, OrdersStay
<1>5. ReservationsFit'
  BY <1>2, ReservationsStay
<1>6. FillsFit'
  BY <1>2, FillsStay
<1>7. BucketsFit'
  BY <1>2, BucketsStay
<1>8. QueueFits'
  <2>1. run' = run /\ QueueFits
    BY DEF BrokerIInv, Handling
  <2> SUFFICES ASSUME NEW o \in DOMAIN reservations, NEW b \in BucketIds,
                      Matched(o, b)', Tradeable(o, b)'
               PROVE  buckets[<<run.submits[o].symbol, b>>].remaining < reservations[o].lot_size
    BY <1>2, <2>1 DEF QueueFits
  <2>2. o \in DOMAIN run.submits
    BY WorkingOrder
  <2>3. Tradeable(o, b)
    BY <2>1 DEF Tradeable
  <2>4. Matched(o, b) \/ (e.phase = MATCH /\ e.id = o /\ e.bucket = b)
    BY <2>2, SameRun
  <2> QED BY <2>1, <2>3, <2>4 DEF QueueFits
<1>9. ResaleFits' /\ LotsFit'
  BY <1>2, SharesStay
<1>10. NoContractFits'
  BY DEF BrokerIInv, NoContractFits, LotNamesAreFree
<1> QED BY <1>1, <1>3, <1>4, <1>5, <1>6, <1>7, <1>8, <1>9, <1>10 DEF BrokerIInv

\* _mark keeps the invariant.
LEMMA MarkKeeps ==
  ASSUME BrokerIInv, failure = "none", agenda # <<>>, run' = run, NEW e, e = Head(agenda),
         e.phase = MARK, HandleMark(e)
  PROVE  BrokerIInv'
<1>1. CASE Handled /\ UNCHANGED <<ledgerVars, orders, visible>>
  <2>1. Handling(e) /\ failure' = failure
    BY <1>1 DEF Handling, Handled
  <2>2. e.phase \notin {SUBMIT, BUCKET} /\ e.phase # EXPIRY /\ e.phase # MATCH
    BY Phases
  <2> QED BY <1>1, <2>1, <2>2, QuietKeeps
<1>2. CASE Abort("unpriced holding")
  BY <1>2, AbortKeeps DEF Abort
<1> QED BY <1>1, <1>2 DEF HandleMark

\* What the commands that only reserve and release leave of every lot.
LEMMA LotsLend ==
  ASSUME NEW loan,
         \/ lots' = lots
         \/ lots' = [l \in DOMAIN lots |-> [lots[l] EXCEPT !.reserved_qty = @ + loan[l]]]
         \/ lots' = [l \in DOMAIN lots |-> [lots[l] EXCEPT !.reserved_qty = @ - loan[l]]],
         LedgerIInv
  PROVE  /\ DOMAIN lots' = DOMAIN lots
         /\ \A l \in DOMAIN lots : /\ lots'[l].symbol = lots[l].symbol
                                   /\ lots'[l].qty = lots[l].qty
                                   /\ lots'[l].sellable_date = lots[l].sellable_date
BY DEF LedgerIInv, LedgerTypeOK, Lot

\* _release keeps the invariant.
LEMMA ReleaseKeeps ==
  ASSUME BrokerIInv, failure = "none", agenda # <<>>, run' = run, NEW e, e = Head(agenda),
         e.phase \in {EXPIRY, CANCEL}, HandleRelease(e)
  PROVE  BrokerIInv'
<1>1. Handling(e) /\ failure' = failure /\ visible' = visible
  BY DEF HandleRelease, Handled, Handling
<1>2. e.id \in DOMAIN run.submits /\ e.phase \notin {SUBMIT, BUCKET, MATCH}
  BY HeadMeans, Phases DEF BrokerIInv
<1>3. OrdersFit /\ HistoryIInv
  BY DEF BrokerIInv
<1>4. CASE ~Active(e.id)
  <2>1. e.id \notin DOMAIN reservations
    BY <1>4, WorkingOrder
  <2>2. UNCHANGED <<ledgerVars, orders, visible>>
    BY <1>4 DEF HandleRelease, MayEnd, AfterRelease
  <2> QED BY <1>1, <1>2, <2>1, <2>2, QuietKeeps
<1>5. CASE Active(e.id)
  <2> DEFINE o == e.id
             loan == reservations[o].alloc
  <2>1. Release(o, run.submits[o].side)
    BY <1>5 DEF HandleRelease, MayEnd, GiveBack
  <2>2. orders' = [orders EXCEPT ![o].status = FinalStatus(e)]
    BY <1>5 DEF HandleRelease, MayEnd, AfterRelease
  <2>3. o \in OrderIds /\ run.submits[o].side \in Sides
    BY <1>2, EventTimes DEF BrokerIInv
  <2>4. HistoryIInv'
    BY <1>3, <2>1, <2>3, ReleaseKeepsHistory
  <2>5. /\ o \in DOMAIN reservations
        /\ lots' = [l \in DOMAIN lots |-> [lots[l] EXCEPT !.reserved_qty = @ - loan[l]]]
        /\ reservations' = Without(reservations, o)
        /\ UNCHANGED <<order_totals, buckets, applied_fills, used_order_ids, fees_paid>>
    BY <2>1 DEF Release, Commit
  <2>6. /\ DOMAIN lots' = DOMAIN lots
        /\ \A l \in DOMAIN lots : /\ lots'[l].symbol = lots[l].symbol
                                  /\ lots'[l].qty = lots[l].qty
                                  /\ lots'[l].sellable_date = lots[l].sellable_date
    BY <1>3, <2>5, LotsLend DEF HistoryIInv
  <2>7. DOMAIN reservations' = DOMAIN reservations \ {o}
        /\ \A x \in DOMAIN reservations' : reservations'[x] = reservations[x]
    BY <2>5 DEF Without
  <2>8. FinalStatus(e) \in TerminalStatuses /\ FinalStatus(e) \notin ActiveStatuses
        /\ FinalStatus(e) # "Filled"
    BY DEF FinalStatus, TerminalStatuses, ActiveStatuses
  <2>9. o \in DOMAIN orders /\ orders \in [DOMAIN orders -> OrderState]
    BY <1>3, <1>5 DEF Active, OrdersFit
  <2>10. /\ DOMAIN orders' = DOMAIN orders
         /\ \A x \in DOMAIN orders : x # o => orders'[x] = orders[x]
         /\ orders'[o].status = FinalStatus(e)
         /\ \A x \in DOMAIN orders : /\ orders'[x].filled_qty = orders[x].filled_qty
                                     /\ orders'[x].remaining_qty = orders[x].remaining_qty
         /\ orders' \in [DOMAIN orders -> OrderState]
    BY <2>2, <2>8, <2>9 DEF OrderState
  <2>11. orders[o].status # "Filled" /\ orders[o].remaining_qty # 0
    <3>1. orders[o].status \in ActiveStatuses
      BY <1>5 DEF Active
    <3> QED BY <1>3, <2>9, <3>1 DEF OrdersFit, ActiveStatuses
  <2> HIDE DEF o
  <2>12. OrdersFit'
    <3>1. \A x \in DOMAIN run.submits : Submitted(x)' <=> Submitted(x)
      BY <1>1, <1>2, SameRun
    <3>2. \A x \in DOMAIN orders : Active(x)' <=> Active(x) /\ x # o
      BY <2>8, <2>9, <2>10 DEF Active
    <3>3. run' = run
      OBVIOUS
    <3>4. \A x \in DOMAIN orders' :
            /\ Active(x)' <=> x \in DOMAIN reservations'
            /\ orders'[x].filled_qty + orders'[x].remaining_qty = run.submits[x].qty
            /\ orders'[x].status = "Filled" <=> orders'[x].remaining_qty = 0
      BY <1>3, <2>7, <2>8, <2>9, <2>10, <2>11, <3>2 DEF OrdersFit
    <3> QED BY <1>3, <2>5, <2>10, <3>1, <3>3, <3>4 DEF OrdersFit
  <2>13. ReservationsFit'
    <3>1. \A x \in DOMAIN reservations' : x \in DOMAIN orders
      BY <2>7, WorkingOrder
    <3>2. e.phase = EXPIRY => e.id \notin DOMAIN reservations'
      BY <2>7 DEF o
    <3> QED BY <1>1, <2>6, <2>7, <2>10, <3>1, <3>2, ReservationsStay
  <2>14. FillsFit'
    BY <1>1, <2>5, <2>10, FillsStay
  <2>15. BucketsFit'
    BY <1>1, <1>2, <2>5, BucketsStay
  <2>16. QueueFits'
    BY <1>1, <1>2, <2>5, <2>7, QueueStays
  <2>17. ResaleFits' /\ LotsFit'
    BY <2>5, <2>6, SharesStay
  <2>18. NoContractFits' /\ ValidRun(run)' /\ AgendaFits'
    BY <1>1, SameRun DEF BrokerIInv, NoContractFits, LotNamesAreFree
  <2> QED BY <2>4, <2>12, <2>13, <2>14, <2>15, <2>16, <2>17, <2>18 DEF BrokerIInv
<1> QED BY <1>4, <1>5

\* The facts of a symbol on a date the broker looks at.
LEMMA FactsType ==
  ASSUME NEW symbol \in Symbols, NEW t, DateOf(t) \in TradingDates
  PROVE  /\ FactsAt(symbol, t).lot_size \in LotSizes
         /\ HasSize(symbol, FactsAt(symbol, t).lot_size)
         /\ DateOf(t) \in Dates
<1> DEFINE d == DateOf(t)
           k == <<symbol, d>>
<1>1. d \in TradingDates /\ FactsAt(symbol, t) = Facts[k] /\ k \in Symbols \X TradingDates
  BY DEF FactsAt
<1>2. /\ Facts \in [Symbols \X TradingDates -> [lot_size : LotSizes, limit_down : Prices, limit_up : Prices]]
      /\ \A s \in Symbols, x, y \in TradingDates : Facts[<<s, x>>].lot_size = Facts[<<s, y>>].lot_size
      /\ Dates = TradingDates
  BY BrokerAssumption DEF ValidFacts
<1>3. Facts[k].lot_size \in LotSizes
  <2> HIDE DEF k
  <2> QED BY <1>1, <1>2
<1>4. \A x \in TradingDates : Facts[<<symbol, x>>].lot_size = Facts[k].lot_size
  BY <1>1, <1>2
<1> QED BY <1>1, <1>2, <1>3, <1>4 DEF HasSize

\* A symbol has one lot size.
LEMMA OneSize ==
  ASSUME NEW symbol, NEW a, NEW b, HasSize(symbol, a), HasSize(symbol, b),
         NEW d \in TradingDates
  PROVE  a = b
BY DEF HasSize

\* An order that has not been submitted has not expired.
LEMMA NotLapsedYet ==
  ASSUME ValidRun(run), AgendaFits, NEW o \in DOMAIN run.submits, ~Submitted(o),
         WithinRun(run.submits[o].expires_at)
  PROVE  ~Lapsed(o)
<1>1. SubmitOf(o) \in EventsOf(run) /\ ExpiryOf(o) \in EventsOf(run)
  BY EventExists
<1>2. ExpiryOf(o).phase \in {EXPIRY, CANCEL} /\ ExpiryOf(o).id = o
  BY EventFields, EventTimes
<1>3. Before(SubmitOf(o), ExpiryOf(o))
  BY <1>1, <1>2, ReleaseOrder
<1> QED BY <1>1, <1>3, HandledBefore DEF Submitted, Lapsed

\* The lots a submitted sale may draw on, and what a submission changes.
LEMMA SubmitReserves ==
  ASSUME HistoryIInv, NEW c, c.order_id \in OrderIds, c.symbol \in Symbols, c.limit \in Prices,
         c.qty \in Quantities, NEW size \in LotSizes, NEW date \in Dates,
         IF c.side = "BUY"
         THEN ReserveBuy(c.order_id, c.symbol, c.limit, c.qty, size)
         ELSE ReserveSell(c.order_id, c.symbol, c.limit, c.qty, size, date),
         c.side \in Sides
  PROVE  /\ HistoryIInv'
         /\ UNCHANGED <<buckets, applied_fills>> /\ used_order_ids' = used_order_ids \cup {c.order_id}
         /\ DOMAIN lots' = DOMAIN lots
         /\ \A l \in DOMAIN lots : /\ lots'[l].symbol = lots[l].symbol
                                   /\ lots'[l].qty = lots[l].qty
                                   /\ lots'[l].sellable_date = lots[l].sellable_date
         /\ \/ reservations' = reservations
            \/ \E r : /\ reservations' = Put(reservations, c.order_id, r)
                      /\ r.symbol = c.symbol /\ r.side = c.side /\ r.limit = c.limit
                      /\ r.lot_size = size /\ r.remaining_qty = c.qty
                      /\ \A l \in DOMAIN lots : r.alloc[l] > 0 => lots[l].sellable_date <= date
<1> DEFINE o == c.order_id
<1>1. LedgerIInv /\ DOMAIN lots \subseteq LotIds
  BY DEF HistoryIInv, LedgerIInv, LedgerTypeOK
<1>2. CASE c.side = "BUY"
  <2> DEFINE r == [symbol |-> c.symbol, side |-> "BUY", limit |-> c.limit, remaining_qty |-> c.qty,
                   lot_size |-> size, cash |-> BuyRequirement(0, c.limit, c.qty),
                   alloc |-> NoAllocation]
  <2>1. ReserveBuy(o, c.symbol, c.limit, c.qty, size)
    BY <1>2
  <2>2. HistoryIInv'
    BY <2>1, ReserveBuyKeepsHistory
  <2>3. Reject(o) \/ (lots' = lots /\ Reserve(o, r))
    BY <2>1 DEF ReserveBuy
  <2>4. \A l \in DOMAIN lots : r.alloc[l] = 0
    BY <1>1 DEF NoAllocation
  <2>5. r.symbol = c.symbol /\ r.side = c.side /\ r.limit = c.limit /\ r.lot_size = size
        /\ r.remaining_qty = c.qty
    BY <1>2
  <2> HIDE DEF r
  <2>6. CASE Reject(o)
    BY <2>2, <2>6 DEF Reject, Commit
  <2>7. CASE lots' = lots /\ Reserve(o, r)
    <3>1. /\ reservations' = Put(reservations, o, r) /\ used_order_ids' = used_order_ids \cup {o}
          /\ UNCHANGED <<buckets, applied_fills>>
      BY <2>7 DEF Reserve, Commit
    <3> QED BY <2>2, <2>4, <2>5, <2>7, <3>1
  <2> QED BY <2>3, <2>6, <2>7
<1>3. CASE c.side # "BUY"
  <2> DEFINE sellable == SellableLots(c.symbol, date)
             take == FifoTake(sellable, c.qty)
             r == [symbol |-> c.symbol, side |-> "SELL", limit |-> c.limit, remaining_qty |-> c.qty,
                   lot_size |-> size, cash |-> 0, alloc |-> take]
  <2>0. c.side = "SELL"
    BY <1>3 DEF Sides
  <2>1. ReserveSell(o, c.symbol, c.limit, c.qty, size, date)
    BY <1>3
  <2>2. HistoryIInv'
    BY <2>1, ReserveSellKeepsHistory
  <2>3. \/ Reject(o)
        \/ /\ lots' = [l \in DOMAIN lots |-> [lots[l] EXCEPT !.reserved_qty = @ + take[l]]]
           /\ Reserve(o, r)
    BY <2>1 DEF ReserveSell
  <2>4. r.symbol = c.symbol /\ r.side = c.side /\ r.limit = c.limit /\ r.lot_size = size
        /\ r.remaining_qty = c.qty /\ r.alloc = take
    BY <2>0
  <2> HIDE DEF r, take, sellable
  <2>5. \A l \in LotIds : take[l] > 0 => lots[l].sellable_date <= date
    BY <1>1, SaleDraws DEF take, sellable
  <2>6. CASE Reject(o)
    BY <2>2, <2>6 DEF Reject, Commit
  <2>7. CASE /\ lots' = [l \in DOMAIN lots |-> [lots[l] EXCEPT !.reserved_qty = @ + take[l]]]
             /\ Reserve(o, r)
    <3>1. /\ reservations' = Put(reservations, o, r) /\ used_order_ids' = used_order_ids \cup {o}
          /\ UNCHANGED <<buckets, applied_fills>>
      BY <2>7 DEF Reserve, Commit
    <3>2. /\ DOMAIN lots' = DOMAIN lots
          /\ \A l \in DOMAIN lots : /\ lots'[l].symbol = lots[l].symbol
                                    /\ lots'[l].qty = lots[l].qty
                                    /\ lots'[l].sellable_date = lots[l].sellable_date
      BY <1>1, <2>7, LotsLend
    <3> QED BY <1>1, <2>2, <2>4, <2>5, <3>1, <3>2
  <2> QED BY <2>3, <2>6, <2>7
<1> QED BY <1>2, <1>3

\* _submit keeps the invariant.
LEMMA SubmitKeeps ==
  ASSUME BrokerIInv, failure = "none", agenda # <<>>, run' = run, NEW e, e = Head(agenda),
         e.phase = SUBMIT, HandleSubmit(e)
  PROVE  BrokerIInv'
<1> DEFINE o == e.id
           c == run.submits[o]
           size == FactsAt(c.symbol, c.submitted_at).lot_size
           date == DateOf(c.submitted_at)
<1>1. Handling(e) /\ failure' = failure /\ visible' = visible
  BY DEF HandleSubmit, Handled, Handling
<1>2. o \in DOMAIN run.submits /\ ~Submitted(o) /\ e.phase \notin {BUCKET, MATCH, EXPIRY}
  BY HeadMeans, Phases DEF BrokerIInv
<1>3. /\ c.order_id = o /\ o \in OrderIds /\ c.symbol \in Symbols /\ c.limit \in Prices
      /\ c.qty \in Quantities /\ c.side \in Sides /\ date \in TradingDates
      /\ c.qty % Facts[<<c.symbol, date>>].lot_size = 0
  BY <1>2, SubmitType DEF BrokerIInv
<1>4. size \in LotSizes /\ HasSize(c.symbol, size) /\ date \in Dates /\ c.qty % size = 0
  BY <1>3, FactsType DEF FactsAt
<1>5. /\ IF c.side = "BUY"
         THEN ReserveBuy(c.order_id, c.symbol, c.limit, c.qty, size)
         ELSE ReserveSell(c.order_id, c.symbol, c.limit, c.qty, size, date)
      /\ orders' = Put(orders, o, [status |-> StatusOnSubmit(o), filled_qty |-> 0,
                                   remaining_qty |-> c.qty])
  BY <1>3 DEF HandleSubmit
<1>6. c.qty \in Nat \ {0}
  BY <1>3, LedgerAssumption
<1>7. HistoryIInv /\ OrdersFit /\ ReservationsFit /\ ValidRun(run) /\ AgendaFits
  BY DEF BrokerIInv
<1> HIDE DEF c, size, date
<1>8. /\ HistoryIInv'
      /\ UNCHANGED <<buckets, applied_fills>> /\ used_order_ids' = used_order_ids \cup {o}
      /\ DOMAIN lots' = DOMAIN lots
      /\ \A l \in DOMAIN lots : /\ lots'[l].symbol = lots[l].symbol
                                /\ lots'[l].qty = lots[l].qty
                                /\ lots'[l].sellable_date = lots[l].sellable_date
      /\ \/ reservations' = reservations
         \/ \E r : /\ reservations' = Put(reservations, o, r)
                   /\ r.symbol = c.symbol /\ r.side = c.side /\ r.limit = c.limit
                   /\ r.lot_size = size /\ r.remaining_qty = c.qty
                   /\ \A l \in DOMAIN lots : r.alloc[l] > 0 => lots[l].sellable_date <= date
  BY <1>3, <1>4, <1>5, <1>7, SubmitReserves
<1>9. o \notin DOMAIN orders /\ o \notin DOMAIN reservations
  <2>1. o \notin DOMAIN orders
    BY <1>2, <1>7 DEF OrdersFit
  <2> QED BY <2>1, WorkingOrder
<1>10. /\ DOMAIN reservations \subseteq DOMAIN reservations'
       /\ DOMAIN reservations' \subseteq DOMAIN reservations \cup {o}
       /\ \A x \in DOMAIN reservations : reservations'[x] = reservations[x]
       /\ o \in DOMAIN reservations' =>
            /\ reservations'[o].symbol = c.symbol /\ reservations'[o].side = c.side
            /\ reservations'[o].limit = c.limit
            /\ reservations'[o].lot_size = size /\ reservations'[o].remaining_qty = c.qty
            /\ \A l \in DOMAIN lots : reservations'[o].alloc[l] > 0 => lots[l].sellable_date <= date
  <2>1. CASE reservations' = reservations
    BY <1>9, <2>1
  <2>2. CASE reservations' # reservations
    <3>1. PICK r : /\ reservations' = Put(reservations, o, r)
                   /\ r.symbol = c.symbol /\ r.side = c.side /\ r.limit = c.limit
                   /\ r.lot_size = size /\ r.remaining_qty = c.qty
                   /\ \A l \in DOMAIN lots : r.alloc[l] > 0 => lots[l].sellable_date <= date
      BY <1>8, <2>2
    <3>2. /\ DOMAIN reservations' = DOMAIN reservations \cup {o} /\ reservations'[o] = r
          /\ \A x \in DOMAIN reservations : reservations'[x] = reservations[x]
      BY <1>9, <3>1 DEF Put
    <3> QED BY <3>1, <3>2
  <2> QED BY <2>1, <2>2
<1>11. /\ DOMAIN orders' = DOMAIN orders \cup {o}
       /\ \A x \in DOMAIN orders : orders'[x] = orders[x] /\ x # o
       /\ orders'[o].status = StatusOnSubmit(o) /\ orders'[o].filled_qty = 0
       /\ orders'[o].remaining_qty = c.qty
       /\ orders'[o] = [status |-> StatusOnSubmit(o), filled_qty |-> 0, remaining_qty |-> c.qty]
       /\ orders' = [x \in DOMAIN orders' |-> orders'[x]]
  BY <1>5, <1>9 DEF Put
<1>12. StatusOnSubmit(o) = "Accepted" \/ StatusOnSubmit(o) = "Rejected"
  BY DEF StatusOnSubmit
<1> HIDE DEF o
<1>13. OrdersFit'
  <2>1. \A x \in DOMAIN run.submits : Submitted(x)' <=> Submitted(x) \/ x = o
    BY <1>1, SameRun DEF o
  <2>2. orders'[o] \in OrderState
    BY <1>6, <1>11, <1>12 DEF OrderState, ActiveStatuses, TerminalStatuses
  <2>3. orders' \in [DOMAIN orders' -> OrderState]
    BY <1>7, <1>11, <2>2 DEF OrdersFit
  <2>4. \A x \in DOMAIN orders : Active(x)' <=> Active(x)
    BY <1>11 DEF Active
  <2>5. Active(o)' <=> o \in DOMAIN reservations'
    BY <1>11 DEF Active, StatusOnSubmit, ActiveStatuses
  <2>6. orders'[o].filled_qty + orders'[o].remaining_qty = c.qty
    BY <1>6, <1>11
  <2>7. ~(orders'[o].status = "Filled") /\ orders'[o].remaining_qty # 0
    BY <1>6, <1>11, <1>12
  <2>8. ASSUME NEW x \in DOMAIN orders'
        PROVE  /\ Active(x)' <=> x \in DOMAIN reservations'
               /\ orders'[x].filled_qty + orders'[x].remaining_qty = run.submits[x].qty
               /\ orders'[x].status = "Filled" <=> orders'[x].remaining_qty = 0
    <3>1. CASE x = o
      BY <2>5, <2>6, <2>7, <3>1 DEF c
    <3>2. CASE x # o
      <4>1. x \in DOMAIN orders /\ orders'[x] = orders[x] /\ (Active(x)' <=> Active(x))
        BY <1>11, <2>4, <3>2
      <4>2. x \in DOMAIN reservations' <=> x \in DOMAIN reservations
        BY <1>10, <3>2
      <4> QED BY <1>7, <4>1, <4>2 DEF OrdersFit
    <3> QED BY <3>1, <3>2
  <2>9. /\ DOMAIN orders' \subseteq DOMAIN run.submits /\ used_order_ids' = DOMAIN orders'
        /\ \A x \in DOMAIN run.submits : x \in DOMAIN orders' <=> Submitted(x)'
    BY <1>2, <1>7, <1>8, <1>11, <2>1 DEF OrdersFit, o
  <2> QED BY <2>3, <2>8, <2>9 DEF OrdersFit
<1>14. ReservationsFit'
  <2> SUFFICES ASSUME NEW x \in DOMAIN reservations'
               PROVE  LET r == reservations'[x]
                          d == run.submits[x]
                      IN  /\ r.symbol = d.symbol /\ r.side = d.side /\ r.limit = d.limit
                          /\ HasSize(r.symbol, r.lot_size) /\ r.remaining_qty % r.lot_size = 0
                          /\ r.remaining_qty = orders'[x].remaining_qty
                          /\ WithinRun(d.expires_at) => ~Lapsed(x)'
                          /\ \A l \in DOMAIN lots' :
                               r.alloc[l] > 0 => lots'[l].sellable_date <= DateOf(d.submitted_at)
    BY DEF ReservationsFit
  <2>1. CASE x = o
    <3>1. /\ reservations'[o].symbol = c.symbol /\ reservations'[o].side = c.side
          /\ reservations'[o].limit = c.limit
          /\ reservations'[o].lot_size = size /\ reservations'[o].remaining_qty = c.qty
          /\ \A l \in DOMAIN lots : reservations'[o].alloc[l] > 0 => lots[l].sellable_date <= date
      BY <1>10, <2>1
    <3>2. HasSize(reservations'[o].symbol, reservations'[o].lot_size)
          /\ reservations'[o].remaining_qty % reservations'[o].lot_size = 0
      BY <1>4, <3>1
    <3>3. WithinRun(c.expires_at) => ~Lapsed(o)'
      BY <1>1, <1>2, <1>7, NotLapsedYet, SameRun DEF o, c
    <3>4. \A l \in DOMAIN lots' :
            reservations'[o].alloc[l] > 0 => lots'[l].sellable_date <= date
      BY <1>8, <3>1
    <3> QED BY <1>11, <2>1, <3>1, <3>2, <3>3, <3>4 DEF c, date
  <2>2. CASE x # o
    <3>1. x \in DOMAIN reservations /\ reservations'[x] = reservations[x]
      BY <1>10, <2>2
    <3>2. x \in DOMAIN orders /\ x \in DOMAIN run.submits
      BY <3>1, WorkingOrder
    <3>3. orders'[x] = orders[x] /\ (Lapsed(x)' <=> Lapsed(x))
      BY <1>1, <1>2, <1>11, <3>2, SameRun
    <3> QED BY <1>7, <1>8, <3>1, <3>3 DEF ReservationsFit
  <2> QED BY <2>1, <2>2
<1>15. FillsFit'
  BY <1>1, <1>8, <1>11, FillsStay
<1>16. BucketsFit'
  BY <1>1, <1>2, <1>8, BucketsStay
<1>17. QueueFits'
  BY <1>1, <1>2, <1>8, <1>10, QueueStays DEF o
<1>18. ResaleFits' /\ LotsFit'
  BY <1>8, SharesStay
<1>19. NoContractFits' /\ ValidRun(run)' /\ AgendaFits'
  BY <1>1, SameRun DEF BrokerIInv, NoContractFits, LotNamesAreFree
<1> QED BY <1>8, <1>13, <1>14, <1>15, <1>16, <1>17, <1>18, <1>19 DEF BrokerIInv

\* The capacity a bucket is registered with is one the ledger knows.
LEMMA CapacityType ==
  ASSUME NEW quote \in Quotes, NEW size \in LotSizes
  PROVE  CapacityOf(quote, size) \in Capacities
BY BrokerAssumption DEF ValidQuotes, CapacityOf

\* _register keeps the invariant.
LEMMA BucketKeeps ==
  ASSUME BrokerIInv, failure = "none", agenda # <<>>, run' = run, NEW e, e = Head(agenda),
         e.phase = BUCKET, HandleBucket(e)
  PROVE  BrokerIInv'
<1> DEFINE start == Sessions[e.bucket].start
           size == FactsAt(e.id, start).lot_size
           date == DateOf(start)
           key == <<e.id, e.bucket>>
<1>1. Handling(e) /\ failure' = failure /\ orders' = orders
  BY DEF HandleBucket, Handled, Handling
<1>2. /\ e.id \in Symbols /\ e.bucket \in BucketIds /\ ~Known(e.id, e.bucket)
      /\ e.phase \notin {SUBMIT, MATCH, EXPIRY}
  BY HeadMeans, Phases DEF BrokerIInv
<1>3. PICK quote \in Quotes :
        /\ RegisterBucket(e.id, e.bucket, date, size, CapacityOf(quote, size))
        /\ visible' = Put(visible, key, quote)
  BY DEF HandleBucket, CapacityOf
<1>4. date \in TradingDates
  BY <1>2, MarketTypes
<1>5. size \in LotSizes /\ HasSize(e.id, size) /\ date \in Dates
  BY <1>2, <1>4, FactsType
<1> DEFINE capacity == CapacityOf(quote, size)
<1>6. capacity \in Capacities
  BY <1>5, CapacityType
<1>7. HistoryIInv /\ OrdersFit /\ BucketsFit
  BY DEF BrokerIInv
<1> DEFINE bucket == [trade_date |-> date, lot_size |-> size,
                      capacity |-> capacity, remaining |-> capacity]
<1>8. bucket.trade_date = date /\ bucket.lot_size = size /\ bucket.capacity = CapacityOf(quote, size)
  OBVIOUS
<1>9. /\ RegisterBucket(e.id, e.bucket, date, size, capacity)
      /\ buckets' = Put(buckets, key, bucket) /\ key \notin DOMAIN buckets
      /\ reservations' = reservations
      /\ UNCHANGED <<lots, order_totals, applied_fills, used_order_ids, fees_paid>>
  BY <1>3 DEF RegisterBucket, Commit, UnknownBucket
<1> HIDE DEF start, size, date, capacity, bucket
<1>10. HistoryIInv'
  BY <1>2, <1>5, <1>6, <1>7, <1>9, RegisterKeepsHistory
<1>11. DOMAIN buckets = DOMAIN visible /\ key \notin DOMAIN visible
  BY <1>7, <1>9 DEF BucketsFit
<1> HIDE DEF key
<1>12. /\ DOMAIN buckets' = DOMAIN buckets \cup {key} /\ DOMAIN visible' = DOMAIN visible \cup {key}
       /\ buckets'[key] = bucket /\ visible'[key] = quote
       /\ \A k \in DOMAIN visible : /\ k # key /\ visible'[k] = visible[k]
                                    /\ buckets'[k] = buckets[k]
  BY <1>3, <1>9, <1>11 DEF Put
<1>13. OrdersFit'
  BY <1>1, <1>2, <1>9, OrdersStay
<1>14. ReservationsFit'
  BY <1>1, <1>2, <1>9, ReservationsStay
<1>15. FillsFit'
  BY <1>1, <1>9, <1>12, FillsStay
<1>16. BucketsFit'
  <2>1. ASSUME NEW s \in Symbols, NEW b \in BucketIds
        PROVE  <<s, b>> \in DOMAIN visible' <=> Known(s, b)'
    <3>1. Known(s, b)' <=> Known(s, b) \/ (e.id = s /\ e.bucket = b)
      BY <1>1, SameRun
    <3>2. <<s, b>> = key <=> e.id = s /\ e.bucket = b
      BY DEF key
    <3>3. <<s, b>> \in DOMAIN visible <=> Known(s, b)
      BY <1>7 DEF BucketsFit
    <3> QED BY <1>12, <3>1, <3>2, <3>3
  <2>2. ASSUME NEW k \in DOMAIN visible'
        PROVE  /\ visible'[k] \in Quotes
               /\ buckets'[k].trade_date = DateOf(Sessions[k[2]].start)
               /\ HasSize(k[1], buckets'[k].lot_size)
               /\ buckets'[k].capacity = CapacityOf(visible'[k], buckets'[k].lot_size)
    <3>1. CASE k = key
      <4>1. k[1] = e.id /\ k[2] = e.bucket
        BY <3>1 DEF key
      <4> QED BY <1>5, <1>8, <1>12, <3>1, <4>1 DEF date, start
    <3>2. CASE k # key
      <4>1. k \in DOMAIN visible
        BY <1>12, <3>2
      <4> QED BY <1>7, <1>12, <4>1 DEF BucketsFit
    <3> QED BY <3>1, <3>2
  <2> QED BY <1>11, <1>12, <2>1, <2>2 DEF BucketsFit
<1>17. QueueFits'
  BY <1>1, <1>2, <1>9, <1>12, QueueStays
<1>18. ResaleFits' /\ LotsFit'
  BY <1>9, SharesStay
<1>19. NoContractFits' /\ ValidRun(run)' /\ AgendaFits'
  BY <1>1, SameRun DEF BrokerIInv, NoContractFits, LotNamesAreFree
<1> QED BY <1>10, <1>13, <1>14, <1>15, <1>16, <1>17, <1>18, <1>19 DEF BrokerIInv

-----------------------------------------------------------------------------
(* The numbers of a fill. *)

\* A number of whole lots leaves no remainder.
LEMMA WholeLots ==
  ASSUME NEW d \in Nat \ {0}, NEW k \in Nat
  PROVE  d * k \in Nat /\ (d * k) % d = 0
<1> DEFINE x == d * k
           q == x \div d
           r == x % d
<1>1. x \in Nat
  BY ProductType
<1>2. q \in Nat /\ r \in 0 .. (d - 1) /\ x = d * q + r
  BY <1>1, DivMod
<1> HIDE DEF q, r
<1>3. d * k = d * q + r
  BY <1>2
<1>4. k = q => r = 0
  BY <1>2, <1>3
<1>5. ASSUME q + 1 <= k PROVE FALSE
  <2>1. d * (q + 1) <= d * k
    BY <1>2, <1>5
  <2>2. d * (q + 1) = d * q + d
    BY <1>2
  <2> QED BY <1>2, <1>3, <2>1, <2>2
<1>6. ASSUME k + 1 <= q PROVE FALSE
  <2>1. d * (k + 1) <= d * q
    BY <1>2, <1>6
  <2>2. d * (k + 1) = d * k + d
    BY <1>2
  <2> QED BY <1>2, <1>3, <2>1, <2>2
<1>7. r = 0
  BY <1>2, <1>4, <1>5, <1>6
<1> QED BY <1>1, <1>7 DEF r

\* Whole lots less whole lots are whole lots.
LEMMA WholeLotsLeft ==
  ASSUME NEW d \in Nat \ {0}, NEW x \in Nat, NEW y \in Nat, y <= x, x % d = 0, y % d = 0
  PROVE  (x - y) % d = 0
<1> DEFINE a == x \div d
           b == y \div d
<1>1. a \in Nat /\ b \in Nat /\ x = d * a /\ y = d * b
  BY DivMod
<1> HIDE DEF a, b
<1>2. b <= a
  <2> SUFFICES ASSUME a + 1 <= b PROVE FALSE
    BY <1>1
  <2>1. d * (a + 1) <= d * b
    BY <1>1
  <2>2. d * (a + 1) = d * a + d
    BY <1>1
  <2> QED BY <1>1, <2>1, <2>2
<1>3. x - y = d * (a - b) /\ a - b \in Nat
  BY <1>1, <1>2
<1> QED BY <1>3, WholeLots

\* What one order may take of a bucket: whole lots of both, and if that is not
\* all the order wants, less than a lot is left in the bucket.
LEMMA ProposedQtyFits ==
  ASSUME NEW remaining \in Nat, NEW capacity \in Nat, NEW size \in Nat \ {0},
         NEW q, q = ProposedQty(remaining, capacity, size), remaining % size = 0
  PROVE  /\ q \in Nat /\ q % size = 0 /\ q <= remaining /\ q <= capacity
         /\ q < remaining => capacity - q < size
<1> DEFINE most == IF remaining <= capacity THEN remaining ELSE capacity
           k == most \div size
           left == most % size
<1>1. most \in Nat /\ most <= remaining /\ most <= capacity
      /\ (most = remaining \/ most = capacity)
  OBVIOUS
<1>2. q = size * k
  BY DEF ProposedQty
<1> HIDE DEF most
<1>3. k \in Nat /\ left \in 0 .. (size - 1) /\ most = size * k + left
  BY <1>1, DivMod
<1>4. most = remaining => left = 0
  OBVIOUS
<1> HIDE DEF k, left
<1>5. q \in Nat /\ q % size = 0
  BY <1>2, <1>3, WholeLots
<1>6. most = q + left
  BY <1>2, <1>3
<1> QED BY <1>1, <1>3, <1>4, <1>5, <1>6

\* No order takes anything only when less than a lot is left.
LEMMA NothingProposed ==
  ASSUME NEW remaining \in Nat \ {0}, NEW capacity \in Nat, NEW size \in Nat \ {0},
         ProposedQty(remaining, capacity, size) = 0, remaining % size = 0
  PROVE  capacity < size
<1> DEFINE q == ProposedQty(remaining, capacity, size)
<1>1. q = 0 /\ q < remaining
  OBVIOUS
<1> HIDE DEF q
<1>2. capacity - q < size
  BY <1>1, ProposedQtyFits DEF q
<1> QED BY <1>1, <1>2

\* A later instant is on no earlier a date.
LEMMA LaterDate ==
  ASSUME NEW s \in Nat, NEW t \in Nat, s <= t
  PROVE  DateOf(s) \in Nat /\ DateOf(t) \in Nat /\ DateOf(s) <= DateOf(t)
<1>1. DayLength \in Nat \ {0}
  BY MarketTypes
<1>2. s \div DayLength \in Nat /\ t \div DayLength \in Nat
  BY <1>1, DivMod
<1>3. s \div DayLength + 1 <= t \div DayLength \/ s \div DayLength = t \div DayLength
  BY <1>1, DivMonotone
<1> DEFINE a == s \div DayLength
           b == t \div DayLength
<1> HIDE DEF a, b
<1>4. a <= b /\ a \in Nat /\ b \in Nat
  BY <1>2, <1>3 DEF a, b
<1> QED BY <1>4 DEF DateOf, a, b

\* The next trading date is the first one after.
LEMMA NextDateIsNext ==
  ASSUME NEW d \in TradingDates, LaterDates(d) # {}
  PROVE  /\ NextDate(d) \in TradingDates /\ NextDate(d) > d
         /\ \A n \in TradingDates : n > d => NextDate(d) <= n
<1>1. IsFiniteSet(TradingDates) /\ TradingDates \subseteq Nat
  BY ClockAssumption DEF ValidCalendar
<1>2. PICK most \in TradingDates : \A n \in TradingDates : n <= most
  BY <1>1, LargestExists
<1>3. ASSUME NEW n \in LaterDates(d)
      PROVE  n \in 1 .. most
  <2>1. n \in Nat /\ d \in Nat /\ most \in Nat /\ n > d /\ n <= most
    BY <1>1, <1>2 DEF LaterDates
  <2> QED BY <2>1
<1>4. \E n \in LaterDates(d) : \A m \in LaterDates(d) : n <= m
  <2>1. LaterDates(d) \subseteq 1 .. most /\ most \in Nat
    BY <1>1, <1>2, <1>3
  <2> QED BY <2>1, SmallestExists
<1>5. NextDate(d) \in LaterDates(d) /\ \A m \in LaterDates(d) : NextDate(d) <= m
  BY <1>4 DEF NextDate
<1> QED BY <1>5 DEF LaterDates

-----------------------------------------------------------------------------
(* The proposal a match makes. *)

\* The bucket an order is matched against, as its symbol sees it.
KeyOf(o, b) == <<run.submits[o].symbol, b>>

\* The shares a match proposes, and the proposal.
QtyFor(o, b) ==
  ProposedQty(orders[o].remaining_qty, buckets[KeyOf(o, b)].remaining,
              FactsAt(run.submits[o].symbol, Sessions[b].start).lot_size)
FillOf(o, b) == FillFor(run.submits[o], b, visible[KeyOf(o, b)], QtyFor(o, b))

\* A working order meets a bucket it can trade in, and has not met it before.
Trading(o, b) ==
  /\ o \in DOMAIN reservations /\ b \in BucketIds
  /\ MatchOf(o, b) \in EventsOf(run) /\ ~Matched(o, b) /\ Known(run.submits[o].symbol, b)
  /\ Tradeable(o, b) /\ QtyFor(o, b) # 0
  /\ run.submits[o].side = "SELL" \/ LaterDates(DateOf(Sessions[b].start)) # {}

\* It is the proposal p that a match of the two makes.
Trades(p, o, b) == Trading(o, b) /\ p = FillOf(o, b)

\* Nothing trades exactly when the bucket does not suit the order or no lot is left.
LEMMA NoMatchMeans ==
  ASSUME ValidRun(run), NEW o \in DOMAIN run.submits, NEW b \in BucketIds
  PROVE  NoMatch(run.submits[o], b, visible[KeyOf(o, b)]) <=> ~Tradeable(o, b) \/ QtyFor(o, b) = 0
<1>1. run.submits[o].order_id = o
  BY EventTimes
<1> QED BY <1>1 DEF NoMatch, Tradeable, QtyFor, KeyOf

\* What the bucket, the order and its reservation are when they meet.
LEMMA Meeting ==
  ASSUME BrokerIInv, NEW o \in DOMAIN reservations, NEW b \in BucketIds,
         Known(run.submits[o].symbol, b)
  PROVE  LET c == run.submits[o]
             r == reservations[o]
             k == KeyOf(o, b)
         IN  /\ o \in DOMAIN run.submits /\ o \in DOMAIN orders /\ o \in OrderIds
             /\ c.order_id = o /\ c.symbol \in Symbols /\ c.side \in Sides
             /\ r.symbol = c.symbol /\ r.side = c.side /\ r.limit = c.limit
             /\ k \in DOMAIN visible /\ k \in DOMAIN buckets
             /\ visible[k] \in Quotes /\ buckets[k].trade_date = DateOf(Sessions[b].start)
             /\ DateOf(Sessions[b].start) \in TradingDates /\ DateOf(Sessions[b].start) \in Dates
             /\ r.lot_size \in LotSizes /\ r.lot_size \in Nat \ {0}
             /\ r.lot_size = FactsAt(c.symbol, Sessions[b].start).lot_size
             /\ buckets[k].lot_size = r.lot_size
             /\ buckets[k].remaining \in Nat
             /\ orders[o].remaining_qty = r.remaining_qty /\ r.remaining_qty \in Nat \ {0}
             /\ r.remaining_qty % r.lot_size = 0
<1> DEFINE c == run.submits[o]
           r == reservations[o]
           k == KeyOf(o, b)
           date == DateOf(Sessions[b].start)
<1>1. /\ ValidRun(run) /\ ReservationsFit /\ BucketsFit /\ HistoryIInv
      /\ o \in DOMAIN run.submits /\ o \in DOMAIN orders /\ o \in OrderIds
  BY WorkingOrder DEF BrokerIInv
<1>2. c.order_id = o /\ c.symbol \in Symbols /\ c.side \in Sides
  BY <1>1, EventTimes
<1>3. /\ r.symbol = c.symbol /\ r.side = c.side /\ r.limit = c.limit
      /\ HasSize(r.symbol, r.lot_size) /\ r.remaining_qty % r.lot_size = 0
      /\ r.remaining_qty = orders[o].remaining_qty
  BY <1>1 DEF ReservationsFit
<1>4. k \in DOMAIN visible /\ k \in DOMAIN buckets /\ k[1] = c.symbol /\ k[2] = b
  BY <1>1, <1>2 DEF BucketsFit, KeyOf
<1>5. /\ visible[k] \in Quotes /\ buckets[k].trade_date = date
      /\ HasSize(c.symbol, buckets[k].lot_size)
  BY <1>1, <1>4 DEF BucketsFit
<1>6. date \in TradingDates
  BY MarketTypes
<1>7. /\ date \in Dates /\ HasSize(c.symbol, FactsAt(c.symbol, Sessions[b].start).lot_size)
      /\ FactsAt(c.symbol, Sessions[b].start).lot_size \in LotSizes
  BY <1>2, <1>6, FactsType
<1>8. /\ r.lot_size = FactsAt(c.symbol, Sessions[b].start).lot_size
      /\ buckets[k].lot_size = r.lot_size
  <2> HIDE DEF k, r, c
  <2>1. r.lot_size = FactsAt(c.symbol, Sessions[b].start).lot_size
    BY <1>3, <1>6, <1>7, OneSize
  <2>2. buckets[k].lot_size = r.lot_size
    BY <1>3, <1>5, <1>6, OneSize
  <2> QED BY <2>1, <2>2
<1>9. r.remaining_qty \in Nat \ {0}
  BY <1>1, ReservationType DEF HistoryIInv
<1>10. buckets[k].remaining \in Nat
  BY <1>1, <1>4, HistoryTypes DEF Bucket
<1>11. \A x \in LotSizes : x \in Nat \ {0}
  BY LedgerAssumption
<1> HIDE DEF c, r, k, date
<1> QED BY <1>1, <1>2, <1>3, <1>4, <1>5, <1>6, <1>7, <1>8, <1>9, <1>10, <1>11
        DEF c, r, k, date

\* What a match proposes: whole lots, no more than the order wants or the bucket has.
LEMMA QtyFits ==
  ASSUME BrokerIInv, NEW o \in DOMAIN reservations, NEW b \in BucketIds,
         Known(run.submits[o].symbol, b)
  PROVE  LET q == QtyFor(o, b)
             r == reservations[o]
         IN  /\ q \in Nat /\ q % r.lot_size = 0 /\ q <= r.remaining_qty
             /\ q <= buckets[KeyOf(o, b)].remaining
             /\ q < r.remaining_qty => buckets[KeyOf(o, b)].remaining - q < r.lot_size
             /\ q # 0 => q \in Quantities
<1> DEFINE r == reservations[o]
           q == QtyFor(o, b)
<1>1. /\ r.lot_size \in Nat \ {0} /\ r.lot_size \in LotSizes
      /\ r.remaining_qty \in Nat \ {0} /\ r.remaining_qty % r.lot_size = 0
      /\ buckets[KeyOf(o, b)].remaining \in Nat
      /\ q = ProposedQty(r.remaining_qty, buckets[KeyOf(o, b)].remaining, r.lot_size)
      /\ orders[o].remaining_qty = r.remaining_qty
      /\ o \in DOMAIN orders /\ o \in DOMAIN run.submits
  BY Meeting DEF QtyFor
<1> HIDE DEF q, r
<1>2. /\ q \in Nat /\ q % r.lot_size = 0 /\ q <= r.remaining_qty
      /\ q <= buckets[KeyOf(o, b)].remaining
      /\ q < r.remaining_qty => buckets[KeyOf(o, b)].remaining - q < r.lot_size
  <2> DEFINE size == r.lot_size
             wanted == r.remaining_qty
             offered == buckets[KeyOf(o, b)].remaining
  <2>1. /\ wanted \in Nat /\ offered \in Nat /\ size \in Nat \ {0}
        /\ wanted % size = 0 /\ q = ProposedQty(wanted, offered, size)
    BY <1>1
  <2>2. /\ q \in Nat /\ q % size = 0 /\ q <= wanted /\ q <= offered
        /\ q < wanted => offered - q < size
    <3> HIDE DEF size, wanted, offered
    <3> QED BY <2>1, ProposedQtyFits
  <2> QED BY <2>2
<1>3. ASSUME q # 0 PROVE q \in Quantities
  <2>1. /\ orders[o].filled_qty + orders[o].remaining_qty = run.submits[o].qty
        /\ orders[o] \in OrderState
    BY <1>1 DEF BrokerIInv, OrdersFit
  <2>2. run.submits[o].qty \in Quantities
    BY <1>1, SubmitType DEF BrokerIInv
  <2>3. orders[o].filled_qty \in Nat /\ run.submits[o].qty \in Nat
    BY <2>1, <2>2, PricesAreNat DEF OrderState
  <2>4. q <= run.submits[o].qty
    BY <1>1, <1>2, <2>1, <2>3
  <2>5. q \in 1 .. run.submits[o].qty
    BY <1>2, <1>3, <2>3, <2>4
  <2> QED BY <1>1, <1>2, <2>2, <2>5, BrokerAssumption DEF ValidQuotes
<1> QED BY <1>2, <1>3 DEF q, r

\* The proposal has the shape of one, and says what the match is about.
Shaped(p, o, b) ==
  /\ p \in FillProposal
  /\ p.order_id = o /\ p.bucket_id = b /\ p.fill_id = FillIdOf[<<o, b>>]
  /\ p.symbol = run.submits[o].symbol
  /\ p.side = run.submits[o].side /\ p.side \in Sides
  /\ p.lot_size = reservations[o].lot_size
  /\ p.qty = QtyFor(o, b) /\ p.qty \in Nat \ {0}
  /\ p.price = visible[KeyOf(o, b)].close /\ p.price \in Nat \ {0}
  /\ p.fee_delta = FeeDue(o, p.price * p.qty)
  /\ p.trade_date = DateOf(Sessions[b].start)
  /\ p.sellable_date =
       (IF run.submits[o].side = "BUY" THEN NextDate(DateOf(Sessions[b].start)) ELSE NoDate)
  /\ p.expected_version = ledger_version

\* What a match proposes is a proposal.
LEMMA FillShape ==
  ASSUME BrokerIInv, NEW o, NEW b, NEW p, Trades(p, o, b)
  PROVE  Shaped(p, o, b)
<1> DEFINE c == run.submits[o]
           date == DateOf(Sessions[b].start)
           k == KeyOf(o, b)
           q == QtyFor(o, b)
           fee == FeeDue(o, visible[k].close * q)
           sellable == IF c.side = "BUY" THEN NextDate(date) ELSE NoDate
           id == FillIdOf[<<o, b>>]
<1>1. /\ o \in DOMAIN reservations /\ b \in BucketIds /\ Known(c.symbol, b)
      /\ Tradeable(o, b) /\ q # 0
      /\ c.side = "SELL" \/ LaterDates(date) # {}
  BY DEF Trades, Trading
<1>2. /\ o \in OrderIds /\ c.order_id = o /\ c.side \in Sides
      /\ reservations[o].symbol = c.symbol /\ reservations[o].side = c.side
      /\ visible[k] \in Quotes /\ date \in TradingDates /\ date \in Dates
  BY <1>1, Meeting
<1>3. q \in Quantities /\ q \in Nat \ {0}
  BY <1>1, QtyFits, PricesAreNat
<1>4. visible[k].close \in Prices /\ visible[k].close \in Nat \ {0}
  <2>1. ~visible[k].missing
    BY <1>1 DEF Tradeable, KeyOf
  <2>2. \A x \in Quotes : x.missing \/ x.close \in Prices
    BY BrokerAssumption DEF ValidQuotes
  <2> QED BY <1>2, <2>1, <2>2, PricesAreNat
<1>5. LedgerIInv /\ ledger_version \in Nat
  BY HistoryTypes, InvariantTypes DEF BrokerIInv
<1>6. fee \in Nat
  <2> HIDE DEF q, k
  <2> QED BY <1>1, <1>3, <1>4, <1>5, FeeDueType
<1>7. id \in FillIds
  BY <1>1, <1>2, BrokerAssumption DEF ValidFacts
<1>8. sellable \in Dates \cup {NoDate}
  <2>1. c.side = "BUY" => LaterDates(date) # {}
    BY <1>1
  <2> HIDE DEF date
  <2>2. c.side = "BUY" => NextDate(date) \in Dates
    BY <1>2, <2>1, NextDateIsNext, MarketTypes
  <2> QED BY <2>2
<1>9. p = Proposal(o, id, q, visible[k].close, fee, b, date, sellable, ledger_version)
  BY <1>2 DEF Trades, FillOf, FillFor
<1> HIDE DEF q, k, fee, date, sellable, id
<1>10. p \in FillProposal
  <2>1. PICK price \in Prices : price = visible[k].close
    BY <1>4
  <2>2. PICK version \in Nat : version = ledger_version
    BY <1>5
  <2>3. Proposal(o, id, q, price, fee, b, date, sellable, version) \in FillProposal
    BY <1>1, <1>2, <1>3, <1>5, <1>6, <1>7, <1>8, ProposalType
  <2> QED BY <1>9, <2>1, <2>2, <2>3
<1>11. /\ p.order_id = o /\ p.bucket_id = b /\ p.fill_id = id
       /\ p.symbol = c.symbol /\ p.side = c.side
       /\ p.lot_size = reservations[o].lot_size
       /\ p.qty = q /\ p.price = visible[k].close /\ p.fee_delta = fee
       /\ p.trade_date = date /\ p.sellable_date = sellable
       /\ p.expected_version = ledger_version
  BY <1>2, <1>9 DEF Proposal
<1> HIDE DEF c
<1>12. p.fee_delta = FeeDue(o, p.price * p.qty)
  BY <1>11 DEF fee
<1> QED BY <1>2, <1>3, <1>4, <1>10, <1>11, <1>12 DEF q, k, date, sellable, id, c, Shaped

-----------------------------------------------------------------------------
(* The ledger's checks of the proposal. *)

\* The proposal is consistent in itself.
LEMMA FillIsWellFormed ==
  ASSUME BrokerIInv, NEW o, NEW b, NEW p, Trades(p, o, b)
  PROVE  WellFormedFill(p)
<1>0. Shaped(p, o, b)
  BY FillShape
<1>1. /\ p.lot_size = reservations[o].lot_size /\ p.qty = QtyFor(o, b)
      /\ p.side = run.submits[o].side /\ p.side \in Sides
      /\ p.trade_date = DateOf(Sessions[b].start)
      /\ p.sellable_date =
           (IF run.submits[o].side = "BUY" THEN NextDate(DateOf(Sessions[b].start)) ELSE NoDate)
  BY <1>0 DEF Shaped
<1>2. /\ o \in DOMAIN reservations /\ b \in BucketIds /\ Known(run.submits[o].symbol, b)
      /\ run.submits[o].side = "SELL" \/ LaterDates(DateOf(Sessions[b].start)) # {}
  BY DEF Trades, Trading
<1>3. p.qty % p.lot_size = 0
  BY <1>1, <1>2, QtyFits
<1>4. PICK d : d = DateOf(Sessions[b].start)
  OBVIOUS
<1>5. d \in TradingDates /\ DateOf(Sessions[b].start) = d
  BY <1>2, <1>4, Meeting
<1>6. ASSUME p.side = "BUY" PROVE p.sellable_date # NoDate /\ p.sellable_date > p.trade_date
  <2>1. NextDate(d) \in TradingDates /\ NextDate(d) > d
    BY <1>1, <1>2, <1>5, <1>6, NextDateIsNext
  <2>2. NextDate(d) # NoDate
    BY <2>1, MarketTypes, LedgerAssumption
  <2>3. p.sellable_date = NextDate(d) /\ p.trade_date = d
    BY <1>1, <1>5, <1>6
  <2> QED BY <2>1, <2>2, <2>3
<1>7. ASSUME p.side # "BUY" PROVE p.sellable_date = NoDate
  BY <1>1, <1>7
<1> QED BY <1>3, <1>6, <1>7 DEF WellFormedFill

\* The proposal passes the checks against the reservation, the bucket and the fees.
LEMMA FillIsAdmissible ==
  ASSUME BrokerIInv, NEW o, NEW b, NEW p, Trades(p, o, b)
  PROVE  AdmissibleFill(p)
<1> DEFINE c == run.submits[o]
           r == reservations[o]
           k == KeyOf(o, b)
<1>0. Shaped(p, o, b)
  BY FillShape
<1>1. /\ o \in DOMAIN reservations /\ b \in BucketIds /\ Known(c.symbol, b)
      /\ ~Matched(o, b) /\ Tradeable(o, b)
  BY DEF Trades, Trading
<1>2. /\ p.order_id = o /\ p.bucket_id = b /\ p.fill_id = FillIdOf[<<o, b>>]
      /\ p.symbol = c.symbol /\ p.side = c.side
      /\ p.lot_size = r.lot_size
      /\ p.qty = QtyFor(o, b)
      /\ p.price = visible[k].close
      /\ p.fee_delta = FeeDue(o, p.price * p.qty)
      /\ p.trade_date = DateOf(Sessions[b].start)
      /\ p.expected_version = ledger_version
  BY <1>0 DEF Shaped
<1>3. /\ o \in OrderIds
      /\ r.symbol = c.symbol /\ r.side = c.side /\ r.limit = c.limit
      /\ k \in DOMAIN buckets /\ buckets[k].trade_date = DateOf(Sessions[b].start)
      /\ buckets[k].lot_size = r.lot_size
  BY <1>1, Meeting
<1>4. QtyFor(o, b) <= r.remaining_qty /\ QtyFor(o, b) <= buckets[k].remaining
  BY <1>1, QtyFits
<1>5. p.fill_id \notin DOMAIN applied_fills
  <2> SUFFICES ASSUME p.fill_id \in DOMAIN applied_fills
               PROVE  FALSE
    OBVIOUS
  <2> DEFINE f == p.fill_id
             old == applied_fills[f].proposal
  <2>1. /\ old.order_id \in DOMAIN orders /\ f = FillIdOf[<<old.order_id, old.bucket_id>>]
        /\ Matched(old.order_id, old.bucket_id)
    BY DEF BrokerIInv, FillsFit
  <2>2. old \in FillProposal
    BY HistoryTypes, FillAmounts DEF BrokerIInv
  <2>3. <<old.order_id, old.bucket_id>> \in OrderIds \X BucketIds /\ <<o, b>> \in OrderIds \X BucketIds
    BY <1>1, <1>3, <2>2 DEF FillProposal
  <2>4. \A i, j \in OrderIds \X BucketIds : FillIdOf[i] = FillIdOf[j] => i = j
    BY BrokerAssumption DEF ValidFacts
  <2>5. <<old.order_id, old.bucket_id>> = <<o, b>>
    BY <1>2, <2>1, <2>3, <2>4
  <2> QED BY <1>1, <2>1, <2>5
<1>6. Crosses(p.side, p.price, r.limit)
  BY <1>1, <1>2, <1>3 DEF Tradeable, KeyOf
<1>7. p.fee_delta = FeeDelta(Model[p.side], order_totals[o].notional,
                             order_totals[o].notional + p.price * p.qty)
  BY <1>2, <1>3 DEF FeeDue
<1>8. <<p.symbol, p.bucket_id>> = k
  BY <1>2 DEF KeyOf
<1> HIDE DEF c, r, k
<1> QED BY <1>1, <1>2, <1>3, <1>4, <1>5, <1>6, <1>7, <1>8
        DEF AdmissibleFill, NotApplied, NotStale, r

\* A purchase never costs more than its order set aside for it.
LEMMA PurchaseIsCovered ==
  ASSUME BrokerIInv, LotNamesAreFree, NEW o, NEW b, NEW p, Trades(p, o, b),
         p.side = "BUY"
  PROVE  BuyIsCovered(p)
<1> DEFINE r == reservations[o]
           paid == order_totals[o].notional
<1>0. Shaped(p, o, b)
  BY FillShape
<1>1. /\ o \in DOMAIN reservations /\ b \in BucketIds /\ Known(run.submits[o].symbol, b)
  BY DEF Trades, Trading
<1>2. /\ p \in FillProposal /\ p.order_id = o /\ p.qty \in Nat \ {0} /\ p.price \in Nat \ {0}
      /\ p.side = run.submits[o].side
      /\ p.fee_delta = FeeDue(o, p.price * p.qty)
  BY <1>0 DEF Shaped
<1>3. AdmissibleFill(p) /\ LedgerIInv
  BY FillIsAdmissible, HistoryTypes DEF BrokerIInv
<1>4. /\ r \in Reservation /\ r.limit \in Nat \ {0} /\ r.remaining_qty \in Nat \ {0}
      /\ paid \in Nat /\ r.cash \in Nat
  BY <1>1, <1>3, ReservationType
<1>5. /\ p.qty <= r.remaining_qty /\ p.price <= r.limit /\ r.side = "BUY"
      /\ p.fee_delta = FeeDelta(Model["BUY"], paid, paid + p.price * p.qty)
  BY <1>2, <1>3 DEF AdmissibleFill, Crosses
<1>6. p.price * p.qty + FeeDelta(Model["BUY"], paid, paid + p.price * p.qty)
        + BuyRequirement(paid + p.price * p.qty, r.limit, r.remaining_qty - p.qty)
      <= BuyRequirement(paid, r.limit, r.remaining_qty)
  <2> HIDE DEF r, paid
  <2> QED BY <1>2, <1>4, <1>5, RequirementCoversFill
<1>7. r.cash = BuyRequirement(paid, r.limit, r.remaining_qty)
  BY <1>1, <1>3, <1>5 DEF LedgerIInv, BuyReservationIsExact
<1>8. RestOfReservation(p).cash
        = BuyRequirement(paid + p.price * p.qty, r.limit, r.remaining_qty - p.qty)
  BY <1>2, <1>4 DEF RestOfReservation, KeptCash, Reservation
<1>9. p.fill_id \notin DOMAIN lots
  <2>1. p.fill_id \in FillIds /\ p.fill_id \notin DOMAIN applied_fills
    BY <1>2, <1>3 DEF FillProposal, AdmissibleFill, NotApplied
  <2> QED BY <2>1 DEF BrokerIInv, LotsFit
<1> HIDE DEF r, paid
<1>10. p.price * p.qty + p.fee_delta + RestOfReservation(p).cash <= r.cash
  BY <1>5, <1>6, <1>7, <1>8
<1> QED BY <1>2, <1>9, <1>10 DEF BuyIsCovered, r

\* A sale is backed by the lots its order holds, all of which may be sold by then.
LEMMA SaleIsBacked ==
  ASSUME BrokerIInv, NEW o, NEW b, NEW p, Trades(p, o, b), p.side = "SELL"
  PROVE  SellIsBacked(p)
<1> DEFINE r == reservations[o]
           c == run.submits[o]
           amounts == r.alloc
           start == Sessions[b].start
<1>0. Shaped(p, o, b)
  BY FillShape
<1>1. /\ o \in DOMAIN reservations /\ b \in BucketIds /\ MatchOf(o, b) \in EventsOf(run)
      /\ Known(c.symbol, b)
  BY DEF Trades, Trading
<1>2. /\ p \in FillProposal /\ p.order_id = o /\ p.qty \in Nat \ {0}
      /\ p.side = c.side /\ p.trade_date = DateOf(start) /\ p.qty = QtyFor(o, b)
  BY <1>0 DEF Shaped
<1>3. LedgerIInv /\ HistoryIInv
  BY HistoryTypes DEF BrokerIInv
<1>4. r.alloc \in [LotIds -> Nat] /\ r.remaining_qty \in Nat \ {0} /\ r.side = c.side
      /\ o \in DOMAIN run.submits
  BY <1>1, <1>3, ReservationType, Meeting
<1>5. p.qty <= r.remaining_qty
  BY <1>1, <1>2, QtyFits
<1>6. Total(amounts) = r.remaining_qty
  BY <1>1, <1>2, <1>3, <1>4 DEF LedgerIInv, SellRemainderIsBacked
<1>7. Offers(amounts)
  <2>1. \A l \in LotIds : amounts[l] # 0 => l \in DOMAIN lots
    BY <1>1, <1>3, LoansAreOfLots
  <2>2. \A l \in DOMAIN lots : lots[l].acquire_date \in Nat
    BY <1>3, LotType, LedgerAssumption DEF Lot
  <2> QED BY <1>4, <2>1, <2>2 DEF Offers
<1>8. /\ Taken(p) = FifoTake(amounts, p.qty)
      /\ FifoTake(amounts, p.qty) \in [LotIds -> Nat]
      /\ \A l \in LotIds : FifoTake(amounts, p.qty)[l] <= amounts[l]
      /\ Total(FifoTake(amounts, p.qty)) = p.qty
  <2>1. Taken(p) = FifoTake(amounts, p.qty)
    BY <1>2 DEF Taken
  <2> HIDE DEF amounts
  <2> QED BY <1>2, <1>5, <1>6, <1>7, <2>1, FifoTakeIsPart, FifoTakeTotal
<1>9. c.submitted_at \in Nat /\ start \in Nat /\ c.submitted_at <= start
  <2>1. Eligible(c, c.symbol, b, Sessions[b].end)
    BY <1>1, <1>4, MatchIsEligible DEF BrokerIInv
  <2>2. c.submitted_at \in Nat /\ start \in Nat
    BY <1>1, <1>4, EventTimes, MarketTypes DEF BrokerIInv
  <2> QED BY <2>1, <2>2 DEF Eligible
<1>10. DateOf(c.submitted_at) \in Nat /\ DateOf(start) \in Nat /\ DateOf(c.submitted_at) <= DateOf(start)
  <2> HIDE DEF start
  <2> QED BY <1>9, LaterDate
<1>11. ASSUME NEW l \in LotIds, Taken(p)[l] > 0
       PROVE  MayConsume(l, Taken(p)[l], p.trade_date)
  <2>1. PICK taken \in Nat : taken = Taken(p)[l]
    BY <1>8
  <2>2. PICK lent \in Nat : lent = amounts[l]
    BY <1>4
  <2>3. taken > 0 /\ taken <= lent /\ lent > 0
    <3>1. taken > 0 /\ taken <= lent
      BY <1>8, <1>11, <2>1, <2>2
    <3> QED BY <3>1
  <2>4. l \in DOMAIN lots
    <3>1. amounts[l] # 0
      BY <2>2, <2>3
    <3> QED BY <1>1, <1>3, <3>1, LoansAreOfLots
  <2>5. /\ lots[l].qty \in Nat \ {0} /\ lots[l].reserved_qty \in Nat
        /\ lots[l].reserved_qty = Lent(reservations, l)
        /\ Lent(reservations, l) <= lots[l].qty
        /\ lots[l].sellable_date \in Nat
    <3>1. lots[l] \in Lot
      BY <1>3, <2>4, LotType
    <3>2. lots[l].sellable_date \in Nat
      BY <3>1, LedgerAssumption DEF Lot
    <3> QED BY <1>3, <2>4, <3>2, LotType
  <2>6. lent <= lots[l].reserved_qty
    <3>1. IsReservations(reservations)
      BY <1>3, InvariantTypes
    <3> QED BY <1>1, <2>2, <2>5, <3>1, LentBounds
  <2>7. lots[l].sellable_date <= DateOf(c.submitted_at)
    <3>1. r.alloc[l] > 0
      BY <2>2, <2>3
    <3> QED BY <1>1, <2>4, <3>1 DEF BrokerIInv, ReservationsFit
  <2> HIDE DEF c, start
  <2>8. lots[l].sellable_date <= p.trade_date
    BY <1>2, <1>10, <2>5, <2>7
  <2>9. taken <= lots[l].reserved_qty /\ taken <= lots[l].qty
    BY <2>3, <2>5, <2>6
  <2> QED BY <2>1, <2>8, <2>9 DEF MayConsume
<1> QED BY <1>8, <1>11 DEF SellIsBacked

-----------------------------------------------------------------------------
(* What a fill changes. *)

\* The match event e of order o and bucket b is answered with the fill p.
Fills(e, p, o, b) ==
  /\ Handling(e) /\ e.phase = MATCH /\ e.id = o /\ e.bucket = b
  /\ Trades(p, o, b) /\ ApplyFill(p)
  /\ visible' = visible /\ failure' = failure
  /\ LET left == orders[o].remaining_qty - p.qty
     IN  orders' = [orders EXCEPT ![o] =
           [status |-> IF left = 0 THEN "Filled" ELSE "PartiallyFilled",
            filled_qty |-> orders[o].filled_qty + p.qty, remaining_qty |-> left]]

\* What the order still wants after the fill.
LeftBy(p, o) == reservations[o].remaining_qty - p.qty

\* It is a number of whole lots.
LEMMA FillLeaves ==
  ASSUME BrokerIInv, NEW e, NEW o, NEW b, NEW p, Fills(e, p, o, b)
  PROVE  /\ LeftBy(p, o) \in Nat /\ LeftBy(p, o) < reservations[o].remaining_qty
         /\ reservations[o].lot_size \in Nat \ {0} /\ LeftBy(p, o) % reservations[o].lot_size = 0
         /\ orders[o].remaining_qty = reservations[o].remaining_qty
         /\ reservations[o].remaining_qty \in Nat
         /\ p.qty \in Nat \ {0} /\ o \in DOMAIN reservations /\ o \in DOMAIN orders
         /\ o \in DOMAIN run.submits /\ b \in BucketIds /\ p \in FillProposal
         /\ Known(run.submits[o].symbol, b)
<1>1. Trades(p, o, b) /\ Shaped(p, o, b)
  BY FillShape DEF Fills
<1>2. o \in DOMAIN reservations /\ b \in BucketIds /\ Known(run.submits[o].symbol, b)
  BY <1>1 DEF Trades, Trading
<1>3. p.qty = QtyFor(o, b) /\ p.qty \in Nat \ {0} /\ p \in FillProposal
  BY <1>1 DEF Shaped
<1> DEFINE r == reservations[o]
<1>4. /\ r.lot_size \in Nat \ {0} /\ r.remaining_qty \in Nat \ {0} /\ r.remaining_qty % r.lot_size = 0
      /\ orders[o].remaining_qty = r.remaining_qty
      /\ o \in DOMAIN run.submits /\ o \in DOMAIN orders
  BY <1>2, Meeting
<1>5. p.qty % r.lot_size = 0 /\ p.qty <= r.remaining_qty
  BY <1>2, <1>3, QtyFits
<1>6. (r.remaining_qty - p.qty) % r.lot_size = 0
  <2> HIDE DEF r
  <2> QED BY <1>3, <1>4, <1>5, WholeLotsLeft
<1>7. r.remaining_qty - p.qty \in Nat /\ r.remaining_qty - p.qty < r.remaining_qty
  <2> HIDE DEF r
  <2> QED BY <1>3, <1>4, <1>5
<1> QED BY <1>2, <1>3, <1>4, <1>6, <1>7 DEF LeftBy

\* The history with the proposal p recorded.
Records(p) ==
  /\ FillRecord(p, ledger_version) \in FillApplied
  /\ FillRecord(p, ledger_version).proposal = p
  /\ p.fill_id \in FillIds \ DOMAIN applied_fills
  /\ applied_fills' = Put(applied_fills, p.fill_id, FillRecord(p, ledger_version))
  /\ DOMAIN applied_fills' = DOMAIN applied_fills \cup {p.fill_id}
  /\ applied_fills'[p.fill_id].proposal = p
  /\ \A f \in DOMAIN applied_fills : applied_fills'[f] = applied_fills[f] /\ f # p.fill_id

\* One fill more.
LEMMA FillRecorded ==
  ASSUME BrokerIInv, NEW e, NEW o, NEW b, NEW p, Fills(e, p, o, b)
  PROVE  Records(p)
<1>1. HistoryIInv /\ IsHistory(applied_fills)
  BY HistoryTypes DEF BrokerIInv
<1>2. ApplyFill(p) /\ p \in FillProposal
  BY FillLeaves DEF Fills
<1>3. PICK entry : entry = FillRecord(p, ledger_version)
  OBVIOUS
<1>4. /\ entry \in FillApplied /\ entry.proposal = p
      /\ p.fill_id \in FillIds \ DOMAIN applied_fills
      /\ applied_fills' = Put(applied_fills, p.fill_id, entry)
  BY <1>1, <1>2, <1>3, FillPublishes
<1>5. /\ DOMAIN applied_fills' = DOMAIN applied_fills \cup {p.fill_id}
      /\ applied_fills'[p.fill_id] = entry
      /\ \A f \in DOMAIN applied_fills : applied_fills'[f] = applied_fills[f] /\ f # p.fill_id
  BY <1>4 DEF Put
<1> QED BY <1>3, <1>4, <1>5 DEF Records

\* The bucket has so much less.
LEMMA FillUsesBucket ==
  ASSUME BrokerIInv, NEW e, NEW o, NEW b, NEW p, Fills(e, p, o, b)
  PROVE  /\ KeyOf(o, b) \in DOMAIN buckets /\ DOMAIN buckets' = DOMAIN buckets
         /\ buckets[KeyOf(o, b)].remaining \in Nat /\ p.qty <= buckets[KeyOf(o, b)].remaining
         /\ buckets'[KeyOf(o, b)].remaining = buckets[KeyOf(o, b)].remaining - p.qty
         /\ \A k \in DOMAIN buckets :
              /\ buckets'[k].trade_date = buckets[k].trade_date
              /\ buckets'[k].lot_size = buckets[k].lot_size
              /\ buckets'[k].capacity = buckets[k].capacity
              /\ k # KeyOf(o, b) => buckets'[k] = buckets[k]
<1> DEFINE key == KeyOf(o, b)
<1>1. HistoryIInv
  BY DEF BrokerIInv
<1>2. ApplyFill(p) /\ p \in FillProposal /\ o \in DOMAIN reservations /\ b \in BucketIds
      /\ Known(run.submits[o].symbol, b)
  BY FillLeaves DEF Fills
<1>3. key = <<p.symbol, p.bucket_id>> /\ p.qty = QtyFor(o, b)
  <2>1. Shaped(p, o, b)
    BY FillShape DEF Fills
  <2> QED BY <2>1 DEF Shaped, KeyOf
<1>4. PICK entry : entry = FillRecord(p, ledger_version)
  OBVIOUS
<1>5. /\ key \in DOMAIN buckets
      /\ buckets' = [buckets EXCEPT ![key].remaining = @ - p.qty]
  BY <1>1, <1>2, <1>3, <1>4, FillPublishes
<1>6. \A k \in DOMAIN buckets : buckets[k] \in Bucket
  BY <1>1, HistoryTypes
<1>7. buckets[key].remaining \in Nat /\ p.qty <= buckets[key].remaining
  BY <1>2, <1>3, Meeting, QtyFits
<1> HIDE DEF key
<1>8. /\ DOMAIN buckets' = DOMAIN buckets
      /\ buckets'[key].remaining = buckets[key].remaining - p.qty
      /\ \A k \in DOMAIN buckets :
           /\ buckets'[k].trade_date = buckets[k].trade_date
           /\ buckets'[k].lot_size = buckets[k].lot_size
           /\ buckets'[k].capacity = buckets[k].capacity
           /\ k # key => buckets'[k] = buckets[k]
  BY <1>5, <1>6 DEF Bucket
<1> QED BY <1>5, <1>7, <1>8 DEF key

\* What the fill leaves of the reservations.
Reserves(p, o) ==
  /\ LeftBy(p, o) = 0 => DOMAIN reservations' = DOMAIN reservations \ {o}
  /\ LeftBy(p, o) # 0 => DOMAIN reservations' = DOMAIN reservations
  /\ \A x \in DOMAIN reservations' : x # o => reservations'[x] = reservations[x]
  /\ o \in DOMAIN reservations' =>
       /\ reservations'[o].symbol = reservations[o].symbol
       /\ reservations'[o].side = reservations[o].side
       /\ reservations'[o].limit = reservations[o].limit
       /\ reservations'[o].lot_size = reservations[o].lot_size
       /\ reservations'[o].remaining_qty = LeftBy(p, o)
       /\ \A l \in LotIds : reservations'[o].alloc[l] > 0 => reservations[o].alloc[l] > 0

\* The order's reservation keeps what is left, or is gone when nothing is.
LEMMA FillReserves ==
  ASSUME BrokerIInv, NEW e, NEW o, NEW b, NEW p, Fills(e, p, o, b)
  PROVE  Reserves(p, o)
<1> DEFINE r == reservations[o]
           rest == RestOfReservation(p)
<1>1. HistoryIInv /\ ApplyFill(p) /\ p \in FillProposal /\ o \in DOMAIN reservations
      /\ LeftBy(p, o) \in Nat
  BY FillLeaves DEF Fills, BrokerIInv
<1>2. p.order_id = o /\ p.side \in Sides
  <2>1. Shaped(p, o, b)
    BY FillShape DEF Fills
  <2> QED BY <2>1 DEF Shaped
<1>3. PICK entry : entry = FillRecord(p, ledger_version)
  OBVIOUS
<1>4. reservations' = AfterFill(o, rest)
  BY <1>1, <1>2, <1>3, FillPublishes
<1>5. r \in Reservation /\ r.alloc \in [LotIds -> Nat]
  BY <1>1, HistoryTypes, ReservationType
<1>6. /\ rest.symbol = r.symbol /\ rest.side = r.side /\ rest.limit = r.limit
      /\ rest.lot_size = r.lot_size /\ rest.remaining_qty = LeftBy(p, o)
      /\ \A l \in LotIds : rest.alloc[l] > 0 => r.alloc[l] > 0
  <2>1. CASE p.side = "BUY"
    BY <1>2, <1>5, <2>1 DEF RestOfReservation, Reservation, LeftBy
  <2>2. CASE p.side = "SELL"
    <3>1. PICK take : take = Taken(p)
      OBVIOUS
    <3>2. take \in [LotIds -> Nat]
      BY <1>1, <2>2, <3>1, SaleTakes
    <3>3. rest = [r EXCEPT !.remaining_qty = r.remaining_qty - p.qty,
                           !.alloc = [l \in LotIds |-> r.alloc[l] - take[l]]]
      BY <1>2, <2>2, <3>1 DEF RestOfReservation
    <3>4. /\ rest.symbol = r.symbol /\ rest.side = r.side /\ rest.limit = r.limit
          /\ rest.lot_size = r.lot_size /\ rest.remaining_qty = LeftBy(p, o)
          /\ rest.alloc = [l \in LotIds |-> r.alloc[l] - take[l]]
      BY <1>5, <3>3 DEF Reservation, LeftBy
    <3> HIDE DEF rest, r
    <3>5. \A l \in LotIds : rest.alloc[l] > 0 => r.alloc[l] > 0
      BY <1>5, <3>2, <3>4
    <3> QED BY <3>4, <3>5
  <2> QED BY <1>2, <2>1, <2>2 DEF Sides
<1> HIDE DEF rest
<1>7. CASE LeftBy(p, o) = 0
  BY <1>1, <1>4, <1>6, <1>7 DEF AfterFill, Without, Reserves
<1>8. CASE LeftBy(p, o) # 0
  <2>1. reservations' = [reservations EXCEPT ![o] = rest]
    BY <1>4, <1>6, <1>8 DEF AfterFill
  <2>2. /\ DOMAIN reservations' = DOMAIN reservations /\ reservations'[o] = rest
        /\ \A x \in DOMAIN reservations' : x # o => reservations'[x] = reservations[x]
    BY <1>1, <2>1
  <2> QED BY <1>6, <1>8, <2>2 DEF Reserves
<1> QED BY <1>7, <1>8

\* The order's state follows.
LEMMA FillMovesOrder ==
  ASSUME BrokerIInv, NEW e, NEW o, NEW b, NEW p, Fills(e, p, o, b)
  PROVE  /\ DOMAIN orders' = DOMAIN orders /\ orders' \in [DOMAIN orders' -> OrderState]
         /\ \A x \in DOMAIN orders : x # o => orders'[x] = orders[x]
         /\ orders'[o].status = (IF LeftBy(p, o) = 0 THEN "Filled" ELSE "PartiallyFilled")
         /\ orders[o].filled_qty \in Nat
         /\ orders'[o].filled_qty = orders[o].filled_qty + p.qty
         /\ orders'[o].remaining_qty = LeftBy(p, o)
<1>1. /\ LeftBy(p, o) \in Nat /\ p.qty \in Nat /\ o \in DOMAIN orders
      /\ orders[o].remaining_qty = reservations[o].remaining_qty
  BY FillLeaves
<1>2. orders \in [DOMAIN orders -> OrderState]
  BY DEF BrokerIInv, OrdersFit
<1>3. orders[o].filled_qty \in Nat
  BY <1>1, <1>2 DEF OrderState
<1> DEFINE new == [status |-> IF LeftBy(p, o) = 0 THEN "Filled" ELSE "PartiallyFilled",
                   filled_qty |-> orders[o].filled_qty + p.qty, remaining_qty |-> LeftBy(p, o)]
<1>4. orders' = [orders EXCEPT ![o] = new]
  BY <1>1 DEF Fills, LeftBy
<1>5. /\ new.status = (IF LeftBy(p, o) = 0 THEN "Filled" ELSE "PartiallyFilled")
      /\ new.filled_qty = orders[o].filled_qty + p.qty /\ new.remaining_qty = LeftBy(p, o)
  OBVIOUS
<1>6. new \in OrderState
  BY <1>1, <1>3 DEF OrderState, ActiveStatuses, TerminalStatuses
<1> HIDE DEF new
<1> QED BY <1>1, <1>2, <1>3, <1>4, <1>5, <1>6

-----------------------------------------------------------------------------
(* Sums over one fill more and over the lots it leaves. *)

\* The shares of some fills of a history.
LEMMA QtyOfType ==
  ASSUME NEW h, IsHistory(h), NEW S, S \subseteq DOMAIN h
  PROVE  /\ [f \in S |-> h[f].proposal.qty] \in [S -> Nat] /\ IsFiniteSet(S)
         /\ QtyOf(h, S) \in Nat
<1>1. [f \in S |-> h[f].proposal.qty] \in [S -> Nat]
  BY FillAmounts
<1> QED BY <1>1, HistoryIsFinite, TotalType DEF QtyOf

\* Fills that stay as they were count as before.
LEMMA QtySame ==
  ASSUME NEW h, NEW g, NEW S, S \subseteq DOMAIN h, \A x \in DOMAIN h : g[x] = h[x]
  PROVE  QtyOf(g, S) = QtyOf(h, S)
<1>1. [x \in S |-> g[x].proposal.qty] = [x \in S |-> h[x].proposal.qty]
  OBVIOUS
<1> QED BY <1>1 DEF QtyOf

\* A fill more counts for its own shares.
LEMMA QtyGrows ==
  ASSUME NEW h, IsHistory(h), NEW f \in FillIds, f \notin DOMAIN h, NEW entry \in FillApplied,
         NEW g, g = Put(h, f, entry), NEW S, S \subseteq DOMAIN h
  PROVE  QtyOf(g, S \cup {f}) = QtyOf(h, S) + entry.proposal.qty
<1>1. /\ IsHistory(g) /\ DOMAIN g = DOMAIN h \cup {f} /\ g[f] = entry
      /\ \A x \in DOMAIN h : g[x] = h[x] /\ x # f
  BY DEF IsHistory, Put
<1> DEFINE T == S \cup {f}
           v == [x \in S |-> h[x].proposal.qty]
           w == [x \in T |-> g[x].proposal.qty]
<1>2. v \in [S -> Nat] /\ IsFiniteSet(S)
  BY QtyOfType
<1>3. w \in [T -> Nat]
  <2>1. T \subseteq DOMAIN g
    BY <1>1
  <2> HIDE DEF T
  <2> QED BY <1>1, <2>1, QtyOfType
<1>5. f \notin S /\ w[f] = entry.proposal.qty /\ \A x \in S : w[x] = v[x]
  BY <1>1
<1>6. Total(w) = Total(v) + w[f]
  <2>1. T = S \cup {f}
    OBVIOUS
  <2> HIDE DEF v, w, T
  <2> QED BY <1>2, <1>3, <1>5, <2>1, TotalExtended
<1> QED BY <1>5, <1>6 DEF QtyOf

\* The shares of a symbol free to sell on a date.
LEMMA FreeByType ==
  ASSUME NEW ls, IsHolding(ls), NEW symbol, NEW d
  PROVE  /\ [l \in FreeLots(ls, symbol, d) |-> ls[l].qty] \in [FreeLots(ls, symbol, d) -> Nat]
         /\ IsFiniteSet(FreeLots(ls, symbol, d)) /\ FreeBy(ls, symbol, d) \in Nat
<1>1. FreeLots(ls, symbol, d) \subseteq DOMAIN ls /\ DOMAIN ls \subseteq LotIds
  BY DEF FreeLots, IsHolding
<1>2. IsFiniteSet(FreeLots(ls, symbol, d))
  <2>1. IsFiniteSet(LotIds)
    BY LedgerAssumption
  <2> QED BY <1>1, <2>1, FS_Subset
<1>3. [l \in FreeLots(ls, symbol, d) |-> ls[l].qty] \in [FreeLots(ls, symbol, d) -> Nat]
  BY <1>1 DEF IsHolding, Lot
<1> QED BY <1>2, <1>3, TotalType DEF FreeBy

\* A lot more adds its shares to the dates from which they may be sold.
LEMMA FreeAfterPurchase ==
  ASSUME NEW ls, IsHolding(ls), NEW k \in LotIds \ DOMAIN ls, NEW lot \in Lot, NEW symbol, NEW d
  PROVE  FreeBy(Put(ls, k, lot), symbol, d)
           = IF lot.symbol = symbol /\ lot.sellable_date <= d
             THEN FreeBy(ls, symbol, d) + lot.qty ELSE FreeBy(ls, symbol, d)
<1> DEFINE ms == Put(ls, k, lot)
           S == FreeLots(ls, symbol, d)
           T == FreeLots(ms, symbol, d)
           v == [l \in S |-> ls[l].qty]
           w == [l \in T |-> ms[l].qty]
<1>1. /\ DOMAIN ms = DOMAIN ls \cup {k} /\ ms[k] = lot
      /\ \A l \in DOMAIN ls : ms[l] = ls[l] /\ l # k
  BY DEF Put
<1>2. IsHolding(ms)
  BY <1>1 DEF IsHolding, Put
<1> HIDE DEF ms
<1>3. v \in [S -> Nat] /\ w \in [T -> Nat] /\ IsFiniteSet(S)
  BY <1>2, FreeByType
<1>4. FreeBy(ls, symbol, d) = Total(v) /\ FreeBy(ms, symbol, d) = Total(w)
  BY DEF FreeBy
<1>5. CASE lot.symbol = symbol /\ lot.sellable_date <= d
  <2>1. T = S \cup {k} /\ k \notin S
    BY <1>1, <1>5 DEF FreeLots
  <2>2. w[k] = lot.qty /\ \A l \in S : w[l] = v[l]
    BY <1>1, <2>1 DEF FreeLots
  <2> HIDE DEF v, w, S, T
  <2>3. Total(w) = Total(v) + w[k]
    BY <1>3, <2>1, <2>2, TotalExtended
  <2> QED BY <1>4, <1>5, <2>2, <2>3 DEF ms
<1>6. CASE ~(lot.symbol = symbol /\ lot.sellable_date <= d)
  <2>1. T = S
    BY <1>1, <1>6 DEF FreeLots
  <2>2. v = w
    BY <1>1, <2>1 DEF FreeLots
  <2> HIDE DEF v, w, S, T
  <2> QED BY <1>4, <1>6, <2>2 DEF ms
<1> QED BY <1>5, <1>6

\* The lots ms are the lots ls after a sale of a symbol on a date that took `take'.
Draws(ls, ms, take, traded, date) ==
  /\ IsHolding(ls) /\ take \in [LotIds -> Nat] /\ date \in Nat
  /\ \A l \in LotIds : take[l] # 0 =>
       /\ l \in DOMAIN ls /\ ls[l].symbol = traded /\ take[l] <= ls[l].qty
       /\ ls[l].sellable_date <= date
  /\ DOMAIN ms = {l \in DOMAIN ls : ls[l].qty > take[l]}
  /\ \A l \in DOMAIN ms : /\ ms[l].symbol = ls[l].symbol /\ ms[l].qty = ls[l].qty - take[l]
                           /\ ms[l].sellable_date = ls[l].sellable_date

\* A sale takes its shares from what was free on its date and later, and adds none
\* to any date.
LEMMA FreeAfterSale ==
  ASSUME NEW ls, NEW ms, NEW take, NEW traded, NEW date, Draws(ls, ms, take, traded, date),
         NEW symbol, NEW d \in Nat
  PROVE  /\ FreeBy(ms, symbol, d) \in Nat /\ FreeBy(ms, symbol, d) <= FreeBy(ls, symbol, d)
         /\ traded = symbol /\ date <= d => FreeBy(ms, symbol, d) = FreeBy(ls, symbol, d) - Total(take)
<1>0. /\ IsHolding(ls) /\ take \in [LotIds -> Nat] /\ date \in Nat
      /\ \A l \in LotIds : take[l] # 0 =>
           /\ l \in DOMAIN ls /\ ls[l].symbol = traded /\ take[l] <= ls[l].qty
           /\ ls[l].sellable_date <= date
      /\ DOMAIN ms = {l \in DOMAIN ls : ls[l].qty > take[l]}
      /\ \A l \in DOMAIN ms : /\ ms[l].symbol = ls[l].symbol /\ ms[l].qty = ls[l].qty - take[l]
                               /\ ms[l].sellable_date = ls[l].sellable_date
  BY DEF Draws
<1> DEFINE S == FreeLots(ls, symbol, d)
           T == FreeLots(ms, symbol, d)
           v == [l \in S |-> ls[l].qty]
           t == [l \in S |-> take[l]]
           w == [l \in S |-> v[l] - t[l]]
<1>1. v \in [S -> Nat] /\ IsFiniteSet(S) /\ FreeBy(ls, symbol, d) = Total(v)
  BY <1>0, FreeByType DEF FreeBy
<1>2. S \subseteq DOMAIN ls /\ S \subseteq LotIds
  BY <1>0 DEF FreeLots, IsHolding
<1>3. t \in [S -> Nat] /\ \A l \in S : t[l] <= v[l]
  BY <1>0, <1>1, <1>2
<1>4. w \in [S -> Nat]
  BY <1>1, <1>3
<1>5. Total(w) = Total(v) - Total(t)
  <2> HIDE DEF v, t, S
  <2> QED BY <1>1, <1>3, TotalDifference
<1>6. T \subseteq S /\ \A l \in S \ T : w[l] = 0
  <2>1. T \subseteq S
    BY <1>0 DEF FreeLots
  <2>2. \A l \in S \ T : ~(ls[l].qty > take[l])
    BY <1>0 DEF FreeLots
  <2>3. \A l \in S \ T : w[l] = 0
    BY <1>1, <1>2, <1>3, <2>2
  <2> QED BY <2>1, <2>3
<1>7. FreeBy(ms, symbol, d) = Total([l \in T |-> w[l]])
  <2>1. [l \in T |-> ms[l].qty] = [l \in T |-> w[l]]
    BY <1>0, <1>6 DEF FreeLots
  <2> QED BY <2>1 DEF FreeBy
<1>8. FreeBy(ms, symbol, d) = Total(w)
  <2> HIDE DEF w, S, T
  <2> QED BY <1>4, <1>6, <1>7, TotalOfSupport
<1>9. Total(v) \in Nat /\ Total(t) \in Nat /\ Total(w) \in Nat
  <2> HIDE DEF v, t, w, S
  <2> QED BY <1>1, <1>3, <1>4, TotalType
<1>10. ASSUME traded = symbol, date <= d PROVE Total(t) = Total(take)
  <2>1. \A l \in DOMAIN ls : ls[l].sellable_date \in Nat
    BY <1>0, LedgerAssumption DEF IsHolding, Lot
  <2>2. \A l \in LotIds \ S : take[l] = 0
    BY <1>0, <1>10, <2>1 DEF FreeLots
  <2> HIDE DEF S
  <2> QED BY <1>0, <1>2, <2>2, TotalOfSupport
<1> HIDE DEF v, t, w
<1> QED BY <1>1, <1>5, <1>8, <1>9, <1>10

\* A purchase adds to what may be sold later as much as to what was bought before.
LEMMA ResaleAfterPurchase ==
  ASSUME NEW ls, IsHolding(ls), NEW h, IsHistory(h), ResaleAgrees(ls, h),
         NEW f \in FillIds, f \notin DOMAIN h, NEW entry \in FillApplied,
         entry.proposal.side = "BUY", entry.proposal.trade_date \in TradingDates,
         LaterDates(entry.proposal.trade_date) # {},
         NEW k \in LotIds \ DOMAIN ls, NEW lot \in Lot, lot.symbol = entry.proposal.symbol,
         lot.qty = entry.proposal.qty, lot.sellable_date = NextDate(entry.proposal.trade_date)
  PROVE  ResaleAgrees(Put(ls, k, lot), Put(h, f, entry))
<1> DEFINE p == entry.proposal
<1>1. PICK start \in InitialLots : \A symbol \in Symbols, d \in TradingDates :
        QtyOf(h, SoldBy(h, symbol, d)) + FreeBy(ls, symbol, d)
          <= FreeBy(start, symbol, d) + QtyOf(h, BoughtBefore(h, symbol, d))
  BY DEF ResaleAgrees
<1>2. PICK g : g = Put(h, f, entry)
  OBVIOUS
<1>3. /\ DOMAIN g = DOMAIN h \cup {f} /\ g[f].proposal = p
      /\ \A x \in DOMAIN h : g[x] = h[x] /\ x # f
  BY <1>2 DEF IsHistory, Put
<1>4. p.qty \in Nat /\ "BUY" # "SELL"
  BY EntryType
<1>5. ASSUME NEW symbol \in Symbols, NEW d \in TradingDates
      PROVE  QtyOf(g, SoldBy(g, symbol, d)) + FreeBy(Put(ls, k, lot), symbol, d)
               <= FreeBy(start, symbol, d) + QtyOf(g, BoughtBefore(g, symbol, d))
  <2> DEFINE sold == SoldBy(h, symbol, d)
             bought == BoughtBefore(h, symbol, d)
             more == p.symbol = symbol /\ p.trade_date < d
  <2>1. sold \subseteq DOMAIN h /\ bought \subseteq DOMAIN h
    BY DEF SoldBy, BoughtBefore
  <2>2. /\ QtyOf(h, sold) \in Nat /\ QtyOf(h, bought) \in Nat
        /\ FreeBy(ls, symbol, d) \in Nat /\ FreeBy(start, symbol, d) \in Nat
    BY <2>1, QtyOfType, FreeByType, StartsAreHoldings
  <2>3. SoldBy(g, symbol, d) = sold
    BY <1>3, <1>4 DEF SoldBy
  <2>4. BoughtBefore(g, symbol, d) = IF more THEN bought \cup {f} ELSE bought
    BY <1>3 DEF BoughtBefore
  <2>5. /\ QtyOf(g, sold) = QtyOf(h, sold) /\ QtyOf(g, bought) = QtyOf(h, bought)
        /\ QtyOf(g, bought \cup {f}) = QtyOf(h, bought) + p.qty
    <3> HIDE DEF sold, bought
    <3>1. QtyOf(g, sold) = QtyOf(h, sold)
      BY <1>3, <2>1, QtySame
    <3>2. /\ QtyOf(g, bought) = QtyOf(h, bought)
      BY <1>3, <2>1, QtySame
    <3>3. QtyOf(g, bought \cup {f}) = QtyOf(h, bought) + p.qty
      BY <1>2, <2>1, QtyGrows
    <3> QED BY <3>1, <3>2, <3>3
  <2>6. lot.sellable_date <= d <=> p.trade_date < d
    <3>1. PICK t \in TradingDates : t = p.trade_date
      OBVIOUS
    <3>2. LaterDates(t) # {} /\ lot.sellable_date = NextDate(t)
      BY <3>1
    <3>3. NextDate(t) \in TradingDates /\ NextDate(t) > t
          /\ (d > t => NextDate(t) <= d)
      BY <3>2, NextDateIsNext
    <3>4. NextDate(t) \in Nat /\ t \in Nat /\ d \in Nat
      BY <3>3, MarketTypes
    <3> HIDE DEF p
    <3> QED BY <3>1, <3>2, <3>3, <3>4
  <2>7. FreeBy(Put(ls, k, lot), symbol, d)
          = IF more THEN FreeBy(ls, symbol, d) + p.qty ELSE FreeBy(ls, symbol, d)
    <3>1. FreeBy(Put(ls, k, lot), symbol, d)
            = IF lot.symbol = symbol /\ lot.sellable_date <= d
              THEN FreeBy(ls, symbol, d) + lot.qty ELSE FreeBy(ls, symbol, d)
      BY FreeAfterPurchase
    <3> QED BY <2>6, <3>1
  <2>8. QtyOf(h, sold) + FreeBy(ls, symbol, d) <= FreeBy(start, symbol, d) + QtyOf(h, bought)
    BY <1>1
  <2> HIDE DEF sold, bought, p
  <2>9. CASE more
    <3>1. /\ QtyOf(g, BoughtBefore(g, symbol, d)) = QtyOf(h, bought) + p.qty
          /\ QtyOf(g, SoldBy(g, symbol, d)) = QtyOf(h, sold)
          /\ FreeBy(Put(ls, k, lot), symbol, d) = FreeBy(ls, symbol, d) + p.qty
      BY <2>3, <2>4, <2>5, <2>7, <2>9
    <3> QED BY <1>4, <2>2, <2>8, <3>1 DEF p
  <2>10. CASE ~more
    <3>1. /\ QtyOf(g, BoughtBefore(g, symbol, d)) = QtyOf(h, bought)
          /\ QtyOf(g, SoldBy(g, symbol, d)) = QtyOf(h, sold)
          /\ FreeBy(Put(ls, k, lot), symbol, d) = FreeBy(ls, symbol, d)
      BY <2>3, <2>4, <2>5, <2>7, <2>10
    <3> QED BY <2>8, <3>1
  <2> QED BY <2>9, <2>10
<1> QED BY <1>2, <1>5 DEF ResaleAgrees

\* A sale takes what is free on its date and counts as sold from then on.
LEMMA ResaleAfterSale ==
  ASSUME NEW ls, NEW h, IsHistory(h), ResaleAgrees(ls, h),
         NEW f \in FillIds, f \notin DOMAIN h, NEW entry \in FillApplied,
         entry.proposal.side = "SELL",
         NEW take, Total(take) = entry.proposal.qty, NEW ms,
         Draws(ls, ms, take, entry.proposal.symbol, entry.proposal.trade_date)
  PROVE  ResaleAgrees(ms, Put(h, f, entry))
<1> DEFINE p == entry.proposal
<1>1. PICK start \in InitialLots : \A symbol \in Symbols, d \in TradingDates :
        QtyOf(h, SoldBy(h, symbol, d)) + FreeBy(ls, symbol, d)
          <= FreeBy(start, symbol, d) + QtyOf(h, BoughtBefore(h, symbol, d))
  BY DEF ResaleAgrees
<1>2. PICK g : g = Put(h, f, entry)
  OBVIOUS
<1>3. /\ DOMAIN g = DOMAIN h \cup {f} /\ g[f].proposal = p
      /\ \A x \in DOMAIN h : g[x] = h[x] /\ x # f
  BY <1>2 DEF IsHistory, Put
<1>4. p.qty \in Nat
  BY EntryType
<1>5. IsHolding(ls)
  BY DEF Draws
<1>6. ASSUME NEW symbol \in Symbols, NEW d \in TradingDates
      PROVE  QtyOf(g, SoldBy(g, symbol, d)) + FreeBy(ms, symbol, d)
               <= FreeBy(start, symbol, d) + QtyOf(g, BoughtBefore(g, symbol, d))
  <2> DEFINE sold == SoldBy(h, symbol, d)
             bought == BoughtBefore(h, symbol, d)
             more == p.symbol = symbol /\ p.trade_date <= d
  <2>1. sold \subseteq DOMAIN h /\ bought \subseteq DOMAIN h
    BY DEF SoldBy, BoughtBefore
  <2>2. /\ QtyOf(h, sold) \in Nat /\ QtyOf(h, bought) \in Nat
        /\ FreeBy(ls, symbol, d) \in Nat /\ FreeBy(start, symbol, d) \in Nat
    BY <1>5, <2>1, QtyOfType, FreeByType, StartsAreHoldings
  <2>3. BoughtBefore(g, symbol, d) = bought
    BY <1>3 DEF BoughtBefore
  <2>4. SoldBy(g, symbol, d) = IF more THEN sold \cup {f} ELSE sold
    BY <1>3 DEF SoldBy
  <2>5. /\ QtyOf(g, sold) = QtyOf(h, sold) /\ QtyOf(g, bought) = QtyOf(h, bought)
        /\ QtyOf(g, sold \cup {f}) = QtyOf(h, sold) + p.qty
    <3> HIDE DEF sold, bought
    <3>1. QtyOf(g, sold) = QtyOf(h, sold)
      BY <1>3, <2>1, QtySame
    <3>2. /\ QtyOf(g, bought) = QtyOf(h, bought)
      BY <1>3, <2>1, QtySame
    <3>3. QtyOf(g, sold \cup {f}) = QtyOf(h, sold) + p.qty
      BY <1>2, <2>1, QtyGrows
    <3> QED BY <3>1, <3>2, <3>3
  <2>6. d \in Nat
    BY MarketTypes
  <2>7. /\ FreeBy(ms, symbol, d) \in Nat /\ FreeBy(ms, symbol, d) <= FreeBy(ls, symbol, d)
        /\ more => FreeBy(ms, symbol, d) = FreeBy(ls, symbol, d) - p.qty
    <3>1. PICK traded : traded = p.symbol
      OBVIOUS
    <3>2. PICK date : date = p.trade_date
      OBVIOUS
    <3>3. Draws(ls, ms, take, traded, date)
      BY <3>1, <3>2
    <3>4. Total(take) = p.qty
      OBVIOUS
    <3> HIDE DEF p
    <3>5. /\ FreeBy(ms, symbol, d) \in Nat /\ FreeBy(ms, symbol, d) <= FreeBy(ls, symbol, d)
          /\ traded = symbol /\ date <= d =>
               FreeBy(ms, symbol, d) = FreeBy(ls, symbol, d) - Total(take)
      BY <2>6, <3>3, FreeAfterSale
    <3> QED BY <3>1, <3>2, <3>4, <3>5
  <2>8. QtyOf(h, sold) + FreeBy(ls, symbol, d) <= FreeBy(start, symbol, d) + QtyOf(h, bought)
    BY <1>1
  <2> HIDE DEF sold, bought, p
  <2>9. CASE more
    <3>1. /\ QtyOf(g, BoughtBefore(g, symbol, d)) = QtyOf(h, bought)
          /\ QtyOf(g, SoldBy(g, symbol, d)) = QtyOf(h, sold) + p.qty
          /\ FreeBy(ms, symbol, d) = FreeBy(ls, symbol, d) - p.qty
      BY <2>3, <2>4, <2>5, <2>7, <2>9
    <3>2. p.qty \in Nat
      BY <1>4 DEF p
    <3> QED BY <2>2, <2>8, <3>1, <3>2
  <2>10. CASE ~more
    <3>1. /\ QtyOf(g, BoughtBefore(g, symbol, d)) = QtyOf(h, bought)
          /\ QtyOf(g, SoldBy(g, symbol, d)) = QtyOf(h, sold)
      BY <2>3, <2>4, <2>5, <2>10
    <3> QED BY <2>2, <2>7, <2>8, <3>1
  <2> QED BY <2>9, <2>10
<1> QED BY <1>2, <1>6 DEF ResaleAgrees

-----------------------------------------------------------------------------
(* A fill keeps the invariant, part by part. *)

\* Who matched what, after a fill.
LEMMA FillMatches ==
  ASSUME BrokerIInv, NEW e, NEW o, NEW b, NEW p, Fills(e, p, o, b)
  PROVE  /\ ValidRun(run)' /\ AgendaFits' /\ run' = run /\ visible' = visible
         /\ \A x \in DOMAIN run.submits :
              (Submitted(x)' <=> Submitted(x)) /\ (Lapsed(x)' <=> Lapsed(x))
         /\ \A s \in Symbols, k \in BucketIds : Known(s, k)' <=> Known(s, k)
         /\ \A x \in DOMAIN run.submits, k \in BucketIds :
              Matched(x, k)' <=> Matched(x, k) \/ (x = o /\ k = b)
<1>1. Handling(e) /\ e.phase = MATCH /\ e.id = o /\ e.bucket = b /\ visible' = visible
  BY DEF Fills
<1>2. e.phase # SUBMIT /\ e.phase # EXPIRY /\ e.phase # BUCKET
  BY <1>1, Phases
<1> QED BY <1>1, <1>2, SameRun DEF Handling

\* The lots that stay are of the symbol and the date they were.
LEMMA FillLots ==
  ASSUME BrokerIInv, NEW e, NEW o, NEW b, NEW p, Fills(e, p, o, b)
  PROVE  /\ DOMAIN lots' \subseteq DOMAIN lots \cup {p.fill_id}
         /\ \A l \in DOMAIN lots : l \in DOMAIN lots' =>
              /\ lots'[l].symbol = lots[l].symbol
              /\ lots'[l].sellable_date = lots[l].sellable_date
<1>1. HistoryIInv /\ ApplyFill(p) /\ p \in FillProposal /\ p.side \in Sides
  <2>1. Shaped(p, o, b)
    BY FillShape DEF Fills
  <2> QED BY <2>1 DEF Fills, BrokerIInv, Shaped
<1>2. PICK entry : entry = FillRecord(p, ledger_version)
  OBVIOUS
<1>3. lots' = IF p.side = "BUY" THEN LotsAfterPurchase(p) ELSE LotsAfterSale(Taken(p))
  BY <1>1, <1>2, FillPublishes
<1>4. \A l \in DOMAIN lots : lots[l] \in Lot
  BY <1>1, HistoryTypes, LotType
<1>5. CASE p.side = "BUY"
  <2>1. p.fill_id \notin DOMAIN lots
    BY <1>1, <1>5 DEF ApplyFill, FillAccepted, BuyIsCovered
  <2> QED BY <1>3, <1>5, <2>1 DEF LotsAfterPurchase, Put
<1>6. CASE p.side # "BUY"
  <2>1. PICK take : take = Taken(p)
    OBVIOUS
  <2>2. lots' = LotsAfterSale(take)
    BY <1>3, <1>6, <2>1
  <2> QED BY <1>4, <2>2 DEF LotsAfterSale, Lot
<1> QED BY <1>5, <1>6

\* ... the orders.
LEMMA FillKeepsOrders ==
  ASSUME BrokerIInv, NEW e, NEW o, NEW b, NEW p, Fills(e, p, o, b)
  PROVE  OrdersFit'
<1>1. OrdersFit /\ run' = run /\ \A x \in DOMAIN run.submits : Submitted(x)' <=> Submitted(x)
  BY FillMatches DEF BrokerIInv
<1>2. used_order_ids' = used_order_ids
  BY DEF Fills, ApplyFill
<1>3. /\ DOMAIN orders' = DOMAIN orders /\ orders' \in [DOMAIN orders' -> OrderState]
      /\ \A x \in DOMAIN orders : x # o => orders'[x] = orders[x]
      /\ orders'[o].status = (IF LeftBy(p, o) = 0 THEN "Filled" ELSE "PartiallyFilled")
      /\ orders'[o].remaining_qty = LeftBy(p, o)
  BY FillMovesOrder
<1>4. /\ LeftBy(p, o) \in Nat /\ o \in DOMAIN reservations /\ o \in DOMAIN orders
      /\ LeftBy(p, o) = reservations[o].remaining_qty - p.qty
      /\ orders[o].remaining_qty = reservations[o].remaining_qty
      /\ reservations[o].remaining_qty \in Nat /\ p.qty \in Nat
  BY FillLeaves DEF LeftBy
<1>5. /\ LeftBy(p, o) = 0 => DOMAIN reservations' = DOMAIN reservations \ {o}
      /\ LeftBy(p, o) # 0 => DOMAIN reservations' = DOMAIN reservations
      /\ \A x \in DOMAIN reservations' : x # o => reservations'[x] = reservations[x]
  <2>1. Reserves(p, o)
    BY FillReserves
  <2> QED BY <2>1 DEF Reserves
<1>6. ASSUME NEW x \in DOMAIN orders'
      PROVE  Active(x)' <=> x \in DOMAIN reservations'
  <2>1. CASE x = o
    <3>1. orders'[o].status \in ActiveStatuses <=> LeftBy(p, o) # 0
      BY <1>3 DEF ActiveStatuses
    <3> QED BY <1>3, <1>4, <1>5, <2>1, <3>1 DEF Active
  <2>2. CASE x # o
    <3>1. Active(x)' <=> Active(x)
      BY <1>3, <2>2 DEF Active
    <3>2. x \in DOMAIN reservations' <=> x \in DOMAIN reservations
      BY <1>5, <2>2
    <3> QED BY <1>1, <1>3, <3>1, <3>2 DEF OrdersFit
  <2> QED BY <2>1, <2>2
<1>7. ASSUME NEW x \in DOMAIN orders'
      PROVE  /\ orders'[x].filled_qty + orders'[x].remaining_qty = run.submits[x].qty
             /\ orders'[x].status = "Filled" <=> orders'[x].remaining_qty = 0
  <2>1. /\ orders[x].filled_qty + orders[x].remaining_qty = run.submits[x].qty
        /\ orders[x].status = "Filled" <=> orders[x].remaining_qty = 0
    BY <1>1, <1>3 DEF OrdersFit
  <2>2. CASE x = o
    <3>1. orders[o].filled_qty \in Nat /\ orders'[o].filled_qty = orders[o].filled_qty + p.qty
      BY FillMovesOrder
    <3>2. orders'[o].filled_qty + orders'[o].remaining_qty
            = orders[o].filled_qty + orders[o].remaining_qty
      BY <1>3, <1>4, <3>1
    <3>3. orders'[o].status = "Filled" <=> orders'[o].remaining_qty = 0
      BY <1>3
    <3> QED BY <2>1, <2>2, <3>2, <3>3
  <2>3. CASE x # o
    BY <1>3, <2>1, <2>3
  <2> QED BY <2>2, <2>3
<1> QED BY <1>1, <1>2, <1>3, <1>6, <1>7 DEF OrdersFit

\* ... the reservations.
LEMMA FillKeepsReservations ==
  ASSUME BrokerIInv, NEW e, NEW o, NEW b, NEW p, Fills(e, p, o, b)
  PROVE  ReservationsFit'
<1>1. /\ ReservationsFit /\ run' = run
      /\ \A x \in DOMAIN run.submits : Lapsed(x)' <=> Lapsed(x)
  BY FillMatches DEF BrokerIInv
<1>2. HistoryIInv /\ LedgerIInv
  BY HistoryTypes DEF BrokerIInv
<1>3. p.fill_id \in FillIds /\ p.fill_id \in LotIds
  <2>1. Records(p)
    BY FillRecorded
  <2> QED BY <2>1, LedgerAssumption DEF Records
<1>4. /\ DOMAIN reservations' \subseteq DOMAIN reservations
      /\ \A x \in DOMAIN reservations' : x # o => reservations'[x] = reservations[x]
      /\ o \in DOMAIN reservations' =>
           /\ reservations'[o].symbol = reservations[o].symbol
           /\ reservations'[o].side = reservations[o].side
           /\ reservations'[o].limit = reservations[o].limit
           /\ reservations'[o].lot_size = reservations[o].lot_size
           /\ reservations'[o].remaining_qty = LeftBy(p, o)
           /\ \A l \in LotIds : reservations'[o].alloc[l] > 0 => reservations[o].alloc[l] > 0
  <2>1. Reserves(p, o)
    BY FillReserves
  <2> QED BY <2>1 DEF Reserves
<1>5. /\ \A x \in DOMAIN orders : x # o => orders'[x] = orders[x]
      /\ orders'[o].remaining_qty = LeftBy(p, o)
  BY FillMovesOrder
<1>6. LeftBy(p, o) % reservations[o].lot_size = 0
  BY FillLeaves
<1>7. \A l \in DOMAIN lots' : l \in LotIds
  <2>1. \A l \in DOMAIN lots : l \in LotIds
    BY <1>2, LotType
  <2> QED BY <1>3, <2>1, FillLots
<1> SUFFICES ASSUME NEW x \in DOMAIN reservations'
             PROVE  LET r == reservations'[x]
                        c == run.submits[x]
                    IN  /\ r.symbol = c.symbol /\ r.side = c.side /\ r.limit = c.limit
                        /\ HasSize(r.symbol, r.lot_size) /\ r.remaining_qty % r.lot_size = 0
                        /\ r.remaining_qty = orders'[x].remaining_qty
                        /\ WithinRun(c.expires_at) => ~Lapsed(x)'
                        /\ \A l \in DOMAIN lots' :
                             r.alloc[l] > 0 => lots'[l].sellable_date <= DateOf(c.submitted_at)
  BY <1>1 DEF ReservationsFit, HasSize
<1> DEFINE r == reservations[x]
           s == reservations'[x]
           c == run.submits[x]
<1>8. x \in DOMAIN reservations /\ x \in DOMAIN run.submits /\ x \in DOMAIN orders
  BY <1>4, WorkingOrder
<1>9. /\ r.symbol = c.symbol /\ r.side = c.side /\ r.limit = c.limit
      /\ HasSize(r.symbol, r.lot_size) /\ r.remaining_qty % r.lot_size = 0
      /\ r.remaining_qty = orders[x].remaining_qty
      /\ WithinRun(c.expires_at) => ~Lapsed(x)
      /\ \A l \in DOMAIN lots : r.alloc[l] > 0 => lots[l].sellable_date <= DateOf(c.submitted_at)
  BY <1>1, <1>8 DEF ReservationsFit
<1>10. /\ s.symbol = r.symbol /\ s.side = r.side /\ s.limit = r.limit /\ s.lot_size = r.lot_size
       /\ s.remaining_qty = orders'[x].remaining_qty /\ s.remaining_qty % s.lot_size = 0
       /\ \A l \in LotIds : s.alloc[l] > 0 => r.alloc[l] > 0
  <2>1. CASE x = o
    BY <1>4, <1>5, <1>6, <2>1
  <2>2. CASE x # o
    BY <1>4, <1>5, <1>8, <1>9, <2>2
  <2> QED BY <2>1, <2>2
<1>11. WithinRun(c.expires_at) => ~Lapsed(x)'
  BY <1>1, <1>8, <1>9
<1>12. ASSUME NEW l \in DOMAIN lots', s.alloc[l] > 0
       PROVE  lots'[l].sellable_date <= DateOf(c.submitted_at)
  <2>1. l \in LotIds /\ r.alloc[l] > 0
    BY <1>7, <1>10, <1>12
  <2>2. l \in DOMAIN lots
    <3>1. r.alloc[l] # 0
      BY <2>1
    <3> QED BY <1>2, <1>8, <2>1, <3>1, LoansAreOfLots
  <2>3. lots'[l].sellable_date = lots[l].sellable_date
    BY <2>2, FillLots
  <2> QED BY <1>9, <2>1, <2>2, <2>3
<1> HIDE DEF r, s, c
<1> QED BY <1>9, <1>10, <1>11, <1>12 DEF s, c

\* ... what the orders count as filled.
LEMMA FillCounts ==
  ASSUME BrokerIInv, NEW e, NEW o, NEW b, NEW p, Fills(e, p, o, b), NEW x \in DOMAIN orders
  PROVE  orders'[x].filled_qty = Filled(applied_fills', x)
<1>1. IsHistory(applied_fills) /\ FillsFit
  BY HistoryTypes DEF BrokerIInv
<1>2. PICK h : h = applied_fills
  OBVIOUS
<1>3. PICK entry \in FillApplied :
        /\ entry.proposal = p /\ p.fill_id \in FillIds \ DOMAIN h
        /\ applied_fills' = Put(h, p.fill_id, entry)
        /\ DOMAIN applied_fills' = DOMAIN h \cup {p.fill_id}
        /\ applied_fills'[p.fill_id].proposal = p
        /\ \A f \in DOMAIN h : applied_fills'[f] = h[f] /\ f # p.fill_id
  <2>1. Records(p)
    BY FillRecorded
  <2> QED BY <1>2, <2>1 DEF Records
<1> DEFINE S == FilledBy(h, x)
<1>4. p.order_id = o
  <2>1. Shaped(p, o, b)
    BY FillShape DEF Fills
  <2> QED BY <2>1 DEF Shaped
<1>5. /\ orders[x].filled_qty = QtyOf(h, S) /\ S \subseteq DOMAIN h
      /\ IsHistory(h)
  BY <1>1, <1>2 DEF FillsFit, Filled, QtyOf, FilledBy
<1>6. CASE x = o
  <2>1. FilledBy(applied_fills', x) = S \cup {p.fill_id}
    BY <1>3, <1>4, <1>6 DEF FilledBy
  <2>2. QtyOf(applied_fills', S \cup {p.fill_id}) = QtyOf(h, S) + p.qty
    <3> HIDE DEF S
    <3>1. QtyOf(applied_fills', S \cup {p.fill_id}) = QtyOf(h, S) + entry.proposal.qty
      BY <1>3, <1>5, QtyGrows
    <3> QED BY <1>3, <3>1
  <2>3. orders'[o].filled_qty = orders[o].filled_qty + p.qty
    BY FillMovesOrder
  <2> QED BY <1>5, <1>6, <2>1, <2>2, <2>3 DEF Filled, QtyOf
<1>7. CASE x # o
  <2>1. FilledBy(applied_fills', x) = S
    BY <1>3, <1>4, <1>7 DEF FilledBy
  <2>2. QtyOf(applied_fills', S) = QtyOf(h, S)
    <3> HIDE DEF S
    <3> QED BY <1>3, <1>5, QtySame
  <2>3. orders'[x] = orders[x]
    BY <1>7, FillMovesOrder
  <2> QED BY <1>5, <2>1, <2>2, <2>3 DEF Filled, QtyOf
<1> QED BY <1>6, <1>7

\* ... the fills, of which the new one is of a close that trades.
LEMMA FillKeepsFills ==
  ASSUME BrokerIInv, NEW e, NEW o, NEW b, NEW p, Fills(e, p, o, b)
  PROVE  FillsFit'
<1>1. /\ FillsFit /\ run' = run /\ visible' = visible
      /\ \A x \in DOMAIN run.submits, k \in BucketIds :
           Matched(x, k)' <=> Matched(x, k) \/ (x = o /\ k = b)
  BY FillMatches DEF BrokerIInv
<1>2. DOMAIN orders' = DOMAIN orders /\ DOMAIN orders \subseteq DOMAIN run.submits
  BY FillMovesOrder DEF BrokerIInv, OrdersFit
<1>3. \A x \in DOMAIN orders' : orders'[x].filled_qty = Filled(applied_fills', x)
  BY <1>2, FillCounts
<1>4. /\ DOMAIN applied_fills' = DOMAIN applied_fills \cup {p.fill_id}
      /\ applied_fills'[p.fill_id].proposal = p
      /\ \A f \in DOMAIN applied_fills : applied_fills'[f] = applied_fills[f] /\ f # p.fill_id
  <2>1. Records(p)
    BY FillRecorded
  <2> QED BY <2>1 DEF Records
<1>5. \A f \in DOMAIN applied_fills : applied_fills[f].proposal.bucket_id \in BucketIds
  BY DEF BrokerIInv, HistoryIInv, LedgerIInv, LedgerTypeOK, FillApplied, FillProposal
<1>7. /\ p.order_id = o /\ p.bucket_id = b /\ p.fill_id = FillIdOf[<<o, b>>]
      /\ p.symbol = run.submits[o].symbol /\ p.price = visible[KeyOf(o, b)].close
      /\ <<p.symbol, p.bucket_id>> = KeyOf(o, b)
  <2>1. Shaped(p, o, b)
    BY FillShape DEF Fills
  <2> QED BY <2>1 DEF Shaped, KeyOf
<1>8. o \in DOMAIN orders /\ o \in DOMAIN reservations /\ b \in BucketIds
      /\ Known(run.submits[o].symbol, b)
  BY FillLeaves
<1>9. KeyOf(o, b) \in DOMAIN visible /\ ~visible[KeyOf(o, b)].missing /\ ~visible[KeyOf(o, b)].halted
  <2>1. KeyOf(o, b) \in DOMAIN visible
    BY <1>8, Meeting
  <2>2. Tradeable(o, b)
    BY DEF Fills, Trades, Trading
  <2> QED BY <2>1, <2>2 DEF Tradeable, KeyOf
<1>10. Matched(o, b)'
  BY <1>1, <1>2, <1>8
<1>11. ASSUME NEW f \in DOMAIN applied_fills', NEW q, q = applied_fills'[f].proposal
       PROVE  /\ q.order_id \in DOMAIN orders
              /\ f = FillIdOf[<<q.order_id, q.bucket_id>>]
              /\ Matched(q.order_id, q.bucket_id)'
              /\ q.symbol = run.submits[q.order_id].symbol
              /\ <<q.symbol, q.bucket_id>> \in DOMAIN visible
              /\ ~visible[<<q.symbol, q.bucket_id>>].missing
              /\ ~visible[<<q.symbol, q.bucket_id>>].halted
              /\ q.price = visible[<<q.symbol, q.bucket_id>>].close
  <2>1. CASE f = p.fill_id
    <3>1. q = p
      BY <1>4, <1>11, <2>1
    <3> QED BY <1>7, <1>8, <1>9, <1>10, <2>1, <3>1
  <2>2. CASE f # p.fill_id
    <3>1. f \in DOMAIN applied_fills /\ q = applied_fills[f].proposal
      BY <1>4, <1>11, <2>2
    <3>2. /\ q.order_id \in DOMAIN orders /\ Matched(q.order_id, q.bucket_id)
          /\ f = FillIdOf[<<q.order_id, q.bucket_id>>]
          /\ q.symbol = run.submits[q.order_id].symbol
          /\ <<q.symbol, q.bucket_id>> \in DOMAIN visible
          /\ ~visible[<<q.symbol, q.bucket_id>>].missing
          /\ ~visible[<<q.symbol, q.bucket_id>>].halted
          /\ q.price = visible[<<q.symbol, q.bucket_id>>].close
      BY <1>1, <3>1 DEF FillsFit
    <3>3. Matched(q.order_id, q.bucket_id)'
      BY <1>1, <1>2, <1>5, <3>1, <3>2
    <3> QED BY <3>2, <3>3
  <2> QED BY <2>1, <2>2
<1>12. ASSUME NEW f \in DOMAIN applied_fills'
       PROVE  (LET q == applied_fills[f].proposal
                   key == <<q.symbol, q.bucket_id>>
               IN  /\ q.order_id \in DOMAIN orders
                   /\ f = FillIdOf[<<q.order_id, q.bucket_id>>]
                   /\ Matched(q.order_id, q.bucket_id)
                   /\ q.symbol = run.submits[q.order_id].symbol
                   /\ key \in DOMAIN visible
                   /\ ~visible[key].missing /\ ~visible[key].halted
                   /\ q.price = visible[key].close)'
  <2>1. PICK q : q = applied_fills'[f].proposal
    OBVIOUS
  <2>2. q.order_id = applied_fills'[f].proposal.order_id
        /\ q.bucket_id = applied_fills'[f].proposal.bucket_id
    BY <2>1
  <2>3. Matched(applied_fills[f].proposal.order_id, applied_fills[f].proposal.bucket_id)'
    BY <1>11, <2>1, <2>2
  <2> QED BY <1>1, <1>2, <1>11, <2>1, <2>3
<1> QED BY <1>3, <1>12 DEF FillsFit

\* ... the buckets.
LEMMA FillKeepsBuckets ==
  ASSUME BrokerIInv, NEW e, NEW o, NEW b, NEW p, Fills(e, p, o, b)
  PROVE  BucketsFit'
<1>1. /\ BucketsFit /\ visible' = visible
      /\ \A s \in Symbols, k \in BucketIds : Known(s, k)' <=> Known(s, k)
  BY FillMatches DEF BrokerIInv
<1>2. /\ DOMAIN buckets' = DOMAIN buckets
      /\ \A k \in DOMAIN buckets :
           /\ buckets'[k].trade_date = buckets[k].trade_date
           /\ buckets'[k].lot_size = buckets[k].lot_size
           /\ buckets'[k].capacity = buckets[k].capacity
  BY FillUsesBucket
<1> QED BY <1>1, <1>2 DEF BucketsFit, HasSize, CapacityOf

\* ... the queue: what the order could not take is less than a lot.
LEMMA FillKeepsQueue ==
  ASSUME BrokerIInv, NEW e, NEW o, NEW b, NEW p, Fills(e, p, o, b)
  PROVE  QueueFits'
<1>1. /\ QueueFits /\ BucketsFit /\ ValidRun(run) /\ AgendaFits /\ run' = run /\ visible' = visible
      /\ \A x \in DOMAIN run.submits, k \in BucketIds :
           Matched(x, k)' <=> Matched(x, k) \/ (x = o /\ k = b)
  BY FillMatches DEF BrokerIInv
<1>2. /\ LeftBy(p, o) = reservations[o].remaining_qty - p.qty /\ p.qty \in Nat \ {0}
      /\ reservations[o].remaining_qty \in Nat /\ b \in BucketIds
      /\ o \in DOMAIN reservations /\ Known(run.submits[o].symbol, b)
  BY FillLeaves DEF LeftBy
<1>3. /\ LeftBy(p, o) = 0 => DOMAIN reservations' = DOMAIN reservations \ {o}
      /\ LeftBy(p, o) # 0 => DOMAIN reservations' = DOMAIN reservations
      /\ \A x \in DOMAIN reservations' : x # o => reservations'[x] = reservations[x]
      /\ o \in DOMAIN reservations' => reservations'[o].lot_size = reservations[o].lot_size
  <2>1. Reserves(p, o)
    BY FillReserves
  <2> QED BY <2>1 DEF Reserves
<1>4. /\ KeyOf(o, b) \in DOMAIN buckets /\ DOMAIN buckets' = DOMAIN buckets
      /\ buckets[KeyOf(o, b)].remaining \in Nat
      /\ buckets'[KeyOf(o, b)].remaining = buckets[KeyOf(o, b)].remaining - p.qty
      /\ \A k \in DOMAIN buckets : k # KeyOf(o, b) => buckets'[k] = buckets[k]
  BY FillUsesBucket
<1> SUFFICES ASSUME NEW x \in DOMAIN reservations', NEW k \in BucketIds,
                    Matched(x, k)', Tradeable(x, k)'
             PROVE  buckets'[KeyOf(x, k)].remaining < reservations'[x].lot_size
  BY <1>1 DEF QueueFits, KeyOf
<1>5. x \in DOMAIN reservations /\ x \in DOMAIN run.submits /\ Tradeable(x, k)
  <2>1. x \in DOMAIN reservations
    BY <1>3
  <2>2. Tradeable(x, k)
    BY <1>1 DEF Tradeable
  <2> QED BY <2>1, <2>2, WorkingOrder
<1>6. reservations'[x].lot_size = reservations[x].lot_size /\ reservations[x].lot_size \in Nat
  <2>1. reservations[x] \in Reservation
    BY <1>5, WorkingOrder
  <2>2. reservations[x].lot_size \in Nat
    BY <2>1, LedgerAssumption DEF Reservation
  <2> QED BY <1>3, <2>2
<1>7. CASE Matched(x, k)
  <2>1. buckets[KeyOf(x, k)].remaining < reservations[x].lot_size
    BY <1>1, <1>5, <1>7 DEF QueueFits, KeyOf
  <2>2. KeyOf(x, k) \in DOMAIN buckets
    <3>1. Known(run.submits[x].symbol, k)
      BY <1>1, <1>5, <1>7, MatchedMeans
    <3> QED BY <1>5, <3>1, Meeting
  <2>3. CASE KeyOf(x, k) = KeyOf(o, b)
    BY <1>2, <1>4, <1>6, <2>1, <2>3
  <2>4. CASE KeyOf(x, k) # KeyOf(o, b)
    BY <1>4, <1>6, <2>1, <2>2, <2>4
  <2> QED BY <2>3, <2>4
<1>8. CASE x = o /\ k = b
  <2>1. p.qty = QtyFor(o, b)
    <3>1. Shaped(p, o, b)
      BY FillShape DEF Fills
    <3> QED BY <3>1 DEF Shaped
  <2>2. p.qty < reservations[o].remaining_qty
          => buckets[KeyOf(o, b)].remaining - p.qty < reservations[o].lot_size
    BY <1>2, <2>1, QtyFits
  <2>3. p.qty <= reservations[o].remaining_qty
    BY <1>2, <2>1, QtyFits
  <2>4. LeftBy(p, o) # 0
    BY <1>3, <1>8
  <2>5. p.qty < reservations[o].remaining_qty
    BY <1>2, <2>3, <2>4
  <2> QED BY <1>4, <1>6, <1>8, <2>2, <2>5
<1> QED BY <1>1, <1>5, <1>7, <1>8

\* ... and the lots, of which a purchase adds one under the name of its fill.
LEMMA FillKeepsNames ==
  ASSUME BrokerIInv, NEW e, NEW o, NEW b, NEW p, Fills(e, p, o, b)
  PROVE  LotsFit' /\ NoContractFits'
<1>1. LotsFit /\ NoContractFits /\ failure' = failure
  BY DEF BrokerIInv, Fills
<1>2. DOMAIN lots' \subseteq DOMAIN lots \cup {p.fill_id}
  BY FillLots
<1>3. DOMAIN applied_fills' = DOMAIN applied_fills \cup {p.fill_id}
  <2>1. Records(p)
    BY FillRecorded
  <2> QED BY <2>1 DEF Records
<1> QED BY <1>1, <1>2, <1>3 DEF LotsFit, NoContractFits, LotNamesAreFree

\* ... what was sold of what could be.
LEMMA FillKeepsResale ==
  ASSUME BrokerIInv, NEW e, NEW o, NEW b, NEW p, Fills(e, p, o, b)
  PROVE  ResaleFits'
<1>1. /\ HistoryIInv /\ IsHistory(applied_fills) /\ IsHolding(lots)
      /\ ResaleAgrees(lots, applied_fills)
  BY HistoryTypes DEF BrokerIInv, ResaleFits
<1>2. ApplyFill(p) /\ p \in FillProposal /\ Known(run.submits[o].symbol, b)
      /\ o \in DOMAIN reservations /\ b \in BucketIds
  BY FillLeaves DEF Fills
<1>3. /\ p.side = run.submits[o].side /\ p.side \in Sides /\ p.trade_date = DateOf(Sessions[b].start)
      /\ p.sellable_date =
           (IF run.submits[o].side = "BUY" THEN NextDate(DateOf(Sessions[b].start)) ELSE NoDate)
  <2>1. Shaped(p, o, b)
    BY FillShape DEF Fills
  <2> QED BY <2>1 DEF Shaped
<1>4. p.trade_date \in TradingDates /\ p.trade_date \in Nat
  BY <1>2, <1>3, MarketTypes
<1>5. PICK entry : entry = FillRecord(p, ledger_version)
  OBVIOUS
<1>6. /\ entry \in FillApplied /\ entry.proposal = p
      /\ p.fill_id \in FillIds /\ p.fill_id \notin DOMAIN applied_fills
      /\ applied_fills' = Put(applied_fills, p.fill_id, entry)
      /\ lots' = IF p.side = "BUY" THEN LotsAfterPurchase(p) ELSE LotsAfterSale(Taken(p))
  BY <1>1, <1>2, <1>5, FillPublishes
<1>7. CASE p.side = "BUY"
  <2>1. LaterDates(p.trade_date) # {} /\ p.sellable_date = NextDate(p.trade_date)
    <3>1. Trading(o, b)
      BY DEF Fills, Trades
    <3> QED BY <1>3, <1>7, <3>1 DEF Trading
  <2>2. PICK lot : lot = [symbol |-> p.symbol, acquire_date |-> p.trade_date,
                          sellable_date |-> p.sellable_date, qty |-> p.qty,
                          lot_size |-> p.lot_size, reserved_qty |-> 0]
    OBVIOUS
  <2>3. lots' = Put(lots, p.fill_id, lot)
    BY <1>6, <1>7, <2>2 DEF LotsAfterPurchase
  <2>4. p.fill_id \in LotIds \ DOMAIN lots
    BY <1>2, <1>6, <1>7, LedgerAssumption DEF ApplyFill, FillAccepted, BuyIsCovered
  <2>5. lot \in Lot
    <3>1. /\ p.symbol \in Symbols /\ p.trade_date \in Dates /\ p.sellable_date \in Dates
          /\ p.qty \in Nat \ {0} /\ p.lot_size \in LotSizes
      BY <1>2, <1>4, <2>1, LedgerAssumption, MarketTypes, NextDateIsNext DEF FillProposal
    <3> QED BY <2>2, <3>1 DEF Lot
  <2>6. lot.symbol = p.symbol /\ lot.qty = p.qty /\ lot.sellable_date = NextDate(p.trade_date)
    BY <2>1, <2>2
  <2>7. ResaleAgrees(Put(lots, p.fill_id, lot), Put(applied_fills, p.fill_id, entry))
    BY <1>1, <1>4, <1>6, <1>7, <2>1, <2>4, <2>5, <2>6, ResaleAfterPurchase
  <2> QED BY <1>6, <2>3, <2>7 DEF ResaleFits
<1>8. CASE p.side = "SELL"
  <2>1. PICK take : take = Taken(p)
    OBVIOUS
  <2>2. /\ take \in [LotIds -> Nat] /\ Total(take) = p.qty
        /\ \A l \in LotIds : take[l] # 0 =>
             /\ l \in DOMAIN lots /\ lots[l].symbol = p.symbol
             /\ lots[l].sellable_date <= p.trade_date /\ take[l] <= lots[l].qty
    BY <1>1, <1>2, <1>8, <2>1, SaleTakes
  <2>3. lots' = LotsAfterSale(take)
    BY <1>6, <1>8, <2>1
  <2>4. \A l \in DOMAIN lots : lots[l] \in Lot
    BY <1>1 DEF IsHolding
  <2>5. /\ DOMAIN lots' = {l \in DOMAIN lots : lots[l].qty > take[l]}
        /\ \A l \in DOMAIN lots' :
             /\ lots'[l].symbol = lots[l].symbol /\ lots'[l].qty = lots[l].qty - take[l]
             /\ lots'[l].sellable_date = lots[l].sellable_date
    BY <2>3, <2>4 DEF LotsAfterSale, Lot
  <2>6. Draws(lots, lots', take, p.symbol, p.trade_date)
    BY <1>1, <1>4, <2>2, <2>5 DEF Draws
  <2>7. ResaleAgrees(lots', Put(applied_fills, p.fill_id, entry))
    BY <1>1, <1>6, <1>8, <2>2, <2>6, ResaleAfterSale
  <2> QED BY <1>6, <2>7 DEF ResaleFits
<1> QED BY <1>3, <1>7, <1>8 DEF Sides

\* A fill keeps the invariant.
LEMMA FillKeeps ==
  ASSUME BrokerIInv, NEW e, NEW o, NEW b, NEW p, Fills(e, p, o, b)
  PROVE  BrokerIInv'
<1>1. ValidRun(run)' /\ AgendaFits'
  BY FillMatches
<1>2. HistoryIInv'
  <2>1. HistoryIInv /\ ApplyFill(p) /\ p \in FillProposal
    BY FillLeaves DEF Fills, BrokerIInv
  <2> QED BY <2>1, FillKeepsHistory
<1>3. OrdersFit' /\ ReservationsFit' /\ FillsFit'
  BY FillKeepsOrders, FillKeepsReservations, FillKeepsFills
<1>4. BucketsFit' /\ QueueFits' /\ ResaleFits' /\ LotsFit' /\ NoContractFits'
  BY FillKeepsBuckets, FillKeepsQueue, FillKeepsResale, FillKeepsNames
<1> QED BY <1>1, <1>2, <1>3, <1>4 DEF BrokerIInv

\* An event handled without any effect leaves at most less than a lot to an order
\* that could have traded.
Passes(e) ==
  /\ Handling(e) /\ failure' = failure
  /\ UNCHANGED <<ledgerVars, orders, visible>>
  /\ e.id \in DOMAIN reservations /\ Tradeable(e.id, e.bucket) =>
       buckets[KeyOf(e.id, e.bucket)].remaining < reservations[e.id].lot_size

\* The run ends with an error, which is a contract error only for want of lot names.
Fails ==
  /\ UNCHANGED <<ledgerVars, agenda, orders, visible>>
  /\ LotNamesAreFree => failure' # "contract"

\* _match once the order meets a bucket it trades in: the ledger takes the fill, or
\* the run is over for want of cash.
LEMMA TradeMeans ==
  ASSUME BrokerIInv, agenda # <<>>, run' = run, NEW e, e = Head(agenda), e.phase = MATCH,
         NEW o, NEW b, e.id = o, e.bucket = b, Trading(o, b), Settle(FillOf(o, b))
  PROVE  Fails \/ \E p : Fills(e, p, o, b)
<1> DEFINE p == FillOf(o, b)
<1>1. Trades(p, o, b)
  BY DEF Trades
<1> HIDE DEF p
<1>2. Shaped(p, o, b)
  BY <1>1, FillShape
<1>3. p.order_id = o /\ (p.side = "BUY" \/ p.side = "SELL")
  BY <1>2 DEF Shaped, Sides
<1>4. CASE FillAccepted(p)
  <2>1. /\ ApplyFill(p) /\ Handled /\ visible' = visible
        /\ LET left == orders[o].remaining_qty - p.qty
           IN  orders' = [orders EXCEPT ![o] =
                 [status |-> IF left = 0 THEN "Filled" ELSE "PartiallyFilled",
                  filled_qty |-> @.filled_qty + p.qty, remaining_qty |-> left]]
    BY <1>3, <1>4 DEF Settle, p
  <2>2. Fills(e, p, o, b)
    BY <1>1, <2>1 DEF Fills, Handling, Handled
  <2> QED BY <2>2
<1>5. CASE ~FillAccepted(p)
  <2>1. WellFormedFill(p) /\ AdmissibleFill(p)
    BY <1>1, FillIsWellFormed, FillIsAdmissible
  <2>2. LotNamesAreFree => IF p.side = "BUY" THEN BuyIsCovered(p) ELSE SellIsBacked(p)
    BY <1>1, <1>3, PurchaseIsCovered, SaleIsBacked
  <2>3. Abort(IF WellFormedFill(p) /\ AdmissibleFill(p)
                   /\ (IF p.side = "BUY" THEN BuyIsCovered(p) ELSE SellIsBacked(p))
              THEN "unpayable fill" ELSE "contract")
    BY <1>5 DEF Settle, p
  <2>4. LotNamesAreFree => failure' = "unpayable fill"
    BY <2>1, <2>2, <2>3 DEF Abort
  <2>5. UNCHANGED <<ledgerVars, agenda, orders, visible>>
    BY <2>3 DEF Abort
  <2>6. LotNamesAreFree => failure' # "contract"
    BY <2>4
  <2> QED BY <2>5, <2>6 DEF Fails
<1> QED BY <1>4, <1>5

\* _match: nothing trades, the run is over, or the ledger takes a fill.
LEMMA MatchMeans ==
  ASSUME BrokerIInv, agenda # <<>>, run' = run, NEW e, e = Head(agenda),
         e.phase = MATCH, HandleMatch(e)
  PROVE  Passes(e) \/ Fails \/ \E p : Fills(e, p, e.id, e.bucket)
<1> DEFINE o == e.id
           b == e.bucket
           c == run.submits[o]
           key == KeyOf(o, b)
<1>1. /\ o \in DOMAIN run.submits /\ b \in BucketIds
      /\ MatchOf(o, b) \in EventsOf(run) /\ ~Matched(o, b)
      /\ Submitted(o) /\ Known(c.symbol, b) /\ ValidRun(run)
  BY HeadMeans DEF BrokerIInv
<1>2. c.order_id = o /\ c.side \in Sides
  BY <1>1, SubmitType
<1>3. Eligible(c, c.symbol, b, e.time)
  <2>1. e \in EventsOf(run)
    BY <1>1, HeadIsNext DEF BrokerIInv
  <2> QED BY <1>1, <2>1, EventIs
<1>4. Active(o) <=> o \in DOMAIN reservations
  <2>1. o \in DOMAIN reservations => Active(o)
    BY WorkingOrder
  <2>2. Active(o) => o \in DOMAIN reservations
    BY DEF BrokerIInv, OrdersFit, Active
  <2> QED BY <2>1, <2>2
<1>5. CASE Handled /\ UNCHANGED <<ledgerVars, orders, visible>>
           /\ (~Active(o) \/ NoMatch(c, b, visible[key]))
  <2>1. Handling(e) /\ failure' = failure
    BY <1>5 DEF Handling, Handled
  <2>2. ASSUME o \in DOMAIN reservations, Tradeable(o, b)
        PROVE  buckets[key].remaining < reservations[o].lot_size
    <3>1. QtyFor(o, b) = 0
      BY <1>1, <1>4, <1>5, <2>2, NoMatchMeans
    <3>2. /\ reservations[o].lot_size \in Nat \ {0}
          /\ reservations[o].lot_size = FactsAt(c.symbol, Sessions[b].start).lot_size
          /\ buckets[key].remaining \in Nat
          /\ orders[o].remaining_qty = reservations[o].remaining_qty
          /\ reservations[o].remaining_qty \in Nat \ {0}
          /\ reservations[o].remaining_qty % reservations[o].lot_size = 0
      BY <1>1, <2>2, Meeting
    <3>3. ProposedQty(reservations[o].remaining_qty, buckets[key].remaining,
                      reservations[o].lot_size) = 0
      BY <3>1, <3>2 DEF QtyFor
    <3> QED BY <3>2, <3>3, NothingProposed
  <2> QED BY <1>5, <2>1, <2>2 DEF Passes
<1>6. CASE Active(o) /\ ~NoMatch(c, b, visible[key]) /\ Trade(c, b, visible[key])
  <2>1. o \in DOMAIN reservations /\ Tradeable(o, b) /\ QtyFor(o, b) # 0
    BY <1>1, <1>4, <1>6, NoMatchMeans
  <2>2. CASE Abort("no next trading date")
    BY <2>2 DEF Abort, Fails
  <2>3. CASE (c.side = "SELL" \/ LaterDates(DateOf(Sessions[b].start)) # {})
             /\ Settle(FillOf(o, b))
    <3>1. Trading(o, b)
      BY <1>1, <2>1, <2>3 DEF Trading
    <3> QED BY <2>3, <3>1, TradeMeans
  <2>4. FillOf(o, b) = FillFor(c, b, visible[key],
          ProposedQty(orders[c.order_id].remaining_qty, buckets[<<c.symbol, b>>].remaining,
                      FactsAt(c.symbol, Sessions[b].start).lot_size))
    BY <1>2 DEF FillOf, QtyFor, KeyOf
  <2> QED BY <1>6, <2>2, <2>3, <2>4 DEF Trade
<1>7. CASE Active(o) /\ key \notin DOMAIN visible
  <2>1. key \in DOMAIN visible
    BY <1>1, <1>4, <1>7, Meeting
  <2> QED BY <1>7, <2>1
<1> QED BY <1>3, <1>5, <1>6, <1>7 DEF HandleMatch, KeyOf

\* _match keeps the invariant.
LEMMA MatchKeeps ==
  ASSUME BrokerIInv, failure = "none", agenda # <<>>, run' = run, NEW e, e = Head(agenda),
         e.phase = MATCH, HandleMatch(e)
  PROVE  BrokerIInv'
<1>1. CASE Passes(e)
  <2>1. e.phase \notin {SUBMIT, BUCKET} /\ e.phase # EXPIRY
    BY Phases
  <2> QED BY <1>1, <2>1, QuietKeeps DEF Passes, KeyOf
<1>2. CASE Fails
  BY <1>2, AbortKeeps DEF Fails
<1>3. CASE \E p : Fills(e, p, e.id, e.bucket)
  BY <1>3, FillKeeps
<1> QED BY <1>1, <1>2, <1>3, MatchMeans

-----------------------------------------------------------------------------
(* The invariant of the replay. *)

\* A run starts with nothing handled.
LEMMA BrokerStarts == Init => BrokerIInv
<1> SUFFICES ASSUME Init PROVE BrokerIInv
  OBVIOUS
<1>1. /\ ValidRun(run) /\ agenda = Schedule(EventsOf(run))
      /\ orders = Empty /\ visible = Empty /\ failure = "none"
  BY DEF Init
<1>2. /\ lots \in InitialLots /\ reservations = Empty /\ buckets = Empty
      /\ applied_fills = Empty /\ used_order_ids = {}
  BY DEF Init, LedgerInit
<1>3. HistoryIInv
  BY HistoryStarts DEF Init
<1>4. AgendaFits /\ Pending = EventsOf(run)
  BY <1>1, AgendaStarts
<1>5. DOMAIN Empty = {}
  BY DEF Empty
<1>6. OrdersFit
  <2>1. \A o \in DOMAIN run.submits : ~Submitted(o)
    BY <1>1, <1>4, EventExists DEF Submitted
  <2>2. orders \in [DOMAIN orders -> OrderState]
    BY <1>1 DEF Empty
  <2> QED BY <1>1, <1>2, <1>5, <2>1, <2>2 DEF OrdersFit
<1>7. ReservationsFit
  BY <1>2, <1>5 DEF ReservationsFit
<1>8. FillsFit
  BY <1>1, <1>2, <1>5 DEF FillsFit
<1>9. BucketsFit
  <2>1. \A s \in Symbols, b \in BucketIds : ~Known(s, b)
    BY <1>1, <1>4, EventExists DEF Known
  <2> QED BY <1>1, <1>2, <1>5, <2>1 DEF BucketsFit
<1>10. QueueFits
  BY <1>2, <1>5 DEF QueueFits
<1>11. ResaleFits
  <2>1. \A s, d : SoldBy(applied_fills, s, d) = {} /\ BoughtBefore(applied_fills, s, d) = {}
    BY <1>2, <1>5 DEF SoldBy, BoughtBefore
  <2>2. QtyOf(applied_fills, {}) = 0
    <3>1. [f \in {} |-> applied_fills[f].proposal.qty] \in [{} -> {0}]
      OBVIOUS
    <3> QED BY <3>1, TotalZero DEF QtyOf
  <2>3. ASSUME NEW s \in Symbols, NEW d \in TradingDates
        PROVE  QtyOf(applied_fills, SoldBy(applied_fills, s, d)) + FreeBy(lots, s, d)
                 <= FreeBy(lots, s, d) + QtyOf(applied_fills, BoughtBefore(applied_fills, s, d))
    <3>1. FreeBy(lots, s, d) \in Nat
      BY <1>2, StartsAreHoldings, FreeByType
    <3>2. PICK n \in Nat : n = FreeBy(lots, s, d)
      BY <3>1
    <3>3. 0 + n <= n + 0
      OBVIOUS
    <3> QED BY <2>1, <2>2, <3>2, <3>3
  <2> QED BY <1>2, <2>3 DEF ResaleFits, ResaleAgrees
<1>12. LotsFit
  BY <1>2 DEF LotsFit, LotNamesAreFree
<1>13. NoContractFits
  BY <1>1 DEF NoContractFits
<1> QED BY <1>1, <1>3, <1>4, <1>6, <1>7, <1>8, <1>9, <1>10, <1>11, <1>12, <1>13 DEF BrokerIInv

\* A step handles one event, or none.
LEMMA BrokerStep == BrokerIInv /\ [Next]_vars => BrokerIInv'
<1> SUFFICES ASSUME BrokerIInv, [Next]_vars PROVE BrokerIInv'
  OBVIOUS
<1>1. CASE UNCHANGED vars
  <2>1. /\ run' = run /\ failure' = failure
        /\ UNCHANGED <<ledgerVars, agenda, orders, visible>>
    BY <1>1 DEF vars, brokerVars
  <2>2. LotNamesAreFree => failure' # "contract"
    BY <2>1 DEF BrokerIInv, NoContractFits
  <2> QED BY <2>1, <2>2, AbortKeeps
<1>2. CASE Next
  <2>1. PICK e : e = Head(agenda)
    OBVIOUS
  <2>2. failure = "none" /\ agenda # <<>> /\ Handle(e) /\ run' = run
    BY <1>2, <2>1 DEF Next
  <2>3. CASE e.phase = SUBMIT /\ HandleSubmit(e)
    BY <2>1, <2>2, <2>3, SubmitKeeps
  <2>4. CASE e.phase \in {EXPIRY, CANCEL} /\ HandleRelease(e)
    BY <2>1, <2>2, <2>4, ReleaseKeeps
  <2>5. CASE e.phase = BUCKET /\ HandleBucket(e)
    BY <2>1, <2>2, <2>5, BucketKeeps
  <2>6. CASE e.phase = MATCH /\ HandleMatch(e)
    BY <2>1, <2>2, <2>6, MatchKeeps
  <2>7. CASE e.phase = MARK /\ HandleMark(e)
    BY <2>1, <2>2, <2>7, MarkKeeps
  <2> QED BY <2>2, <2>3, <2>4, <2>5, <2>6, <2>7 DEF Handle
<1> QED BY <1>1, <1>2

\* Whatever is ordered and whatever the buckets turn out to be, broker, ledger and
\* schedule agree in every state of the replay.
THEOREM BrokerInvariant == Spec => []BrokerIInv
BY BrokerStarts, BrokerStep, PTL DEF Spec

-----------------------------------------------------------------------------
(* What a replay promises. *)

\* When the schedule is done, every order that expires within the run has lapsed.
LEMMA OrdersAgree == BrokerIInv => OrdersAgreeWithLedger
<1> SUFFICES ASSUME BrokerIInv, NEW o \in DOMAIN run.submits
             PROVE  /\ Active(o) <=> o \in DOMAIN reservations
                    /\ o \in DOMAIN orders => o \in used_order_ids
                    /\ o \in DOMAIN reservations =>
                         /\ orders[o].remaining_qty = reservations[o].remaining_qty
                         /\ agenda = <<>> => run.submits[o].expires_at > EndAt
                    /\ o \in DOMAIN orders =>
                         /\ orders[o].filled_qty = QtyFilled(o)
                         /\ orders[o].filled_qty + orders[o].remaining_qty = run.submits[o].qty
                         /\ orders[o].status = "Filled" <=> orders[o].remaining_qty = 0
  BY DEF OrdersAgreeWithLedger
<1>1. Active(o) <=> o \in DOMAIN reservations
  <2>1. o \in DOMAIN reservations => Active(o)
    BY WorkingOrder
  <2>2. Active(o) => o \in DOMAIN reservations
    BY DEF BrokerIInv, OrdersFit, Active
  <2> QED BY <2>1, <2>2
<1>2. ASSUME o \in DOMAIN orders
      PROVE  /\ o \in used_order_ids
             /\ orders[o].filled_qty + orders[o].remaining_qty = run.submits[o].qty
             /\ orders[o].status = "Filled" <=> orders[o].remaining_qty = 0
  BY <1>2 DEF BrokerIInv, OrdersFit
<1>3. ASSUME o \in DOMAIN orders
      PROVE  orders[o].filled_qty = QtyFilled(o)
  BY <1>3 DEF BrokerIInv, FillsFit, Filled, FilledBy, QtyFilled, FillsOf
<1>4. ASSUME o \in DOMAIN reservations
      PROVE  orders[o].remaining_qty = reservations[o].remaining_qty
  BY <1>4 DEF BrokerIInv, ReservationsFit
<1>5. ASSUME o \in DOMAIN reservations, agenda = <<>>
      PROVE  run.submits[o].expires_at > EndAt
  <2>1. Lapsed(o)
    BY <1>5 DEF Lapsed, Pending
  <2>2. ~WithinRun(run.submits[o].expires_at)
    BY <1>5, <2>1 DEF BrokerIInv, ReservationsFit
  <2>3. run.submits[o].expires_at \in Nat /\ EndAt \in Nat
    BY EventTimes, MarketTypes DEF BrokerIInv
  <2> QED BY <2>2, <2>3 DEF WithinRun
<1> QED BY <1>1, <1>2, <1>3, <1>4, <1>5

\* Broker and ledger never disagree about an order (OrdersAgreeWithLedger): what
\* works has its reservation, for what is left of it, and what counts as filled is
\* what was filled; an order is only left working by a run it outlives.
THEOREM OrdersAlwaysAgree == Spec => []OrdersAgreeWithLedger
BY BrokerInvariant, OrdersAgree, PTL

\* The close of a bucket trades only what was ordered before the bucket began.
LEMMA LaterBuckets == BrokerIInv => FillsUseLaterBuckets
<1> SUFFICES ASSUME BrokerIInv, NEW f \in DOMAIN applied_fills
             PROVE  LET p == applied_fills[f].proposal
                        c == run.submits[p.order_id]
                        b == Sessions[p.bucket_id]
                    IN  /\ c.submitted_at < b.start /\ c.effective_at <= b.start
                        /\ b.end < c.expires_at
                        /\ p.price = visible[<<p.symbol, p.bucket_id>>].close
                        /\ ~visible[<<p.symbol, p.bucket_id>>].halted
  BY DEF FillsUseLaterBuckets
<1> DEFINE p == applied_fills[f].proposal
           o == p.order_id
           b == p.bucket_id
<1>1. /\ o \in DOMAIN orders /\ Matched(o, b)
      /\ ~visible[<<p.symbol, b>>].halted /\ p.price = visible[<<p.symbol, b>>].close
  BY DEF BrokerIInv, FillsFit
<1>2. b \in BucketIds
  BY DEF BrokerIInv, HistoryIInv, LedgerIInv, LedgerTypeOK, FillApplied, FillProposal
<1>3. o \in DOMAIN run.submits
  BY <1>1 DEF BrokerIInv, OrdersFit
<1> HIDE DEF o, b
<1>4. Eligible(run.submits[o], run.submits[o].symbol, b, Sessions[b].end)
  BY <1>1, <1>2, <1>3, MatchIsEligible DEF BrokerIInv, Matched
<1> QED BY <1>1, <1>4 DEF Eligible, o, b

\* The capacity a bucket is registered with is its share of what traded.
LEMMA CapacityIsShare ==
  ASSUME NEW size \in Nat \ {0}, NEW volume \in Nat
  PROVE  LET capacity == BucketCapacity(size, volume, RateNum, RateDen)
         IN  capacity \in Nat /\ RateDen * capacity <= RateNum * volume
<1>1. RateNum \in Nat /\ RateDen \in Nat \ {0}
  BY BrokerAssumption DEF ValidFacts
<1>2. PICK traded \in Nat : traded = RateNum * volume
  BY <1>1, ProductType
<1>3. PICK unit \in Nat \ {0} : unit = RateDen * size
  <2>1. RateDen * size \in Nat \ {0}
    BY <1>1
  <2> QED BY <2>1
<1>4. PICK n \in Nat : n = traded \div unit /\ unit * n <= traded
  <2>1. PICK m \in Nat : m = traded \div unit
    BY <1>2, <1>3
  <2>2. PICK rest \in Nat : traded = unit * m + rest
    <3>1. /\ traded % unit \in 0 .. (unit - 1)
          /\ traded = unit * (traded \div unit) + (traded % unit)
      BY DivMod
    <3> QED BY <2>1, <3>1
  <2>3. unit * m \in Nat
    BY ProductType
  <2> QED BY <2>1, <2>2, <2>3
<1>5. BucketCapacity(size, volume, RateNum, RateDen) = size * n
  BY <1>2, <1>3, <1>4 DEF BucketCapacity
<1>6. size * n \in Nat
  BY ProductType
<1>7. RateDen * (size * n) = unit * n
  BY <1>1, <1>3
<1> QED BY <1>2, <1>4, <1>5, <1>6, <1>7

\* The fills of a bucket keep to its share.
LEMMA Participation == BrokerIInv => ParticipationIsBounded
<1> SUFFICES ASSUME BrokerIInv, NEW key \in DOMAIN visible
             PROVE  LET q == visible[key]
                    IN  IF q.missing \/ q.halted
                        THEN Used(applied_fills, key) = 0
                        ELSE RateDen * Used(applied_fills, key) <= RateNum * q.volume
  BY DEF ParticipationIsBounded, Used, BucketFills, FillsOf
<1> DEFINE q == visible[key]
           size == buckets[key].lot_size
<1>1. IsHistory(applied_fills) /\ CapacityAgrees(buckets, applied_fills)
      /\ buckets \in [DOMAIN buckets -> Bucket]
  BY HistoryTypes DEF BrokerIInv
<1>2. /\ key \in DOMAIN buckets /\ q \in Quotes
      /\ buckets[key].capacity = CapacityOf(q, size)
  BY DEF BrokerIInv, BucketsFit
<1>3. buckets[key] \in Bucket
  BY <1>1, <1>2
<1>4. PICK rest \in Nat : rest = buckets[key].remaining
  BY <1>3 DEF Bucket
<1>5. size \in Nat \ {0}
  BY <1>3, LedgerAssumption DEF Bucket
<1>6. q.volume \in Nat
  BY <1>2, BrokerAssumption DEF ValidQuotes
<1>7. PICK used \in Nat : used = Used(applied_fills, key)
  BY <1>1, UsedType
<1>8. used = CapacityOf(q, size) - rest
  BY <1>1, <1>2, <1>4, <1>7 DEF CapacityAgrees
<1> HIDE DEF q, size
<1>9. CASE q.missing \/ q.halted
  <2>1. CapacityOf(q, size) = 0
    BY <1>9 DEF CapacityOf
  <2>2. used = 0
    BY <1>4, <1>7, <1>8, <2>1
  <2> QED BY <1>7, <1>9, <2>2 DEF q
<1>10. CASE ~(q.missing \/ q.halted)
  <2>1. CapacityOf(q, size) = BucketCapacity(size, q.volume, RateNum, RateDen)
    BY <1>10 DEF CapacityOf
  <2>2. PICK capacity \in Nat : /\ capacity = BucketCapacity(size, q.volume, RateNum, RateDen)
                                /\ RateDen * capacity <= RateNum * q.volume
    BY <1>5, <1>6, CapacityIsShare
  <2>3. used <= capacity
    BY <1>4, <1>7, <1>8, <2>1, <2>2
  <2>4. RateDen \in Nat /\ RateNum \in Nat
    BY BrokerAssumption DEF ValidFacts
  <2>5. RateDen * used <= RateDen * capacity
    BY <1>7, <2>2, <2>3, <2>4
  <2>6. RateDen * used \in Nat /\ RateDen * capacity \in Nat /\ RateNum * q.volume \in Nat
    BY <1>6, <1>7, <2>2, <2>4, ProductType
  <2>7. RateDen * used <= RateNum * q.volume
    BY <2>2, <2>5, <2>6
  <2> QED BY <1>7, <1>10, <2>7 DEF q
<1> QED BY <1>9, <1>10

\* What is sold by a date was held when the date began.
LEMMA SameDay == BrokerIInv => NoSameDayResale
<1> SUFFICES ASSUME BrokerIInv PROVE NoSameDayResale
  OBVIOUS
<1>1. IsHistory(applied_fills) /\ IsHolding(lots)
  BY HistoryTypes DEF BrokerIInv
<1>2. PICK start \in InitialLots : \A symbol \in Symbols, d \in TradingDates :
        QtyOf(applied_fills, SoldBy(applied_fills, symbol, d)) + FreeBy(lots, symbol, d)
          <= FreeBy(start, symbol, d) + QtyOf(applied_fills, BoughtBefore(applied_fills, symbol, d))
  BY DEF BrokerIInv, ResaleFits, ResaleAgrees
<1>3. ASSUME NEW symbol \in Symbols, NEW d \in TradingDates
      PROVE  QtyOf(applied_fills, SoldBy(applied_fills, symbol, d))
               <= FreeBy(start, symbol, d)
                    + QtyOf(applied_fills, BoughtBefore(applied_fills, symbol, d))
  <2>1. PICK free \in Nat : free = FreeBy(lots, symbol, d)
    BY <1>1, FreeByType
  <2>2. PICK from \in Nat : from = FreeBy(start, symbol, d)
    BY StartsAreHoldings, FreeByType
  <2>3. PICK sold \in Nat : sold = QtyOf(applied_fills, SoldBy(applied_fills, symbol, d))
    <3>1. SoldBy(applied_fills, symbol, d) \subseteq DOMAIN applied_fills
      BY DEF SoldBy
    <3> QED BY <1>1, <3>1, QtyOfType
  <2>4. PICK bought \in Nat :
          bought = QtyOf(applied_fills, BoughtBefore(applied_fills, symbol, d))
    <3>1. BoughtBefore(applied_fills, symbol, d) \subseteq DOMAIN applied_fills
      BY DEF BoughtBefore
    <3> QED BY <1>1, <3>1, QtyOfType
  <2>5. sold + free <= from + bought
    BY <1>2, <2>1, <2>2, <2>3, <2>4
  <2> QED BY <2>1, <2>2, <2>3, <2>4, <2>5
<1>4. ASSUME NEW symbol \in Symbols, NEW d \in TradingDates
      PROVE  /\ SharesTraded(symbol, "SELL", LAMBDA t : t <= d)
                  = QtyOf(applied_fills, SoldBy(applied_fills, symbol, d))
             /\ SharesTraded(symbol, "BUY", LAMBDA t : t < d)
                  = QtyOf(applied_fills, BoughtBefore(applied_fills, symbol, d))
             /\ Total([l \in {l \in DOMAIN start : start[l].symbol = symbol
                                                    /\ start[l].sellable_date <= d} |-> start[l].qty])
                  = FreeBy(start, symbol, d)
  BY DEF SharesTraded, FillsOf, QtyOf, SoldBy, BoughtBefore, FreeBy, FreeLots
<1>5. \A symbol \in Symbols, d \in TradingDates :
        SharesTraded(symbol, "SELL", LAMBDA t : t <= d)
          <= Total([l \in {l \in DOMAIN start : start[l].symbol = symbol
                                                 /\ start[l].sellable_date <= d} |-> start[l].qty])
               + SharesTraded(symbol, "BUY", LAMBDA t : t < d)
  BY <1>3, <1>4
<1> QED BY <1>5 DEF NoSameDayResale

\* Every fill is one the market allowed (FillsObeyTheMarket): at the close of a bucket
\* that began after the order, within the share of what the bucket traded, and of
\* shares that were held when its date began.
THEOREM FillsAlwaysObeyTheMarket == Spec => []FillsObeyTheMarket
<1>1. BrokerIInv => FillsObeyTheMarket
  BY LaterBuckets, Participation, SameDay DEF FillsObeyTheMarket
<1> QED BY <1>1, BrokerInvariant, PTL

\* Valid facts are never answered by a contract error (NoContractError), provided no
\* initial lot has the name a fill would give its own: nothing in the code keeps the
\* two apart, and a purchase is refused when its name is taken.
THEOREM NeverAContractError ==
  ASSUME LotNamesAreFree
  PROVE  Spec => []NoContractError
<1>1. BrokerIInv => NoContractError
  BY DEF BrokerIInv, NoContractFits, NoContractError
<1> QED BY <1>1, BrokerInvariant, PTL

\* An order is only cancelled at an instant before it expires.
LEMMA CancelComesFirst ==
  ASSUME BrokerIInv, [Next]_vars, NEW o \in DOMAIN orders,
         orders[o].status # "Cancelled", orders'[o].status = "Cancelled"
  PROVE  Head(agenda).time < run.submits[o].expires_at
<1>1. orders' # orders
  OBVIOUS
<1>2. PICK e : e = Head(agenda)
  OBVIOUS
<1>3. agenda # <<>> /\ Handle(e) /\ run' = run
  BY <1>1, <1>2 DEF Next, vars, brokerVars
<1>4. /\ ValidRun(run) /\ AgendaFits /\ OrdersFit /\ ReservationsFit
      /\ orders \in [DOMAIN orders -> OrderState]
  BY DEF BrokerIInv, OrdersFit
<1>5. CASE e.phase = SUBMIT /\ HandleSubmit(e)
  <2>1. e.id \in DOMAIN run.submits /\ ~Submitted(e.id)
    BY <1>2, <1>3, <1>4, <1>5, HeadMeans
  <2>2. run.submits[e.id].order_id = e.id
    BY <1>4, <2>1, SubmitType
  <2>3. e.id \notin DOMAIN orders
    BY <1>4, <2>1 DEF OrdersFit
  <2>4. \E state : orders' = Put(orders, e.id, state)
    BY <1>5, <2>2 DEF HandleSubmit
  <2>5. orders'[o] = orders[o]
    BY <2>3, <2>4 DEF Put
  <2> QED BY <2>5
<1>6. CASE e.phase \in {EXPIRY, CANCEL} /\ HandleRelease(e)
  <2>1. orders' = AfterRelease(e)
    BY <1>6 DEF HandleRelease
  <2>2. MayEnd(e.id) /\ e.id = o /\ FinalStatus(e) = "Cancelled"
    BY <1>4, <2>1 DEF AfterRelease, OrderState
  <2>3. e.phase = CANCEL /\ o \in DOMAIN reservations
    BY <1>4, <1>6, <2>2 DEF FinalStatus, MayEnd, OrdersFit
  <2>4. WithinRun(run.submits[o].expires_at) => ~Lapsed(o)
    BY <1>4, <2>3 DEF ReservationsFit
  <2>5. e.time < run.submits[e.id].expires_at
    BY <1>2, <1>3, <1>4, <2>2, <2>3, <2>4, HeadMeans
  <2> QED BY <1>2, <2>2, <2>5
<1>7. CASE e.phase = MATCH /\ HandleMatch(e)
  <2>1. PICK p : \/ orders' = orders
                 \/ orders' = [orders EXCEPT ![p.order_id] =
                      [status |-> IF orders[p.order_id].remaining_qty - p.qty = 0
                                  THEN "Filled" ELSE "PartiallyFilled",
                       filled_qty |-> orders[p.order_id].filled_qty + p.qty,
                       remaining_qty |-> orders[p.order_id].remaining_qty - p.qty]]
    BY <1>7 DEF HandleMatch, Trade, Settle, Abort
  <2>2. orders'[o].status \in {"Filled", "PartiallyFilled", orders[o].status}
    BY <1>4, <2>1
  <2> QED BY <2>2
<1>8. CASE e.phase = BUCKET /\ HandleBucket(e)
  BY <1>1, <1>8 DEF HandleBucket
<1>9. CASE e.phase = MARK /\ HandleMark(e)
  BY <1>1, <1>9 DEF HandleMark, Abort
<1> QED BY <1>3, <1>5, <1>6, <1>7, <1>8, <1>9 DEF Handle

\* Expiry wins (ExpiryBeatsCancel): an order that expires and is cancelled at one
\* instant has expired, and none is cancelled after its expiry.
THEOREM ExpiryAlwaysBeatsCancel == Spec => ExpiryBeatsCancel
<1>1. BrokerIInv /\ [Next]_vars =>
        [\A o \in DOMAIN orders :
           orders[o].status # "Cancelled" /\ orders'[o].status = "Cancelled" =>
             Head(agenda).time < run.submits[o].expires_at]_vars
  BY CancelComesFirst
<1> QED BY <1>1, BrokerInvariant, PTL DEF Spec, ExpiryBeatsCancel

\* Only a match trades.
LEMMA OnlyMatchesTrade ==
  ASSUME BrokerIInv, [Next]_vars, applied_fills' # applied_fills
  PROVE  \E e, p, o, b : Fills(e, p, o, b)
<1>1. PICK e : e = Head(agenda)
  OBVIOUS
<1>2. agenda # <<>> /\ Handle(e) /\ run' = run
  BY <1>1 DEF Next, vars, ledgerVars
<1>3. CASE e.phase = SUBMIT /\ HandleSubmit(e)
  BY <1>3 DEF HandleSubmit, ReserveBuy, ReserveSell, Reject, Reserve
<1>4. CASE e.phase \in {EXPIRY, CANCEL} /\ HandleRelease(e)
  BY <1>4 DEF HandleRelease, GiveBack, Release, ledgerVars
<1>5. CASE e.phase = BUCKET /\ HandleBucket(e)
  BY <1>5 DEF HandleBucket, RegisterBucket
<1>6. CASE e.phase = MATCH /\ HandleMatch(e)
  <2>1. Passes(e) \/ Fails \/ \E p : Fills(e, p, e.id, e.bucket)
    BY <1>1, <1>2, <1>6, MatchMeans
  <2> QED BY <2>1 DEF Passes, Fails, ledgerVars
<1>7. CASE e.phase = MARK /\ HandleMark(e)
  BY <1>7 DEF HandleMark, Abort, ledgerVars
<1> QED BY <1>2, <1>3, <1>4, <1>5, <1>6, <1>7 DEF Handle

\* Of two orders eligible for a bucket the better placed one is matched first.
LEMMA RankIsOrder ==
  ASSUME ValidRun(run), NEW o \in DOMAIN run.submits, NEW x \in DOMAIN run.submits, NEW b,
         Outranks(o, x)
  PROVE  Before(MatchOf(o, b), MatchOf(x, b))
<1> DEFINE c == run.submits[o]
           d == run.submits[x]
<1>1. /\ c.submitted_at \in Nat /\ c.sequence \in Nat /\ c.order_id = o /\ o \in Int
      /\ d.submitted_at \in Nat /\ d.sequence \in Nat /\ d.order_id = x /\ x \in Int
  BY EventTimes
<1>2. /\ c.side = "SELL" /\ d.side = "BUY" => BuyFlag(c.side) < BuyFlag(d.side)
      /\ c.side = d.side => BuyFlag(c.side) = BuyFlag(d.side)
  BY DEF BuyFlag
<1>3. PICK m : m = MatchOf(o, b)
  OBVIOUS
<1>4. PICK n : n = MatchOf(x, b)
  OBVIOUS
<1>5. /\ m.time = n.time /\ m.phase = n.phase
      /\ m.buy = BuyFlag(c.side) /\ m.submitted_at = c.submitted_at
      /\ m.sequence = c.sequence /\ m.id = o
      /\ n.buy = BuyFlag(d.side) /\ n.submitted_at = d.submitted_at
      /\ n.sequence = d.sequence /\ n.id = x
  BY <1>1, <1>3, <1>4, MatchFields
<1>6. \/ c.side = "SELL" /\ d.side = "BUY"
      \/ /\ c.side = d.side
         /\ \/ c.submitted_at < d.submitted_at
            \/ /\ c.submitted_at = d.submitted_at
               /\ \/ c.sequence < d.sequence
                  \/ c.sequence = d.sequence /\ o < x
  BY DEF Outranks
<1> HIDE DEF c, d
<1>7. Earlier(m, n)
  BY <1>2, <1>5, <1>6 DEF Earlier
<1> QED BY <1>3, <1>4, <1>7, BeforeMeans

\* What an order that could trade leaves a worse placed one is less than a lot.
LEMMA QueueIsKept ==
  ASSUME BrokerIInv, NEW e, NEW p, NEW x, NEW b, Fills(e, p, x, b),
         NEW o \in DOMAIN reservations, Outranks(o, x),
         Eligible(run.submits[o], run.submits[x].symbol, b, Sessions[b].end),
         Crosses(run.submits[o].side, visible[KeyOf(x, b)].close, run.submits[o].limit),
         ~Locked(run.submits[o].side, visible[KeyOf(x, b)],
                 FactsAt(run.submits[x].symbol, Sessions[b].start))
  PROVE  FALSE
<1>1. /\ ValidRun(run) /\ AgendaFits /\ QueueFits /\ agenda # <<>> /\ e = Head(agenda)
      /\ e.phase = MATCH /\ e.id = x /\ e.bucket = b /\ Tradeable(x, b)
  BY DEF BrokerIInv, Fills, Handling, Trades, Trading
<1>2. /\ x \in DOMAIN reservations /\ x \in DOMAIN run.submits /\ b \in BucketIds
      /\ Known(run.submits[x].symbol, b) /\ p.qty \in Nat \ {0}
  BY FillLeaves
<1>3. o \in DOMAIN run.submits
  BY WorkingOrder
<1>4. run.submits[o].symbol = run.submits[x].symbol /\ KeyOf(o, b) = KeyOf(x, b)
  BY DEF Eligible, KeyOf
<1>5. MatchOf(o, b) \in EventsOf(run)
  BY <1>1, <1>2, <1>3, <1>4, EventExists
<1>6. e = MatchOf(x, b)
  <2>1. e \in EventsOf(run)
    BY <1>1, HeadIsNext
  <2> QED BY <1>1, <2>1, EventIs
<1>7. Matched(o, b)
  <2>1. Before(MatchOf(o, b), e)
    BY <1>1, <1>2, <1>3, <1>6, RankIsOrder
  <2>2. MatchOf(o, b) \notin Pending
    BY <1>1, <1>5, <2>1, HeadIsNext
  <2> QED BY <1>5, <2>2 DEF Matched
<1>8. Tradeable(o, b)
  BY <1>1, <1>4 DEF Tradeable, KeyOf
<1>9. buckets[KeyOf(x, b)].remaining < reservations[o].lot_size
  BY <1>1, <1>2, <1>4, <1>7, <1>8 DEF QueueFits, KeyOf
<1>10. /\ reservations[o].lot_size = reservations[x].lot_size
       /\ reservations[x].lot_size \in Nat \ {0} /\ buckets[KeyOf(x, b)].remaining \in Nat
  <2>1. /\ reservations[x].lot_size = FactsAt(run.submits[x].symbol, Sessions[b].start).lot_size
        /\ reservations[x].lot_size \in Nat \ {0} /\ buckets[KeyOf(x, b)].remaining \in Nat
    BY <1>2, Meeting
  <2>2. reservations[o].lot_size = FactsAt(run.submits[o].symbol, Sessions[b].start).lot_size
    BY <1>2, <1>4, Meeting
  <2> QED BY <1>4, <2>1, <2>2
<1>11. p.qty % reservations[x].lot_size = 0 /\ p.qty <= buckets[KeyOf(x, b)].remaining
  <2>1. Shaped(p, x, b)
    BY FillShape DEF Fills
  <2>2. p.qty = QtyFor(x, b)
    BY <2>1 DEF Shaped
  <2> QED BY <1>2, <2>2, QtyFits
<1>12. PICK size \in Nat \ {0} : size = reservations[x].lot_size
  BY <1>10
<1>13. PICK q \in Nat \ {0} : q = p.qty
  BY <1>2
<1>14. q % size = 0 /\ q < size
  BY <1>9, <1>10, <1>11, <1>12, <1>13
<1>15. q % size = q
  BY <1>12, <1>13, <1>14
<1> QED BY <1>13, <1>14, <1>15

\* Sales before purchases and earlier orders before later ones (NoFillJumpsTheQueue): a
\* fill never uses capacity that a better placed order, able to trade, still wants.
THEOREM TheQueueIsKept == Spec => NoFillJumpsTheQueue
<1>1. ASSUME BrokerIInv, [Next]_vars, NEW f \in DOMAIN applied_fills' \ DOMAIN applied_fills,
             NEW p, p = applied_fills'[f].proposal,
             NEW o \in DOMAIN reservations \ {p.order_id},
             Outranks(o, p.order_id),
             Eligible(run.submits[o], p.symbol, p.bucket_id, Sessions[p.bucket_id].end),
             Crosses(run.submits[o].side, visible[<<p.symbol, p.bucket_id>>].close,
                     run.submits[o].limit),
             ~Locked(run.submits[o].side, visible[<<p.symbol, p.bucket_id>>],
                     FactsAt(p.symbol, Sessions[p.bucket_id].start))
      PROVE  FALSE
  <2>1. applied_fills' # applied_fills
    BY <1>1
  <2>2. PICK e, q, x, b : Fills(e, q, x, b)
    BY <1>1, <2>1, OnlyMatchesTrade
  <2>3. Records(q) /\ Shaped(q, x, b)
    BY <1>1, <2>2, FillRecorded, FillShape DEF Fills
  <2>4. p = q
    BY <1>1, <2>3 DEF Records
  <2>5. p.order_id = x /\ p.bucket_id = b /\ p.symbol = run.submits[x].symbol
    BY <2>3, <2>4 DEF Shaped
  <2>6. <<p.symbol, p.bucket_id>> = KeyOf(x, b)
    BY <2>5 DEF KeyOf
  <2> QED BY <1>1, <2>2, <2>5, <2>6, QueueIsKept
<1>2. BrokerIInv /\ [Next]_vars =>
        [\A f \in DOMAIN applied_fills' \ DOMAIN applied_fills :
           LET p == applied_fills'[f].proposal
               at == Sessions[p.bucket_id]
               quote == visible[<<p.symbol, p.bucket_id>>]
           IN  \A o \in DOMAIN reservations \ {p.order_id} :
                 ~ /\ Outranks(o, p.order_id)
                   /\ Eligible(run.submits[o], p.symbol, p.bucket_id, at.end)
                   /\ Crosses(run.submits[o].side, quote.close, run.submits[o].limit)
                   /\ ~Locked(run.submits[o].side, quote, FactsAt(p.symbol, at.start))]_vars
  <2> SUFFICES ASSUME BrokerIInv, [Next]_vars,
                      NEW f \in DOMAIN applied_fills' \ DOMAIN applied_fills,
                      NEW o \in DOMAIN reservations \ {applied_fills'[f].proposal.order_id}
               PROVE  LET p == applied_fills'[f].proposal
                          at == Sessions[p.bucket_id]
                          quote == visible[<<p.symbol, p.bucket_id>>]
                      IN  ~ /\ Outranks(o, p.order_id)
                            /\ Eligible(run.submits[o], p.symbol, p.bucket_id, at.end)
                            /\ Crosses(run.submits[o].side, quote.close, run.submits[o].limit)
                            /\ ~Locked(run.submits[o].side, quote, FactsAt(p.symbol, at.start))
    OBVIOUS
  <2>1. PICK p : p = applied_fills'[f].proposal
    OBVIOUS
  <2> QED BY <1>1, <2>1
<1> QED BY <1>2, BrokerInvariant, PTL DEF Spec, NoFillJumpsTheQueue

-----------------------------------------------------------------------------
(* The owner's view of the replay: it does what LimitOrders promises.      *)

\* What the owner sees of the orders and of the shares.
StatusOf == [o \in DOMAIN run.submits |-> IF o \in DOMAIN orders THEN orders[o].status ELSE "New"]
LeftOf ==
  [o \in DOMAIN run.submits |->
     IF o \in DOMAIN orders THEN orders[o].remaining_qty ELSE run.submits[o].qty]
HeldOf == [s \in Symbols |-> Held(lots, s)]

\* The owner sees nothing happen.
Unseen ==
  run' = run /\ StatusOf' = StatusOf /\ LeftOf' = LeftOf /\ cash' = cash /\ HeldOf' = HeldOf

\* Lots that are only lent hold what they held.
LEMMA LentIsHeld ==
  ASSUME DOMAIN lots' = DOMAIN lots,
         \A l \in DOMAIN lots : lots'[l].symbol = lots[l].symbol /\ lots'[l].qty = lots[l].qty
  PROVE  HeldOf' = HeldOf
<1>1. PICK ms : ms = lots'
  OBVIOUS
<1>2. \A s : Held(ms, s) = Held(lots, s)
  BY <1>1, HeldSame
<1> QED BY <1>1, <1>2 DEF HeldOf

\* What neither trades nor moves an order is not seen.
LEMMA QuietIsUnseen ==
  ASSUME run' = run, orders' = orders, cash' = cash, lots' = lots
  PROVE  Unseen
BY DEF Unseen, StatusOf, LeftOf, HeldOf

\* Then the account stutters.
LEMMA UnseenIsStutter == Unseen => UNCHANGED Account!view
BY DEF Unseen, StatusOf, LeftOf, HeldOf, Held, LotsIn, Account!view

\* A submission decides one new order.
Decides(o) ==
  /\ o \in DOMAIN run.submits /\ run' = run /\ cash' = cash /\ HeldOf' = HeldOf /\ LeftOf' = LeftOf
  /\ StatusOf[o] = "New"
  /\ \E answer \in {"Accepted", "Rejected"} : StatusOf' = [StatusOf EXCEPT ![o] = answer]

\* Then the account does.
LEMMA DecidesOrder == ASSUME NEW o, Decides(o) PROVE Account!Next
<1>1. Account!Decide(o)
  BY DEF Decides, StatusOf, LeftOf, HeldOf, Held, LotsIn, Account!Decide
<1> QED BY <1>1 DEF Decides, Account!Next

\* A working order ends with what it had left.
Ends(o) ==
  /\ o \in DOMAIN run.submits /\ run' = run /\ cash' = cash /\ HeldOf' = HeldOf /\ LeftOf' = LeftOf
  /\ StatusOf[o] \in ActiveStatuses
  /\ \E end \in {"Cancelled", "Expired"} : StatusOf' = [StatusOf EXCEPT ![o] = end]

\* Then the account gives it up.
LEMMA EndsOrder == ASSUME NEW o, Ends(o) PROVE Account!Next
<1>1. Account!GiveUp(o)
  BY DEF Ends, StatusOf, LeftOf, HeldOf, Held, LotsIn, ActiveStatuses,
         Account!GiveUp, Account!Working
<1> QED BY <1>1 DEF Ends, Account!Next

\* A fill settles so many shares of an order at a price.
Settles(o, qty, price) ==
  LET c == run.submits[o]
  IN  /\ o \in DOMAIN run.submits /\ run' = run
      /\ StatusOf[o] \in ActiveStatuses
      /\ qty \in 1 .. LeftOf[o] /\ price \in Prices
      /\ LeftOf' = [LeftOf EXCEPT ![o] = @ - qty]
      /\ StatusOf' = [StatusOf EXCEPT ![o] = IF LeftOf'[o] = 0 THEN "Filled" ELSE "PartiallyFilled"]
      /\ IF c.side = "BUY"
         THEN /\ price <= c.limit
              /\ HeldOf' = [HeldOf EXCEPT ![c.symbol] = @ + qty]
              /\ cash' <= cash - price * qty
         ELSE /\ price >= c.limit
              /\ HeldOf' = [HeldOf EXCEPT ![c.symbol] = @ - qty]
              /\ cash' <= cash + price * qty
      /\ cash' >= 0 /\ HeldOf'[c.symbol] >= 0

\* Then the account fills it.
LEMMA SettlesOrder ==
  ASSUME NEW o, NEW qty, NEW price, Settles(o, qty, price)
  PROVE  Account!Next
<1>1. Account!Fill(o, qty, price)
  BY DEF Settles, StatusOf, LeftOf, HeldOf, Held, LotsIn, ActiveStatuses,
         Account!Fill, Account!Settle, Account!Working
<1>2. o \in DOMAIN run.submits /\ qty \in 1 .. LeftOf[o] /\ price \in Prices
  BY DEF Settles
<1> QED BY <1>1, <1>2 DEF LeftOf, Account!Next

\* _submit is seen as a decision.
LEMMA SubmitIsSeen ==
  ASSUME BrokerIInv, agenda # <<>>, run' = run, NEW e, e = Head(agenda),
         e.phase = SUBMIT, HandleSubmit(e)
  PROVE  Decides(e.id)
<1> DEFINE o == e.id
           c == run.submits[o]
           size == FactsAt(c.symbol, c.submitted_at).lot_size
           date == DateOf(c.submitted_at)
<1>1. o \in DOMAIN run.submits /\ ~Submitted(o)
  BY HeadMeans DEF BrokerIInv
<1>2. /\ c.order_id = o /\ o \in OrderIds /\ c.symbol \in Symbols /\ c.limit \in Prices
      /\ c.qty \in Quantities /\ c.side \in Sides /\ date \in TradingDates
  BY <1>1, SubmitType DEF BrokerIInv
<1>3. size \in LotSizes /\ date \in Dates
  BY <1>2, FactsType DEF FactsAt
<1>4. /\ IF c.side = "BUY"
         THEN ReserveBuy(c.order_id, c.symbol, c.limit, c.qty, size)
         ELSE ReserveSell(c.order_id, c.symbol, c.limit, c.qty, size, date)
      /\ orders' = Put(orders, o, [status |-> StatusOnSubmit(o), filled_qty |-> 0,
                                   remaining_qty |-> c.qty])
  BY <1>2 DEF HandleSubmit
<1>5. HistoryIInv /\ OrdersFit
  BY DEF BrokerIInv
<1>6. cash' = cash
  BY <1>4 DEF ReserveBuy, ReserveSell, Reject, Reserve, Commit
<1> HIDE DEF c, size, date
<1>7. /\ DOMAIN lots' = DOMAIN lots
      /\ \A l \in DOMAIN lots : lots'[l].symbol = lots[l].symbol /\ lots'[l].qty = lots[l].qty
  BY <1>2, <1>3, <1>4, <1>5, SubmitReserves
<1>8. HeldOf' = HeldOf
  BY <1>7, LentIsHeld
<1>9. o \notin DOMAIN orders
  BY <1>1, <1>5 DEF OrdersFit
<1>10. PICK answer \in {"Accepted", "Rejected"} : answer = StatusOnSubmit(o)
  BY DEF StatusOnSubmit
<1>11. /\ DOMAIN orders' = DOMAIN orders \cup {o}
       /\ \A x \in DOMAIN orders : orders'[x] = orders[x] /\ x # o
       /\ orders'[o].status = answer /\ orders'[o].remaining_qty = c.qty
  BY <1>4, <1>9, <1>10 DEF Put
<1> HIDE DEF o
<1>12. LeftOf' = LeftOf
  BY <1>1, <1>9, <1>11 DEF LeftOf, c
<1>13. StatusOf[o] = "New" /\ StatusOf' = [StatusOf EXCEPT ![o] = answer]
  BY <1>1, <1>9, <1>11 DEF StatusOf
<1> QED BY <1>1, <1>6, <1>8, <1>10, <1>12, <1>13 DEF Decides, o

\* _release is seen as the end of a working order, or not at all.
LEMMA ReleaseIsSeen ==
  ASSUME BrokerIInv, agenda # <<>>, run' = run, NEW e, e = Head(agenda),
         e.phase \in {EXPIRY, CANCEL}, HandleRelease(e)
  PROVE  Unseen \/ Ends(e.id)
<1> DEFINE o == e.id
<1>1. o \in DOMAIN run.submits
  BY HeadMeans, Phases DEF BrokerIInv
<1>2. OrdersFit /\ LedgerIInv
  BY DEF BrokerIInv, HistoryIInv
<1>3. CASE ~Active(o)
  BY <1>3, QuietIsUnseen DEF HandleRelease, MayEnd, AfterRelease, ledgerVars
<1>4. CASE Active(o)
  <2>1. Release(o, run.submits[o].side)
    BY <1>4 DEF HandleRelease, MayEnd, GiveBack
  <2>2. orders' = [orders EXCEPT ![o].status = FinalStatus(e)]
    BY <1>4 DEF HandleRelease, MayEnd, AfterRelease
  <2>3. /\ cash' = cash
        /\ lots' = [l \in DOMAIN lots |-> [lots[l] EXCEPT !.reserved_qty = @ - reservations[o].alloc[l]]]
    BY <2>1 DEF Release, Commit
  <2>4. HeldOf' = HeldOf
    BY <1>2, <2>3, LotsLend, LentIsHeld
  <2>5. /\ o \in DOMAIN orders /\ orders \in [DOMAIN orders -> OrderState]
        /\ orders[o].status \in ActiveStatuses
    BY <1>2, <1>4 DEF Active, OrdersFit
  <2>6. PICK end \in {"Cancelled", "Expired"} : end = FinalStatus(e)
    BY DEF FinalStatus
  <2>7. /\ DOMAIN orders' = DOMAIN orders /\ orders'[o].status = end
        /\ \A x \in DOMAIN orders : x # o => orders'[x] = orders[x]
        /\ \A x \in DOMAIN orders : orders'[x].remaining_qty = orders[x].remaining_qty
    BY <2>2, <2>5, <2>6 DEF OrderState
  <2> HIDE DEF o
  <2>8. LeftOf' = LeftOf
    BY <2>7 DEF LeftOf
  <2>9. StatusOf[o] \in ActiveStatuses /\ StatusOf' = [StatusOf EXCEPT ![o] = end]
    BY <1>1, <2>5, <2>7 DEF StatusOf
  <2> QED BY <1>1, <2>3, <2>4, <2>6, <2>8, <2>9 DEF Ends, o
<1> QED BY <1>3, <1>4

\* A fill is seen as one.
LEMMA FillIsSeen ==
  ASSUME BrokerIInv, NEW e, NEW p, NEW o, NEW b, Fills(e, p, o, b)
  PROVE  Settles(o, p.qty, p.price)
<1> DEFINE c == run.submits[o]
<1>1. HistoryIInv /\ LedgerIInv /\ HistoryIInv' /\ ApplyFill(p) /\ run' = run
  BY FillKeeps DEF Fills, BrokerIInv, HistoryIInv, Handling
<1>2. /\ o \in DOMAIN reservations /\ o \in DOMAIN orders /\ o \in DOMAIN run.submits
      /\ p \in FillProposal /\ p.qty \in Nat \ {0} /\ LeftBy(p, o) \in Nat
      /\ reservations[o].remaining_qty \in Nat
      /\ orders[o].remaining_qty = reservations[o].remaining_qty
  BY FillLeaves
<1>3. p.order_id = o /\ p.symbol = c.symbol /\ p.side = c.side
  <2>1. Shaped(p, o, b)
    BY FillShape DEF Fills
  <2> QED BY <2>1 DEF Shaped
<1>4. Active(o)
  BY <1>2, WorkingOrder
<1>5. p.price \in Prices /\ p.symbol \in Symbols /\ p.fee_delta \in Nat /\ p.price * p.qty \in Nat
  BY <1>1, <1>2, FillFacts DEF FillProposal
<1>6. IF c.side = "BUY" THEN p.price <= c.limit ELSE p.price >= c.limit
  <2>1. AdmissibleFill(p) /\ reservations[o].limit = c.limit
    BY <1>1, <1>2 DEF ApplyFill, FillAccepted, BrokerIInv, ReservationsFit
  <2> QED BY <1>3, <2>1 DEF AdmissibleFill, Crosses
<1>7. /\ StatusOf[o] \in ActiveStatuses /\ LeftOf[o] = reservations[o].remaining_qty
      /\ o \in DOMAIN StatusOf /\ o \in DOMAIN LeftOf
  BY <1>2, <1>4 DEF StatusOf, LeftOf, Active
<1>8. p.qty \in 1 .. LeftOf[o]
  <2>1. PICK n \in Nat : n = reservations[o].remaining_qty
    BY <1>2
  <2>2. PICK q \in Nat \ {0} : q = p.qty
    BY <1>2
  <2>3. n - q \in Nat
    BY <1>2, <2>1, <2>2 DEF LeftBy
  <2>4. q \in 1 .. n
    BY <2>3
  <2> QED BY <1>7, <2>1, <2>2, <2>4
<1>9. /\ DOMAIN orders' = DOMAIN orders
      /\ \A x \in DOMAIN orders : x # o => orders'[x] = orders[x]
      /\ orders'[o].status = (IF LeftBy(p, o) = 0 THEN "Filled" ELSE "PartiallyFilled")
      /\ orders'[o].remaining_qty = LeftBy(p, o)
  BY FillMovesOrder
<1>10. LeftOf' = [LeftOf EXCEPT ![o] = @ - p.qty] /\ LeftOf'[o] = LeftBy(p, o)
  <2>1. LeftOf[o] - p.qty = LeftBy(p, o)
    BY <1>7 DEF LeftBy
  <2> QED BY <1>1, <1>2, <1>9, <2>1 DEF LeftOf
<1>11. StatusOf' = [StatusOf EXCEPT ![o] = IF LeftOf'[o] = 0 THEN "Filled" ELSE "PartiallyFilled"]
  BY <1>1, <1>2, <1>9, <1>10 DEF StatusOf
<1>12. \A s \in Symbols :
         Held(lots', s) = IF p.symbol # s THEN Held(lots, s)
                          ELSE IF p.side = "BUY" THEN Held(lots, s) + p.qty
                          ELSE Held(lots, s) - p.qty
  BY <1>1, <1>2, FillMovesShares
<1>13. HeldOf' = [HeldOf EXCEPT ![c.symbol] = IF c.side = "BUY" THEN @ + p.qty ELSE @ - p.qty]
  BY <1>3, <1>5, <1>12 DEF HeldOf
<1>14. cash' <= (IF c.side = "BUY" THEN cash - p.price * p.qty ELSE cash + p.price * p.qty)
  <2>1. cash' = CashAfter(p) /\ cash \in Int
    <3>1. PICK entry : entry = FillRecord(p, ledger_version)
      OBVIOUS
    <3>2. cash' = CashAfter(p)
      BY <1>1, <1>2, <3>1, FillPublishes
    <3>3. cash \in Nat
      BY <1>1, InvariantTypes
    <3> QED BY <3>2, <3>3
  <2>2. PICK v \in Nat : v = p.price * p.qty
    BY <1>5
  <2>3. PICK fee \in Nat : fee = p.fee_delta
    BY <1>5
  <2>4. cash' = IF c.side = "BUY" THEN cash - (v + fee) ELSE cash + v - fee
    BY <1>3, <2>1, <2>2, <2>3 DEF CashAfter
  <2>5. cash' <= IF c.side = "BUY" THEN cash - v ELSE cash + v
    BY <2>1, <2>3, <2>4
  <2> QED BY <2>2, <2>5
<1>15. cash' >= 0
  BY <1>1 DEF ApplyFill, FillAccepted, FillIsPayable, Commit
<1>16. HeldOf'[c.symbol] >= 0
  <2>1. IsHolding(lots')
    BY <1>1 DEF HistoryIInv, LedgerIInv, LedgerTypeOK, IsHolding
  <2>2. PICK ms : ms = lots'
    OBVIOUS
  <2>3. Held(ms, c.symbol) \in Nat
    BY <2>1, <2>2, HeldType
  <2>4. HeldOf'[c.symbol] = Held(ms, c.symbol)
    BY <1>3, <1>5, <2>2 DEF HeldOf
  <2> QED BY <2>3, <2>4
<1> HIDE DEF c
<1>17. CASE c.side = "BUY"
  <2>1. /\ p.price <= c.limit /\ HeldOf' = [HeldOf EXCEPT ![c.symbol] = @ + p.qty]
        /\ cash' <= cash - p.price * p.qty
    BY <1>6, <1>13, <1>14, <1>17 DEF c
  <2> QED BY <1>1, <1>2, <1>5, <1>7, <1>8, <1>10, <1>11, <1>15, <1>16, <1>17, <2>1 DEF Settles, c
<1>18. CASE c.side # "BUY"
  <2>1. /\ p.price >= c.limit /\ HeldOf' = [HeldOf EXCEPT ![c.symbol] = @ - p.qty]
        /\ cash' <= cash + p.price * p.qty
    BY <1>6, <1>13, <1>14, <1>18 DEF c
  <2> QED BY <1>1, <1>2, <1>5, <1>7, <1>8, <1>10, <1>11, <1>15, <1>16, <1>18, <2>1 DEF Settles, c
<1> QED BY <1>17, <1>18

\* Every step of the replay is a step of the account, or is not seen.
LEMMA StepIsSeen ==
  ASSUME BrokerIInv, [Next]_vars
  PROVE  Unseen \/ (\E o : Decides(o) \/ Ends(o)) \/ \E o, qty, price : Settles(o, qty, price)
<1>1. CASE UNCHANGED vars
  BY <1>1, QuietIsUnseen DEF vars, ledgerVars, brokerVars
<1>2. CASE Next
  <2>1. PICK e : e = Head(agenda)
    OBVIOUS
  <2>2. agenda # <<>> /\ Handle(e) /\ run' = run
    BY <1>2, <2>1 DEF Next
  <2>3. CASE e.phase = SUBMIT /\ HandleSubmit(e)
    BY <2>1, <2>2, <2>3, SubmitIsSeen
  <2>4. CASE e.phase \in {EXPIRY, CANCEL} /\ HandleRelease(e)
    BY <2>1, <2>2, <2>4, ReleaseIsSeen
  <2>5. CASE e.phase = BUCKET /\ HandleBucket(e)
    BY <2>2, <2>5, QuietIsUnseen DEF HandleBucket, RegisterBucket, Commit
  <2>6. CASE e.phase = MATCH /\ HandleMatch(e)
    <3>1. Passes(e) \/ Fails \/ \E p : Fills(e, p, e.id, e.bucket)
      BY <2>1, <2>2, <2>6, MatchMeans
    <3>2. CASE Passes(e) \/ Fails
      BY <2>2, <3>2, QuietIsUnseen DEF Passes, Fails, ledgerVars
    <3>3. CASE \E p : Fills(e, p, e.id, e.bucket)
      BY <3>3, FillIsSeen
    <3> QED BY <3>1, <3>2, <3>3
  <2>7. CASE e.phase = MARK /\ HandleMark(e)
    BY <2>2, <2>7, QuietIsUnseen DEF HandleMark, Abort, ledgerVars
  <2> QED BY <2>2, <2>3, <2>4, <2>5, <2>6, <2>7 DEF Handle
<1> QED BY <1>1, <1>2

\* The account starts as the owner knows it.
LEMMA AccountStarts == Init => Account!Init
<1> SUFFICES ASSUME Init PROVE Account!Init
  OBVIOUS
<1>1. orders = Empty /\ lots \in InitialLots /\ cash \in Nat
  BY LedgerAssumption DEF Init, LedgerInit
<1>2. \A s \in Symbols : Held(lots, s) \in Nat
  BY <1>1, StartsAreHoldings, HeldType
<1>3. HeldOf \in [Symbols -> Nat]
  BY <1>2 DEF HeldOf
<1>4. /\ StatusOf = [o \in DOMAIN run.submits |-> "New"]
      /\ LeftOf = [o \in DOMAIN run.submits |-> run.submits[o].qty]
  BY <1>1 DEF StatusOf, LeftOf, Empty
<1> QED BY <1>1, <1>3, <1>4 DEF StatusOf, LeftOf, HeldOf, Held, LotsIn, Account!Init

\* The replay implements LimitOrders (SettlesLimitOrders): each order is decided once,
\* each fill settles cash against shares within the limit, nothing is overdrawn.
THEOREM SettlesTheOrders == Spec => SettlesLimitOrders
<1>1. BrokerIInv /\ [Next]_vars => [Account!Next]_(Account!view)
  BY StepIsSeen, UnseenIsStutter, DecidesOrder, EndsOrder, SettlesOrder
<1> QED BY <1>1, AccountStarts, BrokerInvariant, PTL DEF Spec, Account!Spec, SettlesLimitOrders

===============================================================================
