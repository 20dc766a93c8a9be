---------------------------- MODULE ReplayProofs ----------------------------
(***************************************************************************)
(* The joint-return replay, for every set of books, calendar and bars.     *)
(*                                                                         *)
(* Four inductive invariants, each over the one before: the types with the *)
(* owners of lots (OwnersFit), the lazy marks (MarksFit), what makes a     *)
(* fill legal (ClocksFit, MinuteFits, SharesFit), and the account of lots  *)
(* and money (AccountFits).                                                *)
(***************************************************************************)
EXTENDS IntentReplay, TotalsProofs

-----------------------------------------------------------------------------
(* Times.                                                                  *)

\* A price times a quantity is an amount.
LEMMA ProductType ==
  ASSUME NEW a \in Nat, NEW b \in Nat
  PROVE  a * b \in Nat
OBVIOUS

\* A positive factor never makes an amount smaller.
LEMMA ProductGrows ==
  ASSUME NEW a \in Nat, NEW b \in Nat, NEW c \in Nat, a <= b
  PROVE  a * c <= b * c
OBVIOUS

\* Division with remainder.
LEMMA DivMod ==
  ASSUME NEW x \in Nat, NEW d \in Nat \ {0}
  PROVE  /\ x \div d \in Nat /\ x % d \in 0 .. (d - 1)
         /\ x = d * (x \div d) + (x % d)
BY SMT

\* The day and the minute of a time.
LEMMA DayAndMinute ==
  ASSUME NEW d \in Nat, NEW m \in Nat, NEW length \in Nat, m < length
  PROVE  (d * length + m) \div length = d
<1> DEFINE x == d * length + m
<1>1. x \in Nat /\ length \in Nat \ {0}
  BY ProductType
<1>2. PICK q \in Nat, r \in 0 .. (length - 1) : x \div length = q /\ x = length * q + r
  <2> HIDE DEF x
  <2> QED BY <1>1, DivMod
<1>3. length * q + r = length * d + m
  BY <1>2
<1>4. q = d
  <2>1. CASE q < d
    <3>1. PICK e \in Nat : d = q + 1 + e
      BY <2>1
    <3>2. length * d = length * q + length + length * e
      BY <3>1
    <3>3. length * e \in Nat
      BY ProductType
    <3> QED BY <1>2, <1>3, <3>2, <3>3, ProductType
  <2>2. CASE d < q
    <3>1. PICK e \in Nat : q = d + 1 + e
      BY <2>2
    <3>2. length * q = length * d + length + length * e
      BY <3>1
    <3>3. length * e \in Nat
      BY ProductType
    <3> QED BY <1>2, <1>3, <3>2, <3>3, ProductType
  <2> QED BY <2>1, <2>2
<1> QED BY <1>2, <1>4

\* A set of positive numbers has a smallest one, and Min is it.
LEMMA MinIs ==
  ASSUME NEW T, T \subseteq Nat \ {0}, T # {}
  PROVE  Min(T) \in T /\ \A u \in T : Min(T) <= u
<1>1. PICK n \in T : TRUE
  OBVIOUS
<1>2. n \in Nat /\ n \in 1 .. n
  OBVIOUS
<1> DEFINE S == T \cap (1 .. n)
<1>3. S \subseteq 1 .. n /\ n \in S /\ S # {}
  BY <1>1, <1>2
<1>4. PICK s \in S : \A u \in S : s <= u
  <2> HIDE DEF S
  <2> QED BY <1>2, <1>3, SmallestExists
<1>5. \A u \in T : u \in S \/ n < u
  BY <1>2
<1>6. s \in T /\ \A u \in T : s <= u
  <2>1. s \in T /\ s \in Nat /\ s <= n
    BY <1>3, <1>4
  <2>2. \A u \in T : u \in Nat
    OBVIOUS
  <2> HIDE DEF S
  <2> QED BY <1>2, <1>4, <1>5, <2>1, <2>2
<1>7. Min(T) \in T /\ \A u \in T : Min(T) =< u
  BY <1>6, Zenon DEF Min
<1> QED BY <1>7

\* A bounded set of numbers has a largest one, and Max is it.
LEMMA MaxIs ==
  ASSUME NEW n \in Nat, NEW T, T \subseteq 0 .. n, T # {}
  PROVE  Max(T) \in T /\ \A u \in T : u <= Max(T)
<1>0. IsFiniteSet(0 .. n) /\ T \subseteq Nat
  BY FS_Interval
<1>1. IsFiniteSet(T)
  BY <1>0, FS_Subset
<1>2. PICK t \in T : \A u \in T : u <= t
  BY <1>0, <1>1, LargestExists, Zenon
<1>3. \A u \in T : t >= u
  BY <1>2
<1>4. Max(T) \in T /\ \A u \in T : Max(T) >= u
  BY <1>2, <1>3, Zenon DEF Max
<1>5. \A u \in T : u \in Nat
  OBVIOUS
<1> QED BY <1>4, <1>5

\* The number that is not exceeded is the largest one.
LEMMA MaxEqual ==
  ASSUME NEW n \in Nat, NEW T, T \subseteq 0 .. n, n \in T
  PROVE  Max(T) = n
<1>1. PICK m : m = Max(T)
  OBVIOUS
<1>2. m \in T /\ n <= m
  BY <1>1, MaxIs
<1>3. m = n
  BY <1>2
<1> QED BY <1>1, <1>3

\* What the input is made of.
LEMMA InputTypes ==
  /\ LastDay \in Nat \ {0} /\ DayLength \in Nat \ {0}
  /\ \A d \in Days : d \in Nat \ {0} /\ d <= LastDay /\ Minutes[d] \in Nat \ {0}
                     /\ Minutes[d] + 1 < DayLength
  /\ BoardLot \in Nat \ {0} /\ Unit \in Nat /\ MinFee \in Nat /\ InitialCash \in Nat
  /\ Rate \in [Sides -> Nat]
<1>1. LastDay \in Nat \ {0} /\ LastDay \in Days
  BY InputAssumption DEF ValidInput, Days
<1>2. Minutes[LastDay] \in Nat \ {0} /\ Minutes[LastDay] + 1 < DayLength /\ DayLength \in Nat
  BY <1>1, InputAssumption DEF ValidInput
<1> QED BY <1>1, <1>2, InputAssumption DEF ValidInput, Days

\* The end of a session is a time of its day.
LEMMA EndFacts ==
  ASSUME NEW d \in Days
  PROVE  SessionEnd(d) \in Nat \ {0} /\ DayOf(SessionEnd(d)) = d
<1>1. d \in Nat \ {0} /\ DayLength \in Nat /\ Minutes[d] + 1 \in Nat \ {0} /\ Minutes[d] + 1 < DayLength
  BY InputTypes
<1>2. PICK m \in Nat \ {0} : m = Minutes[d] + 1
  BY <1>1
<1>3. SessionEnd(d) = d * DayLength + m
  BY <1>1, <1>2, InputTypes DEF SessionEnd
<1>4. d * DayLength \in Nat
  BY <1>1, ProductType
<1>5. (d * DayLength + m) \div DayLength = d
  BY <1>1, <1>2, DayAndMinute
<1>6. d * DayLength + m \in Nat \ {0}
  BY <1>2, <1>4
<1> QED BY <1>3, <1>5, <1>6 DEF DayOf

\* Later sessions end later.
LEMMA EndsGrow ==
  ASSUME NEW d \in Days, NEW e \in Days, d < e
  PROVE  SessionEnd(d) < SessionEnd(e)
<1>1. d \in Nat /\ e \in Nat /\ DayLength \in Nat
  BY InputTypes
<1>2. PICK m \in Nat, n \in Nat : m = Minutes[d] + 1 /\ n = Minutes[e] + 1 /\ m < DayLength /\ 0 < n
  BY InputTypes
<1>3. SessionEnd(d) = d * DayLength + m /\ SessionEnd(e) = e * DayLength + n
  BY <1>1, <1>2, InputTypes DEF SessionEnd
<1>4. PICK k \in Nat : e = d + 1 + k
  BY <1>1
<1>5. PICK x \in Nat, y \in Nat : x = d * DayLength /\ y = k * DayLength
  BY <1>1, ProductType
<1>6. e * DayLength = x + DayLength + y
  BY <1>1, <1>4, <1>5
<1> QED BY <1>1, <1>2, <1>3, <1>5, <1>6

\* No session ends after the last one.
LEMMA EndsBeforeLast ==
  ASSUME NEW d \in Days
  PROVE  SessionEnd(d) <= Last /\ Last \in Nat
<1>1. LastDay \in Days /\ d \in Nat /\ d <= LastDay /\ LastDay \in Nat
  BY InputTypes DEF Days
<1>2. SessionEnd(d) \in Nat /\ Last \in Nat
  BY <1>1, EndFacts DEF Last
<1>3. CASE d = LastDay
  BY <1>2, <1>3 DEF Last
<1>4. CASE d < LastDay
  BY <1>1, <1>2, <1>4, EndsGrow DEF Last
<1> QED BY <1>1, <1>3, <1>4

\* An opportunity is a minute of a session, which ends after it.
LEMMA OpportunityFacts ==
  ASSUME NEW t \in Opportunities
  PROVE  /\ t \in Nat \ {0} /\ DayOf(t) \in Days
         /\ t + 1 <= SessionEnd(DayOf(t)) /\ t + 1 <= Last /\ t <= Last
<1>0. PICK d \in Days : t \in {d * DayLength + k : k \in 1 .. Minutes[d]}
  BY DEF Opportunities
<1>1. PICK m \in 1 .. Minutes[d] : t = d * DayLength + m
  BY <1>0
<1>2. d \in Nat \ {0} /\ DayLength \in Nat /\ Minutes[d] \in Nat /\ Minutes[d] + 1 < DayLength
  BY InputTypes
<1>3. m \in Nat \ {0} /\ m <= Minutes[d] /\ m < DayLength
  BY <1>2
<1>4. PICK x \in Nat : x = d * DayLength
  BY <1>2, ProductType
<1>5. t \in Nat \ {0}
  BY <1>1, <1>3, <1>4
<1>6. DayOf(t) = d
  BY <1>1, <1>2, <1>3, DayAndMinute DEF DayOf
<1>7. SessionEnd(d) = x + Minutes[d] + 1
  BY <1>4 DEF SessionEnd
<1>8. t + 1 <= SessionEnd(d)
  BY <1>1, <1>2, <1>3, <1>4, <1>7
<1>9. SessionEnd(d) \in Nat /\ Last \in Nat /\ SessionEnd(d) <= Last
  BY EndsBeforeLast, EndFacts
<1>10. t + 1 <= Last /\ t <= Last
  BY <1>5, <1>8, <1>9
<1> QED BY <1>5, <1>6, <1>8, <1>10

\* A unit change comes before its session ends.
LEMMA ChangeFacts ==
  ASSUME NEW i \in DOMAIN Factor
  PROVE  /\ i \in Instruments /\ Factor[i].num \in Nat \ {0} /\ Factor[i].den \in Nat \ {0}
         /\ Factor[i].at \in Nat /\ Factor[i].at <= Last
<1>1. ValidFactor(i)
  BY InputAssumption DEF ValidInput
<1>2. PICK t \in Nat : t = Factor[i].at
  BY <1>1 DEF ValidFactor
<1>3. PICK d \in Days : d = t \div DayLength
  BY <1>1, <1>2 DEF ValidFactor, DayOf
<1>4. d \in Nat /\ DayLength \in Nat \ {0} /\ Minutes[d] \in Nat /\ t % DayLength <= 1
  BY <1>1, <1>2, InputTypes DEF ValidFactor
<1>5. PICK r \in Nat : t = DayLength * d + r /\ r <= 1
  <2>1. t = DayLength * (t \div DayLength) + (t % DayLength) /\ t % DayLength \in 0 .. (DayLength - 1)
    BY <1>4, DivMod
  <2> QED BY <1>3, <1>4, <2>1
<1>6. PICK x \in Nat : x = d * DayLength
  BY <1>4, ProductType
<1>7. DayLength * d = x
  BY <1>4, <1>6
<1>8. SessionEnd(d) = x + Minutes[d] + 1
  BY <1>6 DEF SessionEnd
<1>9. t <= SessionEnd(d)
  BY <1>4, <1>5, <1>7, <1>8
<1> QED BY <1>1, <1>2, <1>9, EndsBeforeLast, EndFacts DEF ValidFactor

-----------------------------------------------------------------------------
(* The invariant.                                                          *)

Statuses == {"WAITING", "ACTIVE", "PARTIAL"} \cup Terminal

Order ==
  [status : Statuses, quantity : Nat, filled : Nat, remaining : Nat, notional : Nat, fee : Nat,
   scaled : BOOLEAN, frozen : Nat, deadline : Nat, beyond : BOOLEAN]

Position == [inst : Instruments, quantity : Nat, bought : [0 .. LastDay -> Nat]]

Site == [at : Nat, column : {"open", "close"}]

\* Where the replay is in the timeline and in the minute.
ClockTypeOK ==
  /\ book \in Books /\ mode \in Modes
  /\ now \in Nat /\ phase \in {"wait", "open", "attempt", "done"}
  /\ phase \in {"open", "attempt"} => now \in Opportunities
  /\ phase = "attempt" => todo # {} /\ now \in DOMAIN tape

AccountTypeOK ==
  /\ orders \in [DOMAIN book.intents -> Order] /\ todo \subseteq DOMAIN orders
  /\ \A n \in DOMAIN orders : orders[n].scaled => Inst(n) \in DOMAIN Factor
  /\ lots \in [DOMAIN lots -> Position]
  /\ cash \in Nat

MarketTypeOK ==
  /\ DOMAIN tape \subseteq Opportunities
  /\ \A t \in DOMAIN tape : tape[t] \in [Instruments -> Bar]
  /\ sites \in Seq(Site)
  /\ room \in [Instruments -> Nat] /\ traded \in [Instruments -> Nat]

MarkTypeOK ==
  /\ checked \in [Instruments -> Nat] /\ live \subseteq Instruments
  /\ DOMAIN marks \subseteq Instruments /\ DOMAIN full \subseteq Instruments

ReplayTypeOK == ClockTypeOK /\ AccountTypeOK /\ MarketTypeOK /\ MarkTypeOK

\* Two tables of marks say the same of an instrument.
Agree(m, f, i) ==
  /\ i \in DOMAIN m <=> i \in DOMAIN f
  /\ i \in DOMAIN m => m[i] = f[i]

-----------------------------------------------------------------------------
(* Types.                                                                  *)

\* The fields of an intent and of its order.
LEMMA IntentTypes ==
  ASSUME ClockTypeOK, AccountTypeOK, NEW n \in DOMAIN orders
  PROVE  /\ n \in DOMAIN book.intents /\ n \in Nat
         /\ ValidIntent(Intent(n)) /\ Side(n) \in Sides /\ Inst(n) \in Instruments
         /\ Intent(n).quantity \in Nat \ {0} /\ Intent(n).ref \in Nat \ {0}
         /\ Intent(n).refAt \in Nat /\ Intent(n).available \in Nat
         /\ Intent(n).effective \in Nat /\ Intent(n).expires \in Nat
         /\ Intent(n).refAt <= Intent(n).available
         /\ Intent(n).available <= Intent(n).effective
         /\ Intent(n).effective < Intent(n).expires
         /\ orders[n] \in Order
<1>1. n \in DOMAIN book.intents /\ orders[n] \in Order /\ book \in Books
  BY DEF ClockTypeOK, AccountTypeOK
<1>2. ValidIntent(Intent(n)) /\ n \in Nat
  BY <1>1, InputAssumption DEF ValidInput, Intent
<1> QED BY <1>1, <1>2 DEF ValidIntent, Side, Inst

\* Every point of the timeline is a time up to the end of the last session.
LEMMA TimelineFits ==
  ASSUME ClockTypeOK, AccountTypeOK
  PROVE  Timeline \subseteq Nat /\ \A t \in Timeline : t <= Last
<1> SUFFICES ASSUME NEW t \in Timeline PROVE t \in Nat /\ t <= Last
  OBVIOUS
<1>1. CASE t \in Opportunities
  BY <1>1, OpportunityFacts
<1>2. ASSUME NEW u \in Opportunities, t = u + 1 PROVE t \in Nat /\ t <= Last
  BY <1>2, OpportunityFacts
<1>3. CASE t \in Ends
  BY <1>3, EndsBeforeLast, EndFacts DEF Ends
<1>4. ASSUME NEW i \in DOMAIN Factor, t = Factor[i].at PROVE t \in Nat /\ t <= Last
  BY <1>4, ChangeFacts
<1>5. ASSUME NEW n \in DOMAIN orders, t \in {Intent(n).available, Intent(n).expires}, t <= Last
      PROVE  t \in Nat /\ t <= Last
  BY <1>5, IntentTypes
<1> QED BY <1>1, <1>2, <1>3, <1>4, <1>5 DEF Timeline

\* The point that is next: nothing of the timeline is skipped.
LEMMA NextPoint ==
  ASSUME ClockTypeOK, AccountTypeOK, Later # {}
  PROVE  /\ Min(Later) \in Timeline /\ Min(Later) \in Nat /\ now < Min(Later) /\ Min(Later) <= Last
         /\ \A u \in Timeline : u > now => Min(Later) <= u
<1>1. now \in Nat /\ Timeline \subseteq Nat /\ \A t \in Timeline : t <= Last
  BY TimelineFits DEF ClockTypeOK
<1>2. Later \subseteq Nat \ {0}
  <2> SUFFICES ASSUME NEW t \in Later PROVE t \in Nat \ {0}
    OBVIOUS
  <2>1. t \in Timeline /\ t > now
    BY DEF Later
  <2>2. t \in Nat
    BY <1>1, <2>1
  <2> QED BY <1>1, <2>1, <2>2
<1>3. Min(Later) \in Later /\ \A u \in Later : Min(Later) <= u
  BY <1>2, MinIs
<1>4. \A u \in Timeline : u > now => u \in Later
  BY DEF Later
<1>5. Later \subseteq Timeline /\ \A u \in Later : u > now
  BY DEF Later
<1> QED BY <1>1, <1>2, <1>3, <1>4, <1>5

\* Converting a quantity gives a quantity.
LEMMA ScaledType ==
  ASSUME NEW q \in Nat, NEW i \in DOMAIN Factor
  PROVE  Scaled(q, i) \in Nat
<1>1. PICK a \in Nat, b \in Nat \ {0} : a = Factor[i].num /\ b = Factor[i].den
  BY ChangeFacts
<1>2. q * a \in Nat
  BY ProductType
<1> QED BY <1>1, <1>2, DivMod DEF Scaled

\* A unit change, an expiry and an arrival leave orders as orders.
LEMMA ConvertedOrdersType ==
  ASSUME ClockTypeOK, AccountTypeOK, NEW due, due \subseteq DOMAIN Factor, NEW t
  PROVE  ConvertOrders(due, t) \in [DOMAIN book.intents -> Order]
<1> SUFFICES ASSUME NEW n \in DOMAIN orders PROVE ConvertOrders(due, t)[n] \in Order
  BY DEF ConvertOrders, AccountTypeOK
<1>1. PICK o \in Order : o = orders[n]
  BY DEF AccountTypeOK
<1>2. CASE Inst(n) \notin due \/ Intent(n).refAt >= t
  BY <1>1, <1>2 DEF ConvertOrders
<1>3. CASE ~(Inst(n) \notin due \/ Intent(n).refAt >= t)
  <2>1. PICK a, b, c : a = Scaled(o.quantity, Inst(n)) /\ b = Scaled(o.filled, Inst(n))
                       /\ c = Scaled(o.remaining, Inst(n))
    OBVIOUS
  <2>2. a \in Nat /\ b \in Nat /\ c \in Nat
    BY <1>3, <2>1, ScaledType DEF Order
  <2>3. ConvertOrders(due, t)[n]
          = [o EXCEPT !.quantity = a, !.filled = b, !.remaining = c, !.scaled = TRUE]
    BY <1>1, <1>3, <2>1 DEF ConvertOrders
  <2> QED BY <2>2, <2>3 DEF Order
<1> QED BY <1>2, <1>3

\* Expiring the orders whose deadline has passed leaves orders.
LEMMA ExpiredOrdersType ==
  ASSUME ClockTypeOK, AccountTypeOK, NEW os \in [DOMAIN book.intents -> Order], NEW t
  PROVE  Expire(os, t) \in [DOMAIN book.intents -> Order]
<1> SUFFICES ASSUME NEW n \in DOMAIN os PROVE Expire(os, t)[n] \in Order
  BY DEF Expire
<1>1. PICK o \in Order : o = os[n]
  OBVIOUS
<1>2. PICK d : d = DayOf(o.deadline)
  OBVIOUS
<1>3. CASE o.status \in Terminal \/ o.beyond \/ t < o.deadline
  BY <1>1, <1>3 DEF Expire
<1>4. CASE ~(o.status \in Terminal \/ o.beyond \/ t < o.deadline) /\ (~Intent(n).exit \/ HasBar(d, Inst(n)))
  <2>1. Expire(os, t)[n] = [o EXCEPT !.status = "EXPIRED"]
    BY <1>1, <1>2, <1>4 DEF Expire
  <2> QED BY <2>1 DEF Order, Statuses, Terminal
<1>5. CASE ~(o.status \in Terminal \/ o.beyond \/ t < o.deadline) /\ ~(~Intent(n).exit \/ HasBar(d, Inst(n)))
  <2>1. PICK s, x : /\ s = IF o.filled > 0 THEN "PARTIAL" ELSE "WAITING"
                    /\ x = IF d < LastDay THEN SessionEnd(d + 1) ELSE o.deadline
    OBVIOUS
  <2>2. Expire(os, t)[n] = [o EXCEPT !.status = s, !.deadline = x, !.beyond = (d = LastDay)]
    BY <1>1, <1>2, <1>5, <2>1 DEF Expire
  <2>3. x \in Nat
    <3>1. CASE d < LastDay
      <4>1. d \in Nat
        BY <1>2, DivMod, InputTypes DEF DayOf, Order
      <4> QED BY <2>1, <3>1, <4>1, EndFacts, InputTypes DEF Days
    <3>2. CASE ~(d < LastDay)
      BY <2>1, <3>2 DEF Order
    <3> QED BY <3>1, <3>2
  <2> QED BY <2>1, <2>2, <2>3 DEF Order, Statuses
<1> QED BY <1>3, <1>4, <1>5

\* Activating the orders whose time has come leaves orders.
LEMMA ActivatedOrdersType ==
  ASSUME NEW os \in [DOMAIN book.intents -> Order], NEW t
  PROVE  Activate(os, t) \in [DOMAIN book.intents -> Order]
<1> SUFFICES ASSUME NEW n \in DOMAIN os PROVE Activate(os, t)[n] \in Order
  BY DEF Activate
<1>1. PICK o \in Order : o = os[n]
  OBVIOUS
<1>2. Activate(os, t)[n] = o \/ Activate(os, t)[n] = [o EXCEPT !.status = "CANCELLED"]
  BY <1>1, Zenon DEF Activate
<1> QED BY <1>2 DEF Order, Statuses, Terminal

-----------------------------------------------------------------------------
(* What a fill trades.                                                     *)

\* The minute an attempt is made in.
LEMMA AttemptPlace ==
  ASSUME ReplayTypeOK, phase = "attempt", NEW n \in DOMAIN orders
  PROVE  /\ now \in DOMAIN tape /\ now \in Opportunities /\ Today \in Days
         /\ Today \in Nat \ {0} /\ Today <= LastDay /\ LastDay \in Nat
         /\ BarOf(n) \in Bar /\ BarOf(n).open \in Nat
         /\ room[Inst(n)] \in Nat /\ Inst(n) \in Instruments
<1>1. ClockTypeOK /\ AccountTypeOK /\ MarketTypeOK
  BY DEF ReplayTypeOK
<1>2. now \in DOMAIN tape /\ now \in Opportunities /\ Inst(n) \in Instruments
  BY <1>1, IntentTypes DEF ClockTypeOK
<1>3. Today \in Days
  BY <1>2, OpportunityFacts DEF Today
<1>4. BarOf(n) \in Bar /\ room[Inst(n)] \in Nat
  BY <1>1, <1>2 DEF MarketTypeOK, BarOf
<1> QED BY <1>2, <1>3, <1>4, InputTypes DEF Bar

\* The shares of a lot that were not bought today.
LEMMA SellableType ==
  ASSUME ReplayTypeOK, phase = "attempt", NEW n \in DOMAIN orders, NEW l
  PROVE  Sellable(l) \in Nat
<1>1. CASE l \notin DOMAIN lots
  BY <1>1 DEF Sellable
<1>2. CASE l \in DOMAIN lots
  <2> DEFINE D == 0 .. Today - 1
             f == [d \in D |-> lots[l].bought[d]]
  <2>1. Today \in Nat \ {0} /\ Today <= LastDay /\ LastDay \in Nat
    BY AttemptPlace
  <2>2. lots[l].bought \in [0 .. LastDay -> Nat]
    BY <1>2 DEF ReplayTypeOK, AccountTypeOK, Position
  <2>3. D \subseteq 0 .. LastDay /\ IsFiniteSet(D)
    <3>1. Today - 1 \in Nat
      BY <2>1
    <3> QED BY <2>1, <3>1, FS_Interval
  <2>4. f \in [D -> Nat]
    BY <2>2, <2>3
  <2>5. Sellable(l) = Total(f)
    BY <1>2 DEF Sellable
  <2> HIDE DEF D, f
  <2> QED BY <2>3, <2>4, <2>5, TotalType
<1> QED BY <1>1, <1>2

\* A price is an amount.
LEMMA PriceType ==
  ASSUME ReplayTypeOK, phase = "attempt", NEW n \in DOMAIN orders
  PROVE  Price(n) \in Nat
<1>1. CASE mode = "M-LAG"
  BY <1>1, AttemptPlace DEF Price
<1>2. CASE mode # "M-LAG" /\ ~orders[n].scaled
  BY <1>2, IntentTypes DEF Price, ReplayTypeOK
<1>3. CASE mode # "M-LAG" /\ orders[n].scaled
  <2>1. PICK a \in Nat \ {0}, b \in Nat \ {0} : a = Factor[Inst(n)].num /\ b = Factor[Inst(n)].den
    BY <1>3, ChangeFacts DEF ReplayTypeOK, AccountTypeOK
  <2>2. PICK r \in Nat : r = Intent(n).ref
    BY IntentTypes DEF ReplayTypeOK
  <2>3. Price(n) = (r * b) \div a /\ r * b \in Nat
    BY <1>3, <2>1, <2>2, ProductType DEF Price
  <2> QED BY <2>1, <2>3, DivMod
<1> QED BY <1>1, <1>2, <1>3

\* What the market and the lot let an order trade fits all of them.
LEMMA WantedFits ==
  ASSUME ReplayTypeOK, phase = "attempt", NEW n \in DOMAIN orders
  PROVE  /\ Wanted(n) \in Nat /\ Wanted(n) <= orders[n].remaining
         /\ mode = "M-LAG" => Wanted(n) <= room[Inst(n)]
         /\ Side(n) = "SELL" => Wanted(n) <= Sellable(LotOf(n))
<1>1. PICK left \in Nat, space \in Nat, held \in Nat :
        left = orders[n].remaining /\ space = room[Inst(n)] /\ held = Sellable(LotOf(n))
  BY AttemptPlace, SellableType, IntentTypes DEF ReplayTypeOK, Order
<1>2. PICK offered \in Nat :
        /\ offered = IF mode = "M-REF" THEN left ELSE Smaller(left, space)
        /\ offered <= left /\ (mode = "M-LAG" => offered <= space)
  BY <1>1 DEF Smaller
<1>3. Wanted(n) = IF Side(n) = "SELL" THEN Smaller(offered, held)
                  ELSE BoardLot * (offered \div BoardLot)
  BY <1>1, <1>2 DEF Wanted
<1>4. CASE Side(n) = "SELL"
  BY <1>1, <1>2, <1>3, <1>4 DEF Smaller
<1>5. CASE Side(n) # "SELL"
  <2>1. PICK size \in Nat \ {0} : size = BoardLot
    BY InputTypes
  <2>2. PICK k \in Nat, r \in Nat : k = offered \div size /\ offered = size * k + r
    BY <2>1, DivMod
  <2>3. Wanted(n) = size * k /\ size * k \in Nat
    BY <1>3, <1>5, <2>1, <2>2, ProductType
  <2>4. Wanted(n) \in Nat /\ Wanted(n) <= offered
    BY <2>2, <2>3
  <2> QED BY <1>1, <1>2, <1>5, <2>4
<1> QED BY <1>4, <1>5

\* A fee is an amount.
LEMMA FeeType ==
  ASSUME NEW side \in Sides, NEW x \in Nat
  PROVE  FeeOf(side, x) \in Nat
<1>1. PICK r \in Nat : r = Rate[side]
  BY InputTypes
<1>2. PICK y \in Nat : y = x * r
  BY ProductType
<1> QED BY <1>1, <1>2, InputTypes DEF FeeOf, Larger

\* The fee of a fill is what the fee of the notional rises by.
LEMMA FeeForType ==
  ASSUME ReplayTypeOK, phase = "attempt", NEW n \in DOMAIN orders,
         NEW q \in Nat
  PROVE  /\ q * Price(n) \in Nat /\ orders[n].notional + q * Price(n) \in Nat
         /\ orders[n].notional \in Nat /\ orders[n].fee \in Nat
         /\ FeeOf(Side(n), orders[n].notional + q * Price(n)) \in Nat
         /\ FeeFor(n, q) \in Int
         /\ orders[n].fee + FeeFor(n, q) = FeeOf(Side(n), orders[n].notional + q * Price(n))
         /\ Cost(n, q) \in Int
<1>1. PICK p \in Nat : p = Price(n)
  BY PriceType
<1>2. PICK y \in Nat : y = q * p
  BY ProductType
<1>3. /\ orders[n].notional \in Nat /\ orders[n].fee \in Nat /\ Side(n) \in Sides
  BY IntentTypes DEF ReplayTypeOK, Order
<1>4. PICK x \in Nat : x = orders[n].notional + y
  BY <1>2, <1>3
<1>5. PICK fee \in Nat : fee = FeeOf(Side(n), x)
  BY <1>3, FeeType
<1>6. FeeFor(n, q) = fee - orders[n].fee
  BY <1>1, <1>2, <1>4, <1>5 DEF FeeFor
<1>7. PICK z \in Nat : z = y * Unit
  BY InputTypes, ProductType
<1>8. Cost(n, q) = z + FeeFor(n, q)
  BY <1>1, <1>2, <1>7 DEF Cost
<1> QED BY <1>1, <1>2, <1>3, <1>4, <1>5, <1>6, <1>7, <1>8

\* The board lots the cash pays for.
LEMMA AffordableFits ==
  ASSUME ReplayTypeOK, phase = "attempt", NEW n \in DOMAIN orders
  PROVE  /\ Affordable(n) \in Nat /\ Affordable(n) <= Wanted(n)
         /\ Affordable(n) # 0 => Cost(n, Affordable(n)) <= cash
<1>1. PICK w \in Nat, size \in Nat \ {0} : w = Wanted(n) /\ size = BoardLot
  BY WantedFits, InputTypes
<1>2. PICK m \in Nat, r \in Nat : m = w \div size /\ w = size * m + r
  <2>1. w \in Nat /\ size \in Nat \ {0}
    OBVIOUS
  <2>2. /\ w \div size \in Nat /\ w % size \in 0 .. (size - 1)
        /\ w = size * (w \div size) + (w % size)
    BY <2>1, DivMod
  <2>3. w % size \in Nat
    BY <2>2
  <2> QED BY <2>2, <2>3
<1> DEFINE paid == {k \in 1 .. w \div size : Cost(n, k * size) <= cash}
           T == {0} \cup paid
<1>3. Affordable(n) = Max(T) * size
  BY <1>1 DEF Affordable
<1>4. T \subseteq 0 .. m /\ 0 \in T /\ T # {}
  BY <1>2
<1>5. \A k \in T : k # 0 => Cost(n, k * size) <= cash
  OBVIOUS
<1> HIDE DEF T
<1>6. Max(T) \in T
  BY <1>4, MaxIs
<1>7. PICK k \in 0 .. m : k = Max(T) /\ k \in T
  BY <1>4, <1>6
<1>8. PICK e \in Nat : m = k + e
  <2>1. k \in Nat /\ m \in Nat /\ k <= m
    BY <1>2
  <2> QED BY <2>1
<1>9. PICK x \in Nat, y \in Nat : x = k * size /\ y = size * e
  BY ProductType
<1>10. size * m = x + y
  BY <1>8, <1>9
<1>11. Affordable(n) = x /\ x <= w
  BY <1>2, <1>1, <1>3, <1>7, <1>9, <1>10
<1>12. x # 0 => k # 0
  BY <1>9
<1> QED BY <1>1, <1>5, <1>7, <1>9, <1>11, <1>12

\* What is known of an order that fills.
FillFits(n) ==
  /\ Quantity(n) \in Nat \ {0} /\ Quantity(n) <= Wanted(n) /\ Wanted(n) \in Nat
  /\ Wanted(n) <= orders[n].remaining /\ orders[n].remaining \in Nat
  /\ mode = "M-LAG" => Wanted(n) <= room[Inst(n)]
  /\ Side(n) = "SELL" =>
       /\ LotOf(n) \in DOMAIN lots /\ lots[LotOf(n)].inst = Inst(n)
       /\ orders[n].remaining <= lots[LotOf(n)].quantity
       /\ Quantity(n) = Wanted(n) /\ Quantity(n) <= Sellable(LotOf(n))
       /\ cash + Proceeds(n) \in Nat
  /\ Side(n) = "BUY" =>
       /\ Own(n) \/ (Inst(n) \notin Held(lots) /\ LotOf(n) \notin seen)
       /\ cash - Cost(n, Quantity(n)) \in Nat

\* An attempt that neither waits nor is refused is a fit trade.
LEMMA FillIsFit ==
  ASSUME ReplayTypeOK, phase = "attempt", NEW n \in DOMAIN orders,
         Tradable(n), ~Waits(n), ~Refused(n)
  PROVE  FillFits(n)
<1>1. ~Mismatched(n) /\ ~BelowBoardLot(n) /\ ~Unfunded(n) /\ Wanted(n) # 0
  BY DEF Waits, Refused
<1>2. /\ Wanted(n) \in Nat \ {0} /\ Wanted(n) <= orders[n].remaining
      /\ mode = "M-LAG" => Wanted(n) <= room[Inst(n)]
      /\ Side(n) = "SELL" => Wanted(n) <= Sellable(LotOf(n))
  BY <1>1, WantedFits
<1>3. /\ cash \in Nat /\ Side(n) \in {"BUY", "SELL"} /\ orders[n].remaining \in Nat
  BY IntentTypes DEF ReplayTypeOK, AccountTypeOK, Order, Sides
<1>4. CASE Side(n) = "SELL"
  <2>1. PICK l \in DOMAIN lots :
          l = LotOf(n) /\ lots[l].inst = Inst(n) /\ orders[n].remaining <= lots[l].quantity
    BY <1>1, <1>4 DEF Mismatched
  <2>2. ~(cash + Proceeds(n) < 0)
    BY <1>1, <1>2, <1>4 DEF Unfunded
  <2>3. Proceeds(n) \in Int
    <3>1. PICK w \in Nat : w = Wanted(n)
      BY <1>2
    <3>2. FeeFor(n, w) \in Int /\ w * Price(n) \in Nat
      BY FeeForType
    <3>3. PICK y \in Nat : y = w * Price(n)
      BY <3>2
    <3>4. y * Unit \in Nat
      BY InputTypes, ProductType
    <3>5. Proceeds(n) = y * Unit - FeeFor(n, w)
      BY <3>1, <3>3 DEF Proceeds
    <3> QED BY <3>2, <3>4, <3>5
  <2>4. cash + Proceeds(n) \in Nat
    BY <1>3, <2>2, <2>3
  <2>5. Quantity(n) = Wanted(n)
    BY <1>4 DEF Quantity
  <2>6. Quantity(n) \in Nat \ {0} /\ Quantity(n) <= Wanted(n)
    BY <1>2, <2>5
  <2> QED BY <1>2, <1>3, <1>4, <2>1, <2>4, <2>5, <2>6 DEF FillFits
<1>5. CASE Side(n) = "BUY"
  <2>1. Quantity(n) = Affordable(n) /\ Affordable(n) # 0
    BY <1>1, <1>2, <1>5 DEF Quantity, Unfunded
  <2>2. PICK q \in Nat \ {0} : q = Affordable(n) /\ q <= Wanted(n) /\ Cost(n, q) <= cash
    BY <2>1, AffordableFits
  <2>3. Cost(n, q) \in Int
    BY FeeForType
  <2>4. cash - Cost(n, q) \in Nat
    BY <1>3, <2>2, <2>3
  <2>5. Own(n) \/ (Inst(n) \notin Held(lots) /\ LotOf(n) \notin seen)
    BY <1>1, <1>5 DEF Mismatched
  <2>6. Quantity(n) = q
    BY <2>1, <2>2
  <2> QED BY <1>2, <1>3, <1>5, <2>2, <2>4, <2>5, <2>6 DEF FillFits
<1> QED BY <1>3, <1>4, <1>5

\* The order after its fill.
LEMMA AfterType ==
  ASSUME ReplayTypeOK, phase = "attempt", NEW n \in DOMAIN orders, FillFits(n)
  PROVE  /\ After(n, Quantity(n)) \in Order
         /\ After(n, Quantity(n)).scaled = orders[n].scaled
         /\ After(n, Quantity(n)).deadline = orders[n].deadline
         /\ After(n, Quantity(n)).beyond = orders[n].beyond
         /\ After(n, Quantity(n)).filled = orders[n].filled + Quantity(n)
         /\ After(n, Quantity(n)).notional = orders[n].notional + Quantity(n) * Price(n)
         /\ After(n, Quantity(n)).fee = FeeOf(Side(n), orders[n].notional + Quantity(n) * Price(n))
<1>1. PICK q \in Nat : q = Quantity(n) /\ q <= orders[n].remaining
  BY DEF FillFits
<1>2. PICK o \in Order : o = orders[n]
  BY IntentTypes DEF ReplayTypeOK
<1>3. PICK y \in Nat, fee \in Nat :
        /\ y = o.notional + q * Price(n)
        /\ fee = o.fee + FeeFor(n, q) /\ fee = FeeOf(Side(n), orders[n].notional + q * Price(n))
  BY <1>2, FeeForType
<1>4. PICK left \in Nat, filled \in Nat : left = o.remaining - q /\ filled = o.filled + q
  BY <1>1, <1>2 DEF Order
<1>5. PICK s \in Statuses :
        s = IF left = 0 THEN "FILLED"
            ELSE IF Side(n) = "BUY" /\ q < Wanted(n) THEN "REJECTED" ELSE "PARTIAL"
  BY DEF Statuses, Terminal
<1>6. After(n, q) = [o EXCEPT !.filled = filled, !.remaining = left, !.notional = y,
                              !.fee = fee, !.status = s]
  BY <1>2, <1>3, <1>4, <1>5 DEF After
<1>7. /\ After(n, q) \in Order
      /\ After(n, q).scaled = o.scaled /\ After(n, q).deadline = o.deadline
      /\ After(n, q).beyond = o.beyond /\ After(n, q).filled = filled
      /\ After(n, q).notional = y /\ After(n, q).fee = fee
  BY <1>6 DEF Order
<1> QED BY <1>1, <1>2, <1>3, <1>4, <1>7

\* What is taken from an amount, when an earlier one is taken first.
LEMMA DrawnPart ==
  ASSUME NEW b \in Nat, NEW before \in Nat, NEW q \in Nat
  PROVE  Smaller(b, Larger(0, q - before)) \in Nat /\ Smaller(b, Larger(0, q - before)) <= b
<1>1. CASE 0 <= q - before
  BY <1>1 DEF Smaller, Larger
<1>2. CASE ~(0 <= q - before)
  BY <1>2 DEF Smaller, Larger
<1> QED BY <1>1, <1>2

\* Shares leave a day only as far as it has them.
LEMMA DrawnType ==
  ASSUME ReplayTypeOK, phase = "attempt", NEW n \in DOMAIN orders,
         NEW bought \in [0 .. LastDay -> Nat], NEW q \in Nat
  PROVE  /\ Drawn(bought, q) \in [0 .. LastDay -> Nat]
         /\ \A d \in 0 .. LastDay : Drawn(bought, q)[d] <= bought[d]
         /\ Drawn(bought, q)[Today] = bought[Today]
<1>1. Today \in Nat /\ Today <= LastDay /\ LastDay \in Nat
  BY AttemptPlace
<1>2. ASSUME NEW d \in 0 .. LastDay
      PROVE  Drawn(bought, q)[d] \in Nat /\ Drawn(bought, q)[d] <= bought[d]
  <2>1. CASE d >= Today
    BY <2>1 DEF Drawn
  <2>2. CASE ~(d >= Today)
    <3> DEFINE f == [e \in 0 .. d - 1 |-> bought[e]]
    <3>0. d \in Nat /\ d <= LastDay /\ d - 1 \in Int
      BY <1>1
    <3>01. 0 .. d - 1 \subseteq 0 .. LastDay
      BY <1>1, <3>0
    <3>02. IsFiniteSet(0 .. d - 1)
      BY <3>0, FS_Interval
    <3>1. 0 .. d - 1 \subseteq 0 .. LastDay /\ IsFiniteSet(0 .. d - 1)
      BY <3>01, <3>02
    <3>2. f \in [0 .. d - 1 -> Nat]
      BY <3>1
    <3>3. PICK before \in Nat : before = Total(f)
      <4> HIDE DEF f
      <4> QED BY <3>1, <3>2, TotalType
    <3>4. PICK b \in Nat : b = bought[d]
      OBVIOUS
    <3>5. Drawn(bought, q)[d] = b - Smaller(b, Larger(0, q - before))
      BY <2>2, <3>3, <3>4 DEF Drawn
    <3>6. PICK c \in Nat : c = Smaller(b, Larger(0, q - before)) /\ c <= b
      BY DrawnPart
    <3> HIDE DEF f
    <3> QED BY <3>4, <3>5, <3>6
  <2> QED BY <2>1, <2>2
<1>3. Drawn(bought, q) \in [0 .. LastDay -> Nat]
  <2>1. Drawn(bought, q) = [d \in 0 .. LastDay |-> Drawn(bought, q)[d]]
    BY DEF Drawn
  <2> QED BY <1>2, <2>1
<1>4. Drawn(bought, q)[Today] = bought[Today]
  BY <1>1 DEF Drawn
<1> QED BY <1>2, <1>3, <1>4

\* The lots after a sale: the lot of the order shrinks or leaves.
LEMMA SoldLots ==
  ASSUME ReplayTypeOK, phase = "attempt", NEW n \in DOMAIN orders, FillFits(n),
         Side(n) = "SELL",
         NEW ls, ls = LotsAfterSell(LotOf(n), Quantity(n))
  PROVE  /\ ls \in [DOMAIN ls -> Position]
         /\ DOMAIN ls \subseteq DOMAIN lots
         /\ \A k \in DOMAIN lots : k # LotOf(n) => k \in DOMAIN ls /\ ls[k] = lots[k]
         /\ \A k \in DOMAIN ls : ls[k].inst = lots[k].inst
         /\ LotOf(n) \in DOMAIN ls =>
              /\ ls[LotOf(n)].quantity = lots[LotOf(n)].quantity - Quantity(n)
              /\ ls[LotOf(n)].bought = Drawn(lots[LotOf(n)].bought, Quantity(n))
         /\ LotOf(n) \notin DOMAIN ls => Quantity(n) = lots[LotOf(n)].quantity
<1>1. PICK l \in DOMAIN lots : l = LotOf(n)
  BY DEF FillFits
<1>2. PICK p \in Position : p = lots[l]
  BY DEF ReplayTypeOK, AccountTypeOK
<1>3. PICK q \in Nat : q = Quantity(n) /\ q <= p.quantity
  <2>1. orders[n].remaining \in Nat /\ Wanted(n) \in Nat /\ p.quantity \in Nat
    BY DEF FillFits, Position
  <2> QED BY <1>1, <1>2, <2>1 DEF FillFits
<1>4. CASE p.quantity = q
  <2>1. ls = Without(lots, l)
    BY <1>1, <1>2, <1>3, <1>4 DEF LotsAfterSell
  <2>2. /\ DOMAIN ls = DOMAIN lots \ {l}
        /\ \A k \in DOMAIN ls : ls[k] = lots[k]
    BY <2>1 DEF Without
  <2>3. ls \in [DOMAIN ls -> Position]
    BY <2>1, <2>2 DEF Without, ReplayTypeOK, AccountTypeOK
  <2> QED BY <1>1, <1>2, <1>3, <1>4, <2>2, <2>3
<1>5. CASE p.quantity # q
  <2>1. PICK b \in [0 .. LastDay -> Nat] : b = Drawn(p.bought, q)
    BY DrawnType DEF Position
  <2>2. PICK m \in Nat : m = p.quantity - q
    BY <1>3 DEF Position
  <2>3. ls = [lots EXCEPT ![l] = [p EXCEPT !.quantity = m, !.bought = b]]
    BY <1>1, <1>2, <1>3, <1>5, <2>1, <2>2 DEF LotsAfterSell
  <2>4. PICK r : r = [p EXCEPT !.quantity = m, !.bought = b]
    OBVIOUS
  <2>5. r \in Position /\ r.inst = p.inst /\ r.quantity = m /\ r.bought = b
    BY <2>4 DEF Position
  <2>6. /\ DOMAIN ls = DOMAIN lots /\ ls[l] = r
        /\ \A k \in DOMAIN lots : k # l => ls[k] = lots[k]
    BY <2>3, <2>4
  <2>7. ls \in [DOMAIN ls -> Position]
    BY <2>3, <2>4, <2>5, <2>6 DEF ReplayTypeOK, AccountTypeOK
  <2> QED BY <1>1, <1>2, <1>3, <2>1, <2>2, <2>5, <2>6, <2>7
<1> QED BY <1>4, <1>5

\* The lot that a purchase adds to, an empty one when the lot begins.
LotBefore(n) ==
  IF LotOf(n) \in DOMAIN lots THEN lots[LotOf(n)]
  ELSE InitialLot([inst |-> Inst(n), quantity |-> 0])

\* The shares of that lot by day, with those the order buys.
BoughtAfter(n) == [LotBefore(n).bought EXCEPT ![Today] = @ + Quantity(n)]

\* The lots after a purchase: the lot of the order grows or begins.
LEMMA BoughtLots ==
  ASSUME ReplayTypeOK, phase = "attempt", NEW n \in DOMAIN orders, FillFits(n),
         NEW ls, ls = LotsAfterBuy(n, Quantity(n))
  PROVE  /\ ls \in [DOMAIN ls -> Position] /\ LotBefore(n) \in Position
         /\ DOMAIN ls = DOMAIN lots \cup {LotOf(n)}
         /\ \A k \in DOMAIN lots : k # LotOf(n) => ls[k] = lots[k]
         /\ ls[LotOf(n)].inst = LotBefore(n).inst
         /\ LotOf(n) \in DOMAIN lots => LotBefore(n) = lots[LotOf(n)]
         /\ LotOf(n) \notin DOMAIN lots =>
              /\ LotBefore(n).inst = Inst(n) /\ LotBefore(n).quantity = 0
              /\ LotBefore(n).bought = [d \in 0 .. LastDay |-> 0]
         /\ ls[LotOf(n)].quantity = LotBefore(n).quantity + Quantity(n)
         /\ ls[LotOf(n)].bought = BoughtAfter(n)
<1> DEFINE start == InitialLot([inst |-> Inst(n), quantity |-> 0])
<1>1. PICK l : l = LotOf(n)
  OBVIOUS
<1>2. Inst(n) \in Instruments /\ Today \in 0 .. LastDay
  BY AttemptPlace
<1>3. PICK q \in Nat : q = Quantity(n)
  BY DEF FillFits
<1>4. /\ start \in Position /\ start.inst = Inst(n) /\ start.quantity = 0
      /\ start.bought = [d \in 0 .. LastDay |-> 0]
  BY <1>2 DEF InitialLot, Position
<1> HIDE DEF start
<1>5. PICK p \in Position : p = IF l \in DOMAIN lots THEN lots[l] ELSE start
  BY <1>4 DEF ReplayTypeOK, AccountTypeOK
<1>6. PICK m \in Nat : m = p.quantity + q
  BY DEF Position
<1>7. PICK b \in [0 .. LastDay -> Nat] : b = [p.bought EXCEPT ![Today] = @ + q]
  <2>1. PICK f \in [0 .. LastDay -> Nat] : f = p.bought
    BY DEF Position
  <2>2. f[Today] + q \in Nat
    BY <1>2
  <2>3. [f EXCEPT ![Today] = f[Today] + q] \in [0 .. LastDay -> Nat]
    BY <1>2, <2>2
  <2> QED BY <2>1, <2>3
<1>8. PICK r : r = [p EXCEPT !.quantity = m, !.bought = b]
  OBVIOUS
<1>9. r \in Position /\ r.inst = p.inst /\ r.quantity = m /\ r.bought = b
  BY <1>8 DEF Position
<1>10. ls = Put(lots, l, r)
  <2>1. r = [p EXCEPT !.quantity = @ + q, !.bought[Today] = @ + q]
    BY <1>6, <1>7, <1>8 DEF Position
  <2> QED BY <1>1, <1>3, <1>5, <2>1 DEF LotsAfterBuy, start
<1>11. /\ DOMAIN ls = DOMAIN lots \cup {l} /\ ls[l] = r
       /\ \A k \in DOMAIN lots : k # l => ls[k] = lots[k]
  BY <1>10 DEF Put
<1>12. ls \in [DOMAIN ls -> Position]
  BY <1>9, <1>10, <1>11 DEF Put, ReplayTypeOK, AccountTypeOK
<1>13. p = LotBefore(n) /\ (l \in DOMAIN lots => p = lots[l]) /\ (l \notin DOMAIN lots => p = start)
  BY <1>1, <1>5 DEF LotBefore, start
<1>14. b = BoughtAfter(n)
  BY <1>3, <1>7, <1>13 DEF BoughtAfter
<1> QED BY <1>1, <1>3, <1>4, <1>6, <1>9, <1>11, <1>12, <1>13, <1>14

-----------------------------------------------------------------------------
(* Each action keeps the types.                                            *)

\* What an expiry, an arrival and a unit change leave alone of an order.
SameTrades(o, p) ==
  /\ p.quantity = o.quantity /\ p.filled = o.filled /\ p.remaining = o.remaining
  /\ p.notional = o.notional /\ p.fee = o.fee /\ p.scaled = o.scaled /\ p.frozen = o.frozen

\* Expiring an order changes nothing it traded.
LEMMA ExpireKeeps ==
  ASSUME NEW os \in [DOMAIN book.intents -> Order], NEW t, NEW n \in DOMAIN os
  PROVE  SameTrades(os[n], Expire(os, t)[n])
<1>1. PICK o \in Order : o = os[n]
  OBVIOUS
<1>2. PICK d : d = DayOf(o.deadline)
  OBVIOUS
<1>3. \/ Expire(os, t)[n] = o
      \/ Expire(os, t)[n] = [o EXCEPT !.status = "EXPIRED"]
      \/ \E s, x, b : Expire(os, t)[n] = [o EXCEPT !.status = s, !.deadline = x, !.beyond = b]
  BY <1>1, <1>2 DEF Expire
<1> QED BY <1>1, <1>3 DEF SameTrades, Order

\* Activating an order changes neither what it traded nor its deadline.
LEMMA ActivateKeeps ==
  ASSUME NEW os \in [DOMAIN book.intents -> Order], NEW t, NEW n \in DOMAIN os
  PROVE  /\ SameTrades(os[n], Activate(os, t)[n])
         /\ Activate(os, t)[n].deadline = os[n].deadline
         /\ Activate(os, t)[n].beyond = os[n].beyond
<1>1. PICK o \in Order : o = os[n]
  OBVIOUS
<1>2. Activate(os, t)[n] = o \/ Activate(os, t)[n] = [o EXCEPT !.status = "CANCELLED"]
  BY <1>1, Zenon DEF Activate
<1> QED BY <1>1, <1>2 DEF SameTrades, Order

\* A change of units leaves the money and the clock of an order alone, and converts
\* its quantities together or not at all.
LEMMA ConvertKeeps ==
  ASSUME ClockTypeOK, AccountTypeOK, NEW due, NEW t, NEW n \in DOMAIN orders
  PROVE  LET c == ConvertOrders(due, t)[n]
             o == orders[n]
         IN  /\ c.status = o.status /\ c.notional = o.notional /\ c.fee = o.fee
             /\ c.frozen = o.frozen /\ c.deadline = o.deadline /\ c.beyond = o.beyond
             /\ c.scaled => o.scaled \/ Inst(n) \in due
             /\ \/ c.quantity = o.quantity /\ c.filled = o.filled /\ c.remaining = o.remaining
                \/ /\ Inst(n) \in due /\ c.quantity = Scaled(o.quantity, Inst(n))
                   /\ c.filled = Scaled(o.filled, Inst(n))
                   /\ c.remaining = Scaled(o.remaining, Inst(n))
<1>1. PICK o \in Order : o = orders[n]
  BY IntentTypes
<1>2. CASE Inst(n) \notin due \/ Intent(n).refAt >= t
  BY <1>1, <1>2 DEF ConvertOrders
<1>3. CASE ~(Inst(n) \notin due \/ Intent(n).refAt >= t)
  <2>1. PICK a, b, c : a = Scaled(o.quantity, Inst(n)) /\ b = Scaled(o.filled, Inst(n))
                       /\ c = Scaled(o.remaining, Inst(n))
    OBVIOUS
  <2>2. ConvertOrders(due, t)[n]
          = [o EXCEPT !.quantity = a, !.filled = b, !.remaining = c, !.scaled = TRUE]
    BY <1>1, <1>3, <2>1 DEF ConvertOrders
  <2> QED BY <1>1, <1>3, <2>1, <2>2 DEF Order
<1> QED BY <1>2, <1>3

Passed(due, t) == Activate(Expire(ConvertOrders(due, t), t), t)

\* What a step to the next time makes of the orders.
LEMMA PassedType ==
  ASSUME ClockTypeOK, AccountTypeOK, NEW due, due \subseteq DOMAIN Factor, NEW t
  PROVE  /\ Passed(due, t) \in [DOMAIN book.intents -> Order]
         /\ \A n \in DOMAIN orders :
              /\ SameTrades(ConvertOrders(due, t)[n], Passed(due, t)[n])
              /\ Passed(due, t)[n].scaled => Inst(n) \in DOMAIN Factor
<1>1. PICK cs \in [DOMAIN book.intents -> Order] : cs = ConvertOrders(due, t)
  BY ConvertedOrdersType
<1>2. PICK es \in [DOMAIN book.intents -> Order] : es = Expire(cs, t)
  BY ExpiredOrdersType
<1>3. PICK as \in [DOMAIN book.intents -> Order] : as = Activate(es, t)
  BY ActivatedOrdersType
<1>4. as = Passed(due, t)
  BY <1>1, <1>2, <1>3 DEF Passed
<1>5. ASSUME NEW n \in DOMAIN orders
      PROVE  SameTrades(cs[n], as[n]) /\ (as[n].scaled => Inst(n) \in DOMAIN Factor)
  <2>1. n \in DOMAIN cs /\ n \in DOMAIN es
    BY DEF AccountTypeOK
  <2>2. SameTrades(cs[n], es[n])
    BY <1>2, <2>1, ExpireKeeps
  <2>3. SameTrades(es[n], as[n])
    BY <1>3, <2>1, ActivateKeeps
  <2>4. SameTrades(cs[n], as[n])
    BY <2>2, <2>3 DEF SameTrades
  <2>5. cs[n].scaled => orders[n].scaled \/ Inst(n) \in due
    BY <1>1, ConvertKeeps
  <2>6. orders[n].scaled => Inst(n) \in DOMAIN Factor
    BY DEF AccountTypeOK
  <2> QED BY <2>4, <2>5, <2>6 DEF SameTrades
<1> QED BY <1>1, <1>3, <1>4, <1>5

\* A unit change leaves lots as lots of the same instruments.
LEMMA ConvertedLots ==
  ASSUME ReplayTypeOK, NEW due, due \subseteq DOMAIN Factor
  PROVE  /\ ConvertLots(due) \in [DOMAIN lots -> Position]
         /\ \A l \in DOMAIN lots :
              /\ ConvertLots(due)[l].inst = lots[l].inst
              /\ lots[l].inst \notin due => ConvertLots(due)[l] = lots[l]
              /\ lots[l].inst \in due =>
                   /\ ConvertLots(due)[l].quantity = Scaled(lots[l].quantity, lots[l].inst)
                   /\ ConvertLots(due)[l].bought
                        = [d \in 0 .. LastDay |-> Scaled(lots[l].bought[d], lots[l].inst)]
<1> SUFFICES ASSUME NEW l \in DOMAIN lots
             PROVE  /\ ConvertLots(due)[l] \in Position
                    /\ ConvertLots(due)[l].inst = lots[l].inst
                    /\ lots[l].inst \notin due => ConvertLots(due)[l] = lots[l]
                    /\ lots[l].inst \in due =>
                         /\ ConvertLots(due)[l].quantity = Scaled(lots[l].quantity, lots[l].inst)
                         /\ ConvertLots(due)[l].bought
                              = [d \in 0 .. LastDay |-> Scaled(lots[l].bought[d], lots[l].inst)]
  BY DEF ConvertLots
<1>1. PICK p \in Position : p = lots[l]
  BY DEF ReplayTypeOK, AccountTypeOK
<1>2. CASE p.inst \notin due
  BY <1>1, <1>2 DEF ConvertLots
<1>3. CASE p.inst \in due
  <2>1. PICK m \in Nat : m = Scaled(p.quantity, p.inst)
    BY <1>3, ScaledType DEF Position
  <2>2. PICK b : b = [d \in 0 .. LastDay |-> Scaled(p.bought[d], p.inst)]
    OBVIOUS
  <2>3. b \in [0 .. LastDay -> Nat]
    <3>1. \A d \in 0 .. LastDay : Scaled(p.bought[d], p.inst) \in Nat
      BY <1>3, ScaledType DEF Position
    <3> QED BY <2>2, <3>1
  <2>4. ConvertLots(due)[l] = [p EXCEPT !.quantity = m, !.bought = b]
    BY <1>1, <1>3, <2>1, <2>2 DEF ConvertLots, Position
  <2>5. PICK r : r = ConvertLots(due)[l]
    OBVIOUS
  <2>6. r \in Position /\ r.inst = p.inst /\ r.quantity = m /\ r.bought = b
    BY <2>3, <2>4, <2>5 DEF Position
  <2> QED BY <1>1, <1>3, <2>1, <2>2, <2>5, <2>6
<1> QED BY <1>1, <1>2, <1>3

\* Marks are only kept of instruments there are.
LEMMA UpdatedDomain ==
  ASSUME NEW m, NEW is, NEW tp, NEW site, NEW due
  PROVE  /\ DOMAIN Updated(m, is, tp, site) \subseteq DOMAIN m \cup is
         /\ DOMAIN ConvertMarks(m, due) = DOMAIN m
BY DEF Updated, ConvertMarks

\* Looking up one instrument gives a mark to it at most, and changes no other.
LEMMA BackfilledDomain ==
  ASSUME NEW m, NEW i
  PROVE  /\ DOMAIN Backfilled(m, i) \subseteq DOMAIN m \cup {i}
         /\ DOMAIN m \subseteq DOMAIN Backfilled(m, i)
         /\ \A j \in DOMAIN m : j # i => Backfilled(m, i)[j] = m[j]
BY DEF Backfilled, Put

\* The replay begins with its types.
LEMMA InitType ==
  ASSUME Init
  PROVE  ReplayTypeOK
<1>1. book \in Books /\ mode \in Modes
  BY DEF Init
<1>2. \A n \in DOMAIN book.intents : ValidIntent(book.intents[n])
  BY <1>1, InputAssumption DEF ValidInput
<1>3. \A l \in DOMAIN book.lots :
        book.lots[l].inst \in Instruments /\ book.lots[l].quantity \in Nat \ {0}
  BY <1>1, InputAssumption DEF ValidInput
<1>4. ASSUME NEW n \in DOMAIN book.intents PROVE NewOrder(book.intents[n]) \in Order
  <2>1. /\ book.intents[n].quantity \in Nat /\ book.intents[n].expires \in Nat
    BY <1>2 DEF ValidIntent
  <2> QED BY <2>1 DEF NewOrder, Order, Statuses
<1>5. orders \in [DOMAIN book.intents -> Order]
  BY <1>4 DEF Init
<1>6. ASSUME NEW n \in DOMAIN orders PROVE ~orders[n].scaled
  BY <1>6 DEF Init, NewOrder
<1>7. ASSUME NEW l \in DOMAIN book.lots PROVE InitialLot(book.lots[l]) \in Position
  BY <1>3 DEF InitialLot, Position
<1>8. lots \in [DOMAIN lots -> Position]
  BY <1>7 DEF Init
<1>9. AccountTypeOK
  BY <1>5, <1>6, <1>8, InputTypes DEF AccountTypeOK, Init
<1>10. Held(lots) \subseteq Instruments
  BY <1>8 DEF Held, Position
<1>11. DOMAIN Factor \subseteq Instruments
  BY ChangeFacts
<1>12. MarkTypeOK
  BY <1>10, <1>11 DEF MarkTypeOK, Init
<1>13. MarketTypeOK
  BY DEF MarketTypeOK, Init, Empty
<1>14. ClockTypeOK
  BY DEF ClockTypeOK, Init
<1> QED BY <1>9, <1>12, <1>13, <1>14 DEF ReplayTypeOK

\* A step to the next time keeps the types.
LEMMA AdvanceType ==
  ASSUME ReplayTypeOK, Advance
  PROVE  ReplayTypeOK'
<1>1. ClockTypeOK /\ AccountTypeOK /\ MarketTypeOK /\ MarkTypeOK
  BY DEF ReplayTypeOK
<1>2. PICK t \in Nat : t = Min(Later) /\ now < t
  BY <1>1, NextPoint DEF Advance
<1>3. PICK due \in SUBSET DOMAIN Factor : due = {i \in DOMAIN Factor : Factor[i].at = t}
  OBVIOUS
<1>4. PICK site \in Site : site = [at |-> t, column |-> "close"]
  BY DEF Site
<1>5. /\ now' = t /\ phase' = (IF t \in Opportunities THEN "open" ELSE "wait")
      /\ sites' = Append(sites, site)
      /\ marks' = ConvertMarks(Updated(marks, live, tape, site), due)
      /\ full' = ConvertMarks(Updated(full, Instruments, tape, site), due)
      /\ lots' = ConvertLots(due) /\ orders' = Passed(due, t)
      /\ traded' = [i \in Instruments |-> 0]
      /\ UNCHANGED <<book, mode, seen, cash, tape, checked, live, room, todo>>
  BY <1>2, <1>3, <1>4 DEF Advance, input, Passed
<1>6. ClockTypeOK'
  BY <1>1, <1>5 DEF ClockTypeOK
<1>7. AccountTypeOK'
  <2>1. orders' \in [DOMAIN book.intents -> Order]
        /\ \A n \in DOMAIN orders : orders'[n].scaled => Inst(n) \in DOMAIN Factor
    BY <1>1, <1>5, PassedType
  <2>2. DOMAIN orders' = DOMAIN orders /\ book' = book
    BY <1>1, <1>5, <2>1 DEF AccountTypeOK
  <2>3. lots' \in [DOMAIN lots -> Position]
    BY <1>5, ConvertedLots
  <2>4. \A n \in DOMAIN orders' : orders'[n].scaled => Inst(n)' \in DOMAIN Factor
    BY <2>1, <2>2 DEF Inst, Intent
  <2> QED BY <1>1, <1>5, <2>1, <2>2, <2>3, <2>4 DEF AccountTypeOK
<1>8. MarketTypeOK'
  BY <1>1, <1>4, <1>5 DEF MarketTypeOK
<1>9. MarkTypeOK'
  <2>0. PICK m, f : m = Updated(marks, live, tape, site) /\ f = Updated(full, Instruments, tape, site)
    OBVIOUS
  <2>1. DOMAIN m \subseteq DOMAIN marks \cup live /\ DOMAIN f \subseteq DOMAIN full \cup Instruments
    BY <2>0, UpdatedDomain
  <2>2. DOMAIN marks' = DOMAIN m /\ DOMAIN full' = DOMAIN f
    BY <1>5, <2>0, UpdatedDomain
  <2> QED BY <1>1, <1>5, <2>1, <2>2 DEF MarkTypeOK
<1> QED BY <1>6, <1>7, <1>8, <1>9 DEF ReplayTypeOK

\* Opening a minute keeps the types.
LEMMA OpenType ==
  ASSUME ReplayTypeOK, Open
  PROVE  ReplayTypeOK'
<1>1. ClockTypeOK /\ AccountTypeOK /\ MarketTypeOK /\ MarkTypeOK
  BY DEF ReplayTypeOK
<1>2. PICK bars : /\ \A i \in Instruments : bars[i] \in Bars[now][i]
                  /\ DOMAIN bars = Instruments /\ bars = [i \in Instruments |-> bars[i]]
                  /\ tape' = Put(tape, now, bars)
                  /\ room' = [i \in Instruments |-> bars[i].capacity]
  BY DEF Open
<1>3. now \in Opportunities /\ now \in Nat
  BY <1>1 DEF Open, ClockTypeOK
<1>4. \A i \in Instruments : bars[i] \in Bar
  BY <1>2, <1>3, InputAssumption DEF ValidInput
<1>5. bars \in [Instruments -> Bar]
  BY <1>2, <1>4
<1>6. PICK site \in Site : site = [at |-> now, column |-> "open"]
  BY <1>3 DEF Site
<1>7. /\ sites' = Append(sites, site)
      /\ marks' = Updated(marks, live, tape', site)
      /\ full' = Updated(full, Instruments, tape', site)
      /\ todo' = {n \in DOMAIN orders : Eligible(n)}
      /\ phase' = (IF todo' = {} THEN "wait" ELSE "attempt")
      /\ UNCHANGED <<book, mode, now, orders, lots, seen, cash, checked, live, traded>>
  BY <1>6 DEF Open, input
<1>8. DOMAIN tape' = DOMAIN tape \cup {now} /\ \A t \in DOMAIN tape' : tape'[t] \in [Instruments -> Bar]
  BY <1>1, <1>2, <1>5 DEF Put, MarketTypeOK
<1>9. ClockTypeOK'
  BY <1>1, <1>3, <1>7, <1>8 DEF ClockTypeOK
<1>10. AccountTypeOK'
  <2>1. \A n \in DOMAIN orders : Inst(n)' = Inst(n)
    BY <1>7 DEF Inst, Intent
  <2> QED BY <1>1, <1>7, <2>1 DEF AccountTypeOK
<1>11. MarketTypeOK'
  <2>1. room' \in [Instruments -> Nat]
    BY <1>2, <1>4 DEF Bar
  <2>2. sites' \in Seq(Site)
    BY <1>1, <1>7 DEF MarketTypeOK
  <2> QED BY <1>1, <1>3, <1>7, <1>8, <2>1, <2>2 DEF MarketTypeOK
<1>12. MarkTypeOK'
  <2>1. DOMAIN marks' \subseteq DOMAIN marks \cup live
    BY <1>7, UpdatedDomain
  <2>2. DOMAIN full' \subseteq DOMAIN full \cup Instruments
    BY <1>7, UpdatedDomain
  <2> QED BY <1>1, <1>7, <2>1, <2>2 DEF MarkTypeOK
<1> QED BY <1>9, <1>10, <1>11, <1>12 DEF ReplayTypeOK

\* An attempt without a fill changes the status of its order, or freezes it.
QuietAttempt(n) ==
  \E s \in Statuses, f \in Nat :
    /\ Attempted(n, [orders[n] EXCEPT !.status = s, !.frozen = f])
    /\ UNCHANGED <<lots, seen, cash, checked, live, marks, room, traded>>

\* An attempt that waits, freezes or is refused changes the status of its order only.
LEMMA QuietAttempts ==
  ASSUME ReplayTypeOK, phase = "attempt", NEW n \in DOMAIN orders,
         AttemptWaits(n) \/ AttemptFreezes(n) \/ AttemptRefused(n)
  PROVE  QuietAttempt(n)
<1>1. PICK o \in Order : o = orders[n]
  BY IntentTypes DEF ReplayTypeOK
<1>2. o.frozen \in Nat /\ Today \in Nat
  BY AttemptPlace DEF Order
<1>3. Tried(n) \in Statuses /\ "REJECTED" \in Statuses
  BY DEF Tried, Statuses, Terminal
<1>4. \A s : [o EXCEPT !.status = s] = [o EXCEPT !.status = s, !.frozen = o.frozen]
  BY DEF Order
<1>5. CASE AttemptWaits(n)
  BY <1>1, <1>2, <1>3, <1>4, <1>5 DEF AttemptWaits, Ended, QuietAttempt
<1>6. CASE AttemptFreezes(n)
  BY <1>1, <1>2, <1>3, <1>6 DEF AttemptFreezes, QuietAttempt
<1>7. CASE AttemptRefused(n)
  BY <1>1, <1>2, <1>3, <1>4, <1>7 DEF AttemptRefused, Ended, QuietAttempt
<1> QED BY <1>5, <1>6, <1>7

\* What every attempt does to the minute and the orders.
LEMMA AttemptedType ==
  ASSUME ReplayTypeOK, phase = "attempt", NEW n \in DOMAIN orders,
         NEW o \in Order, o.scaled = orders[n].scaled, Attempted(n, o)
  PROVE  /\ ClockTypeOK'
         /\ orders' \in [DOMAIN book.intents -> Order] /\ DOMAIN orders' = DOMAIN orders
         /\ orders'[n] = o /\ \A k \in DOMAIN orders : k # n => orders'[k] = orders[k]
         /\ todo' \subseteq DOMAIN orders' /\ book' = book /\ mode' = mode
         /\ \A k \in DOMAIN orders' : orders'[k].scaled => Inst(k)' \in DOMAIN Factor
<1>1. ClockTypeOK /\ AccountTypeOK
  BY DEF ReplayTypeOK
<1>2. /\ orders' = [orders EXCEPT ![n] = o] /\ todo' = todo \ {n}
      /\ phase' = (IF todo' = {} THEN "wait" ELSE "attempt")
      /\ UNCHANGED <<book, mode, now, tape, sites, full>>
  BY DEF Attempted, input
<1>3. /\ orders' \in [DOMAIN book.intents -> Order] /\ DOMAIN orders' = DOMAIN orders
      /\ orders'[n] = o /\ \A k \in DOMAIN orders : k # n => orders'[k] = orders[k]
  BY <1>1, <1>2 DEF AccountTypeOK
<1>4. \A k \in DOMAIN orders : Inst(k)' = Inst(k)
  BY <1>2 DEF Inst, Intent
<1>5. \A k \in DOMAIN orders' : orders'[k].scaled => Inst(k)' \in DOMAIN Factor
  BY <1>1, <1>3, <1>4 DEF AccountTypeOK
<1>6. ClockTypeOK'
  BY <1>1, <1>2 DEF ClockTypeOK
<1> QED BY <1>1, <1>2, <1>3, <1>5, <1>6 DEF AccountTypeOK

\* Such an attempt keeps the types.
LEMMA QuietType ==
  ASSUME ReplayTypeOK, phase = "attempt", NEW n \in DOMAIN orders, QuietAttempt(n)
  PROVE  ReplayTypeOK'
<1>1. PICK s \in Statuses, f \in Nat :
        /\ Attempted(n, [orders[n] EXCEPT !.status = s, !.frozen = f])
        /\ UNCHANGED <<lots, seen, cash, checked, live, marks, room, traded>>
  BY DEF QuietAttempt
<1>2. PICK o : o = [orders[n] EXCEPT !.status = s, !.frozen = f]
  OBVIOUS
<1>3. o \in Order /\ o.scaled = orders[n].scaled
  BY <1>2, IntentTypes DEF ReplayTypeOK, Order
<1>4. /\ ClockTypeOK' /\ orders' \in [DOMAIN book.intents -> Order]
      /\ todo' \subseteq DOMAIN orders' /\ book' = book
      /\ \A k \in DOMAIN orders' : orders'[k].scaled => Inst(k)' \in DOMAIN Factor
  BY <1>1, <1>2, <1>3, AttemptedType
<1>5. AccountTypeOK'
  BY <1>1, <1>4 DEF AccountTypeOK, ReplayTypeOK
<1>6. MarketTypeOK' /\ MarkTypeOK'
  BY <1>1 DEF Attempted, MarketTypeOK, MarkTypeOK, ReplayTypeOK
<1> QED BY <1>4, <1>5, <1>6 DEF ReplayTypeOK

\* The lots of a fill.
FilledLots(n) ==
  IF Side(n) = "SELL" THEN LotsAfterSell(LotOf(n), Quantity(n)) ELSE LotsAfterBuy(n, Quantity(n))

\* What a fill does, part by part.
LEMMA FillParts ==
  ASSUME ReplayTypeOK, phase = "attempt", NEW n \in DOMAIN orders, AttemptFills(n)
  PROVE  /\ FillFits(n) /\ Attempted(n, After(n, Quantity(n)))
         /\ lots' = FilledLots(n) /\ Refresh(Inst(n), lots')
         /\ cash' = IF Side(n) = "SELL" THEN cash + Proceeds(n) ELSE cash - Cost(n, Quantity(n))
         /\ seen' = IF Side(n) = "BUY" THEN seen \cup {LotOf(n)} ELSE seen
         /\ room' = IF mode = "M-LAG" THEN [room EXCEPT ![Inst(n)] = @ - Quantity(n)] ELSE room
         /\ traded' = [traded EXCEPT ![Inst(n)] = @ + Quantity(n)]
<1>1. FillFits(n)
  BY FillIsFit DEF AttemptFills
<1> QED BY <1>1 DEF AttemptFills, FilledLots

\* A fill keeps the types.
LEMMA FillType ==
  ASSUME ReplayTypeOK, phase = "attempt", NEW n \in DOMAIN orders, AttemptFills(n)
  PROVE  ReplayTypeOK'
<1>1. /\ FillFits(n) /\ Attempted(n, After(n, Quantity(n)))
      /\ lots' = FilledLots(n) /\ Refresh(Inst(n), lots')
      /\ cash' = (IF Side(n) = "SELL" THEN cash + Proceeds(n) ELSE cash - Cost(n, Quantity(n)))
      /\ room' = (IF mode = "M-LAG" THEN [room EXCEPT ![Inst(n)] = @ - Quantity(n)] ELSE room)
      /\ traded' = [traded EXCEPT ![Inst(n)] = @ + Quantity(n)]
  BY FillParts
<1>2. PICK o \in Order : o = After(n, Quantity(n)) /\ o.scaled = orders[n].scaled
  BY <1>1, AfterType
<1>3. /\ ClockTypeOK' /\ orders' \in [DOMAIN book.intents -> Order]
      /\ todo' \subseteq DOMAIN orders' /\ book' = book
      /\ \A k \in DOMAIN orders' : orders'[k].scaled => Inst(k)' \in DOMAIN Factor
  BY <1>1, <1>2, AttemptedType
<1>4. Side(n) \in {"BUY", "SELL"} /\ Inst(n) \in Instruments
  BY IntentTypes DEF ReplayTypeOK, Sides
<1>5. lots' \in [DOMAIN lots' -> Position]
  <2>1. CASE Side(n) = "SELL"
    BY <1>1, <2>1, SoldLots DEF FilledLots
  <2>2. CASE Side(n) = "BUY"
    BY <1>1, <2>2, BoughtLots DEF FilledLots
  <2> QED BY <1>4, <2>1, <2>2
<1>6. cash' \in Nat
  BY <1>1, <1>4 DEF FillFits
<1>7. AccountTypeOK'
  BY <1>3, <1>5, <1>6 DEF AccountTypeOK
<1>8. MarketTypeOK'
  <2>1. PICK q \in Nat : q = Quantity(n) /\ (mode = "M-LAG" => q <= room[Inst(n)])
    BY <1>1, AttemptPlace DEF FillFits
  <2>2. MarketTypeOK
    BY DEF ReplayTypeOK
  <2>3. traded[Inst(n)] + q \in Nat /\ room[Inst(n)] \in Nat
    BY <1>4, <2>2 DEF MarketTypeOK
  <2>4. mode = "M-LAG" => room[Inst(n)] - q \in Nat
    BY <2>1, <2>3
  <2>5. traded' \in [Instruments -> Nat] /\ room' \in [Instruments -> Nat]
    BY <1>1, <1>4, <2>1, <2>2, <2>3, <2>4 DEF MarketTypeOK
  <2>6. UNCHANGED <<tape, sites>>
    BY <1>1 DEF Attempted
  <2> QED BY <2>2, <2>5, <2>6 DEF MarketTypeOK
<1>9. MarkTypeOK'
  <2>1. MarkTypeOK /\ Len(sites) \in Nat
    BY DEF ReplayTypeOK, MarketTypeOK
  <2>2. DOMAIN Backfilled(marks, Inst(n)) \subseteq DOMAIN marks \cup {Inst(n)}
    BY BackfilledDomain
  <2>3. DOMAIN marks' \subseteq DOMAIN marks \cup {Inst(n)}
    BY <1>1, <2>2 DEF Refresh
  <2>4. live' \subseteq Instruments /\ checked' \in [Instruments -> Nat]
    BY <1>1, <1>4, <2>1 DEF Refresh, MarkTypeOK
  <2>5. full' = full
    BY <1>1 DEF Attempted
  <2> QED BY <1>4, <2>1, <2>3, <2>4, <2>5 DEF MarkTypeOK
<1> QED BY <1>3, <1>7, <1>8, <1>9 DEF ReplayTypeOK

\* The end of the replay keeps the types.
LEMMA FinishType ==
  ASSUME ReplayTypeOK, Finish
  PROVE  ReplayTypeOK'
<1> DEFINE cold == {Inst(n) : n \in DOMAIN orders} \ live
<1>1. /\ phase' = "done" /\ UNCHANGED <<book, mode, now, orders, lots, seen, cash, tape, sites, live,
                                       room, todo, full, traded>>
      /\ DOMAIN marks' = DOMAIN marks \cup {j \in cold : j \in DOMAIN Backfilled(marks, j)}
      /\ checked' = [i \in Instruments |-> IF i \in cold THEN Len(sites) ELSE checked[i]]
  BY DEF Finish, input
<1>2. cold \subseteq Instruments
  BY IntentTypes DEF ReplayTypeOK
<1>3. MarkTypeOK'
  <2>1. MarkTypeOK /\ Len(sites) \in Nat
    BY DEF ReplayTypeOK, MarketTypeOK
  <2> HIDE DEF cold
  <2> QED BY <1>1, <1>2, <2>1 DEF MarkTypeOK
<1>4. \A n \in DOMAIN orders : Inst(n)' = Inst(n)
  BY <1>1 DEF Inst, Intent
<1>5. ClockTypeOK' /\ AccountTypeOK' /\ MarketTypeOK'
  BY <1>1, <1>4 DEF ReplayTypeOK, ClockTypeOK, AccountTypeOK, MarketTypeOK
<1> QED BY <1>3, <1>5 DEF ReplayTypeOK

-----------------------------------------------------------------------------
(* The marks.  An instrument that is live has its mark; for another, what  *)
(* it would be looked up to be is its mark, and the sites that lookup may  *)
(* still change are those of minutes that are over.                        *)

\* Sites that have not been looked at and have a price.
Unread(tp, ss, c, i) == {k \in c + 1 .. Len(ss) : Prices(tp, ss[k], i)}

LookUp(m, tp, ss, c, i) ==
  IF Unread(tp, ss, c, i) = {} THEN m ELSE Put(m, i, Mark(ss[Max(Unread(tp, ss, c, i))]))

\* The code looks up an instrument from where it last looked.
LEMMA BackfilledIsLookUp ==
  ASSUME NEW m, NEW i
  PROVE  Backfilled(m, i) = LookUp(m, tape, sites, checked[i], i)
BY DEF Backfilled, LookUp, Unread

\* Who has looked at every site has nothing to look up.
LEMMA NothingUnread ==
  ASSUME NEW m, NEW tp, NEW ss \in Seq(Site), NEW i
  PROVE  LookUp(m, tp, ss, Len(ss), i) = m
<1>1. Len(ss) \in Nat
  OBVIOUS
<1>2. Unread(tp, ss, Len(ss), i) = {}
  BY <1>1 DEF Unread
<1> QED BY <1>2 DEF LookUp

\* A new site: if the instrument has a price there it is the one that is found, if
\* not the one that was found before is.
LEMMA OneMoreSite ==
  ASSUME NEW m, NEW f, NEW m2, NEW f2, NEW tp, NEW tp2, NEW ss \in Seq(Site), NEW site \in Site,
         NEW c \in Nat, c <= Len(ss), NEW i,
         \A k \in 1 .. Len(ss) : Prices(tp2, ss[k], i) <=> Prices(tp, ss[k], i),
         Agree(LookUp(m, tp, ss, c, i), f, i), Agree(m2, m, i),
         Prices(tp2, site, i) => i \in DOMAIN f2 /\ f2[i] = Mark(site),
         ~Prices(tp2, site, i) => Agree(f2, f, i)
  PROVE  Agree(LookUp(m2, tp2, Append(ss, site), c, i), f2, i)
<1>1. PICK len \in Nat : len = Len(ss)
  OBVIOUS
<1>2. PICK s2 : s2 = Append(ss, site)
  OBVIOUS
<1>3. Len(s2) = len + 1 /\ s2[len + 1] = site /\ \A k \in 1 .. len : s2[k] = ss[k]
  BY <1>1, <1>2
<1>4. PICK U, U2 : U = Unread(tp, ss, c, i) /\ U2 = Unread(tp2, s2, c, i)
  OBVIOUS
<1>5. \A k : k \in U <=> k \in c + 1 .. len /\ Prices(tp, ss[k], i)
  BY <1>1, <1>4 DEF Unread
<1>6. \A k : k \in U2 <=> k \in c + 1 .. len + 1 /\ Prices(tp2, s2[k], i)
  BY <1>3, <1>4 DEF Unread
<1>7. c <= len /\ len + 1 \in c + 1 .. len + 1
  BY <1>1
<1>8. CASE Prices(tp2, site, i)
  <2>1. len + 1 \in U2
    BY <1>3, <1>6, <1>7, <1>8
  <2>2. U2 \subseteq 0 .. len + 1 /\ len + 1 \in Nat
    BY <1>6
  <2>3. Max(U2) = len + 1
    BY <2>1, <2>2, MaxEqual
  <2>4. LookUp(m2, tp2, s2, c, i) = Put(m2, i, Mark(site))
    BY <1>3, <1>4, <2>1, <2>3 DEF LookUp
  <2> QED BY <1>2, <1>8, <2>4 DEF Agree, Put
<1>9. CASE ~Prices(tp2, site, i)
  <2>1. len + 1 \notin U2
    BY <1>3, <1>6, <1>9
  <2>2. \A k \in c + 1 .. len : k \in 1 .. len
    BY <1>7
  <2>3. \A k \in c + 1 .. len : k \in U <=> k \in U2
    <3> TAKE k \in c + 1 .. len
    <3>1. k \in c + 1 .. len + 1 /\ k \in 1 .. len
      BY <2>2
    <3>2. s2[k] = ss[k] /\ (Prices(tp2, ss[k], i) <=> Prices(tp, ss[k], i))
      BY <1>1, <1>3, <3>1
    <3> QED BY <1>5, <1>6, <3>1, <3>2
  <2>4. \A k \in U2 : k \in c + 1 .. len
    <3> TAKE k \in U2
    <3>1. k \in c + 1 .. len + 1 /\ k # len + 1
      BY <1>6, <2>1
    <3> QED BY <3>1
  <2>5. U2 = U
    BY <1>5, <2>3, <2>4
  <2>6. CASE U = {}
    BY <1>1, <1>2, <1>4, <1>9, <2>5, <2>6 DEF LookUp, Agree
  <2>7. CASE U # {}
    <3>1. U \subseteq 0 .. len
      BY <1>5
    <3>2. PICK x : x = Max(U)
      OBVIOUS
    <3>3. x \in U
      BY <2>7, <3>1, <3>2, MaxIs
    <3>4. s2[x] = ss[x]
      BY <1>3, <1>5, <2>2, <3>3
    <3>5. /\ LookUp(m, tp, ss, c, i) = Put(m, i, Mark(ss[x]))
          /\ LookUp(m2, tp2, s2, c, i) = Put(m2, i, Mark(ss[x]))
      BY <1>4, <2>5, <2>7, <3>2, <3>4 DEF LookUp
    <3> QED BY <1>2, <1>9, <3>5 DEF Agree, Put
  <2> QED BY <2>6, <2>7
<1> QED BY <1>8, <1>9

\* What an update makes of one instrument's mark.
LEMMA UpdatedMark ==
  ASSUME NEW m, NEW is, NEW tp, NEW site, NEW i
  PROVE  LET u == Updated(m, is, tp, site)
         IN  /\ i \in is /\ Prices(tp, site, i) => i \in DOMAIN u /\ u[i] = Mark(site)
             /\ i \notin is \/ ~Prices(tp, site, i) => Agree(u, m, i)
BY DEF Updated, Agree

\* What a unit change makes of it.
LEMMA ConvertedMark ==
  ASSUME NEW m, NEW f, NEW due, NEW i
  PROVE  /\ i \notin due => Agree(ConvertMarks(m, due), m, i)
         /\ Agree(m, f, i) => Agree(ConvertMarks(m, due), ConvertMarks(f, due), i)
BY DEF ConvertMarks, Agree

SitesFit ==
  \A k \in 1 .. Len(sites) :
    BarTime(sites[k]) \in Int /\ BarTime(sites[k]) <= now /\ (phase = "open" => BarTime(sites[k]) < now)

MarkFits(i) ==
  /\ checked[i] <= Len(sites)
  /\ i \in live => Agree(marks, full, i)
  /\ i \notin live => Agree(Backfilled(marks, i), full, i)
  /\ phase = "open" => traded[i] = 0
  /\ traded[i] # 0 /\ i \notin live => checked[i] = Len(sites)

MarksFit ==
  /\ Held(lots) \cup DOMAIN Factor \subseteq live
  /\ SitesFit
  /\ \A i \in Instruments : MarkFits(i)
  /\ phase = "done" => \A n \in DOMAIN orders : Inst(n) \in live \/ checked[Inst(n)] = Len(sites)

\* The marks are exact.
LEMMA MarksFitExact ==
  ASSUME ReplayTypeOK, MarksFit
  PROVE  MarksAreExact
<1>1. ASSUME NEW i \in Instruments, i \in live \/ checked[i] = Len(sites)
      PROVE  Agree(marks, full, i)
  <2>1. CASE i \in live
    BY <2>1 DEF MarksFit, MarkFits
  <2>2. CASE i \notin live
    <3>1. Backfilled(marks, i) = LookUp(marks, tape, sites, Len(sites), i)
      BY <1>1, <2>2, BackfilledIsLookUp
    <3>2. sites \in Seq(Site)
      BY DEF ReplayTypeOK, MarketTypeOK
    <3>3. Backfilled(marks, i) = marks
      BY <3>1, <3>2, NothingUnread
    <3>4. Agree(Backfilled(marks, i), full, i)
      BY <2>2 DEF MarksFit, MarkFits
    <3> QED BY <3>3, <3>4
  <2> QED BY <2>1, <2>2
<1>2. ASSUME NEW i \in Read PROVE i \in Instruments /\ (i \in live \/ checked[i] = Len(sites))
  <2>1. CASE i \in live
    BY <2>1 DEF ReplayTypeOK, MarkTypeOK
  <2>2. CASE i \in Held(lots)
    BY <2>2 DEF MarksFit, ReplayTypeOK, MarkTypeOK
  <2>3. CASE i \in Instruments /\ traded[i] > 0
    <3>1. traded[i] # 0
      BY <2>3 DEF ReplayTypeOK, MarketTypeOK
    <3> QED BY <2>3, <3>1 DEF MarksFit, MarkFits
  <2>4. ASSUME phase = "done", NEW n \in DOMAIN orders, i = Inst(n)
        PROVE  i \in Instruments /\ (i \in live \/ checked[i] = Len(sites))
    BY <2>4, IntentTypes DEF MarksFit, ReplayTypeOK
  <2> QED BY <2>1, <2>2, <2>3, <2>4 DEF Read
<1> QED BY <1>1, <1>2 DEF MarksAreExact, Agree

\* A lookup is about one instrument's mark.
LEMMA LookUpLocal ==
  ASSUME NEW m, NEW f, NEW m2, NEW tp, NEW ss, NEW c, NEW i,
         Agree(LookUp(m, tp, ss, c, i), f, i), Agree(m2, m, i)
  PROVE  Agree(LookUp(m2, tp, ss, c, i), f, i)
<1>1. PICK U : U = Unread(tp, ss, c, i)
  OBVIOUS
<1>2. PICK x : x = Mark(ss[Max(U)])
  OBVIOUS
<1>3. \A t : LookUp(t, tp, ss, c, i) = IF U = {} THEN t ELSE Put(t, i, x)
  BY <1>1, <1>2 DEF LookUp
<1> QED BY <1>3 DEF Agree, Put

\* No site has been seen when the replay begins.
LEMMA InitMarks ==
  ASSUME Init
  PROVE  MarksFit
<1>1. ReplayTypeOK
  BY InitType
<1>2. /\ live = Held(lots) \cup DOMAIN Factor /\ full = marks /\ sites = <<>>
      /\ checked = [i \in Instruments |-> 0] /\ traded = [i \in Instruments |-> 0] /\ phase = "wait"
  BY DEF Init
<1>3. Len(sites) = 0 /\ sites \in Seq(Site)
  BY <1>2
<1>4. ASSUME NEW i \in Instruments PROVE MarkFits(i)
  <2>1. checked[i] = Len(sites) /\ checked[i] <= Len(sites)
    BY <1>2, <1>3
  <2>2. Backfilled(marks, i) = marks
    <3>1. Backfilled(marks, i) = LookUp(marks, tape, sites, Len(sites), i)
      BY <2>1, BackfilledIsLookUp
    <3>2. LookUp(marks, tape, sites, Len(sites), i) = marks
      BY <1>3, NothingUnread
    <3> QED BY <3>1, <3>2
  <2> QED BY <1>2, <2>1, <2>2 DEF MarkFits, Agree
<1> QED BY <1>2, <1>3, <1>4 DEF MarksFit, SitesFit

\* The close of a minute and the unit changes due keep the marks exact.
LEMMA AdvanceMarks ==
  ASSUME ReplayTypeOK, MarksFit, Advance
  PROVE  MarksFit'
<1>1. ClockTypeOK /\ AccountTypeOK /\ MarketTypeOK /\ MarkTypeOK
  BY DEF ReplayTypeOK
<1>2. PICK t \in Nat : t = Min(Later) /\ now < t /\ now \in Nat
  BY <1>1, NextPoint DEF Advance, ClockTypeOK
<1>3. PICK due \in SUBSET DOMAIN Factor : due = {i \in DOMAIN Factor : Factor[i].at = t}
  OBVIOUS
<1>4. PICK site \in Site : site = [at |-> t, column |-> "close"]
  BY DEF Site
<1>5. /\ now' = t /\ phase' = (IF t \in Opportunities THEN "open" ELSE "wait")
      /\ sites' = Append(sites, site)
      /\ marks' = ConvertMarks(Updated(marks, live, tape, site), due)
      /\ full' = ConvertMarks(Updated(full, Instruments, tape, site), due)
      /\ lots' = ConvertLots(due) /\ traded' = [i \in Instruments |-> 0]
      /\ UNCHANGED <<tape, checked, live>>
  BY <1>2, <1>3, <1>4 DEF Advance
<1>6. PICK m, f : m = Updated(marks, live, tape, site) /\ f = Updated(full, Instruments, tape, site)
  OBVIOUS
<1>7. PICK len \in Nat : len = Len(sites) /\ sites \in Seq(Site)
  BY <1>1 DEF MarketTypeOK
<1>8. Len(sites') = len + 1 /\ sites'[len + 1] = site /\ \A k \in 1 .. len : sites'[k] = sites[k]
  BY <1>5, <1>7
<1>9. SitesFit'
  <2>1. BarTime(site) = t - 1
    BY <1>4 DEF BarTime
  <2>2. ASSUME NEW k \in 1 .. len + 1
        PROVE  BarTime(sites'[k]) \in Int /\ BarTime(sites'[k]) < t
    <3>1. CASE k = len + 1
      BY <1>8, <2>1, <3>1
    <3>2. CASE k \in 1 .. len
      <4>1. BarTime(sites[k]) \in Int /\ BarTime(sites[k]) <= now
        BY <1>7, <3>2 DEF MarksFit, SitesFit
      <4>2. BarTime(sites'[k]) = BarTime(sites[k])
        BY <1>8, <3>2
      <4> QED BY <1>2, <4>1, <4>2
    <3> QED BY <3>1, <3>2
  <2>3. ASSUME NEW k \in 1 .. len + 1
        PROVE  BarTime(sites'[k]) \in Int /\ BarTime(sites'[k]) <= t /\ BarTime(sites'[k]) < t
    BY <2>2
  <2> QED BY <1>5, <1>8, <2>3 DEF SitesFit, BarTime
<1>10. Held(lots') \cup DOMAIN Factor \subseteq live'
  <2>1. \A l \in DOMAIN lots : lots'[l].inst = lots[l].inst
    BY <1>5, ConvertedLots
  <2>2. DOMAIN lots' = DOMAIN lots
    BY <1>5, ConvertedLots
  <2>3. Held(lots') = Held(lots)
    BY <2>1, <2>2 DEF Held
  <2> QED BY <1>5, <2>3 DEF MarksFit
<1>11. ASSUME NEW i \in Instruments PROVE MarkFits(i)'
  <2>1. /\ MarkFits(i) /\ checked[i] \in Nat /\ due \subseteq live /\ live \subseteq Instruments
    BY <1>1 DEF MarksFit, MarkTypeOK
  <2>2. /\ i \in live /\ Prices(tape, site, i) => i \in DOMAIN m /\ m[i] = Mark(site)
        /\ i \notin live \/ ~Prices(tape, site, i) => Agree(m, marks, i)
        /\ Prices(tape, site, i) => i \in DOMAIN f /\ f[i] = Mark(site)
        /\ ~Prices(tape, site, i) => Agree(f, full, i)
    BY <1>6, UpdatedMark
  <2>3. checked'[i] <= Len(sites')
    BY <1>5, <1>7, <1>8, <2>1 DEF MarkFits
  <2>4. CASE i \in live
    <3>1. Agree(m, f, i)
      BY <2>1, <2>2, <2>4 DEF MarkFits, Agree
    <3>2. Agree(marks', full', i)
      BY <1>5, <1>6, <3>1, ConvertedMark
    <3> QED BY <1>5, <2>3, <2>4, <3>2 DEF MarkFits
  <2>5. CASE i \notin live
    <3>1. i \notin due
      BY <2>1, <2>5
    <3>2. Agree(marks', m, i) /\ Agree(full', f, i)
      BY <1>5, <1>6, <3>1, ConvertedMark
    <3>3. Agree(marks', marks, i)
      BY <2>2, <2>5, <3>2 DEF Agree
    <3>4. /\ Prices(tape, site, i) => i \in DOMAIN full' /\ full'[i] = Mark(site)
          /\ ~Prices(tape, site, i) => Agree(full', full, i)
      BY <2>2, <3>2 DEF Agree
    <3>5. Agree(LookUp(marks, tape, sites, checked[i], i), full, i)
      BY <2>1, <2>5, BackfilledIsLookUp DEF MarkFits
    <3>6. PICK c, m2, f2 : c \in Nat /\ c = checked[i] /\ m2 = marks' /\ f2 = full' /\ c <= Len(sites)
      BY <2>1 DEF MarkFits
    <3>7. Agree(LookUp(m2, tape, Append(sites, site), c, i), f2, i)
      BY <1>7, <3>3, <3>4, <3>5, <3>6, OneMoreSite
    <3>8. Agree(Backfilled(marks, i)', full', i)
      BY <1>5, <3>6, <3>7, BackfilledIsLookUp DEF Backfilled, LookUp, Unread
    <3> QED BY <1>5, <2>3, <2>5, <3>8 DEF MarkFits
  <2> QED BY <2>4, <2>5
<1>12. phase' # "done"
  BY <1>5
<1> QED BY <1>9, <1>10, <1>11, <1>12 DEF MarksFit

\* The open of a minute keeps the marks exact.
LEMMA OpenMarks ==
  ASSUME ReplayTypeOK, MarksFit, Open
  PROVE  MarksFit'
<1>1. ClockTypeOK /\ AccountTypeOK /\ MarketTypeOK /\ MarkTypeOK
  BY DEF ReplayTypeOK
<1>2. PICK bars : tape' = Put(tape, now, bars)
  BY DEF Open
<1>3. now \in Nat /\ phase = "open"
  BY <1>1 DEF Open, ClockTypeOK
<1>4. PICK site \in Site : site = [at |-> now, column |-> "open"]
  BY <1>3 DEF Site
<1>5. /\ sites' = Append(sites, site)
      /\ marks' = Updated(marks, live, tape', site)
      /\ full' = Updated(full, Instruments, tape', site)
      /\ phase' # "open" /\ phase' # "done"
      /\ UNCHANGED <<now, lots, checked, live, traded>>
  BY <1>4 DEF Open
<1>6. PICK len \in Nat : len = Len(sites) /\ sites \in Seq(Site)
  BY <1>1 DEF MarketTypeOK
<1>7. Len(sites') = len + 1 /\ sites'[len + 1] = site /\ \A k \in 1 .. len : sites'[k] = sites[k]
  BY <1>5, <1>6
<1>8. SitesFit'
  <2>1. BarTime(site) = now
    BY <1>4 DEF BarTime
  <2>2. ASSUME NEW k \in 1 .. len + 1
        PROVE  BarTime(sites'[k]) \in Int /\ BarTime(sites'[k]) <= now
    <3>1. CASE k = len + 1
      BY <1>3, <1>7, <2>1, <3>1
    <3>2. CASE k \in 1 .. len
      <4>1. BarTime(sites[k]) \in Int /\ BarTime(sites[k]) <= now
        BY <1>6, <3>2 DEF MarksFit, SitesFit
      <4>2. BarTime(sites'[k]) = BarTime(sites[k])
        BY <1>7, <3>2
      <4> QED BY <4>1, <4>2
    <3> QED BY <3>1, <3>2
  <2> QED BY <1>5, <1>7, <2>2 DEF SitesFit, BarTime
<1>9. Held(lots') \cup DOMAIN Factor \subseteq live'
  BY <1>5 DEF MarksFit
<1>10. ASSUME NEW i \in Instruments PROVE MarkFits(i)'
  <2>1. MarkFits(i) /\ checked[i] \in Nat /\ live \subseteq Instruments
    BY <1>1 DEF MarksFit, MarkTypeOK
  <2>2. PICK tp2 : tp2 = tape'
    OBVIOUS
  <2>3. ASSUME NEW k \in 1 .. Len(sites)
        PROVE  Prices(tp2, sites[k], i) <=> Prices(tape, sites[k], i)
    <3>1. BarTime(sites[k]) # now
      BY <1>3, <2>3 DEF MarksFit, SitesFit
    <3> QED BY <1>2, <2>2, <3>1 DEF Prices, Put
  <2>4. PICK m2, f2 : m2 = marks' /\ f2 = full'
    OBVIOUS
  <2>5. /\ i \in live /\ Prices(tp2, site, i) => i \in DOMAIN m2 /\ m2[i] = Mark(site)
        /\ i \notin live \/ ~Prices(tp2, site, i) => Agree(m2, marks, i)
        /\ Prices(tp2, site, i) => i \in DOMAIN f2 /\ f2[i] = Mark(site)
        /\ ~Prices(tp2, site, i) => Agree(f2, full, i)
    BY <1>5, <2>2, <2>4, UpdatedMark
  <2>6. checked'[i] <= Len(sites')
    BY <1>5, <1>6, <1>7, <2>1 DEF MarkFits
  <2>7. traded'[i] = 0
    BY <1>3, <1>5, <2>1 DEF MarkFits
  <2>8. CASE i \in live
    <3>1. Agree(m2, f2, i)
      BY <2>1, <2>5, <2>8 DEF MarkFits, Agree
    <3> QED BY <1>5, <2>4, <2>6, <2>7, <2>8, <3>1 DEF MarkFits
  <2>9. CASE i \notin live
    <3>1. Agree(LookUp(marks, tape, sites, checked[i], i), full, i)
      BY <2>1, <2>9, BackfilledIsLookUp DEF MarkFits
    <3>2. PICK c \in Nat : c = checked[i] /\ c <= Len(sites)
      BY <2>1 DEF MarkFits
    <3>3. Agree(LookUp(m2, tp2, Append(sites, site), c, i), f2, i)
      BY <1>6, <2>3, <2>5, <2>9, <3>1, <3>2, OneMoreSite
    <3>4. Agree(Backfilled(marks, i)', full', i)
      BY <1>5, <2>2, <2>4, <3>2, <3>3 DEF Backfilled, LookUp, Unread
    <3> QED BY <1>5, <2>6, <2>7, <2>9, <3>4 DEF MarkFits
  <2> QED BY <2>8, <2>9
<1> QED BY <1>5, <1>8, <1>9, <1>10 DEF MarksFit

\* A lot of a purchase is the only one of its instrument, and an id is not used again.
OwnersFit ==
  /\ DOMAIN lots \subseteq seen
  /\ \A n \in DOMAIN orders : Side(n) = "BUY" /\ orders[n].filled # 0 =>
       /\ LotOf(n) \in seen
       /\ LotOf(n) \in DOMAIN lots =>
            \A l \in DOMAIN lots : lots[l].inst = Inst(n) <=> l = LotOf(n)

\* The lots after a fill that is a purchase.
LEMMA BoughtParts ==
  ASSUME ReplayTypeOK, phase = "attempt", NEW n \in DOMAIN orders, FillFits(n),
         NEW ls, ls = FilledLots(n), Side(n) = "BUY"
  PROVE  /\ DOMAIN ls = DOMAIN lots \cup {LotOf(n)} /\ ls[LotOf(n)].inst = LotBefore(n).inst
         /\ \A k \in DOMAIN lots : k # LotOf(n) => ls[k] = lots[k]
         /\ LotOf(n) \in DOMAIN lots => LotBefore(n) = lots[LotOf(n)]
         /\ LotOf(n) \notin DOMAIN lots =>
              /\ LotBefore(n).inst = Inst(n) /\ LotBefore(n).quantity = 0
              /\ LotBefore(n).bought = [d \in 0 .. LastDay |-> 0]
         /\ ls[LotOf(n)].quantity = LotBefore(n).quantity + Quantity(n)
         /\ ls[LotOf(n)].bought = BoughtAfter(n) /\ LotBefore(n) \in Position
<1>1. ls = LotsAfterBuy(n, Quantity(n))
  BY DEF FilledLots
<1> QED BY <1>1, BoughtLots

\* What the lots of a purchase say of instruments.
Joins(ls, n) ==
  /\ DOMAIN ls = DOMAIN lots \cup {LotOf(n)} /\ ls[LotOf(n)].inst = LotBefore(n).inst
  /\ \A k \in DOMAIN lots : k # LotOf(n) => ls[k] = lots[k]
  /\ LotOf(n) \in DOMAIN lots => LotBefore(n) = lots[LotOf(n)]
  /\ LotOf(n) \notin DOMAIN lots => LotBefore(n).inst = Inst(n)

\* A purchase joins the lot of its order, or begins it.
LEMMA BoughtJoins ==
  ASSUME ReplayTypeOK, phase = "attempt", NEW n \in DOMAIN orders, FillFits(n),
         NEW ls, ls = FilledLots(n), Side(n) = "BUY"
  PROVE  Joins(ls, n)
<1>1. ls = LotsAfterBuy(n, Quantity(n))
  BY DEF FilledLots
<1>2. /\ DOMAIN ls = DOMAIN lots \cup {LotOf(n)} /\ ls[LotOf(n)].inst = LotBefore(n).inst
      /\ \A k \in DOMAIN lots : k # LotOf(n) => ls[k] = lots[k]
      /\ LotOf(n) \in DOMAIN lots => LotBefore(n) = lots[LotOf(n)]
      /\ LotOf(n) \notin DOMAIN lots => LotBefore(n).inst = Inst(n)
  BY <1>1, BoughtLots
<1> QED BY <1>2 DEF Joins

\* A fill is of an instrument that was held or is held now, and of no other.
LEMMA FilledHeld ==
  ASSUME ReplayTypeOK, OwnersFit, phase = "attempt", NEW n \in DOMAIN orders, FillFits(n),
         NEW ls, ls = FilledLots(n)
  PROVE  /\ \A l \in DOMAIN ls : ls[l].inst = Inst(n) \/ ls[l].inst \in Held(lots)
         /\ Inst(n) \in Held(lots) \/ Inst(n) \in Held(ls)
<1>1. Side(n) \in {"BUY", "SELL"}
  BY IntentTypes DEF ReplayTypeOK, Sides
<1>2. CASE Side(n) = "SELL"
  <2>1. /\ DOMAIN ls \subseteq DOMAIN lots
        /\ \A k \in DOMAIN ls : ls[k].inst = lots[k].inst
    BY <1>2, SoldLots DEF FilledLots
  <2>2. Inst(n) \in Held(lots)
    BY <1>2 DEF FillFits, Held
  <2> QED BY <2>1, <2>2 DEF Held
<1>3. CASE Side(n) = "BUY"
  <2>1. PICK l : l = LotOf(n)
    OBVIOUS
  <2>21. /\ DOMAIN ls = DOMAIN lots \cup {LotOf(n)} /\ ls[LotOf(n)].inst = LotBefore(n).inst
         /\ \A k \in DOMAIN lots : k # LotOf(n) => ls[k] = lots[k]
         /\ LotOf(n) \in DOMAIN lots => LotBefore(n) = lots[LotOf(n)]
         /\ LotOf(n) \notin DOMAIN lots => LotBefore(n).inst = Inst(n)
    <3>1. Joins(ls, n)
      BY <1>3, BoughtJoins
    <3> QED BY <3>1 DEF Joins
  <2>3. CASE l \in DOMAIN lots
    <3>1. Own(n)
      BY <1>3, <2>1, <2>3 DEF FillFits, OwnersFit
    <3>2. orders[n].filled # 0
      BY <3>1, IntentTypes DEF Own, ReplayTypeOK, Order
    <3>3. lots[l].inst = Inst(n)
      BY <1>3, <2>1, <2>3, <3>2 DEF OwnersFit
    <3>4. /\ DOMAIN ls = DOMAIN lots \cup {l} /\ ls[l].inst = lots[l].inst
          /\ \A k \in DOMAIN lots : k # l => ls[k] = lots[k]
      BY <2>1, <2>21, <2>3
    <3> QED BY <2>3, <3>3, <3>4 DEF Held
  <2>4. CASE l \notin DOMAIN lots
    <3>1. /\ DOMAIN ls = DOMAIN lots \cup {l} /\ ls[l].inst = Inst(n)
          /\ \A k \in DOMAIN lots : k # l => ls[k] = lots[k]
      BY <2>1, <2>21, <2>4
    <3> QED BY <2>4, <3>1 DEF Held
  <2> QED BY <2>3, <2>4
<1> QED BY <1>1, <1>2, <1>3

\* An attempt that leaves marks and lots alone.
LEMMA QuietMarks ==
  ASSUME ReplayTypeOK, MarksFit, phase = "attempt", NEW n \in DOMAIN orders, QuietAttempt(n)
  PROVE  MarksFit'
<1>1. /\ UNCHANGED <<now, book, tape, sites, full, lots, checked, live, marks, traded>>
      /\ phase' # "open" /\ phase' # "done"
  BY DEF QuietAttempt, Attempted, input
<1>2. SitesFit'
  BY <1>1 DEF MarksFit, SitesFit, BarTime
<1>3. ASSUME NEW i \in Instruments PROVE MarkFits(i)'
  <2>1. Backfilled(marks, i)' = Backfilled(marks, i)
    BY <1>1 DEF Backfilled
  <2>2. MarkFits(i)
    BY DEF MarksFit
  <2> QED BY <1>1, <2>1, <2>2 DEF MarkFits
<1> QED BY <1>1, <1>2, <1>3 DEF MarksFit, Held

\* A fill, after which its instrument may become live or cease to be, keeps the marks
\* exact.
LEMMA FillMarks ==
  ASSUME ReplayTypeOK, MarksFit, OwnersFit, phase = "attempt", NEW n \in DOMAIN orders, AttemptFills(n)
  PROVE  MarksFit'
<1>1. /\ FillFits(n) /\ Attempted(n, After(n, Quantity(n)))
      /\ lots' = FilledLots(n) /\ Refresh(Inst(n), lots')
      /\ traded' = [traded EXCEPT ![Inst(n)] = @ + Quantity(n)]
  BY FillParts
<1>2. PICK i \in Instruments : i = Inst(n)
  BY IntentTypes DEF ReplayTypeOK
<1> DEFINE lives == i \in Held(lots') \cup DOMAIN Factor
<1>3. Refresh(i, lots')
  BY <1>1, <1>2
<1>4. /\ lives => live' = live \cup {i}
      /\ ~lives => live' = live \ {i}
      /\ lives /\ i \notin live => marks' = Backfilled(marks, i)
      /\ ~lives \/ i \in live => marks' = marks
      /\ lives /\ i \notin live => checked' = [checked EXCEPT ![i] = Len(sites)]
      /\ ~lives /\ i \in live => checked' = [checked EXCEPT ![i] = Len(sites)]
      /\ lives /\ i \in live => checked' = checked
      /\ ~lives /\ i \notin live => checked' = checked
  <2>1. CASE lives
    BY <1>3, <2>1 DEF Refresh
  <2>2. CASE ~lives
    BY <1>3, <2>2 DEF Refresh
  <2> QED BY <2>1, <2>2
<1>5. /\ UNCHANGED <<now, book, tape, sites, full>> /\ phase' # "open" /\ phase' # "done"
  BY <1>1 DEF Attempted, input
<1>6. PICK ls : ls = lots'
  OBVIOUS
<1>7. /\ \A l \in DOMAIN ls : ls[l].inst = i \/ ls[l].inst \in Held(lots)
      /\ i \in Held(lots) \/ i \in Held(ls)
  BY <1>1, <1>2, <1>6, FilledHeld
<1>8. Held(lots) \cup DOMAIN Factor \subseteq live
  BY DEF MarksFit
<1> HIDE DEF lives
<1>9. Held(ls) \cup DOMAIN Factor \subseteq live'
  <2>1. Held(ls) \subseteq {i} \cup Held(lots)
    BY <1>7 DEF Held
  <2>2. i \in Held(ls) \cup DOMAIN Factor => lives
    BY <1>6 DEF lives
  <2>3. \A j : j # i => (j \in live' <=> j \in live)
    BY <1>4
  <2>4. lives => i \in live'
    BY <1>4
  <2> QED BY <1>8, <2>1, <2>2, <2>3, <2>4
<1>10. i \in live \/ lives
  BY <1>6, <1>7, <1>8 DEF lives
<1>11. SitesFit'
  BY <1>5 DEF MarksFit, SitesFit, BarTime
<1>12. sites \in Seq(Site) /\ Len(sites) \in Nat /\ checked \in [Instruments -> Nat]
       /\ traded \in [Instruments -> Nat]
  BY DEF ReplayTypeOK, MarketTypeOK, MarkTypeOK
<1>13. ASSUME NEW j \in Instruments, j # i PROVE MarkFits(j)'
  <2>1. MarkFits(j) /\ (j \in live' <=> j \in live) /\ checked'[j] = checked[j] /\ traded'[j] = traded[j]
    BY <1>1, <1>2, <1>4, <1>12, <1>13 DEF MarksFit
  <2>2. PICK m2 : m2 = marks'
    OBVIOUS
  <2>3. Agree(m2, marks, j)
    <3>1. /\ DOMAIN Backfilled(marks, i) \subseteq DOMAIN marks \cup {i}
          /\ DOMAIN marks \subseteq DOMAIN Backfilled(marks, i)
          /\ \A k \in DOMAIN marks : k # i => Backfilled(marks, i)[k] = marks[k]
      BY BackfilledDomain
    <3> QED BY <1>4, <1>13, <2>2, <3>1 DEF Agree
  <2>4. CASE j \in live
    BY <1>5, <2>1, <2>2, <2>3, <2>4 DEF MarkFits, Agree
  <2>5. CASE j \notin live
    <3>1. Agree(LookUp(marks, tape, sites, checked[j], j), full, j)
      BY <2>1, <2>5, BackfilledIsLookUp DEF MarkFits
    <3>2. Agree(LookUp(m2, tape, sites, checked[j], j), full, j)
      BY <2>3, <3>1, LookUpLocal
    <3>3. Agree(Backfilled(marks, j)', full', j)
      BY <1>5, <2>1, <2>2, <3>2 DEF Backfilled, LookUp, Unread
    <3> QED BY <1>5, <2>1, <2>5, <3>3 DEF MarkFits
  <2> QED BY <2>4, <2>5
<1>14. MarkFits(i)'
  <2>1. MarkFits(i) /\ checked[i] \in Nat
    BY <1>12 DEF MarksFit
  <2>2. CASE lives
    <3>1. i \in live' /\ i \in live => marks' = marks
      BY <1>4, <2>2
    <3>2. Agree(marks', full', i)
      BY <1>4, <1>5, <2>1, <2>2 DEF MarkFits
    <3>3. checked'[i] <= Len(sites')
      BY <1>4, <1>5, <1>12, <2>1, <2>2 DEF MarkFits
    <3>4. i \in live'
      BY <1>4, <2>2
    <3> QED BY <1>5, <3>2, <3>3, <3>4 DEF MarkFits
  <2>3. CASE ~lives
    <3>1. i \in live /\ i \notin live' /\ marks' = marks /\ checked'[i] = Len(sites)
      BY <1>4, <1>10, <1>12, <2>3
    <3>2. Agree(marks, full, i)
      BY <2>1, <3>1 DEF MarkFits
    <3>3. LookUp(marks, tape, sites, Len(sites), i) = marks
      BY <1>12, NothingUnread
    <3>4. Backfilled(marks, i)' = LookUp(marks, tape, sites, Len(sites), i)
      BY <1>5, <3>1 DEF Backfilled, LookUp, Unread
    <3>5. Agree(Backfilled(marks, i)', full', i)
      BY <1>5, <3>2, <3>3, <3>4
    <3>6. checked'[i] <= Len(sites') /\ checked'[i] = Len(sites')
      BY <1>5, <1>12, <3>1
    <3> QED BY <1>5, <3>1, <3>5, <3>6 DEF MarkFits
  <2> QED BY <2>2, <2>3
<1>15. \A j \in Instruments : MarkFits(j)'
  BY <1>13, <1>14
<1> QED BY <1>5, <1>6, <1>9, <1>11, <1>15 DEF MarksFit, Held

\* The last lookup of what is not live makes every mark exact.
LEMMA FinishMarks ==
  ASSUME ReplayTypeOK, MarksFit, Finish
  PROVE  MarksFit'
<1>1. PICK cold : cold = {Inst(n) : n \in DOMAIN orders} \ live
  OBVIOUS
<1>2. PICK m2 : m2 = marks'
  OBVIOUS
<1>3. /\ phase' = "done" /\ UNCHANGED <<book, now, orders, lots, tape, sites, live, full, traded>>
      /\ m2 = [i \in DOMAIN marks \cup {j \in cold : j \in DOMAIN Backfilled(marks, j)} |->
                 IF i \in cold THEN Backfilled(marks, i)[i] ELSE marks[i]]
      /\ checked' = [i \in Instruments |-> IF i \in cold THEN Len(sites) ELSE checked[i]]
  BY <1>1, <1>2 DEF Finish, input
<1>4. sites \in Seq(Site) /\ Len(sites) \in Nat /\ checked \in [Instruments -> Nat]
  BY DEF ReplayTypeOK, MarketTypeOK, MarkTypeOK
<1>5. cold \subseteq Instruments /\ cold \cap live = {}
  BY <1>1, IntentTypes DEF ReplayTypeOK
<1>6. ASSUME NEW i \in Instruments PROVE MarkFits(i)'
  <2>1. MarkFits(i)
    BY DEF MarksFit
  <2>2. CASE i \in cold
    <3>1. i \notin live
      BY <1>5, <2>2
    <3>2. Agree(Backfilled(marks, i), full, i)
      BY <2>1, <3>1 DEF MarkFits
    <3>3. DOMAIN marks \subseteq DOMAIN Backfilled(marks, i)
      BY BackfilledDomain
    <3>4. Agree(m2, Backfilled(marks, i), i)
      BY <1>3, <2>2, <3>3 DEF Agree
    <3>5. Agree(m2, full, i)
      BY <3>2, <3>4 DEF Agree
    <3>6. checked'[i] = Len(sites)
      BY <1>3, <2>2
    <3>7. LookUp(m2, tape, sites, Len(sites), i) = m2
      BY <1>4, NothingUnread
    <3>8. Backfilled(marks, i)' = LookUp(m2, tape, sites, Len(sites), i)
      BY <1>2, <1>3, <3>6 DEF Backfilled, LookUp, Unread
    <3>9. Agree(Backfilled(marks, i)', full', i)
      BY <1>3, <3>5, <3>7, <3>8
    <3>10. checked'[i] <= Len(sites') /\ checked'[i] = Len(sites')
      BY <1>3, <1>4, <3>6
    <3> QED BY <1>3, <3>1, <3>9, <3>10 DEF MarkFits
  <2>3. CASE i \notin cold
    <3>1. Agree(m2, marks, i)
      BY <1>3, <2>3 DEF Agree
    <3>2. checked'[i] = checked[i]
      BY <1>3, <2>3
    <3>3. CASE i \in live
      <4>1. Agree(marks', full', i)
        BY <1>2, <1>3, <2>1, <3>1, <3>3 DEF MarkFits, Agree
      <4> QED BY <1>3, <2>1, <3>2, <3>3, <4>1 DEF MarkFits
    <3>4. CASE i \notin live
      <4>1. Agree(LookUp(marks, tape, sites, checked[i], i), full, i)
        BY <2>1, <3>4, BackfilledIsLookUp DEF MarkFits
      <4>2. Agree(LookUp(m2, tape, sites, checked[i], i), full, i)
        BY <3>1, <4>1, LookUpLocal
      <4>3. Agree(Backfilled(marks, i)', full', i)
        BY <1>2, <1>3, <3>2, <4>2 DEF Backfilled, LookUp, Unread
      <4> QED BY <1>3, <2>1, <3>2, <3>4, <4>3 DEF MarkFits
    <3> QED BY <3>3, <3>4
  <2> QED BY <2>2, <2>3
<1>7. \A n \in DOMAIN orders : Inst(n) \in live \/ checked'[Inst(n)] = Len(sites)
  <2> TAKE n \in DOMAIN orders
  <2>1. Inst(n) \in Instruments
    BY IntentTypes DEF ReplayTypeOK
  <2> QED BY <1>1, <1>3, <2>1
<1>8. SitesFit'
  BY <1>3 DEF MarksFit, SitesFit, BarTime
<1> QED BY <1>3, <1>6, <1>7, <1>8 DEF MarksFit, Held, Inst, Intent


\* Nothing, in other units, is nothing.
LEMMA ScaledZero ==
  ASSUME NEW i \in DOMAIN Factor
  PROVE  Scaled(0, i) = 0
<1>1. PICK num \in Nat : num = Factor[i].num
  BY ChangeFacts
<1>2. PICK den \in Nat \ {0} : den = Factor[i].den
  BY ChangeFacts
<1>3. 0 * num = 0 /\ 0 \div den = 0
  BY <1>2
<1> QED BY <1>1, <1>2, <1>3 DEF Scaled

\* An order that has traded after a point of the timeline had traded before it.
LEMMA PassedShares ==
  ASSUME ClockTypeOK, AccountTypeOK, NEW due, due \subseteq DOMAIN Factor, NEW t,
         NEW n \in DOMAIN orders, Passed(due, t)[n].filled # 0
  PROVE  orders[n].filled # 0
<1>1. PICK c : c = ConvertOrders(due, t)[n]
  OBVIOUS
<1>2. c.filled # 0
  BY <1>1, PassedType DEF SameTrades
<1>3. c.filled = orders[n].filled \/ (Inst(n) \in due /\ c.filled = Scaled(orders[n].filled, Inst(n)))
  BY <1>1, ConvertKeeps
<1> QED BY <1>2, <1>3, ScaledZero

\* At the start no order has traded, and only the initial lots are known.
LEMMA InitOwners ==
  ASSUME Init
  PROVE  OwnersFit
<1>1. \A n \in DOMAIN orders : orders[n].filled = 0
  BY DEF Init, NewOrder
<1>2. DOMAIN lots = seen
  BY DEF Init
<1> QED BY <1>1, <1>2 DEF OwnersFit

\* A point of the timeline renames no lot, and an order without a trade has none after it.
LEMMA AdvanceOwners ==
  ASSUME ReplayTypeOK, OwnersFit, Advance
  PROVE  OwnersFit'
<1>1. ClockTypeOK /\ AccountTypeOK
  BY DEF ReplayTypeOK
<1>2. PICK t \in Nat : t = Min(Later)
  BY <1>1, NextPoint DEF Advance, ReplayTypeOK
<1>3. PICK due \in SUBSET DOMAIN Factor : due = {i \in DOMAIN Factor : Factor[i].at = t}
  OBVIOUS
<1>4. /\ lots' = ConvertLots(due) /\ orders' = Passed(due, t)
      /\ book' = book /\ seen' = seen
  BY <1>2, <1>3 DEF Advance, input, Passed
<1>5. /\ DOMAIN lots' = DOMAIN lots
      /\ \A l \in DOMAIN lots : lots'[l].inst = lots[l].inst
  BY <1>4, ConvertedLots
<1>6. DOMAIN orders' = DOMAIN orders
  BY <1>1, <1>4, PassedType DEF AccountTypeOK
<1>7. ASSUME NEW n \in DOMAIN orders, orders'[n].filled # 0
      PROVE  orders[n].filled # 0
  BY <1>1, <1>4, <1>7, PassedShares
<1>8. ASSUME NEW n \in DOMAIN orders PROVE Side(n)' = Side(n) /\ LotOf(n)' = LotOf(n) /\ Inst(n)' = Inst(n)
  BY <1>4 DEF Side, LotOf, Inst, Intent
<1> QED BY <1>4, <1>5, <1>6, <1>7, <1>8 DEF OwnersFit

\* Attempts without a fill change neither lots nor shares traded.
LEMMA QuietOwners ==
  ASSUME ReplayTypeOK, OwnersFit, phase = "attempt", NEW n \in DOMAIN orders, QuietAttempt(n)
  PROVE  OwnersFit'
<1>0. PICK s \in Statuses, f \in Nat : Attempted(n, [orders[n] EXCEPT !.status = s, !.frozen = f])
  BY DEF QuietAttempt
<1>01. orders[n] \in Order
  BY IntentTypes DEF ReplayTypeOK
<1>02. PICK o : o = [orders[n] EXCEPT !.status = s, !.frozen = f]
  OBVIOUS
<1>1. o \in Order /\ o.scaled = orders[n].scaled /\ o.filled = orders[n].filled
  BY <1>01, <1>02 DEF Order
<1>11. Attempted(n, o)
  BY <1>0, <1>02
<1>2. /\ DOMAIN orders' = DOMAIN orders /\ book' = book
      /\ \A k \in DOMAIN orders : orders'[k].filled = orders[k].filled
  BY <1>1, <1>11, AttemptedType
<1>3. lots' = lots /\ seen' = seen
  BY DEF QuietAttempt
<1>4. ASSUME NEW k \in DOMAIN orders PROVE Side(k)' = Side(k) /\ LotOf(k)' = LotOf(k) /\ Inst(k)' = Inst(k)
  BY <1>2 DEF Side, LotOf, Inst, Intent
<1> QED BY <1>2, <1>3, <1>4 DEF OwnersFit

\* A sale takes no lot's owner away, and a purchase begins a lot only where its
\* instrument has none and under an id that was never used.
LEMMA FillOwners ==
  ASSUME ReplayTypeOK, OwnersFit, phase = "attempt", NEW n \in DOMAIN orders, AttemptFills(n)
  PROVE  OwnersFit'
<1>1. /\ FillFits(n) /\ Attempted(n, After(n, Quantity(n)))
      /\ lots' = FilledLots(n)
      /\ seen' = IF Side(n) = "BUY" THEN seen \cup {LotOf(n)} ELSE seen
  BY FillParts
<1>11. FillFits(n)
  BY <1>1
<1>2. PICK o \in Order : o = After(n, Quantity(n)) /\ o.scaled = orders[n].scaled
  BY <1>1, AfterType
<1>3. /\ DOMAIN orders' = DOMAIN orders /\ book' = book
      /\ \A k \in DOMAIN orders : k # n => orders'[k] = orders[k]
  BY <1>1, <1>2, AttemptedType
<1>4. ASSUME NEW k \in DOMAIN orders PROVE Side(k)' = Side(k) /\ LotOf(k)' = LotOf(k) /\ Inst(k)' = Inst(k)
  BY <1>3 DEF Side, LotOf, Inst, Intent
<1>5. Side(n) \in {"BUY", "SELL"}
  BY IntentTypes DEF ReplayTypeOK, Sides
<1>6. PICK ls : ls = lots'
  OBVIOUS
<1>7. CASE Side(n) = "SELL"
  <2>1. ls = LotsAfterSell(LotOf(n), Quantity(n)) /\ seen' = seen
    BY <1>1, <1>6, <1>7 DEF FilledLots
  <2>2. /\ DOMAIN ls \subseteq DOMAIN lots
        /\ \A k \in DOMAIN ls : ls[k].inst = lots[k].inst
    BY <1>11, <1>7, <2>1, SoldLots
  <2>3. \A k \in DOMAIN orders : Side(k) = "BUY" => orders'[k] = orders[k]
    BY <1>3, <1>7
  <2> QED BY <1>3, <1>4, <1>6, <2>1, <2>2, <2>3 DEF OwnersFit
<1>8. CASE Side(n) = "BUY"
  <2>1. ls = LotsAfterBuy(n, Quantity(n)) /\ seen' = seen \cup {LotOf(n)}
    BY <1>1, <1>6, <1>8 DEF FilledLots
  <2>11. ls = FilledLots(n)
    BY <1>1, <1>6
  <2>2. /\ DOMAIN ls = DOMAIN lots \cup {LotOf(n)} /\ ls[LotOf(n)].inst = LotBefore(n).inst
        /\ \A k \in DOMAIN lots : k # LotOf(n) => ls[k] = lots[k]
        /\ LotOf(n) \in DOMAIN lots => LotBefore(n) = lots[LotOf(n)]
        /\ LotOf(n) \notin DOMAIN lots => LotBefore(n).inst = Inst(n)
    <3>1. Joins(ls, n)
      BY <1>11, <1>8, <2>11, BoughtJoins
    <3> QED BY <3>1 DEF Joins
  <2>3. DOMAIN lots \subseteq seen
    BY DEF OwnersFit
  <2>4. orders[n].filled \in Nat
    BY DEF ReplayTypeOK, AccountTypeOK, Order
  <2>5. CASE LotOf(n) \in DOMAIN lots
    <3>1. orders[n].filled # 0
      BY <1>1, <1>8, <2>3, <2>4, <2>5 DEF FillFits, Own
    <3>2. DOMAIN ls = DOMAIN lots /\ \A k \in DOMAIN lots : ls[k].inst = lots[k].inst
      BY <2>2, <2>5
    <3>3. \A k \in DOMAIN orders : orders'[k].filled # 0 => orders[k].filled # 0
      BY <1>3, <3>1
    <3> QED BY <1>3, <1>4, <1>6, <2>1, <3>2, <3>3, <2>3 DEF OwnersFit
  <2>6. CASE LotOf(n) \notin DOMAIN lots
    <3>1. Inst(n) \notin Held(lots) /\ LotOf(n) \notin seen
      BY <1>1, <1>8, <2>6 DEF FillFits, Own
    <3>2. \A k \in DOMAIN lots : k # LotOf(n) /\ lots[k].inst # Inst(n) /\ ls[k] = lots[k]
      BY <2>2, <3>1, <2>3 DEF Held
    <3>3. ASSUME NEW k \in DOMAIN orders, Side(k) = "BUY", orders'[k].filled # 0, k # n
          PROVE  /\ LotOf(k) \in seen
                 /\ LotOf(k) \in DOMAIN lots =>
                      \A l \in DOMAIN lots : lots[l].inst = Inst(k) <=> l = LotOf(k)
      BY <1>3, <3>3 DEF OwnersFit
    <3>4. ls[LotOf(n)].inst = Inst(n)
      BY <2>2, <2>6
    <3>5. ASSUME NEW k \in DOMAIN orders, Side(k) = "BUY", orders'[k].filled # 0
          PROVE  /\ LotOf(k) \in seen'
                 /\ LotOf(k) \in DOMAIN ls =>
                      \A l \in DOMAIN ls : ls[l].inst = Inst(k) <=> l = LotOf(k)
      <4>1. CASE k = n
        BY <2>1, <2>2, <3>2, <3>4, <4>1
      <4>2. CASE k # n
        <5>1. LotOf(k) \in seen /\ LotOf(k) # LotOf(n)
          BY <3>1, <3>3, <3>5, <4>2
        <5>2. SUFFICES ASSUME LotOf(k) \in DOMAIN ls
                       PROVE  \A l \in DOMAIN ls : ls[l].inst = Inst(k) <=> l = LotOf(k)
          BY <2>1, <5>1
        <5>3. LotOf(k) \in DOMAIN lots
          BY <2>2, <5>1, <5>2
        <5>4. \A l \in DOMAIN lots : lots[l].inst = Inst(k) <=> l = LotOf(k)
          BY <3>3, <3>5, <4>2, <5>3
        <5>5. Inst(k) # Inst(n)
          BY <3>2, <5>3, <5>4
        <5> QED BY <2>2, <3>2, <3>4, <5>1, <5>4, <5>5
      <4> QED BY <4>1, <4>2
    <3>6. DOMAIN ls \subseteq seen'
      BY <2>1, <2>2, <2>3
    <3> QED BY <1>3, <1>4, <1>6, <3>5, <3>6 DEF OwnersFit
  <2> QED BY <2>5, <2>6
<1> QED BY <1>5, <1>7, <1>8

-----------------------------------------------------------------------------
(* The inductive invariant.                                                *)

ReplayIInv == ReplayTypeOK /\ MarksFit /\ OwnersFit

\* Every step keeps the invariant.
LEMMA NextKeepsReplay ==
  ASSUME ReplayIInv, [Next]_vars
  PROVE  ReplayIInv'
<1>1. ReplayTypeOK /\ MarksFit /\ OwnersFit
  BY DEF ReplayIInv
<1>2. CASE Advance
  BY <1>1, <1>2, AdvanceType, AdvanceMarks, AdvanceOwners DEF ReplayIInv
<1>3. CASE Open
  <2>1. OwnersFit'
    BY <1>1, <1>3 DEF Open, input, OwnersFit, Side, LotOf, Inst, Intent
  <2> QED BY <1>1, <1>3, <2>1, OpenType, OpenMarks DEF ReplayIInv
<1>4. CASE Finish
  <2>1. OwnersFit'
    BY <1>1, <1>4 DEF Finish, input, OwnersFit, Side, LotOf, Inst, Intent
  <2> QED BY <1>1, <1>4, <2>1, FinishType, FinishMarks DEF ReplayIInv
<1>5. ASSUME NEW n \in DOMAIN orders, phase = "attempt",
             AttemptWaits(n) \/ AttemptFreezes(n) \/ AttemptRefused(n)
      PROVE  ReplayIInv'
  BY <1>1, <1>5, QuietAttempts, QuietType, QuietMarks, QuietOwners DEF ReplayIInv
<1>6. ASSUME NEW n \in DOMAIN orders, phase = "attempt", AttemptFills(n)
      PROVE  ReplayIInv'
  BY <1>1, <1>6, FillType, FillMarks, FillOwners DEF ReplayIInv
<1>7. CASE UNCHANGED vars
  <2>1. ReplayTypeOK'
    BY <1>1, <1>7 DEF vars, ReplayTypeOK, ClockTypeOK, AccountTypeOK, MarketTypeOK, MarkTypeOK, Inst, Intent
  <2>2. MarksFit'
    BY <1>1, <1>7 DEF vars, MarksFit, SitesFit, MarkFits, Held, Inst, Intent, Backfilled, BarTime
  <2>3. OwnersFit'
    BY <1>1, <1>7 DEF vars, OwnersFit, Side, LotOf, Inst, Intent
  <2> QED BY <2>1, <2>2, <2>3 DEF ReplayIInv
<1> QED BY <1>2, <1>3, <1>4, <1>5, <1>6, <1>7 DEF Next

\* The replay of joint_return_replay keeps its types, reads each mark from the
\* latest site its instrument had a price at, and never lets two lots of one
\* instrument grow out of purchases.
THEOREM ReplayInvariant == Spec => []ReplayIInv
<1>1. Init => ReplayIInv
  BY InitType, InitMarks, InitOwners DEF ReplayIInv
<1>2. ReplayIInv /\ [Next]_vars => ReplayIInv'
  BY NextKeepsReplay
<1> QED BY <1>1, <1>2, PTL DEF Spec

\* A mark that is looked up lazily is the one an eager replay holds.
THEOREM MarksAlwaysExact == Spec => []MarksAreExact
<1>1. ReplayIInv => MarksAreExact
  BY MarksFitExact DEF ReplayIInv
<1> QED BY <1>1, ReplayInvariant, PTL

-----------------------------------------------------------------------------
(* Fills are legal: the clocks of an order.                                *)

Opposes(k, n) == Inst(k) = Inst(n) /\ Side(k) # Side(n)

\* An order that is not over has not reached its deadline, and no intent against
\* it came up after it; an exit order's deadline is the end of a session.
ClockFits(n) ==
  /\ Intent(n).exit => orders[n].deadline \in Ends
  /\ orders[n].status \notin Terminal =>
       /\ orders[n].beyond \/ now < orders[n].deadline
       /\ \A k \in DOMAIN orders :
            Opposes(k, n) => ~(Intent(n).available < Intent(k).available /\ Intent(k).available <= now)

ClocksFit == \A n \in DOMAIN orders : ClockFits(n)

\* While a minute is traded, the orders to come are eligible, and in M-LAG what was
\* traded and what is left make up the capacity of the bar.
MinuteFits ==
  /\ phase = "open" => \A i \in Instruments : traded[i] = 0
  /\ phase = "attempt" =>
       /\ \A n \in todo : Eligible(n)
       /\ mode = "M-LAG" => \A i \in Instruments : traded[i] + room[i] = tape[now][i].capacity

\* The shares of a lot are those bought on its days.
SharesFit == \A l \in DOMAIN lots : Total(lots[l].bought) <= lots[l].quantity

\* What an attempt takes up is one of the orders to do.
LEMMA FirstFits ==
  ASSUME ReplayTypeOK, phase = "attempt"
  PROVE  First \in todo
<1>1. ClockTypeOK /\ AccountTypeOK
  BY DEF ReplayTypeOK
<1>2. PICK len \in Nat : DOMAIN orders = 1 .. len
  BY <1>1, InputAssumption DEF ClockTypeOK, AccountTypeOK, ValidInput
<1>3. todo # {} /\ todo \subseteq 1 .. len
  BY <1>1, <1>2 DEF ClockTypeOK, AccountTypeOK
<1>4. \A k \in todo : Side(k) \in {"BUY", "SELL"} /\ k \in Nat
  BY <1>1, <1>2, <1>3, IntentTypes DEF Sides
<1>5. PICK S \in SUBSET todo : S = {k \in todo : Side(k) = "SELL"}
  OBVIOUS
<1>6. \E n \in todo : \A k \in todo : \/ Side(n) = "SELL" /\ Side(k) = "BUY"
                                      \/ Side(n) = Side(k) /\ n <= k
  <2>1. CASE S = {}
    <3>1. PICK n \in todo : \A k \in todo : n <= k
      BY <1>3, SmallestExists
    <3> QED BY <1>4, <1>5, <2>1, <3>1
  <2>2. CASE S # {}
    <3>1. S \subseteq 1 .. len
      BY <1>3
    <3>2. PICK n \in S : \A k \in S : n <= k
      BY <2>2, <3>1, SmallestExists
    <3> QED BY <1>4, <1>5, <3>2
  <2> QED BY <2>1, <2>2
<1>7. PICK f : f = First
  OBVIOUS
<1> QED BY <1>6, Zenon DEF First

\* An expiry leaves only orders that are not due, and exits that wait for another day.
LEMMA ExpireSettles ==
  ASSUME NEW os \in [DOMAIN book.intents -> Order], NEW t \in Nat, NEW n \in DOMAIN os,
         Intent(n).exit => os[n].deadline \in Ends,
         os[n].status \notin Terminal /\ Intent(n).exit => os[n].beyond \/ t <= os[n].deadline
  PROVE  /\ Intent(n).exit => Expire(os, t)[n].deadline \in Ends
         /\ Expire(os, t)[n].status \notin Terminal =>
              /\ os[n].status \notin Terminal
              /\ Expire(os, t)[n].beyond \/ t < Expire(os, t)[n].deadline
<1>1. PICK o \in Order : o = os[n]
  OBVIOUS
<1>2. PICK d : d = DayOf(o.deadline)
  OBVIOUS
<1>3. CASE o.status \in Terminal \/ o.beyond \/ t < o.deadline
  BY <1>1, <1>3 DEF Expire
<1>4. CASE ~(o.status \in Terminal \/ o.beyond \/ t < o.deadline) /\ (~Intent(n).exit \/ HasBar(d, Inst(n)))
  <2>1. Expire(os, t)[n] = [o EXCEPT !.status = "EXPIRED"]
    BY <1>1, <1>2, <1>4 DEF Expire
  <2> QED BY <1>1, <1>4, <2>1 DEF Order, Terminal
<1>5. CASE ~(o.status \in Terminal \/ o.beyond \/ t < o.deadline) /\ ~(~Intent(n).exit \/ HasBar(d, Inst(n)))
  <2>1. PICK s, x : /\ s = IF o.filled > 0 THEN "PARTIAL" ELSE "WAITING"
                    /\ x = IF d < LastDay THEN SessionEnd(d + 1) ELSE o.deadline
    OBVIOUS
  <2>2. Expire(os, t)[n] = [o EXCEPT !.status = s, !.deadline = x, !.beyond = (d = LastDay)]
    BY <1>1, <1>2, <1>5, <2>1 DEF Expire
  <2>3. PICK p : p = Expire(os, t)[n]
    OBVIOUS
  <2>4. p.deadline = x /\ p.beyond = (d = LastDay) /\ o.status \notin Terminal
    BY <1>5, <2>2, <2>3 DEF Order
  <2>5. PICK e \in Days : o.deadline = SessionEnd(e)
    BY <1>1, <1>5 DEF Ends
  <2>6. d = e /\ d \in Nat /\ d <= LastDay /\ LastDay \in Nat
    BY <1>2, <2>5, EndFacts, InputTypes
  <2>7. t <= o.deadline
    BY <1>1, <1>5
  <2>8. CASE d < LastDay
    <3>1. d + 1 \in Days /\ d < d + 1
      BY <2>6, <2>8 DEF Days
    <3>2. x \in Ends
      BY <2>1, <2>8, <3>1 DEF Ends
    <3>3. SessionEnd(d) < SessionEnd(d + 1) /\ SessionEnd(d) \in Nat /\ SessionEnd(d + 1) \in Nat
      BY <2>5, <2>6, <3>1, EndsGrow, EndFacts
    <3>4. t < x
      BY <2>1, <2>5, <2>6, <2>7, <2>8, <3>3
    <3> QED BY <1>1, <2>3, <2>4, <3>2, <3>4
  <2>9. CASE ~(d < LastDay)
    <3>1. d = LastDay /\ x = o.deadline
      BY <2>1, <2>6, <2>9
    <3> QED BY <1>1, <2>3, <2>4, <3>1
  <2> QED BY <2>8, <2>9
<1> QED BY <1>3, <1>4, <1>5

\* An arrival ends what is left of the older orders against it.
LEMMA ActivateSettles ==
  ASSUME NEW os \in [DOMAIN book.intents -> Order], NEW t, NEW n \in DOMAIN os,
         Activate(os, t)[n].status \notin Terminal
  PROVE  /\ os[n].status \notin Terminal
         /\ \A k \in DOMAIN os :
              Opposes(k, n) => ~(Intent(k).available = t /\ Intent(n).available < t)
<1>1. PICK o \in Order : o = os[n]
  OBVIOUS
<1>2. [o EXCEPT !.status = "CANCELLED"].status \in Terminal
  BY DEF Order, Terminal
<1>3. ASSUME NEW k \in DOMAIN os, Opposes(k, n), Intent(k).available = t, Intent(n).available < t,
             o.status \notin Terminal
      PROVE  FALSE
  <2>1. Activate(os, t)[n] = [o EXCEPT !.status = "CANCELLED"]
    BY <1>1, <1>3 DEF Activate, Opposes
  <2> QED BY <1>2, <2>1
<1>4. o.status \in Terminal => Activate(os, t)[n] = o
  BY <1>1 DEF Activate
<1> QED BY <1>1, <1>3, <1>4

\* At the start no time has passed.
LEMMA InitClocks ==
  ASSUME Init
  PROVE  ClocksFit /\ MinuteFits
<1>1. ReplayTypeOK /\ ClockTypeOK /\ AccountTypeOK
  BY InitType DEF ReplayTypeOK
<1>2. now = 0 /\ phase = "wait"
  BY DEF Init
<1>3. ASSUME NEW n \in DOMAIN orders PROVE ClockFits(n)
  <2>1. /\ orders[n].deadline = Intent(n).expires
    BY <1>3 DEF Init, NewOrder, Intent
  <2>2. ValidIntent(Intent(n)) /\ Intent(n).available \in Nat /\ Intent(n).effective \in Nat
        /\ Intent(n).expires \in Nat /\ Intent(n).effective < Intent(n).expires
    BY <1>1, IntentTypes
  <2>3. Intent(n).exit => Intent(n).expires \in Ends
    BY <2>2 DEF ValidIntent
  <2>4. now < orders[n].deadline
    BY <1>2, <2>1, <2>2
  <2>5. \A k \in DOMAIN orders : Intent(k).available \in Nat
    BY <1>1, IntentTypes
  <2>6. \A k \in DOMAIN orders : ~(Intent(n).available < Intent(k).available /\ Intent(k).available <= now)
    BY <1>2, <2>2, <2>5
  <2> QED BY <2>1, <2>3, <2>4, <2>6 DEF ClockFits
<1> QED BY <1>2, <1>3 DEF ClocksFit, MinuteFits

\* No point of the timeline is passed over, so an expiry or an arrival is met when it is due.
LEMMA AdvanceClocks ==
  ASSUME ReplayTypeOK, ClocksFit, Advance
  PROVE  ClocksFit' /\ MinuteFits'
<1>1. ClockTypeOK /\ AccountTypeOK
  BY DEF ReplayTypeOK
<1>2. PICK t \in Nat : /\ t = Min(Later) /\ now < t /\ t <= Last
                       /\ \A u \in Timeline : u > now => t <= u
  BY <1>1, NextPoint DEF Advance
<1>3. PICK due \in SUBSET DOMAIN Factor : due = {i \in DOMAIN Factor : Factor[i].at = t}
  OBVIOUS
<1>4. PICK cs \in [DOMAIN book.intents -> Order] : cs = ConvertOrders(due, t)
  BY <1>1, ConvertedOrdersType
<1>5. PICK es \in [DOMAIN book.intents -> Order] : es = Expire(cs, t)
  BY <1>1, ExpiredOrdersType
<1>6. PICK as \in [DOMAIN book.intents -> Order] : as = Activate(es, t)
  BY ActivatedOrdersType
<1>7. /\ orders' = as /\ now' = t /\ book' = book /\ phase' \in {"open", "wait"}
      /\ traded' = [i \in Instruments |-> 0]
  BY <1>2, <1>3, <1>4, <1>5, <1>6 DEF Advance, input
<1>8. DOMAIN orders = DOMAIN book.intents /\ now \in Nat /\ Last \in Nat
  BY <1>1, EndsBeforeLast, InputTypes DEF AccountTypeOK, ClockTypeOK, Days
<1>9. Ends \subseteq Timeline /\ Ends \subseteq Nat
  BY EndFacts DEF Timeline, Ends
<1>10. \A k \in DOMAIN orders : Intent(k).available \in Nat
  BY <1>1, IntentTypes
<1>11. ASSUME NEW k \in DOMAIN orders, Intent(k).available <= Last PROVE Intent(k).available \in Timeline
  BY <1>11 DEF Timeline
<1>12. ASSUME NEW n \in DOMAIN orders
       PROVE  /\ Intent(n).exit => as[n].deadline \in Ends
              /\ as[n].status \notin Terminal =>
                   /\ as[n].beyond \/ t < as[n].deadline
                   /\ \A k \in DOMAIN orders :
                        Opposes(k, n) => ~(Intent(n).available < Intent(k).available /\ Intent(k).available <= t)
  <2>1. ClockFits(n)
    BY DEF ClocksFit
  <2>2. cs[n].status = orders[n].status /\ cs[n].deadline = orders[n].deadline
        /\ cs[n].beyond = orders[n].beyond
    BY <1>1, <1>4, ConvertKeeps
  <2>3. orders[n].deadline \in Nat
    BY <1>1 DEF AccountTypeOK, Order
  <2>4. Intent(n).exit => cs[n].deadline \in Ends
    BY <2>1, <2>2 DEF ClockFits
  <2>5. ASSUME cs[n].status \notin Terminal, Intent(n).exit PROVE cs[n].beyond \/ t <= cs[n].deadline
    <3>1. orders[n].beyond \/ now < orders[n].deadline
      BY <2>1, <2>2, <2>5 DEF ClockFits
    <3>2. orders[n].deadline \in Timeline
      BY <1>9, <2>2, <2>4, <2>5
    <3> QED BY <1>2, <2>2, <3>1, <3>2
  <2>6. /\ Intent(n).exit => es[n].deadline \in Ends
        /\ es[n].status \notin Terminal => cs[n].status \notin Terminal /\ (es[n].beyond \/ t < es[n].deadline)
    BY <1>5, <1>8, <2>4, <2>5, ExpireSettles
  <2>7. as[n].deadline = es[n].deadline /\ as[n].beyond = es[n].beyond
    BY <1>6, <1>8, ActivateKeeps
  <2>8. ASSUME as[n].status \notin Terminal
        PROVE  /\ es[n].status \notin Terminal
               /\ \A k \in DOMAIN orders : Opposes(k, n) => ~(Intent(k).available = t /\ Intent(n).available < t)
    BY <1>6, <1>8, <2>8, ActivateSettles
  <2>9. ASSUME as[n].status \notin Terminal, NEW k \in DOMAIN orders, Opposes(k, n),
               Intent(n).available < Intent(k).available, Intent(k).available <= t
        PROVE  FALSE
    <3>1. orders[n].status \notin Terminal
      BY <2>2, <2>6, <2>8, <2>9
    <3>2. ~(Intent(k).available <= now)
      BY <2>1, <2>9, <3>1 DEF ClockFits
    <3>3. Intent(k).available \in Timeline
      BY <1>2, <1>8, <1>10, <1>11, <2>9
    <3>4. t <= Intent(k).available
      BY <1>2, <1>8, <1>10, <3>2, <3>3
    <3>5. Intent(k).available = t
      BY <1>10, <2>9, <3>4
    <3> QED BY <2>8, <2>9, <3>5
  <2> QED BY <2>6, <2>7, <2>8, <2>9
<1>13. ASSUME NEW n \in DOMAIN orders PROVE ClockFits(n)'
  <2>1. \A k : Intent(k)' = Intent(k) /\ Opposes(k, n)' = Opposes(k, n)
    BY <1>7 DEF Intent, Opposes, Inst, Side
  <2> QED BY <1>7, <1>8, <1>12, <1>13, <2>1 DEF ClockFits
<1>14. ClocksFit'
  BY <1>7, <1>8, <1>13 DEF ClocksFit
<1>15. MinuteFits'
  BY <1>7 DEF MinuteFits
<1> QED BY <1>14, <1>15

\* The minute opens with its capacity and the orders that are eligible then.
LEMMA OpenClocks ==
  ASSUME ReplayTypeOK, ClocksFit, MinuteFits, Open
  PROVE  ClocksFit' /\ MinuteFits'
<1>1. PICK bars : /\ tape' = Put(tape, now, bars)
                  /\ room' = [i \in Instruments |-> bars[i].capacity]
  BY DEF Open
<1>2. /\ UNCHANGED <<book, mode, now, orders, traded>> /\ phase = "open" /\ phase' # "open"
      /\ todo' = {n \in DOMAIN orders : Eligible(n)}
  BY DEF Open, input
<1>3. ClocksFit'
  BY <1>2 DEF ClocksFit, ClockFits, Opposes, Inst, Side, Intent
<1>4. \A n : Eligible(n)' = Eligible(n)
  BY <1>2 DEF Eligible, Intent, Today
<1>5. tape'[now] = bars
  BY <1>1 DEF Put
<1>6. ReplayTypeOK'
  BY OpenType
<1>7. \A i \in Instruments : traded'[i] + room'[i] = tape'[now'][i].capacity
  <2> SUFFICES ASSUME NEW i \in Instruments PROVE traded'[i] + room'[i] = tape'[now'][i].capacity
    OBVIOUS
  <2>1. traded'[i] = 0
    BY <1>2 DEF MinuteFits
  <2>2. room'[i] = bars[i].capacity /\ room'[i] \in Nat
    BY <1>1, <1>6 DEF ReplayTypeOK, MarketTypeOK
  <2> QED BY <1>2, <1>5, <2>1, <2>2
<1>8. MinuteFits'
  BY <1>2, <1>4, <1>7 DEF MinuteFits
<1> QED BY <1>3, <1>8

\* An attempt decides an order that was eligible and leaves the others as they were.
LEMMA AttemptedClocks ==
  ASSUME ReplayTypeOK, ClocksFit, MinuteFits, phase = "attempt", NEW n \in DOMAIN orders,
         NEW o \in Order, o.scaled = orders[n].scaled,
         o.deadline = orders[n].deadline, o.beyond = orders[n].beyond, Attempted(n, o)
  PROVE  /\ ClocksFit' /\ phase' # "open"
         /\ \A k \in todo' : Eligible(k)'
<1>1. /\ n = First /\ todo' = todo \ {n} /\ UNCHANGED <<book, mode, now, tape>> /\ phase' # "open"
  BY DEF Attempted, input
<1>2. /\ DOMAIN orders' = DOMAIN orders /\ orders'[n] = o
      /\ \A k \in DOMAIN orders : k # n => orders'[k] = orders[k]
  BY AttemptedType
<1>3. Eligible(n)
  BY <1>1, FirstFits DEF MinuteFits
<1>4. \A k \in DOMAIN orders : ClockFits(k)
  BY DEF ClocksFit
<1>5. ASSUME NEW k \in DOMAIN orders PROVE ClockFits(k)'
  <2>0. \A j : Intent(j)' = Intent(j) /\ Opposes(j, k)' = Opposes(j, k)
    BY <1>1 DEF Intent, Opposes, Inst, Side
  <2>1. orders'[k].deadline = orders[k].deadline /\ orders'[k].beyond = orders[k].beyond
    BY <1>2
  <2>2. orders'[k].status \notin Terminal => orders[k].status \notin Terminal
    BY <1>2, <1>3 DEF Eligible
  <2> QED BY <1>1, <1>2, <1>4, <2>0, <2>1, <2>2 DEF ClockFits
<1>6. ASSUME NEW k \in todo' PROVE Eligible(k)'
  <2>1. k \in todo /\ k # n /\ k \in DOMAIN orders
    BY <1>1 DEF ReplayTypeOK, AccountTypeOK
  <2>2. Eligible(k)
    BY <2>1 DEF MinuteFits
  <2>3. orders'[k] = orders[k]
    BY <1>2, <2>1
  <2> QED BY <1>1, <2>2, <2>3 DEF Eligible, Intent, Today
<1> QED BY <1>1, <1>2, <1>5, <1>6 DEF ClocksFit


\* An attempt that trades nothing leaves the capacity alone.
LEMMA QuietClocks ==
  ASSUME ReplayTypeOK, ClocksFit, MinuteFits, phase = "attempt", NEW n \in DOMAIN orders,
         QuietAttempt(n)
  PROVE  ClocksFit' /\ MinuteFits'
<1>1. PICK s \in Statuses, f \in Nat : Attempted(n, [orders[n] EXCEPT !.status = s, !.frozen = f])
  BY DEF QuietAttempt
<1>2. orders[n] \in Order
  BY IntentTypes DEF ReplayTypeOK
<1>3. PICK o : o = [orders[n] EXCEPT !.status = s, !.frozen = f]
  OBVIOUS
<1>4. /\ o \in Order /\ o.scaled = orders[n].scaled
      /\ o.deadline = orders[n].deadline /\ o.beyond = orders[n].beyond
  BY <1>2, <1>3 DEF Order
<1>5. Attempted(n, o)
  BY <1>1, <1>3
<1>6. ClocksFit' /\ phase' # "open" /\ \A k \in todo' : Eligible(k)'
  BY <1>4, <1>5, AttemptedClocks
<1>7. UNCHANGED <<mode, now, tape, room, traded>>
  BY <1>5 DEF QuietAttempt, Attempted, input
<1> QED BY <1>6, <1>7 DEF MinuteFits

\* A fill takes from the capacity what it trades.
LEMMA FillClocks ==
  ASSUME ReplayTypeOK, ClocksFit, MinuteFits, phase = "attempt", NEW n \in DOMAIN orders,
         AttemptFills(n)
  PROVE  ClocksFit' /\ MinuteFits'
<1>1. FillFits(n) /\ Attempted(n, After(n, Quantity(n)))
  BY FillParts
<1>2. PICK o \in Order : /\ o = After(n, Quantity(n)) /\ o.scaled = orders[n].scaled
                         /\ o.deadline = orders[n].deadline /\ o.beyond = orders[n].beyond
  BY <1>1, AfterType
<1>3. ClocksFit' /\ phase' # "open" /\ \A k \in todo' : Eligible(k)'
  BY <1>1, <1>2, AttemptedClocks
<1>4. UNCHANGED <<mode, now, tape>>
  BY <1>1 DEF Attempted, input
<1>5. PICK i \in Instruments, q \in Nat : i = Inst(n) /\ q = Quantity(n)
  BY <1>1, IntentTypes DEF ReplayTypeOK, FillFits
<1>6. /\ room' = IF mode = "M-LAG" THEN [room EXCEPT ![i] = @ - q] ELSE room
      /\ traded' = [traded EXCEPT ![i] = @ + q]
  BY <1>5, FillParts
<1>7. ASSUME mode = "M-LAG", NEW j \in Instruments
      PROVE  traded'[j] + room'[j] = traded[j] + room[j]
  <2>1. room \in [Instruments -> Nat] /\ traded \in [Instruments -> Nat]
    BY DEF ReplayTypeOK, MarketTypeOK
  <2>2. CASE j = i
    <3>1. PICK a \in Nat, b \in Nat : a = traded[i] /\ b = room[i]
      BY <2>1
    <3>2. traded'[j] = a + q /\ room'[j] = b - q
      BY <1>6, <1>7, <2>1, <2>2, <3>1
    <3> QED BY <2>2, <3>1, <3>2
  <2>3. CASE j # i
    BY <1>6, <1>7, <2>1, <2>3
  <2> QED BY <2>2, <2>3
<1> QED BY <1>3, <1>4, <1>7 DEF MinuteFits

-----------------------------------------------------------------------------
(* Fills are legal: the shares of a lot by day.                            *)

\* Which days are below which.
LEMMA DaysBelow ==
  ASSUME NEW m \in Nat, NEW f \in [0 .. m -> Nat], NEW d \in 0 .. m + 1
  PROVE  /\ [e \in 0 .. d - 1 |-> f[e]] \in [0 .. d - 1 -> Nat]
         /\ IsFiniteSet(0 .. d - 1) /\ 0 .. d - 1 \subseteq 0 .. m
         /\ Total([e \in 0 .. d - 1 |-> f[e]]) \in Nat
<1>1. d \in Nat /\ d <= m + 1 /\ d - 1 \in Int
  OBVIOUS
<1>2. 0 .. d - 1 \subseteq 0 .. m
  BY <1>1
<1>3. IsFiniteSet(0 .. d - 1)
  BY <1>1, FS_Interval
<1>4. PICK D : D = 0 .. d - 1
  OBVIOUS
<1>5. PICK g \in [D -> Nat] : g = [e \in D |-> f[e]]
  BY <1>2, <1>4
<1>6. Total(g) \in Nat
  BY <1>3, <1>4, TotalType
<1> QED BY <1>2, <1>3, <1>4, <1>5, <1>6

Below(f, d) == Total([e \in 0 .. d - 1 |-> f[e]])

\* One more day.
LEMMA BelowNext ==
  ASSUME NEW m \in Nat, NEW f \in [0 .. m -> Nat], NEW d \in 0 .. m
  PROVE  Below(f, d) \in Nat /\ Below(f, d + 1) = Below(f, d) + f[d]
<1>1. d \in Nat /\ (d + 1) - 1 = d /\ 0 .. d \subseteq 0 .. m
  OBVIOUS
<1>2. \A k \in 0 .. d : f[k] \in Nat
  BY <1>1
<1>3. /\ Total([e \in 0 .. d |-> f[e]]) = Total([e \in 0 .. d - 1 |-> f[e]]) + f[d]
      /\ Total([e \in 0 .. d - 1 |-> f[e]]) \in Nat
  BY <1>1, <1>2, TotalPrefix
<1> QED BY <1>1, <1>3 DEF Below

\* No day is below the first one, and all are below the one after the last.
LEMMA BelowEnds ==
  ASSUME NEW m \in Nat, NEW f \in [0 .. m -> Nat]
  PROVE  Below(f, 0) = 0 /\ Below(f, m + 1) = Total(f)
<1>1. 0 .. 0 - 1 = {} /\ (m + 1) - 1 = m
  OBVIOUS
<1>2. [e \in 0 .. 0 - 1 |-> f[e]] = Empty
  BY <1>1 DEF Empty
<1>3. [e \in 0 .. m |-> f[e]] = f
  OBVIOUS
<1> QED BY <1>1, <1>2, <1>3, TotalEmpty DEF Below

\* What is drawn leaves the earlier days, as much of it as they have.
LEMMA DrawnBelow ==
  ASSUME ReplayTypeOK, phase = "attempt", NEW n \in DOMAIN orders,
         NEW bought \in [0 .. LastDay -> Nat], NEW q \in Nat, q <= Below(bought, Today),
         NEW d \in 0 .. LastDay + 1
  PROVE  Below(Drawn(bought, q), d)
           = IF d <= Today THEN Larger(0, Below(bought, d) - q) ELSE Below(bought, d) - q
<1>1. Today \in Nat /\ Today <= LastDay /\ LastDay \in Nat
  BY AttemptPlace
<1>2. PICK after \in [0 .. LastDay -> Nat] : after = Drawn(bought, q)
  BY DrawnType
<1>3. PICK today \in Nat : today = Today /\ today <= LastDay
  BY <1>1
<1> DEFINE S == {c \in 0 .. LastDay + 1 :
                   Below(after, c)
                     = IF c <= today THEN Larger(0, Below(bought, c) - q) ELSE Below(bought, c) - q}
<1>4. 0 \in S
  <2>1. Below(after, 0) = 0 /\ Below(bought, 0) = 0
    BY <1>1, BelowEnds
  <2> QED BY <1>1, <2>1 DEF Larger
<1>5. ASSUME NEW c \in 0 .. (LastDay + 1) - 1, c \in S PROVE c + 1 \in S
  <2>1. c \in 0 .. LastDay /\ c + 1 \in 0 .. LastDay + 1
    BY <1>1
  <2>2. PICK x \in Nat, y \in Nat : x = Below(bought, c) /\ y = Below(after, c)
    BY <1>1, <2>1, BelowNext
  <2>3. PICK a \in Nat, b \in Nat : a = after[c] /\ b = bought[c]
    BY <2>1
  <2>4. Below(bought, c + 1) = x + b /\ Below(after, c + 1) = y + a
    <3>1. Below(bought, c + 1) = Below(bought, c) + bought[c]
      BY <1>1, <2>1, BelowNext
    <3>2. Below(after, c + 1) = Below(after, c) + after[c]
      BY <1>1, <2>1, BelowNext
    <3> QED BY <2>2, <2>3, <3>1, <3>2
  <2>5. y = IF c <= today THEN Larger(0, x - q) ELSE x - q
    BY <1>5, <2>2
  <2>6. CASE c < today
    <3>1. a = b - Smaller(b, Larger(0, q - x))
      BY <1>2, <1>3, <2>1, <2>2, <2>3, <2>6 DEF Drawn, Below
    <3>2. y + a = Larger(0, (x + b) - q)
      BY <2>5, <2>6, <3>1 DEF Larger, Smaller
    <3> QED BY <1>3, <2>1, <2>4, <2>6, <3>2
  <2>7. CASE c = today
    <3>1. a = b
      BY <1>2, <1>3, <2>1, <2>3, <2>7 DEF Drawn
    <3>2. q <= x
      BY <1>3, <2>2, <2>7
    <3>3. y = x - q
      BY <2>5, <2>7, <3>2 DEF Larger
    <3>4. ~(c + 1 <= today)
      BY <1>3, <2>7
    <3> QED BY <2>1, <2>4, <3>1, <3>3, <3>4
  <2>8. CASE c > today
    <3>1. a = b
      BY <1>2, <1>3, <2>1, <2>3, <2>8 DEF Drawn
    <3>2. y = x - q /\ ~(c + 1 <= today)
      BY <1>3, <2>1, <2>5, <2>8
    <3> QED BY <2>1, <2>4, <3>1, <3>2
  <2> QED BY <1>3, <2>1, <2>6, <2>7, <2>8
<1>6. d \in S
  <2> HIDE DEF S
  <2>1. LastDay + 1 \in Nat
    BY <1>1
  <2>2. 0 .. LastDay + 1 \subseteq S
    BY <1>4, <1>5, <2>1, CountUp
  <2> QED BY <2>2
<1> QED BY <1>2, <1>3, <1>6

\* So a sale takes from the lot what it sells.
LEMMA DrawnTotal ==
  ASSUME ReplayTypeOK, phase = "attempt", NEW n \in DOMAIN orders,
         NEW bought \in [0 .. LastDay -> Nat], NEW q \in Nat, q <= Below(bought, Today)
  PROVE  Total(Drawn(bought, q)) = Total(bought) - q
<1>1. Today \in Nat /\ Today <= LastDay /\ LastDay \in Nat
  BY AttemptPlace
<1>2. PICK after \in [0 .. LastDay -> Nat] : after = Drawn(bought, q)
  BY DrawnType
<1>3. LastDay + 1 \in 0 .. LastDay + 1 /\ ~(LastDay + 1 <= Today)
  BY <1>1
<1>4. Below(after, LastDay + 1) = Below(bought, LastDay + 1) - q
  BY <1>2, <1>3, DrawnBelow
<1> QED BY <1>1, <1>2, <1>4, BelowEnds

\* Converted shares are worth no more than the shares they were.
LEMMA ScaledLoses ==
  ASSUME NEW q \in Nat, NEW i \in DOMAIN Factor
  PROVE  Factor[i].den * Scaled(q, i) <= Factor[i].num * q
<1>1. PICK a \in Nat, b \in Nat \ {0} : a = Factor[i].num /\ b = Factor[i].den
  BY ChangeFacts
<1>2. PICK x \in Nat : x = q * a
  BY ProductType
<1>3. PICK c \in Nat, r \in Nat : c = x \div b /\ x = b * c + r
  <2>1. /\ x \div b \in Nat /\ x % b \in 0 .. (b - 1)
        /\ x = b * (x \div b) + (x % b)
    BY DivMod
  <2> QED BY <2>1
<1>4. Scaled(q, i) = c /\ b * c \in Nat
  BY <1>1, <1>2, <1>3, ProductType DEF Scaled
<1>5. a * q = x
  BY <1>2
<1> QED BY <1>1, <1>3, <1>4, <1>5

\* And no more shares could be.
LEMMA ScaledMost ==
  ASSUME NEW q \in Nat, NEW i \in DOMAIN Factor, NEW c \in Nat,
         Factor[i].den * c <= Factor[i].num * q
  PROVE  c <= Scaled(q, i)
<1>1. PICK a \in Nat, b \in Nat \ {0} : a = Factor[i].num /\ b = Factor[i].den
  BY ChangeFacts
<1>2. PICK x \in Nat : x = q * a
  BY ProductType
<1>3. PICK m \in Nat, r \in Nat : m = x \div b /\ x = b * m + r /\ r < b
  <2>1. /\ x \div b \in Nat /\ x % b \in 0 .. (b - 1)
        /\ x = b * (x \div b) + (x % b)
    BY DivMod
  <2> QED BY <2>1
<1>4. Scaled(q, i) = m /\ b * c <= x
  BY <1>1, <1>2, <1>3 DEF Scaled
<1>5. CASE m < c
  <2>1. PICK e \in Nat : c = m + 1 + e
    BY <1>5
  <2>2. PICK y \in Nat, z \in Nat : y = b * m /\ z = b * e
    BY ProductType
  <2>3. b * c = y + b + z
    BY <2>1, <2>2
  <2> QED BY <1>3, <1>4, <2>2, <2>3
<1> QED BY <1>4, <1>5

\* A sum of converted shares is worth no more than the converted sum.
LEMMA ScaledTotal ==
  ASSUME NEW i \in DOMAIN Factor, NEW D, IsFiniteSet(D), NEW f \in [D -> Nat],
         NEW q \in Nat, Total(f) <= q
  PROVE  Total([d \in D |-> Scaled(f[d], i)]) <= Scaled(q, i)
<1>1. PICK a \in Nat, b \in Nat : a = Factor[i].num /\ b = Factor[i].den
  BY ChangeFacts
<1>2. PICK s \in [D -> Nat] : s = [d \in D |-> Scaled(f[d], i)]
  <2>1. \A d \in D : Scaled(f[d], i) \in Nat
    BY ScaledType
  <2> QED BY <2>1
<1>3. PICK t \in Nat, u \in Nat : t = Total(s) /\ u = Total(f) /\ u <= q
  BY TotalType
<1>4. PICK big \in [D -> Nat] : big = [d \in D |-> a * f[d]]
  <2>1. \A d \in D : a * f[d] \in Nat
    BY ProductType
  <2> QED BY <2>1
<1>5. PICK small \in [D -> Nat] : small = [d \in D |-> b * s[d]]
  <2>1. \A d \in D : b * s[d] \in Nat
    BY ProductType
  <2> QED BY <2>1
<1>6. Total(big) = a * u /\ Total(small) = b * t
  BY <1>3, <1>4, <1>5, TotalTimes
<1>7. ASSUME NEW d \in D PROVE small[d] <= big[d]
  <2>1. f[d] \in Nat /\ s[d] = Scaled(f[d], i)
    BY <1>2
  <2>2. Factor[i].den * Scaled(f[d], i) <= Factor[i].num * f[d]
    BY <2>1, ScaledLoses
  <2> QED BY <1>1, <1>4, <1>5, <2>1, <2>2
<1>8. Total(small) <= Total(big)
  BY <1>7, TotalGrows
<1>9. a * u <= a * q
  <2>0. u <= q
    BY <1>3
  <2>1. PICK e \in Nat : q = u + e
    BY <2>0
  <2>2. PICK x \in Nat, y \in Nat : x = a * u /\ y = a * e
    BY ProductType
  <2>3. a * q = x + y
    BY <2>1, <2>2
  <2> QED BY <2>2, <2>3
<1>10. PICK x \in Nat, y \in Nat, z \in Nat : x = b * t /\ y = a * u /\ z = a * q
  BY ProductType
<1>11. b * t <= a * q
  BY <1>6, <1>8, <1>9, <1>10
<1> QED BY <1>1, <1>2, <1>3, <1>11, ScaledMost

\* Every step keeps the shares of each lot those of its days.
LEMMA SharesKept ==
  ASSUME ReplayTypeOK, SharesFit, Next
  PROVE  SharesFit'
<1>01. LastDay \in Nat
  BY InputTypes
<1>02. IsFiniteSet(0 .. LastDay)
  BY <1>01, FS_Interval
<1>03. \A l \in DOMAIN lots : lots[l] \in Position
  BY DEF ReplayTypeOK, AccountTypeOK
<1>0. /\ LastDay \in Nat /\ IsFiniteSet(0 .. LastDay)
      /\ \A l \in DOMAIN lots : lots[l] \in Position
  BY <1>01, <1>02, <1>03
<1>1. CASE Advance
  <2>1. PICK due \in SUBSET DOMAIN Factor : due = {i \in DOMAIN Factor : Factor[i].at = Min(Later)}
    OBVIOUS
  <2>2. PICK ls : ls = lots' /\ ls = ConvertLots(due)
    BY <1>1, <2>1 DEF Advance
  <2>3. ASSUME NEW l \in DOMAIN ls PROVE Total(ls[l].bought) <= ls[l].quantity
    <3>1. PICK p \in Position : p = lots[l] /\ l \in DOMAIN lots
      BY <1>0, <2>2, <2>3, ConvertedLots
    <3>2. Total(p.bought) <= p.quantity /\ p.bought \in [0 .. LastDay -> Nat] /\ p.quantity \in Nat
      BY <3>1 DEF SharesFit, Position
    <3>3. CASE p.inst \notin due
      <4>1. lots[l].inst \notin due => ConvertLots(due)[l] = lots[l]
        BY <3>1, ConvertedLots
      <4>2. ls[l] = p
        BY <2>2, <3>1, <3>3, <4>1
      <4> QED BY <3>2, <4>2
    <3>4. CASE p.inst \in due
      <4>1. /\ ls[l].quantity = Scaled(p.quantity, p.inst)
            /\ ls[l].bought = [d \in 0 .. LastDay |-> Scaled(p.bought[d], p.inst)]
        BY <2>2, <3>1, <3>4, ConvertedLots
      <4>2. PICK f \in [0 .. LastDay -> Nat], q \in Nat : f = p.bought /\ q = p.quantity /\ Total(f) <= q
        BY <3>2
      <4>3. Total([d \in 0 .. LastDay |-> Scaled(f[d], p.inst)]) <= Scaled(q, p.inst)
        BY <1>0, <3>4, <4>2, ScaledTotal
      <4> QED BY <4>1, <4>2, <4>3
    <3> QED BY <3>3, <3>4
  <2> QED BY <2>2, <2>3 DEF SharesFit
<1>2. ASSUME NEW n \in DOMAIN orders, phase = "attempt", AttemptFills(n) PROVE SharesFit'
  <2>1. FillFits(n)
    BY <1>2, FillParts
  <2>2. PICK ls : ls = lots' /\ ls = FilledLots(n)
    BY <1>2, FillParts
  <2>3. Side(n) \in {"BUY", "SELL"}
    BY IntentTypes DEF ReplayTypeOK, Sides
  <2>4. PICK q \in Nat : q = Quantity(n)
    BY <2>1 DEF FillFits
  <2>5. CASE Side(n) = "SELL"
    <3>1. /\ DOMAIN ls \subseteq DOMAIN lots
          /\ \A k \in DOMAIN lots : k # LotOf(n) => k \in DOMAIN ls /\ ls[k] = lots[k]
          /\ LotOf(n) \in DOMAIN ls =>
               /\ ls[LotOf(n)].quantity = lots[LotOf(n)].quantity - Quantity(n)
               /\ ls[LotOf(n)].bought = Drawn(lots[LotOf(n)].bought, Quantity(n))
      BY <1>2, <2>1, <2>2, <2>5, SoldLots DEF FilledLots
    <3>2. PICK l \in DOMAIN lots : l = LotOf(n)
      BY <2>1, <2>5 DEF FillFits
    <3>3. PICK f \in [0 .. LastDay -> Nat], m \in Nat :
            f = lots[l].bought /\ m = lots[l].quantity /\ Total(f) <= m
      BY <1>0 DEF Position, SharesFit
    <3>4. Sellable(l) = Below(f, Today)
      BY <3>3 DEF Sellable, Below
    <3>5. q <= Below(f, Today)
      BY <2>1, <2>4, <2>5, <3>2, <3>4 DEF FillFits
    <3>6. Total(Drawn(f, q)) = Total(f) - q
      BY <1>2, <3>5, DrawnTotal
    <3>7. Total(f) \in Nat
      BY <1>0, TotalType
    <3>8. l \in DOMAIN ls => Total(ls[l].bought) <= ls[l].quantity
      BY <2>4, <3>1, <3>2, <3>3, <3>6, <3>7
    <3> QED BY <2>2, <3>1, <3>2, <3>8 DEF SharesFit
  <2>6. CASE Side(n) = "BUY"
    <3>1. /\ DOMAIN ls = DOMAIN lots \cup {LotOf(n)} /\ LotBefore(n) \in Position
          /\ \A k \in DOMAIN lots : k # LotOf(n) => ls[k] = lots[k]
          /\ LotOf(n) \in DOMAIN lots => LotBefore(n) = lots[LotOf(n)]
          /\ LotOf(n) \notin DOMAIN lots =>
               /\ LotBefore(n).quantity = 0 /\ LotBefore(n).bought = [d \in 0 .. LastDay |-> 0]
          /\ ls[LotOf(n)].quantity = LotBefore(n).quantity + Quantity(n)
          /\ ls[LotOf(n)].bought = BoughtAfter(n)
      BY <1>2, <2>1, <2>2, <2>6, BoughtParts
    <3>2. PICK f \in [0 .. LastDay -> Nat], m \in Nat : f = LotBefore(n).bought /\ m = LotBefore(n).quantity
      BY <3>1 DEF Position
    <3>3. Total(f) <= m
      <4>1. CASE LotOf(n) \in DOMAIN lots
        BY <3>1, <3>2, <4>1 DEF SharesFit
      <4>2. CASE LotOf(n) \notin DOMAIN lots
        <5>1. f \in [0 .. LastDay -> {0}]
          BY <3>1, <3>2, <4>2
        <5>2. Total(f) = 0
          BY <5>1, TotalZero
        <5> QED BY <5>2
      <4> QED BY <4>1, <4>2
    <3>4. PICK d \in 0 .. LastDay : d = Today
      BY <1>2, AttemptPlace
    <3>5. PICK v \in Nat, w \in Nat : v = f[d] /\ w = f[d] + q
      OBVIOUS
    <3>6. BoughtAfter(n) = [f EXCEPT ![d] = w]
      BY <2>4, <3>2, <3>4, <3>5 DEF BoughtAfter
    <3>7. Total([f EXCEPT ![d] = w]) = Total(f) - v + w /\ Total(f) \in Nat
      BY <1>0, <3>5, TotalUpdate, TotalType
    <3>8. Total(ls[LotOf(n)].bought) <= ls[LotOf(n)].quantity
      <4>1. PICK x \in Nat : x = Total(f) /\ x <= m
        BY <3>3, <3>7
      <4>2. Total(BoughtAfter(n)) = x - v + w
        BY <3>6, <3>7, <4>1
      <4>3. w = v + q
        BY <3>5
      <4>4. ls[LotOf(n)].quantity = m + q
        BY <2>4, <3>1, <3>2
      <4>5. x - v + w <= m + q
        BY <4>1, <4>3
      <4> QED BY <3>1, <4>2, <4>4, <4>5
    <3>9. \A k \in DOMAIN ls : k # LotOf(n) => Total(ls[k].bought) <= ls[k].quantity
      BY <3>1 DEF SharesFit
    <3> QED BY <2>2, <3>8, <3>9 DEF SharesFit
  <2> QED BY <2>3, <2>5, <2>6
<1>3. CASE lots' = lots
  BY <1>3 DEF SharesFit
<1>4. ASSUME NEW n \in DOMAIN orders, AttemptWaits(n) \/ AttemptFreezes(n) \/ AttemptRefused(n)
      PROVE  lots' = lots
  BY <1>4 DEF AttemptWaits, AttemptFreezes, AttemptRefused, Ended
<1>5. Open \/ Finish => lots' = lots
  BY DEF Open, Finish
<1> QED BY <1>1, <1>2, <1>3, <1>4, <1>5 DEF Next

\* An initial lot was bought before the first day.
LEMMA InitShares ==
  ASSUME Init
  PROVE  SharesFit
<1>1. LastDay \in Nat /\ IsFiniteSet(0 .. LastDay) /\ 0 \in 0 .. LastDay
  BY InputTypes, FS_Interval
<1>2. ASSUME NEW l \in DOMAIN lots PROVE Total(lots[l].bought) <= lots[l].quantity
  <2>1. PICK q \in Nat : q = book.lots[l].quantity
    BY <1>2, InputAssumption DEF ValidInput, Init
  <2>2. /\ lots[l].quantity = q
        /\ lots[l].bought = [d \in 0 .. LastDay |-> IF d = 0 THEN q ELSE 0]
    BY <1>2, <2>1 DEF Init, InitialLot
  <2>3. PICK z \in [0 .. LastDay -> Nat] : z = [d \in 0 .. LastDay |-> 0]
    OBVIOUS
  <2>4. lots[l].bought = [z EXCEPT ![0] = q]
    BY <2>2, <2>3
  <2>5. Total(z) = 0
    BY <2>3, TotalZero
  <2>6. Total([z EXCEPT ![0] = q]) = Total(z) - z[0] + q
    BY <1>1, TotalUpdate
  <2>7. z[0] = 0
    BY <1>1, <2>3
  <2> QED BY <2>2, <2>4, <2>5, <2>6, <2>7
<1> QED BY <1>2 DEF SharesFit

-----------------------------------------------------------------------------
(* Fills are legal: the theorem.                                           *)

LegalIInv == ReplayIInv /\ ClocksFit /\ MinuteFits /\ SharesFit

\* Every step keeps what makes fills legal.
LEMMA NextKeepsLegal ==
  ASSUME LegalIInv, [Next]_vars
  PROVE  LegalIInv'
<1>1. ReplayTypeOK /\ ReplayIInv /\ ClocksFit /\ MinuteFits /\ SharesFit
  BY DEF LegalIInv, ReplayIInv
<1>2. ReplayIInv'
  BY <1>1, NextKeepsReplay
<1>3. CASE Advance
  BY <1>1, <1>2, <1>3, AdvanceClocks, SharesKept DEF Next, LegalIInv
<1>4. CASE Open
  BY <1>1, <1>2, <1>4, OpenClocks, SharesKept DEF Next, LegalIInv
<1>5. CASE Finish
  <2>1. UNCHANGED <<book, now, orders>> /\ phase' = "done"
    BY <1>5 DEF Finish, input
  <2>2. ClocksFit'
    BY <1>1, <2>1 DEF ClocksFit, ClockFits, Opposes, Inst, Side, Intent
  <2>3. MinuteFits'
    BY <2>1 DEF MinuteFits
  <2> QED BY <1>1, <1>2, <1>5, <2>2, <2>3, SharesKept DEF Next, LegalIInv
<1>6. ASSUME NEW n \in DOMAIN orders, phase = "attempt", n = First,
             AttemptWaits(n) \/ AttemptFreezes(n) \/ AttemptRefused(n)
      PROVE  LegalIInv'
  <2>1. ClocksFit' /\ MinuteFits'
    BY <1>1, <1>6, QuietAttempts, QuietClocks
  <2>2. lots' = lots
    BY <1>6 DEF AttemptWaits, AttemptFreezes, AttemptRefused, Ended
  <2>3. SharesFit'
    BY <1>1, <2>2 DEF SharesFit
  <2> QED BY <1>2, <2>1, <2>3 DEF LegalIInv
<1>7. ASSUME NEW n \in DOMAIN orders, phase = "attempt", n = First, AttemptFills(n)
      PROVE  LegalIInv'
  <2>1. ClocksFit' /\ MinuteFits'
    BY <1>1, <1>7, FillClocks
  <2>2. Next
    BY <1>7 DEF Next
  <2> QED BY <1>1, <1>2, <2>1, <2>2, SharesKept DEF LegalIInv
<1>8. CASE UNCHANGED vars
  <2>1. ClocksFit'
    BY <1>1, <1>8 DEF vars, ClocksFit, ClockFits, Opposes, Inst, Side, Intent
  <2>2. MinuteFits'
    BY <1>1, <1>8 DEF vars, MinuteFits, Eligible, Intent, Today
  <2>3. SharesFit'
    BY <1>1, <1>8 DEF vars, SharesFit
  <2> QED BY <1>2, <2>1, <2>2, <2>3 DEF LegalIInv
<1> QED BY <1>3, <1>4, <1>5, <1>6, <1>7, <1>8 DEF Next

\* Only a fill changes what an order has traded for.
LEMMA OnlyFillsTrade ==
  ASSUME ReplayTypeOK, Next, NEW n \in DOMAIN orders, orders'[n].notional # orders[n].notional
  PROVE  phase = "attempt" /\ AttemptFills(n)
<1>1. ClockTypeOK /\ AccountTypeOK
  BY DEF ReplayTypeOK
<1>2. CASE Advance
  <2>0. PICK t : t = Min(Later)
    OBVIOUS
  <2>1. PICK due \in SUBSET DOMAIN Factor :
          t = Min(Later) /\ due = {i \in DOMAIN Factor : Factor[i].at = t}
    BY <2>0
  <2>2. orders' = Passed(due, t)
    BY <1>2, <2>1 DEF Advance, Passed
  <2>3. SameTrades(ConvertOrders(due, t)[n], Passed(due, t)[n])
    BY <1>1, PassedType
  <2>4. ConvertOrders(due, t)[n].notional = orders[n].notional
    BY <1>1, ConvertKeeps
  <2> QED BY <2>2, <2>3, <2>4 DEF SameTrades
<1>3. Open \/ Finish => orders' = orders
  BY DEF Open, Finish
<1>4. ASSUME NEW k \in DOMAIN orders, phase = "attempt",
             AttemptWaits(k) \/ AttemptFreezes(k) \/ AttemptRefused(k)
      PROVE  FALSE
  <2>1. PICK s \in Statuses, f \in Nat : Attempted(k, [orders[k] EXCEPT !.status = s, !.frozen = f])
    BY <1>4, QuietAttempts DEF QuietAttempt
  <2>2. orders[k] \in Order /\ orders[n] \in Order
    BY IntentTypes DEF ReplayTypeOK
  <2>3. PICK o : o = [orders[k] EXCEPT !.status = s, !.frozen = f]
    OBVIOUS
  <2>4. o.notional = orders[k].notional
    BY <2>2, <2>3 DEF Order
  <2>5. orders' = [orders EXCEPT ![k] = o]
    BY <2>1, <2>3 DEF Attempted
  <2> QED BY <2>4, <2>5
<1>5. ASSUME NEW k \in DOMAIN orders, phase = "attempt", AttemptFills(k)
      PROVE  k = n
  <2>1. PICK o : orders' = [orders EXCEPT ![k] = o]
    BY <1>5, FillParts DEF Attempted
  <2> QED BY <2>1
<1> QED BY <1>2, <1>3, <1>4, <1>5 DEF Next

\* A sale leaves what was bought today: a lot it empties had nothing of today.
LEMMA SalesLeaveToday ==
  ASSUME ReplayTypeOK, SharesFit, phase = "attempt", NEW n \in DOMAIN orders, FillFits(n),
         Side(n) = "SELL", NEW ls, ls = FilledLots(n), NEW l, l = LotOf(n)
  PROVE  lots[l].bought[Today] = (IF l \in DOMAIN ls THEN ls[l].bought[Today] ELSE 0)
<1>1. /\ l \in DOMAIN ls => ls[l].bought = Drawn(lots[l].bought, Quantity(n))
      /\ l \notin DOMAIN ls => Quantity(n) = lots[l].quantity
  BY SoldLots DEF FilledLots
<1>2. l \in DOMAIN lots /\ Quantity(n) <= Sellable(l)
  BY DEF FillFits
<1>3. PICK f \in [0 .. LastDay -> Nat], m \in Nat :
        f = lots[l].bought /\ m = lots[l].quantity /\ Total(f) <= m
  BY <1>2 DEF ReplayTypeOK, AccountTypeOK, Position, SharesFit
<1>4. PICK q \in Nat : q = Quantity(n)
  BY DEF FillFits
<1>5. CASE l \in DOMAIN ls
  <2>1. Drawn(f, q)[Today] = f[Today]
    BY <1>4, DrawnType
  <2> QED BY <1>1, <1>3, <1>4, <1>5, <2>1
<1>6. CASE l \notin DOMAIN ls
  <2>1. PICK d \in Nat \ {0} : d = Today /\ d <= LastDay /\ LastDay \in Nat
    BY AttemptPlace
  <2>2. PICK S : S = 0 .. d - 1
    OBVIOUS
  <2>3. S \subseteq 0 .. LastDay /\ d \in (0 .. LastDay) \ S
    BY <2>1, <2>2
  <2>4. IsFiniteSet(0 .. LastDay)
    BY <2>1, FS_Interval
  <2>5. Total([e \in S |-> f[e]]) + f[d] <= Total(f)
    BY <2>3, <2>4, TotalOfPartAndEntry
  <2>6. Sellable(l) = Total([e \in S |-> f[e]])
    BY <1>2, <1>3, <2>1, <2>2 DEF Sellable
  <2>7. PICK x \in Nat, y \in Nat, z \in Nat : x = Sellable(l) /\ y = f[d] /\ z = Total(f)
    BY <2>1, <2>4, SellableType, TotalType
  <2>8. m <= x /\ x + y <= z /\ z <= m
    BY <1>1, <1>2, <1>3, <1>6, <2>5, <2>6, <2>7
  <2>9. y = 0
    BY <2>8
  <2> QED BY <1>3, <1>6, <2>1, <2>7, <2>9
<1> QED BY <1>5, <1>6

\* What a fill is allowed.
LEMMA FillIsLegal ==
  ASSUME LegalIInv, phase = "attempt", NEW n \in DOMAIN orders, AttemptFills(n)
  PROVE  /\ orders[n].status \notin Terminal /\ orders[n].frozen # Today
         /\ Intent(n).effective <= now /\ (now < orders[n].deadline \/ orders[n].beyond)
         /\ ~\E k \in DOMAIN orders : /\ Inst(k) = Inst(n) /\ Side(k) # Side(n)
                                      /\ Intent(k).available \in Intent(n).available + 1 .. now
         /\ Side(n) = "SELL" =>
              lots[LotOf(n)].bought[Today]
                = (IF LotOf(n) \in DOMAIN lots' THEN lots'[LotOf(n)].bought[Today] ELSE 0)
         /\ Side(n) = "BUY" => \A k \in DOMAIN lots : lots[k].inst = Inst(n) => k = LotOf(n)
         /\ mode = "M-LAG" => Intent(n).available < now /\ traded'[Inst(n)] <= BarOf(n).capacity
<1>1. ReplayTypeOK /\ OwnersFit /\ ClocksFit /\ MinuteFits /\ SharesFit
  BY DEF LegalIInv, ReplayIInv
<1>2. FillFits(n) /\ n = First /\ lots' = FilledLots(n)
  BY <1>1, FillParts DEF Attempted
<1>3. Eligible(n)
  BY <1>1, <1>2, FirstFits DEF MinuteFits
<1>4. now \in Nat /\ \A k \in DOMAIN orders : Intent(k).available \in Nat /\ Intent(k).effective \in Nat
  BY <1>1, IntentTypes DEF ReplayTypeOK, ClockTypeOK
<1>5. /\ orders[n].status \notin Terminal /\ orders[n].frozen # Today /\ Intent(n).effective <= now
      /\ mode = "M-LAG" => Intent(n).available < now
  BY <1>3, <1>4 DEF Eligible
<1>6. ClockFits(n)
  BY <1>1 DEF ClocksFit
<1>7. now < orders[n].deadline \/ orders[n].beyond
  BY <1>5, <1>6 DEF ClockFits
<1>8. ASSUME NEW k \in DOMAIN orders, Inst(k) = Inst(n), Side(k) # Side(n),
             Intent(k).available \in Intent(n).available + 1 .. now
      PROVE  FALSE
  <2>1. ~(Intent(n).available < Intent(k).available /\ Intent(k).available <= now)
    BY <1>5, <1>6, <1>8 DEF ClockFits, Opposes
  <2> QED BY <1>4, <1>8, <2>1
<1>9. ASSUME Side(n) = "SELL"
      PROVE  lots[LotOf(n)].bought[Today]
               = (IF LotOf(n) \in DOMAIN lots' THEN lots'[LotOf(n)].bought[Today] ELSE 0)
  <2>1. PICK ls : ls = FilledLots(n)
    OBVIOUS
  <2> QED BY <1>1, <1>2, <1>9, <2>1, SalesLeaveToday
<1>10. ASSUME Side(n) = "BUY", NEW k \in DOMAIN lots, lots[k].inst = Inst(n) PROVE k = LotOf(n)
  <2>1. CASE Own(n)
    <3>1. orders[n].filled # 0 /\ LotOf(n) \in DOMAIN lots
      BY <1>1, <2>1, IntentTypes DEF Own, ReplayTypeOK, Order
    <3> QED BY <1>1, <1>10, <3>1 DEF OwnersFit
  <2>2. CASE ~Own(n)
    <3>1. Inst(n) \notin Held(lots)
      BY <1>2, <1>10, <2>2 DEF FillFits
    <3> QED BY <1>10, <3>1 DEF Held
  <2> QED BY <2>1, <2>2
<1>11. ASSUME mode = "M-LAG" PROVE traded'[Inst(n)] <= BarOf(n).capacity
  <2>1. PICK i \in Instruments : i = Inst(n)
    BY <1>1, IntentTypes DEF ReplayTypeOK
  <2>2. PICK a \in Nat, b \in Nat, q \in Nat : a = traded[i] /\ b = room[i] /\ q = Quantity(n)
    BY <1>1, <1>2, <2>1 DEF FillFits, ReplayTypeOK, MarketTypeOK
  <2>3. a + b = BarOf(n).capacity
    BY <1>1, <1>11, <2>1, <2>2 DEF MinuteFits, BarOf
  <2>4. q <= Wanted(n) /\ Wanted(n) \in Nat /\ Wanted(n) <= b
    BY <1>2, <1>11, <2>1, <2>2 DEF FillFits
  <2>5. traded' = [traded EXCEPT ![i] = @ + q] /\ traded \in [Instruments -> Nat]
    BY <1>1, <2>1, <2>2, FillParts DEF ReplayTypeOK, MarketTypeOK
  <2>6. traded'[i] = a + q
    BY <2>1, <2>2, <2>5
  <2> QED BY <2>1, <2>3, <2>4, <2>6
<1> QED BY <1>5, <1>7, <1>8, <1>9, <1>10, <1>11

\* The fills of a replay obey the clocks of their orders, T+1 and the capacity of
\* their minute: an expiry or an opposite intent is never passed over.
THEOREM LegalInvariant == Spec => []LegalIInv
<1>1. Init => LegalIInv
  BY InitType, InitMarks, InitOwners, InitClocks, InitShares DEF LegalIInv, ReplayIInv
<1>2. LegalIInv /\ [Next]_vars => LegalIInv'
  BY NextKeepsLegal
<1> QED BY <1>1, <1>2, PTL DEF Spec

\* FillsAreLegal, for every calendar, book and tape.
THEOREM FillsAlwaysLegal == Spec => FillsAreLegal
<1> DEFINE Legal(n) ==
             /\ orders[n].status \notin Terminal /\ orders[n].frozen # Today
             /\ Intent(n).effective <= now /\ (now < orders[n].deadline \/ orders[n].beyond)
             /\ ~\E k \in DOMAIN orders : /\ Inst(k) = Inst(n) /\ Side(k) # Side(n)
                                          /\ Intent(k).available \in Intent(n).available + 1 .. now
             /\ Side(n) = "SELL" =>
                  lots[LotOf(n)].bought[Today]
                    = (IF LotOf(n) \in DOMAIN lots' THEN lots'[LotOf(n)].bought[Today] ELSE 0)
             /\ Side(n) = "BUY" => \A k \in DOMAIN lots : lots[k].inst = Inst(n) => k = LotOf(n)
             /\ mode = "M-LAG" => Intent(n).available < now /\ traded'[Inst(n)] <= BarOf(n).capacity
           A == \A n \in DOMAIN orders : orders'[n].notional # orders[n].notional => Legal(n)
<1>1. LegalIInv /\ [Next]_vars => [A]_vars
  <2> SUFFICES ASSUME LegalIInv, Next, NEW n \in DOMAIN orders,
                      orders'[n].notional # orders[n].notional
               PROVE  Legal(n)
    OBVIOUS
  <2>1. ReplayTypeOK
    BY DEF LegalIInv, ReplayIInv
  <2>2. phase = "attempt" /\ AttemptFills(n)
    BY <2>1, OnlyFillsTrade
  <2> QED BY <2>2, FillIsLegal
<1>2. [][A]_vars => FillsAreLegal
  <2>1. [A]_vars => [\A n \in DOMAIN orders :
       orders'[n].notional # orders[n].notional =>
         LET r == Intent(n)
             l == r.lot
         IN
         /\ orders[n].status \notin Terminal /\ orders[n].frozen # Today
         /\ r.effective <= now /\ (now < orders[n].deadline \/ orders[n].beyond)
         /\ ~\E k \in DOMAIN orders : /\ Inst(k) = Inst(n) /\ Side(k) # Side(n)
                                      /\ Intent(k).available \in r.available + 1 .. now
         /\ Side(n) = "SELL" =>
              lots[l].bought[Today] = (IF l \in DOMAIN lots' THEN lots'[l].bought[Today] ELSE 0)
         /\ Side(n) = "BUY" => \A k \in DOMAIN lots : lots[k].inst = r.inst => k = l
         /\ mode = "M-LAG" =>
              /\ r.available < now
              /\ traded'[Inst(n)] <= BarOf(n).capacity]_vars
    BY Zenon DEF LotOf, Inst
  <2> QED BY <2>1, PTL DEF FillsAreLegal
<1> QED BY <1>1, <1>2, LegalInvariant, PTL DEF Spec

-----------------------------------------------------------------------------
(* The account: whole units. *)

\* A number of shares the unit change of i leaves whole.
Whole(q, i) == \E c \in 0 .. q : q = Factor[i].den * c

\* Whatever the number of units, it is no larger than what it makes.
LEMMA WholeIs ==
  ASSUME NEW i \in DOMAIN Factor, NEW c \in Nat, NEW q, q = Factor[i].den * c
  PROVE  Whole(q, i) /\ q \in Nat
<1>1. PICK d \in Nat \ {0} : d = Factor[i].den
  BY ChangeFacts
<1>2. d * c \in Nat
  BY ProductType
<1>3. 1 * c <= d * c
  BY <1>1, ProductGrows
<1>4. q \in Nat /\ c \in 0 .. q
  BY <1>1, <1>2, <1>3
<1> QED BY <1>4 DEF Whole

\* What leaves no remainder is whole.
LEMMA WholeOf ==
  ASSUME NEW i \in DOMAIN Factor, NEW q \in Nat, q % Factor[i].den = 0
  PROVE  Whole(q, i)
<1>1. PICK d \in Nat \ {0} : d = Factor[i].den
  BY ChangeFacts
<1>2. PICK c \in Nat, r \in 0 .. (d - 1) : q \div d = c /\ q % d = r /\ q = d * c + r
  <2>1. /\ q \div d \in Nat /\ q % d \in 0 .. (d - 1)
        /\ q = d * (q \div d) + (q % d)
    BY DivMod
  <2> QED BY <2>1
<1>3. r = 0
  BY <1>1, <1>2
<1>4. q = d * c
  <2>1. d * c \in Nat
    BY ProductType
  <2> QED BY <1>2, <1>3, <2>1
<1> QED BY <1>1, <1>4, WholeIs

\* No shares are whole.
LEMMA WholeZero ==
  ASSUME NEW i \in DOMAIN Factor
  PROVE  Whole(0, i)
<1>1. Factor[i].den \in Nat
  BY ChangeFacts
<1>2. 0 = Factor[i].den * 0
  BY <1>1
<1> QED BY <1>2, WholeIs

\* Whole shares together are whole, and so is what is left of them.
LEMMA WholeSum ==
  ASSUME NEW i \in DOMAIN Factor, NEW a \in Nat, NEW b \in Nat, Whole(a, i), Whole(b, i)
  PROVE  Whole(a + b, i) /\ (b <= a => Whole(a - b, i))
<1>1. PICK d \in Nat \ {0} : d = Factor[i].den
  BY ChangeFacts
<1>2. PICK c \in Nat, e \in Nat : a = d * c /\ b = d * e
  BY <1>1 DEF Whole
<1>3. a + b = d * (c + e)
  BY <1>2
<1>4. Whole(a + b, i)
  BY <1>1, <1>3, WholeIs
<1>5. ASSUME b <= a PROVE Whole(a - b, i)
  <2>1. e <= c
    <3>1. CASE c < e
      <4>1. PICK x \in Nat : e = c + 1 + x
        BY <3>1
      <4>2. d * e = d * c + d + d * x
        BY <4>1
      <4>3. d * x \in Nat /\ d * c \in Nat
        BY ProductType
      <4> QED BY <1>2, <1>5, <4>2, <4>3
    <3> QED BY <3>1
  <2>2. PICK x \in Nat : c = e + x
    BY <2>1
  <2>3. d * c = d * e + d * x /\ d * x \in Nat /\ d * e \in Nat
    BY <2>2, ProductType
  <2>4. a - b = d * x
    BY <1>2, <2>3
  <2> QED BY <1>1, <2>4, WholeIs
<1> QED BY <1>4, <1>5

\* A multiple of whole shares is whole.
LEMMA WholeTimes ==
  ASSUME NEW i \in DOMAIN Factor, NEW a \in Nat, NEW k \in Nat, Whole(a, i)
  PROVE  Whole(k * a, i) /\ Whole(a * k, i)
<1>1. PICK d \in Nat \ {0} : d = Factor[i].den
  BY ChangeFacts
<1>2. PICK c \in Nat : a = d * c
  BY <1>1 DEF Whole
<1>3. PICK x \in Nat : x = c * k
  BY ProductType
<1>4. k * a = d * x /\ a * k = d * x
  BY <1>2, <1>3
<1> QED BY <1>1, <1>4, WholeIs

\* Whole shares change their units without a remainder.
LEMMA ScaledWhole ==
  ASSUME NEW i \in DOMAIN Factor, NEW c \in Nat
  PROVE  Scaled(Factor[i].den * c, i) = Factor[i].num * c
<1>1. PICK d \in Nat \ {0}, m \in Nat \ {0} : d = Factor[i].den /\ m = Factor[i].num
  BY ChangeFacts
<1>2. PICK x \in Nat : x = m * c
  BY ProductType
<1>3. (d * c) * m = d * x
  BY <1>2
<1>4. PICK y \in Nat : y = d * x
  BY ProductType
<1>5. PICK q \in Nat, r \in 0 .. (d - 1) : y \div d = q /\ y = d * q + r
  <2>1. /\ y \div d \in Nat /\ y % d \in 0 .. (d - 1)
        /\ y = d * (y \div d) + (y % d)
    BY DivMod
  <2> QED BY <2>1
<1>6. q = x
  <2>1. CASE q < x
    <3>1. PICK e \in Nat : x = q + 1 + e
      BY <2>1
    <3>2. d * x = d * q + d + d * e
      BY <3>1
    <3>3. d * e \in Nat /\ d * q \in Nat
      BY ProductType
    <3> QED BY <1>4, <1>5, <3>2, <3>3
  <2>2. CASE x < q
    <3>1. PICK e \in Nat : q = x + 1 + e
      BY <2>2
    <3>2. d * q = d * x + d + d * e
      BY <3>1
    <3>3. d * e \in Nat /\ d * x \in Nat
      BY ProductType
    <3> QED BY <1>4, <1>5, <3>2, <3>3
  <2> QED BY <2>1, <2>2
<1> QED BY <1>1, <1>2, <1>3, <1>4, <1>5, <1>6 DEF Scaled

\* So a change of units adds up.
LEMMA ScaledSum ==
  ASSUME NEW i \in DOMAIN Factor, NEW a \in Nat, NEW b \in Nat, Whole(a, i), Whole(b, i)
  PROVE  /\ Scaled(a + b, i) = Scaled(a, i) + Scaled(b, i)
         /\ Scaled(a, i) \in Nat /\ (Scaled(a, i) = 0 <=> a = 0)
<1>1. PICK d \in Nat \ {0}, m \in Nat \ {0} : d = Factor[i].den /\ m = Factor[i].num
  BY ChangeFacts
<1>2. PICK c \in Nat, e \in Nat : a = d * c /\ b = d * e
  BY <1>1 DEF Whole
<1>3. a + b = d * (c + e) /\ c + e \in Nat
  BY <1>2
<1>4. Scaled(a, i) = m * c /\ Scaled(b, i) = m * e /\ Scaled(a + b, i) = m * (c + e)
  BY <1>1, <1>2, <1>3, ScaledWhole
<1>5. m * (c + e) = m * c + m * e /\ m * c \in Nat
  BY ProductType
<1>6. m * c = 0 <=> a = 0
  <2>1. CASE c = 0
    BY <1>2, <2>1
  <2>2. CASE c # 0
    <3>1. 1 * c <= m * c /\ 1 * c <= d * c /\ m * c \in Nat /\ d * c \in Nat
      BY ProductGrows, ProductType
    <3> QED BY <1>2, <2>2, <3>1
  <2> QED BY <2>1, <2>2
<1> QED BY <1>4, <1>5, <1>6

\* Whole shares add up to whole shares, before and after a change of units.
LEMMA WholeTotal ==
  ASSUME NEW i \in DOMAIN Factor, NEW D, IsFiniteSet(D), NEW f \in [D -> Nat],
         \A x \in D : Whole(f[x], i)
  PROVE  /\ Whole(Total(f), i)
         /\ Total([x \in D |-> Scaled(f[x], i)]) = Scaled(Total(f), i)
<1>1. PICK d \in Nat \ {0}, m \in Nat \ {0} : d = Factor[i].den /\ m = Factor[i].num
  BY ChangeFacts
<1>2. \A x \in D : \E c \in Nat : f[x] = d * c
  BY <1>1 DEF Whole
<1>3. PICK g : g = [x \in D |-> CHOOSE c \in Nat : f[x] = d * c]
  OBVIOUS
<1>4. \A x \in D : g[x] \in Nat /\ f[x] = d * g[x]
  BY <1>2, <1>3
<1>5. g \in [D -> Nat]
  BY <1>3, <1>4
<1>6. f = [x \in D |-> d * g[x]]
  BY <1>4
<1>7. PICK T \in Nat : T = Total(g)
  BY <1>5, TotalType
<1>8. Total(f) = d * T
  <2>1. Total([x \in D |-> d * g[x]]) = d * Total(g)
    BY <1>5, TotalTimes
  <2> QED BY <1>6, <1>7, <2>1
<1>9. [x \in D |-> Scaled(f[x], i)] = [x \in D |-> m * g[x]]
  <2>1. \A x \in D : Scaled(f[x], i) = m * g[x]
    BY <1>1, <1>4, ScaledWhole
  <2> QED BY <2>1
<1>10. Total([x \in D |-> m * g[x]]) = m * T
  BY <1>5, <1>7, TotalTimes
<1>11. Scaled(d * T, i) = m * T
  BY <1>1, ScaledWhole
<1>12. Whole(Total(f), i)
  BY <1>1, <1>8, WholeIs
<1> QED BY <1>8, <1>9, <1>10, <1>11, <1>12

\* A sum of which one entry changes.
LEMMA TotalMoves ==
  ASSUME NEW D, IsFiniteSet(D), NEW f \in [D -> Nat], NEW g \in [D -> Nat], NEW k,
         \A x \in D : x # k => g[x] = f[x]
  PROVE  /\ Total(g) \in Nat /\ Total(f) \in Nat
         /\ k \in D => Total(g) = Total(f) - f[k] + g[k]
         /\ k \notin D => Total(g) = Total(f)
<1>1. Total(g) \in Nat /\ Total(f) \in Nat
  BY TotalType
<1>2. CASE k \in D
  <2>1. PICK v \in Nat : v = g[k]
    BY <1>2
  <2>2. g = [f EXCEPT ![k] = v]
    BY <1>2, <2>1
  <2>3. Total([f EXCEPT ![k] = v]) = Total(f) - f[k] + v
    BY <1>2, TotalUpdate
  <2> QED BY <1>1, <1>2, <2>1, <2>2, <2>3
<1>3. CASE k \notin D
  <2>1. g = f
    BY <1>3
  <2> QED BY <1>1, <1>3, <2>1
<1> QED BY <1>2, <1>3

\* There are finitely many orders.
LEMMA OrdersFinite ==
  ASSUME ReplayTypeOK
  PROVE  IsFiniteSet(DOMAIN orders) /\ DOMAIN orders = DOMAIN book.intents
<1>1. book \in Books /\ DOMAIN orders = DOMAIN book.intents
  BY DEF ReplayTypeOK, ClockTypeOK, AccountTypeOK
<1>2. Len(book.intents) \in Nat /\ DOMAIN book.intents = 1 .. Len(book.intents)
  BY <1>1, InputAssumption DEF ValidInput
<1>3. IsFiniteSet(1 .. Len(book.intents))
  BY <1>2, FS_Interval
<1> QED BY <1>1, <1>2, <1>3

-----------------------------------------------------------------------------
(* The account: the invariant. *)

\* The lots the book can speak of, and their shares.
Names == DOMAIN book.lots \cup {LotOf(n) : n \in DOMAIN orders}
SharesIn(l) == IF l \in DOMAIN lots THEN lots[l].quantity ELSE 0

\* Until its unit changes, all there is of an instrument is whole.
WholeFits ==
  \A i \in DOMAIN Factor : now < Factor[i].at =>
    /\ Whole(room[i], i)
    /\ \A l \in DOMAIN lots : lots[l].inst = i =>
         Whole(lots[l].quantity, i) /\ \A d \in 0 .. LastDay : Whole(lots[l].bought[d], i)
    /\ \A n \in DOMAIN orders : Inst(n) = i =>
         IF Intent(n).refAt < Factor[i].at
         THEN Whole(orders[n].filled, i) /\ Whole(orders[n].remaining, i)
         ELSE orders[n].filled = 0

\* An order that was converted was priced before the change.
PricesFit == \A n \in DOMAIN orders : orders[n].scaled => Intent(n).refAt < Factor[Inst(n)].at

\* All that is said of a lot is said of one instrument.
Speaks(i, l) ==
  /\ l \in DOMAIN lots => lots[l].inst = i
  /\ l \in DOMAIN book.lots => book.lots[l].inst = i
  /\ \A n \in DOMAIN orders : LotOf(n) = l /\ orders[n].filled # 0 => Inst(n) = i

NamesFit ==
  /\ DOMAIN book.lots \subseteq seen /\ DOMAIN lots \subseteq Names
  /\ \A n \in DOMAIN orders : orders[n].filled # 0 => LotOf(n) \in seen
  /\ \A l \in Names : \E i \in Instruments : Speaks(i, l)

\* What came into a lot and what left it.
Balances(l) == SharesIn(l) + FilledOf(l, "SELL") = StartOf(l) + FilledOf(l, "BUY")
LotsBalance == \A l \in Names : Balances(l)

\* The shares of a lot by purchase day are all its shares.
SharesMatch ==
  \A l \in DOMAIN lots : lots[l].quantity = Total(lots[l].bought) /\ lots[l].quantity > 0

\* The money.
Fees == Total([n \in DOMAIN orders |-> orders[n].fee])
MoneyFits == cash = InitialCash + MoneyOf("SELL") - MoneyOf("BUY") - Fees

\* An order by itself.
OrderAdds(n) ==
  LET o == orders[n] IN
  /\ o.quantity = o.filled + o.remaining
  /\ o.fee = (IF o.notional = 0 THEN 0 ELSE FeeOf(Side(n), o.notional))
  /\ o.remaining = 0 <=> o.status = "FILLED"
OrdersAdd == \A n \in DOMAIN orders : OrderAdds(n)

\* The account's own parts.
AccountFits ==
  WholeFits /\ PricesFit /\ NamesFit /\ LotsBalance /\ SharesMatch /\ MoneyFits /\ OrdersAdd

\* A bar that was printed has a price.
TapeFits ==
  \A t \in DOMAIN tape : \A i \in Instruments : tape[t][i].printed => tape[t][i].open > 0

AccountIInv == LegalIInv /\ TapeFits /\ AccountFits

\* What the orders of a lot traded, as a sum over a set of orders.
OrdersOf(l, side) == {k \in DOMAIN orders : LotOf(k) = l /\ Side(k) = side}
OnSide(side) == {k \in DOMAIN orders : Side(k) = side}

\* The sums over orders are sums of amounts.
LEMMA SumsType ==
  ASSUME ReplayTypeOK, NEW l, NEW side
  PROVE  /\ IsFiniteSet(OrdersOf(l, side)) /\ IsFiniteSet(OnSide(side))
         /\ [k \in OrdersOf(l, side) |-> orders[k].filled] \in [OrdersOf(l, side) -> Nat]
         /\ [k \in OnSide(side) |-> orders[k].notional] \in [OnSide(side) -> Nat]
         /\ [k \in DOMAIN orders |-> orders[k].fee] \in [DOMAIN orders -> Nat]
         /\ FilledOf(l, side) = Total([k \in OrdersOf(l, side) |-> orders[k].filled])
         /\ MoneyOf(side) = Total([k \in OnSide(side) |-> orders[k].notional]) * Unit
         /\ FilledOf(l, side) \in Nat
<1>1. IsFiniteSet(OrdersOf(l, side)) /\ IsFiniteSet(OnSide(side))
  BY OrdersFinite, FS_Subset DEF OrdersOf, OnSide
<1>2. \A k \in DOMAIN orders : orders[k].filled \in Nat /\ orders[k].notional \in Nat /\ orders[k].fee \in Nat
  BY DEF ReplayTypeOK, AccountTypeOK, Order
<1>3. /\ [k \in OrdersOf(l, side) |-> orders[k].filled] \in [OrdersOf(l, side) -> Nat]
      /\ [k \in OnSide(side) |-> orders[k].notional] \in [OnSide(side) -> Nat]
      /\ [k \in DOMAIN orders |-> orders[k].fee] \in [DOMAIN orders -> Nat]
  BY <1>2 DEF OrdersOf, OnSide
<1>4. /\ FilledOf(l, side) = Total([k \in OrdersOf(l, side) |-> orders[k].filled])
      /\ MoneyOf(side) = Total([k \in OnSide(side) |-> orders[k].notional]) * Unit
  BY DEF FilledOf, MoneyOf, OrdersOf, OnSide
<1>5. FilledOf(l, side) \in Nat
  BY <1>1, <1>3, <1>4, TotalType
<1> QED BY <1>1, <1>3, <1>4, <1>5

\* The parts together are what the code promises of its account.
LEMMA AccountIsExact ==
  ASSUME AccountIInv
  PROVE  AccountFollowsOrders
<1>1. ReplayTypeOK
  BY DEF AccountIInv, LegalIInv, ReplayIInv
<1>2. DOMAIN lots \cup {LotOf(n) : n \in DOMAIN orders} \subseteq Names
  BY DEF AccountIInv, AccountFits, NamesFit, Names
<1>3. ASSUME NEW l \in DOMAIN lots \cup {LotOf(n) : n \in DOMAIN orders}
      PROVE  (IF l \in DOMAIN lots THEN lots[l].quantity ELSE 0)
               = StartOf(l) + FilledOf(l, "BUY") - FilledOf(l, "SELL")
  <2>1. Balances(l)
    BY <1>2, <1>3 DEF AccountIInv, AccountFits, LotsBalance
  <2>2. FilledOf(l, "SELL") \in Nat /\ FilledOf(l, "BUY") \in Nat
    BY <1>1, SumsType
  <2>3. SharesIn(l) \in Nat
    BY <1>1 DEF SharesIn, ReplayTypeOK, AccountTypeOK, Position
  <2>4. StartOf(l) \in Nat
    <3>1. book \in Books
      BY <1>1 DEF ReplayTypeOK, ClockTypeOK
    <3>2. l \in DOMAIN book.lots => book.lots[l].quantity \in Nat
      BY <3>1, InputAssumption DEF ValidInput
    <3> QED BY <3>2, ScaledType DEF StartOf
  <2>5. PICK a \in Nat, b \in Nat, c \in Nat, d \in Nat :
          a = SharesIn(l) /\ b = StartOf(l) /\ c = FilledOf(l, "BUY") /\ d = FilledOf(l, "SELL")
    BY <2>2, <2>3, <2>4
  <2>6. a = b + c - d
    BY <2>1, <2>5 DEF Balances
  <2> QED BY <2>5, <2>6 DEF SharesIn
<1>4. \A l \in DOMAIN lots : lots[l].quantity = Total(lots[l].bought) /\ lots[l].quantity > 0
  BY DEF AccountIInv, AccountFits, SharesMatch
<1>5. cash >= 0
  BY <1>1 DEF ReplayTypeOK, AccountTypeOK
<1>6. cash = InitialCash + MoneyOf("SELL") - MoneyOf("BUY")
              - Total([n \in DOMAIN orders |-> orders[n].fee])
  BY DEF AccountIInv, AccountFits, MoneyFits, Fees
<1>7. \A n \in DOMAIN orders : OrderAdds(n)
  BY DEF AccountIInv, AccountFits, OrdersAdd
<1> QED BY <1>3, <1>4, <1>5, <1>6, <1>7 DEF AccountFollowsOrders, OrderAdds

\* Two records of an order that trade alike.
Alike(o, p) ==
  /\ p.quantity = o.quantity /\ p.filled = o.filled /\ p.remaining = o.remaining
  /\ p.notional = o.notional /\ p.fee = o.fee /\ p.scaled = o.scaled
  /\ p.status = "FILLED" <=> o.status = "FILLED"

\* Orders that trade alike add up alike.
LEMMA SumsStay ==
  ASSUME ReplayTypeOK, UNCHANGED book, DOMAIN orders' = DOMAIN orders,
         \A k \in DOMAIN orders : Alike(orders[k], orders'[k]), NEW l, NEW side
  PROVE  /\ FilledOf(l, side)' = FilledOf(l, side) /\ MoneyOf(side)' = MoneyOf(side) /\ Fees' = Fees
<1>1. PICK D, S : D = OrdersOf(l, side) /\ S = OnSide(side)
  OBVIOUS
<1>2. D = OrdersOf(l, side)' /\ S = OnSide(side)'
  BY <1>1 DEF OrdersOf, OnSide, LotOf, Side, Intent
<1>3. D \subseteq DOMAIN orders /\ S \subseteq DOMAIN orders
  BY <1>1 DEF OrdersOf, OnSide
<1>4. [k \in D |-> orders'[k].filled] = [k \in D |-> orders[k].filled]
  BY <1>3 DEF Alike
<1>5. [k \in S |-> orders'[k].notional] = [k \in S |-> orders[k].notional]
  BY <1>3 DEF Alike
<1>6. [k \in DOMAIN orders' |-> orders'[k].fee] = [k \in DOMAIN orders |-> orders[k].fee]
  BY DEF Alike
<1>7. FilledOf(l, side)' = FilledOf(l, side)
  <2>1. FilledOf(l, side) = Total([k \in D |-> orders[k].filled])
    BY <1>1 DEF FilledOf, OrdersOf
  <2>2. FilledOf(l, side)' = Total([k \in D |-> orders'[k].filled])
    BY <1>2 DEF FilledOf, OrdersOf
  <2> QED BY <1>4, <2>1, <2>2
<1>8. MoneyOf(side)' = MoneyOf(side)
  <2>1. MoneyOf(side) = Total([k \in S |-> orders[k].notional]) * Unit
    BY <1>1 DEF MoneyOf, OnSide
  <2>2. MoneyOf(side)' = Total([k \in S |-> orders'[k].notional]) * Unit
    BY <1>2 DEF MoneyOf, OnSide
  <2> QED BY <1>5, <2>1, <2>2
<1>9. Fees' = Fees
  BY <1>6 DEF Fees
<1> QED BY <1>7, <1>8, <1>9

\* A step that trades nothing and changes no units leaves the account as it is.
LEMMA AccountStays ==
  ASSUME ReplayTypeOK, AccountFits, UNCHANGED <<book, now, lots, seen, cash>>,
         DOMAIN orders' = DOMAIN orders,
         \A k \in DOMAIN orders : Alike(orders[k], orders'[k]),
         \A i \in DOMAIN Factor : now < Factor[i].at => Whole(room'[i], i)
  PROVE  AccountFits'
<1>1. /\ WholeFits /\ PricesFit /\ NamesFit /\ LotsBalance /\ SharesMatch /\ MoneyFits /\ OrdersAdd
  BY DEF AccountFits
<1>2. \A n \in DOMAIN orders : /\ orders'[n].filled = orders[n].filled
                               /\ orders'[n].remaining = orders[n].remaining
                               /\ orders'[n].scaled = orders[n].scaled
  BY DEF Alike
<1>3. \A n : /\ Intent(n)' = Intent(n) /\ Inst(n)' = Inst(n)
             /\ LotOf(n)' = LotOf(n) /\ Side(n)' = Side(n)
  BY DEF Intent, Inst, LotOf, Side
<1>4. WholeFits'
  <2> SUFFICES ASSUME NEW i \in DOMAIN Factor, now < Factor[i].at
               PROVE  /\ Whole(room'[i], i)
                      /\ \A l \in DOMAIN lots : lots[l].inst = i =>
                           Whole(lots[l].quantity, i) /\ \A d \in 0 .. LastDay : Whole(lots[l].bought[d], i)
                      /\ \A n \in DOMAIN orders : Inst(n) = i =>
                           IF Intent(n).refAt < Factor[i].at
                           THEN Whole(orders'[n].filled, i) /\ Whole(orders'[n].remaining, i)
                           ELSE orders'[n].filled = 0
    BY <1>3 DEF WholeFits, Whole
  <2> QED BY <1>1, <1>2 DEF WholeFits
<1>5. PricesFit'
  BY <1>1, <1>2, <1>3 DEF PricesFit
<1>6. NamesFit'
  <2>1. Names' = Names
    BY <1>3 DEF Names
  <2>2. \A i, l : Speaks(i, l)' <=> Speaks(i, l)
    BY <1>2, <1>3 DEF Speaks
  <2> QED BY <1>1, <1>2, <1>3, <2>1, <2>2 DEF NamesFit
<1>7. LotsBalance'
  <2>1. Names' = Names
    BY <1>3 DEF Names
  <2>2. ASSUME NEW l \in Names PROVE Balances(l)'
    <3>1. SharesIn(l)' = SharesIn(l) /\ StartOf(l)' = StartOf(l)
      BY DEF SharesIn, StartOf
    <3>2. FilledOf(l, "SELL")' = FilledOf(l, "SELL") /\ FilledOf(l, "BUY")' = FilledOf(l, "BUY")
      BY SumsStay
    <3>3. Balances(l)
      BY <1>1 DEF LotsBalance
    <3> QED BY <3>1, <3>2, <3>3 DEF Balances
  <2> QED BY <2>1, <2>2 DEF LotsBalance
<1>8. SharesMatch'
  BY <1>1 DEF SharesMatch
<1>9. MoneyFits'
  <2>1. MoneyOf("SELL")' = MoneyOf("SELL") /\ MoneyOf("BUY")' = MoneyOf("BUY") /\ Fees' = Fees
    BY SumsStay
  <2> QED BY <1>1, <2>1 DEF MoneyFits
<1>10. OrdersAdd'
  <2>1. ASSUME NEW n \in DOMAIN orders PROVE OrderAdds(n)'
    <3>1. OrderAdds(n)
      BY <1>1 DEF OrdersAdd
    <3>2. Alike(orders[n], orders'[n]) /\ Side(n)' = Side(n)
      BY <1>3
    <3> QED BY <3>1, <3>2 DEF OrderAdds, Alike
  <2> QED BY <2>1 DEF OrdersAdd
<1> QED BY <1>4, <1>5, <1>6, <1>7, <1>8, <1>9, <1>10 DEF AccountFits

\* A sum of nothing but one entry.
LEMMA TotalOne ==
  ASSUME NEW D, IsFiniteSet(D), NEW k \in D, NEW q \in Nat
  PROVE  Total([x \in D |-> IF x = k THEN q ELSE 0]) = q
<1>1. PICK z \in [D -> {0}] : z = [x \in D |-> 0]
  OBVIOUS
<1>2. Total(z) = 0
  BY TotalZero
<1>3. PICK f \in [D -> Nat] : f = [x \in D |-> IF x = k THEN q ELSE 0]
  OBVIOUS
<1>4. z \in [D -> Nat] /\ z[k] = 0 /\ f[k] = q /\ \A x \in D : x # k => f[x] = z[x]
  BY <1>1, <1>3
<1>5. Total(f) = Total(z) - z[k] + f[k]
  BY <1>4, TotalMoves
<1> QED BY <1>2, <1>3, <1>4, <1>5

\* The account begins exact.
LEMMA InitAccount ==
  ASSUME Init
  PROVE  AccountFits
<1>1. ReplayTypeOK
  BY InitType
<1>2. /\ book \in Books /\ now = 0 /\ cash = InitialCash /\ seen = DOMAIN book.lots
      /\ orders = [n \in DOMAIN book.intents |-> NewOrder(book.intents[n])]
      /\ lots = [l \in DOMAIN book.lots |-> InitialLot(book.lots[l])]
      /\ room = [i \in Instruments |-> 0]
  BY DEF Init
<1>3. /\ \A l \in DOMAIN book.lots :
           book.lots[l].inst \in Instruments /\ book.lots[l].quantity \in Nat \ {0}
      /\ LastDay \in Nat
  BY <1>2, InputAssumption DEF ValidInput
<1>4. ASSUME NEW n \in DOMAIN orders
      PROVE  /\ n \in DOMAIN book.intents /\ Intent(n).quantity \in Nat \ {0} /\ Inst(n) \in Instruments
             /\ orders[n].quantity = Intent(n).quantity /\ orders[n].remaining = Intent(n).quantity
             /\ orders[n].filled = 0 /\ orders[n].notional = 0 /\ orders[n].fee = 0
             /\ orders[n].scaled = FALSE /\ orders[n].status = "WAITING"
  <2>1. Intent(n).quantity \in Nat \ {0} /\ Inst(n) \in Instruments /\ n \in DOMAIN book.intents
    BY <1>1, IntentTypes DEF ReplayTypeOK
  <2> QED BY <1>2, <2>1 DEF NewOrder, Intent
<1>5. ASSUME NEW l \in DOMAIN lots
      PROVE  /\ l \in DOMAIN book.lots /\ lots[l].inst = book.lots[l].inst
             /\ lots[l].quantity = book.lots[l].quantity
             /\ lots[l].bought = [d \in 0 .. LastDay |-> IF d = 0 THEN book.lots[l].quantity ELSE 0]
  BY <1>2 DEF InitialLot
<1>6. ASSUME NEW i \in DOMAIN Factor PROVE 0 < Factor[i].at /\ i \in Instruments
  <2>1. ValidFactor(i)
    BY InputAssumption DEF ValidInput
  <2>2. PICK a \in Nat, length \in Nat \ {0} : a = Factor[i].at /\ length = DayLength
    BY <2>1, InputTypes DEF ValidFactor
  <2>3. a \div length \in 1 .. LastDay
    BY <2>1, <2>2 DEF ValidFactor, DayOf, Days
  <2>4. a # 0
    <3>1. CASE a = 0
      <4>1. PICK q \in Nat, r \in 0 .. (length - 1) : a \div length = q /\ a = length * q + r
        BY DivMod
      <4>2. 1 <= q
        BY <2>3, <4>1
      <4>3. 1 * length <= q * length /\ length * q = q * length
        BY <2>2, <4>2, ProductGrows
      <4> QED BY <2>2, <3>1, <4>1, <4>3
    <3> QED BY <3>1
  <2> QED BY <2>1, <2>2, <2>4 DEF ValidFactor
<1>7. WholeFits
  <2> SUFFICES ASSUME NEW i \in DOMAIN Factor
               PROVE  /\ Whole(room[i], i)
                      /\ \A l \in DOMAIN lots : lots[l].inst = i =>
                           Whole(lots[l].quantity, i) /\ \A d \in 0 .. LastDay : Whole(lots[l].bought[d], i)
                      /\ \A n \in DOMAIN orders : Inst(n) = i =>
                           IF Intent(n).refAt < Factor[i].at
                           THEN Whole(orders[n].filled, i) /\ Whole(orders[n].remaining, i)
                           ELSE orders[n].filled = 0
    BY DEF WholeFits
  <2>1. Whole(0, i)
    BY WholeZero
  <2>2. Whole(room[i], i)
    BY <1>2, <1>6, <2>1
  <2>3. ASSUME NEW l \in DOMAIN lots, lots[l].inst = i
        PROVE  Whole(lots[l].quantity, i) /\ \A d \in 0 .. LastDay : Whole(lots[l].bought[d], i)
    <3>1. PICK q \in Nat : q = book.lots[l].quantity
      BY <1>3, <1>5
    <3>2. q % Factor[i].den = 0
      BY <1>2, <1>5, <2>3, <3>1, InputAssumption DEF WholeUnits
    <3>3. Whole(q, i)
      BY <3>2, WholeOf
    <3>4. \A d \in 0 .. LastDay : lots[l].bought[d] = q \/ lots[l].bought[d] = 0
      BY <1>5, <3>1
    <3> QED BY <1>5, <2>1, <3>1, <3>3, <3>4
  <2>4. ASSUME NEW n \in DOMAIN orders, Inst(n) = i, Intent(n).refAt < Factor[i].at
        PROVE  Whole(orders[n].filled, i) /\ Whole(orders[n].remaining, i)
    <3>1. PICK q \in Nat : q = Intent(n).quantity
      BY <1>4
    <3>2. q % Factor[i].den = 0
      BY <1>2, <1>4, <2>4, <3>1, InputAssumption DEF WholeUnits, Intent, Inst
    <3>3. Whole(q, i)
      BY <3>2, WholeOf
    <3> QED BY <1>4, <2>1, <3>1, <3>3
  <2> QED BY <1>4, <2>2, <2>3, <2>4
<1>8. PricesFit
  BY <1>4 DEF PricesFit
<1>9. NamesFit
  <2>1. DOMAIN lots = DOMAIN book.lots
    BY <1>2
  <2>2. ASSUME NEW l \in Names PROVE \E i \in Instruments : Speaks(i, l)
    <3>1. CASE l \in DOMAIN book.lots
      <4>1. Speaks(book.lots[l].inst, l)
        BY <1>4, <1>5, <3>1 DEF Speaks
      <4> QED BY <1>3, <3>1, <4>1
    <3>2. CASE l \notin DOMAIN book.lots
      <4>1. PICK n \in DOMAIN orders : l = LotOf(n)
        BY <3>2 DEF Names
      <4>2. Speaks(Inst(n), l)
        BY <1>4, <2>1, <3>2 DEF Speaks
      <4> QED BY <1>4, <4>2
    <3> QED BY <3>1, <3>2
  <2> QED BY <1>2, <1>4, <2>1, <2>2 DEF NamesFit, Names
<1>10. ASSUME NEW l, NEW side
       PROVE  FilledOf(l, side) = 0 /\ MoneyOf(side) = 0 /\ Fees = 0
  <2>1. /\ [k \in OrdersOf(l, side) |-> orders[k].filled] \in [OrdersOf(l, side) -> {0}]
        /\ [k \in OnSide(side) |-> orders[k].notional] \in [OnSide(side) -> {0}]
        /\ [k \in DOMAIN orders |-> orders[k].fee] \in [DOMAIN orders -> {0}]
    BY <1>4 DEF OrdersOf, OnSide
  <2>2. /\ Total([k \in OrdersOf(l, side) |-> orders[k].filled]) = 0
        /\ Total([k \in OnSide(side) |-> orders[k].notional]) = 0
        /\ Total([k \in DOMAIN orders |-> orders[k].fee]) = 0
    BY <2>1, TotalZero
  <2>3. MoneyOf(side) = 0 * Unit /\ FilledOf(l, side) = 0
    BY <1>1, <2>2, SumsType
  <2>4. Unit \in Nat
    BY InputTypes
  <2> QED BY <2>2, <2>3, <2>4 DEF Fees
<1>11. LotsBalance
  <2> SUFFICES ASSUME NEW l \in Names PROVE Balances(l)
    BY DEF LotsBalance
  <2>1. SharesIn(l) = StartOf(l)
    <3>1. CASE l \in DOMAIN book.lots
      <4>1. ~(book.lots[l].inst \in DOMAIN Factor /\ now >= Factor[book.lots[l].inst].at)
        BY <1>2, <1>6, ChangeFacts
      <4> QED BY <1>2, <1>5, <3>1, <4>1 DEF SharesIn, StartOf
    <3>2. CASE l \notin DOMAIN book.lots
      BY <1>2, <3>2 DEF SharesIn, StartOf
    <3> QED BY <3>1, <3>2
  <2>2. FilledOf(l, "SELL") = 0 /\ FilledOf(l, "BUY") = 0
    BY <1>10
  <2> QED BY <2>1, <2>2 DEF Balances
<1>12. SharesMatch
  <2> SUFFICES ASSUME NEW l \in DOMAIN lots
               PROVE  lots[l].quantity = Total(lots[l].bought) /\ lots[l].quantity > 0
    BY DEF SharesMatch
  <2>1. PICK q \in Nat \ {0} : q = book.lots[l].quantity
    BY <1>3, <1>5
  <2>2. Total([d \in 0 .. LastDay |-> IF d = 0 THEN q ELSE 0]) = q
    <3>1. PICK D : D = 0 .. LastDay
      OBVIOUS
    <3>2. IsFiniteSet(D) /\ 0 \in D
      BY <1>3, <3>1, FS_Interval
    <3>3. Total([d \in D |-> IF d = 0 THEN q ELSE 0]) = q
      BY <3>2, TotalOne
    <3> QED BY <3>1, <3>3
  <2> QED BY <1>5, <2>1, <2>2
<1>13. MoneyFits
  <2>1. MoneyOf("SELL") = 0 /\ MoneyOf("BUY") = 0 /\ Fees = 0 /\ InitialCash \in Nat
    BY <1>10, InputTypes
  <2> QED BY <1>2, <2>1 DEF MoneyFits
<1>14. OrdersAdd
  <2> SUFFICES ASSUME NEW n \in DOMAIN orders PROVE OrderAdds(n)
    BY DEF OrdersAdd
  <2>0. PICK o : o = orders[n]
    OBVIOUS
  <2>1. PICK q \in Nat \ {0} : q = Intent(n).quantity
    BY <1>4
  <2>2. /\ o.quantity = q /\ o.remaining = q /\ o.filled = 0 /\ o.notional = 0 /\ o.fee = 0
        /\ o.status = "WAITING"
    BY <1>4, <2>0, <2>1
  <2>3. o.quantity = o.filled + o.remaining /\ o.remaining # 0 /\ o.status # "FILLED"
    BY <2>1, <2>2
  <2> QED BY <2>0, <2>2, <2>3 DEF OrderAdds
<1> QED BY <1>7, <1>8, <1>9, <1>11, <1>12, <1>13, <1>14 DEF AccountFits

\* The open of a minute offers whole shares.
LEMMA OpenAccount ==
  ASSUME ReplayTypeOK, AccountFits, Open
  PROVE  AccountFits'
<1>1. PICK bars : /\ \A i \in Instruments : bars[i] \in Bars[now][i]
                  /\ room' = [i \in Instruments |-> bars[i].capacity]
  BY DEF Open
<1>2. UNCHANGED <<book, now, orders, lots, seen, cash>> /\ now \in Opportunities
  BY DEF Open, input, ReplayTypeOK, ClockTypeOK
<1>3. ASSUME NEW i \in DOMAIN Factor, now < Factor[i].at PROVE Whole(room'[i], i)
  <2>1. i \in Instruments
    BY ChangeFacts
  <2>2. PICK b : b = bars[i]
    OBVIOUS
  <2>3. b \in Bars[now][i] /\ room'[i] = b.capacity
    BY <1>1, <2>1, <2>2
  <2>4. b.capacity % Factor[i].den = 0
    BY <1>2, <1>3, <2>3, InputAssumption DEF WholeUnits
  <2>5. b \in Bar
    BY <1>2, <2>1, <2>3, InputAssumption DEF ValidInput
  <2>6. b.capacity \in Nat
    BY <2>5 DEF Bar
  <2>7. Whole(b.capacity, i)
    BY <2>4, <2>6, WholeOf
  <2> QED BY <2>3, <2>7
<1>4. \A k \in DOMAIN orders : Alike(orders[k], orders'[k])
  BY <1>2 DEF Alike
<1> QED BY <1>2, <1>3, <1>4, AccountStays

\* An attempt that trades nothing ends no order as filled.
LEMMA QuietStatus ==
  ASSUME ReplayTypeOK, MinuteFits, OrdersAdd, phase = "attempt", NEW n \in DOMAIN orders,
         AttemptWaits(n) \/ AttemptFreezes(n) \/ AttemptRefused(n)
  PROVE  orders[n].status # "FILLED" /\ orders'[n].status # "FILLED"
<1>1. PICK o \in Order : o = orders[n]
  BY IntentTypes DEF ReplayTypeOK
<1>2. n = First
  BY DEF AttemptWaits, AttemptFreezes, AttemptRefused, Ended, Attempted
<1>3. Eligible(n)
  BY <1>2, FirstFits DEF MinuteFits
<1>4. o.status # "FILLED"
  BY <1>1, <1>3 DEF Eligible, Terminal
<1>5. orders \in [DOMAIN orders -> Order]
  BY DEF ReplayTypeOK, AccountTypeOK
<1>6. PICK s : s = Tried(n)
  OBVIOUS
<1>7. s # "FILLED"
  BY <1>6 DEF Tried
<1>8. CASE AttemptWaits(n)
  <2>1. orders' = [orders EXCEPT ![n] = [o EXCEPT !.status = s]]
    BY <1>1, <1>6, <1>8 DEF AttemptWaits, Ended, Attempted
  <2>2. orders'[n] = [o EXCEPT !.status = s]
    BY <1>5, <2>1
  <2>3. orders'[n].status = s
    BY <2>2 DEF Order
  <2> QED BY <1>1, <1>4, <1>7, <2>3
<1>9. CASE AttemptFreezes(n)
  <2>1. PICK f : orders' = [orders EXCEPT ![n] = [o EXCEPT !.status = s, !.frozen = f]]
    BY <1>1, <1>6, <1>9 DEF AttemptFreezes, Attempted
  <2>2. orders'[n] = [o EXCEPT !.status = s, !.frozen = f]
    BY <1>5, <2>1
  <2>3. orders'[n].status = s
    BY <2>2 DEF Order
  <2> QED BY <1>1, <1>4, <1>7, <2>3
<1>10. CASE AttemptRefused(n)
  <2>1. orders' = [orders EXCEPT ![n] = [o EXCEPT !.status = "REJECTED"]]
    BY <1>1, <1>10 DEF AttemptRefused, Ended, Attempted
  <2>2. orders'[n] = [o EXCEPT !.status = "REJECTED"]
    BY <1>5, <2>1
  <2>3. orders'[n].status = "REJECTED"
    BY <2>2 DEF Order
  <2> QED BY <1>1, <1>4, <2>3
<1> QED BY <1>8, <1>9, <1>10

\* An attempt that trades nothing leaves the account as it is.
LEMMA QuietAccount ==
  ASSUME ReplayTypeOK, MinuteFits, AccountFits, phase = "attempt", NEW n \in DOMAIN orders,
         AttemptWaits(n) \/ AttemptFreezes(n) \/ AttemptRefused(n)
  PROVE  AccountFits'
<1>1. QuietAttempt(n)
  BY QuietAttempts
<1>2. PICK s \in Statuses, f \in Nat :
        /\ Attempted(n, [orders[n] EXCEPT !.status = s, !.frozen = f])
        /\ UNCHANGED <<lots, seen, cash, checked, live, marks, room, traded>>
  BY <1>1 DEF QuietAttempt
<1>3. PICK o : o = [orders[n] EXCEPT !.status = s, !.frozen = f]
  OBVIOUS
<1>4. o \in Order /\ o.scaled = orders[n].scaled
  BY <1>2, <1>3, IntentTypes DEF ReplayTypeOK, Order
<1>5. /\ DOMAIN orders' = DOMAIN orders /\ orders'[n] = o
      /\ \A k \in DOMAIN orders : k # n => orders'[k] = orders[k]
  BY <1>2, <1>3, <1>4, AttemptedType
<1>6. OrdersAdd
  BY DEF AccountFits
<1>7. orders[n].status # "FILLED" /\ orders'[n].status # "FILLED"
  BY <1>6, QuietStatus
<1>8. Alike(orders[n], orders'[n])
  <2>1. /\ o.quantity = orders[n].quantity /\ o.filled = orders[n].filled
        /\ o.remaining = orders[n].remaining /\ o.notional = orders[n].notional
        /\ o.fee = orders[n].fee
    BY <1>3, IntentTypes DEF ReplayTypeOK, Order
  <2> QED BY <1>4, <1>5, <1>7, <2>1 DEF Alike
<1>9. \A k \in DOMAIN orders : Alike(orders[k], orders'[k])
  BY <1>5, <1>8 DEF Alike
<1>10. UNCHANGED <<book, now, lots, seen, cash>> /\ room' = room
  BY <1>2 DEF Attempted, input
<1>11. \A i \in DOMAIN Factor : now < Factor[i].at => Whole(room'[i], i)
  BY <1>10 DEF AccountFits, WholeFits
<1> QED BY <1>5, <1>9, <1>10, <1>11, AccountStays

\* The end of the replay, or no step at all, leaves the account as it is.
LEMMA RestAccount ==
  ASSUME ReplayTypeOK, AccountFits, Finish \/ UNCHANGED vars
  PROVE  AccountFits'
<1>1. UNCHANGED <<book, now, orders, lots, seen, cash>> /\ room' = room
  BY DEF Finish, input, vars
<1>2. \A k \in DOMAIN orders : Alike(orders[k], orders'[k])
  BY <1>1 DEF Alike
<1>3. \A i \in DOMAIN Factor : now < Factor[i].at => Whole(room'[i], i)
  BY <1>1 DEF AccountFits, WholeFits
<1> QED BY <1>1, <1>2, <1>3, AccountStays

-----------------------------------------------------------------------------
(* The account: what a fill does. *)

\* The tape only grows by bars of the input.
LEMMA TapeKept ==
  ASSUME ReplayTypeOK, TapeFits, [Next]_vars
  PROVE  TapeFits'
<1>1. CASE Open
  <2>1. PICK bars : /\ \A i \in Instruments : bars[i] \in Bars[now][i]
                    /\ tape' = Put(tape, now, bars)
    BY <1>1 DEF Open
  <2>2. now \in Opportunities
    BY <1>1 DEF Open, ReplayTypeOK, ClockTypeOK
  <2>3. \A i \in Instruments : bars[i].printed => bars[i].open > 0
    <3> SUFFICES ASSUME NEW i \in Instruments PROVE bars[i].printed => bars[i].open > 0
      OBVIOUS
    <3>1. bars[i] \in Bars[now][i]
      BY <2>1
    <3>2. Bars[now][i] \subseteq {b \in Bar : b.printed => b.open > 0}
      BY <2>2, InputAssumption DEF ValidInput
    <3> QED BY <3>1, <3>2
  <2>4. \A t \in DOMAIN tape' : (t = now /\ tape'[t] = bars) \/ (t \in DOMAIN tape /\ tape'[t] = tape[t])
    BY <2>1 DEF Put
  <2> QED BY <2>3, <2>4 DEF TapeFits
<1>2. CASE tape' = tape
  BY <1>2 DEF TapeFits
<1>3. Open \/ tape' = tape
  BY DEF Next, Advance, Finish, AttemptWaits, AttemptFreezes, AttemptRefused, AttemptFills, Ended,
         Attempted, vars
<1> QED BY <1>1, <1>2, <1>3

\* Nothing trades for free.
LEMMA PricePositive ==
  ASSUME ReplayTypeOK, TapeFits, PricesFit, phase = "attempt", NEW n \in DOMAIN orders, Tradable(n)
  PROVE  Price(n) \in Nat \ {0}
<1>1. Price(n) \in Nat
  BY PriceType
<1>2. CASE mode = "M-LAG"
  <2>1. BarOf(n).printed
    BY DEF Tradable, Closed
  <2>2. now \in DOMAIN tape /\ Inst(n) \in Instruments /\ BarOf(n).open \in Nat
    BY AttemptPlace
  <2>3. BarOf(n).open > 0
    BY <2>1, <2>2 DEF TapeFits, BarOf
  <2> QED BY <1>2, <2>2, <2>3 DEF Price
<1>3. CASE mode # "M-LAG" /\ ~orders[n].scaled
  <2>1. Intent(n).ref \in Nat \ {0}
    BY IntentTypes DEF ReplayTypeOK
  <2> QED BY <1>3, <2>1 DEF Price
<1>4. CASE mode # "M-LAG" /\ orders[n].scaled
  <2>1. PICK i \in DOMAIN Factor : i = Inst(n)
    BY <1>4 DEF ReplayTypeOK, AccountTypeOK
  <2>2. PICK d \in Nat \ {0}, m \in Nat \ {0} : d = Factor[i].den /\ m = Factor[i].num
    BY ChangeFacts
  <2>3. PICK r \in Nat \ {0} : r = Intent(n).ref
    BY IntentTypes DEF ReplayTypeOK
  <2>4. PICK x \in Nat : x = r * d
    BY ProductType
  <2>5. x # 0
    <3>1. 1 * d <= r * d
      BY ProductGrows
    <3> QED BY <2>4, <3>1
  <2>6. x % m = 0
    <3>1. Intent(n).refAt < Factor[i].at
      BY <1>4, <2>1 DEF PricesFit
    <3>2. n \in DOMAIN book.intents /\ book \in Books
      BY IntentTypes DEF ReplayTypeOK, ClockTypeOK
    <3>3. Intent(n).inst = i
      BY <2>1 DEF Inst
    <3>4. (Intent(n).ref * Factor[i].den) % Factor[i].num = 0
      BY <3>1, <3>2, <3>3, InputAssumption DEF WholeUnits, Intent
    <3> QED BY <2>2, <2>3, <2>4, <3>4
  <2>7. PICK q \in Nat, y \in 0 .. (m - 1) : x \div m = q /\ x % m = y /\ x = m * q + y
    BY DivMod
  <2>8. q # 0
    <3>1. CASE q = 0
      <4>1. m * q = 0
        BY <3>1
      <4> QED BY <2>5, <2>6, <2>7, <4>1
    <3> QED BY <3>1
  <2>9. Price(n) = q
    BY <1>4, <2>1, <2>2, <2>3, <2>4, <2>7 DEF Price
  <2> QED BY <2>8, <2>9
<1> QED BY <1>2, <1>3, <1>4

\* A trade before the unit of its instrument changes is of whole shares.
LEMMA WholeTrade ==
  ASSUME ReplayTypeOK, MinuteFits, WholeFits, phase = "attempt", NEW n \in DOMAIN orders,
         AttemptFills(n), NEW i \in DOMAIN Factor, i = Inst(n), now < Factor[i].at
  PROVE  Whole(Quantity(n), i) /\ Intent(n).refAt < Factor[i].at
<1>1. FillFits(n) /\ n = First
  BY FillParts DEF Attempted
<1>2. Intent(n).refAt < Factor[i].at
  <2>1. Eligible(n)
    BY <1>1, FirstFits DEF MinuteFits
  <2>2. /\ Intent(n).refAt \in Nat /\ Intent(n).available \in Nat /\ Intent(n).effective \in Nat
        /\ Intent(n).refAt <= Intent(n).available /\ Intent(n).available <= Intent(n).effective
    BY IntentTypes DEF ReplayTypeOK
  <2>3. Intent(n).effective <= now /\ now \in Nat /\ Factor[i].at \in Nat
    BY <2>1, ChangeFacts DEF Eligible, ReplayTypeOK, ClockTypeOK
  <2> QED BY <2>2, <2>3
<1>3. Whole(orders[n].remaining, i) /\ Whole(room[i], i)
  BY <1>2 DEF WholeFits
<1>4. CASE Side(n) = "BUY"
  <2>1. PICK size \in Nat \ {0}, w \in Nat : size = BoardLot /\ w = Wanted(n)
    BY InputTypes, WantedFits
  <2>2. Whole(size, i)
    <3>1. size % Factor[i].den = 0
      BY <2>1, InputAssumption DEF WholeUnits
    <3> QED BY <3>1, WholeOf
  <2>3. PICK k \in Nat : Affordable(n) = k * size
    <3>1. PICK m \in Nat : m = w \div size
      BY <2>1, DivMod
    <3> DEFINE T == {0} \cup {k \in 1 .. Wanted(n) \div BoardLot : Cost(n, k * BoardLot) <= cash}
    <3>2. T \subseteq 0 .. m /\ T # {}
      BY <2>1, <3>1
    <3>3. Affordable(n) = Max(T) * size
      BY <2>1 DEF Affordable
    <3> HIDE DEF T
    <3>4. Max(T) \in 0 .. m
      BY <3>2, MaxIs
    <3> QED BY <3>3, <3>4
  <2>4. Quantity(n) = k * size
    BY <1>4, <2>3 DEF Quantity
  <2> QED BY <1>2, <2>2, <2>4, WholeTimes
<1>5. CASE Side(n) = "SELL"
  <2>1. PICK l \in DOMAIN lots : l = LotOf(n) /\ lots[l].inst = i
    BY <1>1, <1>5 DEF FillFits
  <2>2. PICK f \in [0 .. LastDay -> Nat] : f = lots[l].bought
    BY DEF ReplayTypeOK, AccountTypeOK, Position
  <2>3. \A d \in 0 .. LastDay : Whole(f[d], i)
    BY <2>1, <2>2 DEF WholeFits
  <2>4. Today \in Nat /\ Today <= LastDay /\ LastDay \in Nat
    BY AttemptPlace
  <2>5. PICK D : D = 0 .. Today - 1
    OBVIOUS
  <2>6. IsFiniteSet(D) /\ D \subseteq 0 .. LastDay
    BY <2>4, <2>5, FS_Interval
  <2>7. PICK g \in [D -> Nat] : g = [d \in D |-> f[d]]
    BY <2>6
  <2>8. Whole(Total(g), i)
    BY <2>3, <2>6, <2>7, WholeTotal
  <2>9. Sellable(l) = Total(g)
    BY <2>2, <2>5, <2>7 DEF Sellable
  <2>10. Wanted(n) \in {orders[n].remaining, room[i], Sellable(l)}
    BY <1>5, <2>1 DEF Wanted, Smaller
  <2>11. Quantity(n) = Wanted(n)
    BY <1>1, <1>5 DEF FillFits
  <2> QED BY <1>2, <1>3, <2>8, <2>9, <2>10, <2>11
<1>6. Side(n) \in {"BUY", "SELL"}
  BY IntentTypes DEF ReplayTypeOK, Sides
<1> QED BY <1>4, <1>5, <1>6

\* What a fill does to the orders.
FillsOrder(n) ==
  /\ UNCHANGED <<book, now>> /\ DOMAIN orders' = DOMAIN orders
  /\ \A k \in DOMAIN orders : k # n => orders'[k] = orders[k]
  /\ orders'[n].quantity = orders[n].quantity /\ orders'[n].scaled = orders[n].scaled
  /\ orders'[n].filled = orders[n].filled + Quantity(n)
  /\ orders'[n].remaining = orders[n].remaining - Quantity(n)
  /\ orders'[n].notional = orders[n].notional + Quantity(n) * Price(n)
  /\ orders'[n].fee = FeeOf(Side(n), orders[n].notional + Quantity(n) * Price(n))
  /\ orders'[n].status = "FILLED" <=> orders'[n].remaining = 0

\* A fill moves shares from what remains of one order to what it has traded.
LEMMA FillOrders ==
  ASSUME ReplayTypeOK, phase = "attempt", NEW n \in DOMAIN orders, AttemptFills(n)
  PROVE  FillsOrder(n)
<1>1. FillFits(n) /\ Attempted(n, After(n, Quantity(n)))
  BY FillParts
<1>2. PICK o \in Order : o = After(n, Quantity(n))
  BY <1>1, AfterType
<1>3. /\ o.scaled = orders[n].scaled /\ o.filled = orders[n].filled + Quantity(n)
      /\ o.notional = orders[n].notional + Quantity(n) * Price(n)
      /\ o.fee = FeeOf(Side(n), orders[n].notional + Quantity(n) * Price(n))
  BY <1>1, <1>2, AfterType
<1>4. UNCHANGED <<book, now>>
  BY <1>1 DEF Attempted, input
<1>5. orders \in [DOMAIN orders -> Order] /\ orders' = [orders EXCEPT ![n] = o]
  BY <1>1, <1>2 DEF Attempted, ReplayTypeOK, AccountTypeOK
<1>6. DOMAIN orders' = DOMAIN orders /\ orders'[n] = o /\ \A k \in DOMAIN orders : k # n => orders'[k] = orders[k]
  BY <1>5
<1>7. o.quantity = orders[n].quantity /\ o.remaining = orders[n].remaining - Quantity(n)
      /\ (o.status = "FILLED" <=> o.remaining = 0)
  <2>1. PICK p \in Order : p = orders[n]
    BY <1>5
  <2>2. PICK q : q = Quantity(n)
    OBVIOUS
  <2>3. PICK f, r, m, fee, s :
          /\ r = p.remaining - q
          /\ s = (IF r = 0 THEN "FILLED"
                  ELSE IF Side(n) = "BUY" /\ q < Wanted(n) THEN "REJECTED" ELSE "PARTIAL")
          /\ o = [p EXCEPT !.filled = f, !.remaining = r, !.notional = m, !.fee = fee, !.status = s]
    BY <1>2, <2>1, <2>2 DEF After
  <2>4. o.quantity = p.quantity /\ o.remaining = r /\ o.status = s
    BY <2>3 DEF Order
  <2>5. s = "FILLED" <=> r = 0
    BY <2>3
  <2> QED BY <2>1, <2>2, <2>3, <2>4, <2>5
<1> QED BY <1>3, <1>4, <1>6, <1>7 DEF FillsOrder

\* The shares an order trades are those its lot gains or loses.
LEMMA FilledMoves ==
  ASSUME ReplayTypeOK, ReplayTypeOK', NEW n \in DOMAIN orders, FillsOrder(n), Quantity(n) \in Nat,
         NEW l, NEW side
  PROVE  FilledOf(l, side)'
           = FilledOf(l, side) + (IF LotOf(n) = l /\ Side(n) = side THEN Quantity(n) ELSE 0)
<1>1. PICK D : D = OrdersOf(l, side)
  OBVIOUS
<1>2. D = OrdersOf(l, side)' /\ D \subseteq DOMAIN orders
  BY <1>1 DEF OrdersOf, LotOf, Side, Intent, FillsOrder
<1>3. PICK f \in [D -> Nat] : f = [k \in D |-> orders[k].filled]
  BY <1>1, SumsType
<1>4. PICK g \in [D -> Nat] : g = [k \in D |-> orders'[k].filled]
  <2>1. \A k \in DOMAIN orders' : orders'[k].filled \in Nat
    BY DEF ReplayTypeOK, AccountTypeOK, Order
  <2>2. [k \in D |-> orders'[k].filled] \in [D -> Nat]
    BY <1>2, <2>1 DEF FillsOrder
  <2> QED BY <2>2
<1>5. IsFiniteSet(D)
  BY <1>1, SumsType
<1>6. \A k \in D : k # n => g[k] = f[k]
  BY <1>2, <1>3, <1>4 DEF FillsOrder
<1>7. /\ Total(g) \in Nat /\ Total(f) \in Nat
      /\ n \in D => Total(g) = Total(f) - f[n] + g[n]
      /\ n \notin D => Total(g) = Total(f)
  BY <1>5, <1>6, TotalMoves
<1>8. FilledOf(l, side) = Total(f)
  BY <1>1, <1>3 DEF FilledOf, OrdersOf
<1>9. FilledOf(l, side)' = Total(g)
  BY <1>2, <1>4 DEF FilledOf, OrdersOf
<1>10. CASE n \in D
  <2>1. LotOf(n) = l /\ Side(n) = side
    BY <1>1, <1>10 DEF OrdersOf
  <2>2. g[n] = f[n] + Quantity(n) /\ f[n] \in Nat /\ g[n] \in Nat
    BY <1>3, <1>4, <1>10 DEF FillsOrder
  <2> QED BY <1>7, <1>8, <1>9, <1>10, <2>1, <2>2
<1>11. CASE n \notin D
  <2>1. ~(LotOf(n) = l /\ Side(n) = side)
    BY <1>1, <1>11 DEF OrdersOf
  <2> QED BY <1>7, <1>8, <1>9, <1>11, <2>1
<1> QED BY <1>10, <1>11

\* The money an order trades for moves the sum of its side, and its fee the fees.
LEMMA MoneyMoves ==
  ASSUME ReplayTypeOK, ReplayTypeOK', phase = "attempt", NEW n \in DOMAIN orders, FillsOrder(n),
         Quantity(n) \in Nat, NEW side
  PROVE  /\ MoneyOf(side) \in Nat /\ Fees \in Nat
         /\ MoneyOf(side)'
              = MoneyOf(side) + (IF Side(n) = side THEN (Quantity(n) * Price(n)) * Unit ELSE 0)
         /\ Fees' = Fees + FeeFor(n, Quantity(n))
<1>0. PICK q \in Nat : q = Quantity(n)
  OBVIOUS
<1>01. PICK y \in Nat, u \in Nat : y = q * Price(n) /\ u = Unit
  BY FeeForType, InputTypes
<1>1. PICK D : D = OnSide(side)
  OBVIOUS
<1>2. D = OnSide(side)' /\ D \subseteq DOMAIN orders
  BY <1>1 DEF OnSide, Side, Intent, FillsOrder
<1>3. PICK f \in [D -> Nat] : f = [k \in D |-> orders[k].notional]
  BY <1>1, SumsType
<1>4. \A k \in DOMAIN orders : orders'[k].notional \in Nat /\ orders'[k].fee \in Nat
  BY DEF ReplayTypeOK, AccountTypeOK, Order, FillsOrder
<1>5. PICK g \in [D -> Nat] : g = [k \in D |-> orders'[k].notional]
  BY <1>2, <1>4
<1>6. IsFiniteSet(D)
  BY <1>1, SumsType
<1>7. \A k \in D : k # n => g[k] = f[k]
  BY <1>2, <1>3, <1>5 DEF FillsOrder
<1>8. PICK a \in Nat, b \in Nat : a = Total(f) /\ b = Total(g)
  BY <1>6, TotalType
<1>9. /\ n \in D => b = a - f[n] + g[n]
      /\ n \notin D => b = a
  BY <1>6, <1>7, <1>8, TotalMoves
<1>10. b = a + (IF Side(n) = side THEN y ELSE 0)
  <2>1. CASE n \in D
    <3>1. Side(n) = side
      BY <1>1, <2>1 DEF OnSide
    <3>2. g[n] = f[n] + y /\ f[n] \in Nat /\ g[n] \in Nat
      BY <1>0, <1>01, <1>3, <1>5, <2>1 DEF FillsOrder
    <3> QED BY <1>8, <1>9, <2>1, <3>1, <3>2
  <2>2. CASE n \notin D
    <3>1. Side(n) # side
      BY <1>1, <2>2 DEF OnSide
    <3> QED BY <1>8, <1>9, <2>2, <3>1
  <2> QED BY <2>1, <2>2
<1>11. MoneyOf(side) = a * u /\ a * u \in Nat
  <2>1. MoneyOf(side) = a * u
    BY <1>01, <1>1, <1>3, <1>8 DEF MoneyOf, OnSide
  <2> QED BY <2>1, ProductType
<1>12. MoneyOf(side)' = b * u
  BY <1>01, <1>2, <1>5, <1>8 DEF MoneyOf, OnSide
<1>13. MoneyOf(side)' = MoneyOf(side) + (IF Side(n) = side THEN y * u ELSE 0)
  <2>1. CASE Side(n) = side
    <3>1. (a + y) * u = a * u + y * u
      OBVIOUS
    <3> QED BY <1>10, <1>11, <1>12, <2>1, <3>1
  <2>2. CASE Side(n) # side
    <3>1. b = a
      BY <1>8, <1>10, <2>2
    <3> QED BY <1>11, <1>12, <2>2, <3>1
  <2> QED BY <2>1, <2>2
<1>14. PICK E : E = DOMAIN orders /\ IsFiniteSet(E)
  BY OrdersFinite
<1>15. PICK h \in [E -> Nat] : h = [k \in E |-> orders[k].fee]
  BY <1>14, SumsType
<1>16. PICK j \in [E -> Nat] : j = [k \in E |-> orders'[k].fee]
  BY <1>4, <1>14
<1>17. Fees = Total(h) /\ Fees' = Total(j)
  BY <1>14, <1>15, <1>16 DEF Fees, FillsOrder
<1>18. \A k \in E : k # n => j[k] = h[k]
  BY <1>14, <1>15, <1>16 DEF FillsOrder
<1>19. Total(h) \in Nat /\ Total(j) \in Nat /\ Total(j) = Total(h) - h[n] + j[n]
  BY <1>14, <1>18, TotalMoves
<1>20. j[n] = h[n] + FeeFor(n, q) /\ h[n] \in Nat /\ j[n] \in Nat /\ FeeFor(n, q) \in Int
  <2>1. FeeFor(n, q) \in Int /\ orders[n].fee + FeeFor(n, q) = FeeOf(Side(n), orders[n].notional + q * Price(n))
    BY FeeForType
  <2>2. orders'[n].fee = FeeOf(Side(n), orders[n].notional + q * Price(n))
    BY <1>0 DEF FillsOrder
  <2> QED BY <1>14, <1>15, <1>16, <2>1, <2>2
<1>21. Fees' = Fees + FeeFor(n, q) /\ Fees \in Nat
  BY <1>17, <1>19, <1>20
<1> QED BY <1>0, <1>01, <1>11, <1>13, <1>21

\* What is left of whole shares after whole shares leave is whole, day by day.
LEMMA DrawnWhole ==
  ASSUME ReplayTypeOK, phase = "attempt", NEW n \in DOMAIN orders,
         NEW i \in DOMAIN Factor, NEW bought \in [0 .. LastDay -> Nat], NEW q \in Nat, Whole(q, i),
         \A d \in 0 .. LastDay : Whole(bought[d], i), NEW d \in 0 .. LastDay
  PROVE  Whole(Drawn(bought, q)[d], i)
<1>1. CASE d >= Today
  BY <1>1 DEF Drawn
<1>2. CASE ~(d >= Today)
  <2>1. PICK D : D = 0 .. d - 1
    OBVIOUS
  <2>2. LastDay \in Nat /\ d \in Nat /\ d <= LastDay
    BY InputTypes
  <2>3. D \subseteq 0 .. LastDay /\ IsFiniteSet(D)
    <3>1. d - 1 \in Int
      BY <2>2
    <3>2. IsFiniteSet(D)
      BY <2>1, <3>1, FS_Interval
    <3> QED BY <2>1, <2>2, <3>2
  <2>4. PICK f \in [D -> Nat] : f = [e \in D |-> bought[e]]
    BY <2>3
  <2>5. \A e \in D : Whole(f[e], i)
    BY <2>3, <2>4
  <2>6. PICK before \in Nat : before = Total(f) /\ Whole(before, i)
    BY <2>3, <2>5, TotalType, WholeTotal
  <2>7. PICK b \in Nat : b = bought[d] /\ Whole(b, i)
    OBVIOUS
  <2>8. PICK x \in Nat : x = Larger(0, q - before) /\ Whole(x, i)
    <3>1. CASE before <= q
      <4>0. Whole(q - before, i)
        BY <2>6, <3>1, WholeSum
      <4>1. Whole(q - before, i) /\ q - before \in Nat
        BY <2>6, <3>1, <4>0
      <4>2. Larger(0, q - before) = q - before
        BY <4>1 DEF Larger
      <4> QED BY <4>1, <4>2
    <3>2. CASE ~(before <= q)
      <4>1. Larger(0, q - before) = 0
        BY <3>2 DEF Larger
      <4> QED BY <4>1, WholeZero
    <3> QED BY <3>1, <3>2
  <2>9. PICK y \in Nat : y = Smaller(b, x) /\ Whole(y, i) /\ y <= b
    BY <2>7, <2>8 DEF Smaller
  <2>10. Whole(b - y, i)
    BY <2>7, <2>9, WholeSum
  <2>11. Drawn(bought, q)[d] = b - y
    BY <1>2, <2>1, <2>4, <2>6, <2>7, <2>8, <2>9 DEF Drawn
  <2> QED BY <2>10, <2>11
<1> QED BY <1>1, <1>2

\* A fill changes the shares of the lot it names, by what it trades, and of no other.
LEMMA FillShares ==
  ASSUME ReplayTypeOK, phase = "attempt", NEW n \in DOMAIN orders, AttemptFills(n), NEW l
  PROVE  /\ SharesIn(l) \in Nat /\ (LotOf(n) # l => SharesIn(l)' = SharesIn(l))
         /\ LotOf(n) = l =>
              /\ Side(n) = "SELL" => SharesIn(l)' = SharesIn(l) - Quantity(n)
              /\ Side(n) = "BUY" => SharesIn(l)' = SharesIn(l) + Quantity(n)
<1>1. FillFits(n)
  BY FillParts
<1>2. PICK ls : ls = lots' /\ ls = FilledLots(n)
  BY FillParts
<1>3. SharesIn(l)' = IF l \in DOMAIN ls THEN ls[l].quantity ELSE 0
  BY <1>2 DEF SharesIn
<1>4. SharesIn(l) \in Nat
  BY DEF SharesIn, ReplayTypeOK, AccountTypeOK, Position
<1>5. PICK q \in Nat : q = Quantity(n)
  BY <1>1 DEF FillFits
<1>6. CASE Side(n) = "SELL"
  <2>1. ls = LotsAfterSell(LotOf(n), Quantity(n))
    BY <1>2, <1>6 DEF FilledLots
  <2>2. /\ DOMAIN ls \subseteq DOMAIN lots
        /\ \A k \in DOMAIN lots : k # LotOf(n) => k \in DOMAIN ls /\ ls[k] = lots[k]
        /\ LotOf(n) \in DOMAIN ls => ls[LotOf(n)].quantity = lots[LotOf(n)].quantity - q
        /\ LotOf(n) \notin DOMAIN ls => q = lots[LotOf(n)].quantity
    BY <1>1, <1>5, <1>6, <2>1, SoldLots
  <2>3. LotOf(n) \in DOMAIN lots
    BY <1>1, <1>6 DEF FillFits
  <2>4. CASE LotOf(n) # l
    BY <1>3, <1>4, <1>6, <2>2, <2>4 DEF SharesIn
  <2>5. CASE LotOf(n) = l
    <3>1. SharesIn(l) = lots[l].quantity
      BY <2>3, <2>5 DEF SharesIn
    <3>2. CASE l \in DOMAIN ls
      BY <1>3, <1>4, <1>5, <1>6, <2>2, <2>5, <3>1, <3>2
    <3>3. CASE l \notin DOMAIN ls
      BY <1>3, <1>4, <1>5, <1>6, <2>2, <2>5, <3>1, <3>3
    <3> QED BY <3>2, <3>3
  <2> QED BY <2>4, <2>5
<1>7. CASE Side(n) = "BUY"
  <2>1. /\ DOMAIN ls = DOMAIN lots \cup {LotOf(n)} /\ LotBefore(n) \in Position
        /\ \A k \in DOMAIN lots : k # LotOf(n) => ls[k] = lots[k]
        /\ LotOf(n) \in DOMAIN lots => LotBefore(n) = lots[LotOf(n)]
        /\ LotOf(n) \notin DOMAIN lots => LotBefore(n).quantity = 0
        /\ ls[LotOf(n)].quantity = LotBefore(n).quantity + Quantity(n)
    BY <1>1, <1>2, <1>7, BoughtParts
  <2>2. CASE LotOf(n) # l
    BY <1>3, <1>4, <1>7, <2>1, <2>2 DEF SharesIn
  <2>3. CASE LotOf(n) = l
    <3>1. SharesIn(l) = LotBefore(n).quantity
      BY <2>1, <2>3 DEF SharesIn
    <3> QED BY <1>3, <1>4, <1>5, <1>7, <2>1, <2>3, <3>1
  <2> QED BY <2>2, <2>3
<1>8. Side(n) \in {"BUY", "SELL"}
  BY IntentTypes DEF ReplayTypeOK, Sides
<1> QED BY <1>4, <1>6, <1>7, <1>8

\* Every lot still balances after a fill.
LEMMA FillBalances ==
  ASSUME ReplayTypeOK, ReplayTypeOK', LotsBalance, phase = "attempt", NEW n \in DOMAIN orders, AttemptFills(n)
  PROVE  LotsBalance'
<1>1. FillsOrder(n) /\ Quantity(n) \in Nat
  BY FillOrders, FillParts DEF FillFits
<1>2. UNCHANGED <<book, now>> /\ DOMAIN orders' = DOMAIN orders
  BY <1>1 DEF FillsOrder
<1>3. Names' = Names
  BY <1>2 DEF Names, LotOf, Intent
<1>4. Side(n) \in {"BUY", "SELL"}
  BY IntentTypes DEF ReplayTypeOK, Sides
<1> SUFFICES ASSUME NEW l \in Names PROVE Balances(l)'
  BY <1>3 DEF LotsBalance
<1>5. StartOf(l)' = StartOf(l)
  BY <1>2 DEF StartOf
<1>6. PICK a \in Nat, b \in Nat, c \in Nat, q \in Nat :
        a = SharesIn(l) /\ b = FilledOf(l, "SELL") /\ c = FilledOf(l, "BUY") /\ q = Quantity(n)
  BY <1>1, FillShares, SumsType
<1>7. a + b = StartOf(l) + c
  BY <1>6 DEF LotsBalance, Balances
<1>8. StartOf(l) \in Nat
  <2>1. book \in Books
    BY DEF ReplayTypeOK, ClockTypeOK
  <2>2. l \in DOMAIN book.lots => book.lots[l].quantity \in Nat
    BY <2>1, InputAssumption DEF ValidInput
  <2> QED BY <2>2, ScaledType DEF StartOf
<1>9. PICK s \in Nat : s = StartOf(l)
  BY <1>8
<1>10. PICK sold, bought, held : /\ sold = FilledOf(l, "SELL")' /\ bought = FilledOf(l, "BUY")'
                                 /\ held = SharesIn(l)'
  OBVIOUS
<1>11. /\ sold = b + (IF LotOf(n) = l /\ Side(n) = "SELL" THEN q ELSE 0)
       /\ bought = c + (IF LotOf(n) = l /\ Side(n) = "BUY" THEN q ELSE 0)
  BY <1>1, <1>6, <1>10, FilledMoves
<1>12. /\ LotOf(n) # l => held = a
       /\ LotOf(n) = l /\ Side(n) = "SELL" => held = a - q
       /\ LotOf(n) = l /\ Side(n) = "BUY" => held = a + q
  BY <1>6, <1>10, FillShares
<1>13. held + sold = s + bought
  <2>1. CASE LotOf(n) # l
    BY <1>6, <1>7, <1>9, <1>11, <1>12, <2>1
  <2>2. CASE LotOf(n) = l /\ Side(n) = "SELL"
    BY <1>6, <1>7, <1>9, <1>11, <1>12, <2>2
  <2>3. CASE LotOf(n) = l /\ Side(n) = "BUY"
    BY <1>6, <1>7, <1>9, <1>11, <1>12, <2>3
  <2> QED BY <1>4, <2>1, <2>2, <2>3
<1> QED BY <1>5, <1>9, <1>10, <1>13 DEF Balances

\* A purchase adds to a lot of its own instrument.
LEMMA OwnLot ==
  ASSUME ReplayTypeOK, OwnersFit, phase = "attempt", NEW n \in DOMAIN orders, FillFits(n), Side(n) = "BUY"
  PROVE  /\ LotBefore(n).inst = Inst(n)
         /\ LotOf(n) \in DOMAIN lots => orders[n].filled # 0
         /\ orders[n].filled = 0 => LotOf(n) \notin seen
<1>1. orders[n].filled \in Nat
  BY DEF ReplayTypeOK, AccountTypeOK, Order
<1>2. Own(n) => orders[n].filled # 0 /\ LotOf(n) \in DOMAIN lots
  BY <1>1 DEF Own
<1>3. ~Own(n) => LotOf(n) \notin seen
  BY DEF FillFits
<1>4. LotOf(n) \in DOMAIN lots => orders[n].filled # 0
  BY <1>2, <1>3 DEF OwnersFit
<1>5. CASE LotOf(n) \in DOMAIN lots
  <2>1. lots[LotOf(n)].inst = Inst(n)
    BY <1>4, <1>5 DEF OwnersFit
  <2> QED BY <1>2, <1>3, <1>4, <1>5, <2>1 DEF LotBefore
<1>6. CASE LotOf(n) \notin DOMAIN lots
  <2>1. LotBefore(n).inst = Inst(n)
    BY <1>6 DEF LotBefore, InitialLot
  <2> QED BY <1>2, <1>3, <1>4, <2>1
<1> QED BY <1>5, <1>6

\* The shares of one lot are whole, in all and by day.
WholeLot(p, i) ==
  p.inst = i => Whole(p.quantity, i) /\ \A d \in 0 .. LastDay : Whole(p.bought[d], i)

\* A sale of whole shares leaves whole shares.
LEMMA SoldWhole ==
  ASSUME ReplayTypeOK, phase = "attempt", NEW n \in DOMAIN orders, FillFits(n), Side(n) = "SELL",
         NEW ls, ls = FilledLots(n), NEW i \in DOMAIN Factor, i = Inst(n) => Whole(Quantity(n), i),
         \A l \in DOMAIN lots : WholeLot(lots[l], i), NEW l \in DOMAIN ls
  PROVE  WholeLot(ls[l], i)
<1>1. ls = LotsAfterSell(LotOf(n), Quantity(n))
  BY DEF FilledLots
<1>2. PICK q \in Nat : q = Quantity(n) /\ q <= lots[LotOf(n)].quantity
  <2>1. orders[n].remaining \in Nat /\ Wanted(n) \in Nat /\ LotOf(n) \in DOMAIN lots
    BY DEF FillFits
  <2>2. lots[LotOf(n)].quantity \in Nat
    BY <2>1 DEF ReplayTypeOK, AccountTypeOK, Position
  <2> QED BY <2>1, <2>2 DEF FillFits
<1>3. /\ DOMAIN ls \subseteq DOMAIN lots
      /\ \A k \in DOMAIN lots : k # LotOf(n) => k \in DOMAIN ls /\ ls[k] = lots[k]
      /\ \A k \in DOMAIN ls : ls[k].inst = lots[k].inst
      /\ LotOf(n) \in DOMAIN ls =>
           /\ ls[LotOf(n)].quantity = lots[LotOf(n)].quantity - q
           /\ ls[LotOf(n)].bought = Drawn(lots[LotOf(n)].bought, q)
  BY <1>1, <1>2, SoldLots
<1>4. CASE l # LotOf(n)
  BY <1>3, <1>4
<1>5. CASE l = LotOf(n) /\ ls[l].inst = i
  <2>1. lots[l].inst = i /\ i = Inst(n)
    BY <1>3, <1>5 DEF FillFits
  <2>2. PICK m \in Nat, f \in [0 .. LastDay -> Nat] : m = lots[l].quantity /\ f = lots[l].bought
    BY <1>3 DEF ReplayTypeOK, AccountTypeOK, Position
  <2>3. Whole(m, i) /\ Whole(q, i) /\ \A d \in 0 .. LastDay : Whole(f[d], i)
    BY <1>2, <1>3, <2>1, <2>2 DEF WholeLot
  <2>4. Whole(m - q, i)
    BY <1>2, <1>5, <2>2, <2>3, WholeSum
  <2>5. \A d \in 0 .. LastDay : Whole(Drawn(f, q)[d], i)
    BY <2>3, DrawnWhole
  <2> QED BY <1>3, <1>5, <2>2, <2>4, <2>5 DEF WholeLot
<1>6. CASE l = LotOf(n) /\ ls[l].inst # i
  BY <1>6 DEF WholeLot
<1> QED BY <1>4, <1>5, <1>6

\* A purchase of whole shares leaves whole shares.
LEMMA BoughtWhole ==
  ASSUME ReplayTypeOK, OwnersFit, phase = "attempt", NEW n \in DOMAIN orders, FillFits(n),
         Side(n) = "BUY",
         NEW ls, ls = FilledLots(n), NEW i \in DOMAIN Factor, i = Inst(n) => Whole(Quantity(n), i),
         \A l \in DOMAIN lots : WholeLot(lots[l], i), NEW l \in DOMAIN ls
  PROVE  WholeLot(ls[l], i)
<1>1. /\ DOMAIN ls = DOMAIN lots \cup {LotOf(n)} /\ ls[LotOf(n)].inst = LotBefore(n).inst
      /\ \A k \in DOMAIN lots : k # LotOf(n) => ls[k] = lots[k]
      /\ LotOf(n) \in DOMAIN lots => LotBefore(n) = lots[LotOf(n)]
      /\ LotOf(n) \notin DOMAIN lots =>
           LotBefore(n).quantity = 0 /\ LotBefore(n).bought = [d \in 0 .. LastDay |-> 0]
      /\ ls[LotOf(n)].quantity = LotBefore(n).quantity + Quantity(n)
      /\ ls[LotOf(n)].bought = BoughtAfter(n) /\ LotBefore(n) \in Position
  BY BoughtParts
<1>2. PICK q \in Nat : q = Quantity(n)
  BY DEF FillFits
<1>3. CASE l # LotOf(n)
  BY <1>1, <1>3
<1>4. CASE l = LotOf(n) /\ ls[l].inst = i
  <2>1. i = Inst(n)
    BY <1>1, <1>4, OwnLot
  <2>2. PICK m \in Nat, f \in [0 .. LastDay -> Nat] : m = LotBefore(n).quantity /\ f = LotBefore(n).bought
    BY <1>1 DEF Position
  <2>3. Whole(q, i) /\ Whole(0, i)
    BY <1>2, <2>1, WholeZero
  <2>4. Whole(m, i) /\ \A d \in 0 .. LastDay : Whole(f[d], i)
    <3>1. CASE LotOf(n) \in DOMAIN lots
      BY <1>1, <1>4, <2>2, <3>1 DEF WholeLot
    <3>2. CASE LotOf(n) \notin DOMAIN lots
      BY <1>1, <2>2, <2>3, <3>2
    <3> QED BY <3>1, <3>2
  <2>5. Whole(m + q, i)
    BY <2>3, <2>4, WholeSum
  <2>6. Today \in 0 .. LastDay
    BY AttemptPlace
  <2>7. BoughtAfter(n) = [f EXCEPT ![Today] = @ + q]
    BY <1>2, <2>2 DEF BoughtAfter
  <2>8. ASSUME NEW d \in 0 .. LastDay PROVE Whole(BoughtAfter(n)[d], i)
    <3>1. CASE d = Today
      <4>1. PICK v \in Nat : v = f[d] /\ Whole(v, i)
        BY <2>4
      <4>2. Whole(v + q, i)
        BY <2>3, <4>1, WholeSum
      <4> QED BY <2>6, <2>7, <3>1, <4>1, <4>2
    <3>2. CASE d # Today
      BY <2>4, <2>7, <3>2
    <3> QED BY <3>1, <3>2
  <2> QED BY <1>1, <1>2, <1>4, <2>2, <2>5, <2>8 DEF WholeLot
<1>5. CASE l = LotOf(n) /\ ls[l].inst # i
  BY <1>5 DEF WholeLot
<1> QED BY <1>3, <1>4, <1>5

\* A fill before the unit of an instrument changes leaves all there is of it whole.
LEMMA FillWhole ==
  ASSUME ReplayTypeOK, OwnersFit, MinuteFits, WholeFits, phase = "attempt",
         NEW n \in DOMAIN orders, AttemptFills(n)
  PROVE  WholeFits'
<1>1. FillFits(n)
  BY FillParts
<1>2. PICK ls : ls = lots' /\ ls = FilledLots(n)
  BY FillParts
<1>3. FillsOrder(n)
  BY FillOrders
<1>4. UNCHANGED <<book, now>> /\ DOMAIN orders' = DOMAIN orders
  BY <1>3 DEF FillsOrder
<1>5. \A k : Intent(k)' = Intent(k) /\ Inst(k)' = Inst(k)
  BY <1>4 DEF Intent, Inst
<1>6. PICK q \in Nat : q = Quantity(n) /\ q <= orders[n].remaining /\ (mode = "M-LAG" => q <= room[Inst(n)])
  BY <1>1, AttemptPlace DEF FillFits
<1>7. Side(n) \in {"BUY", "SELL"} /\ Inst(n) \in Instruments
  BY IntentTypes DEF ReplayTypeOK, Sides
<1> SUFFICES ASSUME NEW i \in DOMAIN Factor, now < Factor[i].at
             PROVE  /\ Whole(room'[i], i)
                    /\ \A l \in DOMAIN ls : WholeLot(ls[l], i)
                    /\ \A k \in DOMAIN orders : Inst(k) = i =>
                         IF Intent(k).refAt < Factor[i].at
                         THEN Whole(orders'[k].filled, i) /\ Whole(orders'[k].remaining, i)
                         ELSE orders'[k].filled = 0
  BY <1>2, <1>4, <1>5 DEF WholeFits, Whole, WholeLot
<1>8. /\ Whole(room[i], i)
      /\ \A l \in DOMAIN lots : WholeLot(lots[l], i)
      /\ \A k \in DOMAIN orders : Inst(k) = i =>
           IF Intent(k).refAt < Factor[i].at
           THEN Whole(orders[k].filled, i) /\ Whole(orders[k].remaining, i)
           ELSE orders[k].filled = 0
  BY DEF WholeFits, WholeLot
<1>9. i = Inst(n) => Whole(Quantity(n), i) /\ Intent(n).refAt < Factor[i].at
  BY WholeTrade
<1>10. Whole(room'[i], i)
  <2>1. room' = (IF mode = "M-LAG" THEN [room EXCEPT ![Inst(n)] = @ - q] ELSE room)
    BY <1>6, FillParts
  <2>2. PICK r \in Nat : r = room[i] /\ room \in [Instruments -> Nat]
    BY ChangeFacts DEF ReplayTypeOK, MarketTypeOK
  <2>3. CASE mode = "M-LAG" /\ i = Inst(n)
    <3>1. Whole(r - q, i)
      BY <1>6, <1>8, <1>9, <2>2, <2>3, WholeSum
    <3> QED BY <1>7, <2>1, <2>2, <2>3, <3>1
  <2>4. CASE ~(mode = "M-LAG" /\ i = Inst(n))
    <3>1. room'[i] = room[i]
      BY <2>1, <2>2, <2>4
    <3> QED BY <1>8, <3>1
  <2> QED BY <2>3, <2>4
<1>11. ASSUME NEW l \in DOMAIN ls PROVE WholeLot(ls[l], i)
  <2>1. CASE Side(n) = "SELL"
    BY <1>1, <1>2, <1>8, <1>9, <2>1, SoldWhole
  <2>2. CASE Side(n) = "BUY"
    BY <1>1, <1>2, <1>8, <1>9, <2>2, BoughtWhole
  <2> QED BY <1>7, <2>1, <2>2
<1>12. ASSUME NEW k \in DOMAIN orders, Inst(k) = i
       PROVE  IF Intent(k).refAt < Factor[i].at
              THEN Whole(orders'[k].filled, i) /\ Whole(orders'[k].remaining, i)
              ELSE orders'[k].filled = 0
  <2>1. CASE k # n
    <3>1. orders'[k] = orders[k]
      BY <1>3, <2>1 DEF FillsOrder
    <3> QED BY <1>8, <1>12, <3>1
  <2>2. CASE k = n
    <3>1. PICK a \in Nat, b \in Nat : a = orders[n].filled /\ b = orders[n].remaining
      BY DEF ReplayTypeOK, AccountTypeOK, Order
    <3>2. Whole(q, i) /\ Intent(n).refAt < Factor[i].at
      BY <1>6, <1>9, <1>12, <2>2
    <3>3. Whole(a, i) /\ Whole(b, i)
      BY <1>8, <1>12, <2>2, <3>1, <3>2
    <3>4. Whole(a + q, i)
      BY <3>2, <3>3, WholeSum
    <3>5. Whole(b - q, i)
      BY <1>6, <3>1, <3>2, <3>3, WholeSum
    <3> QED BY <1>3, <1>6, <2>2, <3>1, <3>2, <3>4, <3>5 DEF FillsOrder
  <2> QED BY <2>1, <2>2
<1> QED BY <1>10, <1>11, <1>12

\* A fill keeps all that is said of a lot to one instrument.
LEMMA FillNames ==
  ASSUME ReplayTypeOK, OwnersFit, NamesFit, phase = "attempt", NEW n \in DOMAIN orders, AttemptFills(n)
  PROVE  NamesFit'
<1>1. FillFits(n) /\ seen' = IF Side(n) = "BUY" THEN seen \cup {LotOf(n)} ELSE seen
  BY FillParts
<1>2. PICK ls : ls = lots' /\ ls = FilledLots(n)
  BY FillParts
<1>3. /\ UNCHANGED book /\ DOMAIN orders' = DOMAIN orders
      /\ \A k \in DOMAIN orders : k # n => orders'[k] = orders[k]
  BY FillOrders DEF FillsOrder
<1>4. \A k : LotOf(k)' = LotOf(k) /\ Inst(k)' = Inst(k)
  BY <1>3 DEF LotOf, Inst, Intent
<1>5. Names' = Names
  BY <1>3, <1>4 DEF Names
<1>6. Side(n) \in {"BUY", "SELL"} /\ Inst(n) \in Instruments
  BY IntentTypes DEF ReplayTypeOK, Sides
<1>7. /\ DOMAIN ls \subseteq DOMAIN lots \cup {LotOf(n)}
      /\ \A k \in DOMAIN ls : k # LotOf(n) => ls[k].inst = lots[k].inst
      /\ LotOf(n) \in DOMAIN ls => ls[LotOf(n)].inst = Inst(n)
  <2>1. CASE Side(n) = "SELL"
    <3>1. ls = LotsAfterSell(LotOf(n), Quantity(n))
      BY <1>2, <2>1 DEF FilledLots
    <3>2. /\ DOMAIN ls \subseteq DOMAIN lots
          /\ \A k \in DOMAIN ls : ls[k].inst = lots[k].inst
      BY <1>1, <2>1, <3>1, SoldLots
    <3>3. lots[LotOf(n)].inst = Inst(n)
      BY <1>1, <2>1 DEF FillFits
    <3> QED BY <3>2, <3>3
  <2>2. CASE Side(n) = "BUY"
    <3>1. Joins(ls, n)
      BY <1>1, <1>2, <2>2, BoughtJoins
    <3>2. LotBefore(n).inst = Inst(n)
      BY <1>1, <2>2, OwnLot
    <3> QED BY <3>1, <3>2 DEF Joins
  <2> QED BY <1>6, <2>1, <2>2
<1>8. Side(n) = "SELL" => LotOf(n) \in DOMAIN lots /\ lots[LotOf(n)].inst = Inst(n)
  BY <1>1 DEF FillFits
<1>9. seen \subseteq seen' /\ LotOf(n) \in seen'
  BY <1>1, <1>6, <1>8 DEF OwnersFit
<1>10. DOMAIN book.lots \subseteq seen' /\ DOMAIN ls \subseteq Names
  BY <1>7, <1>9 DEF NamesFit, Names
<1>11. \A k \in DOMAIN orders : orders'[k].filled # 0 => LotOf(k) \in seen'
  BY <1>3, <1>9 DEF NamesFit
<1>12. ASSUME NEW l \in Names PROVE \E i \in Instruments : Speaks(i, l)'
  <2>1. CASE l # LotOf(n)
    <3>1. PICK i \in Instruments : Speaks(i, l)
      BY DEF NamesFit
    <3>2. l \in DOMAIN ls => ls[l].inst = i
      BY <1>7, <2>1, <3>1 DEF Speaks
    <3>3. \A k \in DOMAIN orders : LotOf(k) = l /\ orders'[k].filled # 0 => Inst(k) = i
      BY <1>3, <2>1, <3>1 DEF Speaks
    <3>4. Speaks(i, l)'
      BY <1>2, <1>3, <1>4, <3>1, <3>2, <3>3 DEF Speaks
    <3> QED BY <3>4
  <2>2. CASE l = LotOf(n) /\ (Side(n) = "SELL" \/ orders[n].filled # 0)
    <3>1. PICK i \in Instruments : Speaks(i, l)
      BY DEF NamesFit
    <3>2. Inst(n) = i
      BY <1>8, <2>2, <3>1 DEF Speaks
    <3>3. \A k \in DOMAIN orders : LotOf(k) = l /\ orders'[k].filled # 0 => Inst(k) = i
      BY <1>3, <3>1, <3>2 DEF Speaks
    <3>4. Speaks(i, l)'
      BY <1>2, <1>3, <1>4, <1>7, <2>2, <3>1, <3>2, <3>3 DEF Speaks
    <3> QED BY <3>4
  <2>3. CASE l = LotOf(n) /\ Side(n) = "BUY" /\ orders[n].filled = 0
    <3>1. l \notin seen
      BY <1>1, <2>3, OwnLot
    <3>2. l \notin DOMAIN book.lots /\ \A k \in DOMAIN orders : LotOf(k) = l => orders[k].filled = 0
      BY <3>1 DEF NamesFit
    <3>3. \A k \in DOMAIN orders : LotOf(k) = l /\ orders'[k].filled # 0 => k = n
      BY <1>3, <3>2
    <3>4. PICK i \in Instruments : i = Inst(n)
      BY <1>6
    <3>5. \A k \in DOMAIN orders : LotOf(k) = l /\ orders'[k].filled # 0 => Inst(k) = i
      BY <3>3, <3>4
    <3>6. l \in DOMAIN ls => ls[l].inst = i
      BY <1>7, <2>3, <3>4
    <3>7. Speaks(i, l)'
      BY <1>2, <1>3, <1>4, <3>2, <3>5, <3>6 DEF Speaks
    <3> QED BY <3>7
  <2> QED BY <1>6, <2>1, <2>2, <2>3
<1> QED BY <1>2, <1>3, <1>4, <1>5, <1>10, <1>11, <1>12 DEF NamesFit

\* After a fill the shares of each lot by day are still all its shares, and no lot is
\* left empty.
LEMMA FillMatches ==
  ASSUME ReplayTypeOK, SharesMatch, phase = "attempt", NEW n \in DOMAIN orders, AttemptFills(n)
  PROVE  SharesMatch'
<1>0. LastDay \in Nat /\ IsFiniteSet(0 .. LastDay)
  BY InputTypes, FS_Interval
<1>1. FillFits(n)
  BY FillParts
<1>2. PICK ls : ls = lots' /\ ls = FilledLots(n)
  BY FillParts
<1>3. PICK q \in Nat \ {0} : q = Quantity(n)
  BY <1>1 DEF FillFits
<1>4. Side(n) \in {"BUY", "SELL"}
  BY IntentTypes DEF ReplayTypeOK, Sides
<1> SUFFICES ASSUME NEW l \in DOMAIN ls
             PROVE  ls[l].quantity = Total(ls[l].bought) /\ ls[l].quantity > 0
  BY <1>2 DEF SharesMatch
<1>5. CASE Side(n) = "SELL"
  <2>1. ls = LotsAfterSell(LotOf(n), q)
    BY <1>2, <1>3, <1>5 DEF FilledLots
  <2>2. /\ DOMAIN ls \subseteq DOMAIN lots
        /\ \A k \in DOMAIN lots : k # LotOf(n) => k \in DOMAIN ls /\ ls[k] = lots[k]
        /\ LotOf(n) \in DOMAIN ls =>
             /\ ls[LotOf(n)].quantity = lots[LotOf(n)].quantity - q
             /\ ls[LotOf(n)].bought = Drawn(lots[LotOf(n)].bought, q)
    BY <1>1, <1>3, <1>5, <2>1, SoldLots
  <2>3. CASE l # LotOf(n)
    BY <2>2, <2>3 DEF SharesMatch
  <2>4. CASE l = LotOf(n)
    <3>1. PICK f \in [0 .. LastDay -> Nat], m \in Nat :
            f = lots[l].bought /\ m = lots[l].quantity /\ m = Total(f)
      BY <2>2 DEF ReplayTypeOK, AccountTypeOK, Position, SharesMatch
    <3>2. m # q
      <4>1. CASE m = q
        <5>1. ls = Without(lots, l)
          BY <2>1, <2>4, <3>1, <4>1 DEF LotsAfterSell
        <5>2. l \notin DOMAIN ls
          BY <5>1 DEF Without
        <5> QED BY <5>2
      <4> QED BY <4>1
    <3>3. Sellable(l) = Below(f, Today)
      BY <2>2, <3>1 DEF Sellable, Below
    <3>4. q <= Below(f, Today)
      BY <1>1, <1>3, <1>5, <2>4, <3>3 DEF FillFits
    <3>5. Total(Drawn(f, q)) = m - q
      BY <3>1, <3>4, DrawnTotal
    <3>6. ls[l].quantity = m - q /\ Total(ls[l].bought) = m - q
      BY <2>2, <2>4, <3>1, <3>5
    <3>7. m - q > 0
      <4>1. m - q \in Nat
        <5>1. PICK g \in [0 .. LastDay -> Nat] : g = Drawn(f, q)
          BY DrawnType
        <5> QED BY <1>0, <3>5, <5>1, TotalType
      <4> QED BY <1>3, <3>2, <4>1
    <3> QED BY <3>6, <3>7
  <2> QED BY <2>3, <2>4
<1>6. CASE Side(n) = "BUY"
  <2>1. /\ DOMAIN ls = DOMAIN lots \cup {LotOf(n)} /\ LotBefore(n) \in Position
        /\ \A k \in DOMAIN lots : k # LotOf(n) => ls[k] = lots[k]
        /\ LotOf(n) \in DOMAIN lots => LotBefore(n) = lots[LotOf(n)]
        /\ LotOf(n) \notin DOMAIN lots =>
             LotBefore(n).quantity = 0 /\ LotBefore(n).bought = [d \in 0 .. LastDay |-> 0]
        /\ ls[LotOf(n)].quantity = LotBefore(n).quantity + Quantity(n)
        /\ ls[LotOf(n)].bought = BoughtAfter(n)
    BY <1>1, <1>2, <1>6, BoughtParts
  <2>2. CASE l # LotOf(n)
    BY <2>1, <2>2 DEF SharesMatch
  <2>3. CASE l = LotOf(n)
    <3>1. PICK f \in [0 .. LastDay -> Nat], m \in Nat : f = LotBefore(n).bought /\ m = LotBefore(n).quantity
      BY <2>1 DEF Position
    <3>2. Total(f) = m
      <4>1. CASE LotOf(n) \in DOMAIN lots
        BY <2>1, <3>1, <4>1 DEF SharesMatch
      <4>2. CASE LotOf(n) \notin DOMAIN lots
        <5>1. f \in [0 .. LastDay -> {0}]
          BY <2>1, <3>1, <4>2
        <5>2. Total(f) = 0
          BY <5>1, TotalZero
        <5> QED BY <2>1, <3>1, <4>2, <5>2
      <4> QED BY <4>1, <4>2
    <3>3. PICK d \in 0 .. LastDay : d = Today
      BY AttemptPlace
    <3>4. PICK w \in Nat : w = f[d] + q
      OBVIOUS
    <3>5. BoughtAfter(n) = [f EXCEPT ![d] = w]
      BY <1>3, <3>1, <3>3, <3>4 DEF BoughtAfter
    <3>6. Total([f EXCEPT ![d] = w]) = Total(f) - f[d] + w /\ f[d] \in Nat
      BY <1>0, TotalUpdate
    <3>7. Total(BoughtAfter(n)) = m + q
      BY <3>2, <3>4, <3>5, <3>6
    <3> QED BY <1>3, <2>1, <2>3, <3>1, <3>7
  <2> QED BY <2>2, <2>3
<1> QED BY <1>4, <1>5, <1>6

\* A fill pays or earns what the orders say it did.
LEMMA FillMoney ==
  ASSUME ReplayTypeOK, ReplayTypeOK', MoneyFits, phase = "attempt", NEW n \in DOMAIN orders, AttemptFills(n)
  PROVE  MoneyFits'
<1>1. FillFits(n) /\ FillsOrder(n)
  BY FillParts, FillOrders
<1>2. PICK q \in Nat : q = Quantity(n)
  BY <1>1 DEF FillFits
<1>3. PICK y \in Nat, fee \in Int : y = (q * Price(n)) * Unit /\ fee = FeeFor(n, q)
  <2>1. PICK x \in Nat : x = q * Price(n)
    BY FeeForType
  <2>2. x * Unit \in Nat
    BY InputTypes, ProductType
  <2> QED BY <2>1, <2>2, FeeForType
<1>4. PICK s \in Nat, b \in Nat, f \in Nat : s = MoneyOf("SELL") /\ b = MoneyOf("BUY") /\ f = Fees
  BY <1>1, <1>2, MoneyMoves
<1>5. PICK t, c, g : t = MoneyOf("SELL")' /\ c = MoneyOf("BUY")' /\ g = Fees'
  OBVIOUS
<1>6. t = s + (IF Side(n) = "SELL" THEN y ELSE 0)
  BY <1>1, <1>2, <1>3, <1>4, <1>5, MoneyMoves
<1>7. c = b + (IF Side(n) = "BUY" THEN y ELSE 0)
  BY <1>1, <1>2, <1>3, <1>4, <1>5, MoneyMoves
<1>8. g = f + fee
  BY <1>1, <1>2, <1>3, <1>4, <1>5, MoneyMoves
<1>9. InitialCash \in Nat /\ cash = InitialCash + s - b - f
  BY <1>4, InputTypes DEF MoneyFits
<1>10. cash' = IF Side(n) = "SELL" THEN cash + Proceeds(n) ELSE cash - Cost(n, q)
  BY <1>2, FillParts
<1>11. Side(n) \in {"BUY", "SELL"}
  BY IntentTypes DEF ReplayTypeOK, Sides
<1>12. CASE Side(n) = "SELL"
  <2>1. Wanted(n) = q
    BY <1>1, <1>2, <1>12 DEF FillFits
  <2>2. Proceeds(n) = y - fee
    BY <1>3, <2>1 DEF Proceeds
  <2>3. cash' = cash + y - fee
    BY <1>3, <1>4, <1>9, <1>10, <1>12, <2>2
  <2>4. cash' = InitialCash + t - c - g
    BY <1>3, <1>4, <1>6, <1>7, <1>8, <1>9, <1>12, <2>3
  <2> QED BY <1>5, <2>4 DEF MoneyFits
<1>13. CASE Side(n) = "BUY"
  <2>1. Cost(n, q) = y + fee
    BY <1>3 DEF Cost
  <2>2. cash' = cash - (y + fee)
    BY <1>10, <1>13, <2>1
  <2>3. cash' = InitialCash + t - c - g
    BY <1>3, <1>4, <1>6, <1>7, <1>8, <1>9, <1>13, <2>2
  <2> QED BY <1>5, <2>3 DEF MoneyFits
<1> QED BY <1>11, <1>12, <1>13

\* After a fill each order still adds up, and its fee is that of all it traded for.
LEMMA FillAdds ==
  ASSUME ReplayTypeOK, TapeFits, PricesFit, OrdersAdd, phase = "attempt", NEW n \in DOMAIN orders,
         AttemptFills(n)
  PROVE  OrdersAdd'
<1>1. FillFits(n) /\ FillsOrder(n)
  BY FillParts, FillOrders
<1>2. PICK q \in Nat \ {0} : q = Quantity(n)
  BY <1>1 DEF FillFits
<1>3. /\ DOMAIN orders' = DOMAIN orders /\ UNCHANGED book
      /\ \A k \in DOMAIN orders : k # n => orders'[k] = orders[k]
  BY <1>1 DEF FillsOrder
<1>4. \A k : Side(k)' = Side(k)
  BY <1>3 DEF Side, Intent
<1> SUFFICES ASSUME NEW k \in DOMAIN orders PROVE OrderAdds(k)'
  BY <1>3 DEF OrdersAdd
<1>5. OrderAdds(k)
  BY DEF OrdersAdd
<1>6. CASE k # n
  <2>1. orders'[k] = orders[k]
    BY <1>3, <1>6
  <2> QED BY <1>4, <1>5, <2>1 DEF OrderAdds
<1>7. CASE k = n
  <2>1. PICK p \in Nat \ {0} : p = Price(n)
    BY PricePositive DEF AttemptFills
  <2>2. PICK y \in Nat : y = q * p
    BY ProductType
  <2>3. y # 0
    <3>1. 1 * p <= q * p
      BY ProductGrows
    <3> QED BY <2>1, <2>2, <3>1
  <2>4. PICK o \in Order : o = orders[n]
    BY IntentTypes DEF ReplayTypeOK
  <2>5. o.quantity = o.filled + o.remaining
    BY <1>5, <1>7, <2>4 DEF OrderAdds
  <2>6. PICK r : r = orders'[n]
    OBVIOUS
  <2>7. /\ r.quantity = o.quantity /\ r.filled = o.filled + q /\ r.remaining = o.remaining - q
        /\ r.notional = o.notional + y /\ r.fee = FeeOf(Side(n), o.notional + y)
        /\ r.status = "FILLED" <=> r.remaining = 0
    BY <1>1, <1>2, <2>1, <2>2, <2>4, <2>6 DEF FillsOrder
  <2>8. o.quantity \in Nat /\ o.filled \in Nat /\ o.remaining \in Nat /\ o.notional \in Nat
    BY <2>4 DEF Order
  <2>9. r.quantity = r.filled + r.remaining
    BY <2>5, <2>7, <2>8
  <2>10. r.notional # 0
    BY <2>2, <2>3, <2>7, <2>8
  <2>11. r.fee = FeeOf(Side(n), r.notional)
    BY <2>7
  <2> QED BY <1>4, <1>7, <2>6, <2>7, <2>9, <2>10, <2>11 DEF OrderAdds
<1> QED BY <1>6, <1>7

\* A fill leaves the account exact.
LEMMA FillAccount ==
  ASSUME LegalIInv, TapeFits, AccountFits, ReplayTypeOK', phase = "attempt",
         NEW n \in DOMAIN orders, AttemptFills(n)
  PROVE  AccountFits'
<1>1. ReplayTypeOK /\ OwnersFit /\ MinuteFits
  BY DEF LegalIInv, ReplayIInv
<1>2. /\ WholeFits /\ PricesFit /\ NamesFit /\ LotsBalance /\ SharesMatch /\ MoneyFits /\ OrdersAdd
  BY DEF AccountFits
<1>3. WholeFits' /\ NamesFit'
  BY <1>1, <1>2, FillWhole, FillNames
<1>4. LotsBalance' /\ SharesMatch'
  BY <1>1, <1>2, FillBalances, FillMatches
<1>5. MoneyFits' /\ OrdersAdd'
  BY <1>1, <1>2, FillMoney, FillAdds
<1>6. PricesFit'
  <2>1. /\ UNCHANGED book /\ DOMAIN orders' = DOMAIN orders
        /\ \A k \in DOMAIN orders : orders'[k].scaled = orders[k].scaled
    BY <1>1, FillOrders DEF FillsOrder
  <2> QED BY <1>2, <2>1 DEF PricesFit, Inst, Intent
<1> QED BY <1>3, <1>4, <1>5, <1>6 DEF AccountFits

-----------------------------------------------------------------------------
(* The account: what a point of the timeline does. *)

\* The record c that the changes of units due at t make of the record o of an order.
Reaches(n, due, t, o, c) ==
  /\ Inst(n) \in due /\ ~(Intent(n).refAt >= t) =>
       /\ c.quantity = Scaled(o.quantity, Inst(n)) /\ c.filled = Scaled(o.filled, Inst(n))
       /\ c.remaining = Scaled(o.remaining, Inst(n)) /\ c.scaled = TRUE
  /\ ~(Inst(n) \in due /\ ~(Intent(n).refAt >= t)) => c = o

\* A change of units reaches the orders of its instruments whose quantity was fixed
\* before it, ended or not, and no other.
LEMMA ConvertReaches ==
  ASSUME ClockTypeOK, AccountTypeOK, NEW due, NEW t, NEW n \in DOMAIN orders
  PROVE  Reaches(n, due, t, orders[n], ConvertOrders(due, t)[n])
<1>0. PICK c, o : c = ConvertOrders(due, t)[n] /\ o = orders[n]
  OBVIOUS
<1>1. o \in Order
  BY <1>0, IntentTypes
<1>2. CASE ~(Inst(n) \in due /\ ~(Intent(n).refAt >= t))
  BY <1>0, <1>2 DEF ConvertOrders, Reaches
<1>3. CASE Inst(n) \in due /\ ~(Intent(n).refAt >= t)
  <2>1. PICK a, b, r : a = Scaled(o.quantity, Inst(n)) /\ b = Scaled(o.filled, Inst(n))
                       /\ r = Scaled(o.remaining, Inst(n))
    OBVIOUS
  <2>2. c = [o EXCEPT !.quantity = a, !.filled = b, !.remaining = r, !.scaled = TRUE]
    BY <1>0, <1>3, <2>1 DEF ConvertOrders
  <2>3. c.quantity = a /\ c.filled = b /\ c.remaining = r /\ c.scaled = TRUE
    BY <1>1, <2>2 DEF Order
  <2> QED BY <1>0, <1>3, <2>1, <2>3 DEF Reaches
<1> QED BY <1>2, <1>3

\* Neither an expiry nor an arrival fills an order, or touches one that is filled.
LEMMA EndsUnfilled ==
  ASSUME NEW os \in [DOMAIN book.intents -> Order], NEW t, NEW n \in DOMAIN os
  PROVE  /\ Expire(os, t)[n].status = "FILLED" <=> os[n].status = "FILLED"
         /\ Activate(os, t)[n].status = "FILLED" <=> os[n].status = "FILLED"
<1>1. PICK o \in Order : o = os[n]
  OBVIOUS
<1>2. "FILLED" \in Terminal
  BY DEF Terminal
<1>3. PICK d : d = DayOf(o.deadline)
  OBVIOUS
<1>4. \/ Expire(os, t)[n] = o
      \/ o.status \notin Terminal /\ Expire(os, t)[n] = [o EXCEPT !.status = "EXPIRED"]
      \/ o.status \notin Terminal
           /\ \E s \in {"PARTIAL", "WAITING"} : \E x, b :
                Expire(os, t)[n] = [o EXCEPT !.status = s, !.deadline = x, !.beyond = b]
  BY <1>1, <1>3 DEF Expire
<1>5. Expire(os, t)[n].status = "FILLED" <=> o.status = "FILLED"
  BY <1>2, <1>4 DEF Order
<1>6. \/ Activate(os, t)[n] = o
      \/ o.status \notin Terminal /\ Activate(os, t)[n] = [o EXCEPT !.status = "CANCELLED"]
  BY <1>1, Zenon DEF Activate
<1>7. Activate(os, t)[n].status = "FILLED" <=> o.status = "FILLED"
  BY <1>2, <1>6 DEF Order
<1> QED BY <1>1, <1>5, <1>7

\* What the step to t, with the unit changes due, makes of an order.
PassesOrder(n, due, t) ==
  /\ orders'[n].notional = orders[n].notional /\ orders'[n].fee = orders[n].fee
  /\ orders'[n].status = "FILLED" <=> orders[n].status = "FILLED"
  /\ Inst(n) \in due /\ ~(Intent(n).refAt >= t) =>
       /\ orders'[n].quantity = Scaled(orders[n].quantity, Inst(n))
       /\ orders'[n].filled = Scaled(orders[n].filled, Inst(n))
       /\ orders'[n].remaining = Scaled(orders[n].remaining, Inst(n))
  /\ ~(Inst(n) \in due /\ ~(Intent(n).refAt >= t)) =>
       /\ orders'[n].quantity = orders[n].quantity /\ orders'[n].filled = orders[n].filled
       /\ orders'[n].remaining = orders[n].remaining /\ orders'[n].scaled = orders[n].scaled

\* ... and of the account.
Passes(due, t) ==
  /\ t \in Nat /\ now \in Nat /\ now < t /\ now' = t
  /\ due = {i \in DOMAIN Factor : Factor[i].at = t}
  /\ \A i \in DOMAIN Factor : now < Factor[i].at => t <= Factor[i].at
  /\ UNCHANGED <<book, seen, cash, room>>
  /\ DOMAIN orders' = DOMAIN orders /\ lots' = ConvertLots(due)
  /\ \A n \in DOMAIN orders : PassesOrder(n, due, t)

\* A step of the timeline passes over no change of units.
LEMMA AdvanceParts ==
  ASSUME ReplayTypeOK, Advance
  PROVE  \E due \in SUBSET DOMAIN Factor, t \in Nat : Passes(due, t)
<1>1. ClockTypeOK /\ AccountTypeOK /\ now \in Nat
  BY DEF ReplayTypeOK, ClockTypeOK
<1>2. PICK t \in Nat : t = Min(Later) /\ now < t /\ \A u \in Timeline : u > now => t <= u
  BY <1>1, NextPoint DEF Advance
<1>3. PICK due \in SUBSET DOMAIN Factor : due = {i \in DOMAIN Factor : Factor[i].at = t}
  OBVIOUS
<1>4. /\ lots' = ConvertLots(due) /\ orders' = Passed(due, t) /\ now' = t
      /\ UNCHANGED <<book, seen, cash, room>>
  BY <1>2, <1>3 DEF Advance, input, Passed
<1>5. \A i \in DOMAIN Factor : now < Factor[i].at => t <= Factor[i].at
  <2>1. \A i \in DOMAIN Factor : Factor[i].at \in Timeline /\ Factor[i].at \in Nat
    BY ChangeFacts DEF Timeline
  <2> QED BY <1>1, <1>2, <2>1
<1>6. PICK cs \in [DOMAIN book.intents -> Order] : cs = ConvertOrders(due, t)
  BY <1>1, ConvertedOrdersType
<1>7. PICK es \in [DOMAIN book.intents -> Order] : es = Expire(cs, t)
  BY <1>1, ExpiredOrdersType
<1>8. PICK as \in [DOMAIN book.intents -> Order] : as = Activate(es, t)
  BY ActivatedOrdersType
<1>9. orders' = as
  BY <1>4, <1>6, <1>7, <1>8 DEF Passed
<1>10. DOMAIN orders' = DOMAIN orders /\ DOMAIN orders = DOMAIN book.intents
  BY <1>1, <1>9 DEF AccountTypeOK
<1>11. ASSUME NEW n \in DOMAIN orders PROVE PassesOrder(n, due, t)
  <2>1. n \in DOMAIN cs /\ n \in DOMAIN es
    BY <1>10
  <2>2. SameTrades(cs[n], as[n])
    <3>1. SameTrades(cs[n], es[n])
      BY <1>7, <2>1, ExpireKeeps
    <3>2. SameTrades(es[n], as[n])
      BY <1>8, <2>1, ActivateKeeps
    <3> QED BY <3>1, <3>2 DEF SameTrades
  <2>3. as[n].status = "FILLED" <=> cs[n].status = "FILLED"
    <3>1. es[n].status = "FILLED" <=> cs[n].status = "FILLED"
      BY <1>7, <2>1, EndsUnfilled
    <3>2. as[n].status = "FILLED" <=> es[n].status = "FILLED"
      BY <1>8, <2>1, EndsUnfilled
    <3> QED BY <3>1, <3>2
  <2>4. PICK c, o : c = cs[n] /\ c = ConvertOrders(due, t)[n] /\ o = orders[n]
    BY <1>6
  <2>5. c.status = o.status /\ c.notional = o.notional /\ c.fee = o.fee
    BY <1>1, <1>6, <2>4, ConvertKeeps
  <2>6. Reaches(n, due, t, orders[n], ConvertOrders(due, t)[n])
    BY <1>1, ConvertReaches
  <2>7. Reaches(n, due, t, o, c)
    BY <2>4, <2>6
  <2>8. PICK p : p = orders'[n] /\ SameTrades(c, p) /\ (p.status = "FILLED" <=> c.status = "FILLED")
    BY <1>9, <2>2, <2>3, <2>4
  <2> QED BY <2>4, <2>5, <2>7, <2>8 DEF PassesOrder, SameTrades, Reaches
<1>12. Passes(due, t)
  BY <1>1, <1>2, <1>3, <1>4, <1>5, <1>10, <1>11 DEF Passes
<1> QED BY <1>12

\* What is still in its first units stays whole.
LEMMA PassesWhole ==
  ASSUME ReplayTypeOK, WholeFits, NEW due \in SUBSET DOMAIN Factor, NEW t \in Nat, Passes(due, t)
  PROVE  WholeFits'
<1>1. /\ now \in Nat /\ now < t /\ now' = t /\ due = {i \in DOMAIN Factor : Factor[i].at = t}
      /\ UNCHANGED <<book, room>> /\ DOMAIN orders' = DOMAIN orders /\ lots' = ConvertLots(due)
  BY DEF Passes
<1>2. \A k : Intent(k)' = Intent(k) /\ Inst(k)' = Inst(k)
  BY <1>1 DEF Intent, Inst
<1>3. PICK ls : ls = lots'
  OBVIOUS
<1>4. /\ DOMAIN ls = DOMAIN lots
      /\ \A l \in DOMAIN lots : /\ ls[l].inst = lots[l].inst
                                /\ lots[l].inst \notin due => ls[l] = lots[l]
  BY <1>1, <1>3, ConvertedLots
<1> SUFFICES ASSUME NEW i \in DOMAIN Factor, t < Factor[i].at
             PROVE  /\ Whole(room[i], i)
                    /\ \A l \in DOMAIN ls : WholeLot(ls[l], i)
                    /\ \A k \in DOMAIN orders : Inst(k) = i =>
                         IF Intent(k).refAt < Factor[i].at
                         THEN Whole(orders'[k].filled, i) /\ Whole(orders'[k].remaining, i)
                         ELSE orders'[k].filled = 0
  BY <1>1, <1>2, <1>3 DEF WholeFits, Whole, WholeLot
<1>5. now < Factor[i].at /\ i \notin due
  BY <1>1, ChangeFacts
<1>6. /\ Whole(room[i], i)
      /\ \A l \in DOMAIN lots : WholeLot(lots[l], i)
      /\ \A k \in DOMAIN orders : Inst(k) = i =>
           IF Intent(k).refAt < Factor[i].at
           THEN Whole(orders[k].filled, i) /\ Whole(orders[k].remaining, i)
           ELSE orders[k].filled = 0
  BY <1>5 DEF WholeFits, WholeLot
<1>7. \A l \in DOMAIN ls : WholeLot(ls[l], i)
  <2> SUFFICES ASSUME NEW l \in DOMAIN ls PROVE WholeLot(ls[l], i)
    OBVIOUS
  <2>1. CASE lots[l].inst = i
    BY <1>4, <1>5, <1>6, <2>1
  <2>2. CASE lots[l].inst # i
    BY <1>4, <2>2 DEF WholeLot
  <2> QED BY <2>1, <2>2
<1>8. \A k \in DOMAIN orders : Inst(k) = i =>
        orders'[k].filled = orders[k].filled /\ orders'[k].remaining = orders[k].remaining
  BY <1>5 DEF Passes, PassesOrder
<1> QED BY <1>6, <1>7, <1>8

\* A converted order was priced before the change of its units.
LEMMA PassesPrices ==
  ASSUME ReplayTypeOK, PricesFit, NEW due \in SUBSET DOMAIN Factor, NEW t \in Nat, Passes(due, t)
  PROVE  PricesFit'
<1>1. UNCHANGED book /\ DOMAIN orders' = DOMAIN orders /\ due = {i \in DOMAIN Factor : Factor[i].at = t}
  BY DEF Passes
<1>2. \A k : Intent(k)' = Intent(k) /\ Inst(k)' = Inst(k)
  BY <1>1 DEF Intent, Inst
<1>3. ASSUME NEW n \in DOMAIN orders, orders'[n].scaled PROVE Intent(n).refAt < Factor[Inst(n)].at
  <2>1. CASE Inst(n) \in due /\ ~(Intent(n).refAt >= t)
    <3>1. Factor[Inst(n)].at = t /\ Intent(n).refAt \in Nat
      BY <1>1, <2>1, IntentTypes DEF ReplayTypeOK
    <3> QED BY <2>1, <3>1
  <2>2. CASE ~(Inst(n) \in due /\ ~(Intent(n).refAt >= t))
    <3>1. orders'[n].scaled = orders[n].scaled
      BY <2>2 DEF Passes, PassesOrder
    <3> QED BY <1>3, <3>1 DEF PricesFit
  <2> QED BY <2>1, <2>2
<1> QED BY <1>1, <1>2, <1>3 DEF PricesFit

\* Whatever is not zero after a change of units was not before it.
LEMMA PassesTrades ==
  ASSUME NEW due \in SUBSET DOMAIN Factor, NEW t, NEW n \in DOMAIN orders, PassesOrder(n, due, t),
         orders[n].filled = 0
  PROVE  orders'[n].filled = 0
<1>1. CASE Inst(n) \in due /\ ~(Intent(n).refAt >= t)
  <2>1. Inst(n) \in DOMAIN Factor /\ orders'[n].filled = Scaled(0, Inst(n))
    BY <1>1 DEF PassesOrder
  <2> QED BY <2>1, ScaledZero
<1>2. CASE ~(Inst(n) \in due /\ ~(Intent(n).refAt >= t))
  BY <1>2 DEF PassesOrder
<1> QED BY <1>1, <1>2

\* A point of the timeline says nothing new of a lot.
LEMMA PassesNames ==
  ASSUME ReplayTypeOK, NamesFit, NEW due \in SUBSET DOMAIN Factor, NEW t \in Nat, Passes(due, t)
  PROVE  NamesFit'
<1>1. UNCHANGED <<book, seen>> /\ DOMAIN orders' = DOMAIN orders /\ lots' = ConvertLots(due)
  BY DEF Passes
<1>2. PICK ls : ls = lots'
  OBVIOUS
<1>3. DOMAIN ls = DOMAIN lots /\ \A l \in DOMAIN lots : ls[l].inst = lots[l].inst
  BY <1>1, <1>2, ConvertedLots
<1>4. \A k : LotOf(k)' = LotOf(k) /\ Inst(k)' = Inst(k)
  BY <1>1 DEF LotOf, Inst, Intent
<1>5. \A k \in DOMAIN orders : orders'[k].filled # 0 => orders[k].filled # 0
  BY PassesTrades DEF Passes
<1>6. Names' = Names
  BY <1>1, <1>4 DEF Names
<1>7. ASSUME NEW l, NEW i, Speaks(i, l) PROVE Speaks(i, l)'
  BY <1>1, <1>2, <1>3, <1>4, <1>5, <1>7 DEF Speaks
<1> QED BY <1>1, <1>2, <1>3, <1>4, <1>5, <1>6, <1>7 DEF NamesFit

\* A lot whose instrument keeps its units balances as it did.
LEMMA BalanceStays ==
  ASSUME ReplayTypeOK, ReplayTypeOK', NEW due \in SUBSET DOMAIN Factor, NEW t \in Nat, Passes(due, t),
         NEW l \in Names, NEW i, Speaks(i, l), i \notin due, Balances(l)
  PROVE  Balances(l)'
<1>1. /\ now \in Nat /\ now < t /\ now' = t /\ due = {j \in DOMAIN Factor : Factor[j].at = t}
      /\ \A j \in DOMAIN Factor : now < Factor[j].at => t <= Factor[j].at
      /\ UNCHANGED book /\ DOMAIN orders' = DOMAIN orders /\ lots' = ConvertLots(due)
  BY DEF Passes
<1>2. SharesIn(l)' = SharesIn(l)
  <2>1. PICK ls : ls = lots'
    OBVIOUS
  <2>2. /\ DOMAIN ls = DOMAIN lots
        /\ \A k \in DOMAIN lots : lots[k].inst \notin due => ls[k] = lots[k]
    BY <1>1, <2>1, ConvertedLots
  <2>3. l \in DOMAIN lots => ls[l] = lots[l]
    BY <2>2 DEF Speaks
  <2> QED BY <2>1, <2>2, <2>3 DEF SharesIn
<1>3. StartOf(l)' = StartOf(l)
  <2>1. CASE l \in DOMAIN book.lots /\ i \in DOMAIN Factor
    <3>1. Factor[i].at \in Nat /\ Factor[i].at # t
      BY <1>1, <2>1, ChangeFacts
    <3>2. now >= Factor[i].at <=> t >= Factor[i].at
      BY <1>1, <2>1, <3>1
    <3>3. book.lots[l].inst = i
      BY <2>1 DEF Speaks
    <3> QED BY <1>1, <2>1, <3>2, <3>3 DEF StartOf
  <2>2. CASE ~(l \in DOMAIN book.lots /\ i \in DOMAIN Factor)
    <3>1. l \in DOMAIN book.lots => book.lots[l].inst = i
      BY DEF Speaks
    <3> QED BY <1>1, <2>2, <3>1 DEF StartOf
  <2> QED BY <2>1, <2>2
<1>4. ASSUME NEW side PROVE FilledOf(l, side)' = FilledOf(l, side)
  <2>1. PICK D : D = OrdersOf(l, side)
    OBVIOUS
  <2>2. D = OrdersOf(l, side)' /\ D \subseteq DOMAIN orders
    BY <1>1, <2>1 DEF OrdersOf, LotOf, Side, Intent
  <2>3. ASSUME NEW k \in D PROVE orders'[k].filled = orders[k].filled
    <3>1. PassesOrder(k, due, t) /\ LotOf(k) = l
      BY <2>1, <2>2 DEF Passes, OrdersOf
    <3>2. CASE orders[k].filled = 0
      BY <2>2, <3>1, <3>2, PassesTrades
    <3>3. CASE orders[k].filled # 0
      <4>1. Inst(k) = i
        BY <2>2, <3>1, <3>3 DEF Speaks
      <4> QED BY <3>1, <4>1 DEF PassesOrder
    <3> QED BY <3>2, <3>3
  <2>4. [k \in D |-> orders'[k].filled] = [k \in D |-> orders[k].filled]
    BY <2>3
  <2>5. FilledOf(l, side) = Total([k \in D |-> orders[k].filled])
    BY <2>1 DEF FilledOf, OrdersOf
  <2>6. FilledOf(l, side)' = Total([k \in D |-> orders'[k].filled])
    BY <2>2 DEF FilledOf, OrdersOf
  <2> QED BY <2>4, <2>5, <2>6
<1>5. FilledOf(l, "SELL")' = FilledOf(l, "SELL") /\ FilledOf(l, "BUY")' = FilledOf(l, "BUY")
  BY <1>4
<1> QED BY <1>2, <1>3, <1>5 DEF Balances

\* The shares the orders of a lot traded change their units together.
LEMMA FilledScales ==
  ASSUME ReplayTypeOK, ReplayTypeOK', WholeFits, NEW due \in SUBSET DOMAIN Factor, NEW t \in Nat,
         Passes(due, t), NEW l, NEW i \in due, Speaks(i, l), NEW side
  PROVE  FilledOf(l, side)' = Scaled(FilledOf(l, side), i) /\ Whole(FilledOf(l, side), i)
<1>1. /\ now < t /\ i \in DOMAIN Factor /\ Factor[i].at = t /\ UNCHANGED book /\ DOMAIN orders' = DOMAIN orders
  BY DEF Passes
<1>2. PICK D : D = OrdersOf(l, side)
  OBVIOUS
<1>31. D = OrdersOf(l, side)' /\ D \subseteq DOMAIN orders
  BY <1>1, <1>2 DEF OrdersOf, LotOf, Side, Intent
<1>3. D = OrdersOf(l, side)' /\ D \subseteq DOMAIN orders /\ IsFiniteSet(D)
  BY <1>2, <1>31, SumsType
<1>4. PICK f \in [D -> Nat] : f = [k \in D |-> orders[k].filled]
  BY <1>2, SumsType
<1>5. ASSUME NEW k \in D
      PROVE  Whole(f[k], i) /\ orders'[k].filled = Scaled(f[k], i)
  <2>1. PassesOrder(k, due, t) /\ LotOf(k) = l /\ f[k] = orders[k].filled
    BY <1>2, <1>3, <1>4 DEF Passes, OrdersOf
  <2>2. CASE f[k] = 0
    <3>1. orders'[k].filled = 0
      BY <1>3, <2>1, <2>2, PassesTrades
    <3> QED BY <1>1, <2>2, <3>1, ScaledZero, WholeZero
  <2>3. CASE f[k] # 0
    <3>1. Inst(k) = i
      BY <1>3, <2>1, <2>3 DEF Speaks
    <3>2. Intent(k).refAt < Factor[i].at /\ Whole(f[k], i)
      BY <1>1, <1>3, <2>1, <2>3, <3>1 DEF WholeFits
    <3>3. Intent(k).refAt \in Nat
      BY <1>3, IntentTypes DEF ReplayTypeOK
    <3>4. ~(Intent(k).refAt >= t)
      BY <1>1, <3>2, <3>3
    <3> QED BY <2>1, <3>1, <3>2, <3>4 DEF PassesOrder
  <2> QED BY <2>2, <2>3
<1>6. [k \in D |-> orders'[k].filled] = [k \in D |-> Scaled(f[k], i)]
  BY <1>5
<1>7. Whole(Total(f), i) /\ Total([k \in D |-> Scaled(f[k], i)]) = Scaled(Total(f), i)
  BY <1>1, <1>3, <1>5, WholeTotal
<1>8. FilledOf(l, side) = Total(f)
  BY <1>2, <1>4 DEF FilledOf, OrdersOf
<1>9. FilledOf(l, side)' = Total([k \in D |-> orders'[k].filled])
  BY <1>3 DEF FilledOf, OrdersOf
<1> QED BY <1>6, <1>7, <1>8, <1>9

\* A lot whose instrument changes its units balances in the new ones.
LEMMA BalanceScales ==
  ASSUME ReplayTypeOK, ReplayTypeOK', WholeFits, NEW due \in SUBSET DOMAIN Factor, NEW t \in Nat,
         Passes(due, t), NEW l, NEW i \in due, Speaks(i, l), Balances(l)
  PROVE  Balances(l)'
<1>1. /\ now \in Nat /\ now < t /\ now' = t /\ i \in DOMAIN Factor /\ Factor[i].at = t
      /\ UNCHANGED book /\ lots' = ConvertLots(due)
  BY DEF Passes
<1>2. PICK a \in Nat : a = SharesIn(l) /\ Whole(a, i)
  <2>1. CASE l \in DOMAIN lots
    <3>1. PICK m \in Nat : m = lots[l].quantity /\ lots[l].inst = i
      BY <2>1 DEF Speaks, ReplayTypeOK, AccountTypeOK, Position
    <3>2. Whole(m, i)
      BY <1>1, <2>1, <3>1 DEF WholeFits
    <3> QED BY <2>1, <3>1, <3>2 DEF SharesIn
  <2>2. CASE l \notin DOMAIN lots
    BY <1>1, <2>2, WholeZero DEF SharesIn
  <2> QED BY <2>1, <2>2
<1>3. SharesIn(l)' = Scaled(a, i)
  <2>1. PICK ls : ls = lots'
    OBVIOUS
  <2>2. /\ DOMAIN ls = DOMAIN lots
        /\ \A k \in DOMAIN lots :
             lots[k].inst \in due => ls[k].quantity = Scaled(lots[k].quantity, lots[k].inst)
    BY <1>1, <2>1, ConvertedLots
  <2>3. CASE l \in DOMAIN lots
    <3>1. lots[l].inst = i /\ lots[l].quantity = a
      BY <1>2, <2>3 DEF Speaks, SharesIn
    <3> QED BY <2>1, <2>2, <2>3, <3>1 DEF SharesIn
  <2>4. CASE l \notin DOMAIN lots
    <3>1. a = 0
      BY <1>2, <2>4 DEF SharesIn
    <3>2. Scaled(0, i) = 0
      BY <1>1, ScaledZero
    <3> QED BY <2>1, <2>2, <2>4, <3>1, <3>2 DEF SharesIn
  <2> QED BY <2>3, <2>4
<1>4. PICK s \in Nat : s = StartOf(l) /\ Whole(s, i) /\ StartOf(l)' = Scaled(s, i)
  <2>1. CASE l \in DOMAIN book.lots
    <3>1. book.lots[l].inst = i /\ book \in Books
      BY <2>1 DEF Speaks, ReplayTypeOK, ClockTypeOK
    <3>2. PICK m \in Nat : m = book.lots[l].quantity
      BY <2>1, <3>1, InputAssumption DEF ValidInput
    <3>3. m % Factor[i].den = 0
      BY <1>1, <2>1, <3>1, <3>2, InputAssumption DEF WholeUnits
    <3>4. Whole(m, i)
      BY <1>1, <3>2, <3>3, WholeOf
    <3>5. StartOf(l) = m
      BY <1>1, <2>1, <3>1, <3>2 DEF StartOf
    <3>6. StartOf(l)' = Scaled(m, i)
      BY <1>1, <2>1, <3>1, <3>2 DEF StartOf
    <3> QED BY <3>4, <3>5, <3>6
  <2>2. CASE l \notin DOMAIN book.lots
    <3>1. StartOf(l) = 0 /\ StartOf(l)' = 0
      BY <1>1, <2>2 DEF StartOf
    <3>2. Scaled(0, i) = 0 /\ Whole(0, i)
      BY <1>1, ScaledZero, WholeZero
    <3> QED BY <3>1, <3>2
  <2> QED BY <2>1, <2>2
<1>5. PICK sold \in Nat : sold = FilledOf(l, "SELL") /\ Whole(sold, i)
                          /\ FilledOf(l, "SELL")' = Scaled(sold, i)
  <2>1. FilledOf(l, "SELL") \in Nat
    BY SumsType
  <2>2. FilledOf(l, "SELL")' = Scaled(FilledOf(l, "SELL"), i) /\ Whole(FilledOf(l, "SELL"), i)
    BY FilledScales
  <2> QED BY <2>1, <2>2
<1>6. PICK bought \in Nat : bought = FilledOf(l, "BUY") /\ Whole(bought, i)
                            /\ FilledOf(l, "BUY")' = Scaled(bought, i)
  <2>1. FilledOf(l, "BUY") \in Nat
    BY SumsType
  <2>2. FilledOf(l, "BUY")' = Scaled(FilledOf(l, "BUY"), i) /\ Whole(FilledOf(l, "BUY"), i)
    BY FilledScales
  <2> QED BY <2>1, <2>2
<1>7. a + sold = s + bought
  BY <1>2, <1>4, <1>5, <1>6 DEF Balances
<1>8. Scaled(a + sold, i) = Scaled(a, i) + Scaled(sold, i)
  BY <1>1, <1>2, <1>5, ScaledSum
<1>9. Scaled(s + bought, i) = Scaled(s, i) + Scaled(bought, i)
  BY <1>1, <1>4, <1>6, ScaledSum
<1>10. Scaled(a, i) + Scaled(sold, i) = Scaled(s, i) + Scaled(bought, i)
  BY <1>7, <1>8, <1>9
<1> QED BY <1>3, <1>4, <1>5, <1>6, <1>10 DEF Balances

\* A change of units changes the shares of each day of a lot and all its shares alike.
LEMMA PassesMatch ==
  ASSUME ReplayTypeOK, WholeFits, SharesMatch, NEW due \in SUBSET DOMAIN Factor, NEW t \in Nat,
         Passes(due, t)
  PROVE  SharesMatch'
<1>0. LastDay \in Nat /\ IsFiniteSet(0 .. LastDay)
  BY InputTypes, FS_Interval
<1>1. now < t /\ due = {j \in DOMAIN Factor : Factor[j].at = t} /\ lots' = ConvertLots(due)
  BY DEF Passes
<1>2. PICK ls : ls = lots'
  OBVIOUS
<1>3. DOMAIN ls = DOMAIN lots
  BY <1>1, <1>2, ConvertedLots
<1> SUFFICES ASSUME NEW l \in DOMAIN lots
             PROVE  ls[l].quantity = Total(ls[l].bought) /\ ls[l].quantity > 0
  BY <1>2, <1>3 DEF SharesMatch
<1>4. CASE lots[l].inst \notin due
  <2>1. ls[l] = lots[l]
    BY <1>1, <1>2, <1>4, ConvertedLots
  <2> QED BY <2>1 DEF SharesMatch
<1>5. CASE lots[l].inst \in due
  <2>1. PICK i \in DOMAIN Factor : i = lots[l].inst /\ Factor[i].at = t
    BY <1>1, <1>5
  <2>2. PICK D : D = 0 .. LastDay
    OBVIOUS
  <2>3. PICK f \in [D -> Nat], m \in Nat \ {0} : f = lots[l].bought /\ m = lots[l].quantity /\ m = Total(f)
    BY <2>2 DEF ReplayTypeOK, AccountTypeOK, Position, SharesMatch
  <2>4. Whole(m, i) /\ \A d \in D : Whole(f[d], i)
    BY <1>1, <2>1, <2>2, <2>3 DEF WholeFits
  <2>5. Total([d \in D |-> Scaled(f[d], i)]) = Scaled(m, i)
    <3>1. IsFiniteSet(D)
      BY <1>0, <2>2
    <3>2. Total([d \in D |-> Scaled(f[d], i)]) = Scaled(Total(f), i)
      BY <2>4, <3>1, WholeTotal
    <3> QED BY <2>3, <3>2
  <2>6. Scaled(m, i) \in Nat /\ Scaled(m, i) # 0
    BY <2>3, <2>4, ScaledSum
  <2>7. /\ ls[l].quantity = Scaled(lots[l].quantity, lots[l].inst)
        /\ ls[l].bought = [d \in 0 .. LastDay |-> Scaled(lots[l].bought[d], lots[l].inst)]
    BY <1>1, <1>2, <1>5, ConvertedLots
  <2>8. ls[l].quantity = Scaled(m, i) /\ ls[l].bought = [d \in D |-> Scaled(f[d], i)]
    BY <2>1, <2>2, <2>3, <2>7
  <2> QED BY <2>5, <2>6, <2>8
<1> QED BY <1>4, <1>5

\* A point of the timeline moves no money.
LEMMA PassesMoney ==
  ASSUME ReplayTypeOK, MoneyFits, NEW due \in SUBSET DOMAIN Factor, NEW t \in Nat, Passes(due, t)
  PROVE  MoneyFits'
<1>1. UNCHANGED <<book, cash>> /\ DOMAIN orders' = DOMAIN orders
  BY DEF Passes
<1>2. \A k \in DOMAIN orders : orders'[k].notional = orders[k].notional /\ orders'[k].fee = orders[k].fee
  BY DEF Passes, PassesOrder
<1>3. ASSUME NEW side PROVE MoneyOf(side)' = MoneyOf(side)
  <2>1. PICK S : S = OnSide(side)
    OBVIOUS
  <2>2. S = OnSide(side)' /\ S \subseteq DOMAIN orders
    BY <1>1, <2>1 DEF OnSide, Side, Intent
  <2>3. [k \in S |-> orders'[k].notional] = [k \in S |-> orders[k].notional]
    BY <1>2, <2>2
  <2>4. MoneyOf(side) = Total([k \in S |-> orders[k].notional]) * Unit
    BY <2>1 DEF MoneyOf, OnSide
  <2>5. MoneyOf(side)' = Total([k \in S |-> orders'[k].notional]) * Unit
    BY <2>2 DEF MoneyOf, OnSide
  <2> QED BY <2>3, <2>4, <2>5
<1>4. Fees' = Fees
  <2>1. [k \in DOMAIN orders' |-> orders'[k].fee] = [k \in DOMAIN orders |-> orders[k].fee]
    BY <1>1, <1>2
  <2> QED BY <2>1 DEF Fees
<1>5. MoneyOf("SELL")' = MoneyOf("SELL") /\ MoneyOf("BUY")' = MoneyOf("BUY")
  BY <1>3
<1> QED BY <1>1, <1>4, <1>5 DEF MoneyFits

\* An order adds up in its new units.
LEMMA PassesAdds ==
  ASSUME ReplayTypeOK, WholeFits, OrdersAdd, NEW due \in SUBSET DOMAIN Factor, NEW t \in Nat, Passes(due, t)
  PROVE  OrdersAdd'
<1>1. /\ now < t /\ due = {j \in DOMAIN Factor : Factor[j].at = t} /\ UNCHANGED book
      /\ DOMAIN orders' = DOMAIN orders
  BY DEF Passes
<1>2. \A k : Side(k)' = Side(k)
  BY <1>1 DEF Side, Intent
<1> SUFFICES ASSUME NEW n \in DOMAIN orders PROVE OrderAdds(n)'
  BY <1>1 DEF OrdersAdd
<1>3. PICK o, p : o = orders[n] /\ p = orders'[n]
  OBVIOUS
<1>4. /\ o.quantity = o.filled + o.remaining /\ (o.remaining = 0 <=> o.status = "FILLED")
      /\ o.fee = (IF o.notional = 0 THEN 0 ELSE FeeOf(Side(n), o.notional))
  BY <1>3 DEF OrdersAdd, OrderAdds
<1>5. /\ p.notional = o.notional /\ p.fee = o.fee
      /\ p.status = "FILLED" <=> o.status = "FILLED"
  BY <1>3 DEF Passes, PassesOrder
<1>6. p.quantity = p.filled + p.remaining /\ (p.remaining = 0 <=> o.remaining = 0)
  <2>1. CASE Inst(n) \in due /\ ~(Intent(n).refAt >= t)
    <3>1. PICK i \in DOMAIN Factor : i = Inst(n) /\ Factor[i].at = t /\ Intent(n).refAt < t
      BY <1>1, <2>1, IntentTypes DEF ReplayTypeOK
    <3>2. PICK a \in Nat, b \in Nat : a = o.filled /\ b = o.remaining
      BY <1>3 DEF ReplayTypeOK, AccountTypeOK, Order
    <3>3. Whole(a, i) /\ Whole(b, i)
      BY <1>1, <1>3, <3>1, <3>2 DEF WholeFits
    <3>4. /\ p.quantity = Scaled(o.quantity, i) /\ p.filled = Scaled(a, i)
          /\ p.remaining = Scaled(b, i)
      BY <1>3, <2>1, <3>1, <3>2 DEF Passes, PassesOrder
    <3>5. Scaled(a + b, i) = Scaled(a, i) + Scaled(b, i)
      BY <3>3, ScaledSum
    <3>6. Scaled(b, i) = 0 <=> b = 0
      BY <3>3, ScaledSum
    <3> QED BY <1>4, <3>2, <3>4, <3>5, <3>6
  <2>2. CASE ~(Inst(n) \in due /\ ~(Intent(n).refAt >= t))
    <3>1. p.quantity = o.quantity /\ p.filled = o.filled /\ p.remaining = o.remaining
      BY <1>3, <2>2 DEF Passes, PassesOrder
    <3> QED BY <1>4, <3>1
  <2> QED BY <2>1, <2>2
<1> QED BY <1>2, <1>3, <1>4, <1>5, <1>6 DEF OrderAdds

\* A point of the timeline leaves the account exact.
LEMMA AdvanceAccount ==
  ASSUME ReplayTypeOK, ReplayTypeOK', AccountFits, Advance
  PROVE  AccountFits'
<1>1. PICK due \in SUBSET DOMAIN Factor, t \in Nat : Passes(due, t)
  BY AdvanceParts
<1>2. /\ WholeFits /\ PricesFit /\ NamesFit /\ LotsBalance /\ SharesMatch /\ MoneyFits /\ OrdersAdd
  BY DEF AccountFits
<1>3. WholeFits' /\ PricesFit' /\ NamesFit'
  BY <1>1, <1>2, PassesWhole, PassesPrices, PassesNames
<1>4. SharesMatch' /\ MoneyFits' /\ OrdersAdd'
  BY <1>1, <1>2, PassesMatch, PassesMoney, PassesAdds
<1>5. LotsBalance'
  <2>1. Names' = Names
    BY <1>1 DEF Passes, Names, LotOf, Intent
  <2>2. ASSUME NEW l \in Names PROVE Balances(l)'
    <3>1. PICK i \in Instruments : Speaks(i, l)
      BY <1>2 DEF NamesFit
    <3>2. Balances(l)
      BY <1>2 DEF LotsBalance
    <3>3. CASE i \in due
      BY <1>1, <1>2, <3>1, <3>2, <3>3, BalanceScales
    <3>4. CASE i \notin due
      BY <1>1, <3>1, <3>2, <3>4, BalanceStays
    <3> QED BY <3>3, <3>4
  <2> QED BY <2>1, <2>2 DEF LotsBalance
<1> QED BY <1>3, <1>4, <1>5 DEF AccountFits

-----------------------------------------------------------------------------
(* The account: the theorem. *)

\* Every step keeps the account exact.
LEMMA NextKeepsAccount ==
  ASSUME AccountIInv, [Next]_vars
  PROVE  AccountIInv'
<1>1. LegalIInv /\ TapeFits /\ AccountFits
  BY DEF AccountIInv
<1>2. ReplayTypeOK /\ MinuteFits
  BY <1>1 DEF LegalIInv, ReplayIInv
<1>3. LegalIInv' /\ TapeFits'
  BY <1>1, <1>2, NextKeepsLegal, TapeKept
<1>4. ReplayTypeOK'
  BY <1>3 DEF LegalIInv, ReplayIInv
<1>5. CASE Advance
  BY <1>1, <1>2, <1>3, <1>4, <1>5, AdvanceAccount DEF AccountIInv
<1>6. CASE Open
  BY <1>1, <1>2, <1>3, <1>6, OpenAccount DEF AccountIInv
<1>7. CASE Finish \/ UNCHANGED vars
  BY <1>1, <1>2, <1>3, <1>7, RestAccount DEF AccountIInv
<1>8. ASSUME NEW n \in DOMAIN orders, phase = "attempt",
             AttemptWaits(n) \/ AttemptFreezes(n) \/ AttemptRefused(n)
      PROVE  AccountIInv'
  BY <1>1, <1>2, <1>3, <1>8, QuietAccount DEF AccountIInv
<1>9. ASSUME NEW n \in DOMAIN orders, phase = "attempt", AttemptFills(n)
      PROVE  AccountIInv'
  BY <1>1, <1>3, <1>4, <1>9, FillAccount DEF AccountIInv
<1> QED BY <1>5, <1>6, <1>7, <1>8, <1>9 DEF Next

\* The account of a replay is what its orders made of it, at every point.
THEOREM AccountInvariant == Spec => []AccountIInv
<1>1. Init => AccountIInv
  <2> SUFFICES ASSUME Init PROVE AccountIInv
    OBVIOUS
  <2>1. LegalIInv
    BY InitType, InitMarks, InitOwners, InitClocks, InitShares DEF LegalIInv, ReplayIInv
  <2>2. TapeFits
    BY DEF Init, Empty, TapeFits
  <2> QED BY <2>1, <2>2, InitAccount DEF AccountIInv
<1>2. AccountIInv /\ [Next]_vars => AccountIInv'
  BY NextKeepsAccount
<1> QED BY <1>1, <1>2, PTL DEF Spec

\* AccountFollowsOrders, for every calendar, book and tape: each lot balances across a
\* change of its units, and the cash is the start, the notionals and the fees.
THEOREM AccountAlwaysFollows == Spec => []AccountFollowsOrders
<1>1. AccountIInv => AccountFollowsOrders
  BY AccountIsExact
<1> QED BY <1>1, AccountInvariant, PTL

=============================================================================
