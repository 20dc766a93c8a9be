---------------------------- MODULE MinuteProofs ----------------------------
(***************************************************************************)
(* The minute day, for every calendar, list, frame, window, cap and quota. *)
(* What the passes of a minute share is kept apart by a few facts: a lot   *)
(* with a cursor is older than the day, so what the tail window buys stays *)
(* in its lot; a lot that was sold has ended its scan; and whatever is     *)
(* held after the tail window opened is a name of the window, or was held  *)
(* then and ever since.                                                    *)
(***************************************************************************)
EXTENDS MinuteDay, TotalsProofs

(***************************************************************************)
(* The inductive invariant                                                 *)
(***************************************************************************)

PassInv ==
  /\ day \in Days /\ minute \in Minutes
  /\ phase \in {"begin", "open", "parents", "close", "slices", "chase", "pool"}
  /\ phase = "parents" => TailOn /\ PoolDays[day] # <<>>
  /\ phase \in {"open", "close"} => todo \subseteq cursors \cap DOMAIN lots
  /\ phase = "chase" => todo \subseteq DOMAIN chases /\ listed = <<>>
  /\ phase = "chase" /\ todo # {} => minute = ChaseMinute
  /\ phase = "pool" /\ listed # <<>> => minute = BuyMinute /\ PoolDays[day] # <<>>
  /\ listed \in Seq(Codes) /\ per \in Nat
  /\ DOMAIN chases \subseteq Codes /\ \A c \in DOMAIN chases : chases[c].per \in Nat

AccountInv ==
  /\ cash \in Nat /\ settled \in Nat /\ unsliced \in Int
  /\ lots \in [DOMAIN lots -> Nat \ {0}] /\ DOMAIN lots \subseteq Lot
  /\ used \in [Codes \X Minutes -> 0 .. BarBudget]

\* Nothing on the book is of a later day, and a cursor's lot is of an earlier one.
AgesInv ==
  /\ \A t \in DOMAIN lots : t[2] <= day /\ (phase = "begin" => t[2] < day)
  /\ cursors \subseteq Lot /\ \A t \in cursors : t[2] < day

\* What was sold has ended its scan, in one order.
SoldInv ==
  /\ tried \subseteq cursors
  /\ \A s \in sold : s.lot \in tried
  /\ OpensTakeNoVolume /\ OneExitADay

\* An exit was queued at a bar that is over when a later open looks at it.
QueueInv ==
  /\ DOMAIN queue \subseteq Lot
  /\ \A t \in DOMAIN queue :
       /\ queue[t] \in Days \X Minutes
       /\ Earlier(queue[t]) \/ queue[t] = <<day, minute>>
       /\ phase = "begin" => queue[t][1] < day
       /\ phase = "open" /\ t \in todo => Earlier(queue[t])

TailInv ==
  /\ tails \in [DOMAIN tails -> [target : Nat, slice : Nat, filled : Nat]]
  /\ DOMAIN tails \subseteq Codes
  /\ SlicesAgree

\* The parents of the day have been taken.
WindowIsOpen ==
  /\ TailOn /\ PoolDays[day] # <<>>
  /\ \/ TailStart < minute
     \/ TailStart = minute /\ phase \in {"close", "slices", "chase", "pool"}

\* From then on a name is the window's, or was held at the time and ever since.
WindowInv ==
  /\ DOMAIN tails \subseteq tailCodes
  /\ WindowIsOpen => \A t \in DOMAIN lots : Code(t) \in kept \cup tailCodes
  /\ OneOpeningPerName

DayInv == PassInv /\ AccountInv /\ AgesInv /\ SoldInv /\ QueueInv /\ TailInv /\ WindowInv

\* What every step does to the queue.
QueueStep == SoldWhatWasQueued /\ (~Capped => QueueWaitsForAnOpen)

(***************************************************************************)
(* Quantities                                                              *)
(***************************************************************************)

LEMMA ParametersAreNumbers ==
  /\ Days \subseteq Nat \ {0} /\ Minutes \subseteq Nat \ {0}
  /\ 1 \in Days /\ 1 \in Minutes /\ {ChaseMinute, BuyMinute, BuyFrom} \subseteq Minutes
  /\ LastDay \in Nat /\ LastMinute \in Nat
  /\ BarBudget \in Nat /\ TailCap \in Nat /\ TotalCash \in Nat /\ DailyQuota \in Nat
  /\ LotCost \in Nat \ {0} /\ OrderFee \in Nat /\ OrderFee < LotCost
  /\ Capped \in BOOLEAN /\ TailMinutes \subseteq Minutes
  /\ PoolDays \in [Days -> Seq(Codes)]
BY DayAssumption DEF ValidDay, Days, Minutes

\* The window opens in a minute of the day, after the chases and no later than
\* the list is bought.
LEMMA WindowOpensInTime ==
  ASSUME TailOn
  PROVE  TailStart \in Minutes /\ ChaseMinute < TailStart /\ TailStart <= BuyMinute
<1>1. \E m \in TailMinutes : \A n \in TailMinutes : m <= n
  BY ParametersAreNumbers, SmallestExists DEF TailOn, Minutes
<1>2. TailStart \in TailMinutes
  BY <1>1 DEF TailStart
<1> QED BY <1>2, ParametersAreNumbers, DayAssumption DEF ValidDay

LEMMA LotsCoverTheFee ==
  ASSUME NEW n \in Nat
  PROVE  /\ Notional(n) \in Nat /\ Debit(n) \in Nat
         /\ n # 0 => OrderFee < Notional(n)
<1>1. Notional(n) \in Nat
  BY ParametersAreNumbers DEF Notional
<1>2. CASE n # 0
  <2> DEFINE k == n - 1
  <2>1. k \in Nat /\ n = k + 1
    BY <1>2
  <2>2. k * LotCost \in Nat
    BY <2>1, ParametersAreNumbers
  <2> HIDE DEF k
  <2>3. (k + 1) * LotCost = k * LotCost + LotCost
    BY <2>1, ParametersAreNumbers
  <2> QED BY <1>1, <2>1, <2>2, <2>3, ParametersAreNumbers DEF Notional, Debit
<1> QED BY <1>1, <1>2, ParametersAreNumbers DEF Debit

LEMMA DebitGrows ==
  ASSUME NEW m \in Nat, NEW n \in Nat, m <= n
  PROVE  Debit(m) <= Debit(n)
<1> DEFINE k == n - m
<1>1. k \in Nat /\ n = m + k
  OBVIOUS
<1>2. k * LotCost \in Nat /\ m * LotCost \in Nat
  BY <1>1, ParametersAreNumbers
<1> HIDE DEF k
<1>3. (m + k) * LotCost = m * LotCost + k * LotCost
  BY <1>1, ParametersAreNumbers
<1> QED BY <1>1, <1>2, <1>3, ParametersAreNumbers DEF Debit, Notional

\* VolumeCap.clamp leaves what the bucket has left, and nothing before it is over.
LEMMA ClampBounds ==
  ASSUME used \in [Codes \X Minutes -> 0 .. BarBudget],
         NEW c \in Codes, NEW b \in Minutes, NEW at \in Int, NEW w \in Nat
  PROVE  /\ Clamp(c, b, at, w) \in Nat /\ Clamp(c, b, at, w) <= w
         /\ Capped => used[<<c, b>>] + Clamp(c, b, at, w) \in 0 .. BarBudget
         /\ ~Capped => Clamp(c, b, at, w) = w
         /\ (Capped /\ at < b) => Clamp(c, b, at, w) = 0
<1>1. used[<<c, b>>] \in 0 .. BarBudget /\ BarBudget \in Nat /\ b \in Nat
  BY ParametersAreNumbers
<1> QED BY <1>1 DEF Clamp, Smaller

LEMMA ConsumeKeepsBudget ==
  ASSUME used \in [Codes \X Minutes -> 0 .. BarBudget],
         NEW c \in Codes, NEW b \in Minutes, NEW n \in Nat,
         Capped => used[<<c, b>>] + n \in 0 .. BarBudget,
         Consume(c, b, n)
  PROVE  used' \in [Codes \X Minutes -> 0 .. BarBudget]
BY DEF Consume

\* A row the fallback finds is a minute of the day.
LEMMA BucketIsAMinute ==
  ASSUME NEW c, NEW target \in Minutes, NEW earliest \in Minutes,
         Bucket(c, target, earliest) # 0
  PROVE  Bucket(c, target, earliest) \in Minutes
<1> DEFINE rows == {m \in earliest .. target : BarOf(c, m).row}
<1>1. rows # {}
  BY DEF Bucket
<1>2. earliest .. target \subseteq Minutes /\ IsFiniteSet(earliest .. target)
  BY ParametersAreNumbers, FS_Interval DEF Minutes
<1>3. IsFiniteSet(rows) /\ rows \subseteq Nat /\ rows \subseteq Minutes
  BY <1>2, FS_Subset, ParametersAreNumbers
<1> HIDE DEF rows
<1>4. \E m \in rows : \A n \in rows : n <= m
  BY <1>1, <1>3, LargestExists
<1>5. (CHOOSE m \in rows : \A n \in rows : n <= m) \in rows
  BY <1>4
<1>6. Bucket(c, target, earliest) = CHOOSE m \in rows : \A n \in rows : n <= m
  BY <1>1 DEF Bucket, rows
<1> QED BY <1>3, <1>5, <1>6


(***************************************************************************)
(* A sale and a purchase                                                   *)
(***************************************************************************)

\* The quantity a held lot can leave with at the running minute.
LEMMA FilledBounds ==
  ASSUME DayInv, NEW t \in DOMAIN lots
  PROVE  /\ t \in Lot /\ Code(t) \in Codes /\ lots[t] \in Nat \ {0}
         /\ Filled(t) \in Nat /\ Filled(t) <= lots[t]
         /\ Capped => used[<<Code(t), minute>>] + Filled(t) \in 0 .. BarBudget
         /\ ~Capped => Filled(t) = lots[t]
         /\ (Capped /\ phase = "open") => Filled(t) = 0
<1>1. t \in Lot /\ lots[t] \in Nat \ {0} /\ minute \in Minutes
  BY DEF DayInv, AccountInv, PassInv
<1>2. Code(t) \in Codes
  BY <1>1 DEF Lot, Code
<1>3. minute \in Nat /\ QuoteMinute \in Int /\ (phase = "open" => QuoteMinute < minute)
  BY <1>1, ParametersAreNumbers DEF QuoteMinute
<1>4. used \in [Codes \X Minutes -> 0 .. BarBudget]
  BY DEF DayInv, AccountInv
<1>5. lots[t] \in Nat
  BY <1>1
<1> QED BY <1>1, <1>2, <1>3, <1>4, <1>5, ClampBounds DEF Filled

\* A sale of a lot with a cursor takes nothing else and no cash.
LEMMA SaleStep ==
  ASSUME DayInv, NEW t \in DOMAIN lots, Sell(t)
  PROVE  /\ cash' \in Nat /\ unsliced' \in Int
         /\ \E gain \in Int : cash' = cash + gain /\ unsliced' = unsliced + gain
         /\ lots' \in [DOMAIN lots' -> Nat \ {0}]
         /\ DOMAIN lots' \subseteq DOMAIN lots /\ DOMAIN lots \ {t} \subseteq DOMAIN lots'
         /\ \A u \in DOMAIN lots' : u # t => lots'[u] = lots[u]
         /\ used' \in [Codes \X Minutes -> 0 .. BarBudget]
         /\ sold \subseteq sold'
         /\ sold' \subseteq sold \cup {[lot |-> t, minute |-> minute, phase |-> phase]}
         /\ Capped /\ phase = "open" => sold' = sold
         /\ ~Capped => t \notin DOMAIN lots'
<1>1. /\ Code(t) \in Codes /\ lots[t] \in Nat \ {0} /\ minute \in Minutes
      /\ Filled(t) \in Nat /\ Filled(t) <= lots[t]
      /\ Capped => used[<<Code(t), minute>>] + Filled(t) \in 0 .. BarBudget
      /\ ~Capped => Filled(t) = lots[t]
      /\ (Capped /\ phase = "open") => Filled(t) = 0
  BY FilledBounds DEF DayInv, PassInv
<1>2. /\ cash \in Nat /\ unsliced \in Int /\ lots \in [DOMAIN lots -> Nat \ {0}]
      /\ used \in [Codes \X Minutes -> 0 .. BarBudget]
  BY DEF DayInv, AccountInv
<1>3. CASE Filled(t) = 0
  <2>1. UNCHANGED <<account, sold>>
    BY <1>3 DEF Sell
  <2>2. cash' = cash + 0 /\ unsliced' = unsliced + 0
    BY <1>2, <2>1 DEF account
  <2> QED BY <1>1, <1>2, <1>3, <2>1, <2>2 DEF account
<1>4. CASE Filled(t) # 0
  <2>1. /\ lots' = IF Filled(t) = lots[t] THEN Without(lots, t)
                   ELSE [lots EXCEPT ![t] = @ - Filled(t)]
        /\ cash' = cash + Notional(Filled(t)) - OrderFee
        /\ unsliced' = unsliced + Notional(Filled(t)) - OrderFee
        /\ Consume(Code(t), minute, Filled(t))
        /\ sold' = sold \cup {[lot |-> t, minute |-> minute, phase |-> phase]}
    BY <1>4 DEF Sell
  <2>2. Notional(Filled(t)) \in Nat /\ OrderFee < Notional(Filled(t)) /\ OrderFee \in Nat
    BY <1>1, <1>4, LotsCoverTheFee, ParametersAreNumbers
  <2>3. /\ cash' \in Nat /\ unsliced' \in Int
        /\ \E gain \in Int : cash' = cash + gain /\ unsliced' = unsliced + gain
    <3> DEFINE gain == Notional(Filled(t)) - OrderFee
    <3>1. gain \in Nat
      BY <2>2
    <3>2. cash' = cash + gain /\ unsliced' = unsliced + gain
      BY <1>2, <2>1, <2>2
    <3> HIDE DEF gain
    <3>3. cash' \in Nat /\ unsliced' \in Int
      BY <1>2, <3>1, <3>2
    <3> QED BY <3>1, <3>2, <3>3
  <2>4. used' \in [Codes \X Minutes -> 0 .. BarBudget]
    BY <1>1, <1>2, <2>1, ConsumeKeepsBudget
  <2>5. CASE Filled(t) = lots[t]
    BY <1>1, <1>2, <1>4, <2>1, <2>3, <2>4, <2>5 DEF Without
  <2>6. CASE Filled(t) # lots[t]
    <3>1. lots[t] - Filled(t) \in Nat \ {0}
      BY <1>1, <2>6
    <3>2. lots' = [lots EXCEPT ![t] = lots[t] - Filled(t)]
      BY <2>1, <2>6
    <3> QED BY <1>1, <1>2, <1>4, <2>1, <2>3, <2>4, <2>6, <3>1, <3>2
  <2> QED BY <2>5, <2>6
<1> QED BY <1>3, <1>4

\* A purchase is paid for, whatever the cap leaves of the order that was checked.
LEMMA FillStep ==
  ASSUME DayInv, NEW t \in Lot, NEW bucket \in Minutes, NEW wanted \in Nat,
         Fillable(Code(t), bucket, wanted), Fill(t, bucket, wanted)
  PROVE  \E n \in Nat \ {0} :
         /\ n = Clamp(Code(t), bucket, bucket, wanted)
         /\ n <= wanted /\ Debit(n) \in Nat
         /\ cash' \in Nat /\ cash' = cash - Debit(n)
         /\ unsliced' \in Int
         /\ t[3] = "tail" => unsliced' = unsliced
         /\ t[3] # "tail" => unsliced' = unsliced - Debit(n)
         /\ lots' \in [DOMAIN lots' -> Nat \ {0}]
         /\ DOMAIN lots' = DOMAIN lots \cup {t}
         /\ \A u \in DOMAIN lots : u # t => lots'[u] = lots[u]
         /\ lots'[t] = n + (IF t \in DOMAIN lots THEN lots[t] ELSE 0)
         /\ used' \in [Codes \X Minutes -> 0 .. BarBudget]
<1> DEFINE n == Clamp(Code(t), bucket, bucket, wanted)
<1>0. Code(t) \in Codes /\ bucket \in Int
  BY ParametersAreNumbers DEF Lot, Code
<1>1. /\ used \in [Codes \X Minutes -> 0 .. BarBudget]
      /\ lots \in [DOMAIN lots -> Nat \ {0}] /\ cash \in Nat /\ unsliced \in Int
  BY DEF DayInv, AccountInv
<1>2. /\ n \in Nat /\ n <= wanted
      /\ Capped => used[<<Code(t), bucket>>] + n \in 0 .. BarBudget
  BY <1>0, <1>1, ClampBounds
<1>3. n # 0 /\ Debit(wanted) <= cash
  BY <1>2 DEF Fillable, Affords
<1>4. Debit(n) \in Nat /\ Debit(wanted) \in Nat /\ Debit(n) <= Debit(wanted)
  BY <1>2, LotsCoverTheFee, DebitGrows
<1>5. /\ cash' = cash - Debit(n)
      /\ unsliced' = IF t[3] = "tail" THEN unsliced ELSE unsliced - Debit(n)
      /\ lots' = Put(lots, t, n + (IF t \in DOMAIN lots THEN lots[t] ELSE 0))
      /\ Consume(Code(t), bucket, n)
  BY DEF Fill
<1> HIDE DEF n
<1>6. used' \in [Codes \X Minutes -> 0 .. BarBudget]
  BY <1>0, <1>1, <1>2, <1>5, ConsumeKeepsBudget
<1>7. n + (IF t \in DOMAIN lots THEN lots[t] ELSE 0) \in Nat \ {0}
  BY <1>1, <1>2, <1>3
<1>8. /\ lots' \in [DOMAIN lots' -> Nat \ {0}] /\ DOMAIN lots' = DOMAIN lots \cup {t}
      /\ \A u \in DOMAIN lots : u # t => lots'[u] = lots[u]
      /\ lots'[t] = n + (IF t \in DOMAIN lots THEN lots[t] ELSE 0)
  BY <1>1, <1>5, <1>7 DEF Put
<1>9. n = Clamp(Code(t), bucket, bucket, wanted)
  BY DEF n
<1> QED BY <1>1, <1>2, <1>3, <1>4, <1>5, <1>6, <1>8, <1>9

\* An order of a budget buys nothing, or a whole number of lots.
LEMMA OrderStep ==
  ASSUME NEW t, NEW bucket, NEW budget \in Nat, Order(t, bucket, budget)
  PROVE  \/ UNCHANGED account
         \/ \E wanted \in Nat : /\ Fillable(Code(t), bucket, wanted)
                                /\ Fill(t, bucket, wanted)
<1>1. budget \div LotCost \in Nat
  BY ParametersAreNumbers
<1> QED BY <1>1 DEF Order

(***************************************************************************)
(* What the passes leave alone                                             *)
(***************************************************************************)

\* A step that looks at no queued exit.
LEMMA NoQueueStep ==
  ASSUME queue' = queue, sold' \subseteq sold, phase # "open" \/ todo = {}
  PROVE  QueueStep
<1>1. \A t \in DOMAIN queue : ~Visited(t)
  BY DEF Visited
<1> QED BY <1>1 DEF QueueStep, SoldWhatWasQueued, QueueWaitsForAnOpen

\* A bar that is over stays over while the minute lasts.
LEMMA QueueKept ==
  ASSUME QueueInv, UNCHANGED <<queue, day, minute, phase>>, phase = "open" => todo' \subseteq todo
  PROVE  QueueInv'
BY DEF QueueInv, Earlier


(***************************************************************************)
(* The held scan                                                           *)
(***************************************************************************)

\* What one visit may do: a sale ends the scan, and a queued exit is dropped only
\* by the sale it stands for.
LEMMA ScanOutcome ==
  ASSUME DayInv, HeldScan
  PROVE  \E t \in todo :
           /\ todo' = todo \ {t}
           /\ \/ UNCHANGED <<account, sold>> /\ tried' \in {tried, tried \cup {t}}
              \/ Sell(t) /\ t \notin tried /\ tried' = tried \cup {t}
           /\ \/ queue' = queue
              \/ queue' = Without(queue, t) /\ t \in DOMAIN queue /\ Visited(t)
              \/ queue' = Put(queue, t, <<day, minute>>) /\ t \notin DOMAIN queue
           /\ (NextOpen /\ phase = "open" /\ t \notin DOMAIN queue) => UNCHANGED sold
           /\ (t \in DOMAIN queue /\ Visited(t)) => Sell(t)
<1>1. PICK t \in todo :
        /\ todo' = todo \ {t}
        /\ IF t \in tried \/ ~BarOf(Code(t), minute).row THEN Idle
           ELSE IF phase = "open" THEN AtOpen(t) ELSE AtClose(t)
  BY DEF HeldScan
<1>2. CASE t \in tried \/ ~BarOf(Code(t), minute).row
  BY <1>1, <1>2 DEF Idle, Visited
<1>3. CASE ~(t \in tried \/ ~BarOf(Code(t), minute).row) /\ phase = "open"
  <2>1. AtOpen(t) /\ t \notin tried
    BY <1>1, <1>3
  <2>2. CASE BarOf(Code(t), minute).openDown
    BY <1>1, <2>1, <2>2 DEF AtOpen, Postponed, Visited
  <2>3. CASE ~BarOf(Code(t), minute).openDown /\ t \in DOMAIN queue
    <3>1. Visited(t)
      BY <1>1, <1>3, <2>3 DEF Visited
    <3> QED BY <1>1, <2>1, <2>3, <3>1 DEF AtOpen, Ended
  <2>4. CASE ~BarOf(Code(t), minute).openDown /\ t \notin DOMAIN queue
    <3>1. Idle \/ PriceExit(t)
      BY <2>1, <2>4 DEF AtOpen
    <3> QED BY <1>1, <2>1, <2>4, <3>1 DEF Idle, PriceExit, Queues, Ended
  <2> QED BY <2>2, <2>3, <2>4
<1>4. CASE ~(t \in tried \/ ~BarOf(Code(t), minute).row) /\ phase # "open"
  <2>1. AtClose(t) /\ t \notin tried /\ ~Visited(t)
    BY <1>1, <1>4 DEF Visited
  <2>2. CASE BarOf(Code(t), minute).openDown \/ t \in DOMAIN queue
    BY <1>1, <1>4, <2>1, <2>2 DEF AtClose, Idle
  <2>3. CASE ~(BarOf(Code(t), minute).openDown \/ t \in DOMAIN queue)
    BY <1>1, <1>4, <2>1, <2>3 DEF AtClose, Idle, PriceExit, Queues, Ended
  <2> QED BY <2>2, <2>3
<1> QED BY <1>2, <1>3, <1>4

LEMMA HeldScanStep ==
  ASSUME DayInv, HeldScan
  PROVE  DayInv' /\ QueueStep
<1>1. PICK t \in todo :
        /\ todo' = todo \ {t}
        /\ \/ UNCHANGED <<account, sold>> /\ tried' \in {tried, tried \cup {t}}
           \/ Sell(t) /\ t \notin tried /\ tried' = tried \cup {t}
        /\ \/ queue' = queue
           \/ queue' = Without(queue, t) /\ t \in DOMAIN queue /\ Visited(t)
           \/ queue' = Put(queue, t, <<day, minute>>) /\ t \notin DOMAIN queue
        /\ (NextOpen /\ phase = "open" /\ t \notin DOMAIN queue) => UNCHANGED sold
        /\ (t \in DOMAIN queue /\ Visited(t)) => Sell(t)
  BY ScanOutcome
<1>2. /\ phase \in {"open", "close"}
      /\ UNCHANGED <<day, minute, frames, phase, listed, cursors, chases, per, tails,
                     tailCodes, settled>>
  BY DEF HeldScan, clock, buyers
<1>3. /\ t \in cursors /\ t \in DOMAIN lots /\ t \in Lot /\ t[2] < day
      /\ todo \subseteq cursors \cap DOMAIN lots
  BY <1>2 DEF DayInv, PassInv, AgesInv
<1>4. /\ cash \in Nat /\ settled \in Nat /\ unsliced \in Int /\ DOMAIN lots \subseteq Lot
      /\ lots \in [DOMAIN lots -> Nat \ {0}] /\ used \in [Codes \X Minutes -> 0 .. BarBudget]
  BY DEF DayInv, AccountInv
<1>5. /\ cash' \in Nat /\ unsliced' \in Int
      /\ \E gain \in Int : cash' = cash + gain /\ unsliced' = unsliced + gain
      /\ lots' \in [DOMAIN lots' -> Nat \ {0}]
      /\ DOMAIN lots' \subseteq DOMAIN lots /\ DOMAIN lots \ {t} \subseteq DOMAIN lots'
      /\ \A u \in DOMAIN lots' : u # t => lots'[u] = lots[u]
      /\ used' \in [Codes \X Minutes -> 0 .. BarBudget]
  <2>1. CASE Sell(t)
    BY <1>3, <2>1, SaleStep
  <2>2. CASE UNCHANGED account
    <3>1. cash' = cash + 0 /\ unsliced' = unsliced + 0
      BY <1>4, <2>2 DEF account
    <3> QED BY <1>4, <2>2, <3>1 DEF account
  <2> QED BY <1>1, <2>1, <2>2
<1>6. PassInv'
  BY <1>1, <1>2, <1>3, <1>5 DEF DayInv, PassInv
<1>7. AccountInv'
  BY <1>2, <1>4, <1>5 DEF AccountInv
<1>8. AgesInv'
  BY <1>2, <1>5 DEF DayInv, AgesInv
<1>9. SoldInv'
  <2>1. CASE UNCHANGED <<account, sold>> /\ tried' \in {tried, tried \cup {t}}
    BY <1>2, <1>3, <2>1 DEF DayInv, SoldInv, OpensTakeNoVolume, OneExitADay
  <2>2. CASE Sell(t) /\ t \notin tried /\ tried' = tried \cup {t}
    <3> DEFINE sale == [lot |-> t, minute |-> minute, phase |-> phase]
    <3>1. /\ sold' \subseteq sold \cup {sale}
          /\ (Capped /\ phase = "open") => sold' = sold
      BY <1>3, <2>2, SaleStep
    <3>2. sale.lot = t /\ sale.phase = phase
      OBVIOUS
    <3> HIDE DEF sale
    <3>3. \A s \in sold : s.lot # t
      BY <2>2 DEF DayInv, SoldInv
    <3>4. OpensTakeNoVolume'
      BY <1>2, <3>1, <3>2 DEF DayInv, SoldInv, OpensTakeNoVolume
    <3>5. OneExitADay'
      BY <3>1, <3>2, <3>3 DEF DayInv, SoldInv, OneExitADay
    <3> QED BY <1>2, <1>3, <2>2, <3>1, <3>2, <3>4, <3>5 DEF DayInv, SoldInv
  <2> QED BY <1>1, <2>1, <2>2
<1>10. QueueInv'
  <2>1. QueueInv /\ day \in Days /\ minute \in Minutes
    BY DEF DayInv, PassInv
  <2>2. CASE queue' = queue
    BY <1>1, <1>2, <2>1, <2>2, QueueKept
  <2>3. CASE queue' = Without(queue, t)
    BY <1>1, <1>2, <2>1, <2>3 DEF QueueInv, Without, Earlier
  <2>4. CASE queue' = Put(queue, t, <<day, minute>>)
    <3>1. /\ DOMAIN queue' = DOMAIN queue \cup {t} /\ queue'[t] = <<day, minute>>
          /\ \A u \in DOMAIN queue : u # t => queue'[u] = queue[u]
      BY <2>4 DEF Put
    <3>2. <<day, minute>> \in Days \X Minutes /\ t \notin todo' /\ phase' # "begin"
      BY <1>1, <1>2, <2>1
    <3> QED BY <1>1, <1>2, <1>3, <2>1, <3>1, <3>2 DEF QueueInv, Earlier
  <2> QED BY <1>1, <2>2, <2>3, <2>4
<1>11. TailInv'
  <2>1. \A c \in Codes : t # <<c, day, "tail">>
    BY <1>3, ParametersAreNumbers DEF DayInv, PassInv
  <2>2. \A c \in Codes : LET u == <<c, day, "tail">> IN
          /\ u \in DOMAIN lots' <=> u \in DOMAIN lots
          /\ u \in DOMAIN lots => lots'[u] = lots[u]
    BY <1>5, <2>1
  <2>3. /\ tails \in [DOMAIN tails -> [target : Nat, slice : Nat, filled : Nat]]
        /\ DOMAIN tails \subseteq Codes /\ ParentMatchesLot /\ PoolBasisIgnoresSlices
    BY DEF DayInv, TailInv, SlicesAgree
  <2>4. ParentMatchesLot'
    BY <1>2, <2>2, <2>3 DEF ParentMatchesLot
  <2>5. PoolBasisIgnoresSlices'
    <3>1. cash + settled = unsliced
      BY <1>2, <2>3 DEF PoolBasisIgnoresSlices
    <3>2. PICK gain \in Int : cash' = cash + gain /\ unsliced' = unsliced + gain
      BY <1>5
    <3> QED BY <1>2, <1>4, <3>1, <3>2 DEF PoolBasisIgnoresSlices
  <2> QED BY <1>2, <2>3, <2>4, <2>5 DEF TailInv, SlicesAgree
<1>12. SoldWhatWasQueued
  <2> SUFFICES ASSUME NextOpen, phase = "open", NEW s \in sold' \ sold
               PROVE  s.lot \in DOMAIN queue /\ Earlier(queue[s.lot])
    BY DEF SoldWhatWasQueued
  <2>1. Sell(t) /\ t \in DOMAIN queue
    BY <1>1
  <2>2. s.lot = t
    BY <1>3, <2>1, SaleStep
  <2>3. Earlier(queue[t])
    BY <1>1, <2>1 DEF DayInv, QueueInv
  <2> QED BY <2>1, <2>2, <2>3
<1>13. ASSUME ~Capped
       PROVE  QueueWaitsForAnOpen
  <2> SUFFICES ASSUME NEW u \in DOMAIN queue
               PROVE  IF Visited(u) THEN u \notin DOMAIN lots'
                      ELSE u \in DOMAIN queue' /\ queue'[u] = queue[u]
    BY DEF QueueWaitsForAnOpen
  <2>1. CASE Visited(u)
    <3>1. u = t
      BY <1>1, <2>1 DEF Visited
    <3>2. Sell(t)
      BY <1>1, <2>1, <3>1
    <3> QED BY <1>3, <1>13, <2>1, <3>1, <3>2, SaleStep
  <2>2. CASE ~Visited(u)
    BY <1>1, <2>2 DEF Put, Without
  <2> QED BY <2>1, <2>2
<1>14. WindowInv'
  <2>1. WindowInv /\ kept' = {c \in kept : Held(c)'}
    BY DEF DayInv, HeldScan
  <2>2. \A u \in DOMAIN lots' : Code(u) \in kept => Code(u) \in kept'
    BY <2>1 DEF Held
  <2>3. WindowIsOpen' = WindowIsOpen
    BY <1>2 DEF WindowIsOpen
  <2>4. OneOpeningPerName'
    BY <1>2, <1>5, <2>1, <2>2 DEF WindowInv, OneOpeningPerName
  <2> QED BY <1>2, <1>5, <2>1, <2>2, <2>3, <2>4 DEF WindowInv
<1> QED BY <1>6, <1>7, <1>8, <1>9, <1>10, <1>11, <1>12, <1>13, <1>14 DEF DayInv, QueueStep


(***************************************************************************)
(* Purchases                                                               *)
(***************************************************************************)

\* A purchase outside the tail window, or none, disturbs no other account.
LEMMA PurchaseKeeps ==
  ASSUME DayInv, phase \in {"chase", "pool"},
         NEW t \in Lot, t[2] = day, t[3] # "tail",
         \/ UNCHANGED account
         \/ /\ TailOn /\ t[3] = "pool" => Code(t) \in kept \ tailCodes
            /\ WindowIsOpen => Code(t) \in kept \cup tailCodes,
         NEW bucket \in Minutes,
         \/ UNCHANGED account
         \/ \E wanted \in Nat : Fillable(Code(t), bucket, wanted) /\ Fill(t, bucket, wanted),
         UNCHANGED <<day, minute, phase, cursors, tried, queue, sold, kept, tails, tailCodes,
                     settled>>
  PROVE  /\ AccountInv' /\ AgesInv' /\ SoldInv' /\ QueueInv' /\ TailInv' /\ WindowInv'
         /\ QueueStep
<1>1. /\ AccountInv /\ AgesInv /\ SoldInv /\ QueueInv /\ TailInv /\ WindowInv
      /\ day \in Nat
  BY ParametersAreNumbers DEF DayInv, PassInv
<1>2. SoldInv' /\ QueueInv' /\ QueueStep
  <2>1. phase # "open"
    OBVIOUS
  <2> QED BY <1>1, <2>1, QueueKept, NoQueueStep
          DEF SoldInv, OpensTakeNoVolume, OneExitADay
<1>3. /\ cash' \in Nat /\ unsliced' \in Int
      /\ \E gain \in Int : cash' = cash + gain /\ unsliced' = unsliced + gain
      /\ lots' \in [DOMAIN lots' -> Nat \ {0}]
      /\ DOMAIN lots' \subseteq DOMAIN lots \cup {t} /\ DOMAIN lots \subseteq DOMAIN lots'
      /\ \A u \in DOMAIN lots : u # t => lots'[u] = lots[u]
      /\ used' \in [Codes \X Minutes -> 0 .. BarBudget]
  <2>1. CASE UNCHANGED account
    <3>1. cash' = cash + 0 /\ unsliced' = unsliced + 0
      BY <1>1, <2>1 DEF account, AccountInv
    <3> QED BY <1>1, <2>1, <3>1 DEF account, AccountInv
  <2>2. CASE \E wanted \in Nat : Fillable(Code(t), bucket, wanted) /\ Fill(t, bucket, wanted)
    <3>1. PICK wanted \in Nat : Fillable(Code(t), bucket, wanted) /\ Fill(t, bucket, wanted)
      BY <2>2
    <3>2. PICK n \in Nat \ {0} :
            /\ Debit(n) \in Nat /\ cash' \in Nat /\ cash' = cash - Debit(n)
            /\ unsliced' \in Int /\ unsliced' = unsliced - Debit(n)
            /\ lots' \in [DOMAIN lots' -> Nat \ {0}]
            /\ DOMAIN lots' = DOMAIN lots \cup {t}
            /\ \A u \in DOMAIN lots : u # t => lots'[u] = lots[u]
            /\ used' \in [Codes \X Minutes -> 0 .. BarBudget]
      BY <3>1, FillStep
    <3>3. cash \in Nat /\ unsliced \in Int
      BY <1>1 DEF AccountInv
    <3> DEFINE gain == 0 - Debit(n)
    <3>4. gain \in Int /\ cash' = cash + gain /\ unsliced' = unsliced + gain
      BY <3>2, <3>3
    <3> HIDE DEF gain
    <3> QED BY <3>2, <3>4
  <2> QED BY <2>1, <2>2
<1>4. AccountInv'
  BY <1>1, <1>3 DEF AccountInv
<1>5. AgesInv'
  BY <1>1, <1>3 DEF AgesInv
<1>6. TailInv'
  <2>1. \A c \in Codes : LET u == <<c, day, "tail">> IN
          /\ u # t /\ (u \in DOMAIN lots' <=> u \in DOMAIN lots)
          /\ u \in DOMAIN lots => lots'[u] = lots[u]
    BY <1>3
  <2>2. ParentMatchesLot'
    BY <1>1, <2>1 DEF TailInv, SlicesAgree, ParentMatchesLot
  <2>3. PoolBasisIgnoresSlices'
    <3>1. cash + settled = unsliced /\ cash \in Nat /\ settled \in Nat /\ unsliced \in Int
      BY <1>1 DEF AccountInv, TailInv, SlicesAgree, PoolBasisIgnoresSlices
    <3>2. PICK gain \in Int : cash' = cash + gain /\ unsliced' = unsliced + gain
      BY <1>3
    <3> QED BY <3>1, <3>2 DEF PoolBasisIgnoresSlices
  <2> QED BY <1>1, <2>2, <2>3 DEF TailInv, SlicesAgree
<1>7. WindowInv'
  <2>1. WindowIsOpen' = WindowIsOpen
    BY DEF WindowIsOpen
  <2>2. CASE UNCHANGED account
    BY <1>1, <2>1, <2>2 DEF account, WindowInv, OneOpeningPerName
  <2>3. CASE /\ TailOn /\ t[3] = "pool" => Code(t) \in kept \ tailCodes
             /\ WindowIsOpen => Code(t) \in kept \cup tailCodes
    <3>1. OneOpeningPerName'
      BY <1>1, <1>3, <2>3 DEF WindowInv, OneOpeningPerName
    <3>2. WindowIsOpen' => \A u \in DOMAIN lots' : Code(u) \in kept' \cup tailCodes'
      BY <1>1, <1>3, <2>1, <2>3 DEF WindowInv
    <3> QED BY <1>1, <3>1, <3>2 DEF WindowInv
  <2> QED BY <2>2, <2>3
<1> QED BY <1>2, <1>4, <1>5, <1>6, <1>7

\* A child asks for no more than its parent still wants.
LEMMA ChildBounds ==
  ASSUME DayInv, NEW p \in [target : Nat, slice : Nat, filled : Nat], p.filled <= p.target
  PROVE  Child(p) \in Nat /\ p.filled + Child(p) <= p.target
<1> DEFINE wanted == Smaller(Smaller(p.slice, TailCap), p.target - p.filled)
           payable == {n \in 1 .. wanted : Affords(n)}
<1>1. wanted \in Nat /\ wanted <= p.target - p.filled
  BY ParametersAreNumbers DEF Smaller
<1> HIDE DEF wanted
<1>2. IsFiniteSet(1 .. wanted) /\ Cardinality(1 .. wanted) = wanted
  BY <1>1, FS_Interval
<1>3. payable \subseteq 1 .. wanted
  OBVIOUS
<1> HIDE DEF payable
<1>4. Cardinality(payable) \in Nat /\ Cardinality(payable) <= wanted
  <2>1. IsFiniteSet(payable) /\ Cardinality(payable) <= Cardinality(1 .. wanted)
    BY <1>2, <1>3, FS_Subset, Zenon
  <2>2. Cardinality(payable) \in Nat
    BY <2>1, FS_CardinalityType, Zenon
  <2> QED BY <1>2, <2>1, <2>2
<1>5. Child(p) = Cardinality(payable)
  BY DEF Child, payable, wanted
<1> QED BY <1>1, <1>4, <1>5

\* A child's fill reaches the parent, the lot, the cash and the settled debits.
LEMMA SliceKeeps ==
  ASSUME DayInv, phase \in {"slices", "pool"}, NEW c \in Codes, FillSlice(c),
         UNCHANGED <<day, minute, phase, cursors, tried, queue, sold, kept, tailCodes>>
  PROVE  /\ AccountInv' /\ AgesInv' /\ SoldInv' /\ QueueInv' /\ TailInv' /\ WindowInv'
         /\ QueueStep
<1>1. /\ AccountInv /\ AgesInv /\ SoldInv /\ QueueInv /\ TailInv /\ WindowInv
      /\ day \in Days /\ day \in Nat /\ minute \in Minutes
  BY ParametersAreNumbers DEF DayInv, PassInv
<1>2. SoldInv' /\ QueueInv' /\ QueueStep
  <2>1. phase # "open"
    OBVIOUS
  <2> QED BY <1>1, <2>1, QueueKept, NoQueueStep
          DEF SoldInv, OpensTakeNoVolume, OneExitADay
<1>3. CASE UNCHANGED <<account, tails, settled>>
  <2>1. AccountInv' /\ AgesInv'
    BY <1>1, <1>3 DEF account, AccountInv, AgesInv
  <2>2. TailInv'
    BY <1>1, <1>3 DEF account, TailInv, SlicesAgree, ParentMatchesLot,
                      PoolBasisIgnoresSlices
  <2>3. WindowInv'
    BY <1>1, <1>3 DEF account, WindowInv, WindowIsOpen, OneOpeningPerName
  <2> QED BY <1>2, <2>1, <2>2, <2>3
<1>4. CASE ~UNCHANGED <<account, tails, settled>>
  <2> DEFINE t == <<c, day, "tail">>
             w == Child(tails[c])
  <2>1. /\ c \in DOMAIN tails /\ Fillable(c, minute, w) /\ Fill(t, minute, w)
        /\ tails' = [tails EXCEPT ![c].filled = @ + Clamp(c, minute, minute, w)]
        /\ settled' = settled + Debit(Clamp(c, minute, minute, w))
    BY <1>4 DEF FillSlice, Booked, Settled
  <2>2. t \in Lot /\ Code(t) = c /\ t[1] = c /\ t[2] = day /\ t[3] = "tail"
    BY <1>1 DEF Lot, Code
  <2>3. /\ tails[c] \in [target : Nat, slice : Nat, filled : Nat]
        /\ tails[c].filled <= tails[c].target
        /\ tails[c].filled = (IF t \in DOMAIN lots THEN lots[t] ELSE 0)
    BY <1>1, <2>1 DEF TailInv, SlicesAgree, ParentMatchesLot
  <2>4. w \in Nat /\ tails[c].filled + w <= tails[c].target
    BY <2>3, ChildBounds
  <2> HIDE DEF t, w
  <2>0. Fillable(Code(t), minute, w)
    BY <2>1, <2>2
  <2>5. PICK n \in Nat \ {0} :
          /\ n = Clamp(Code(t), minute, minute, w)
          /\ n <= w /\ Debit(n) \in Nat
          /\ cash' \in Nat /\ cash' = cash - Debit(n) /\ unsliced' = unsliced
          /\ lots' \in [DOMAIN lots' -> Nat \ {0}]
          /\ DOMAIN lots' = DOMAIN lots \cup {t}
          /\ \A u \in DOMAIN lots : u # t => lots'[u] = lots[u]
          /\ lots'[t] = n + (IF t \in DOMAIN lots THEN lots[t] ELSE 0)
          /\ used' \in [Codes \X Minutes -> 0 .. BarBudget]
    BY <1>1, <2>0, <2>1, <2>2, <2>4, FillStep
  <2>6. tails' = [tails EXCEPT ![c].filled = @ + n] /\ settled' = settled + Debit(n)
    BY <2>1, <2>2, <2>5
  <2>7. AccountInv'
    BY <1>1, <2>2, <2>5, <2>6 DEF AccountInv
  <2>8. AgesInv'
    BY <1>1, <2>2, <2>5 DEF AgesInv
  <2>9. /\ tails' \in [DOMAIN tails -> [target : Nat, slice : Nat, filled : Nat]]
        /\ tails'[c].filled = tails[c].filled + n /\ tails'[c].target = tails[c].target
        /\ \A d \in DOMAIN tails : d # c => tails'[d] = tails[d]
    <3>1. tails \in [DOMAIN tails -> [target : Nat, slice : Nat, filled : Nat]]
      BY <1>1 DEF TailInv
    <3>2. tails[c].filled + n \in Nat
      BY <2>3, <2>5
    <3>3. tails' = [tails EXCEPT ![c] = [tails[c] EXCEPT !.filled = tails[c].filled + n]]
      BY <2>6
    <3>4. [tails[c] EXCEPT !.filled = tails[c].filled + n]
            \in [target : Nat, slice : Nat, filled : Nat]
      BY <2>3, <3>2
    <3> QED BY <2>1, <2>3, <3>1, <3>3, <3>4
  <2>10. ParentMatchesLot'
    <3>1. \A d \in DOMAIN tails : d # c =>
            /\ <<d, day, "tail">> # t
            /\ <<d, day, "tail">> \in DOMAIN lots' <=> <<d, day, "tail">> \in DOMAIN lots
            /\ <<d, day, "tail">> \in DOMAIN lots
                 => lots'[<<d, day, "tail">>] = lots[<<d, day, "tail">>]
      BY <2>2, <2>5
    <3>2. \A d \in DOMAIN tails :
            /\ tails[d].filled = (IF <<d, day, "tail">> \in DOMAIN lots
                                  THEN lots[<<d, day, "tail">>] ELSE 0)
            /\ tails[d].filled <= tails[d].target
      BY <1>1 DEF TailInv, SlicesAgree, ParentMatchesLot
    <3>3. \A d \in DOMAIN tails : d # c =>
            /\ tails'[d].filled = (IF <<d, day, "tail">> \in DOMAIN lots'
                                   THEN lots'[<<d, day, "tail">>] ELSE 0)
            /\ tails'[d].filled <= tails'[d].target
      BY <2>9, <3>1, <3>2
    <3>4. /\ tails'[c].filled = lots'[t] /\ t \in DOMAIN lots'
          /\ tails'[c].filled <= tails'[c].target
      <4>1. lots'[t] = n + tails[c].filled
        BY <2>3, <2>5
      <4> QED BY <2>3, <2>4, <2>5, <2>9, <4>1
    <3>5. t = <<c, day, "tail">> /\ DOMAIN tails' = DOMAIN tails
      BY <2>9 DEF t
    <3> QED BY <3>3, <3>4, <3>5 DEF ParentMatchesLot
  <2>11. PoolBasisIgnoresSlices'
    BY <1>1, <2>5, <2>6 DEF AccountInv, TailInv, SlicesAgree, PoolBasisIgnoresSlices
  <2>12. WindowInv'
    <3>1. WindowIsOpen' = WindowIsOpen
      BY DEF WindowIsOpen
    <3>2. Code(t) \in tailCodes /\ DOMAIN tails' \subseteq tailCodes
      BY <1>1, <2>1, <2>2, <2>9 DEF WindowInv
    <3>3. OneOpeningPerName'
      BY <1>1, <2>2, <2>5 DEF WindowInv, OneOpeningPerName
    <3> QED BY <1>1, <2>5, <3>1, <3>2, <3>3 DEF WindowInv
  <2> QED BY <1>1, <1>2, <2>7, <2>8, <2>9, <2>10, <2>11, <2>12 DEF TailInv, SlicesAgree
<1> QED BY <1>3, <1>4


LEMMA ListsAreCodes ==
  ASSUME day \in Days
  PROVE  PoolDays[day] \in Seq(Codes) /\ Listed \subseteq Codes
<1>1. PoolDays[day] \in Seq(Codes)
  BY ParametersAreNumbers
<1> QED BY <1>1 DEF Listed

LEMMA ChaseStep ==
  ASSUME DayInv, ChaseDue
  PROVE  DayInv' /\ QueueStep
<1>1. PICK c \in todo :
        \E bucket \in {Bucket(c, ChaseMinute, 1)} :
          /\ todo' = todo \ {c}
          /\ \/ bucket = 0 /\ (Held(c) => AllowAdd) /\ UNCHANGED <<chases, account>>
             \/ chases' = Without(chases, c) /\ UNCHANGED account
             \/ /\ bucket # 0 /\ (Held(c) => AllowAdd) /\ ~BarOf(c, bucket).closeUp
                /\ chases' = Without(chases, c)
                /\ Order(<<c, day, "chase">>, bucket, chases[c].per)
  BY DEF ChaseDue
<1>2. /\ phase = "chase"
      /\ UNCHANGED <<day, minute, frames, phase, listed, cursors, tried, queue, sold, kept,
                     per, tails, tailCodes, settled>>
  BY DEF ChaseDue, clock, scan
<1>3. /\ PassInv /\ c \in DOMAIN chases /\ c \in Codes /\ chases[c].per \in Nat /\ day \in Days
      /\ todo \subseteq DOMAIN chases
  BY <1>2 DEF DayInv, PassInv
<1> DEFINE t == <<c, day, "chase">>
<1>4. t \in Lot /\ Code(t) = c /\ t[2] = day /\ t[3] = "chase"
  BY <1>3 DEF Lot, Code
<1>5. PassInv'
  BY <1>1, <1>2, <1>3 DEF PassInv, Without
<1>6. \E bucket \in Minutes :
        \/ UNCHANGED account
        \/ \E wanted \in Nat : Fillable(Code(t), bucket, wanted) /\ Fill(t, bucket, wanted)
  <2>1. CASE UNCHANGED account
    BY <2>1, ParametersAreNumbers
  <2>2. CASE ~UNCHANGED account
    <3> DEFINE bucket == Bucket(c, ChaseMinute, 1)
    <3>1. bucket # 0 /\ Order(t, bucket, chases[c].per)
      BY <1>1, <2>2
    <3>2. bucket \in Minutes
      BY <3>1, BucketIsAMinute, ParametersAreNumbers
    <3> HIDE DEF bucket, t
    <3>3. \E wanted \in Nat : Fillable(Code(t), bucket, wanted) /\ Fill(t, bucket, wanted)
      BY <1>3, <2>2, <3>1, OrderStep
    <3> QED BY <3>2, <3>3
  <2> QED BY <2>1, <2>2
<1> HIDE DEF t
<1>7. ~WindowIsOpen
  <2> SUFFICES ASSUME TailOn, TailStart < minute \/ TailStart = minute
               PROVE  FALSE
    BY DEF WindowIsOpen
  <2>1. minute = ChaseMinute /\ minute \in Nat
    BY <1>1, <1>2, <1>3, ParametersAreNumbers DEF PassInv
  <2>2. TailStart \in Nat /\ ChaseMinute < TailStart
    BY WindowOpensInTime, ParametersAreNumbers
  <2> QED BY <2>1, <2>2
<1>8. /\ AccountInv' /\ AgesInv' /\ SoldInv' /\ QueueInv' /\ TailInv' /\ WindowInv'
      /\ QueueStep
  BY <1>2, <1>4, <1>6, <1>7, PurchaseKeeps
<1> QED BY <1>5, <1>8 DEF DayInv

LEMMA TailSliceStep ==
  ASSUME DayInv, TailSlice
  PROVE  DayInv' /\ QueueStep
<1>1. /\ phase = "slices" /\ listed # <<>> /\ FillSlice(Head(listed)) /\ listed' = Tail(listed)
      /\ UNCHANGED <<day, minute, phase, todo, cursors, tried, queue, sold, kept, chases, per,
                     tailCodes>>
  BY DEF TailSlice, clock, scan
<1>2. PassInv /\ listed \in Seq(Codes)
  BY DEF DayInv, PassInv
<1>3. Head(listed) \in Codes /\ Tail(listed) \in Seq(Codes)
  BY <1>1, <1>2
<1>4. PassInv'
  BY <1>1, <1>2, <1>3 DEF PassInv
<1>5. /\ AccountInv' /\ AgesInv' /\ SoldInv' /\ QueueInv' /\ TailInv' /\ WindowInv'
      /\ QueueStep
  BY <1>1, <1>3, SliceKeeps
<1> QED BY <1>4, <1>5 DEF DayInv

LEMMA PoolStep ==
  ASSUME DayInv, PoolBuy
  PROVE  DayInv' /\ QueueStep
<1> DEFINE c == Head(listed)
           t == <<c, day, "pool">>
           bucket == Bucket(c, BuyMinute, BuyFrom)
<1>1. /\ phase = "pool" /\ listed # <<>> /\ listed' = Tail(listed)
      /\ UNCHANGED <<day, minute, phase, todo, cursors, tried, queue, sold, kept, per,
                     tailCodes>>
  BY DEF PoolBuy, clock, scan
<1>2. PassInv /\ listed \in Seq(Codes) /\ day \in Days /\ per \in Nat
  BY DEF DayInv, PassInv
<1>3. c \in Codes /\ Tail(listed) \in Seq(Codes)
  BY <1>1, <1>2
<1>4. /\ chases' = chases \/ chases' = Put(chases, c, [per |-> per, sig |-> day])
  BY DEF PoolBuy, Listing
<1>5. PassInv'
  <2>1. DOMAIN chases' \subseteq Codes /\ \A d \in DOMAIN chases' : chases'[d].per \in Nat
    BY <1>2, <1>3, <1>4 DEF PassInv, Put
  <2> QED BY <1>1, <1>2, <1>3, <2>1 DEF PassInv
<1>6. t \in Lot /\ Code(t) = c /\ t[2] = day /\ t[3] = "pool"
  BY <1>2, <1>3 DEF Lot, Code
<1>7. /\ AccountInv' /\ AgesInv' /\ SoldInv' /\ QueueInv' /\ TailInv' /\ WindowInv'
      /\ QueueStep
  <2>1. CASE Consumed(c)
    <3>1. FillSlice(c) \/ UNCHANGED <<account, tails, settled>>
      BY <2>1 DEF PoolBuy
    <3>2. FillSlice(c) \/ (UNCHANGED account /\ UNCHANGED <<tails, settled>>)
      BY <3>1
    <3>3. CASE FillSlice(c)
      BY <1>1, <1>3, <3>3, SliceKeeps
    <3>4. CASE UNCHANGED account /\ UNCHANGED <<tails, settled>>
      <4> DEFINE u == <<c, day, "chase">>
      <4>1. u \in Lot /\ u[2] = day /\ u[3] = "chase" /\ BuyMinute \in Minutes
        BY <1>2, <1>3, ParametersAreNumbers DEF Lot
      <4> HIDE DEF u
      <4> QED BY <1>1, <3>4, <4>1, PurchaseKeeps
    <3> QED BY <3>2, <3>3, <3>4
  <2>2. CASE ~Consumed(c)
    <3>1. Listing(c) /\ UNCHANGED <<tails, settled>>
      BY <2>2 DEF PoolBuy
    <3>2. /\ TailOn /\ t[3] = "pool" => Code(t) \in kept \ tailCodes
          /\ WindowIsOpen => Code(t) \in kept \cup tailCodes
      <4> SUFFICES ASSUME TailOn
                   PROVE  c \in kept \ tailCodes
        BY <1>6 DEF WindowIsOpen
      <4>1. c \notin tailCodes /\ Held(c)
        BY <2>2 DEF Consumed
      <4>2. minute = BuyMinute /\ PoolDays[day] # <<>>
        BY <1>1, <1>2 DEF PassInv
      <4>3. WindowIsOpen
        <5>1. TailStart \in Nat /\ BuyMinute \in Nat /\ TailStart <= BuyMinute
          BY WindowOpensInTime, ParametersAreNumbers
        <5>2. TailStart < minute \/ TailStart = minute
          BY <4>2, <5>1
        <5> QED BY <1>1, <4>2, <5>2 DEF WindowIsOpen
      <4> QED BY <4>1, <4>3 DEF DayInv, WindowInv, Held
    <3>3. \E b \in Minutes :
            \/ UNCHANGED account
            \/ \E wanted \in Nat : Fillable(Code(t), b, wanted) /\ Fill(t, b, wanted)
      <4>1. CASE UNCHANGED account
        BY <4>1, ParametersAreNumbers
      <4>2. CASE ~UNCHANGED account
        <5>1. bucket # 0 /\ Order(t, bucket, per)
          BY <3>1, <4>2 DEF Listing
        <5>2. bucket \in Minutes
          BY <5>1, BucketIsAMinute, ParametersAreNumbers
        <5> HIDE DEF bucket, t
        <5>3. \E wanted \in Nat : Fillable(Code(t), bucket, wanted) /\ Fill(t, bucket, wanted)
          BY <1>2, <4>2, <5>1, OrderStep
        <5> QED BY <5>2, <5>3
      <4> QED BY <4>1, <4>2
    <3> HIDE DEF t
    <3> QED BY <1>1, <1>6, <3>1, <3>2, <3>3, PurchaseKeeps
  <2> QED BY <2>1, <2>2
<1> QED BY <1>5, <1>7 DEF DayInv

(***************************************************************************)
(* The clock                                                               *)
(***************************************************************************)

\* The budget of a name.
LEMMA ShareIsNatural ==
  ASSUME day \in Days, PoolDays[day] # <<>>, NEW basis \in Nat
  PROVE  Share(basis) \in Nat
<1>1. PoolDays[day] \in Seq(Codes)
  BY ListsAreCodes
<1>2. Len(PoolDays[day]) \in Nat \ {0}
  BY <1>1
<1>3. Smaller(DailyQuota, basis) \in Nat
  BY ParametersAreNumbers DEF Smaller
<1> HIDE DEF Smaller
<1> QED BY <1>2, <1>3 DEF Share

LEMMA ParentIsTyped ==
  ASSUME TailOn, NEW budget \in Nat
  PROVE  /\ Parent(budget) \in [target : Nat, slice : Nat, filled : Nat]
         /\ Parent(budget).filled = 0
<1>1. IsFiniteSet(TailMinutes)
  <2>1. IsFiniteSet(1 .. LastMinute)
    BY ParametersAreNumbers, FS_Interval
  <2>2. TailMinutes \subseteq 1 .. LastMinute
    BY ParametersAreNumbers DEF Minutes
  <2> QED BY <2>1, <2>2, FS_Subset
<1>2. Cardinality(TailMinutes) \in Nat \ {0}
  BY <1>1, FS_CardinalityType, FS_EmptySet DEF TailOn
<1>3. budget \div LotCost \in Nat
  BY ParametersAreNumbers
<1>4. (budget \div LotCost) \div Cardinality(TailMinutes) \in Nat
  BY <1>2, <1>3
<1> QED BY <1>3, <1>4 DEF Parent

LEMMA ParentsStep ==
  ASSUME DayInv, StartParents
  PROVE  DayInv' /\ QueueStep
<1>1. /\ phase = "parents" /\ phase' = "close" /\ todo' = cursors \cap DOMAIN lots
      /\ tailCodes' = {c \in Listed : ~Held(c)} /\ kept' = {c \in Codes : Held(c)}
      /\ UNCHANGED <<day, minute, listed, cash, lots, used, unsliced, cursors, tried, queue,
                     sold, chases, per, settled>>
  BY DEF StartParents, clock, account, scan
<1>2. PICK opened \in SUBSET {c \in Listed : ~Held(c) /\ BarOf(c, minute).row} :
        tails' = [c \in opened |-> Parent(Share(cash))]
  BY DEF StartParents
<1>3. /\ PassInv /\ AccountInv /\ AgesInv /\ SoldInv /\ QueueInv /\ TailInv
      /\ TailOn /\ PoolDays[day] # <<>> /\ day \in Days /\ cash \in Nat
  BY <1>1 DEF DayInv, PassInv, AccountInv
<1>4. Listed \subseteq Codes
  BY <1>3, ListsAreCodes
<1>5. /\ Parent(Share(cash)) \in [target : Nat, slice : Nat, filled : Nat]
      /\ Parent(Share(cash)).filled = 0
  BY <1>3, ShareIsNatural, ParentIsTyped
<1>6. PassInv' /\ AccountInv' /\ AgesInv' /\ SoldInv'
  <2>1. PassInv'
    BY <1>1, <1>3 DEF PassInv
  <2>2. AccountInv' /\ AgesInv'
    BY <1>1, <1>3 DEF AccountInv, AgesInv
  <2>3. SoldInv'
    BY <1>1, <1>3 DEF SoldInv, OpensTakeNoVolume, OneExitADay
  <2> QED BY <2>1, <2>2, <2>3
<1>7. QueueInv'
  BY <1>1, <1>3 DEF QueueInv, Earlier
<1>8. TailInv'
  <2>1. \A c \in opened : <<c, day, "tail">> \notin DOMAIN lots
    BY DEF Held, Code
  <2>2. /\ tails' \in [DOMAIN tails' -> [target : Nat, slice : Nat, filled : Nat]]
        /\ DOMAIN tails' \subseteq Codes
    BY <1>2, <1>4, <1>5
  <2>3. ParentMatchesLot'
    BY <1>1, <1>2, <1>5, <2>1 DEF ParentMatchesLot
  <2>4. PoolBasisIgnoresSlices'
    BY <1>1, <1>3 DEF TailInv, SlicesAgree, PoolBasisIgnoresSlices
  <2> QED BY <2>2, <2>3, <2>4 DEF TailInv, SlicesAgree
<1>9. WindowInv'
  <2>1. \A t \in DOMAIN lots : Code(t) \in kept' /\ Code(t) \notin tailCodes'
    BY <1>1, <1>3 DEF AccountInv, Lot, Code, Held
  <2>2. OneOpeningPerName'
    BY <1>1, <2>1 DEF OneOpeningPerName
  <2> QED BY <1>1, <1>2, <2>1, <2>2 DEF WindowInv
<1>10. QueueStep
  BY <1>1, NoQueueStep
<1> QED BY <1>6, <1>7, <1>8, <1>9, <1>10 DEF DayInv


LEMMA BeginStep ==
  ASSUME DayInv, BeginDay
  PROVE  DayInv' /\ QueueStep
<1>1. /\ phase = "begin" /\ phase' = "open"
      /\ cursors' \subseteq DOMAIN lots /\ todo' = cursors'
      /\ tried' = {} /\ sold' = {} /\ used' = [k \in Codes \X Minutes |-> 0]
      /\ tails' = Empty /\ tailCodes' = {} /\ settled' = 0 /\ unsliced' = cash
      /\ UNCHANGED <<day, minute, listed, cash, lots, queue, chases, per>>
  BY DEF BeginDay
<1>2. PassInv /\ AccountInv /\ AgesInv /\ QueueInv /\ cash \in Nat
  BY DEF DayInv, AccountInv
<1>3. PassInv'
  BY <1>1, <1>2 DEF PassInv
<1>4. AccountInv'
  <2>1. used' \in [Codes \X Minutes -> 0 .. BarBudget]
    BY <1>1, ParametersAreNumbers
  <2> QED BY <1>1, <1>2, <2>1 DEF AccountInv
<1>5. AgesInv'
  BY <1>1, <1>2 DEF AgesInv, AccountInv
<1>6. SoldInv'
  BY <1>1 DEF SoldInv, OpensTakeNoVolume, OneExitADay
<1>7. QueueInv'
  <2>1. day \in Nat
    BY <1>2, ParametersAreNumbers DEF PassInv
  <2>2. \A t \in DOMAIN queue : Earlier(queue[t])
    BY <1>1, <1>2 DEF QueueInv, Earlier
  <2> QED BY <1>1, <1>2, <2>2 DEF QueueInv, Earlier
<1>8. TailInv'
  <2>1. DOMAIN tails' = {} /\ tails' \in [DOMAIN tails' -> [target : Nat, slice : Nat, filled : Nat]]
    BY <1>1 DEF Empty
  <2>2. cash' + settled' = unsliced'
    BY <1>1, <1>2
  <2> QED BY <1>1, <2>1, <2>2 DEF TailInv, SlicesAgree, ParentMatchesLot,
                                  PoolBasisIgnoresSlices
<1>9. WindowInv'
  <2>1. \A t \in DOMAIN lots : t[2] # day
    BY <1>1, <1>2, ParametersAreNumbers DEF PassInv, AgesInv, AccountInv, Lot
  <2>2. ~WindowIsOpen'
    <3>1. minute' = 1 /\ phase' = "open"
      BY <1>1 DEF BeginDay
    <3>2. TailOn => 1 < TailStart /\ TailStart \in Nat
      BY WindowOpensInTime, ParametersAreNumbers DEF Minutes
    <3> QED BY <3>1, <3>2 DEF WindowIsOpen
  <2>3. DOMAIN tails' = {}
    BY <1>1 DEF Empty
  <2> QED BY <1>1, <2>1, <2>2, <2>3 DEF WindowInv, OneOpeningPerName
<1>10. QueueStep
  BY <1>1, NoQueueStep
<1> QED BY <1>3, <1>4, <1>5, <1>6, <1>7, <1>8, <1>9, <1>10 DEF DayInv

\* A step of the clock within the day that moves no money and no lot.
LEMMA ClockStep ==
  ASSUME DayInv, UNCHANGED <<day, minute>>, UNCHANGED <<account, scan>>,
         UNCHANGED <<chases, tails, tailCodes, settled>>,
         phase # "begin", phase' \in {"parents", "close", "slices", "chase", "pool"},
         phase' = "parents" => TailOn /\ PoolDays[day] # <<>>,
         phase' = "close" => todo' = cursors \cap DOMAIN lots,
         phase' = "chase" => todo' \subseteq DOMAIN chases /\ listed' = <<>>,
         phase' = "chase" /\ todo' # {} => minute = ChaseMinute,
         phase' = "pool" /\ listed' # <<>> => minute = BuyMinute /\ PoolDays[day] # <<>>,
         phase \in {"close", "slices", "chase"} \/ phase' = "parents"
           \/ ~(TailOn /\ minute = TailStart /\ PoolDays[day] # <<>>),
         phase # "open" \/ todo = {},
         listed' \in Seq(Codes), per' \in Nat
  PROVE  DayInv' /\ QueueStep
<1>1. UNCHANGED <<cash, lots, used, unsliced, cursors, tried, queue, sold, kept>>
  BY DEF account, scan
<1>2. PassInv /\ AccountInv /\ AgesInv /\ SoldInv /\ QueueInv /\ TailInv /\ WindowInv
  BY DEF DayInv
<1>3. PassInv'
  BY <1>1, <1>2 DEF PassInv
<1>4. AccountInv' /\ AgesInv'
  BY <1>1, <1>2 DEF AccountInv, AgesInv
<1>5. SoldInv'
  BY <1>1, <1>2 DEF SoldInv, OpensTakeNoVolume, OneExitADay
<1>6. QueueInv'
  BY <1>1, <1>2 DEF QueueInv, Earlier
<1>7. TailInv'
  BY <1>1, <1>2 DEF TailInv, SlicesAgree, ParentMatchesLot, PoolBasisIgnoresSlices
<1>8. WindowInv'
  <2>1. WindowIsOpen' => WindowIsOpen
    BY DEF WindowIsOpen
  <2> QED BY <1>1, <1>2, <2>1 DEF WindowInv, OneOpeningPerName
<1>9. QueueStep
  BY <1>1, NoQueueStep
<1> QED BY <1>3, <1>4, <1>5, <1>6, <1>7, <1>8, <1>9 DEF DayInv

LEMMA EndChasesStep ==
  ASSUME DayInv, EndChases
  PROVE  DayInv' /\ QueueStep
<1>1. /\ phase = "chase" /\ phase' = "pool"
      /\ UNCHANGED <<day, minute>> /\ UNCHANGED <<account, scan>>
      /\ UNCHANGED <<chases, tails, tailCodes, settled>>
  BY DEF EndChases, clock
<1>2. /\ day \in Days /\ listed \in Seq(Codes) /\ per \in Nat /\ cash \in Nat /\ settled \in Nat
  BY DEF DayInv, PassInv, AccountInv
<1>3. listed' \in Seq(Codes) /\ per' \in Nat
  <2>1. CASE minute = BuyMinute /\ PoolDays[day] # <<>>
    <3>1. listed' = PoolDays[day] /\ per' = Share(cash + settled)
      BY <2>1 DEF EndChases
    <3>2. cash + settled \in Nat
      BY <1>2
    <3>3. per' \in Nat
      BY <1>2, <2>1, <3>1, <3>2, ShareIsNatural, Zenon
    <3>4. listed' \in Seq(Codes)
      BY <1>2, <3>1, ListsAreCodes, Zenon
    <3> QED BY <3>3, <3>4
  <2>2. CASE ~(minute = BuyMinute /\ PoolDays[day] # <<>>)
    BY <1>2, <2>2 DEF EndChases
  <2> QED BY <2>1, <2>2
<1>4. listed' # <<>> => minute = BuyMinute /\ PoolDays[day] # <<>>
  BY <1>1 DEF EndChases, DayInv, PassInv
<1> QED BY <1>1, <1>3, <1>4, ClockStep

LEMMA NextMinuteStep ==
  ASSUME DayInv, NextMinute
  PROVE  DayInv' /\ QueueStep
<1>1. /\ phase = "pool" /\ phase' = "open" /\ minute < LastMinute /\ minute' = minute + 1
      /\ todo' = cursors \cap DOMAIN lots
      /\ UNCHANGED <<day, listed, cash, lots, used, unsliced, cursors, tried, queue, sold,
                     kept, chases, per, tails, tailCodes, settled>>
  BY DEF NextMinute, account, scan, buyers
<1>2. /\ PassInv /\ AccountInv /\ AgesInv /\ SoldInv /\ QueueInv /\ TailInv /\ WindowInv
      /\ day \in Nat /\ minute \in Nat
  BY ParametersAreNumbers DEF DayInv, PassInv
<1>3. minute' \in Minutes /\ minute < minute'
  BY <1>1, <1>2, ParametersAreNumbers DEF PassInv, Minutes
<1>4. PassInv'
  BY <1>1, <1>2, <1>3 DEF PassInv
<1>5. AccountInv' /\ AgesInv'
  BY <1>1, <1>2 DEF AccountInv, AgesInv
<1>6. SoldInv'
  BY <1>1, <1>2 DEF SoldInv, OpensTakeNoVolume, OneExitADay
<1>7. QueueInv'
  <2>1. \A t \in DOMAIN queue : /\ queue[t] \in Days \X Minutes
                                /\ Earlier(queue[t]) \/ queue[t] = <<day, minute>>
    BY <1>2 DEF QueueInv
  <2>2. \A t \in DOMAIN queue : Earlier(queue[t])'
    <3> SUFFICES ASSUME NEW t \in DOMAIN queue
                 PROVE  Earlier(queue[t])'
      OBVIOUS
    <3>1. queue[t][1] \in Nat /\ queue[t][2] \in Nat
      BY <2>1, ParametersAreNumbers
    <3>2. queue[t][1] < day \/ (queue[t][1] = day /\ queue[t][2] <= minute)
      BY <1>2, <2>1, <3>1 DEF Earlier
    <3>3. queue[t][1] < day \/ (queue[t][1] = day /\ queue[t][2] < minute')
      BY <1>2, <1>3, <3>1, <3>2, ParametersAreNumbers
    <3> QED BY <1>1, <3>3 DEF Earlier
  <2> QED BY <1>1, <1>2, <2>1, <2>2 DEF QueueInv
<1>8. TailInv'
  BY <1>1, <1>2 DEF TailInv, SlicesAgree, ParentMatchesLot, PoolBasisIgnoresSlices
<1>9. WindowInv'
  <2>1. WindowIsOpen' => WindowIsOpen
    <3> SUFFICES ASSUME TailOn, PoolDays[day] # <<>>, TailStart < minute'
                 PROVE  TailStart < minute \/ TailStart = minute
      BY <1>1, <1>3, WindowOpensInTime DEF WindowIsOpen
    <3>1. TailStart \in Nat
      BY WindowOpensInTime, ParametersAreNumbers
    <3> QED BY <1>1, <1>2, <3>1
  <2> QED BY <1>1, <1>2, <2>1 DEF WindowInv, OneOpeningPerName
<1>10. QueueStep
  BY <1>1, NoQueueStep
<1> QED BY <1>4, <1>5, <1>6, <1>7, <1>8, <1>9, <1>10 DEF DayInv

LEMMA EndDayStep ==
  ASSUME DayInv, EndDay
  PROVE  DayInv' /\ QueueStep
<1>1. /\ phase = "pool" /\ phase' = "begin" /\ day < LastDay /\ day' = day + 1 /\ minute' = 1
      /\ per' = 0
      /\ UNCHANGED <<todo, listed, cash, lots, used, unsliced, cursors, tried, queue, sold,
                     kept, chases, tails, tailCodes, settled>>
  BY DEF EndDay, account, scan
<1>2. /\ PassInv /\ AccountInv /\ AgesInv /\ SoldInv /\ QueueInv /\ TailInv /\ WindowInv
      /\ day \in Nat /\ minute \in Nat
  BY ParametersAreNumbers DEF DayInv, PassInv
<1>3. day' \in Days /\ minute' \in Minutes
  BY <1>1, <1>2, ParametersAreNumbers DEF PassInv, Days
<1>4. PassInv'
  BY <1>1, <1>2, <1>3 DEF PassInv
<1>5. AccountInv'
  BY <1>1, <1>2 DEF AccountInv
<1>6. AgesInv'
  <2>1. \A t \in Lot : t[2] \in Nat
    BY ParametersAreNumbers DEF Lot
  <2>2. \A t \in DOMAIN lots : t[2] <= day' /\ t[2] < day'
    BY <1>1, <1>2, <2>1 DEF AgesInv, AccountInv
  <2>3. \A t \in cursors : t[2] < day'
    BY <1>1, <1>2, <2>1 DEF AgesInv
  <2> QED BY <1>1, <1>2, <2>2, <2>3 DEF AgesInv
<1>7. SoldInv'
  BY <1>1, <1>2 DEF SoldInv, OpensTakeNoVolume, OneExitADay
<1>8. QueueInv'
  <2>1. \A t \in DOMAIN queue : /\ queue[t] \in Days \X Minutes
                                /\ Earlier(queue[t]) \/ queue[t] = <<day, minute>>
    BY <1>2 DEF QueueInv
  <2>2. \A t \in DOMAIN queue : queue[t][1] < day'
    <3> SUFFICES ASSUME NEW t \in DOMAIN queue
                 PROVE  queue[t][1] < day'
      OBVIOUS
    <3>1. queue[t][1] \in Nat /\ queue[t][2] \in Nat
      BY <2>1, ParametersAreNumbers
    <3>2. queue[t][1] <= day
      BY <1>2, <2>1, <3>1 DEF Earlier
    <3> QED BY <1>1, <1>2, <3>1, <3>2
  <2> QED BY <1>1, <1>2, <2>1, <2>2 DEF QueueInv, Earlier
<1>9. TailInv'
  BY <1>1, <1>2 DEF TailInv, SlicesAgree, ParentMatchesLot, PoolBasisIgnoresSlices
<1>10. WindowInv'
  <2>1. ~WindowIsOpen'
    <3>1. TailOn => 1 < TailStart /\ TailStart \in Nat
      BY WindowOpensInTime, ParametersAreNumbers DEF Minutes
    <3> QED BY <1>1, <3>1 DEF WindowIsOpen
  <2>2. \A t \in DOMAIN lots' : t[2] # day'
    BY <1>1, <1>2, <1>6, ParametersAreNumbers DEF AgesInv, AccountInv, Lot
  <2> QED BY <1>1, <1>2, <2>1, <2>2 DEF WindowInv, OneOpeningPerName
<1>11. QueueStep
  BY <1>1, NoQueueStep
<1> QED BY <1>4, <1>5, <1>6, <1>7, <1>8, <1>9, <1>10, <1>11 DEF DayInv

(***************************************************************************)
(* The specification                                                       *)
(***************************************************************************)

LEMMA InitEstablishesDay == Init => DayInv
<1> SUFFICES ASSUME Init
             PROVE  DayInv
  OBVIOUS
<1>1. /\ day = 1 /\ minute = 1 /\ phase = "begin" /\ todo = {} /\ listed = <<>> /\ per = 0
      /\ cash = TotalCash /\ unsliced = TotalCash /\ settled = 0
      /\ lots = Empty /\ queue = Empty /\ chases = Empty /\ tails = Empty
      /\ cursors = {} /\ tried = {} /\ sold = {} /\ kept = {} /\ tailCodes = {}
      /\ used = [k \in Codes \X Minutes |-> 0]
  BY DEF Init
<1>2. DOMAIN Empty = {} /\ \A S : Empty \in [DOMAIN Empty -> S]
  BY DEF Empty
<1>3. PassInv
  BY <1>1, <1>2, ParametersAreNumbers DEF PassInv
<1>4. AccountInv
  <2>1. used \in [Codes \X Minutes -> 0 .. BarBudget] /\ TotalCash \in Nat
    BY <1>1, ParametersAreNumbers
  <2> QED BY <1>1, <1>2, <2>1 DEF AccountInv
<1>5. AgesInv /\ SoldInv /\ QueueInv
  BY <1>1, <1>2 DEF AgesInv, SoldInv, OpensTakeNoVolume, OneExitADay, QueueInv
<1>6. TailInv
  BY <1>1, <1>2 DEF TailInv, SlicesAgree, ParentMatchesLot, PoolBasisIgnoresSlices
<1>7. WindowInv
  BY <1>1, <1>2 DEF WindowInv, OneOpeningPerName
<1> QED BY <1>3, <1>4, <1>5, <1>6, <1>7 DEF DayInv

LEMMA NextPreservesDay ==
  ASSUME DayInv, [Next]_vars
  PROVE  DayInv' /\ [QueueStep]_vars
<1>0. PassInv /\ day \in Days /\ listed \in Seq(Codes) /\ per \in Nat
  BY DEF DayInv, PassInv
<1>1. CASE BeginDay
  BY <1>1, BeginStep
<1>2. CASE HeldScan
  BY <1>2, HeldScanStep
<1>3. CASE EndOpens
  <2>1. /\ phase = "open" /\ todo = {} /\ UNCHANGED <<day, minute>>
        /\ UNCHANGED <<account, scan>> /\ UNCHANGED <<listed, per>>
        /\ UNCHANGED <<chases, tails, tailCodes, settled>>
    BY <1>3 DEF EndOpens, clock, buyers
  <2>2. \/ TailOn /\ PoolDays[day] # <<>> /\ phase' = "parents"
        \/ phase' = "close" /\ todo' = cursors \cap DOMAIN lots
    BY <1>3 DEF EndOpens
  <2>3. listed' \in Seq(Codes) /\ per' \in Nat
    BY <1>0, <2>1
  <2>4. phase' = "parents" \/ ~(TailOn /\ minute = TailStart /\ PoolDays[day] # <<>>)
    BY <1>3 DEF EndOpens
  <2> QED BY <2>1, <2>2, <2>3, <2>4, ClockStep
<1>4. CASE StartParents
  BY <1>4, ParentsStep
<1>5. CASE EndCloses
  <2>1. /\ phase = "close" /\ phase' = "slices" /\ UNCHANGED <<day, minute>>
        /\ UNCHANGED <<account, scan>> /\ UNCHANGED per
        /\ UNCHANGED <<chases, tails, tailCodes, settled>>
    BY <1>5 DEF EndCloses, clock, buyers
  <2>2. listed' \in Seq(Codes) /\ per' \in Nat
    BY <1>0, <1>5, <2>1, ListsAreCodes DEF EndCloses
  <2> QED BY <2>1, <2>2, ClockStep
<1>6. CASE TailSlice
  BY <1>6, TailSliceStep
<1>7. CASE EndSlices
  <2>1. /\ phase = "slices" /\ phase' = "chase" /\ UNCHANGED <<day, minute>>
        /\ UNCHANGED <<account, scan>> /\ UNCHANGED <<listed, per>>
        /\ UNCHANGED <<chases, tails, tailCodes, settled>>
        /\ todo' \subseteq DOMAIN chases /\ (todo' # {} => minute = ChaseMinute)
        /\ listed' = <<>>
    BY <1>7 DEF EndSlices, clock, buyers
  <2>2. listed' \in Seq(Codes) /\ per' \in Nat
    BY <1>0, <2>1
  <2> QED BY <2>1, <2>2, ClockStep
<1>8. CASE ChaseDue
  BY <1>8, ChaseStep
<1>9. CASE EndChases
  BY <1>9, EndChasesStep
<1>10. CASE PoolBuy
  BY <1>10, PoolStep
<1>11. CASE NextMinute
  BY <1>11, NextMinuteStep
<1>12. CASE EndDay
  BY <1>12, EndDayStep
<1>13. CASE UNCHANGED vars
  <2>1. PassInv' /\ AccountInv' /\ AgesInv'
    BY <1>13 DEF vars, DayInv, PassInv, AccountInv, AgesInv
  <2>2. SoldInv' /\ QueueInv'
    BY <1>13 DEF vars, DayInv, SoldInv, OpensTakeNoVolume, OneExitADay, QueueInv, Earlier
  <2>3. TailInv'
    BY <1>13 DEF vars, DayInv, TailInv, SlicesAgree, ParentMatchesLot,
                 PoolBasisIgnoresSlices
  <2>4. WindowInv'
    BY <1>13 DEF vars, DayInv, WindowInv, WindowIsOpen, OneOpeningPerName
  <2> QED BY <1>13, <2>1, <2>2, <2>3, <2>4 DEF DayInv
<1> QED BY <1>1, <1>2, <1>3, <1>4, <1>5, <1>6, <1>7, <1>8, <1>9, <1>10, <1>11, <1>12,
           <1>13 DEF Next

LEMMA DayInvariant == Spec => []DayInv
<1>1. DayInv /\ [Next]_vars => DayInv'
  BY NextPreservesDay
<1> QED BY <1>1, InitEstablishesDay, PTL DEF Spec

(***************************************************************************)
(* The theorems                                                            *)
(***************************************************************************)

\* Every pass keeps its types; whatever is ordered in a minute, by however many
\* passes, the account is never overdrawn and no lot is left with nothing.
THEOREM MinuteTypeCorrect == Spec => []MinuteTypeOK
<1>1. DayInv => MinuteTypeOK
  BY DEF DayInv, PassInv, AccountInv, QueueInv, SoldInv, MinuteTypeOK
<1> QED BY <1>1, DayInvariant, PTL

\* A bar's volume is never given out twice, between exits, slices, chases and
\* purchases that fall back to the bar, and an opening takes none of it.
THEOREM VolumeIsAlwaysShared == Spec => []VolumeIsShared
<1>1. DayInv => VolumeIsShared
  BY ParametersAreNumbers
     DEF DayInv, AccountInv, SoldInv, VolumeIsShared, VolumeBudgetHolds
<1> QED BY <1>1, DayInvariant, PTL

\* Parent, lot, settled debits and cash tell one story of the tail window, after
\* any mixture of exits, chases, slices and clipped children.
THEOREM SlicesAlwaysAgree == Spec => []SlicesAgree
<1>1. DayInv => SlicesAgree
  BY DEF DayInv, TailInv
<1> QED BY <1>1, DayInvariant, PTL

\* No lot is sold in two orders of a day, and with the tail window on the list
\* only adds to names held ever since the window opened: it buys no name the
\* window took, and none that was cleared after the window opened.
THEOREM NamesAlwaysTradeOnce == Spec => []NamesTradeOnce
<1>1. DayInv => NamesTradeOnce
  BY DEF DayInv, SoldInv, WindowInv, NamesTradeOnce
<1> QED BY <1>1, DayInvariant, PTL

\* Without the cap, a queued exit waits for the first bar that opens above its
\* lower limit and leaves there in full; nothing else is sold at an open.
THEOREM QueuedExitsAlwaysFill == ASSUME ~Capped PROVE Spec => QueuedExitsFill
<1>1. DayInv /\ [Next]_vars
        => DayInv' /\ [SoldWhatWasQueued /\ QueueWaitsForAnOpen]_vars
  BY NextPreservesDay DEF QueueStep
<1> QED BY <1>1, InitEstablishesDay, PTL DEF Spec, QueuedExitsFill
=============================================================================
