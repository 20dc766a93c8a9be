----------------------------- MODULE DailyProofs -----------------------------
(***************************************************************************)
(* The daily book, for every market, calendar, list and profile.           *)
(*                                                                         *)
(* Three invariants over the types: what the rules allow and the age of    *)
(* latches (LegalFits), the chases against the pass that judges them       *)
(* (ChaseFits), and the rows of the day against the budgets (QuotaFits).   *)
(***************************************************************************)
EXTENDS DailyBook, TotalsProofs

Names(s) == {s[n] : n \in DOMAIN s}

\* No pass visits a code twice.
Once(s) == \A n, m \in DOMAIN s : s[n] = s[m] => n = m

\* The codes the running pass has still to visit.
Ahead == Names(todo)

RowReasons == ExitReasons \cup {"pool", "chase:T+1"}

Row ==
  [side : {"BUY", "SELL"}, code : Codes, px : Nat, lots : Nat \ {0}, lot : Nat, why : RowReasons]

ClockTypeOK ==
  /\ book \in Profiles /\ day \in Days
  /\ phase \in {"begin", "scan", "chase", "pool", "done"}
  /\ todo \in Seq(Codes) /\ quotes \in [Codes -> Quote] /\ gateOpen \in BOOLEAN

HoldingsTypeOK ==
  /\ cash \in Int /\ per \in Int
  /\ positions \in [Codes -> SUBSET Lot] /\ \A c \in Codes : IsFiniteSet(positions[c])
  /\ trades \subseteq Row /\ IsFiniteSet(trades)

SignalsTypeOK ==
  /\ DOMAIN pending \subseteq Codes /\ pending \in [DOMAIN pending -> Entry]
  /\ stats \in [Counters -> Nat]
  /\ DOMAIN fate \subseteq Codes \X Days

DailyTypeOK == ClockTypeOK /\ HoldingsTypeOK /\ SignalsTypeOK

-----------------------------------------------------------------------------
(* Passes.                                                                 *)

\* A pass visits the head and then the rest.
LEMMA TailFacts ==
  ASSUME NEW s \in Seq(Codes), s # <<>>
  PROVE  /\ Head(s) \in Codes /\ Tail(s) \in Seq(Codes)
         /\ Len(s) \in Nat /\ Len(Tail(s)) = Len(s) - 1
         /\ Names(s) = {Head(s)} \cup Names(Tail(s))
         /\ Once(s) => Once(Tail(s)) /\ Head(s) \notin Names(Tail(s))
<1>1. /\ Head(s) \in Codes /\ Tail(s) \in Seq(Codes) /\ Head(s) = s[1]
      /\ Len(s) \in Nat \ {0} /\ Len(Tail(s)) = Len(s) - 1
      /\ DOMAIN s = 1 .. Len(s) /\ DOMAIN Tail(s) = 1 .. Len(s) - 1
      /\ \A n \in 1 .. Len(s) - 1 : Tail(s)[n] = s[n + 1]
  OBVIOUS
<1>2. \A n \in 1 .. Len(s) : n = 1 \/ (n - 1 \in 1 .. Len(s) - 1 /\ s[n] = Tail(s)[n - 1])
  BY <1>1
<1>3. Names(s) = {Head(s)} \cup Names(Tail(s))
  <2>1. ASSUME NEW x \in Names(s) PROVE x \in {Head(s)} \cup Names(Tail(s))
    <3>1. PICK n \in 1 .. Len(s) : x = s[n]
      BY <1>1, <2>1 DEF Names
    <3>2. n = 1 \/ (n - 1 \in DOMAIN Tail(s) /\ x = Tail(s)[n - 1])
      BY <1>1, <1>2, <3>1
    <3> QED BY <1>1, <3>1, <3>2 DEF Names
  <2>2. ASSUME NEW x \in {Head(s)} \cup Names(Tail(s)) PROVE x \in Names(s)
    <3>1. CASE x = Head(s)
      BY <1>1, <3>1 DEF Names
    <3>2. CASE x \in Names(Tail(s))
      <4>1. PICK n \in 1 .. Len(s) - 1 : x = s[n + 1]
        BY <1>1, <3>2 DEF Names
      <4>2. n + 1 \in DOMAIN s
        BY <1>1, <4>1
      <4> QED BY <4>1, <4>2 DEF Names
    <3> QED BY <2>2, <3>1, <3>2
  <2> QED BY <2>1, <2>2
<1>4. ASSUME Once(s) PROVE Once(Tail(s)) /\ Head(s) \notin Names(Tail(s))
  <2>1. ASSUME NEW n \in 1 .. Len(s) - 1, NEW m \in 1 .. Len(s) - 1, Tail(s)[n] = Tail(s)[m]
        PROVE  n = m
    <3>1. n + 1 \in DOMAIN s /\ m + 1 \in DOMAIN s /\ s[n + 1] = s[m + 1]
      BY <1>1, <2>1
    <3>2. n + 1 = m + 1
      BY <1>4, <3>1 DEF Once
    <3> QED BY <3>2
  <2>2. ASSUME NEW n \in 1 .. Len(s) - 1, Tail(s)[n] = s[1] PROVE FALSE
    <3>1. n + 1 \in DOMAIN s /\ 1 \in DOMAIN s /\ s[n + 1] = s[1]
      BY <1>1, <2>2
    <3>2. n + 1 = 1
      BY <1>4, <3>1 DEF Once
    <3> QED BY <3>2
  <2> QED BY <1>1, <2>1, <2>2 DEF Once, Names
<1> QED BY <1>1, <1>3, <1>4

\* A set of codes by their places.
LEMMA InOrderFacts ==
  ASSUME NEW S, S \subseteq Codes, NEW place, \A c \in S : place[c] \in Nat,
         NEW s \in InOrder(S, place)
  PROVE  s \in Seq(Codes) /\ Names(s) = S /\ Once(s)
<1>1. IsFiniteSet(S) /\ Cardinality(S) \in Nat
  BY FS_Subset, FS_CardinalityType, BookAssumption DEF ValidBook
<1>2. PICK k \in Nat : k = Cardinality(S)
  BY <1>1
<1>3. /\ s \in [1 .. k -> S] /\ {s[n] : n \in DOMAIN s} = S
      /\ \A n, m \in DOMAIN s : n < m => place[s[n]] < place[s[m]]
  BY <1>2 DEF InOrder
<1>4. s \in Seq(Codes)
  BY <1>3
<1>5. ASSUME NEW n \in DOMAIN s, NEW m \in DOMAIN s, s[n] = s[m] PROVE n = m
  <2>1. s[n] \in S /\ place[s[n]] \in Nat /\ n \in Nat /\ m \in Nat
    BY <1>3
  <2>2. ~(place[s[n]] < place[s[n]])
    BY <2>1
  <2>3. ~(n < m) /\ ~(m < n)
    BY <1>3, <1>5, <2>2
  <2> QED BY <2>1, <2>3
<1> QED BY <1>3, <1>4, <1>5 DEF Names, Once

\* The pass of the held codes, of the due chases and of the list.
LEMMA PassFacts ==
  ASSUME DailyTypeOK
  PROVE  /\ \A s \in HeldCodes : s \in Seq(Codes) /\ Once(s)
         /\ \A s \in DueCodes :
              s \in Seq(Codes) /\ Names(s) = {c \in DOMAIN pending : day > pending[c].sig} /\ Once(s)
         /\ Planned \in Seq(Codes) /\ Once(Planned)
<1>1. ASSUME NEW s \in HeldCodes PROVE s \in Seq(Codes) /\ Once(s)
  <2> DEFINE S == {c \in Codes : Held(c)}
  <2>1. S \subseteq Codes /\ \A c \in S : Rank[c] \in Nat
    BY BookAssumption DEF ValidBook
  <2>2. s \in InOrder(S, Rank)
    BY <1>1 DEF HeldCodes
  <2> HIDE DEF S
  <2> QED BY <2>1, <2>2, InOrderFacts
<1>2. ASSUME NEW s \in DueCodes
      PROVE  s \in Seq(Codes) /\ Names(s) = {c \in DOMAIN pending : day > pending[c].sig} /\ Once(s)
  <2> DEFINE S == {c \in DOMAIN pending : day > pending[c].sig}
             place == [c \in DOMAIN pending |-> pending[c].at]
  <2>1. S \subseteq Codes /\ \A c \in S : place[c] \in Nat
    BY DEF DailyTypeOK, SignalsTypeOK, Entry
  <2>2. s \in InOrder(S, place)
    BY <1>2 DEF DueCodes
  <2>3. S = {c \in DOMAIN pending : day > pending[c].sig}
    OBVIOUS
  <2> HIDE DEF S, place
  <2> QED BY <2>1, <2>2, <2>3, InOrderFacts
<1>3. Planned \in Seq(Codes) /\ Once(Planned)
  BY BookAssumption DEF DailyTypeOK, ClockTypeOK, ValidBook, Planned, Once
<1> QED BY <1>1, <1>2, <1>3
-----------------------------------------------------------------------------
(* Verdicts.                                                               *)

Ruling == [sold : BOOLEAN, px : Nat, why : ExitReasons \cup {NoReason}, lot : Lot]

\* What holds of every verdict v on the lot l: it speaks of that lot, sells above the
\* lower limit but for the stop at the close, sells or latches only what T+1 lets go,
\* and obeys a latch that is there.
RuledBy(v, l, q) ==
  /\ v \in Ruling
  /\ v.lot.id = l.id /\ v.lot.lots = l.lots /\ v.lot.entry = l.entry
  /\ v.sold => v.why \in ExitReasons /\ (v.px > q.down \/ v.why = "stop_loss:close")
  /\ ~v.sold => v.lot.pending = l.pending \/ l.entry < day
  /\ l.entry < day /\ l.pending # NoReason =>
       IF AtDown(q.open, q) THEN ~v.sold /\ v.lot = l
       ELSE v.sold /\ v.px = q.open /\ v.why = l.pending

\* The fields of a lot and of a quote.
LEMMA FieldTypes ==
  ASSUME DailyTypeOK, NEW l \in Lot, NEW q \in Quote
  PROVE  /\ l.id \in Nat /\ l.lots \in Nat \ {0} /\ l.cost \in Nat /\ l.entry \in Nat
         /\ l.pending \in ExitReasons \cup {NoReason} /\ l.reserved \in BOOLEAN /\ day \in Nat
         /\ q.open \in Nat /\ q.low \in Nat /\ q.close \in Nat /\ q.up \in Nat /\ q.down \in Nat
         /\ book.stop_gap \in Nat /\ book.close_reasons \subseteq ExitReasons
         /\ book.total_cash \in Nat /\ book.daily_quota \in Nat
<1>1. book \in Profile
  BY BookAssumption DEF ValidBook, DailyTypeOK, ClockTypeOK
<1>2. book.close_reasons \subseteq ExitReasons
  BY <1>1 DEF Profile, ExitReasons
<1> QED BY <1>1, <1>2 DEF Lot, Quote, Profile, Days, DailyTypeOK, ClockTypeOK

\* A lot that is another lot as far as what is left of it goes.
Same(k, l) == k \in Lot /\ k.id = l.id /\ k.lots = l.lots /\ k.entry = l.entry

\* A lot may be kept.
LEMMA KeepsFits ==
  ASSUME NEW l \in Lot, NEW k, Same(k, l), NEW q \in Quote,
         k.pending = l.pending \/ l.entry < day,
         l.entry < day /\ l.pending # NoReason => AtDown(q.open, q) /\ k = l
  PROVE  RuledBy(Keeps(k), l, q)
<1>1. PICK v : v = Keeps(k)
  OBVIOUS
<1>2. v.sold = FALSE /\ v.px = 0 /\ v.why = NoReason /\ v.lot = k
  BY <1>1 DEF Keeps
<1>3. v \in Ruling
  <2>1. 0 \in Nat /\ NoReason \in ExitReasons \cup {NoReason} /\ FALSE \in BOOLEAN /\ k \in Lot
    BY DEF Same
  <2> QED BY <1>1, <2>1 DEF Keeps, Ruling
<1>4. RuledBy(v, l, q)
  BY <1>2, <1>3 DEF RuledBy, Same
<1> QED BY <1>1, <1>4

\* A lot may be latched once T+1 lets it go.
LEMMA LatchesFits ==
  ASSUME NEW l \in Lot, NEW k, Same(k, l), NEW q \in Quote, NEW why \in ExitReasons \cup {NoReason},
         l.entry < day, l.pending = NoReason
  PROVE  RuledBy(Latches(k, why), l, q)
<1>1. PICK m : m = [k EXCEPT !.pending = why]
  OBVIOUS
<1>2. Same(m, l)
  BY <1>1 DEF Same, Lot
<1>3. RuledBy(Keeps(m), l, q)
  BY <1>2, KeepsFits
<1> QED BY <1>1, <1>3 DEF Latches

\* A lot without a latch may be sold above the limit, or by the stop at the close.
LEMMA SellsFits ==
  ASSUME NEW l \in Lot, NEW k, Same(k, l), NEW q \in Quote, NEW why \in ExitReasons, NEW px \in Nat,
         px > q.down \/ why = "stop_loss:close", l.pending = NoReason
  PROVE  RuledBy(Sells(k, px, why), l, q)
<1>1. PICK v : v = Sells(k, px, why)
  OBVIOUS
<1>2. v.sold = TRUE /\ v.px = px /\ v.why = why /\ v.lot = k
  BY <1>1 DEF Sells
<1>3. v \in Ruling
  BY <1>1 DEF Sells, Ruling, Same
<1>4. RuledBy(v, l, q)
  BY <1>2, <1>3 DEF RuledBy, Same
<1> QED BY <1>1, <1>4

\* The rule's reasons, without the latch.
LEMMA RuleExitFits ==
  ASSUME DailyTypeOK, NEW l \in Lot, NEW k, Same(k, l), NEW q \in Quote, NEW why \in ExitReasons \cup {NoReason},
         l.entry < day, l.pending = NoReason, k.pending = NoReason
  PROVE  RuledBy(RuleExit(k, q, why), l, q)
<1>1. q.close \in Nat /\ q.down \in Nat
  BY FieldTypes
<1>2. RuledBy(Keeps(k), l, q)
  BY KeepsFits
<1>3. RuledBy(Latches(k, why), l, q)
  BY LatchesFits
<1>4. ASSUME ~AtDown(q.close, q), why # NoReason PROVE RuledBy(Sells(k, q.close, why), l, q)
  <2>1. PICK px \in Nat : px = q.close /\ px > q.down
    BY <1>1, <1>4 DEF AtDown
  <2>2. PICK r \in ExitReasons : r = why
    BY <1>4
  <2>3. RuledBy(Sells(k, px, r), l, q)
    BY <2>1, SellsFits
  <2> QED BY <2>1, <2>2, <2>3
<1> QED BY <1>2, <1>3, <1>4 DEF RuleExit

\* So every verdict obeys the rules.
LEMMA VerdictFits ==
  ASSUME DailyTypeOK, NEW l \in Lot, NEW q \in Quote, NEW why \in ExitReasons \cup {NoReason}
  PROVE  RuledBy(Verdict(l, q, why), l, q)
<1>1. /\ q.close \in Nat /\ q.open \in Nat /\ q.down \in Nat /\ l.pending \in ExitReasons \cup {NoReason}
      /\ Trigger(l) \in Int /\ l.entry \in Nat /\ day \in Nat
  BY FieldTypes DEF Trigger
<1>2. /\ Same(l, l)
      /\ {"stop_loss:close", "stop_loss:gap_open", "stop_loss:touch", "open_board"}
           \subseteq ExitReasons
  BY DEF Same, ExitReasons
<1>3. CASE ~Sellable(l)
  <2>1. ~(l.entry < day)
    BY <1>3 DEF Sellable
  <2>2. RuledBy(Keeps(l), l, q)
    BY <1>2, <2>1, KeepsFits
  <2> QED BY <1>3, <2>2 DEF Verdict
<1>4. CASE Sellable(l) /\ l.pending # NoReason
  <2>1. CASE AtDown(q.open, q)
    <3>1. RuledBy(Keeps(l), l, q)
      BY <1>2, <2>1, KeepsFits
    <3> QED BY <1>4, <2>1, <3>1 DEF Verdict, LatchedExit
  <2>2. CASE ~AtDown(q.open, q)
    <3>1. PICK px \in Nat, r \in ExitReasons : px = q.open /\ px > q.down /\ r = l.pending
      BY <1>1, <1>4, <2>2 DEF AtDown
    <3>2. PICK v : v = Sells(l, px, r)
      OBVIOUS
    <3>3. v.sold = TRUE /\ v.px = px /\ v.why = r /\ v.lot = l /\ v \in Ruling
      BY <3>2 DEF Sells, Ruling
    <3>4. RuledBy(v, l, q)
      BY <2>2, <3>1, <3>3 DEF RuledBy
    <3> QED BY <1>4, <2>2, <3>1, <3>2, <3>4 DEF Verdict, LatchedExit
  <2> QED BY <2>1, <2>2
<1>5. CASE Sellable(l) /\ l.pending = NoReason
  <2>1. l.entry < day
    BY <1>5 DEF Sellable
  <2>2. RuledBy(Keeps(l), l, q)
    BY <1>2, <1>5, KeepsFits
  <2>3. RuledBy(StopExit(l, q), l, q)
    <3>1. RuledBy(Sells(l, q.close, "stop_loss:close"), l, q)
      BY <1>1, <1>2, <1>5, SellsFits
    <3>2. ASSUME ~AtDown(q.open, q) PROVE RuledBy(Sells(l, q.open, "stop_loss:gap_open"), l, q)
      <4>1. PICK px \in Nat : px = q.open /\ px > q.down
        BY <1>1, <3>2 DEF AtDown
      <4>2. RuledBy(Sells(l, px, "stop_loss:gap_open"), l, q)
        BY <1>2, <1>5, <4>1, SellsFits
      <4> QED BY <4>1, <4>2
    <3>3. ASSUME ~AtDown(Trigger(l), q)
          PROVE  RuledBy(Sells(l, Trigger(l), "stop_loss:touch"), l, q)
      <4>1. PICK px \in Nat : px = Trigger(l) /\ px > q.down
        BY <1>1, <3>3 DEF AtDown
      <4>2. RuledBy(Sells(l, px, "stop_loss:touch"), l, q)
        BY <1>2, <1>5, <4>1, SellsFits
      <4> QED BY <4>1, <4>2
    <3>4. RuledBy(Latches(l, "stop_loss:touch"), l, q)
      BY <1>2, <1>5, <2>1, LatchesFits
    <3> QED BY <2>2, <3>1, <3>2, <3>3, <3>4 DEF StopExit
  <2>4. RuledBy(RuleExit(l, q, why), l, q)
    BY <1>2, <1>5, <2>1, RuleExitFits
  <2>5. RuledBy(ReservedExit(l, q), l, q)
    <3>1. PICK k, m : k = [l EXCEPT !.reserved = FALSE] /\ m = [l EXCEPT !.reserved = TRUE]
      OBVIOUS
    <3>2. Same(k, l) /\ k.pending = NoReason /\ Same(m, l) /\ m.pending = NoReason
      BY <1>5, <3>1 DEF Same, Lot
    <3>3. RuledBy(Keeps(m), l, q)
      BY <1>5, <3>2, KeepsFits
    <3>4. RuledBy(RuleExit(k, q, "open_board"), l, q)
      BY <1>2, <1>5, <2>1, <3>2, RuleExitFits
    <3> QED BY <3>1, <3>3, <3>4 DEF ReservedExit
  <2> QED BY <1>5, <2>2, <2>3, <2>4, <2>5 DEF Verdict
<1> QED BY <1>3, <1>4, <1>5
-----------------------------------------------------------------------------
(* What a scan and a purchase do.                                          *)

\* A product of amounts is an amount, and it grows with its factors.
LEMMA ProductType ==
  ASSUME NEW a \in Nat, NEW b \in Nat
  PROVE  a * b \in Nat
OBVIOUS

\* Likewise.
LEMMA ProductGrows ==
  ASSUME NEW a \in Nat, NEW b \in Nat, NEW c \in Nat, a <= b
  PROVE  a * c <= b * c
OBVIOUS

\* Money is an amount.
LEMMA MoneyType ==
  ASSUME NEW lots \in Nat, NEW px \in Nat
  PROVE  Notional(lots, px) \in Nat /\ Fee(lots, px) \in Nat /\ Debit(lots, px) \in Nat
<1>1. LotUnit \in Nat /\ FeeRate \in Nat /\ MinFee \in Nat
  BY BookAssumption DEF ValidBook
<1>2. PICK x \in Nat : x = lots * px
  BY ProductType
<1>3. PICK y \in Nat, z \in Nat : y = x * LotUnit /\ z = x * FeeRate
  BY <1>1, ProductType
<1>4. Notional(lots, px) = y /\ Fee(lots, px) = Larger(z, MinFee)
  BY <1>2, <1>3 DEF Notional, Fee
<1>5. Larger(z, MinFee) \in Nat
  BY <1>1, <1>3 DEF Larger
<1> QED BY <1>3, <1>4, <1>5 DEF Debit

\* The proceeds of finitely many sales are money.
LEMMA ProceedsType ==
  ASSUME NEW sold, IsFiniteSet(sold), sold \subseteq Ruling
  PROVE  Proceeds(sold) \in Int
<1> DEFINE f == [v \in sold |-> Notional(v.lot.lots, v.px)]
           g == [v \in sold |-> Fee(v.lot.lots, v.px)]
<1>1. ASSUME NEW v \in sold
      PROVE  Notional(v.lot.lots, v.px) \in Nat /\ Fee(v.lot.lots, v.px) \in Nat
  <2>1. PICK lots \in Nat, px \in Nat : lots = v.lot.lots /\ px = v.px
    BY DEF Ruling, Lot
  <2>2. Notional(lots, px) \in Nat /\ Fee(lots, px) \in Nat
    BY MoneyType
  <2> QED BY <2>1, <2>2
<1>2. f \in [sold -> Nat] /\ g \in [sold -> Nat]
  BY <1>1
<1>3. Proceeds(sold) = Total(f) - Total(g)
  BY DEF Proceeds
<1> HIDE DEF f, g
<1>4. Total(f) \in Nat /\ Total(g) \in Nat
  BY <1>2, TotalType
<1> QED BY <1>3, <1>4

\* What a function makes of finitely many things.
LEMMA ImageFinite ==
  ASSUME NEW D, IsFiniteSet(D), NEW g, g = [x \in D |-> g[x]], NEW R, R = {g[x] : x \in D}
  PROVE  IsFiniteSet(R)
<1>1. g \in [D -> R]
  <2>1. \A x \in D : g[x] \in R
    OBVIOUS
  <2> QED BY <2>1
<1>2. \A y \in R : \E x \in D : g[x] = y
  OBVIOUS
<1>3. g \in Surjection(D, R)
  BY Zenon, <1>1, <1>2 DEF Surjection
<1> QED BY <1>3, FS_Surjection

\* What became of the lot l of the code c.
SoldOrKept(c, l) ==
  \E v : /\ RuledBy(v, l, quotes[c])
         /\ IF v.sold THEN SellRow(c, v) \in trades' ELSE v.lot \in positions'[c]

\* Where the lot m of the code c comes from.
KeptFrom(c, m) ==
  \E l \in positions[c] : \E v : RuledBy(v, l, quotes[c]) /\ ~v.sold /\ m = v.lot

\* A row that a scan added.
ScanRow(c, t) ==
  /\ t \in Row /\ t.side = "SELL" /\ t.code = c
  /\ t.px > quotes[c].down \/ t.why = "stop_loss:close"

\* What the scan of one code does to holdings and rows.
Scanned(c) ==
  /\ cash' \in Int
  /\ positions' \in [Codes -> SUBSET Lot] /\ IsFiniteSet(positions'[c])
  /\ \A k \in Codes \ {c} : positions'[k] = positions[k]
  /\ \A l \in positions[c] : SoldOrKept(c, l)
  /\ \A m \in positions'[c] : KeptFrom(c, m)
  /\ (\A l, k \in positions[c] : l = k) => \A l, k \in positions'[c] : l = k
  /\ trades \subseteq trades' /\ IsFiniteSet(trades') /\ \A t \in trades' \ trades : ScanRow(c, t)

\* The row of a sale.
LEMMA SellRowFits ==
  ASSUME DailyTypeOK, NEW c \in Codes, NEW l \in Lot, NEW v, RuledBy(v, l, quotes[c]), v.sold
  PROVE  ScanRow(c, SellRow(c, v))
<1>1. PICK t : t = SellRow(c, v)
  OBVIOUS
<1>2. /\ t.side = "SELL" /\ t.code = c /\ t.px = v.px /\ t.lots = v.lot.lots
      /\ t.lot = v.lot.id /\ t.why = v.why
  BY <1>1 DEF SellRow
<1>3. v.px \in Nat /\ v.lot.lots \in Nat \ {0} /\ v.lot.id \in Nat /\ v.why \in RowReasons
  BY DEF RuledBy, Ruling, Lot, RowReasons
<1>4. t \in Row
  BY <1>1, <1>3 DEF SellRow, Row
<1>5. t.px > quotes[c].down \/ t.why = "stop_loss:close"
  BY <1>2 DEF RuledBy
<1> QED BY <1>1, <1>2, <1>4, <1>5 DEF ScanRow
\* The scan of a code with a bar.
LEMMA SettleScans ==
  ASSUME DailyTypeOK, NEW c \in Codes, NEW why \in [positions[c] -> book.close_reasons \cup {NoReason}],
         Settle(c, {Verdict(l, quotes[c], why[l]) : l \in positions[c]})
  PROVE  Scanned(c)
<1>1. /\ quotes[c] \in Quote /\ positions[c] \subseteq Lot /\ IsFiniteSet(positions[c])
      /\ cash \in Int /\ trades \subseteq Row /\ IsFiniteSet(trades)
      /\ positions \in [Codes -> SUBSET Lot]
  BY DEF DailyTypeOK, ClockTypeOK, HoldingsTypeOK
<1>2. ASSUME NEW l \in positions[c]
      PROVE  l \in Lot /\ RuledBy(Verdict(l, quotes[c], why[l]), l, quotes[c])
  <2>1. l \in Lot /\ why[l] \in ExitReasons \cup {NoReason}
    BY <1>1, FieldTypes
  <2>2. PICK r \in ExitReasons \cup {NoReason} : r = why[l]
    BY <2>1
  <2> QED BY <1>1, <2>1, <2>2, VerdictFits
<1> DEFINE verdict == [l \in positions[c] |-> Verdict(l, quotes[c], why[l])]
<1>3. PICK verdicts : verdicts = {verdict[l] : l \in positions[c]}
  OBVIOUS
<1>4. verdicts = {Verdict(l, quotes[c], why[l]) : l \in positions[c]}
  BY <1>3
<1>5. PICK sold : /\ sold = {v \in verdicts : v.sold}
                  /\ cash' = cash + Proceeds(sold)
                  /\ positions' = [positions EXCEPT ![c] = {v.lot : v \in verdicts \ sold}]
                  /\ trades' = trades \cup {SellRow(c, v) : v \in sold}
  BY <1>4 DEF Settle
<1>6. \A v \in verdicts : \E l \in positions[c] : v = verdict[l] /\ l \in Lot /\ RuledBy(v, l, quotes[c])
  BY <1>2, <1>3
<1>7. \A l \in positions[c] : verdict[l] \in verdicts /\ RuledBy(verdict[l], l, quotes[c])
  BY <1>2, <1>3
<1> HIDE DEF verdict
<1>8. IsFiniteSet(verdicts) /\ verdicts \subseteq Ruling
  <2>1. PICK g : g = verdict
    OBVIOUS
  <2>2. g = [l \in positions[c] |-> g[l]]
    BY <2>1 DEF verdict
  <2>3. IsFiniteSet(verdicts)
    BY <1>1, <1>3, <2>1, <2>2, ImageFinite
  <2> QED BY <1>6, <2>3 DEF RuledBy
<1>9. IsFiniteSet(sold) /\ sold \subseteq Ruling /\ sold \subseteq verdicts
  BY <1>5, <1>8, FS_Subset
<1>10. cash' \in Int
  BY <1>1, <1>5, <1>9, ProceedsType
<1>11. PICK kept : kept = {v.lot : v \in verdicts \ sold}
  OBVIOUS
<1>12. kept \subseteq Lot /\ IsFiniteSet(kept)
  <2>1. IsFiniteSet(verdicts \ sold)
    BY <1>8, FS_Subset
  <2>2. PICK D, g : D = verdicts \ sold /\ g = [v \in D |-> v.lot]
    OBVIOUS
  <2>3. g = [v \in D |-> g[v]] /\ kept = {g[v] : v \in D}
    BY <1>11, <2>2
  <2>4. IsFiniteSet(kept)
    BY <2>1, <2>2, <2>3, ImageFinite
  <2> QED BY <1>8, <1>11, <2>4 DEF Ruling
<1>13. positions' = [positions EXCEPT ![c] = kept]
  BY <1>5, <1>11
<1>14. positions' \in [Codes -> SUBSET Lot] /\ positions'[c] = kept
       /\ \A k \in Codes \ {c} : positions'[k] = positions[k]
  BY <1>1, <1>12, <1>13
<1>15. ASSUME NEW m \in positions'[c] PROVE KeptFrom(c, m)
  <2>1. PICK v \in verdicts : ~v.sold /\ m = v.lot
    BY <1>5, <1>11, <1>14
  <2> QED BY <1>6, <2>1 DEF KeptFrom
<1>16. ASSUME NEW l \in positions[c] PROVE SoldOrKept(c, l)
  <2>1. PICK v \in verdicts : v = verdict[l] /\ RuledBy(v, l, quotes[c])
    BY <1>7
  <2>2. CASE v.sold
    <3>1. SellRow(c, v) \in trades'
      BY <1>5, <2>1, <2>2
    <3> QED BY <2>1, <2>2, <3>1 DEF SoldOrKept
  <2>3. CASE ~v.sold
    <3>1. v.lot \in positions'[c]
      BY <1>5, <1>11, <1>14, <2>1, <2>3
    <3> QED BY <2>1, <2>3, <3>1 DEF SoldOrKept
  <2> QED BY <2>2, <2>3
<1>17. ASSUME NEW t \in trades' \ trades PROVE ScanRow(c, t)
  <2>1. PICK v \in sold : t = SellRow(c, v)
    BY <1>5, <1>17
  <2>2. PICK l \in positions[c] : l \in Lot /\ RuledBy(v, l, quotes[c])
    BY <1>6, <1>9, <2>1
  <2>3. v.sold
    BY <1>5, <2>1
  <2> QED BY <2>1, <2>2, <2>3, SellRowFits
<1>18. trades \subseteq trades' /\ IsFiniteSet(trades')
  <2>1. PICK rows : rows = {SellRow(c, v) : v \in sold}
    OBVIOUS
  <2>2. PICK g : g = [v \in sold |-> SellRow(c, v)]
    OBVIOUS
  <2>3. g = [v \in sold |-> g[v]] /\ rows = {g[v] : v \in sold}
    BY <2>1, <2>2
  <2>4. IsFiniteSet(rows)
    BY <1>9, <2>3, ImageFinite
  <2> QED BY <1>1, <1>5, <2>1, <2>4, FS_Union
<1>19. ASSUME \A l, k \in positions[c] : l = k, NEW m \in positions'[c], NEW n \in positions'[c]
       PROVE  m = n
  <2>1. PICK v \in verdicts, w \in verdicts : m = v.lot /\ n = w.lot
    BY <1>11, <1>14
  <2>2. PICK l \in positions[c], k \in positions[c] : v = verdict[l] /\ w = verdict[k]
    BY <1>6
  <2>3. l = k
    BY <1>19
  <2> QED BY <2>1, <2>2, <2>3
<1> QED BY <1>10, <1>12, <1>14, <1>15, <1>16, <1>17, <1>18, <1>19 DEF Scanned
-----------------------------------------------------------------------------
(* Purchases.                                                              *)

\* A larger purchase costs no less.
LEMMA DebitGrows ==
  ASSUME NEW a \in Nat, NEW b \in Nat, NEW px \in Nat, a <= b
  PROVE  Debit(a, px) <= Debit(b, px)
<1>1. LotUnit \in Nat /\ FeeRate \in Nat /\ MinFee \in Nat
  BY BookAssumption DEF ValidBook
<1>2. PICK x \in Nat, y \in Nat : x = a * px /\ y = b * px
  BY ProductType
<1>3. x <= y
  BY <1>2, ProductGrows
<1>4. PICK x1 \in Nat, y1 \in Nat, x2 \in Nat, y2 \in Nat :
        x1 = x * LotUnit /\ y1 = y * LotUnit /\ x2 = x * FeeRate /\ y2 = y * FeeRate
  BY <1>1, ProductType
<1>5. x1 <= y1 /\ x2 <= y2
  BY <1>1, <1>3, <1>4, ProductGrows
<1>6. Debit(a, px) = x1 + Larger(x2, MinFee) /\ Debit(b, px) = y1 + Larger(y2, MinFee)
  BY <1>2, <1>4 DEF Debit, Notional, Fee
<1>7. Larger(x2, MinFee) <= Larger(y2, MinFee) /\ Larger(x2, MinFee) \in Nat /\ Larger(y2, MinFee) \in Nat
  BY <1>1, <1>4, <1>5 DEF Larger
<1> QED BY <1>4, <1>5, <1>6, <1>7

\* So the number of the payable sizes is itself a payable size.
LEMMA PayableFacts ==
  ASSUME NEW px \in Nat, NEW w \in Nat, NEW most \in Int, NEW payable,
         payable = {k \in 1 .. w : Debit(k, px) <= most}
  PROVE  /\ Cardinality(payable) \in Nat
         /\ Cardinality(payable) # 0 => Debit(Cardinality(payable), px) <= most
<1>1. IsFiniteSet(1 .. w)
  BY FS_Interval
<1>2. IsFiniteSet(payable) /\ Cardinality(payable) \in Nat
  BY <1>1, FS_Subset, FS_CardinalityType
<1>3. CASE payable = {}
  BY <1>3, FS_EmptySet
<1>4. CASE payable # {}
  <2>1. payable \subseteq Nat
    OBVIOUS
  <2>2. PICK k \in payable : \A n \in payable : n <= k
    BY <1>2, <1>4, <2>1, LargestExists
  <2>3. k \in 1 .. w /\ k \in Nat \ {0} /\ Debit(k, px) <= most /\ Debit(k, px) \in Nat
    BY <2>2, MoneyType
  <2>4. ASSUME NEW n \in 1 .. k PROVE n \in payable
    <3>1. n \in Nat /\ n <= k /\ n \in 1 .. w
      BY <2>3
    <3>2. Debit(n, px) <= Debit(k, px) /\ Debit(n, px) \in Nat
      BY <2>3, <3>1, DebitGrows, MoneyType
    <3> QED BY <2>3, <3>1, <3>2
  <2>5. payable = 1 .. k
    BY <2>1, <2>2, <2>3, <2>4
  <2>6. Cardinality(1 .. k) = k
    BY <2>3, FS_Interval
  <2> QED BY <2>3, <2>5, <2>6
<1> QED BY <1>2, <1>3, <1>4

\* What a declaration that execute_buy takes comes to.
LEMMA DeclaredFacts ==
  ASSUME DailyTypeOK, NEW q \in Quote, NEW budget \in Int, ~BuyFails(q, budget),
         NEW lots, lots = Declared(budget, q.close)
  PROVE  /\ lots \in Nat \ {0} /\ budget > 0
         /\ Debit(lots, q.close) \in Nat /\ Debit(lots, q.close) <= cash
         /\ book.industry => Debit(lots, q.close) <= budget
<1>1. PICK px \in Nat : px = q.close
  BY DEF Quote
<1>2. lots # 0 /\ ~(Debit(lots, px) > cash) /\ cash \in Int
  BY <1>1 DEF BuyFails, DailyTypeOK, HoldingsTypeOK
<1>3. px # 0 /\ budget > 0
  BY <1>1, <1>2 DEF Declared
<1>4. PICK unit \in Nat \ {0} : unit = px * LotUnit
  <2>1. LotUnit \in Nat \ {0} /\ px \in Nat \ {0}
    BY <1>3, BookAssumption DEF ValidBook
  <2>2. px * LotUnit \in Nat \ {0}
    BY <2>1
  <2> QED BY <2>2
<1>5. PICK wanted \in Nat : wanted = budget \div unit
  <2>1. budget \div unit \in Nat
    BY <1>3, <1>4
  <2> QED BY <2>1
<1>6. PICK most \in Int : most = Smaller(budget, cash) /\ most <= budget
  BY <1>2 DEF Smaller
<1>7. PICK payable : payable = {k \in 1 .. wanted : Debit(k, px) <= most}
  OBVIOUS
<1>8. lots = IF book.industry THEN Cardinality(payable) ELSE Larger(wanted, 1)
  BY <1>1, <1>3, <1>4, <1>5, <1>6, <1>7 DEF Declared
<1>9. /\ Cardinality(payable) \in Nat
      /\ Cardinality(payable) # 0 => Debit(Cardinality(payable), px) <= most
  BY <1>7, PayableFacts
<1>10. Larger(wanted, 1) \in Nat
  BY DEF Larger
<1>11. lots \in Nat \ {0}
  BY <1>2, <1>8, <1>9, <1>10
<1>12. Debit(lots, px) \in Nat
  BY <1>11, MoneyType
<1>13. book.industry => Debit(lots, px) <= most
  BY <1>2, <1>8, <1>9
<1> QED BY <1>1, <1>2, <1>3, <1>6, <1>11, <1>12, <1>13

\* No lot of the name has the next number yet.
LEMMA NextLotFacts ==
  ASSUME DailyTypeOK, NEW c \in Codes
  PROVE  NextLotId(c) \in Nat /\ \A l \in positions[c] : l.id # NextLotId(c)
<1>1. positions[c] \subseteq Lot /\ IsFiniteSet(positions[c])
  BY DEF DailyTypeOK, HoldingsTypeOK
<1>2. CASE positions[c] = {}
  BY <1>2 DEF NextLotId, Held
<1>3. CASE positions[c] # {}
  <2>1. PICK S, g : S = {l.id : l \in positions[c]} /\ g = [l \in positions[c] |-> l.id]
    OBVIOUS
  <2>2. S = {g[l] : l \in positions[c]} /\ g = [l \in positions[c] |-> g[l]]
    BY <2>1
  <2>3. IsFiniteSet(S)
    BY <1>1, <2>2, ImageFinite
  <2>4. S \subseteq Nat /\ S # {}
    BY <1>1, <1>3, <2>1 DEF Lot
  <2>5. PICK k \in S : \A n \in S : n <= k
    BY <2>3, <2>4, LargestExists
  <2>6. PICK m : m = Max(S)
    OBVIOUS
  <2>7. m \in S /\ \A n \in S : m >= n
    BY <2>4, <2>5, <2>6 DEF Max
  <2>8. NextLotId(c) = m + 1
    BY <1>3, <2>1, <2>6 DEF NextLotId, Held
  <2>9. ASSUME NEW l \in positions[c] PROVE l.id # m + 1
    <3>1. PICK x \in S : x = l.id
      BY <2>1
    <3>2. x \in Nat /\ m \in Nat /\ m >= x
      BY <2>4, <2>7
    <3> QED BY <3>1, <3>2
  <2> QED BY <2>4, <2>7, <2>8, <2>9
<1> QED BY <1>2, <1>3

NewLot(id, lots, px) ==
  [id |-> id, lots |-> lots, cost |-> px, entry |-> day, pending |-> NoReason, reserved |-> FALSE]

NewRow(c, id, lots, px, why) ==
  [side |-> "BUY", code |-> c, px |-> px, lots |-> lots, lot |-> id, why |-> why]

\* What a purchase does to cash, holdings and rows.
Bought(c, px, budget, why, id, lots) ==
  /\ id \in Nat /\ lots \in Nat \ {0} /\ \A l \in positions[c] : l.id # id
  /\ budget > 0 /\ Debit(lots, px) \in Nat /\ Debit(lots, px) <= cash
  /\ book.industry => Debit(lots, px) <= budget
  /\ cash' = cash - Debit(lots, px)
  /\ positions' = [positions EXCEPT ![c] = @ \cup {NewLot(id, lots, px)}]
  /\ trades' = trades \cup {NewRow(c, id, lots, px, why)}

\* So a purchase that is not refused books one lot and one row.
LEMMA FillMoves ==
  ASSUME DailyTypeOK, NEW c \in Codes, NEW q \in Quote, NEW budget \in Int, NEW why,
         ~BuyFails(q, budget), Fill(c, q.close, budget, why)
  PROVE  \E id, lots : Bought(c, q.close, budget, why, id, lots)
<1>1. PICK lots, id : lots = Declared(budget, q.close) /\ id = NextLotId(c)
  OBVIOUS
<1>2. /\ lots \in Nat \ {0} /\ budget > 0
      /\ Debit(lots, q.close) \in Nat /\ Debit(lots, q.close) <= cash
      /\ book.industry => Debit(lots, q.close) <= budget
  BY <1>1, DeclaredFacts
<1>3. id \in Nat /\ \A l \in positions[c] : l.id # id
  BY <1>1, NextLotFacts
<1>4. /\ cash' = cash - Debit(lots, q.close)
      /\ positions' = [positions EXCEPT ![c] = @ \cup {NewLot(id, lots, q.close)}]
      /\ trades' = trades \cup {NewRow(c, id, lots, q.close, why)}
  BY <1>1 DEF Fill, NewLot, NewRow
<1> QED BY <1>2, <1>3, <1>4 DEF Bought
-----------------------------------------------------------------------------
(* The steps.                                                              *)

\* What a purchase does to the types.
LEMMA BoughtTypes ==
  ASSUME DailyTypeOK, NEW c \in Codes, NEW px \in Nat, NEW budget, NEW why \in RowReasons,
         NEW id, NEW lots, Bought(c, px, budget, why, id, lots), per' = per
  PROVE  HoldingsTypeOK'
<1>1. /\ cash \in Int /\ per \in Int /\ positions \in [Codes -> SUBSET Lot] /\ positions[c] \subseteq Lot
      /\ \A k \in Codes : IsFiniteSet(positions[k])
      /\ trades \subseteq Row /\ IsFiniteSet(trades) /\ day \in Days
  BY DEF DailyTypeOK, HoldingsTypeOK, ClockTypeOK
<1>2. /\ id \in Nat /\ lots \in Nat \ {0}
      /\ Debit(lots, px) \in Nat /\ cash' = cash - Debit(lots, px)
      /\ positions' = [positions EXCEPT ![c] = @ \cup {NewLot(id, lots, px)}]
      /\ trades' = trades \cup {NewRow(c, id, lots, px, why)}
  BY DEF Bought
<1>3. PICK m \in Lot : m = NewLot(id, lots, px)
  <2>1. PICK d \in Days, r \in ExitReasons \cup {NoReason} : d = day /\ r = NoReason
    BY <1>1
  <2>2. [id |-> id, lots |-> lots, cost |-> px, entry |-> d, pending |-> r, reserved |-> FALSE] \in Lot
    BY <1>2 DEF Lot
  <2> QED BY <2>1, <2>2 DEF NewLot
<1>4. PICK t \in Row : t = NewRow(c, id, lots, px, why)
  <2>1. [side |-> "BUY", code |-> c, px |-> px, lots |-> lots, lot |-> id, why |-> why] \in Row
    BY <1>2 DEF Row
  <2> QED BY <2>1 DEF NewRow
<1>5. PICK held : held = positions[c] \cup {m} /\ held \subseteq Lot /\ IsFiniteSet(held)
  <2>1. IsFiniteSet(positions[c]) /\ IsFiniteSet({m})
    BY <1>1, FS_Singleton
  <2> QED BY <1>1, <1>3, <2>1, FS_Union
<1>6. positions' = [positions EXCEPT ![c] = held]
  BY <1>1, <1>2, <1>3, <1>5
<1>7. positions' \in [Codes -> SUBSET Lot] /\ \A k \in Codes : IsFiniteSet(positions'[k])
  BY <1>1, <1>5, <1>6
<1>8. trades' \subseteq Row /\ IsFiniteSet(trades')
  <2>1. IsFiniteSet({t})
    BY FS_Singleton
  <2> QED BY <1>1, <1>2, <1>4, <2>1, FS_Union
<1>9. cash' \in Int
  BY <1>1, <1>2
<1> QED BY <1>1, <1>7, <1>8, <1>9 DEF HoldingsTypeOK

\* The verdicts are counters.
LEMMA VerdictsAreNames ==
  ASSUME NEW verdict
  PROVE  DailyTypeOK => Counted(verdict) \in [Counters -> Nat]
<1>1. ASSUME DailyTypeOK, NEW k \in Counters PROVE stats[k] + (IF k = verdict THEN 1 ELSE 0) \in Nat
  <2>1. stats[k] \in Nat
    BY <1>1 DEF DailyTypeOK, SignalsTypeOK
  <2> QED BY <2>1
<1> QED BY <1>1 DEF Counted

\* Scanning a code: nothing, or what Scanned says.
LEMMA ScanMoves ==
  ASSUME DailyTypeOK, ScanHeld
  PROVE  /\ Head(todo) \in Codes /\ Tail(todo) \in Seq(Codes) /\ todo' = Tail(todo)
         /\ phase = "scan" /\ todo # <<>>
         /\ UNCHANGED <<day, phase, quotes, gateOpen, pending, per, quotaUsed, stats, fate>>
         /\ \/ ~(quotes[Head(todo)].bar /\ quotes[Head(todo)].board) /\ UNCHANGED <<cash, positions, trades>>
            \/ quotes[Head(todo)].bar /\ quotes[Head(todo)].board /\ Scanned(Head(todo))
<1>1. /\ phase = "scan" /\ todo # <<>> /\ todo' = Tail(todo)
      /\ UNCHANGED <<day, phase, quotes, gateOpen, pending, per, quotaUsed, stats, fate>>
  BY DEF ScanHeld
<1>2. Head(todo) \in Codes /\ Tail(todo) \in Seq(Codes)
  BY <1>1, TailFacts DEF DailyTypeOK, ClockTypeOK
<1>3. CASE ~quotes[Head(todo)].bar \/ ~quotes[Head(todo)].board
  BY <1>1, <1>2, <1>3 DEF ScanHeld
<1>4. CASE quotes[Head(todo)].bar /\ quotes[Head(todo)].board
  <2>1. PICK c \in Codes : c = Head(todo)
    BY <1>2
  <2>2. PICK why \in [positions[c] -> book.close_reasons \cup {NoReason}] :
          Settle(c, {Verdict(l, quotes[c], why[l]) : l \in positions[c]})
    BY <1>4, <2>1 DEF ScanHeld
  <2>3. Scanned(c)
    BY <2>2, SettleScans
  <2> QED BY <1>1, <1>2, <1>4, <2>1, <2>3
<1> QED BY <1>1, <1>2, <1>3, <1>4

\* Scanning a code keeps the types.
LEMMA ScanKeepsTypes ==
  ASSUME DailyTypeOK, ScanHeld, UNCHANGED book
  PROVE  DailyTypeOK'
<1>1. PICK c \in Codes : c = Head(todo)
  BY ScanMoves
<1>2. ClockTypeOK'
  BY ScanMoves DEF DailyTypeOK, ClockTypeOK
<1>3. SignalsTypeOK'
  BY ScanMoves DEF DailyTypeOK, SignalsTypeOK
<1>4. HoldingsTypeOK'
  <2>1. per' \in Int
    BY ScanMoves DEF DailyTypeOK, HoldingsTypeOK
  <2>2. CASE UNCHANGED <<cash, positions, trades>>
    BY <2>1, <2>2 DEF DailyTypeOK, HoldingsTypeOK
  <2>3. CASE Scanned(c)
    <3>1. /\ cash' \in Int /\ positions' \in [Codes -> SUBSET Lot] /\ IsFiniteSet(positions'[c])
          /\ \A k \in Codes \ {c} : positions'[k] = positions[k]
          /\ trades \subseteq trades' /\ IsFiniteSet(trades') /\ \A t \in trades' \ trades : t \in Row
      BY <2>3 DEF Scanned, ScanRow
    <3>2. trades' \subseteq Row /\ \A k \in Codes : IsFiniteSet(positions'[k])
      BY <3>1 DEF DailyTypeOK, HoldingsTypeOK
    <3> QED BY <2>1, <3>1, <3>2 DEF HoldingsTypeOK
  <2> QED BY <1>1, <2>2, <2>3, ScanMoves
<1> QED BY <1>2, <1>3, <1>4 DEF DailyTypeOK

\* Judging a chase: it waits, ends, or ends with a purchase.
LEMMA ChaseMoves ==
  ASSUME DailyTypeOK, ChaseDue, NEW c, c = Head(todo), NEW verdict, verdict = ChaseVerdict(c, quotes[c])
  PROVE  /\ c \in Codes /\ Tail(todo) \in Seq(Codes) /\ todo' = Tail(todo)
         /\ phase = "chase" /\ todo # <<>>
         /\ UNCHANGED <<day, phase, quotes, gateOpen, per>>
         /\ IF verdict # "wait"
            THEN pending' = Without(pending, c) /\ fate' = Put(fate, Signal(c), verdict)
            ELSE UNCHANGED <<pending, fate>>
         /\ stats' = Counted(verdict)
         /\ verdict # "chase_buy" => UNCHANGED <<cash, positions, trades>>
<1>1. /\ phase = "chase" /\ todo # <<>> /\ todo' = Tail(todo)
      /\ UNCHANGED <<day, phase, quotes, gateOpen, per>>
  BY DEF ChaseDue
<1>2. Head(todo) \in Codes /\ Tail(todo) \in Seq(Codes)
  BY <1>1, TailFacts DEF DailyTypeOK, ClockTypeOK
<1> QED BY <1>1, <1>2 DEF ChaseDue, Judged

\* A purchase of a chase.
LEMMA ChaseBuys ==
  ASSUME DailyTypeOK, ChaseDue, NEW c, c = Head(todo), c \in DOMAIN pending,
         ChaseVerdict(c, quotes[c]) = "chase_buy"
  PROVE  /\ \E id, lots : Bought(c, quotes[c].close, pending[c].per, "chase:T+1", id, lots)
         /\ quotes[c].bar /\ quotes[c].close < quotes[c].up /\ (Held(c) => book.allow_add)
<1>1. c \in Codes /\ quotes[c] \in Quote /\ pending[c].per \in Int
  BY ChaseMoves DEF DailyTypeOK, ClockTypeOK, SignalsTypeOK, Entry
<1>2. PICK q \in Quote, budget \in Int : q = quotes[c] /\ budget = pending[c].per
  BY <1>1
<1>3. /\ ~(Held(c) /\ ~book.allow_add) /\ q.bar /\ ~AtUp(q.close, q) /\ ~BuyFails(q, budget)
  BY <1>2 DEF ChaseVerdict, Gate
<1>4. Fill(c, q.close, budget, "chase:T+1")
  BY <1>2 DEF ChaseDue
<1>5. \E id, lots : Bought(c, q.close, budget, "chase:T+1", id, lots)
  BY <1>1, <1>3, <1>4, FillMoves
<1>6. q.close < q.up
  BY <1>3 DEF AtUp, Quote
<1> QED BY <1>2, <1>3, <1>5, <1>6

\* Buying a name of the list: a signal, a refusal, or a purchase.
LEMMA PoolMoves ==
  ASSUME DailyTypeOK, PoolBuy, NEW c, c = Head(todo), NEW verdict, verdict = PoolVerdict(c, quotes[c])
  PROVE  /\ c \in Codes /\ Tail(todo) \in Seq(Codes) /\ todo' = Tail(todo)
         /\ phase = "pool" /\ todo # <<>>
         /\ UNCHANGED <<day, phase, quotes, gateOpen, per>>
         /\ IF verdict = "skip_limit_up" /\ book.limit_up_chase
            THEN Queue(c)
            ELSE stats' = Counted(verdict) /\ UNCHANGED <<pending, fate>>
         /\ verdict # "pool" => UNCHANGED <<cash, positions, trades>>
<1>1. /\ phase = "pool" /\ todo # <<>> /\ todo' = Tail(todo)
      /\ UNCHANGED <<day, phase, quotes, gateOpen, per>>
  BY DEF PoolBuy
<1>2. Head(todo) \in Codes /\ Tail(todo) \in Seq(Codes)
  BY <1>1, TailFacts DEF DailyTypeOK, ClockTypeOK
<1> QED BY <1>1, <1>2 DEF PoolBuy

\* A purchase from the list.
LEMMA PoolBuys ==
  ASSUME DailyTypeOK, PoolBuy, NEW c, c = Head(todo), PoolVerdict(c, quotes[c]) = "pool"
  PROVE  /\ \E id, lots : Bought(c, quotes[c].close, per, "pool", id, lots)
         /\ quotes[c].bar /\ quotes[c].close < quotes[c].up /\ (Held(c) => book.allow_add)
<1>1. c \in Codes /\ quotes[c] \in Quote /\ per \in Int
  BY PoolMoves DEF DailyTypeOK, ClockTypeOK, HoldingsTypeOK
<1>2. PICK q \in Quote : q = quotes[c]
  BY <1>1
<1>3. /\ ~(Held(c) /\ ~book.allow_add) /\ q.bar /\ ~AtUp(q.close, q) /\ ~BuyFails(q, per)
  BY <1>2 DEF PoolVerdict, Gate
<1>4. Fill(c, q.close, per, "pool")
  BY <1>2 DEF PoolBuy
<1>5. \E id, lots : Bought(c, q.close, per, "pool", id, lots)
  BY <1>1, <1>3, <1>4, FillMoves
<1>6. q.close < q.up
  BY <1>3 DEF AtUp, Quote
<1> QED BY <1>2, <1>3, <1>5, <1>6
-----------------------------------------------------------------------------
(* The types.                                                              *)

\* Every code of a pass is visited once, and every chase ahead is pending.
PassFits ==
  /\ Once(todo)
  /\ phase = "chase" => Ahead \subseteq DOMAIN pending

\* The code a pass visits is ahead, and the rest of the pass is as fit.
LEMMA PassOn ==
  ASSUME DailyTypeOK, PassFits, todo # <<>>, todo' = Tail(todo)
  PROVE  /\ Head(todo) \in Ahead /\ Head(todo) \notin Ahead' /\ Ahead' \subseteq Ahead
         /\ Ahead = Ahead' \cup {Head(todo)} /\ Once(todo')
<1>1. todo \in Seq(Codes) /\ Once(todo)
  BY DEF DailyTypeOK, ClockTypeOK, PassFits
<1>2. PICK s, r : s = todo /\ r = Tail(todo)
  OBVIOUS
<1>3. Names(s) = {Head(s)} \cup Names(r) /\ Once(r) /\ Head(s) \notin Names(r)
  BY <1>1, <1>2, TailFacts
<1>4. Ahead = Names(s) /\ Ahead' = Names(r) /\ todo' = r
  BY <1>2 DEF Ahead
<1> QED BY <1>2, <1>3, <1>4

\* Judging a chase keeps the types.
LEMMA ChaseKeepsTypes ==
  ASSUME DailyTypeOK, PassFits, ChaseDue, UNCHANGED book
  PROVE  DailyTypeOK' /\ PassFits'
<1>1. PICK c, verdict : c = Head(todo) /\ verdict = ChaseVerdict(c, quotes[c])
  OBVIOUS
<1>2. /\ c \in Codes /\ Tail(todo) \in Seq(Codes) /\ todo' = Tail(todo)
      /\ phase = "chase" /\ todo # <<>>
      /\ UNCHANGED <<day, phase, quotes, gateOpen, per>>
      /\ IF verdict # "wait"
         THEN pending' = Without(pending, c) /\ fate' = Put(fate, Signal(c), verdict)
         ELSE UNCHANGED <<pending, fate>>
      /\ stats' = Counted(verdict)
      /\ verdict # "chase_buy" => UNCHANGED <<cash, positions, trades>>
  BY <1>1, ChaseMoves
<1>3. c \in Ahead /\ c \notin Ahead' /\ Ahead' \subseteq Ahead /\ Once(todo')
  BY <1>1, <1>2, PassOn
<1>4. c \in DOMAIN pending /\ Ahead \subseteq DOMAIN pending
  BY <1>2, <1>3 DEF PassFits
<1>5. ClockTypeOK'
  BY <1>2 DEF DailyTypeOK, ClockTypeOK
<1>6. Signal(c) \in Codes \X Days
  BY <1>2, <1>4 DEF Signal, DailyTypeOK, SignalsTypeOK, Entry
<1>7. /\ DOMAIN pending' \subseteq DOMAIN pending /\ DOMAIN pending \ {c} \subseteq DOMAIN pending'
      /\ pending' \in [DOMAIN pending' -> Entry]
      /\ DOMAIN fate' \subseteq Codes \X Days
  BY <1>2, <1>6 DEF DailyTypeOK, SignalsTypeOK, Put, Without
<1>8. stats' \in [Counters -> Nat]
  BY <1>2, VerdictsAreNames
<1>9. SignalsTypeOK'
  BY <1>7, <1>8 DEF DailyTypeOK, SignalsTypeOK
<1>10. HoldingsTypeOK'
  <2>1. CASE verdict # "chase_buy"
    BY <1>2, <2>1 DEF DailyTypeOK, HoldingsTypeOK
  <2>2. CASE verdict = "chase_buy"
    <3>1. PICK px, budget, id, lots : /\ px = quotes[c].close
                                      /\ Bought(c, px, budget, "chase:T+1", id, lots)
      BY <1>1, <1>4, <2>2, ChaseBuys
    <3>2. px \in Nat
      BY <1>2, <3>1 DEF DailyTypeOK, ClockTypeOK, Quote
    <3>3. PICK why \in RowReasons : why = "chase:T+1"
      BY DEF RowReasons
    <3>4. Bought(c, px, budget, why, id, lots) /\ per' = per
      BY <1>2, <3>1, <3>3
    <3> QED BY <1>2, <3>2, <3>4, BoughtTypes
  <2> QED BY <2>1, <2>2
<1>11. PassFits'
  BY <1>2, <1>3, <1>4, <1>7 DEF PassFits
<1> QED BY <1>5, <1>9, <1>10, <1>11 DEF DailyTypeOK

\* A new signal comes after every entry.
LEMMA PlaceFacts ==
  ASSUME DailyTypeOK, NEW c \in Codes
  PROVE  PlaceOf(c) \in Nat
<1>1. IsFiniteSet(DOMAIN pending) /\ pending \in [DOMAIN pending -> Entry]
  BY FS_Subset, BookAssumption DEF DailyTypeOK, SignalsTypeOK, ValidBook
<1>2. CASE IsPending(c)
  BY <1>1, <1>2 DEF PlaceOf, IsPending, Entry
<1>3. CASE ~IsPending(c)
  <2>1. PICK D, g, R : /\ D = DOMAIN pending /\ g = [k \in D |-> pending[k].at]
                       /\ R = {pending[k].at : k \in D}
    OBVIOUS
  <2>2. g = [k \in D |-> g[k]] /\ R = {g[k] : k \in D} /\ IsFiniteSet(D) /\ R \subseteq Nat
    BY <1>1, <2>1 DEF Entry
  <2>3. IsFiniteSet(R)
    BY <2>2, ImageFinite
  <2>10. PICK S : S = {0} \cup R
    OBVIOUS
  <2>4. S # {} /\ S \subseteq Nat /\ S = {0} \cup R
    BY <2>2, <2>10
  <2>5. IsFiniteSet(S)
    BY <2>3, <2>4, FS_Singleton, FS_Union
  <2>6. PICK k \in S : \A n \in S : n <= k
    BY <2>4, <2>5, LargestExists
  <2>7. PICK m : m = Max(S)
    OBVIOUS
  <2>8. m \in S
    BY <2>4, <2>6, <2>7 DEF Max
  <2>9. PlaceOf(c) = m + 1
    BY <1>3, <2>1, <2>4, <2>7 DEF PlaceOf
  <2> QED BY <2>4, <2>8, <2>9
<1> QED BY <1>2, <1>3

\* A signal is queued.
LEMMA QueueFacts ==
  ASSUME DailyTypeOK, NEW c \in Codes, Queue(c)
  PROVE  /\ DOMAIN pending' = DOMAIN pending \cup {c}
         /\ pending' \in [DOMAIN pending' -> Entry] /\ pending'[c].sig = day
         /\ \A k \in DOMAIN pending \ {c} : pending'[k] = pending[k]
         /\ stats' \in [Counters -> Nat]
         /\ DOMAIN fate' = DOMAIN fate \cup {<<c, day>>}
                             \cup (IF IsPending(c) THEN {Signal(c)} ELSE {})
<1>1. PICK e \in Entry : e = [per |-> per, sig |-> day, at |-> PlaceOf(c)] /\ e.sig = day
  <2>1. per \in Int /\ day \in Days /\ PlaceOf(c) \in Nat
    BY PlaceFacts DEF DailyTypeOK, HoldingsTypeOK, ClockTypeOK
  <2>2. PICK n \in Nat, d \in Days, p \in Int : n = PlaceOf(c) /\ d = day /\ p = per
    BY <2>1
  <2>3. [per |-> p, sig |-> d, at |-> n] \in Entry
    BY DEF Entry
  <2> QED BY <2>2, <2>3
<1>2. pending' = Put(pending, c, e)
  BY <1>1 DEF Queue
<1>3. /\ DOMAIN pending' = DOMAIN pending \cup {c}
      /\ pending' \in [DOMAIN pending' -> Entry] /\ pending'[c] = e
      /\ \A k \in DOMAIN pending \ {c} : pending'[k] = pending[k]
  BY <1>1, <1>2 DEF Put, DailyTypeOK, SignalsTypeOK
<1>4. PICK n \in [Counters -> Nat] : n = Counted("skip_limit_up")
  <2>1. PICK verdict : verdict = "skip_limit_up"
    OBVIOUS
  <2>2. Counted(verdict) \in [Counters -> Nat]
    BY VerdictsAreNames
  <2> QED BY <2>1, <2>2
<1>5. stats' = [n EXCEPT !["chase_overwrite"] = @ + (IF IsPending(c) THEN 1 ELSE 0)]
  BY <1>4 DEF Queue
<1>6. stats' \in [Counters -> Nat]
  <2>1. "chase_overwrite" \in Counters
    BY DEF Counters
  <2>2. PICK more \in Nat : more = n["chase_overwrite"] + (IF IsPending(c) THEN 1 ELSE 0)
    BY <2>1
  <2>3. stats' = [n EXCEPT !["chase_overwrite"] = more]
    BY <1>5, <2>1, <2>2
  <2> QED BY <2>1, <2>3
<1>7. DOMAIN fate' = DOMAIN fate \cup {<<c, day>>}
                       \cup (IF IsPending(c) THEN {Signal(c)} ELSE {})
  BY DEF Queue, Put
<1> QED BY <1>1, <1>3, <1>6, <1>7

\* Buying a name of the list keeps the types.
LEMMA PoolKeepsTypes ==
  ASSUME DailyTypeOK, PassFits, PoolBuy, UNCHANGED book
  PROVE  DailyTypeOK' /\ PassFits'
<1>1. PICK c, verdict : c = Head(todo) /\ verdict = PoolVerdict(c, quotes[c])
  OBVIOUS
<1>2. /\ c \in Codes /\ Tail(todo) \in Seq(Codes) /\ todo' = Tail(todo)
      /\ phase = "pool" /\ todo # <<>>
      /\ UNCHANGED <<day, phase, quotes, gateOpen, per>>
      /\ IF verdict = "skip_limit_up" /\ book.limit_up_chase
         THEN Queue(c)
         ELSE stats' = Counted(verdict) /\ UNCHANGED <<pending, fate>>
      /\ verdict # "pool" => UNCHANGED <<cash, positions, trades>>
  BY <1>1, PoolMoves
<1>3. Once(todo')
  BY <1>1, <1>2, PassOn
<1>4. ClockTypeOK'
  BY <1>2 DEF DailyTypeOK, ClockTypeOK
<1>5. SignalsTypeOK'
  <2>1. CASE verdict = "skip_limit_up" /\ book.limit_up_chase
    <3>1. IsPending(c) => Signal(c) \in Codes \X Days
      BY <1>2 DEF Signal, IsPending, DailyTypeOK, SignalsTypeOK, Entry
    <3>2. <<c, day>> \in Codes \X Days
      BY <1>2 DEF DailyTypeOK, ClockTypeOK
    <3>3. Queue(c)
      BY <1>2, <2>1
    <3>4. /\ DOMAIN pending' = DOMAIN pending \cup {c}
          /\ pending' \in [DOMAIN pending' -> Entry] /\ stats' \in [Counters -> Nat]
          /\ DOMAIN fate' = DOMAIN fate \cup {<<c, day>>}
                               \cup (IF IsPending(c) THEN {Signal(c)} ELSE {})
      BY <1>2, <3>3, QueueFacts
    <3>5. DOMAIN pending' \subseteq Codes
      BY <1>2, <3>4 DEF DailyTypeOK, SignalsTypeOK
    <3>6. DOMAIN fate' \subseteq Codes \X Days
      BY <3>1, <3>2, <3>4 DEF DailyTypeOK, SignalsTypeOK
    <3> QED BY <3>4, <3>5, <3>6 DEF SignalsTypeOK
  <2>2. CASE ~(verdict = "skip_limit_up" /\ book.limit_up_chase)
    BY <1>2, <2>2, VerdictsAreNames DEF DailyTypeOK, SignalsTypeOK
  <2> QED BY <2>1, <2>2
<1>6. HoldingsTypeOK'
  <2>1. CASE verdict # "pool"
    BY <1>2, <2>1 DEF DailyTypeOK, HoldingsTypeOK
  <2>2. CASE verdict = "pool"
    <3>1. PICK px, id, lots : px = quotes[c].close /\ Bought(c, px, per, "pool", id, lots)
      BY <1>1, <2>2, PoolBuys
    <3>2. px \in Nat
      BY <1>2, <3>1 DEF DailyTypeOK, ClockTypeOK, Quote
    <3>3. PICK why \in RowReasons, budget \in Int : why = "pool" /\ budget = per
      BY DEF RowReasons, DailyTypeOK, HoldingsTypeOK
    <3>4. Bought(c, px, budget, why, id, lots) /\ per' = per
      BY <1>2, <3>1, <3>3
    <3> QED BY <1>2, <3>2, <3>4, BoughtTypes
  <2> QED BY <2>1, <2>2
<1>7. PassFits'
  BY <1>2, <1>3 DEF PassFits
<1> QED BY <1>4, <1>5, <1>6, <1>7 DEF DailyTypeOK
\* The market is closed, but is one of the quotes a code may have.
LEMMA NoQuoteIsQuote == NoQuote \in Quote
<1>1. FALSE \in BOOLEAN /\ 0 \in Nat
  OBVIOUS
<1> QED BY <1>1 DEF NoQuote, Quote

\* The day begins: quotes are read, and the rows of the day before are gone.
LEMMA BeginMoves ==
  ASSUME DailyTypeOK, BeginDay
  PROVE  /\ phase = "begin" /\ phase' = "scan" /\ gateOpen' \in BOOLEAN
         /\ quotes' \in [Codes -> Quote] /\ trades' = {} /\ todo' \in Seq(Codes) /\ Once(todo')
         /\ UNCHANGED <<day, cash, positions, pending, per, stats, fate>>
<1>1. /\ phase = "begin" /\ phase' = "scan" /\ gateOpen' \in BOOLEAN /\ trades' = {}
      /\ UNCHANGED <<day, cash, positions, pending, per, stats, fate>>
  BY DEF BeginDay
<1>2. quotes' \in [Codes -> Quote]
  <2>1. Quotes \cup {NoQuote} \subseteq Quote
    BY NoQuoteIsQuote, BookAssumption DEF ValidBook
  <2>2. quotes' \in [Codes -> Quotes \cup {NoQuote}]
    BY DEF BeginDay
  <2> QED BY <2>1, <2>2
<1>3. PICK s \in HeldCodes : s = todo'
  BY DEF BeginDay
<1>4. s \in Seq(Codes) /\ Once(s)
  BY PassFacts
<1> QED BY <1>1, <1>2, <1>3, <1>4

\* The chases begin: those of an earlier day.
LEMMA ChasesMoves ==
  ASSUME DailyTypeOK, BeginChases
  PROVE  /\ phase = "scan" /\ todo = <<>> /\ phase' = "chase"
         /\ todo' \in Seq(Codes) /\ Once(todo')
         /\ Ahead' = {c \in DOMAIN pending : day > pending[c].sig}
         /\ UNCHANGED <<day, quotes, gateOpen, cash, positions, pending, per, trades, stats, fate>>
<1>1. PICK s \in DueCodes : s = todo'
  BY DEF BeginChases
<1>2. s \in Seq(Codes) /\ Names(s) = {c \in DOMAIN pending : day > pending[c].sig} /\ Once(s)
  BY PassFacts
<1>3. Ahead' = Names(s)
  BY <1>1 DEF Ahead
<1> QED BY <1>1, <1>2, <1>3 DEF BeginChases

\* The list begins: its budget is fixed.
LEMMA ListMoves ==
  ASSUME DailyTypeOK, BeginPool
  PROVE  /\ phase = "chase" /\ todo = <<>> /\ phase' = "pool" /\ per' \in Int
         /\ todo' \in Seq(Codes) /\ Once(todo') /\ Len(todo') \in Nat
         /\ book.industry /\ per' > 0 =>
              per' * Len(todo') <= book.daily_quota /\ per' * Len(todo') <= cash
         /\ UNCHANGED <<day, quotes, gateOpen, cash, positions, pending, trades, stats, fate>>
<1>1. PICK s : s = Planned
  OBVIOUS
<1>2. s \in Seq(Codes) /\ Once(s) /\ Len(s) \in Nat /\ (s # <<>> => Len(s) # 0)
  BY <1>1, PassFacts
<1>3. /\ phase = "chase" /\ todo = <<>> /\ phase' = "pool" /\ todo' = s
      /\ per' = IF s = <<>> THEN 0 ELSE Smaller(book.daily_quota, cash) \div Len(s)
      /\ UNCHANGED <<day, quotes, gateOpen, cash, positions, pending, trades, stats, fate>>
  BY <1>1 DEF BeginPool
<1>4. book \in Profile /\ cash \in Int
  BY BookAssumption DEF ValidBook, DailyTypeOK, ClockTypeOK, HoldingsTypeOK
<1>5. PICK most \in Int : /\ most = Smaller(book.daily_quota, cash)
                          /\ most <= book.daily_quota /\ most <= cash
  BY <1>4 DEF Profile, Smaller
<1>6. CASE s = <<>>
  BY <1>2, <1>3, <1>6
<1>7. CASE s # <<>>
  <2>1. PICK n \in Nat \ {0} : n = Len(s)
    BY <1>2, <1>7
  <2>2. per' = most \div n
    BY <1>3, <1>5, <1>7, <2>1
  <2>3. most \div n \in Int /\ (most \div n) * n <= most
    OBVIOUS
  <2>4. per' \in Int /\ per' * n <= most
    BY <2>2, <2>3
  <2>5. PICK p \in Int : p = per' * n /\ p <= most
    <3>1. PICK r \in Int : r = per' /\ r * n <= most
      BY <2>4
    <3>2. r * n \in Int
      OBVIOUS
    <3> QED BY <3>1, <3>2
  <2>6. p <= book.daily_quota /\ p <= cash
    BY <1>4, <1>5, <2>5 DEF Profile
  <2> QED BY <1>2, <1>3, <2>1, <2>4, <2>5, <2>6
<1> QED BY <1>6, <1>7

\* The types and the passes.
DailyTypes == DailyTypeOK /\ PassFits

\* The first day begins with them.
LEMMA TypesInit ==
  ASSUME Init
  PROVE  DailyTypes
<1>1. /\ book \in Profiles /\ day = 1 /\ phase = "begin" /\ todo = <<>>
      /\ quotes = [c \in Codes |-> NoQuote] /\ gateOpen = TRUE
      /\ cash = book.total_cash /\ positions = [c \in Codes |-> {}] /\ pending = Empty
      /\ per = 0 /\ trades = {} /\ stats = [k \in Counters |-> 0] /\ fate = Empty
  BY DEF Init
<1>2. 1 \in Days /\ book \in Profile
  BY <1>1, BookAssumption DEF ValidBook, Days
<1>3. ClockTypeOK
  <2>1. quotes \in [Codes -> Quote]
    BY <1>1, NoQuoteIsQuote
  <2>2. todo \in Seq(Codes) /\ day \in Days /\ gateOpen \in BOOLEAN
    BY <1>1, <1>2
  <2> QED BY <1>1, <2>1, <2>2 DEF ClockTypeOK
<1>4. HoldingsTypeOK
  <2>1. cash \in Int /\ per \in Int
    BY <1>1, <1>2 DEF Profile
  <2>2. IsFiniteSet({})
    BY FS_EmptySet
  <2>3. positions \in [Codes -> SUBSET Lot] /\ \A c \in Codes : IsFiniteSet(positions[c])
    BY <1>1, <2>2
  <2>4. trades \subseteq Row /\ IsFiniteSet(trades)
    BY <1>1, <2>2
  <2> QED BY <2>1, <2>3, <2>4 DEF HoldingsTypeOK
<1>5. SignalsTypeOK
  <2>1. DOMAIN pending = {} /\ DOMAIN fate = {} /\ pending \in [DOMAIN pending -> Entry]
    BY <1>1 DEF Empty
  <2>2. stats \in [Counters -> Nat]
    BY <1>1
  <2> QED BY <2>1, <2>2 DEF SignalsTypeOK
<1>6. PassFits
  BY <1>1 DEF PassFits, Once
<1> QED BY <1>3, <1>4, <1>5, <1>6 DEF DailyTypes, DailyTypeOK

\* Every step keeps them.
LEMMA TypesStep ==
  ASSUME DailyTypes, [Next]_vars
  PROVE  DailyTypes'
<1>1. DailyTypeOK /\ PassFits
  BY DEF DailyTypes
<1>2. CASE UNCHANGED vars
  BY <1>1, <1>2 DEF vars, DailyTypes, DailyTypeOK, ClockTypeOK, HoldingsTypeOK, SignalsTypeOK,
                    PassFits, Ahead, Names
<1>3. CASE BeginDay /\ UNCHANGED book
  <2>1. ClockTypeOK'
    BY <1>1, <1>3, BeginMoves DEF DailyTypeOK, ClockTypeOK
  <2>2. HoldingsTypeOK'
    <3>1. IsFiniteSet({})
      BY FS_EmptySet
    <3> QED BY <1>1, <1>3, <3>1, BeginMoves DEF DailyTypeOK, HoldingsTypeOK
  <2>3. SignalsTypeOK'
    BY <1>1, <1>3, BeginMoves DEF DailyTypeOK, SignalsTypeOK
  <2>4. PassFits'
    BY <1>1, <1>3, BeginMoves DEF PassFits
  <2> QED BY <2>1, <2>2, <2>3, <2>4 DEF DailyTypes, DailyTypeOK
<1>4. CASE ScanHeld /\ UNCHANGED book
  <2>1. DailyTypeOK'
    BY <1>1, <1>4, ScanKeepsTypes
  <2>2. PassFits'
    BY <1>1, <1>4, ScanMoves, PassOn DEF PassFits
  <2> QED BY <2>1, <2>2 DEF DailyTypes
<1>5. CASE BeginChases /\ UNCHANGED book
  <2>1. ClockTypeOK'
    BY <1>1, <1>5, ChasesMoves DEF DailyTypeOK, ClockTypeOK
  <2>2. HoldingsTypeOK' /\ SignalsTypeOK'
    BY <1>1, <1>5, ChasesMoves DEF DailyTypeOK, HoldingsTypeOK, SignalsTypeOK
  <2>3. PassFits'
    BY <1>1, <1>5, ChasesMoves DEF PassFits
  <2> QED BY <2>1, <2>2, <2>3 DEF DailyTypes, DailyTypeOK
<1>6. CASE ChaseDue /\ UNCHANGED book
  BY <1>1, <1>6, ChaseKeepsTypes DEF DailyTypes
<1>7. CASE BeginPool /\ UNCHANGED book
  <2>1. ClockTypeOK'
    BY <1>1, <1>7, ListMoves DEF DailyTypeOK, ClockTypeOK
  <2>2. HoldingsTypeOK' /\ SignalsTypeOK'
    BY <1>1, <1>7, ListMoves DEF DailyTypeOK, HoldingsTypeOK, SignalsTypeOK
  <2>3. PassFits'
    BY <1>1, <1>7, ListMoves DEF PassFits
  <2> QED BY <2>1, <2>2, <2>3 DEF DailyTypes, DailyTypeOK
<1>8. CASE PoolBuy /\ UNCHANGED book
  BY <1>1, <1>8, PoolKeepsTypes DEF DailyTypes
<1>9. CASE EndDay /\ UNCHANGED book
  <2>1. /\ todo = <<>> /\ day < LastDay /\ day' = day + 1 /\ phase' = "begin" /\ per' = 0
        /\ quotes' = [c \in Codes |-> NoQuote]
        /\ UNCHANGED <<todo, gateOpen, cash, positions, pending, trades, stats, fate>>
    BY <1>9 DEF EndDay
  <2>2. day' \in Days
    BY <1>1, <2>1, BookAssumption DEF DailyTypeOK, ClockTypeOK, Days, ValidBook
  <2>3. quotes' \in [Codes -> Quote]
    BY <2>1, NoQuoteIsQuote
  <2>4. ClockTypeOK'
    BY <1>1, <1>9, <2>1, <2>2, <2>3 DEF DailyTypeOK, ClockTypeOK
  <2>5. HoldingsTypeOK' /\ SignalsTypeOK'
    BY <1>1, <2>1 DEF DailyTypeOK, HoldingsTypeOK, SignalsTypeOK
  <2>6. PassFits'
    BY <1>1, <2>1 DEF PassFits
  <2> QED BY <2>4, <2>5, <2>6 DEF DailyTypes, DailyTypeOK
<1>10. CASE Finish /\ UNCHANGED book
  <2>1. /\ todo = <<>> /\ phase' = "done"
        /\ stats' = [stats EXCEPT !["chase_pending_eod"] = Cardinality(DOMAIN pending)]
        /\ UNCHANGED <<day, todo, quotes, gateOpen, cash, positions, pending, per, trades, fate>>
    BY <1>10 DEF Finish
  <2>2. IsFiniteSet(DOMAIN pending) /\ Cardinality(DOMAIN pending) \in Nat
    BY <1>1, FS_Subset, FS_CardinalityType, BookAssumption DEF DailyTypeOK, SignalsTypeOK, ValidBook
  <2>3. PICK n \in Nat : n = Cardinality(DOMAIN pending)
    BY <2>2
  <2>4. stats' \in [Counters -> Nat]
    BY <1>1, <2>1, <2>3 DEF DailyTypeOK, SignalsTypeOK
  <2>5. ClockTypeOK'
    BY <1>1, <1>10, <2>1 DEF DailyTypeOK, ClockTypeOK
  <2>6. HoldingsTypeOK' /\ SignalsTypeOK'
    BY <1>1, <2>1, <2>4 DEF DailyTypeOK, HoldingsTypeOK, SignalsTypeOK
  <2>7. PassFits'
    BY <1>1, <2>1 DEF PassFits
  <2> QED BY <2>5, <2>6, <2>7 DEF DailyTypes, DailyTypeOK
<1> QED BY <1>2, <1>3, <1>4, <1>5, <1>6, <1>7, <1>8, <1>9, <1>10 DEF Next

\* The daily book is typed: cash and budgets are money, every lot and row is one, a
\* pass visits only codes of the market, and signals are of its days.
THEOREM DailyTypeCorrect == Spec => []DailyTypeOK
<1>1. Init => DailyTypes
  BY TypesInit
<1>2. DailyTypes /\ [Next]_vars => DailyTypes'
  BY TypesStep
<1>3. DailyTypes => DailyTypeOK
  BY DEF DailyTypes
<1> QED BY <1>1, <1>2, <1>3, PTL DEF Spec
-----------------------------------------------------------------------------
(* What the rules allow.                                                   *)

\* A latch is older than the day it is looked at.
LatchesAreOld ==
  \A c \in Codes : \A l \in positions[c] : l.pending # NoReason => l.entry < day

LegalFits == LimitsRespected /\ OneLotPerName /\ LatchesAreOld

\* A purchase below the upper limit is legal.
LEMMA BoughtIsLegal ==
  ASSUME DailyTypeOK, LegalFits, NEW c \in Codes, NEW px \in Nat, NEW budget, NEW why,
         NEW id, NEW lots, Bought(c, px, budget, why, id, lots),
         px < quotes[c].up, Held(c) => book.allow_add, UNCHANGED <<book, day, phase, quotes>>
  PROVE  LegalFits'
<1>1. positions \in [Codes -> SUBSET Lot]
  BY DEF DailyTypeOK, HoldingsTypeOK
<1>2. PICK m : m = NewLot(id, lots, px)
  OBVIOUS
<1>3. m.pending = NoReason
  BY <1>2 DEF NewLot
<1>4. PICK held : held = positions[c] \cup {m}
  OBVIOUS
<1>5. positions' = [positions EXCEPT ![c] = held]
  BY <1>1, <1>2, <1>4 DEF Bought
<1>6. positions'[c] = held /\ \A k \in Codes \ {c} : positions'[k] = positions[k]
  BY <1>1, <1>5
<1>7. PICK t : t = NewRow(c, id, lots, px, why)
  OBVIOUS
<1>8. t.side = "BUY" /\ t.code = c /\ t.px = px /\ trades' = trades \cup {t}
  BY <1>7 DEF NewRow, Bought
<1>9. LimitsRespected'
  <2>1. ASSUME NEW u \in trades', u.side = "BUY" PROVE u.px < quotes'[u.code].up \/ phase' = "begin"
    BY <1>8, <2>1 DEF LegalFits, LimitsRespected, Rows
  <2>2. ASSUME NEW u \in trades', u.side = "SELL"
        PROVE  u.px > quotes'[u.code].down \/ u.why = "stop_loss:close" \/ phase' = "begin"
    <3>1. u \in trades
      BY <1>8, <2>2
    <3> QED BY <2>2, <3>1 DEF LegalFits, LimitsRespected, Rows
  <2> QED BY <2>1, <2>2 DEF LimitsRespected, Rows
<1>10. OneLotPerName'
  <2>1. ASSUME ~book.allow_add, NEW k \in Codes, NEW l \in positions'[k], NEW n \in positions'[k]
        PROVE  l = n
    <3>1. CASE k = c
      BY <1>4, <1>6, <2>1, <3>1 DEF Held
    <3>2. CASE k # c
      BY <1>6, <2>1, <3>2 DEF LegalFits, OneLotPerName
    <3> QED BY <3>1, <3>2
  <2> QED BY <2>1 DEF OneLotPerName
<1>11. LatchesAreOld'
  <2>1. ASSUME NEW k \in Codes, NEW l \in positions'[k], l.pending # NoReason PROVE l.entry < day'
    <3>1. l \in positions[k]
      BY <1>3, <1>4, <1>6, <2>1
    <3> QED BY <2>1, <3>1 DEF LegalFits, LatchesAreOld
  <2> QED BY <2>1 DEF LatchesAreOld
<1> QED BY <1>9, <1>10, <1>11 DEF LegalFits

\* So is a scan.
LEMMA ScanIsLegal ==
  ASSUME DailyTypeOK, LegalFits, ScanHeld, UNCHANGED book
  PROVE  LegalFits'
<1>1. PICK c \in Codes : c = Head(todo)
  BY ScanMoves
<1>2. UNCHANGED <<day, phase, quotes>>
  BY ScanMoves
<1>3. CASE UNCHANGED <<cash, positions, trades>>
  BY <1>2, <1>3 DEF LegalFits, LimitsRespected, OneLotPerName, LatchesAreOld, Rows
<1>4. CASE Scanned(c)
  <2>1. /\ \A k \in Codes \ {c} : positions'[k] = positions[k]
        /\ \A m \in positions'[c] : KeptFrom(c, m)
        /\ (\A l, k \in positions[c] : l = k) => \A l, k \in positions'[c] : l = k
        /\ \A t \in trades' \ trades : ScanRow(c, t)
    BY <1>4 DEF Scanned
  <2>2. LimitsRespected'
    <3>1. ASSUME NEW u \in trades', u.side = "BUY" PROVE u.px < quotes'[u.code].up \/ phase' = "begin"
      <4>1. u \in trades
        BY <2>1, <3>1 DEF ScanRow
      <4> QED BY <1>2, <3>1, <4>1 DEF LegalFits, LimitsRespected, Rows
    <3>2. ASSUME NEW u \in trades', u.side = "SELL"
          PROVE  u.px > quotes'[u.code].down \/ u.why = "stop_loss:close" \/ phase' = "begin"
      <4>1. CASE u \in trades
        BY <1>2, <3>2, <4>1 DEF LegalFits, LimitsRespected, Rows
      <4>2. CASE u \notin trades
        BY <1>2, <2>1, <4>2 DEF ScanRow
      <4> QED BY <4>1, <4>2
    <3> QED BY <3>1, <3>2 DEF LimitsRespected, Rows
  <2>3. OneLotPerName'
    <3>1. ASSUME ~book.allow_add, NEW k \in Codes PROVE \A l, n \in positions'[k] : l = n
      <4>1. \A l, n \in positions[k] : l = n
        BY <3>1 DEF LegalFits, OneLotPerName
      <4> QED BY <2>1, <4>1
    <3> QED BY <3>1 DEF OneLotPerName
  <2>4. LatchesAreOld'
    <3>1. ASSUME NEW k \in Codes, NEW m \in positions'[k], m.pending # NoReason PROVE m.entry < day'
      <4>1. CASE k = c
        <5>1. PICK l \in positions[c] : \E v : RuledBy(v, l, quotes[c]) /\ ~v.sold /\ m = v.lot
          BY <2>1, <3>1, <4>1 DEF KeptFrom
        <5>2. (m.pending = l.pending \/ l.entry < day) /\ m.entry = l.entry
          BY <5>1 DEF RuledBy
        <5> QED BY <1>2, <3>1, <5>1, <5>2 DEF LegalFits, LatchesAreOld
      <4>2. CASE k # c
        BY <1>2, <2>1, <3>1, <4>2 DEF LegalFits, LatchesAreOld
      <4> QED BY <4>1, <4>2
    <3> QED BY <3>1 DEF LatchesAreOld
  <2> QED BY <2>2, <2>3, <2>4 DEF LegalFits
<1> QED BY <1>1, <1>3, <1>4, ScanMoves

\* Every step is.
LEMMA LegalStep ==
  ASSUME DailyTypes, LegalFits, [Next]_vars
  PROVE  LegalFits'
<1>1. DailyTypeOK /\ PassFits
  BY DEF DailyTypes
<1>2. CASE UNCHANGED vars
  BY <1>2 DEF vars, LegalFits, LimitsRespected, OneLotPerName, LatchesAreOld, Rows
<1>3. CASE BeginDay /\ UNCHANGED book
  BY <1>1, <1>3, BeginMoves DEF LegalFits, LimitsRespected, OneLotPerName, LatchesAreOld, Rows
<1>4. CASE ScanHeld /\ UNCHANGED book
  BY <1>1, <1>4, ScanIsLegal
<1>5. CASE BeginChases /\ UNCHANGED book
  BY <1>1, <1>5, ChasesMoves DEF LegalFits, LimitsRespected, OneLotPerName, LatchesAreOld, Rows
<1>6. CASE ChaseDue /\ UNCHANGED book
  <2>1. PICK c, verdict : c = Head(todo) /\ verdict = ChaseVerdict(c, quotes[c])
    OBVIOUS
  <2>2. /\ c \in Codes /\ todo' = Tail(todo) /\ phase = "chase" /\ todo # <<>>
        /\ UNCHANGED <<day, phase, quotes>>
        /\ verdict # "chase_buy" => UNCHANGED <<cash, positions, trades>>
    BY <1>1, <1>6, <2>1, ChaseMoves
  <2>3. CASE verdict # "chase_buy"
    BY <1>6, <2>2, <2>3 DEF LegalFits, LimitsRespected, OneLotPerName, LatchesAreOld, Rows
  <2>4. CASE verdict = "chase_buy"
    <3>1. c \in DOMAIN pending
      BY <1>1, <2>1, <2>2, PassOn DEF PassFits
    <3>2. PICK px, budget, id, lots : /\ px = quotes[c].close
                                      /\ Bought(c, px, budget, "chase:T+1", id, lots)
      BY <1>1, <1>6, <2>1, <2>4, <3>1, ChaseBuys
    <3>3. px < quotes[c].up /\ (Held(c) => book.allow_add)
      BY <1>1, <1>6, <2>1, <2>4, <3>1, <3>2, ChaseBuys
    <3>4. px \in Nat
      BY <1>1, <2>2, <3>2 DEF DailyTypeOK, ClockTypeOK, Quote
    <3>5. PICK why : why = "chase:T+1"
      OBVIOUS
    <3>6. Bought(c, px, budget, why, id, lots) /\ UNCHANGED <<book, day, phase, quotes>>
      BY <1>6, <2>2, <3>2, <3>5
    <3> QED BY <1>1, <2>2, <3>3, <3>4, <3>6, BoughtIsLegal
  <2> QED BY <2>3, <2>4
<1>7. CASE BeginPool /\ UNCHANGED book
  BY <1>1, <1>7, ListMoves DEF LegalFits, LimitsRespected, OneLotPerName, LatchesAreOld, Rows
<1>8. CASE PoolBuy /\ UNCHANGED book
  <2>1. PICK c, verdict : c = Head(todo) /\ verdict = PoolVerdict(c, quotes[c])
    OBVIOUS
  <2>2. /\ c \in Codes /\ UNCHANGED <<day, phase, quotes>>
        /\ verdict # "pool" => UNCHANGED <<cash, positions, trades>>
    BY <1>1, <1>8, <2>1, PoolMoves
  <2>3. CASE verdict # "pool"
    BY <1>8, <2>2, <2>3 DEF LegalFits, LimitsRespected, OneLotPerName, LatchesAreOld, Rows
  <2>4. CASE verdict = "pool"
    <3>1. PICK px, id, lots : px = quotes[c].close /\ Bought(c, px, per, "pool", id, lots)
      BY <1>1, <1>8, <2>1, <2>4, PoolBuys
    <3>2. px < quotes[c].up /\ (Held(c) => book.allow_add)
      BY <1>1, <1>8, <2>1, <2>4, <3>1, PoolBuys
    <3>3. px \in Nat
      BY <1>1, <2>2, <3>1 DEF DailyTypeOK, ClockTypeOK, Quote
    <3>4. PICK why, budget : why = "pool" /\ budget = per
      OBVIOUS
    <3>5. Bought(c, px, budget, why, id, lots) /\ UNCHANGED <<book, day, phase, quotes>>
      BY <1>8, <2>2, <3>1, <3>4
    <3> QED BY <1>1, <2>2, <3>2, <3>3, <3>5, BoughtIsLegal
  <2> QED BY <2>3, <2>4
<1>9. CASE EndDay /\ UNCHANGED book
  <2>1. day' = day + 1 /\ phase' = "begin" /\ UNCHANGED <<positions, trades>>
    BY <1>9 DEF EndDay
  <2>2. LimitsRespected' /\ OneLotPerName'
    BY <1>9, <2>1 DEF LegalFits, LimitsRespected, OneLotPerName, Rows
  <2>3. ASSUME NEW c \in Codes, NEW l \in positions[c], l.entry < day PROVE l.entry < day'
    <3>1. l.entry \in Nat /\ day \in Nat
      BY <1>1, <2>3 DEF DailyTypeOK, ClockTypeOK, HoldingsTypeOK, Lot, Days
    <3> QED BY <2>1, <2>3, <3>1
  <2>4. LatchesAreOld'
    BY <2>1, <2>3 DEF LegalFits, LatchesAreOld
  <2> QED BY <2>2, <2>4 DEF LegalFits
<1>10. CASE Finish /\ UNCHANGED book
  <2>1. phase = "pool" /\ UNCHANGED <<day, positions, trades, quotes>>
    BY <1>10 DEF Finish
  <2> QED BY <1>10, <2>1 DEF LegalFits, LimitsRespected, OneLotPerName, LatchesAreOld, Rows
<1> QED BY <1>2, <1>3, <1>4, <1>5, <1>6, <1>7, <1>8, <1>9, <1>10 DEF Next

\* The book begins without rows and lots.
LEMMA LegalInit ==
  ASSUME Init
  PROVE  LegalFits
BY DEF Init, LegalFits, LimitsRespected, OneLotPerName, LatchesAreOld, Rows

\* On every market and calendar and for every profile, nothing is bought at the upper
\* limit or sold at the lower one but by a stop at the close, and a book that does not
\* add holds one lot of a name.
THEOREM TradesAlwaysLegal == Spec => []TradesAreLegal
<1>1. Init => DailyTypes /\ LegalFits
  BY TypesInit, LegalInit
<1>2. DailyTypes /\ LegalFits /\ [Next]_vars => (DailyTypes /\ LegalFits)'
  BY TypesStep, LegalStep
<1>3. LegalFits => TradesAreLegal
  BY DEF LegalFits, TradesAreLegal
<1> QED BY <1>1, <1>2, <1>3, PTL DEF Spec
-----------------------------------------------------------------------------
(* Latched exits.                                                          *)

\* What a step does with the latched lot l of c.
LatchKept(c, l) ==
  LET q == quotes[c]
      scanned == phase = "scan" /\ todo # <<>> /\ Head(todo) = c /\ q.bar /\ q.board
      sale == [side |-> "SELL", code |-> c, px |-> q.open, lots |-> l.lots,
               lot |-> l.id, why |-> l.pending]
  IN l.pending # NoReason =>
       IF scanned /\ ~AtDown(q.open, q) THEN sale \in trades' ELSE l \in positions'[c]

\* Where no code is scanned, a lot that is still there is kept as it is latched.
LEMMA StillLatched ==
  ASSUME NEW c, NEW l, l \in positions'[c], phase # "scan" \/ todo = <<>> \/ Head(todo) # c
  PROVE  LatchKept(c, l)
BY DEF LatchKept

\* The scan of a code.
LEMMA ScanKeepsLatches ==
  ASSUME DailyTypeOK, LatchesAreOld, ScanHeld, NEW k \in Codes, NEW l \in positions[k]
  PROVE  LatchKept(k, l)
<1>1. PICK c \in Codes : c = Head(todo)
  BY ScanMoves
<1>2. phase = "scan" /\ todo # <<>>
  BY ScanMoves
<1>3. CASE ~(quotes[c].bar /\ quotes[c].board) /\ UNCHANGED positions
  <2>1. l \in positions'[k]
    BY <1>3
  <2> QED BY <1>1, <1>3, <2>1 DEF LatchKept
<1>4. CASE quotes[c].bar /\ quotes[c].board /\ Scanned(c)
  <2>1. CASE k # c
    <3>1. l \in positions'[k]
      BY <1>4, <2>1 DEF Scanned
    <3> QED BY <1>1, <2>1, <3>1, StillLatched
  <2>2. CASE k = c
    <3>1. PICK v : /\ RuledBy(v, l, quotes[c])
                   /\ IF v.sold THEN SellRow(c, v) \in trades' ELSE v.lot \in positions'[c]
      BY <1>4, <2>2 DEF Scanned, SoldOrKept
    <3>2. CASE l.pending # NoReason
      <4>1. l.entry < day
        BY <3>2 DEF LatchesAreOld
      <4>2. CASE AtDown(quotes[c].open, quotes[c])
        <5>1. ~v.sold /\ v.lot = l
          BY <3>1, <3>2, <4>1, <4>2 DEF RuledBy
        <5>2. l \in positions'[k]
          BY <2>2, <3>1, <5>1
        <5> QED BY <2>2, <4>2, <5>2 DEF LatchKept
      <4>3. CASE ~AtDown(quotes[c].open, quotes[c])
        <5>1. /\ v.sold /\ v.px = quotes[c].open /\ v.why = l.pending
              /\ v.lot.id = l.id /\ v.lot.lots = l.lots
          BY <3>1, <3>2, <4>1, <4>3 DEF RuledBy
        <5>2. PICK t : t = SellRow(c, v) /\ t \in trades'
          BY <3>1, <5>1
        <5>3. t = [side |-> "SELL", code |-> c, px |-> quotes[c].open, lots |-> l.lots,
                   lot |-> l.id, why |-> l.pending]
          BY <5>1, <5>2 DEF SellRow
        <5> QED BY <1>1, <1>2, <1>4, <2>2, <4>3, <5>2, <5>3 DEF LatchKept
      <4> QED BY <4>2, <4>3
    <3>3. CASE l.pending = NoReason
      BY <3>3 DEF LatchKept
    <3> QED BY <3>2, <3>3
  <2> QED BY <2>1, <2>2
<1> QED BY <1>1, <1>3, <1>4, ScanMoves

\* A purchase takes no lot away.
LEMMA BoughtKeeps ==
  ASSUME DailyTypeOK, NEW c \in Codes, NEW px, NEW budget, NEW why, NEW id, NEW lots,
         Bought(c, px, budget, why, id, lots), NEW k \in Codes, NEW l \in positions[k]
  PROVE  l \in positions'[k]
<1>1. PICK m : m = NewLot(id, lots, px)
  OBVIOUS
<1>2. positions \in [Codes -> SUBSET Lot] /\ positions' = [positions EXCEPT ![c] = @ \cup {m}]
  BY <1>1 DEF Bought, DailyTypeOK, HoldingsTypeOK
<1> QED BY <1>2

\* Every step keeps a latched lot, or sells it at the open.
LEMMA LatchStep ==
  ASSUME DailyTypes, LegalFits, [Next]_vars, NEW k \in Codes, NEW l \in positions[k]
  PROVE  LatchKept(k, l) \/ UNCHANGED vars
<1>1. DailyTypeOK /\ PassFits /\ LatchesAreOld
  BY DEF DailyTypes, LegalFits
<1>2. CASE BeginDay
  BY <1>1, <1>2, BeginMoves, StillLatched
<1>3. CASE ScanHeld
  BY <1>1, <1>3, ScanKeepsLatches
<1>4. CASE BeginChases
  BY <1>1, <1>4, ChasesMoves, StillLatched
<1>5. CASE ChaseDue
  <2>1. PICK c, verdict : c = Head(todo) /\ verdict = ChaseVerdict(c, quotes[c])
    OBVIOUS
  <2>2. /\ c \in Codes /\ todo' = Tail(todo) /\ phase = "chase" /\ todo # <<>>
        /\ verdict # "chase_buy" => UNCHANGED positions
    BY <1>1, <1>5, <2>1, ChaseMoves
  <2>3. CASE verdict # "chase_buy"
    BY <2>2, <2>3, StillLatched
  <2>4. CASE verdict = "chase_buy"
    <3>1. c \in DOMAIN pending
      BY <1>1, <2>1, <2>2, PassOn DEF PassFits
    <3>2. PICK px, budget, why, id, lots : Bought(c, px, budget, why, id, lots)
      BY <1>1, <1>5, <2>1, <2>4, <3>1, ChaseBuys
    <3>3. l \in positions'[k]
      BY <1>1, <2>2, <3>2, BoughtKeeps
    <3> QED BY <2>2, <3>3, StillLatched
  <2> QED BY <2>3, <2>4
<1>6. CASE BeginPool
  BY <1>1, <1>6, ListMoves, StillLatched
<1>7. CASE PoolBuy
  <2>1. PICK c, verdict : c = Head(todo) /\ verdict = PoolVerdict(c, quotes[c])
    OBVIOUS
  <2>2. c \in Codes /\ phase = "pool" /\ (verdict # "pool" => UNCHANGED positions)
    BY <1>1, <1>7, <2>1, PoolMoves
  <2>3. CASE verdict # "pool"
    BY <2>2, <2>3, StillLatched
  <2>4. CASE verdict = "pool"
    <3>1. PICK px, budget, why, id, lots : Bought(c, px, budget, why, id, lots)
      BY <1>1, <1>7, <2>1, <2>4, PoolBuys
    <3>2. l \in positions'[k]
      BY <1>1, <2>2, <3>1, BoughtKeeps
    <3> QED BY <2>2, <3>2, StillLatched
  <2> QED BY <2>3, <2>4
<1>8. CASE EndDay
  BY <1>8, StillLatched DEF EndDay
<1>9. CASE Finish
  BY <1>9, StillLatched DEF Finish
<1> QED BY <1>2, <1>3, <1>4, <1>5, <1>6, <1>7, <1>8, <1>9 DEF Next

\* For every market, calendar and profile: a latched exit is neither forgotten nor
\* replaced, and leaves at the first open above the lower limit, for its reason.
THEOREM LatchedExitsAlwaysLeave == Spec => LatchedExitsLeaveAtTheOpen
<1>1. Init => DailyTypes /\ LegalFits
  BY TypesInit, LegalInit
<1>2. DailyTypes /\ LegalFits /\ [Next]_vars => (DailyTypes /\ LegalFits)'
  BY TypesStep, LegalStep
<1> DEFINE Kept == \A c \in Codes : \A l \in positions[c] : LatchKept(c, l)
<1>3. DailyTypes /\ LegalFits /\ [Next]_vars => [Kept]_vars
  BY LatchStep
<1>4. [Kept]_vars =>
        [\A c \in Codes : \A l \in positions[c] :
           LET q == quotes[c]
               scanned == phase = "scan" /\ todo # <<>> /\ Head(todo) = c
                            /\ q.bar /\ q.board
               sale == [side |-> "SELL", code |-> c, px |-> q.open, lots |-> l.lots,
                        lot |-> l.id, why |-> l.pending]
           IN l.pending # NoReason =>
                IF scanned /\ ~AtDown(q.open, q)
                THEN sale \in trades' ELSE l \in positions'[c]]_vars
  BY Zenon DEF LatchKept
<1> QED BY <1>1, <1>2, <1>3, <1>4, PTL DEF Spec, LatchedExitsLeaveAtTheOpen
-----------------------------------------------------------------------------
(* The chases.                                                             *)

\* The signals of each fate.
Ended(f, k) == {s \in DOMAIN f : f[s] = k}

\* What the verdicts on a chase are, and which of them lets it wait.
LEMMA ChaseVerdicts ==
  ASSUME NEW c, NEW q, NEW v, v = ChaseVerdict(c, q)
  PROVE  /\ v \notin {"pending", "skip_limit_up", "chase_pending_eod", "chase_overwrite"}
         /\ v = "wait" => ~q.bar
<1>1. Gate(c, q) \in {"pass", "skip_buy_gate", "skip_add_loser"}
  BY DEF Gate
<1> QED BY <1>1 DEF ChaseVerdict

\* What the verdicts on a listed name are.
LEMMA PoolVerdicts ==
  ASSUME NEW c, NEW q, NEW v, v = PoolVerdict(c, q)
  PROVE  /\ v = "skip_limit_up" => q.bar
         /\ v \in Counters => v = "skip_limit_up"
<1>1. Gate(c, q) \in {"pass", "skip_buy_gate", "skip_add_loser"}
  BY DEF Gate
<1> QED BY <1>1 DEF PoolVerdict, Counters

\* An open signal that ends counts once, for its fate.
LEMMA EndedOne ==
  ASSUME NEW f, IsFiniteSet(DOMAIN f), NEW x \in DOMAIN f, NEW v, NEW k, f[x] # k,
         NEW g, g = Put(f, x, v)
  PROVE  /\ DOMAIN g = DOMAIN f
         /\ Ended(g, k) = IF v = k THEN Ended(f, k) \cup {x} ELSE Ended(f, k)
         /\ Cardinality(Ended(f, k)) \in Nat
         /\ Cardinality(Ended(g, k)) = Cardinality(Ended(f, k)) + (IF v = k THEN 1 ELSE 0)
<1>1. DOMAIN g = DOMAIN f /\ g[x] = v /\ \A s \in DOMAIN f \ {x} : g[s] = f[s]
  BY DEF Put
<1>2. PICK S, T : S = Ended(f, k) /\ T = Ended(g, k)
  OBVIOUS
<1>3. T = IF v = k THEN S \cup {x} ELSE S
  BY <1>1, <1>2 DEF Ended
<1>4. IsFiniteSet(S) /\ x \notin S /\ Cardinality(S) \in Nat
  BY <1>2, FS_Subset, FS_CardinalityType DEF Ended
<1>5. Cardinality(S \cup {x}) = Cardinality(S) + 1
  BY <1>4, FS_AddElement
<1> QED BY <1>1, <1>2, <1>3, <1>4, <1>5

\* A new signal adds to no other fate.
LEMMA EndedNone ==
  ASSUME NEW f, NEW x, x \notin DOMAIN f, NEW v, NEW g, g = Put(f, x, v), NEW k
  PROVE  Ended(g, k) = IF v = k THEN Ended(f, k) \cup {x} ELSE Ended(f, k)
<1>1. DOMAIN g = DOMAIN f \cup {x} /\ g[x] = v /\ \A s \in DOMAIN f : g[s] = f[s]
  BY DEF Put
<1> QED BY <1>1 DEF Ended

\* The age of pending entries, and of signals.
PendingAge ==
  \A c \in DOMAIN pending :
    /\ pending[c].sig <= day
    /\ phase \in {"begin", "scan", "chase"} => pending[c].sig < day
    /\ phase = "pool" /\ pending[c].sig = day => c \notin Ahead

FateAge ==
  \A s \in DOMAIN fate :
    /\ s[2] <= day
    /\ phase \in {"begin", "scan", "chase"} => s[2] < day
    /\ phase = "pool" /\ s[2] = day => s[1] \notin Ahead

\* A chase pass left no quoted entry behind.
ChasesLeft ==
  phase = "chase" => \A c \in DOMAIN pending : c \in Ahead \/ ~quotes[c].bar

ChaseFits == PendingAge /\ FateAge /\ ChasesLeft /\ ChasesAreJudgedOnce

\* FatesAgree, fate by fate.
LEMMA FatesParts ==
  FatesAgree <=>
    /\ book.limit_up_chase => stats["skip_limit_up"] = Cardinality(DOMAIN fate)
    /\ \A k \in Counters \ {"skip_limit_up", "chase_pending_eod"} :
         stats[k] = Cardinality(Ended(fate, k))
    /\ Ended(fate, "pending") = {Signal(c) : c \in DOMAIN pending}
BY DEF FatesAgree, Ended

\* The signals are finitely many.
LEMMA FatesFinite ==
  ASSUME DailyTypeOK
  PROVE  IsFiniteSet(DOMAIN fate) /\ Cardinality(DOMAIN fate) \in Nat
<1>1. IsFiniteSet(Codes) /\ IsFiniteSet(Days)
  BY FS_Interval, BookAssumption DEF ValidBook, Days
<1>2. IsFiniteSet(Codes \X Days)
  BY <1>1, FS_Product
<1> QED BY <1>2, FS_Subset, FS_CardinalityType DEF DailyTypeOK, SignalsTypeOK

\* A chase that waits changes nothing but the pass; one that is judged ends.
LEMMA ChaseFates ==
  ASSUME DailyTypeOK, FatesAgree, NoChaseIsOverwritten, NEW c \in DOMAIN pending,
         NEW v, v \notin {"pending", "skip_limit_up", "chase_pending_eod", "chase_overwrite", "wait"},
         pending' = Without(pending, c), fate' = Put(fate, Signal(c), v), stats' = Counted(v),
         UNCHANGED book
  PROVE  FatesAgree' /\ NoChaseIsOverwritten' /\ DOMAIN fate' = DOMAIN fate
<1>1. /\ book.limit_up_chase => stats["skip_limit_up"] = Cardinality(DOMAIN fate)
      /\ \A k \in Counters \ {"skip_limit_up", "chase_pending_eod"} :
           stats[k] = Cardinality(Ended(fate, k))
      /\ Ended(fate, "pending") = {Signal(k) : k \in DOMAIN pending}
  BY FatesParts
<1>2. PICK x : x = Signal(c)
  OBVIOUS
<1>3. x \in DOMAIN fate /\ fate[x] = "pending"
  BY <1>1, <1>2 DEF Ended
<1>4. fate' = Put(fate, x, v) /\ IsFiniteSet(DOMAIN fate)
  BY <1>2, FatesFinite
<1>5. /\ stats \in [Counters -> Nat]
      /\ stats' = [k \in Counters |-> stats[k] + (IF k = v THEN 1 ELSE 0)]
  BY DEF Counted, DailyTypeOK, SignalsTypeOK
<1>6. PICK g : g = fate'
  OBVIOUS
<1>7. DOMAIN g = DOMAIN fate
  BY <1>4, <1>6, <1>3 DEF Put
<1>8. stats'["skip_limit_up"] = stats["skip_limit_up"] /\ stats'["chase_overwrite"] = stats["chase_overwrite"]
  BY <1>5 DEF Counters
<1>9. ASSUME NEW k \in Counters \ {"skip_limit_up", "chase_pending_eod"}
      PROVE  stats'[k] = Cardinality(Ended(g, k))
  <2>1. k # "pending"
    BY DEF Counters
  <2>2. Cardinality(Ended(g, k)) = Cardinality(Ended(fate, k)) + (IF v = k THEN 1 ELSE 0)
    BY <1>3, <1>4, <1>6, <2>1, EndedOne
  <2>3. stats'[k] = stats[k] + (IF k = v THEN 1 ELSE 0)
    BY <1>5
  <2> QED BY <1>1, <2>2, <2>3
<1>10. Ended(g, "pending") = Ended(fate, "pending") \ {x}
  BY <1>3, <1>4, <1>6, <1>7 DEF Ended, Put
<1>11. {Signal(k) : k \in DOMAIN pending} \ {x} = {Signal(k) : k \in DOMAIN pending \ {c}}
  <2>1. \A k \in DOMAIN pending \ {c} : Signal(k) # x
    BY <1>2 DEF Signal
  <2> QED BY <1>2, <2>1
<1>12. {<<k, pending'[k].sig>> : k \in DOMAIN pending'} = {Signal(k) : k \in DOMAIN pending \ {c}}
  BY DEF Signal, Without
<1>13. Ended(g, "pending") = {<<k, pending'[k].sig>> : k \in DOMAIN pending'}
  BY <1>1, <1>10, <1>11, <1>12
<1>14. FatesAgree'
  <2>1. book'.limit_up_chase => stats'["skip_limit_up"] = Cardinality(DOMAIN g)
    BY <1>1, <1>7, <1>8
  <2> QED BY <1>6, <1>9, <1>13, <2>1 DEF FatesAgree, Ended, Signal
<1>15. NoChaseIsOverwritten'
  BY <1>8 DEF NoChaseIsOverwritten
<1> QED BY <1>6, <1>7, <1>14, <1>15

\* A new signal is open.
LEMMA QueueFates ==
  ASSUME DailyTypeOK, FatesAgree, NoChaseIsOverwritten, NEW c \in Codes, ~IsPending(c),
         Queue(c), <<c, day>> \notin DOMAIN fate, UNCHANGED book
  PROVE  FatesAgree' /\ NoChaseIsOverwritten' /\ DOMAIN fate' = DOMAIN fate \cup {<<c, day>>}
<1>1. /\ book.limit_up_chase => stats["skip_limit_up"] = Cardinality(DOMAIN fate)
      /\ \A k \in Counters \ {"skip_limit_up", "chase_pending_eod"} :
           stats[k] = Cardinality(Ended(fate, k))
      /\ Ended(fate, "pending") = {Signal(k) : k \in DOMAIN pending}
  BY FatesParts
<1>2. PICK x, g : x = <<c, day>> /\ g = fate'
  OBVIOUS
<1>3. g = Put(fate, x, "pending")
  BY <1>2 DEF Queue
<1>4. DOMAIN g = DOMAIN fate \cup {x}
  BY <1>3 DEF Put
<1>5. PICK n : n = Counted("skip_limit_up")
  OBVIOUS
<1>6. /\ stats \in [Counters -> Nat]
      /\ n = [k \in Counters |-> stats[k] + (IF k = "skip_limit_up" THEN 1 ELSE 0)]
      /\ stats' = [n EXCEPT !["chase_overwrite"] = @ + 0]
  BY <1>5 DEF Counted, DailyTypeOK, SignalsTypeOK, Queue
<1>7. /\ stats'["skip_limit_up"] = stats["skip_limit_up"] + 1
      /\ \A k \in Counters \ {"skip_limit_up"} : stats'[k] = stats[k]
      /\ "chase_overwrite" \in Counters
  BY <1>6 DEF Counters
<1>8. Cardinality(DOMAIN g) = Cardinality(DOMAIN fate) + 1
  BY <1>2, <1>4, FatesFinite, FS_AddElement
<1>9. ASSUME NEW k \in Counters \ {"skip_limit_up", "chase_pending_eod"}
      PROVE  stats'[k] = Cardinality(Ended(g, k))
  <2>1. k # "pending"
    BY DEF Counters
  <2>2. Ended(g, k) = Ended(fate, k)
    BY <1>2, <1>3, <2>1, EndedNone
  <2> QED BY <1>1, <1>7, <2>2
<1>10. Ended(g, "pending") = Ended(fate, "pending") \cup {x}
  BY <1>2, <1>3, EndedNone
<1>11. /\ DOMAIN pending' = DOMAIN pending \cup {c} /\ pending'[c].sig = day
       /\ \A k \in DOMAIN pending \ {c} : pending'[k] = pending[k]
  BY QueueFacts
<1>12. {<<k, pending'[k].sig>> : k \in DOMAIN pending'} = {Signal(k) : k \in DOMAIN pending} \cup {x}
  <2>1. c \notin DOMAIN pending
    BY DEF IsPending
  <2>2. \A k \in DOMAIN pending : <<k, pending'[k].sig>> = Signal(k)
    BY <1>11, <2>1 DEF Signal
  <2>3. <<c, pending'[c].sig>> = x
    BY <1>2, <1>11
  <2> QED BY <1>11, <2>2, <2>3
<1>13. FatesAgree'
  <2>1. book'.limit_up_chase => stats'["skip_limit_up"] = Cardinality(DOMAIN g)
    BY <1>1, <1>7, <1>8
  <2>2. Ended(g, "pending") = {<<k, pending'[k].sig>> : k \in DOMAIN pending'}
    BY <1>1, <1>10, <1>12
  <2> QED BY <1>2, <1>9, <2>1, <2>2 DEF FatesAgree, Ended, Signal
<1>14. NoChaseIsOverwritten'
  BY <1>7 DEF NoChaseIsOverwritten
<1> QED BY <1>2, <1>4, <1>13, <1>14
\* Where signals and pass stay as they are, so do their fates.
LEMMA ChaseFrame ==
  ASSUME ChaseFits, UNCHANGED <<book, day, phase, quotes, pending, stats, fate>>, Ahead' \subseteq Ahead,
         phase # "chase"
  PROVE  ChaseFits'
<1>1. PendingAge' /\ FateAge'
  BY DEF ChaseFits, PendingAge, FateAge
<1>2. ChasesLeft'
  BY DEF ChasesLeft
<1>3. UnquotedChasesWait'
  BY DEF ChaseFits, ChasesAreJudgedOnce, UnquotedChasesWait
<1>4. NoChaseIsOverwritten' /\ FatesAgree'
  BY DEF ChaseFits, ChasesAreJudgedOnce, NoChaseIsOverwritten, FatesAgree, Signal
<1> QED BY <1>1, <1>2, <1>3, <1>4 DEF ChaseFits, ChasesAreJudgedOnce

\* Where only the phase or the day moves on, the counts stay.
LEMMA CountFrame ==
  ASSUME ChaseFits, UNCHANGED <<book, pending, stats, fate>>
  PROVE  NoChaseIsOverwritten' /\ FatesAgree'
BY DEF ChaseFits, ChasesAreJudgedOnce, NoChaseIsOverwritten, FatesAgree, Signal

\* Judging a chase.
LEMMA ChaseKeepsFates ==
  ASSUME DailyTypes, ChaseFits, ChaseDue, UNCHANGED book
  PROVE  ChaseFits'
<1>1. DailyTypeOK /\ PassFits /\ PendingAge /\ FateAge /\ ChasesLeft
      /\ UnquotedChasesWait /\ NoChaseIsOverwritten /\ FatesAgree
  BY DEF DailyTypes, ChaseFits, ChasesAreJudgedOnce
<1>2. PICK c, v : c = Head(todo) /\ v = ChaseVerdict(c, quotes[c])
  OBVIOUS
<1>3. /\ c \in Codes /\ todo' = Tail(todo) /\ phase = "chase" /\ todo # <<>>
      /\ UNCHANGED <<day, phase, quotes>>
      /\ IF v # "wait"
         THEN pending' = Without(pending, c) /\ fate' = Put(fate, Signal(c), v)
         ELSE UNCHANGED <<pending, fate>>
      /\ stats' = Counted(v)
  BY <1>1, <1>2, ChaseMoves
<1>4. c \in Ahead /\ Ahead = Ahead' \cup {c} /\ c \in DOMAIN pending
  BY <1>1, <1>2, <1>3, PassOn DEF PassFits
<1>5. /\ v \notin {"pending", "skip_limit_up", "chase_pending_eod", "chase_overwrite"}
      /\ v = "wait" => ~quotes[c].bar
  <2>1. PICK q : q = quotes[c]
    OBVIOUS
  <2>2. v = ChaseVerdict(c, q)
    BY <1>2, <2>1
  <2> QED BY <2>1, <2>2, ChaseVerdicts
<1>6. UnquotedChasesWait'
  BY <1>3 DEF UnquotedChasesWait
<1>7. CASE v = "wait"
  <2>1. "wait" \notin Counters
    BY DEF Counters
  <2>2. UNCHANGED <<pending, fate>>
    BY <1>3, <1>7
  <2>3. stats' = stats
    BY <1>1, <1>3, <1>7, <2>1 DEF Counted, DailyTypeOK, SignalsTypeOK
  <2>4. PendingAge' /\ FateAge'
    BY <1>1, <1>3, <2>2 DEF PendingAge, FateAge
  <2>5. ChasesLeft'
    BY <1>1, <1>3, <1>4, <1>5, <1>7, <2>2 DEF ChasesLeft
  <2>6. NoChaseIsOverwritten' /\ FatesAgree'
    BY <2>2, <2>3, CountFrame
  <2> QED BY <1>6, <2>4, <2>5, <2>6 DEF ChaseFits, ChasesAreJudgedOnce
<1>8. CASE v # "wait"
  <2>1. pending' = Without(pending, c) /\ fate' = Put(fate, Signal(c), v)
    BY <1>3, <1>8
  <2>2. FatesAgree' /\ NoChaseIsOverwritten' /\ DOMAIN fate' = DOMAIN fate
    BY <1>1, <1>3, <1>4, <1>5, <1>8, <2>1, ChaseFates
  <2>3. /\ DOMAIN pending' = DOMAIN pending \ {c}
        /\ \A k \in DOMAIN pending' : pending'[k] = pending[k]
    BY <2>1 DEF Without
  <2>4. PendingAge' /\ FateAge'
    BY <1>1, <1>3, <2>2, <2>3 DEF PendingAge, FateAge
  <2>5. ChasesLeft'
    BY <1>1, <1>3, <1>4, <2>3 DEF ChasesLeft
  <2> QED BY <1>6, <2>2, <2>4, <2>5 DEF ChaseFits, ChasesAreJudgedOnce
<1> QED BY <1>7, <1>8

\* Buying a name of the list.
LEMMA PoolKeepsFates ==
  ASSUME DailyTypes, ChaseFits, PoolBuy, UNCHANGED book
  PROVE  ChaseFits'
<1>1. DailyTypeOK /\ PassFits /\ PendingAge /\ FateAge /\ ChasesLeft
      /\ UnquotedChasesWait /\ NoChaseIsOverwritten /\ FatesAgree
  BY DEF DailyTypes, ChaseFits, ChasesAreJudgedOnce
<1>2. PICK c, v : c = Head(todo) /\ v = PoolVerdict(c, quotes[c])
  OBVIOUS
<1>3. /\ c \in Codes /\ todo' = Tail(todo) /\ phase = "pool" /\ todo # <<>>
      /\ UNCHANGED <<day, phase, quotes>>
      /\ IF v = "skip_limit_up" /\ book.limit_up_chase
         THEN Queue(c)
         ELSE stats' = Counted(v) /\ UNCHANGED <<pending, fate>>
  BY <1>1, <1>2, PoolMoves
<1>4. c \in Ahead /\ c \notin Ahead' /\ Ahead' \subseteq Ahead
  BY <1>1, <1>2, <1>3, PassOn
<1>5. /\ v = "skip_limit_up" => quotes[c].bar
      /\ v \in Counters => v = "skip_limit_up"
  <2>1. PICK q : q = quotes[c]
    OBVIOUS
  <2>2. v = PoolVerdict(c, q)
    BY <1>2, <2>1
  <2> QED BY <2>1, <2>2, PoolVerdicts
<1>6. ChasesLeft'
  BY <1>3 DEF ChasesLeft
<1>7. CASE v = "skip_limit_up" /\ book.limit_up_chase
  <2>1. Queue(c) /\ quotes[c].bar
    BY <1>3, <1>5, <1>7
  <2>2. ~IsPending(c)
    <3>1. ASSUME c \in DOMAIN pending PROVE FALSE
      <4>1. pending[c].sig \in Nat /\ day \in Nat
        BY <1>1, <3>1 DEF DailyTypeOK, ClockTypeOK, SignalsTypeOK, Entry, Days
      <4>2. pending[c].sig <= day /\ pending[c].sig # day
        BY <1>1, <1>3, <1>4, <3>1 DEF PendingAge
      <4>3. pending[c].sig < day
        BY <4>1, <4>2
      <4> QED BY <1>1, <1>3, <2>1, <3>1, <4>3 DEF UnquotedChasesWait
    <3> QED BY <3>1 DEF IsPending
  <2>3. <<c, day>> \notin DOMAIN fate
    BY <1>1, <1>3, <1>4 DEF FateAge
  <2>4. FatesAgree' /\ NoChaseIsOverwritten' /\ DOMAIN fate' = DOMAIN fate \cup {<<c, day>>}
    BY <1>1, <1>3, <2>1, <2>2, <2>3, QueueFates
  <2>5. /\ DOMAIN pending' = DOMAIN pending \cup {c} /\ pending'[c].sig = day
        /\ \A k \in DOMAIN pending \ {c} : pending'[k] = pending[k]
    BY <1>1, <1>3, <2>1, QueueFacts
  <2>6. day \in Nat
    BY <1>1 DEF DailyTypeOK, ClockTypeOK, Days
  <2>7. PendingAge'
    <3>1. ASSUME NEW k \in DOMAIN pending'
          PROVE  pending'[k].sig <= day /\ (pending'[k].sig = day => k \notin Ahead')
      <4>1. CASE k = c
        BY <1>4, <2>5, <2>6, <4>1
      <4>2. CASE k # c
        BY <1>1, <1>3, <1>4, <2>5, <3>1, <4>2 DEF PendingAge
      <4> QED BY <4>1, <4>2
    <3> QED BY <1>3, <3>1 DEF PendingAge
  <2>8. FateAge'
    <3>1. ASSUME NEW s \in DOMAIN fate'
          PROVE  s[2] <= day /\ (s[2] = day => s[1] \notin Ahead')
      <4>1. CASE s = <<c, day>>
        BY <1>4, <2>6, <4>1
      <4>2. CASE s # <<c, day>>
        BY <1>1, <1>3, <1>4, <2>4, <3>1, <4>2 DEF FateAge
      <4> QED BY <4>1, <4>2
    <3> QED BY <1>3, <3>1 DEF FateAge
  <2>9. UnquotedChasesWait'
    <3>1. ASSUME NEW k \in DOMAIN pending', pending'[k].sig < day PROVE ~quotes[k].bar
      <4>1. k # c
        BY <2>5, <2>6, <3>1
      <4> QED BY <1>1, <1>3, <2>5, <3>1, <4>1 DEF UnquotedChasesWait
    <3> QED BY <1>3, <3>1 DEF UnquotedChasesWait
  <2> QED BY <1>6, <2>4, <2>7, <2>8, <2>9 DEF ChaseFits, ChasesAreJudgedOnce
<1>8. CASE ~(v = "skip_limit_up" /\ book.limit_up_chase)
  <2>1. stats' = Counted(v) /\ UNCHANGED <<pending, fate>>
    BY <1>3, <1>8
  <2>2. /\ stats \in [Counters -> Nat]
        /\ stats' = [k \in Counters |-> stats[k] + (IF k = v THEN 1 ELSE 0)]
    BY <1>1, <2>1 DEF Counted, DailyTypeOK, SignalsTypeOK
  <2>3. \A k \in Counters \ {"skip_limit_up"} : stats'[k] = stats[k]
    BY <1>5, <2>2
  <2>4. book.limit_up_chase => stats'["skip_limit_up"] = stats["skip_limit_up"]
    <3>1. book.limit_up_chase => v # "skip_limit_up"
      BY <1>8
    <3> QED BY <2>2, <3>1 DEF Counters
  <2>5. NoChaseIsOverwritten'
    BY <1>1, <2>3 DEF NoChaseIsOverwritten, Counters
  <2>6. FatesAgree'
    BY <1>1, <2>1, <2>3, <2>4 DEF FatesAgree, Signal
  <2>7. PendingAge' /\ FateAge'
    BY <1>1, <1>3, <1>4, <2>1 DEF PendingAge, FateAge
  <2>8. UnquotedChasesWait'
    BY <1>1, <1>3, <2>1 DEF UnquotedChasesWait
  <2> QED BY <1>6, <2>5, <2>6, <2>7, <2>8 DEF ChaseFits, ChasesAreJudgedOnce
<1> QED BY <1>7, <1>8

\* Every step keeps the chases in order.
LEMMA ChaseStep ==
  ASSUME DailyTypes, ChaseFits, [Next]_vars
  PROVE  ChaseFits'
<1>1. DailyTypeOK /\ PassFits /\ PendingAge /\ FateAge /\ ChasesLeft /\ UnquotedChasesWait
  BY DEF DailyTypes, ChaseFits, ChasesAreJudgedOnce
<1>2. CASE UNCHANGED vars
  BY <1>2 DEF vars, ChaseFits, PendingAge, FateAge, ChasesLeft, ChasesAreJudgedOnce, Ahead, Names,
              UnquotedChasesWait, NoChaseIsOverwritten, FatesAgree, Signal
<1>3. CASE BeginDay /\ UNCHANGED book
  <2>1. phase = "begin" /\ phase' = "scan" /\ UNCHANGED <<day, pending, stats, fate>>
    BY <1>1, <1>3, BeginMoves
  <2>2. PendingAge' /\ FateAge' /\ ChasesLeft' /\ UnquotedChasesWait'
    BY <1>1, <2>1 DEF PendingAge, FateAge, ChasesLeft, UnquotedChasesWait
  <2> QED BY <1>3, <2>1, <2>2, CountFrame DEF ChaseFits, ChasesAreJudgedOnce
<1>4. CASE ScanHeld /\ UNCHANGED book
  <2>1. /\ phase = "scan" /\ todo # <<>> /\ todo' = Tail(todo)
        /\ UNCHANGED <<day, phase, quotes, pending, stats, fate>>
    BY <1>1, <1>4, ScanMoves
  <2>2. Ahead' \subseteq Ahead
    BY <1>1, <2>1, PassOn
  <2> QED BY <1>4, <2>1, <2>2, ChaseFrame
<1>5. CASE BeginChases /\ UNCHANGED book
  <2>1. /\ phase = "scan" /\ phase' = "chase"
        /\ Ahead' = {c \in DOMAIN pending : day > pending[c].sig}
        /\ UNCHANGED <<day, quotes, pending, stats, fate>>
    BY <1>1, <1>5, ChasesMoves
  <2>2. PendingAge' /\ FateAge' /\ UnquotedChasesWait'
    BY <1>1, <2>1 DEF PendingAge, FateAge, UnquotedChasesWait
  <2>3. ChasesLeft'
    <3>1. ASSUME NEW c \in DOMAIN pending PROVE c \in Ahead'
      <4>1. pending[c].sig \in Nat /\ day \in Nat /\ pending[c].sig < day
        BY <1>1, <2>1 DEF PendingAge, DailyTypeOK, ClockTypeOK, SignalsTypeOK, Entry, Days
      <4>2. day > pending[c].sig
        BY <4>1
      <4> QED BY <2>1, <4>2
    <3> QED BY <2>1, <3>1 DEF ChasesLeft
  <2> QED BY <1>5, <2>1, <2>2, <2>3, CountFrame DEF ChaseFits, ChasesAreJudgedOnce
<1>6. CASE ChaseDue /\ UNCHANGED book
  BY <1>6, ChaseKeepsFates
<1>7. CASE BeginPool /\ UNCHANGED book
  <2>1. /\ phase = "chase" /\ todo = <<>> /\ phase' = "pool"
        /\ UNCHANGED <<day, quotes, pending, stats, fate>>
    BY <1>1, <1>7, ListMoves
  <2>2. Ahead = {}
    BY <2>1 DEF Ahead, Names
  <2>3. UnquotedChasesWait' /\ ChasesLeft'
    BY <1>1, <2>1, <2>2 DEF UnquotedChasesWait, ChasesLeft
  <2>4. day \in Nat
    BY <1>1 DEF DailyTypeOK, ClockTypeOK, Days
  <2>5. PendingAge'
    BY <1>1, <2>1, <2>4 DEF PendingAge, DailyTypeOK, SignalsTypeOK, Entry, Days
  <2>6. FateAge'
    <3>1. ASSUME NEW s \in DOMAIN fate PROVE s[2] <= day /\ s[2] # day
      <4>1. s[2] \in Nat /\ s[2] < day
        BY <1>1, <2>1 DEF FateAge, DailyTypeOK, SignalsTypeOK, Days
      <4> QED BY <2>4, <4>1
    <3> QED BY <2>1, <3>1 DEF FateAge
  <2> QED BY <1>7, <2>1, <2>3, <2>5, <2>6, CountFrame DEF ChaseFits, ChasesAreJudgedOnce
<1>8. CASE PoolBuy /\ UNCHANGED book
  BY <1>8, PoolKeepsFates
<1>9. CASE EndDay /\ UNCHANGED book
  <2>1. day' = day + 1 /\ phase' = "begin" /\ UNCHANGED <<pending, stats, fate>>
    BY <1>9 DEF EndDay
  <2>2. day \in Nat
    BY <1>1 DEF DailyTypeOK, ClockTypeOK, Days
  <2>3. PendingAge'
    <3>1. ASSUME NEW c \in DOMAIN pending PROVE pending[c].sig <= day' /\ pending[c].sig < day'
      <4>1. pending[c].sig \in Nat /\ pending[c].sig <= day
        BY <1>1 DEF PendingAge, DailyTypeOK, SignalsTypeOK, Entry, Days
      <4> QED BY <2>1, <2>2, <4>1
    <3> QED BY <2>1, <3>1 DEF PendingAge
  <2>4. FateAge'
    <3>1. ASSUME NEW s \in DOMAIN fate PROVE s[2] <= day' /\ s[2] < day'
      <4>1. s[2] \in Nat /\ s[2] <= day
        BY <1>1 DEF FateAge, DailyTypeOK, SignalsTypeOK, Days
      <4> QED BY <2>1, <2>2, <4>1
    <3> QED BY <2>1, <3>1 DEF FateAge
  <2>5. ChasesLeft' /\ UnquotedChasesWait'
    BY <2>1 DEF ChasesLeft, UnquotedChasesWait
  <2> QED BY <1>9, <2>1, <2>3, <2>4, <2>5, CountFrame DEF ChaseFits, ChasesAreJudgedOnce
<1>10. CASE Finish /\ UNCHANGED book
  <2>1. /\ phase = "pool" /\ phase' = "done"
        /\ stats' = [stats EXCEPT !["chase_pending_eod"] = Cardinality(DOMAIN pending)]
        /\ UNCHANGED <<day, todo, quotes, pending, fate>>
    BY <1>10 DEF Finish
  <2>2. \A k \in Counters \ {"chase_pending_eod"} : stats'[k] = stats[k]
    BY <1>1, <2>1 DEF DailyTypeOK, SignalsTypeOK
  <2>3. NoChaseIsOverwritten' /\ FatesAgree'
    BY <1>10, <2>1, <2>2 DEF ChaseFits, ChasesAreJudgedOnce, NoChaseIsOverwritten, FatesAgree,
                            Signal, Counters
  <2>4. PendingAge' /\ FateAge' /\ ChasesLeft'
    BY <1>1, <2>1 DEF PendingAge, FateAge, ChasesLeft
  <2>5. UnquotedChasesWait'
    BY <1>1, <2>1 DEF UnquotedChasesWait
  <2> QED BY <2>3, <2>4, <2>5 DEF ChaseFits, ChasesAreJudgedOnce
<1> QED BY <1>2, <1>3, <1>4, <1>5, <1>6, <1>7, <1>8, <1>9, <1>10 DEF Next

\* The book begins without signals.
LEMMA ChaseInit ==
  ASSUME Init
  PROVE  ChaseFits
<1>1. /\ phase = "begin" /\ DOMAIN pending = {} /\ DOMAIN fate = {}
      /\ stats = [k \in Counters |-> 0]
  BY DEF Init, Empty
<1>2. PendingAge /\ FateAge /\ ChasesLeft /\ UnquotedChasesWait
  BY <1>1 DEF PendingAge, FateAge, ChasesLeft, UnquotedChasesWait
<1>3. NoChaseIsOverwritten
  BY <1>1 DEF NoChaseIsOverwritten, Counters
<1>4. FatesAgree
  <2>1. Cardinality({}) = 0
    BY FS_EmptySet
  <2>2. stats["skip_limit_up"] = Cardinality(DOMAIN fate)
    BY <1>1, <2>1 DEF Counters
  <2>3. ASSUME NEW k \in Counters PROVE stats[k] = Cardinality(Ended(fate, k))
    <3>1. Ended(fate, k) = {}
      BY <1>1 DEF Ended
    <3> QED BY <1>1, <2>1, <3>1
  <2>4. Ended(fate, "pending") = {Signal(c) : c \in DOMAIN pending}
    BY <1>1 DEF Ended
  <2> QED BY <2>2, <2>3, <2>4, FatesParts
<1> QED BY <1>2, <1>3, <1>4 DEF ChaseFits, ChasesAreJudgedOnce

\* On every market and calendar: a pending chase waits for its first quoted day, is
\* judged then, once, nothing takes its place, and the counters count the fates.
THEOREM ChasesAlwaysJudgedOnce == Spec => []ChasesAreJudgedOnce
<1>1. Init => DailyTypes /\ ChaseFits
  BY TypesInit, ChaseInit
<1>2. DailyTypes /\ ChaseFits /\ [Next]_vars => (DailyTypes /\ ChaseFits)'
  BY TypesStep, ChaseStep
<1>3. ChaseFits => ChasesAreJudgedOnce
  BY DEF ChaseFits
<1> QED BY <1>1, <1>2, <1>3, PTL DEF Spec
-----------------------------------------------------------------------------
(* The quota.                                                              *)

\* What a set of rows has cost.
Spent(S) == Total([t \in S |-> Debit(t.lots, t.px)])

\* Rows cost money, no rows nothing, and one more row its own debit.
LEMMA SpentFacts ==
  ASSUME NEW S, S \subseteq Row, IsFiniteSet(S), NEW t \in Row, t \notin S
  PROVE  /\ Spent(S) \in Nat /\ Debit(t.lots, t.px) \in Nat
         /\ Spent(S \cup {t}) = Spent(S) + Debit(t.lots, t.px)
<1>1. ASSUME NEW u \in Row PROVE Debit(u.lots, u.px) \in Nat
  <2>1. PICK lots \in Nat, px \in Nat : lots = u.lots /\ px = u.px
    BY DEF Row
  <2>2. Debit(lots, px) \in Nat
    BY MoneyType
  <2> QED BY <2>1, <2>2
<1>2. PICK f : f = [u \in S |-> Debit(u.lots, u.px)]
  OBVIOUS
<1>3. f \in [S -> Nat]
  BY <1>1, <1>2
<1>4. PICK d \in Nat : d = Debit(t.lots, t.px)
  BY <1>1
<1>5. Total(f) \in Nat /\ Total(Put(f, t, d)) = Total(f) + d
  BY <1>3, TotalType, TotalPut
<1>6. Put(f, t, d) = [u \in S \cup {t} |-> Debit(u.lots, u.px)]
  BY <1>2, <1>4 DEF Put
<1> QED BY <1>2, <1>4, <1>5, <1>6 DEF Spent

\* Likewise.
LEMMA SpentNothing == Spent({}) = 0
<1>1. [t \in {} |-> Debit(t.lots, t.px)] = Empty
  BY DEF Empty
<1> QED BY <1>1, TotalEmpty DEF Spent

\* What was bought today is still held; nothing is bought before the scan is over, nor
\* for the list before the chases are.
BuysFit ==
  /\ phase = "scan" => Rows("BUY") = {}
  /\ phase = "chase" => PoolRows = {}
  /\ phase \in {"chase", "pool"} =>
       \A t \in Rows("BUY") : \E l \in positions[t.code] : l.id = t.lot

\* The names still to come find their budgets, in the quota and in the cash.
BudgetsFit ==
  book.industry =>
    /\ PoolSpent <= book.daily_quota
    /\ phase = "pool" /\ per > 0 =>
         PoolSpent + per * Len(todo) <= book.daily_quota /\ per * Len(todo) <= cash

QuotaFits == BuysFit /\ BudgetsFit

\* The rows of the list.
LEMMA PoolRowsFacts ==
  ASSUME DailyTypeOK
  PROVE  /\ PoolRows = {t \in trades : t.side = "BUY" /\ t.why = "pool"}
         /\ PoolRows \subseteq Row /\ IsFiniteSet(PoolRows) /\ PoolSpent = Spent(PoolRows)
<1>1. PoolRows = {t \in trades : t.side = "BUY" /\ t.why = "pool"}
  BY DEF PoolRows, Rows
<1>2. PoolRows \subseteq trades /\ trades \subseteq Row /\ IsFiniteSet(trades)
  BY <1>1 DEF DailyTypeOK, HoldingsTypeOK
<1> QED BY <1>1, <1>2, FS_Subset DEF PoolSpent, Spent

\* The budgets are amounts.
LEMMA BudgetTypes ==
  ASSUME DailyTypeOK
  PROVE  /\ book.daily_quota \in Nat /\ cash \in Int /\ per \in Int
         /\ PoolSpent \in Nat /\ Len(todo) \in Nat
<1>1. book \in Profile /\ cash \in Int /\ per \in Int /\ Len(todo) \in Nat
  BY BookAssumption DEF ValidBook, DailyTypeOK, ClockTypeOK, HoldingsTypeOK
<1>2. PICK S, f : S = PoolRows /\ f = [t \in S |-> Debit(t.lots, t.px)]
  OBVIOUS
<1>3. S \subseteq Row /\ IsFiniteSet(S) /\ PoolSpent = Total(f)
  BY <1>2, PoolRowsFacts DEF PoolSpent
<1>4. ASSUME NEW t \in S PROVE Debit(t.lots, t.px) \in Nat
  <2>1. PICK lots \in Nat, px \in Nat : lots = t.lots /\ px = t.px
    BY <1>3 DEF Row
  <2>2. Debit(lots, px) \in Nat
    BY MoneyType
  <2> QED BY <2>1, <2>2
<1>5. f \in [S -> Nat]
  BY <1>2, <1>4
<1>6. Total(f) \in Nat
  BY <1>3, <1>5, TotalType
<1> QED BY <1>1, <1>3, <1>6 DEF Profile

\* The row of a purchase is new: its lot was not there.
LEMMA BoughtRowIsNew ==
  ASSUME DailyTypeOK, BuysFit, phase \in {"chase", "pool"}, NEW c \in Codes, NEW px \in Nat, NEW budget,
         NEW why \in RowReasons, NEW id, NEW lots, Bought(c, px, budget, why, id, lots), phase' = phase,
         NEW t, t = NewRow(c, id, lots, px, why)
  PROVE  /\ t \in Row /\ t \notin trades /\ trades' = trades \cup {t}
         /\ t.side = "BUY" /\ t.why = why /\ t.lots = lots /\ t.px = px
         /\ \A u \in trades' : u.side = "BUY" => \E l \in positions'[u.code] : l.id = u.lot
<1>1. /\ t.side = "BUY" /\ t.code = c /\ t.px = px /\ t.lots = lots /\ t.lot = id /\ t.why = why
      /\ t = [side |-> "BUY", code |-> c, px |-> px, lots |-> lots, lot |-> id, why |-> why]
  BY DEF NewRow
<1>2. /\ id \in Nat /\ lots \in Nat \ {0} /\ \A l \in positions[c] : l.id # id
      /\ trades' = trades \cup {t}
  BY DEF Bought
<1>3. t \in Row
  BY <1>1, <1>2 DEF Row
<1>4. \A u \in trades : u.side = "BUY" => u.code \in Codes /\ \E l \in positions[u.code] : l.id = u.lot
  BY DEF BuysFit, Rows, DailyTypeOK, HoldingsTypeOK, Row
<1>5. t \notin trades
  BY <1>1, <1>2, <1>4
<1>6. PICK m : m = NewLot(id, lots, px)
  OBVIOUS
<1>7. m.id = id /\ positions \in [Codes -> SUBSET Lot]
      /\ positions' = [positions EXCEPT ![c] = @ \cup {m}]
  BY <1>6 DEF NewLot, Bought, DailyTypeOK, HoldingsTypeOK
<1>8. m \in positions'[c] /\ \A k \in Codes : positions[k] \subseteq positions'[k]
  BY <1>7
<1>9. ASSUME NEW u \in trades', u.side = "BUY" PROVE \E l \in positions'[u.code] : l.id = u.lot
  <2>1. CASE u = t
    BY <1>1, <1>7, <1>8, <2>1
  <2>2. CASE u # t
    BY <1>2, <1>4, <1>8, <1>9, <2>2
  <2> QED BY <2>1, <2>2
<1> QED BY <1>1, <1>2, <1>3, <1>5, <1>9

\* Where no row is added, no lot bought and no budget used, the quota holds on.
LEMMA QuotaFrame ==
  ASSUME DailyTypeOK, QuotaFits, UNCHANGED <<book, cash, positions, trades>>,
         phase' \in {"begin", "done"} \/ (phase' = phase /\ UNCHANGED <<per, todo>>)
  PROVE  QuotaFits'
<1>1. PoolRows' = PoolRows /\ PoolSpent' = PoolSpent /\ Rows("BUY")' = Rows("BUY")
  BY DEF PoolRows, PoolSpent, Rows
<1> QED BY <1>1 DEF QuotaFits, BuysFit, BudgetsFit, Rows
\* One name fewer needs one budget less.
LEMMA OneNameLess ==
  ASSUME NEW p \in Int, p > 0, NEW n \in Nat, n # 0
  PROVE  p * n = p * (n - 1) + p /\ p * n \in Nat /\ p * (n - 1) \in Nat
<1>1. PICK m \in Nat : m = n - 1
  OBVIOUS
<1>2. p \in Nat /\ n = m + 1
  BY <1>1
<1>3. p * m \in Nat
  BY <1>2, ProductType
<1>4. p * (m + 1) = p * m + p
  OBVIOUS
<1> QED BY <1>1, <1>2, <1>3, <1>4

\* A scan adds no row of a purchase.
LEMMA ScanKeepsQuota ==
  ASSUME DailyTypeOK, QuotaFits, ScanHeld, UNCHANGED book
  PROVE  QuotaFits'
<1>1. phase = "scan" /\ phase' = phase
  BY ScanMoves
<1>2. \A t \in trades' \ trades : t.side # "BUY"
  BY ScanMoves DEF Scanned, ScanRow
<1>3. trades \subseteq trades'
  BY ScanMoves DEF Scanned
<1>4. PICK S, T : /\ S = {t \in trades : t.side = "BUY"} /\ T = {t \in trades' : t.side = "BUY"}
  OBVIOUS
<1>5. S = T
  BY <1>2, <1>3, <1>4
<1>6. Rows("BUY") = S /\ Rows("BUY")' = T
  BY <1>4 DEF Rows
<1>7. PoolRows' = PoolRows
  BY <1>5, <1>6 DEF PoolRows
<1>8. PoolSpent' = PoolSpent
  BY <1>7 DEF PoolSpent
<1> QED BY <1>1, <1>5, <1>6, <1>8 DEF QuotaFits, BuysFit, BudgetsFit

\* A chase buys for its own budget, not for the list's.
LEMMA ChaseKeepsQuota ==
  ASSUME DailyTypes, QuotaFits, ChaseDue, UNCHANGED book
  PROVE  QuotaFits'
<1>1. DailyTypeOK /\ PassFits /\ BuysFit /\ BudgetsFit
  BY DEF DailyTypes, QuotaFits
<1>2. PICK c, verdict : c = Head(todo) /\ verdict = ChaseVerdict(c, quotes[c])
  OBVIOUS
<1>3. /\ c \in Codes /\ todo' = Tail(todo) /\ phase = "chase" /\ todo # <<>> /\ phase' = phase
      /\ verdict # "chase_buy" => UNCHANGED <<cash, positions, trades>>
  BY <1>1, <1>2, ChaseMoves
<1>4. CASE verdict # "chase_buy"
  <2>1. PoolRows' = PoolRows /\ PoolSpent' = PoolSpent /\ Rows("BUY")' = Rows("BUY")
    BY <1>3, <1>4 DEF PoolRows, PoolSpent, Rows
  <2> QED BY <1>1, <1>3, <1>4, <2>1 DEF QuotaFits, BuysFit, BudgetsFit
<1>5. CASE verdict = "chase_buy"
  <2>1. c \in DOMAIN pending
    BY <1>1, <1>2, <1>3, PassOn DEF PassFits
  <2>2. PICK px, budget, id, lots : /\ px = quotes[c].close
                                    /\ Bought(c, px, budget, "chase:T+1", id, lots)
    BY <1>1, <1>2, <1>5, <2>1, ChaseBuys
  <2>3. px \in Nat
    BY <1>1, <1>3, <2>2 DEF DailyTypeOK, ClockTypeOK, Quote
  <2>4. PICK why \in RowReasons : why = "chase:T+1"
    BY DEF RowReasons
  <2>5. PICK t : t = NewRow(c, id, lots, px, why)
    OBVIOUS
  <2>6. Bought(c, px, budget, why, id, lots) /\ phase \in {"chase", "pool"}
    BY <1>3, <2>2, <2>4
  <2>7. /\ trades' = trades \cup {t} /\ t.why = why
        /\ \A u \in trades' : u.side = "BUY" => \E l \in positions'[u.code] : l.id = u.lot
    BY <1>1, <1>3, <2>3, <2>5, <2>6, BoughtRowIsNew
  <2>8. PICK S, T : /\ S = {u \in trades : u.side = "BUY" /\ u.why = "pool"}
                    /\ T = {u \in trades' : u.side = "BUY" /\ u.why = "pool"}
    OBVIOUS
  <2>9. T = S
    BY <2>4, <2>7, <2>8
  <2>10. PoolRows = S /\ PoolRows' = T
    BY <2>8 DEF PoolRows, Rows
  <2>11. PoolSpent' = PoolSpent
    BY <2>9, <2>10 DEF PoolSpent
  <2>12. BuysFit'
    BY <1>1, <1>3, <2>7, <2>9, <2>10 DEF BuysFit, Rows
  <2>13. BudgetsFit'
    BY <1>1, <1>3, <2>11 DEF BudgetsFit
  <2> QED BY <2>12, <2>13 DEF QuotaFits
<1> QED BY <1>4, <1>5

\* A name of the list takes its budget at most, and leaves the others theirs.
LEMMA PoolKeepsQuota ==
  ASSUME DailyTypes, QuotaFits, PoolBuy, UNCHANGED book
  PROVE  QuotaFits'
<1>1. DailyTypeOK /\ PassFits /\ BuysFit /\ BudgetsFit
  BY DEF DailyTypes, QuotaFits
<1>2. PICK c, verdict : c = Head(todo) /\ verdict = PoolVerdict(c, quotes[c])
  OBVIOUS
<1>3. /\ c \in Codes /\ todo' = Tail(todo) /\ phase = "pool" /\ todo # <<>> /\ phase' = phase /\ per' = per
      /\ verdict # "pool" => UNCHANGED <<cash, positions, trades>>
  BY <1>1, <1>2, PoolMoves
<1>4. PICK quota \in Nat, money \in Int, p \in Int, spent \in Nat, n \in Nat :
        quota = book.daily_quota /\ money = cash /\ p = per /\ spent = PoolSpent /\ n = Len(todo)
  BY <1>1, BudgetTypes
<1>5. n # 0 /\ Len(todo') = n - 1
  <2>1. PICK s \in Seq(Codes) : s = todo /\ s # <<>>
    BY <1>1, <1>3 DEF DailyTypeOK, ClockTypeOK
  <2>2. Len(s) \in Nat /\ Len(Tail(s)) = Len(s) - 1 /\ Len(Tail(s)) \in Nat
    BY <2>1, TailFacts
  <2> QED BY <1>3, <1>4, <2>1, <2>2
<1>6. book.industry => spent <= quota /\ (p > 0 => spent + p * n <= quota /\ p * n <= money)
  BY <1>1, <1>3, <1>4 DEF BudgetsFit
<1>7. p > 0 => p * n = p * (n - 1) + p /\ p * n \in Nat /\ p * (n - 1) \in Nat
  BY <1>4, <1>5, OneNameLess
<1>8. CASE verdict # "pool"
  <2>1. PoolRows' = PoolRows /\ PoolSpent' = PoolSpent /\ Rows("BUY")' = Rows("BUY")
    BY <1>3, <1>8 DEF PoolRows, PoolSpent, Rows
  <2>2. BuysFit'
    BY <1>1, <1>3, <1>8, <2>1 DEF BuysFit
  <2>3. book.industry => spent <= quota /\ (p > 0 => spent + p * (n - 1) <= quota /\ p * (n - 1) <= money)
    <3>1. CASE p > 0
      <4>1. PICK all \in Nat, less \in Nat : all = p * n /\ less = p * (n - 1) /\ all = less + p
        BY <1>7, <3>1
      <4> QED BY <1>4, <1>6, <3>1, <4>1
    <3> QED BY <1>6, <3>1
  <2>4. BudgetsFit'
    BY <1>3, <1>4, <1>5, <1>8, <2>1, <2>3 DEF BudgetsFit
  <2> QED BY <2>2, <2>4 DEF QuotaFits
<1>9. CASE verdict = "pool"
  <2>1. PICK px, id, lots : px = quotes[c].close /\ Bought(c, px, per, "pool", id, lots)
    BY <1>1, <1>2, <1>9, PoolBuys
  <2>2. px \in Nat
    BY <1>1, <1>3, <2>1 DEF DailyTypeOK, ClockTypeOK, Quote
  <2>3. PICK why \in RowReasons, budget \in Int : why = "pool" /\ budget = per
    BY <1>4 DEF RowReasons
  <2>4. PICK t : t = NewRow(c, id, lots, px, why)
    OBVIOUS
  <2>5. Bought(c, px, budget, why, id, lots) /\ phase \in {"chase", "pool"}
    BY <1>3, <2>1, <2>3
  <2>6. /\ t \in Row /\ t \notin trades /\ trades' = trades \cup {t}
        /\ t.side = "BUY" /\ t.why = why /\ t.lots = lots /\ t.px = px
        /\ \A u \in trades' : u.side = "BUY" => \E l \in positions'[u.code] : l.id = u.lot
    BY <1>1, <1>3, <2>2, <2>4, <2>5, BoughtRowIsNew
  <2>7. PICK S, T : /\ S = {u \in trades : u.side = "BUY" /\ u.why = "pool"}
                    /\ T = {u \in trades' : u.side = "BUY" /\ u.why = "pool"}
    OBVIOUS
  <2>8. T = S \cup {t} /\ t \notin S
    BY <2>3, <2>6, <2>7
  <2>9. PoolRows = S /\ PoolRows' = T
    BY <2>7 DEF PoolRows, Rows
  <2>10. S \subseteq Row /\ IsFiniteSet(S) /\ PoolSpent = Spent(S)
    BY <1>1, <2>9, PoolRowsFacts
  <2>11. PICK d \in Nat : d = Debit(lots, px) /\ Spent(T) = spent + d
    BY <1>4, <2>6, <2>8, <2>10, SpentFacts
  <2>12. PoolSpent' = spent + d
    BY <2>9, <2>11 DEF PoolSpent, Spent
  <2>13. p > 0 /\ cash' = money - d /\ (book.industry => d <= p)
    BY <1>4, <2>1, <2>11 DEF Bought
  <2>14. PICK all \in Nat, less \in Nat : all = p * n /\ less = p * (n - 1) /\ all = less + p
    BY <1>7, <2>13
  <2>15. book.industry => /\ spent + d <= quota
                          /\ spent + d + p * (n - 1) <= quota /\ p * (n - 1) <= money - d
    BY <1>4, <1>6, <2>13, <2>14
  <2>16. BuysFit'
    BY <1>3, <2>6 DEF BuysFit, Rows
  <2>17. BudgetsFit'
    BY <1>3, <1>4, <1>5, <2>12, <2>13, <2>15 DEF BudgetsFit
  <2> QED BY <2>16, <2>17 DEF QuotaFits
<1> QED BY <1>8, <1>9

\* Every step keeps to the quota.
LEMMA QuotaStep ==
  ASSUME DailyTypes, QuotaFits, [Next]_vars
  PROVE  QuotaFits'
<1>1. DailyTypeOK /\ PassFits /\ BuysFit /\ BudgetsFit
  BY DEF DailyTypes, QuotaFits
<1>2. CASE UNCHANGED vars
  BY <1>1, <1>2, QuotaFrame DEF vars
<1>3. CASE BeginDay /\ UNCHANGED book
  <2>1. phase' = "scan" /\ trades' = {}
    BY <1>1, <1>3, BeginMoves
  <2>2. Rows("BUY")' = {} /\ PoolRows' = {}
    BY <2>1 DEF Rows, PoolRows
  <2>3. PoolSpent' = 0
    BY <2>2, SpentNothing DEF PoolSpent, Spent
  <2>4. book.daily_quota \in Nat
    BY <1>1, BudgetTypes
  <2> QED BY <1>3, <2>1, <2>2, <2>3, <2>4 DEF QuotaFits, BuysFit, BudgetsFit
<1>4. CASE ScanHeld /\ UNCHANGED book
  BY <1>1, <1>4, ScanKeepsQuota
<1>5. CASE BeginChases /\ UNCHANGED book
  <2>1. phase = "scan" /\ phase' = "chase" /\ UNCHANGED <<cash, positions, per, trades>>
    BY <1>1, <1>5, ChasesMoves
  <2>2. Rows("BUY") = {} /\ Rows("BUY")' = {} /\ PoolRows' = {} /\ PoolSpent' = PoolSpent
    BY <1>1, <2>1 DEF BuysFit, Rows, PoolRows, PoolSpent
  <2> QED BY <1>1, <1>5, <2>1, <2>2 DEF QuotaFits, BuysFit, BudgetsFit
<1>6. CASE ChaseDue /\ UNCHANGED book
  BY <1>6, ChaseKeepsQuota
<1>7. CASE BeginPool /\ UNCHANGED book
  <2>1. /\ phase = "chase" /\ phase' = "pool" /\ per' \in Int /\ Len(todo') \in Nat
        /\ book.industry /\ per' > 0 =>
             per' * Len(todo') <= book.daily_quota /\ per' * Len(todo') <= cash
        /\ UNCHANGED <<cash, positions, trades>>
    BY <1>1, <1>7, ListMoves
  <2>2. PoolRows = {}
    BY <1>1, <2>1 DEF BuysFit
  <2>3. PoolSpent' = 0 /\ PoolRows' = {} /\ Rows("BUY")' = Rows("BUY")
    BY <2>1, <2>2, SpentNothing DEF PoolSpent, Spent, PoolRows, Rows
  <2>4. BuysFit'
    BY <1>1, <2>1, <2>3 DEF BuysFit
  <2>5. book.daily_quota \in Nat
    BY <1>1, BudgetTypes
  <2>6. book.industry => /\ PoolSpent' <= book.daily_quota
                         /\ per' > 0 => /\ PoolSpent' + per' * Len(todo') <= book.daily_quota
                                        /\ per' * Len(todo') <= cash
    <3>1. PICK p \in Int, n \in Nat : p = per' /\ n = Len(todo')
      BY <2>1
    <3>2. PICK all \in Int : all = p * n
      OBVIOUS
    <3>3. book.industry /\ p > 0 => all <= book.daily_quota /\ all <= cash
      BY <2>1, <3>1, <3>2
    <3> QED BY <2>3, <2>5, <3>1, <3>2, <3>3
  <2>7. BudgetsFit'
    BY <1>7, <2>1, <2>6 DEF BudgetsFit
  <2> QED BY <2>4, <2>7 DEF QuotaFits
<1>8. CASE PoolBuy /\ UNCHANGED book
  BY <1>8, PoolKeepsQuota
<1>9. CASE EndDay /\ UNCHANGED book
  BY <1>1, <1>9, QuotaFrame DEF EndDay
<1>10. CASE Finish /\ UNCHANGED book
  BY <1>1, <1>10, QuotaFrame DEF Finish
<1> QED BY <1>2, <1>3, <1>4, <1>5, <1>6, <1>7, <1>8, <1>9, <1>10 DEF Next

\* The book begins without rows.
LEMMA QuotaInit ==
  ASSUME Init
  PROVE  QuotaFits
<1>1. phase = "begin" /\ trades = {} /\ book \in Profile
  BY BookAssumption DEF Init, ValidBook
<1>2. Rows("BUY") = {} /\ PoolRows = {} /\ PoolSpent = 0
  BY <1>1, SpentNothing DEF Rows, PoolRows, PoolSpent, Spent
<1> QED BY <1>1, <1>2 DEF QuotaFits, BuysFit, BudgetsFit, Profile

\* On every market and calendar, and whatever the list: the industry profile spends no
\* more than the quota on it, fees included, and leaves every name still to come its
\* whole budget in cash.
THEOREM QuotaAlwaysHolds == Spec => []QuotaHolds
<1>1. Init => DailyTypes /\ QuotaFits
  BY TypesInit, QuotaInit
<1>2. DailyTypes /\ QuotaFits /\ [Next]_vars => (DailyTypes /\ QuotaFits)'
  BY TypesStep, QuotaStep
<1>3. DailyTypes /\ QuotaFits => QuotaHolds
  <2>1. ASSUME DailyTypes, QuotaFits, book.industry
        PROVE  /\ PoolSpent <= book.daily_quota
               /\ phase = "pool" /\ per > 0 => cash >= per * Len(todo)
    <3>1. cash \in Int /\ per \in Int /\ Len(todo) \in Nat
      BY <2>1, BudgetTypes DEF DailyTypes
    <3>2. PICK all \in Int : all = per * Len(todo)
      <4>1. PICK p \in Int, n \in Nat : p = per /\ n = Len(todo)
        BY <3>1
      <4>2. p * n \in Int
        OBVIOUS
      <4> QED BY <4>1, <4>2
    <3>3. PoolSpent <= book.daily_quota /\ (phase = "pool" /\ per > 0 => all <= cash)
      BY <2>1, <3>2 DEF QuotaFits, BudgetsFit
    <3> QED BY <3>1, <3>2, <3>3
  <2> QED BY <2>1 DEF QuotaHolds
<1> QED BY <1>1, <1>2, <1>3, PTL DEF Spec
=============================================================================
