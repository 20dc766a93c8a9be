---------------------------- MODULE GroupsProofs ----------------------------
(***************************************************************************)
(* The signal groups, for every calendar, ladder, cap and profile.  Three  *)
(* things have to be known together: a lot's id was given out by its group *)
(* and the group's counter is past it; a latched group's lots are locked   *)
(* exactly when they entered on the day of the decision or later; and a    *)
(* scan at a trading open has every group that is due still ahead of it.   *)
(***************************************************************************)
EXTENDS SignalGroups, TotalsProofs

(***************************************************************************)
(* The inductive invariant                                                 *)
(***************************************************************************)

\* Before the day's trades, what is held is of an earlier day.
Early == phase \in {"begin", "scan"}

\* A lot's id was given out; ids not given out yet are those from nextId on.
IdsAreNumbered ==
  /\ \A g \in Groups : \A i \in ids[g] : i < groups[g].nextId
  /\ \A g \in Groups : ~groups[g].made => ids[g] = {} /\ groups[g].nextId = 0
  /\ \A l \in lots : l.id \in ids[l.group]
  /\ \A l \in locked : l.id \in ids[l.group]
  /\ \A s \in sales : s.lot \notin lots /\ s.lot.id \in ids[s.lot.group]

AgesAreKnown ==
  /\ \A l \in lots : l.entry <= day /\ (Early => l.entry < day)
  /\ \A g \in Groups : /\ groups[g].entry <= day
                       /\ Early => groups[g].entry < day

\* T+1 kept the lots of a latched group that entered on the day of the decision.
LatchesAreDated ==
  \A g \in Groups :
    IF groups[g].pending
    THEN /\ groups[g].exitDay \in 1 .. day
         /\ \A l \in lots : l.group = g => (l \in locked <=> groups[g].exitDay <= l.entry)
    ELSE \A l \in lots : l.group = g => l \notin locked

\* The scan still has to visit every group that is due to leave at this open.
ScanIsAhead ==
  (phase = "scan" /\ quote.bar /\ ~quote.openDown)
    => \A g \in Groups :
         groups[g].pending /\ groups[g].exitDay < day /\ Live(g) => g \in todo

AddsVisitGroups == phase = "adds" => \A g \in todo : groups[g].made

\* The lots and the groups, whatever pass is running.
LotsInv ==
  /\ groups \in [Groups -> Group] /\ lots \subseteq Lot
  /\ ids \in [Groups -> SUBSET Nat] /\ locked \subseteq Lot
  /\ \A s \in sales : s.lot \in Lot /\ s.marked \in BOOLEAN
  /\ ClosedIffEmpty /\ IdsAreNumbered /\ AgesAreKnown /\ LatchesAreDated
  /\ MarkedRowsWereLocked

\* The pass.
PassInv ==
  /\ day \in Days /\ phase \in {"begin", "scan", "chase", "pool", "adds", "recheck"}
  /\ todo \subseteq Groups /\ quote \in Quote /\ gateOpen \in BOOLEAN
  /\ chases \subseteq Groups /\ codeSteps \in Nat
  /\ StepCapHolds /\ ScanIsAhead /\ AddsVisitGroups

GroupsIInv == LotsInv /\ PassInv

LEMMA DaysAreNumbers ==
  /\ LastDay \in Nat /\ Days \subseteq Nat /\ Groups \subseteq 1 .. LastDay
  /\ \A d \in Days : d \in Nat /\ 1 <= d /\ d <= LastDay
BY GroupsAssumption DEF ValidGroups, Days, Groups

\* A pass visits one of the groups it has still to visit.
LEMMA FirstIsOne ==
  ASSUME todo \subseteq Groups, todo # {}
  PROVE  First(todo) \in todo /\ First(todo) \in Groups
<1>1. \E t \in todo : \A u \in todo : t <= u
  BY DaysAreNumbers, SmallestExists
<1> QED BY <1>1 DEF First

\* What a held group is.
LEMMA HeldGroups ==
  ASSUME LotsInv, NEW g \in Groups, Live(g)
  PROVE  groups[g].made /\ ~groups[g].closed
<1>1. PICK l \in lots : l.group = g
  BY DEF Live, LotsOf
<1>2. ids[g] # {}
  BY <1>1 DEF LotsInv, IdsAreNumbered
<1> QED BY <1>2 DEF LotsInv, IdsAreNumbered, ClosedIffEmpty

(***************************************************************************)
(* Exits                                                                   *)
(***************************************************************************)

LEMMA LatchedType ==
  ASSUME groups \in [Groups -> Group], NEW g \in Groups, day \in Days
  PROVE  /\ Latched(g) \in Group /\ Latched(g).pending = TRUE
         /\ Latched(g).exitDay = IF groups[g].pending THEN groups[g].exitDay ELSE day
         /\ Latched(g).made = groups[g].made /\ Latched(g).closed = groups[g].closed
         /\ Latched(g).entry = groups[g].entry /\ Latched(g).nextId = groups[g].nextId
         /\ Latched(g).steps = groups[g].steps
<1>1. groups[g] \in Group /\ day \in 0 .. LastDay
  BY DaysAreNumbers DEF Days
<1> QED BY <1>1 DEF Latched, Group

\* A group after its exit was decided, whether or not anything was sold.
Exited(g, sold) ==
  IF Closes(g, sold)
  THEN [Latched(g) EXCEPT !.closed = TRUE,
          !.remembered = IF PostExit THEN LastContinuation(Latched(g)) ELSE 0]
  ELSE Latched(g)

LEMMA ExitRecord ==
  ASSUME groups \in [Groups -> Group], NEW g \in Groups, day \in Days, NEW sold
  PROVE  /\ Exited(g, sold) \in Group /\ Exited(g, sold).pending = TRUE
         /\ Exited(g, sold).exitDay = IF groups[g].pending THEN groups[g].exitDay ELSE day
         /\ Exited(g, sold).made = groups[g].made
         /\ Exited(g, sold).entry = groups[g].entry
         /\ Exited(g, sold).nextId = groups[g].nextId
         /\ Exited(g, sold).closed = IF Closes(g, sold) THEN TRUE ELSE groups[g].closed
<1> DEFINE grp == Exited(g, sold)
<1>1. /\ Latched(g) \in Group /\ Latched(g).pending = TRUE
      /\ Latched(g).exitDay = IF groups[g].pending THEN groups[g].exitDay ELSE day
      /\ Latched(g).made = groups[g].made /\ Latched(g).closed = groups[g].closed
      /\ Latched(g).entry = groups[g].entry /\ Latched(g).nextId = groups[g].nextId
  BY LatchedType
<1>2. LastContinuation(Latched(g)) \in 0 .. Rungs
  <2>1. Latched(g).steps \in 0 .. Rungs /\ Rungs \in Nat
    BY <1>1, GroupsAssumption DEF Group, ValidGroups
  <2> QED BY <2>1 DEF LastContinuation
<1>3. 0 \in 0 .. Rungs
  BY GroupsAssumption DEF ValidGroups
<1>4. CASE Closes(g, sold)
  <2> DEFINE r == IF PostExit THEN LastContinuation(Latched(g)) ELSE 0
  <2>1. r \in 0 .. Rungs
    BY <1>2, <1>3
  <2> HIDE DEF r
  <2>2. grp = [Latched(g) EXCEPT !.closed = TRUE, !.remembered = r]
    BY <1>4 DEF r, Exited
  <2> QED BY <1>1, <1>4, <2>1, <2>2 DEF Group
<1>5. CASE ~Closes(g, sold)
  BY <1>1, <1>5 DEF Exited
<1> QED BY <1>4, <1>5

\* An exit decision, with what it sells: a whole exit, a part of one, or the
\* latch alone.
LEMMA DecisionKeepsLots ==
  ASSUME LotsInv, day \in Days, NEW g \in Groups, NEW sold, sold \subseteq Sellable(g),
         NEW grp \in Group, grp.pending = TRUE,
         grp.exitDay = IF groups[g].pending THEN groups[g].exitDay ELSE day,
         grp.made = groups[g].made, grp.entry = groups[g].entry,
         grp.nextId = groups[g].nextId,
         grp.closed = IF Closes(g, sold) THEN TRUE ELSE groups[g].closed,
         groups' = [groups EXCEPT ![g] = grp], lots' = lots \ sold,
         sales' = sales \cup {[lot |-> l, marked |-> Deferred(l, Latched(g))] : l \in sold},
         NowLocked(g), UNCHANGED <<day, phase, ids>>
  PROVE  LotsInv'
<1>1. /\ groups' \in [Groups -> Group] /\ groups'[g] = grp
      /\ \A h \in Groups : h # g => groups'[h] = groups[h]
      /\ \A h \in Groups : /\ groups'[h].made = groups[h].made
                           /\ groups'[h].nextId = groups[h].nextId
                           /\ groups'[h].entry = groups[h].entry
  BY DEF LotsInv
<1>2. /\ sold \subseteq lots /\ \A l \in sold : l.group = g /\ l.entry < day
      /\ lots' \subseteq lots /\ lots' \subseteq Lot
  BY DEF Sellable, LotsOf, LotsInv
<1>3. \A h \in Groups : h # g => LotsOf(h)' = LotsOf(h)
  BY <1>2 DEF LotsOf
<1>4. LotsOf(g)' = LotsOf(g) \ sold /\ sold \subseteq LotsOf(g)
  BY <1>2 DEF LotsOf
<1>5. locked' = IF groups[g].pending THEN locked
                ELSE locked \cup {l \in LotsOf(g) : l.entry = day}
  BY DEF NowLocked
<1>6. /\ locked \subseteq locked' /\ locked' \subseteq Lot
      /\ \A l \in locked' : l \in locked \/ (l \in lots /\ l.entry = day)
      /\ \A l \in lots : l.group # g => (l \in locked' <=> l \in locked)
  BY <1>5 DEF LotsOf, LotsInv
<1>7. ClosedIffEmpty'
  <2> SUFFICES ASSUME NEW h \in Groups, groups'[h].made
               PROVE  groups'[h].closed <=> LotsOf(h)' = {}
    BY DEF ClosedIffEmpty, Live
  <2>1. groups[h].closed <=> LotsOf(h) = {}
    BY <1>1 DEF LotsInv, ClosedIffEmpty, Live
  <2>2. CASE h # g
    BY <1>1, <1>3, <2>1, <2>2
  <2>3. CASE h = g
    BY <1>1, <1>4, <2>1, <2>3 DEF Closes
  <2> QED BY <2>2, <2>3
<1>8. IdsAreNumbered'
  <2>1. \A h \in Groups : /\ \A i \in ids'[h] : i < groups'[h].nextId
                          /\ ~groups'[h].made => ids'[h] = {} /\ groups'[h].nextId = 0
    BY <1>1 DEF LotsInv, IdsAreNumbered
  <2>2. \A l \in lots' : l.id \in ids'[l.group]
    BY <1>2 DEF LotsInv, IdsAreNumbered
  <2>3. \A l \in locked' : l.id \in ids'[l.group]
    BY <1>6 DEF LotsInv, IdsAreNumbered
  <2>4. \A s \in sales' : s.lot \notin lots' /\ s.lot.id \in ids'[s.lot.group]
    <3> SUFFICES ASSUME NEW s \in sales'
                 PROVE  s.lot \notin lots' /\ s.lot.id \in ids[s.lot.group]
      OBVIOUS
    <3>1. CASE s \in sales
      BY <1>2, <3>1 DEF LotsInv, IdsAreNumbered
    <3>2. CASE s \notin sales
      <4>1. s.lot \in sold
        BY <3>2
      <4> QED BY <1>2, <4>1 DEF LotsInv, IdsAreNumbered
    <3> QED BY <3>1, <3>2
  <2> QED BY <2>1, <2>2, <2>3, <2>4 DEF IdsAreNumbered
<1>9. AgesAreKnown'
  BY <1>1, <1>2 DEF LotsInv, AgesAreKnown, Early
<1>10. LatchesAreDated'
  <2> SUFFICES ASSUME NEW h \in Groups
               PROVE  IF groups'[h].pending
                      THEN /\ groups'[h].exitDay \in 1 .. day
                           /\ \A l \in lots' : l.group = h =>
                                (l \in locked' <=> groups'[h].exitDay <= l.entry)
                      ELSE \A l \in lots' : l.group = h => l \notin locked'
    BY DEF LatchesAreDated
  <2>1. IF groups[h].pending
        THEN /\ groups[h].exitDay \in 1 .. day
             /\ \A l \in lots : l.group = h => (l \in locked <=> groups[h].exitDay <= l.entry)
        ELSE \A l \in lots : l.group = h => l \notin locked
    BY DEF LotsInv, LatchesAreDated
  <2>2. CASE h # g
    BY <1>1, <1>2, <1>6, <2>1, <2>2
  <2>3. CASE h = g /\ groups[g].pending
    BY <1>1, <1>2, <1>5, <2>1, <2>3
  <2>4. CASE h = g /\ ~groups[g].pending
    <3>1. day \in 1 .. day
      BY DaysAreNumbers
    <3>2. \A l \in lots' : l.group = g => (l \in locked' <=> day <= l.entry)
      <4> SUFFICES ASSUME NEW l \in lots, l.group = g
                   PROVE  l \in locked' <=> day <= l.entry
        BY <1>2
      <4>1. l \notin locked /\ l.entry \in Nat /\ l.entry <= day /\ day \in Nat
        BY <2>1, <2>4, DaysAreNumbers DEF LotsInv, AgesAreKnown, Lot
      <4> QED BY <1>5, <2>4, <4>1 DEF LotsOf
    <3> QED BY <1>1, <2>4, <3>1, <3>2
  <2> QED BY <2>2, <2>3, <2>4
<1>11. \A s \in sales' : s.lot \in Lot /\ s.marked \in BOOLEAN
  <2>1. \A l \in sold : l \in Lot /\ Deferred(l, Latched(g)) \in BOOLEAN
    BY <1>2 DEF LotsInv, Deferred
  <2> QED BY <2>1 DEF LotsInv
<1>12. MarkedRowsWereLocked'
  <2> SUFFICES ASSUME NEW s \in sales'
               PROVE  s.marked <=> s.lot \in locked'
    BY DEF MarkedRowsWereLocked
  <2>1. CASE s \in sales
    <3>1. s.lot \notin lots /\ (s.marked <=> s.lot \in locked)
      BY <2>1 DEF LotsInv, IdsAreNumbered, MarkedRowsWereLocked
    <3> QED BY <1>6, <3>1
  <2>2. CASE s \notin sales
    <3>1. PICK l \in sold : s = [lot |-> l, marked |-> Deferred(l, Latched(g))]
      BY <2>2
    <3>2. s.lot = l /\ s.marked = Deferred(l, Latched(g))
      BY <3>1
    <3>3. Latched(g).exitDay = IF groups[g].pending THEN groups[g].exitDay ELSE day
      BY LatchedType DEF LotsInv
    <3>4. /\ l \in lots /\ l.group = g /\ l.entry < day /\ l.entry \in Nat /\ day \in Nat
      BY <1>2, <3>1, DaysAreNumbers DEF LotsInv, Lot
    <3>5. CASE groups[g].pending
      <4>1. groups[g].exitDay \in 1 .. day /\ (l \in locked <=> groups[g].exitDay <= l.entry)
        BY <3>4, <3>5 DEF LotsInv, LatchesAreDated
      <4>2. Deferred(l, Latched(g)) <=> l \in locked'
        BY <1>5, <3>3, <3>4, <3>5, <4>1 DEF Deferred
      <4> QED BY <3>2, <4>2, Zenon
    <3>6. CASE ~groups[g].pending
      <4>1. l \notin locked
        BY <3>4, <3>6 DEF LotsInv, LatchesAreDated
      <4>2. l \notin locked'
        BY <1>5, <3>4, <4>1
      <4>3. ~Deferred(l, Latched(g))
        BY <3>3, <3>4, <3>6 DEF Deferred
      <4> QED BY <3>2, <4>2, <4>3, Zenon
    <3> QED BY <3>5, <3>6
  <2> QED BY <2>1, <2>2
<1> QED BY <1>1, <1>2, <1>6, <1>7, <1>8, <1>9, <1>10, <1>11, <1>12 DEF LotsInv

LEMMA ExitKeepsLots ==
  ASSUME LotsInv, day \in Days, NEW g \in Groups, ExitGroup(g), UNCHANGED <<day, phase, ids>>
  PROVE  LotsInv'
<1> DEFINE sold == Sellable(g)
           grp == Exited(g, sold)
<1>1. /\ NowLocked(g) /\ lots' = lots \ sold
      /\ sales' = sales \cup {[lot |-> l, marked |-> Deferred(l, Latched(g))] : l \in sold}
      /\ groups' = [groups EXCEPT ![g] = grp]
  BY DEF ExitGroup, Exited
<1>2. /\ grp \in Group /\ grp.pending = TRUE
      /\ grp.exitDay = IF groups[g].pending THEN groups[g].exitDay ELSE day
      /\ grp.made = groups[g].made /\ grp.entry = groups[g].entry
      /\ grp.nextId = groups[g].nextId
      /\ grp.closed = IF Closes(g, sold) THEN TRUE ELSE groups[g].closed
  BY ExitRecord DEF LotsInv
<1>3. sold \subseteq Sellable(g)
  OBVIOUS
<1> HIDE DEF grp, sold
<1> QED BY <1>1, <1>2, <1>3, DecisionKeepsLots

LEMMA LatchKeepsLots ==
  ASSUME LotsInv, day \in Days, NEW g \in Groups, LatchGroup(g), UNCHANGED <<day, phase, ids>>
  PROVE  LotsInv'
<1> DEFINE grp == Latched(g)
           none == {[lot |-> l, marked |-> Deferred(l, Latched(g))] : l \in {}}
<1>1. /\ NowLocked(g) /\ lots' = lots \ {} /\ sales' = sales \cup none
      /\ groups' = [groups EXCEPT ![g] = grp]
  BY DEF LatchGroup
<1>2. groups \in [Groups -> Group]
  BY DEF LotsInv
<1>3. ~Closes(g, {})
  BY DEF Closes
<1>4. /\ grp \in Group /\ grp.pending = TRUE
      /\ grp.exitDay = IF groups[g].pending THEN groups[g].exitDay ELSE day
      /\ grp.made = groups[g].made /\ grp.entry = groups[g].entry
      /\ grp.nextId = groups[g].nextId
      /\ grp.closed = IF Closes(g, {}) THEN TRUE ELSE groups[g].closed
  BY <1>2, <1>3, LatchedType
<1> HIDE DEF grp
<1>5. {} \subseteq Sellable(g)
  OBVIOUS
<1> QED BY <1>1, <1>4, <1>5, DecisionKeepsLots

LEMMA KeepKeepsLots ==
  ASSUME LotsInv, groups' = groups, lots' = lots, sales' = sales, locked' = locked,
         ids' = ids, day' = day, Early' => Early
  PROVE  LotsInv'
BY DEF LotsInv, ClosedIffEmpty, IdsAreNumbered, AgesAreKnown, LatchesAreDated,
       MarkedRowsWereLocked, Live, LotsOf

(***************************************************************************)
(* Purchases                                                               *)
(***************************************************************************)

\* Fills of a group that no exit holds: the ids are new, for the counter is past
\* every id given out.
LEMMA FillsKeepLots ==
  ASSUME LotsInv, day \in Days, ~Early, NEW g \in Groups, NEW n \in Nat \ {0},
         NEW grp \in Group, Buys(g, n, grp),
         grp.made = TRUE, grp.closed = FALSE, grp.pending = FALSE,
         grp.nextId = groups[g].nextId + n, grp.entry <= day,
         groups[g].pending => ~Live(g), UNCHANGED <<day, phase, sales, locked>>
  PROVE  /\ LotsInv'
         /\ \A l \in lots' \ lots : l.group = g /\ l.id \notin ids[l.group]
<1> DEFINE first == groups[g].nextId
           new == {NewLot(g, k) : k \in 0 .. n - 1}
<1>1. first \in Nat /\ \A i \in ids[g] : i \in Nat /\ i < first
  BY DEF LotsInv, IdsAreNumbered, Group
<1>2. /\ lots' = lots \cup new /\ groups' = [groups EXCEPT ![g] = grp]
      /\ ids' = [ids EXCEPT ![g] = @ \cup {l.id : l \in new}]
  BY DEF Buys
<1>3. \A l \in new : /\ l \in Lot /\ l.group = g /\ l.entry = day
                     /\ l.id \in Nat /\ first <= l.id /\ l.id < first + n
  BY <1>1 DEF NewLot, LotId, Lot
<1>4. NewLot(g, 0) \in new
  OBVIOUS
<1> HIDE DEF new, first
<1>5. /\ groups' \in [Groups -> Group] /\ groups'[g] = grp
      /\ \A h \in Groups : h # g => groups'[h] = groups[h]
  BY <1>2 DEF LotsInv
<1>6. /\ ids' \in [Groups -> SUBSET Nat] /\ \A h \in Groups : h # g => ids'[h] = ids[h]
      /\ ids'[g] = ids[g] \cup {l.id : l \in new}
      /\ \A h \in Groups : ids[h] \subseteq ids'[h]
  BY <1>2, <1>3 DEF LotsInv
<1>7. \A l \in new : l \notin lots /\ l \notin locked /\ l.id \notin ids[g]
                     /\ \A s \in sales : s.lot # l
  <2> TAKE l \in new
  <2>1. l.id \notin ids[g] /\ l.group = g
    BY <1>1, <1>3
  <2> QED BY <2>1 DEF LotsInv, IdsAreNumbered
<1>8. lots' \subseteq Lot /\ \A l \in lots' : l \in lots \/ l \in new
  BY <1>2, <1>3 DEF LotsInv
<1>9. ClosedIffEmpty'
  <2> SUFFICES ASSUME NEW h \in Groups, groups'[h].made
               PROVE  groups'[h].closed <=> LotsOf(h)' = {}
    BY DEF ClosedIffEmpty, Live
  <2>1. CASE h # g
    <3>1. LotsOf(h)' = LotsOf(h)
      BY <1>2, <1>3, <2>1 DEF LotsOf
    <3> QED BY <1>5, <2>1, <3>1 DEF LotsInv, ClosedIffEmpty, Live
  <2>2. CASE h = g
    <3>1. NewLot(g, 0) \in LotsOf(g)'
      BY <1>2, <1>3, <1>4 DEF LotsOf
    <3> QED BY <1>5, <2>2, <3>1
  <2> QED BY <2>1, <2>2
<1>10. IdsAreNumbered'
  <2>1. \A h \in Groups : /\ \A i \in ids'[h] : i < groups'[h].nextId
                          /\ ~groups'[h].made => ids'[h] = {} /\ groups'[h].nextId = 0
    <3> TAKE h \in Groups
    <3>1. CASE h # g
      BY <1>5, <1>6, <3>1 DEF LotsInv, IdsAreNumbered
    <3>2. CASE h = g
      <4>1. \A i \in ids'[g] : i < first + n
        <5> TAKE i \in ids'[g]
        <5>1. CASE i \in ids[g]
          BY <1>1, <5>1
        <5>2. CASE i \notin ids[g]
          BY <1>3, <1>6, <5>2
        <5> QED BY <5>1, <5>2
      <4> QED BY <1>5, <3>2, <4>1 DEF first
    <3> QED BY <3>1, <3>2
  <2>2. \A l \in lots' : l.id \in ids'[l.group]
    <3> TAKE l \in lots'
    <3>1. CASE l \in lots
      BY <1>6, <3>1 DEF LotsInv, IdsAreNumbered, Lot
    <3>2. CASE l \in new
      BY <1>3, <1>6, <3>2
    <3> QED BY <1>8, <3>1, <3>2
  <2>3. \A l \in locked' : l.id \in ids'[l.group]
    BY <1>6 DEF LotsInv, IdsAreNumbered, Lot
  <2>4. \A s \in sales' : s.lot \notin lots' /\ s.lot.id \in ids'[s.lot.group]
    BY <1>6, <1>7, <1>8 DEF LotsInv, IdsAreNumbered, Lot
  <2> QED BY <2>1, <2>2, <2>3, <2>4 DEF IdsAreNumbered
<1>11. AgesAreKnown'
  <2>1. ~Early'
    BY DEF Early
  <2>2. day \in Nat
    BY DaysAreNumbers
  <2>3. \A l \in lots' : l.entry <= day
    BY <1>3, <1>8, <2>2 DEF LotsInv, AgesAreKnown
  <2>4. \A h \in Groups : groups'[h].entry <= day
    BY <1>5 DEF LotsInv, AgesAreKnown
  <2> QED BY <2>1, <2>3, <2>4 DEF AgesAreKnown
<1>12. LatchesAreDated'
  <2> SUFFICES ASSUME NEW h \in Groups
               PROVE  IF groups'[h].pending
                      THEN /\ groups'[h].exitDay \in 1 .. day
                           /\ \A l \in lots' : l.group = h =>
                                (l \in locked <=> groups'[h].exitDay <= l.entry)
                      ELSE \A l \in lots' : l.group = h => l \notin locked
    BY DEF LatchesAreDated
  <2>1. IF groups[h].pending
        THEN /\ groups[h].exitDay \in 1 .. day
             /\ \A l \in lots : l.group = h => (l \in locked <=> groups[h].exitDay <= l.entry)
        ELSE \A l \in lots : l.group = h => l \notin locked
    BY DEF LotsInv, LatchesAreDated
  <2>2. CASE h # g
    BY <1>3, <1>5, <1>8, <2>1, <2>2
  <2>3. CASE h = g
    <3>1. \A l \in lots : l.group = g => l \notin locked
      <4>1. CASE groups[g].pending
        BY <4>1 DEF Live, LotsOf
      <4>2. CASE ~groups[g].pending
        BY <2>1, <2>3, <4>2
      <4> QED BY <4>1, <4>2
    <3>2. \A l \in lots' : l.group = g => l \notin locked
      BY <1>7, <1>8, <3>1
    <3> QED BY <1>5, <2>3, <3>2
  <2> QED BY <2>2, <2>3
<1>13. MarkedRowsWereLocked' /\ \A s \in sales' : s.lot \in Lot /\ s.marked \in BOOLEAN
  BY DEF LotsInv, MarkedRowsWereLocked
<1>14. locked' \subseteq Lot
  BY DEF LotsInv
<1>15. LotsInv'
  BY <1>5, <1>6, <1>8, <1>9, <1>10, <1>11, <1>12, <1>13, <1>14 DEF LotsInv
<1>16. \A l \in lots' \ lots : l.group = g /\ l.id \notin ids[l.group]
  BY <1>3, <1>7, <1>8
<1> QED BY <1>15, <1>16

(***************************************************************************)
(* The passes                                                              *)
(***************************************************************************)

\* What a step may do to the lots: it gives out new ids, sells what T+1 lets go
\* and adds nothing to a group that is leaving.
LotStep ==
  /\ \A l \in lots' \ lots : l.id \notin ids[l.group]
  /\ \A l \in lots \ lots' : l.entry < day
  /\ \A g \in Groups :
       groups[g].pending /\ Live(g) => \A l \in lots' \ lots : l.group # g

LEMMA NoLotStep ==
  ASSUME lots' = lots
  PROVE  LotStep
BY DEF LotStep

\* A fill of a group that no exit holds.
LEMMA FillStep ==
  ASSUME NEW g \in Groups, lots \subseteq lots', groups[g].pending => ~Live(g),
         \A l \in lots' \ lots : l.group = g /\ l.id \notin ids[l.group]
  PROVE  LotStep
BY DEF LotStep

\* What a decision changes.
LEMMA DecisionFacts ==
  ASSUME LotsInv, day \in Days, NEW g \in Groups,
         ExitGroup(g) \/ LatchGroup(g) \/ KeepGroup
  PROVE  /\ LotStep /\ lots' \subseteq lots
         /\ \A h \in Groups : h # g => groups'[h] = groups[h]
         /\ \A h \in Groups : groups'[h].made = groups[h].made
         /\ ExitGroup(g) => lots' = lots \ Sellable(g)
         /\ ~KeepGroup => /\ groups'[g].pending = TRUE
                          /\ groups'[g].exitDay =
                               IF groups[g].pending THEN groups[g].exitDay ELSE day
<1>0. groups \in [Groups -> Group]
  BY DEF LotsInv
<1>1. CASE ExitGroup(g)
  <2> DEFINE grp == Exited(g, Sellable(g))
  <2>1. lots' = lots \ Sellable(g) /\ groups' = [groups EXCEPT ![g] = grp]
    BY <1>1 DEF ExitGroup, Exited
  <2>2. /\ grp.pending = TRUE /\ grp.made = groups[g].made
        /\ grp.exitDay = IF groups[g].pending THEN groups[g].exitDay ELSE day
    BY <1>0, ExitRecord
  <2> HIDE DEF grp
  <2>3. LotStep
    BY <2>1 DEF LotStep, Sellable, LotsOf
  <2> QED BY <1>0, <2>1, <2>2, <2>3
<1>2. CASE LatchGroup(g)
  <2> DEFINE grp == Latched(g)
  <2>1. lots' = lots /\ groups' = [groups EXCEPT ![g] = grp]
    BY <1>2 DEF LatchGroup
  <2>2. /\ grp.pending = TRUE /\ grp.made = groups[g].made
        /\ grp.exitDay = IF groups[g].pending THEN groups[g].exitDay ELSE day
    BY <1>0, LatchedType
  <2>3. ExitGroup(g) => lots' = lots \ Sellable(g)
    BY DEF ExitGroup
  <2> HIDE DEF grp
  <2> QED BY <1>0, <2>1, <2>2, <2>3, NoLotStep
<1>3. CASE KeepGroup
  <2>1. lots' = lots /\ groups' = groups
    BY <1>3 DEF KeepGroup
  <2>2. ExitGroup(g) => lots' = lots \ Sellable(g)
    BY DEF ExitGroup
  <2> QED BY <1>3, <2>1, <2>2, NoLotStep
<1> QED BY <1>1, <1>2, <1>3

LEMMA ScanStep ==
  ASSUME GroupsIInv, ScanGroup
  PROVE  GroupsIInv' /\ LotStep
<1> DEFINE g == First(todo)
<1>1. LotsInv /\ PassInv /\ day \in Days
  BY DEF GroupsIInv, PassInv
<1>2. /\ phase = "scan" /\ todo # {} /\ todo' = todo \ {g}
      /\ UNCHANGED <<day, phase, quote, gateOpen, chases, codeSteps, ids>>
  BY DEF ScanGroup
<1>3. \/ groups[g].entry < day /\ groups[g].pending /\ ~quote.openDown /\ ExitGroup(g)
      \/ groups[g].entry < day /\ groups[g].pending /\ quote.openDown /\ KeepGroup
      \/ /\ groups[g].entry < day /\ ~groups[g].pending
         /\ ExitGroup(g) \/ LatchGroup(g) \/ KeepGroup
      \/ groups[g].entry >= day /\ KeepGroup
  BY DEF ScanGroup
<1>4. g \in Groups
  BY <1>1, <1>2, FirstIsOne DEF PassInv
<1> HIDE DEF g
<1>5. ExitGroup(g) \/ LatchGroup(g) \/ KeepGroup
  BY <1>3
<1>6. LotsInv'
  <2>1. CASE ExitGroup(g)
    BY <1>1, <1>2, <1>4, <2>1, ExitKeepsLots
  <2>2. CASE LatchGroup(g)
    BY <1>1, <1>2, <1>4, <2>2, LatchKeepsLots
  <2>3. CASE KeepGroup
    BY <1>1, <1>2, <2>3, KeepKeepsLots DEF KeepGroup, Early
  <2> QED BY <1>5, <2>1, <2>2, <2>3
<1>7. /\ LotStep /\ lots' \subseteq lots
      /\ \A h \in Groups : h # g => groups'[h] = groups[h]
      /\ ExitGroup(g) => lots' = lots \ Sellable(g)
      /\ ~KeepGroup => /\ groups'[g].pending = TRUE
                       /\ groups'[g].exitDay =
                            IF groups[g].pending THEN groups[g].exitDay ELSE day
  BY <1>1, <1>4, <1>5, DecisionFacts
<1>8. ScanIsAhead'
  <2> SUFFICES ASSUME quote.bar, ~quote.openDown, NEW h \in Groups,
                      groups'[h].pending, groups'[h].exitDay < day, Live(h)'
               PROVE  h \in todo'
    BY <1>2 DEF ScanIsAhead
  <2>1. Live(h)
    BY <1>7 DEF Live, LotsOf
  <2>2. CASE h # g
    BY <1>1, <1>2, <1>7, <2>1, <2>2 DEF PassInv, ScanIsAhead
  <2>3. CASE h = g
    <3>1. groups[g].entry < day /\ groups[g].entry \in Nat /\ day \in Nat
      BY <1>1, <1>2, <1>4, DaysAreNumbers DEF LotsInv, AgesAreKnown, Early, Group
    <3>2. CASE groups[g].pending
      <4>1. ExitGroup(g)
        BY <1>3, <3>1, <3>2
      <4>2. LotsOf(g) \subseteq Sellable(g)
        BY <1>1, <1>2 DEF LotsInv, AgesAreKnown, Early, Sellable, LotsOf
      <4>3. LotsOf(h)' = {}
        BY <1>7, <2>3, <4>1, <4>2 DEF LotsOf
      <4> QED BY <4>3 DEF Live
    <3>3. CASE ~groups[g].pending
      <4>1. CASE KeepGroup
        BY <2>3, <3>3, <4>1 DEF KeepGroup
      <4>2. CASE ~KeepGroup
        BY <1>7, <2>3, <3>1, <3>3, <4>2
      <4> QED BY <4>1, <4>2
    <3> QED BY <3>2, <3>3
  <2> QED BY <2>2, <2>3
<1>9. PassInv'
  BY <1>1, <1>2, <1>8 DEF PassInv, StepCapHolds, AddsVisitGroups
<1> QED BY <1>6, <1>7, <1>9 DEF GroupsIInv

LEMMA RecheckStep ==
  ASSUME GroupsIInv, Recheck
  PROVE  GroupsIInv' /\ LotStep
<1> DEFINE g == First(todo)
<1>1. LotsInv /\ PassInv /\ day \in Days
  BY DEF GroupsIInv, PassInv
<1>2. /\ phase = "recheck" /\ todo # {} /\ todo' = todo \ {g}
      /\ ExitGroup(g) \/ LatchGroup(g) \/ KeepGroup
      /\ UNCHANGED <<day, phase, quote, gateOpen, chases, codeSteps, ids>>
  BY DEF Recheck
<1>3. g \in Groups
  BY <1>1, <1>2, FirstIsOne DEF PassInv
<1> HIDE DEF g
<1>4. LotsInv'
  <2>1. CASE ExitGroup(g)
    BY <1>1, <1>2, <1>3, <2>1, ExitKeepsLots
  <2>2. CASE LatchGroup(g)
    BY <1>1, <1>2, <1>3, <2>2, LatchKeepsLots
  <2>3. CASE KeepGroup
    BY <1>1, <1>2, <2>3, KeepKeepsLots DEF KeepGroup, Early
  <2> QED BY <1>2, <2>1, <2>2, <2>3
<1>5. LotStep
  BY <1>1, <1>2, <1>3, DecisionFacts
<1>6. PassInv'
  BY <1>1, <1>2 DEF PassInv, StepCapHolds, AddsVisitGroups, ScanIsAhead
<1> QED BY <1>4, <1>5, <1>6 DEF GroupsIInv

\* A signal's first fill, on its own day or by a chase.
LEMMA OpenKeepsLots ==
  ASSUME LotsInv, day \in Days, ~Early, NEW g \in Groups, ~groups[g].made, OpenGroup(g),
         UNCHANGED <<day, phase, sales, locked>>
  PROVE  LotsInv' /\ LotStep
<1> DEFINE grp == [NoGroup EXCEPT !.made = TRUE, !.entry = day, !.nextId = 1]
<1>1. Buys(g, 1, grp) /\ lots \subseteq lots'
  BY DEF OpenGroup, Buys
<1>2. /\ grp \in Group /\ grp.made = TRUE /\ grp.closed = FALSE /\ grp.pending = FALSE
      /\ grp.nextId = 1 /\ grp.entry = day
  <2>1. day \in 0 .. LastDay /\ 0 \in 0 .. LastDay /\ 0 \in 0 .. Rungs
    BY DaysAreNumbers, GroupsAssumption DEF ValidGroups
  <2> QED BY <2>1 DEF NoGroup, Group
<1>3. groups[g].nextId = 0 /\ ~Live(g) /\ day <= day
  <2>1. ids[g] = {} /\ groups[g].nextId = 0
    BY DEF LotsInv, IdsAreNumbered
  <2> QED BY <2>1, DaysAreNumbers DEF LotsInv, IdsAreNumbered, Live, LotsOf
<1> HIDE DEF grp
<1>4. grp.nextId = groups[g].nextId + 1 /\ 1 \in Nat \ {0} /\ grp.entry <= day
  BY <1>2, <1>3
<1>5. LotsInv' /\ \A l \in lots' \ lots : l.group = g /\ l.id \notin ids[l.group]
  BY <1>1, <1>2, <1>3, <1>4, FillsKeepLots
<1> QED BY <1>1, <1>3, <1>5, FillStep

LEMMA ChaseStep ==
  ASSUME GroupsIInv, ChaseDue
  PROVE  GroupsIInv' /\ LotStep
<1> DEFINE g == First(todo)
<1>1. LotsInv /\ PassInv /\ day \in Days
  BY DEF GroupsIInv, PassInv
<1>2. /\ phase = "chase" /\ todo # {} /\ todo' = todo \ {g}
      /\ chases' \subseteq chases
      /\ NoFill \/ (~groups[g].made /\ OpenGroup(g))
      /\ UNCHANGED <<day, phase, quote, gateOpen, codeSteps, sales, locked>>
  BY DEF ChaseDue
<1>3. g \in Groups
  BY <1>1, <1>2, FirstIsOne DEF PassInv
<1> HIDE DEF g
<1>4. LotsInv' /\ LotStep
  <2>1. CASE NoFill
    BY <1>1, <1>2, <2>1, KeepKeepsLots, NoLotStep DEF NoFill, Early
  <2>2. CASE ~groups[g].made /\ OpenGroup(g)
    <3>1. ~Early
      BY <1>2 DEF Early
    <3> QED BY <1>1, <1>2, <1>3, <2>2, <3>1, OpenKeepsLots
  <2> QED BY <1>2, <2>1, <2>2
<1>5. PassInv'
  BY <1>1, <1>2 DEF PassInv, StepCapHolds, AddsVisitGroups, ScanIsAhead
<1> QED BY <1>4, <1>5 DEF GroupsIInv

LEMMA PoolStep ==
  ASSUME GroupsIInv, PoolBuy
  PROVE  GroupsIInv' /\ LotStep
<1> DEFINE g == First(todo)
<1>1. LotsInv /\ PassInv /\ day \in Days
  BY DEF GroupsIInv, PassInv
<1>2. /\ phase = "pool" /\ todo # {} /\ todo' = todo \ {g}
      /\ chases' \subseteq chases \cup {g}
      /\ NoFill \/ (~groups[g].made /\ OpenGroup(g))
      /\ UNCHANGED <<day, phase, quote, gateOpen, codeSteps, sales, locked>>
  BY DEF PoolBuy
<1>3. g \in Groups
  BY <1>1, <1>2, FirstIsOne DEF PassInv
<1> HIDE DEF g
<1>4. LotsInv' /\ LotStep
  <2>1. CASE NoFill
    BY <1>1, <1>2, <2>1, KeepKeepsLots, NoLotStep DEF NoFill, Early
  <2>2. CASE ~groups[g].made /\ OpenGroup(g)
    <3>1. ~Early
      BY <1>2 DEF Early
    <3> QED BY <1>1, <1>2, <1>3, <2>2, <3>1, OpenKeepsLots
  <2> QED BY <1>2, <2>1, <2>2
<1>5. PassInv'
  BY <1>1, <1>2, <1>3 DEF PassInv, StepCapHolds, AddsVisitGroups, ScanIsAhead
<1> QED BY <1>4, <1>5 DEF GroupsIInv

(***************************************************************************)
(* The price adds                                                          *)
(***************************************************************************)

\* The ladder position a due add starts from leaves room for its rung.
LEMMA StepsType ==
  ASSUME LotsInv, NEW g \in Groups, Visited(g)
  PROVE  Steps(g) \in 0 .. Rungs
<1>1. /\ groups[g].remembered \in 0 .. Rungs /\ groups[g].steps \in 0 .. Rungs
      /\ Rungs \in Nat
  BY GroupsAssumption DEF LotsInv, Group, ValidGroups
<1>2. Idle(g) => groups[g].remembered # 0
  BY DEF Visited
<1> QED BY <1>1, <1>2 DEF Steps

LEMMA FilledType ==
  ASSUME LotsInv, NEW g \in Groups, Visited(g), Admits(g), groups[g].made, NEW n \in Nat
  PROVE  /\ Filled(g, n) \in Group /\ Filled(g, n).made = TRUE
         /\ Filled(g, n).closed = FALSE /\ Filled(g, n).pending = FALSE
         /\ Filled(g, n).nextId = groups[g].nextId + n
         /\ Filled(g, n).entry = groups[g].entry /\ Filled(g, n).steps = Steps(g)
<1> DEFINE grp == groups[g]
           r == Steps(g)
           next == grp.nextId + n
           bought == [grp EXCEPT !.nextId = next, !.steps = r]
<1>1. grp \in Group /\ r \in 0 .. Rungs /\ 0 \in 0 .. LastDay
  BY StepsType, DaysAreNumbers DEF LotsInv
<1>2. grp.made = TRUE /\ grp.nextId \in Nat /\ next \in Nat
  BY <1>1 DEF Group
<1>3. Filled(g, n) =
        IF Idle(g)
        THEN [bought EXCEPT !.closed = FALSE, !.pending = FALSE, !.exitDay = 0]
        ELSE bought
  BY DEF Filled
<1>4. ~Idle(g) => grp.closed = FALSE /\ grp.pending = FALSE
  BY <1>1 DEF Admits, Group
<1>5. next = groups[g].nextId + n /\ r = Steps(g) /\ grp = groups[g]
  OBVIOUS
<1> HIDE DEF grp, r, next
<1>6. /\ bought \in Group /\ bought.made = TRUE /\ bought.nextId = next /\ bought.steps = r
      /\ bought.entry = grp.entry /\ bought.closed = grp.closed
      /\ bought.pending = grp.pending
  BY <1>1, <1>2 DEF Group
<1> HIDE DEF bought
<1>7. CASE Idle(g)
  <2> DEFINE opened == [bought EXCEPT !.closed = FALSE, !.pending = FALSE, !.exitDay = 0]
  <2>1. /\ opened \in Group /\ opened.made = TRUE /\ opened.closed = FALSE
        /\ opened.pending = FALSE /\ opened.nextId = next /\ opened.entry = grp.entry
        /\ opened.steps = r
    BY <1>1, <1>6 DEF Group
  <2>2. Filled(g, n) = opened
    BY <1>3, <1>7
  <2> HIDE DEF opened
  <2> QED BY <1>5, <2>1, <2>2
<1>8. CASE ~Idle(g)
  <2>1. Filled(g, n) = bought
    BY <1>3, <1>8
  <2> QED BY <1>4, <1>5, <1>6, <1>8, <2>1
<1> QED BY <1>7, <1>8

LEMMA ClimbedType ==
  ASSUME NEW grp \in Group, grp.steps < Rungs, day \in Days
  PROVE  /\ Climbed(grp) \in Group /\ Climbed(grp).made = grp.made
         /\ Climbed(grp).closed = grp.closed /\ Climbed(grp).pending = grp.pending
         /\ Climbed(grp).nextId = grp.nextId /\ Climbed(grp).entry = grp.entry
<1>1. grp.steps + 1 \in 0 .. Rungs /\ day \in 0 .. LastDay
  BY DaysAreNumbers, GroupsAssumption DEF Group, ValidGroups
<1> QED BY <1>1 DEF Climbed, Group

\* A refused or idle visit moves the ladder position only.
LEMMA UnfilledVisit ==
  ASSUME LotsInv, NEW g \in Groups,
         groups' = [groups EXCEPT ![g] =
           IF Visited(g) /\ Idle(g) THEN [@ EXCEPT !.steps = Steps(g)] ELSE @],
         UNCHANGED <<day, phase, lots, ids, sales, locked>>
  PROVE  LotsInv'
<1> DEFINE grp == IF Visited(g) /\ Idle(g) THEN [groups[g] EXCEPT !.steps = Steps(g)]
                  ELSE groups[g]
<1>1. /\ groups[g] \in Group /\ groups \in [Groups -> Group]
      /\ groups' = [groups EXCEPT ![g] = grp]
  BY DEF LotsInv
<1>2. /\ grp \in Group /\ grp.made = groups[g].made /\ grp.closed = groups[g].closed
      /\ grp.pending = groups[g].pending /\ grp.exitDay = groups[g].exitDay
      /\ grp.entry = groups[g].entry /\ grp.nextId = groups[g].nextId
  <2>1. CASE Visited(g) /\ Idle(g)
    <3> DEFINE r == Steps(g)
    <3>1. r \in 0 .. Rungs
      BY <2>1, StepsType
    <3>2. grp = [groups[g] EXCEPT !.steps = r]
      BY <2>1
    <3> HIDE DEF r, grp
    <3> QED BY <1>1, <3>1, <3>2 DEF Group
  <2>2. CASE ~(Visited(g) /\ Idle(g))
    BY <1>1, <2>2
  <2> QED BY <2>1, <2>2
<1> HIDE DEF grp
<1>3. /\ groups' \in [Groups -> Group]
      /\ \A h \in Groups :
           /\ groups'[h].made = groups[h].made /\ groups'[h].closed = groups[h].closed
           /\ groups'[h].pending = groups[h].pending
           /\ groups'[h].exitDay = groups[h].exitDay
           /\ groups'[h].entry = groups[h].entry /\ groups'[h].nextId = groups[h].nextId
  BY <1>1, <1>2
<1>4. ClosedIffEmpty'
  BY <1>3 DEF LotsInv, ClosedIffEmpty, Live, LotsOf
<1>5. IdsAreNumbered' /\ AgesAreKnown'
  BY <1>3 DEF LotsInv, IdsAreNumbered, AgesAreKnown, Early
<1>6. LatchesAreDated'
  BY <1>3 DEF LotsInv, LatchesAreDated
<1> QED BY <1>3, <1>4, <1>5, <1>6 DEF LotsInv, MarkedRowsWereLocked

LEMMA AddStep ==
  ASSUME GroupsIInv, PriceAdd
  PROVE  GroupsIInv' /\ LotStep
<1> DEFINE g == First(todo)
           fills == IF NeedsTrial(g) THEN 2 ELSE 1
           climbs == /\ Visited(g) /\ Due(g) /\ Admits(g)
                     /\ Buys(g, fills, Climbed(Filled(g, fills)))
                     /\ codeSteps' = codeSteps + 1
           trial == /\ Visited(g) /\ Due(g) /\ NeedsTrial(g)
                    /\ Buys(g, 1, Filled(g, 1))
                    /\ UNCHANGED codeSteps
           nothing == /\ UNCHANGED <<lots, ids, codeSteps>>
                      /\ groups' = [groups EXCEPT ![g] =
                           IF Visited(g) /\ Idle(g) THEN [@ EXCEPT !.steps = Steps(g)] ELSE @]
<1>1. LotsInv /\ PassInv /\ day \in Days
  BY DEF GroupsIInv, PassInv
<1>2. /\ phase = "adds" /\ todo # {} /\ todo' = todo \ {g}
      /\ climbs \/ trial \/ nothing
      /\ UNCHANGED <<day, phase, quote, gateOpen, chases, sales, locked>>
  BY DEF PriceAdd
<1>3. g \in Groups /\ g \in todo
  BY <1>1, <1>2, FirstIsOne DEF PassInv
<1>4. groups[g].made /\ ~Early
  BY <1>1, <1>2, <1>3 DEF PassInv, AddsVisitGroups, Early
<1>5. groups[g].entry <= day /\ fills \in Nat \ {0} /\ 1 \in Nat \ {0}
  BY <1>1, <1>3 DEF LotsInv, AgesAreKnown
<1>6. Admits(g) => (groups[g].pending => ~Live(g))
  BY DEF Admits, Idle
<1> HIDE DEF g, fills
<1>7. /\ LotsInv' /\ LotStep /\ codeSteps' \in Nat /\ StepCapHolds'
      /\ \A h \in Groups : groups[h].made => groups'[h].made
  <2>1. CASE climbs
    <3> DEFINE grp == Climbed(Filled(g, fills))
    <3>1. Visited(g) /\ Due(g) /\ Admits(g) /\ Buys(g, fills, grp) /\ codeSteps' = codeSteps + 1
      BY <2>1
    <3>2. /\ Filled(g, fills) \in Group /\ Filled(g, fills).made = TRUE
          /\ Filled(g, fills).closed = FALSE /\ Filled(g, fills).pending = FALSE
          /\ Filled(g, fills).nextId = groups[g].nextId + fills
          /\ Filled(g, fills).entry = groups[g].entry /\ Filled(g, fills).steps = Steps(g)
      BY <1>1, <1>3, <1>4, <1>5, <3>1, FilledType
    <3>3. Steps(g) < Rungs
      <4>1. quote.rise \in 0 .. Rungs /\ Rungs \in Nat /\ quote.rise > Steps(g)
        BY <1>1, <3>1, GroupsAssumption DEF PassInv, Quote, Due, ValidGroups
      <4>2. Steps(g) \in 0 .. Rungs
        BY <1>1, <1>3, <3>1, StepsType
      <4> QED BY <4>1, <4>2
    <3>4. /\ grp \in Group /\ grp.made = TRUE /\ grp.closed = FALSE /\ grp.pending = FALSE
          /\ grp.nextId = groups[g].nextId + fills /\ grp.entry = groups[g].entry
      <4> HIDE DEF grp
      <4> QED BY <1>1, <3>2, <3>3, ClimbedType DEF grp
    <3> HIDE DEF grp
    <3>5. LotsInv' /\ \A l \in lots' \ lots : l.group = g /\ l.id \notin ids[l.group]
      BY <1>1, <1>2, <1>3, <1>4, <1>5, <1>6, <3>1, <3>4, FillsKeepLots
    <3>6. lots \subseteq lots' /\ groups' = [groups EXCEPT ![g] = grp]
      BY <3>1 DEF Buys
    <3>7. LotStep
      BY <1>3, <1>6, <3>1, <3>5, <3>6, FillStep
    <3>8. codeSteps' \in Nat /\ StepCapHolds'
      <4>1. codeSteps < StepCap /\ codeSteps \in Nat /\ StepCap \in Nat
        BY <1>1, <3>1, GroupsAssumption DEF Visited, CapReached, PassInv, ValidGroups
      <4> QED BY <3>1, <4>1 DEF StepCapHolds
    <3>9. \A h \in Groups : groups[h].made => groups'[h].made
      BY <1>1, <3>4, <3>6 DEF LotsInv
    <3> QED BY <3>5, <3>7, <3>8, <3>9
  <2>2. CASE trial
    <3> DEFINE grp == Filled(g, 1)
    <3>1. Visited(g) /\ Idle(g) /\ Buys(g, 1, grp) /\ codeSteps' = codeSteps
      BY <2>2 DEF NeedsTrial
    <3>2. Admits(g)
      BY <3>1 DEF Admits
    <3>3. /\ grp \in Group /\ grp.made = TRUE /\ grp.closed = FALSE /\ grp.pending = FALSE
          /\ grp.nextId = groups[g].nextId + 1 /\ grp.entry = groups[g].entry
      BY <1>1, <1>3, <1>4, <3>1, <3>2, FilledType
    <3> HIDE DEF grp
    <3>4. LotsInv' /\ \A l \in lots' \ lots : l.group = g /\ l.id \notin ids[l.group]
      BY <1>1, <1>2, <1>3, <1>4, <1>5, <1>6, <3>1, <3>2, <3>3, FillsKeepLots
    <3>5. lots \subseteq lots' /\ groups' = [groups EXCEPT ![g] = grp]
      BY <3>1 DEF Buys
    <3>6. LotStep
      BY <1>3, <1>6, <3>2, <3>4, <3>5, FillStep
    <3>7. \A h \in Groups : groups[h].made => groups'[h].made
      BY <1>1, <3>3, <3>5 DEF LotsInv
    <3> QED BY <1>1, <3>1, <3>4, <3>6, <3>7 DEF PassInv, StepCapHolds
  <2>3. CASE nothing
    <3>1. LotsInv'
      BY <1>1, <1>2, <1>3, <2>3, UnfilledVisit
    <3>2. LotStep
      BY <2>3, NoLotStep
    <3>3. \A h \in Groups : groups[h].made => groups'[h].made
      <4>1. groups[g] \in Group /\ groups \in [Groups -> Group]
        BY <1>1, <1>3 DEF LotsInv
      <4>2. groups'[g].made = groups[g].made /\ \A h \in Groups : h # g => groups'[h] = groups[h]
        BY <1>3, <2>3, <4>1 DEF Group
      <4> QED BY <4>2
    <3> QED BY <1>1, <2>3, <3>1, <3>2, <3>3 DEF PassInv, StepCapHolds
  <2> QED BY <1>2, <2>1, <2>2, <2>3
<1>8. PassInv'
  BY <1>1, <1>2, <1>7 DEF PassInv, AddsVisitGroups, ScanIsAhead
<1> QED BY <1>7, <1>8 DEF GroupsIInv

(***************************************************************************)
(* The day                                                                 *)
(***************************************************************************)

LEMMA BeginDayStep ==
  ASSUME GroupsIInv, BeginDay, Quotes \cup {NoBar} \subseteq Quote
  PROVE  GroupsIInv' /\ LotStep
<1>1. LotsInv /\ PassInv
  BY DEF GroupsIInv
<1>2. /\ phase = "begin" /\ phase' = "scan"
      /\ quote' \in Quote /\ gateOpen' \in BOOLEAN
      /\ todo' = IF quote'.bar THEN {g \in Groups : Open(g)} ELSE {}
      /\ UNCHANGED <<day, lots, groups, chases, codeSteps, sales, ids, locked>>
  BY DEF BeginDay
<1>3. LotsInv'
  BY <1>1, <1>2, KeepKeepsLots DEF Early
<1>4. \A g \in Groups : Live(g)' <=> Live(g)
  BY <1>2 DEF Live, LotsOf
<1>5. ScanIsAhead'
  <2> SUFFICES ASSUME quote'.bar, NEW g \in Groups, Live(g)
               PROVE  g \in todo'
    BY <1>4 DEF ScanIsAhead
  <2>1. Open(g)
    BY <1>1, HeldGroups DEF Open
  <2> QED BY <1>2, <2>1
<1>6. PassInv'
  BY <1>1, <1>2, <1>5 DEF PassInv, StepCapHolds, AddsVisitGroups
<1> QED BY <1>2, <1>3, <1>6, NoLotStep DEF GroupsIInv

LEMMA BeginPassStep ==
  ASSUME GroupsIInv, NEW from, NEW to \in {"chase", "pool", "adds", "recheck"}, NEW visits,
         visits \subseteq Groups, to = "adds" => \A g \in visits : groups[g].made,
         BeginPass(from, to, visits)
  PROVE  GroupsIInv' /\ LotStep
<1>1. LotsInv /\ PassInv
  BY DEF GroupsIInv
<1>2. /\ phase' = to /\ todo' = visits
      /\ UNCHANGED <<day, quote, gateOpen, lots, groups, chases, codeSteps, sales, ids, locked>>
  BY DEF BeginPass
<1>3. LotsInv'
  BY <1>1, <1>2, KeepKeepsLots DEF Early
<1>4. PassInv'
  BY <1>1, <1>2 DEF PassInv, StepCapHolds, AddsVisitGroups, ScanIsAhead
<1> QED BY <1>2, <1>3, <1>4, NoLotStep DEF GroupsIInv

\* The adds visit groups that were filled once.
LEMMA AddsStep ==
  ASSUME GroupsIInv, BeginAdds
  PROVE  GroupsIInv' /\ LotStep
<1>1. LotsInv
  BY DEF GroupsIInv
<1>2. AddVisits \subseteq Groups
  BY DEF AddVisits
<1>3. \A g \in AddVisits : groups[g].made
  <2> TAKE g \in AddVisits
  <2>1. g \in Groups /\ (Live(g) \/ groups[g].made)
    BY DEF AddVisits, Open, Idle
  <2> QED BY <1>1, <2>1, HeldGroups
<1> QED BY <1>2, <1>3, BeginPassStep DEF BeginAdds

LEMMA EndDayStep ==
  ASSUME GroupsIInv, EndDay
  PROVE  GroupsIInv' /\ LotStep
<1>1. LotsInv /\ PassInv /\ day \in Nat /\ \A l \in lots : l.entry \in Nat
  BY DaysAreNumbers DEF GroupsIInv, PassInv, LotsInv, Lot
<1>2. /\ day < LastDay /\ day' = day + 1 /\ phase' = "begin" /\ sales' = {} /\ todo' = {}
      /\ UNCHANGED <<quote, gateOpen, lots, groups, chases, codeSteps, ids, locked>>
  BY <1>1 DEF EndDay, PassInv
<1>3. day' \in Days
  BY <1>1, <1>2, DaysAreNumbers DEF PassInv, Days
<1>4. \A g \in Groups : groups[g].entry \in Nat
  BY DaysAreNumbers, <1>1 DEF LotsInv, Group
<1>5. ClosedIffEmpty' /\ IdsAreNumbered' /\ MarkedRowsWereLocked'
  BY <1>1, <1>2 DEF LotsInv, ClosedIffEmpty, IdsAreNumbered, MarkedRowsWereLocked, Live, LotsOf
<1>6. AgesAreKnown'
  <2>1. \A l \in lots : l.entry <= day + 1 /\ l.entry < day + 1
    BY <1>1 DEF LotsInv, AgesAreKnown
  <2>2. \A g \in Groups : groups[g].entry <= day + 1 /\ groups[g].entry < day + 1
    BY <1>1, <1>4 DEF LotsInv, AgesAreKnown
  <2> QED BY <1>2, <2>1, <2>2 DEF AgesAreKnown
<1>7. LatchesAreDated'
  <2>1. \A n \in 1 .. day : n \in 1 .. (day + 1)
    BY <1>1
  <2> QED BY <1>1, <1>2, <2>1 DEF LotsInv, LatchesAreDated
<1>8. LotsInv'
  BY <1>1, <1>2, <1>5, <1>6, <1>7 DEF LotsInv
<1>9. PassInv'
  BY <1>1, <1>2, <1>3 DEF PassInv, StepCapHolds, AddsVisitGroups, ScanIsAhead
<1> QED BY <1>2, <1>8, <1>9, NoLotStep DEF GroupsIInv

(***************************************************************************)
(* The specification                                                       *)
(***************************************************************************)

LEMMA QuotesAreQuotes == Quotes \cup {NoBar} \subseteq Quote
<1>1. 0 \in 0 .. Rungs /\ Quotes \subseteq Quote
  BY GroupsAssumption DEF ValidGroups
<1>2. NoBar \in Quote
  BY <1>1 DEF NoBar, Quote
<1> QED BY <1>1, <1>2

LEMMA InitEstablishesGroups == Init => GroupsIInv
<1> SUFFICES ASSUME Init
             PROVE  GroupsIInv
  OBVIOUS
<1>1. 0 \in 0 .. LastDay /\ 0 \in 0 .. Rungs /\ 1 \in Days /\ StepCap \in Nat
  BY GroupsAssumption DEF ValidGroups, Days
<1>2. NoGroup \in Group /\ NoGroup.made = FALSE /\ NoGroup.pending = FALSE
      /\ NoGroup.entry = 0 /\ NoGroup.nextId = 0
  BY <1>1 DEF NoGroup, Group
<1>3. /\ groups \in [Groups -> Group] /\ lots = {} /\ sales = {} /\ locked = {}
      /\ \A g \in Groups : /\ groups[g] = NoGroup /\ ids[g] = {}
                           /\ ~groups[g].made /\ ~groups[g].pending
                           /\ groups[g].entry = 0 /\ groups[g].nextId = 0
      /\ ids \in [Groups -> SUBSET Nat] /\ day = 1 /\ phase = "begin"
  BY <1>2 DEF Init
<1>4. LotsInv
  BY <1>3 DEF LotsInv, ClosedIffEmpty, IdsAreNumbered, AgesAreKnown, LatchesAreDated,
              MarkedRowsWereLocked
<1>5. PassInv
  BY <1>1, <1>3, QuotesAreQuotes
     DEF Init, PassInv, StepCapHolds, ScanIsAhead, AddsVisitGroups
<1> QED BY <1>4, <1>5 DEF GroupsIInv

LEMMA NextPreservesGroups ==
  ASSUME GroupsIInv, [Next]_vars
  PROVE  GroupsIInv' /\ LotStep
<1>1. CASE BeginDay
  BY <1>1, BeginDayStep, QuotesAreQuotes
<1>2. CASE ScanGroup
  BY <1>2, ScanStep
<1>3. CASE BeginChases
  <2>1. {g \in chases : g < day} \subseteq Groups
    BY DEF GroupsIInv, PassInv
  <2> QED BY <1>3, <2>1, BeginPassStep DEF BeginChases
<1>4. CASE ChaseDue
  BY <1>4, ChaseStep
<1>5. CASE BeginPool
  <2>1. {g \in Groups : g = day /\ ~groups[g].made} \subseteq Groups
    OBVIOUS
  <2> QED BY <1>5, <2>1, BeginPassStep DEF BeginPool
<1>6. CASE PoolBuy
  BY <1>6, PoolStep
<1>7. CASE BeginAdds
  BY <1>7, AddsStep
<1>8. CASE PriceAdd
  BY <1>8, AddStep
<1>9. CASE BeginRecheck
  <2> DEFINE moved == {g \in Groups : /\ quote.bar /\ Open(g) /\ groups[g].entry < day
                                      /\ \E l \in LotsOf(g) : l.entry = day}
  <2>1. moved \subseteq Groups /\ BeginPass("adds", "recheck", moved)
    BY <1>9 DEF BeginRecheck
  <2> HIDE DEF moved
  <2> QED BY <2>1, BeginPassStep
<1>10. CASE Recheck
  BY <1>10, RecheckStep
<1>11. CASE EndDay
  BY <1>11, EndDayStep
<1>12. CASE UNCHANGED vars
  <2>1. /\ LotsInv' /\ PassInv'
    BY <1>12 DEF vars, GroupsIInv, LotsInv, PassInv, ClosedIffEmpty, IdsAreNumbered,
                 AgesAreKnown, LatchesAreDated, MarkedRowsWereLocked, StepCapHolds,
                 ScanIsAhead, AddsVisitGroups, Early, Live, LotsOf
  <2> QED BY <1>12, <2>1, NoLotStep DEF vars, GroupsIInv
<1> QED BY <1>1, <1>2, <1>3, <1>4, <1>5, <1>6, <1>7, <1>8, <1>9, <1>10, <1>11, <1>12
        DEF Next

(***************************************************************************)
(* The theorems                                                            *)
(***************************************************************************)

\* Every field of every group, lot and row stays in its range, whatever the
\* market does: the ladder never climbs past its last rung.
THEOREM GroupsTypeCorrect == Spec => []SignalTypeOK
<1>1. GroupsIInv => SignalTypeOK
  BY DEF GroupsIInv, LotsInv, PassInv, SignalTypeOK
<1>2. GroupsIInv /\ [Next]_vars => GroupsIInv'
  BY NextPreservesGroups
<1> QED BY <1>1, <1>2, InitEstablishesGroups, PTL DEF Spec

\* A group is closed exactly while a group that was filled holds nothing, and the
\* groups of a code share one cap of price adds, through partial exits, latches
\* and reopenings.
THEOREM GroupsAlwaysAgree == Spec => []GroupsAgree
<1>1. GroupsIInv => GroupsAgree
  BY DEF GroupsIInv, LotsInv, PassInv, GroupsAgree
<1>2. GroupsIInv /\ [Next]_vars => GroupsIInv'
  BY NextPreservesGroups
<1> QED BY <1>1, <1>2, InitEstablishesGroups, PTL DEF Spec

\* No lot id is given out twice in a group, through any number of full exits and
\* reopenings.
THEOREM LotIdsStayUnique == Spec => LotIdsAreNeverReused
<1>1. GroupsIInv /\ [Next]_vars
        => GroupsIInv' /\ [\A l \in lots' \ lots : l.id \notin ids[l.group]]_vars
  BY NextPreservesGroups DEF LotStep
<1> QED BY <1>1, InitEstablishesGroups, PTL DEF Spec, LotIdsAreNeverReused

\* T+1 holds lot by lot, and the rows marked as delayed are exactly the sales of
\* what it kept.
THEOREM SettlementIsAlwaysKept == Spec => SettlementIsKept
<1>1. GroupsIInv /\ [Next]_vars
        => GroupsIInv'
             /\ [(\A l \in lots \ lots' : l.entry < day) /\ MarkedRowsWereLocked']_vars
  BY NextPreservesGroups DEF LotStep, GroupsIInv, LotsInv
<1> QED BY <1>1, InitEstablishesGroups, PTL DEF Spec, SettlementIsKept

\* A decided exit takes the whole group at the first open that trades, and
\* nothing is bought for the group until it has left.
THEOREM ExitsAlwaysFinish == Spec => ExitsFinish
<1>1. GroupsIInv /\ [Next]_vars
        => GroupsIInv'
             /\ [/\ LatchedExitsLeave'
                 /\ \A g \in Groups :
                      groups[g].pending /\ Live(g) => \A l \in lots' \ lots : l.group # g]_vars
  <2> SUFFICES ASSUME GroupsIInv, [Next]_vars
               PROVE  /\ GroupsIInv' /\ LatchedExitsLeave'
                      /\ \A g \in Groups :
                           groups[g].pending /\ Live(g) => \A l \in lots' \ lots : l.group # g
    OBVIOUS
  <2>1. GroupsIInv' /\ LotStep
    BY NextPreservesGroups
  <2>2. LatchedExitsLeave'
    BY <2>1 DEF GroupsIInv, PassInv, ScanIsAhead, LatchedExitsLeave
  <2> QED BY <2>1, <2>2 DEF LotStep
<1> QED BY <1>1, InitEstablishesGroups, PTL DEF Spec, ExitsFinish
=============================================================================
