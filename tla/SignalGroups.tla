---------------------------- MODULE SignalGroups ---------------------------
(***************************************************************************)
(* The independent signal groups of the 8.x and 6.x books (S8 in the code) *)
(* in the daily engine, for one code.                                      *)
(*                                                                         *)
(* Every signal day opens a group of its own: the lots it bought, one exit *)
(* decision for all of them, a ladder of price adds.  T+1 holds for a lot, *)
(* the exit decision for the group, so an exit decided on a day with an    *)
(* add sells the older lots and leaves the latch behind for the rest.  A   *)
(* group without lots is closed; with PostExit a closed group is           *)
(* remembered and a rise past its last continuation rung reopens it.       *)
(*                                                                         *)
(* Prices are abstracted to the limits they meet and to the rung of the    *)
(* ladder the close reaches; exit rules and the cash a buy finds are       *)
(* choices.  A group is named by its entry_signal_date.                    *)
(***************************************************************************)
EXTENDS Integers, Sequences, FiniteSets

CONSTANTS
  LastDay,       \* the calendar is 1 .. LastDay
  SignalDays,    \* the days whose pool lists the code
  Rungs,         \* length of add_schedule; rung k asks for rise k
  ContFrom,      \* the first continuation rung
  StepCap,       \* step_cap: price adds per code, over all its groups
  PostExit,      \* post_exit_cont
  RideTrial,     \* cont_ride_trial: a trial lot rides with every continuation
  PostExitBypass, IndexBlocksAdd, LimitUpChase,
  Quotes         \* the days the code may see

Days == 1 .. LastDay
Groups == SignalDays

Quote == [bar : BOOLEAN, openDown : BOOLEAN, closeDown : BOOLEAN,
          closeUp : BOOLEAN, rise : 0 .. Rungs]

ValidGroups ==
  /\ LastDay \in Nat \ {0} /\ SignalDays \subseteq Days
  /\ Rungs \in Nat \ {0} /\ ContFrom \in 1 .. Rungs /\ StepCap \in Nat
  /\ {PostExit, RideTrial, PostExitBypass, IndexBlocksAdd, LimitUpChase} \subseteq BOOLEAN
  /\ Quotes \subseteq Quote

ASSUME GroupsAssumption == ValidGroups

VARIABLES
  day, phase,
  todo,        \* groups the running pass has still to visit
  quote,       \* the day's bar
  gateOpen,    \* allow_new_name(day)
  lots,        \* live lots of the code
  groups,      \* policy["groups"], NoGroup before the first fill
  chases,      \* pending_chase: signal days waiting for a chase
  codeSteps,   \* policy["code_steps"] of the code
  sales,       \* the day's SELL rows
  ids,         \* history: lot ids a group has given out
  locked       \* history: lots T+1 kept on the day of their exit's decision

vars == <<day, phase, todo, quote, gateOpen, lots, groups, chases, codeSteps,
          sales, ids, locked>>

Lot == [group : Groups, id : Nat, entry : Days]

Group == [made : BOOLEAN, entry : 0 .. LastDay, closed : BOOLEAN,
          pending : BOOLEAN, exitDay : 0 .. LastDay, nextId : Nat,
          steps : 0 .. Rungs, lastAdd : 0 .. LastDay, remembered : 0 .. Rungs]

NoGroup == [made |-> FALSE, entry |-> 0, closed |-> FALSE, pending |-> FALSE,
            exitDay |-> 0, nextId |-> 0, steps |-> 0, lastAdd |-> 0,
            remembered |-> 0]

\* A suspended code.
NoBar == [bar |-> FALSE, openDown |-> FALSE, closeDown |-> FALSE,
          closeUp |-> FALSE, rise |-> 0]

Init ==
  /\ day = 1 /\ phase = "begin" /\ todo = {}
  /\ quote = NoBar /\ gateOpen = TRUE
  /\ lots = {} /\ groups = [g \in Groups |-> NoGroup]
  /\ chases = {} /\ codeSteps = 0
  /\ sales = {} /\ ids = [g \in Groups |-> {}] /\ locked = {}

LotsOf(g) == {l \in lots : l.group = g}
Live(g) == LotsOf(g) # {}
Open(g) == Live(g) /\ ~groups[g].closed

\* The next group of a pass: positions are visited sorted by position_id.
First(S) == CHOOSE g \in S : \A h \in S : g <= h

(***************************************************************************)
(* Exits                                                                   *)
(***************************************************************************)

\* Mutant of Latched: every assignment to pending_exit dates the exit.
RedatesExit(g) == [groups[g] EXCEPT !.pending = TRUE, !.exitDay = day]

\* pending_exit.setter: only a new latch dates the exit.
Latched(g) ==
  IF groups[g].pending THEN groups[g]
  ELSE [groups[g] EXCEPT !.pending = TRUE, !.exitDay = day]

Sellable(g) == {l \in LotsOf(g) : l.entry < day}

\* The "|t1_deferred" marker of a row.
Deferred(l, g) == day > g.exitDay /\ l.entry >= g.exitDay

\* last_continuation_rise: the highest continuation rung the group opened.
LastContinuation(g) == IF g.steps >= ContFrom THEN g.steps ELSE 0

\* _sell: the sale of a group's last lot closes it.
Closes(g, sold) == sold # {} /\ sold = LotsOf(g)

\* History: what a decision taken now leaves to a later day.
NowLocked(g) ==
  locked' = IF groups[g].pending THEN locked
            ELSE locked \cup {l \in LotsOf(g) : l.entry = day}

\* _sell_s8_group: latch the exit, then sell every lot T+1 lets go.
ExitGroup(g) ==
  LET sold == Sellable(g)
      latched == Latched(g)
  IN /\ NowLocked(g)
     /\ lots' = lots \ sold
     /\ sales' = sales \cup {[lot |-> l, marked |-> Deferred(l, latched)] : l \in sold}
     /\ groups' = [groups EXCEPT ![g] =
          IF Closes(g, sold)
          THEN [latched EXCEPT !.closed = TRUE,
                               !.remembered = IF PostExit THEN LastContinuation(latched)
                                              ELSE 0]
          ELSE latched]

LatchGroup(g) ==
  NowLocked(g) /\ groups' = [groups EXCEPT ![g] = Latched(g)] /\ UNCHANGED <<lots, sales>>

KeepGroup == UNCHANGED <<groups, lots, sales, locked>>

\* One group of the held scan.  A latched exit leaves at the open; otherwise
\* the rules of the book decide, from the first lot's second day on.
ScanGroup ==
  /\ phase = "scan" /\ todo # {}
  /\ LET g == First(todo) IN
       /\ todo' = todo \ {g}
       /\ \/ groups[g].entry < day /\ groups[g].pending /\ ~quote.openDown /\ ExitGroup(g)
          \/ groups[g].entry < day /\ groups[g].pending /\ quote.openDown /\ KeepGroup
          \/ /\ groups[g].entry < day /\ ~groups[g].pending
             /\ \/ ~(quote.openDown /\ quote.closeDown) /\ ExitGroup(g)
                \/ LatchGroup(g)
                \/ KeepGroup
          \/ groups[g].entry >= day /\ KeepGroup
  /\ UNCHANGED <<day, phase, quote, gateOpen, chases, codeSteps, ids>>

(***************************************************************************)
(* Purchases                                                               *)
(***************************************************************************)

\* Mutant of LotId: the id after the last live lot's.
CountsLiveLots(g) ==
  IF Live(g) THEN 1 + (CHOOSE n \in {l.id : l \in LotsOf(g)} :
                         \A l \in LotsOf(g) : l.id <= n)
  ELSE 0

LotId(g) == groups[g].nextId

\* A group's n-th new lot of the visit.
NewLot(g, n) == [group |-> g, id |-> LotId(g) + n, entry |-> day]

\* execute_buy: n fills of group g, whose record becomes grp.
Buys(g, n, grp) ==
  LET new == {NewLot(g, k) : k \in 0 .. n - 1} IN
  /\ lots' = lots \cup new
  /\ ids' = [ids EXCEPT ![g] = @ \cup {l.id : l \in new}]
  /\ groups' = [groups EXCEPT ![g] = grp]

\* A signal's first fill.
OpenGroup(g) ==
  Buys(g, 1, [NoGroup EXCEPT !.made = TRUE, !.entry = day, !.nextId = 1])

NoFill == UNCHANGED <<lots, ids, groups>>

\* run_chase_due_day: a suspended name stays due.  execute_buy refuses a
\* chase of a signal that already has its group.
ChaseDue ==
  /\ phase = "chase" /\ todo # {}
  /\ LET g == First(todo) IN
       /\ todo' = todo \ {g}
       /\ \/ ~gateOpen /\ chases' = chases \ {g} /\ NoFill
          \/ gateOpen /\ ~quote.bar /\ UNCHANGED chases /\ NoFill
          \/ gateOpen /\ quote.bar /\ chases' = chases \ {g} /\ NoFill
          \/ /\ gateOpen /\ quote.bar /\ ~quote.closeUp /\ ~groups[g].made
             /\ chases' = chases \ {g} /\ OpenGroup(g)
  /\ UNCHANGED <<day, phase, quote, gateOpen, codeSteps, sales, locked>>

\* run_pool_buys_day on the day's own signal.
PoolBuy ==
  /\ phase = "pool" /\ todo # {}
  /\ LET g == First(todo) IN
       /\ todo' = todo \ {g}
       /\ \/ UNCHANGED chases /\ NoFill
          \/ /\ gateOpen /\ quote.bar /\ quote.closeUp /\ LimitUpChase
             /\ chases' = chases \cup {g} /\ NoFill
          \/ /\ gateOpen /\ quote.bar /\ ~quote.closeUp /\ ~groups[g].made
             /\ UNCHANGED chases /\ OpenGroup(g)
  /\ UNCHANGED <<day, phase, quote, gateOpen, codeSteps, sales, locked>>

\* Mutant of Idle: asks for a remembered rung instead of an empty group.
RemembersRung(g) == PostExit /\ groups[g].made /\ groups[g].remembered # 0

\* idle_group: remembered, and nothing of it is held.
Idle(g) == PostExit /\ groups[g].made /\ ~Live(g)

\* Mutant of CapReached: the cap is asked of the group.
CapsGroup(g) == groups[g].steps >= StepCap

CapReached(g) == codeSteps >= StepCap

\* The ladder position an add of g starts from: an idle group goes back to
\* the rung it remembers.
Steps(g) == IF Idle(g) THEN groups[g].remembered - 1 ELSE groups[g].steps

\* What _run_s8_price_adds_day asks before it prices an add.
Visited(g) ==
  /\ groups[g].lastAdd # day
  /\ Idle(g) \/ ~groups[g].pending
  /\ ~CapReached(g)
  /\ Idle(g) => groups[g].remembered # 0

\* A rung is due, and the close is not at the upper limit.
Due(g) ==
  /\ Idle(g) => quote.rise >= groups[g].remembered
  /\ quote.rise > Steps(g)
  /\ ~quote.closeUp

\* The group after n fills; reopen_s8_group clears the latch of an idle one.
Filled(g, n) ==
  LET bought == [groups[g] EXCEPT !.nextId = @ + n, !.steps = Steps(g)]
  IN IF Idle(g)
     THEN [bought EXCEPT !.closed = FALSE, !.pending = FALSE, !.exitDay = 0]
     ELSE bought

\* The rung itself was bought.
Climbed(grp) == [grp EXCEPT !.steps = @ + 1, !.lastAdd = day]

\* _ensure_trial_for_cont: only an idle group holds no trial lot.
NeedsTrial(g) == RideTrial /\ Idle(g)

\* execute_buy refuses an add to a closed or latched group unless it is idle.
Admits(g) == Idle(g) \/ ~(groups[g].closed \/ groups[g].pending)

\* A visit to a group: the rung is bought, its trial lot first; or the trial
\* lot alone, when the rung finds no cash; or nothing.
PriceAdd ==
  /\ phase = "adds" /\ todo # {}
  /\ LET g == First(todo)
         fills == IF NeedsTrial(g) THEN 2 ELSE 1
     IN
       /\ todo' = todo \ {g}
       /\ \/ /\ Visited(g) /\ Due(g) /\ Admits(g)
             /\ Buys(g, fills, Climbed(Filled(g, fills)))
             /\ codeSteps' = codeSteps + 1
          \/ /\ Visited(g) /\ Due(g) /\ NeedsTrial(g)
             /\ Buys(g, 1, Filled(g, 1))
             /\ UNCHANGED codeSteps
          \/ /\ UNCHANGED <<lots, ids, codeSteps>>
             /\ groups' = [groups EXCEPT ![g] =
                  IF Visited(g) /\ Idle(g) THEN [@ EXCEPT !.steps = Steps(g)] ELSE @]
  /\ UNCHANGED <<day, phase, quote, gateOpen, chases, sales, locked>>

\* The groups an add of the day moved are judged again at the close.
Recheck ==
  /\ phase = "recheck" /\ todo # {}
  /\ LET g == First(todo) IN
       /\ todo' = todo \ {g}
       /\ \/ KeepGroup
          \/ ~groups[g].pending /\ quote.closeDown /\ LatchGroup(g)
          \/ ~groups[g].pending /\ ~quote.closeDown /\ ExitGroup(g)
  /\ UNCHANGED <<day, phase, quote, gateOpen, chases, codeSteps, ids>>

(***************************************************************************)
(* The day                                                                 *)
(***************************************************************************)

BeginDay ==
  /\ phase = "begin" /\ phase' = "scan"
  /\ quote' \in Quotes \cup {NoBar} /\ gateOpen' \in BOOLEAN
  /\ todo' = IF quote'.bar THEN {g \in Groups : Open(g)} ELSE {}
  /\ UNCHANGED <<day, lots, groups, chases, codeSteps, sales, ids,
                 locked>>

BeginPass(from, to, visits) ==
  /\ phase = from /\ todo = {}
  /\ phase' = to /\ todo' = visits
  /\ UNCHANGED <<day, quote, gateOpen, lots, groups, chases, codeSteps, sales, ids,
                 locked>>

BeginChases == BeginPass("scan", "chase", {g \in chases : g < day})

BeginPool ==
  BeginPass("chase", "pool", {g \in Groups : g = day /\ ~groups[g].made})

IndexShut == IndexBlocksAdd /\ ~gateOpen

\* Open groups, unless the index blocks adds; then the remembered ones.
AddVisits ==
  IF ~quote.bar \/ (IndexShut /\ ~(PostExit /\ PostExitBypass)) THEN {}
  ELSE {g \in Groups : (~IndexShut /\ Open(g)) \/ Idle(g)}

BeginAdds == BeginPass("pool", "adds", AddVisits)

BeginRecheck ==
  BeginPass("adds", "recheck",
            {g \in Groups : /\ quote.bar /\ Open(g) /\ groups[g].entry < day
                            /\ \E l \in LotsOf(g) : l.entry = day})

EndDay ==
  /\ phase = "recheck" /\ todo = {} /\ day < LastDay
  /\ day' = day + 1 /\ phase' = "begin" /\ sales' = {}
  /\ UNCHANGED <<todo, quote, gateOpen, lots, groups, chases, codeSteps, ids,
                 locked>>

Next ==
  \/ BeginDay \/ ScanGroup \/ BeginChases \/ ChaseDue \/ BeginPool \/ PoolBuy
  \/ BeginAdds \/ PriceAdd \/ BeginRecheck \/ Recheck \/ EndDay

Spec == Init /\ [][Next]_vars

(***************************************************************************)
(* Properties                                                              *)
(***************************************************************************)

SignalTypeOK ==
  /\ day \in Days /\ phase \in {"begin", "scan", "chase", "pool", "adds", "recheck"}
  /\ todo \subseteq Groups /\ quote \in Quote /\ gateOpen \in BOOLEAN
  /\ lots \subseteq Lot /\ groups \in [Groups -> Group]
  /\ chases \subseteq Groups /\ codeSteps \in Nat
  /\ \A s \in sales : s.lot \in Lot /\ s.marked \in BOOLEAN
  /\ ids \in [Groups -> SUBSET Nat] /\ locked \subseteq Lot

\* A group is closed exactly when it was filled and holds nothing, whatever
\* partial exits and reopenings came before.
ClosedIffEmpty ==
  \A g \in Groups : groups[g].made => (groups[g].closed <=> ~Live(g))

\* The adds of all groups of the code together stay within step_cap.
StepCapHolds == codeSteps <= StepCap

\* Whatever mix of exits, chases, adds and reopenings: a group's closed flag says
\* what it holds, and all groups of the code stay within one cap of price adds.
GroupsAgree == ClosedIffEmpty /\ StepCapHolds

\* A lot id names one lot of its group for ever, through a full exit and a
\* reopening: t1_deferred_bonus_lots and cont_open are keyed by it.
LotIdsAreNeverReused ==
  [][\A l \in lots' \ lots : l.id \notin ids[l.group]]_vars

\* The rows marked "|t1_deferred" are exactly the sales of the lots that T+1
\* kept on the day the exit was decided, however often the exit is retried.
MarkedRowsWereLocked == \A s \in sales : s.marked <=> s.lot \in locked

\* A latched exit is over after the first scan whose open trades: no lot of
\* it, added before or after the decision was due, stays behind.
LatchedExitsLeave ==
  (phase = "scan" /\ todo = {} /\ quote.bar /\ ~quote.openDown)
    => \A g \in Groups :
         groups[g].pending /\ 0 < groups[g].exitDay /\ groups[g].exitDay < day => ~Live(g)

\* T+1 is kept lot by lot (ashare_session.t1_sellable), though the exit of a
\* group is decided on the age of its first lot, and exactly the rows it delayed
\* say so.
SettlementIsKept ==
  [][(\A l \in lots \ lots' : l.entry < day) /\ MarkedRowsWereLocked']_vars

\* A decided exit takes the whole group: what it holds leaves at the first open
\* that trades, and nothing joins it meanwhile (_run_s8_price_adds_day,
\* execute_buy).
ExitsFinish ==
  [][/\ LatchedExitsLeave'
     /\ \A g \in Groups :
          groups[g].pending /\ Live(g) => \A l \in lots' \ lots : l.group # g]_vars
=============================================================================
