--------------------------- MODULE MCIntentReplay ---------------------------
(***************************************************************************)
(* Three days of two, two and one minutes; a unit change of "a" before the *)
(* second day makes three shares of two.                                   *)
(***************************************************************************)
EXTENDS IntentReplay

MCMinutes == [d \in 1 .. 3 |-> IF d = 3 THEN 1 ELSE 2]
MCFactor == [i \in {"a"} |-> [at |-> 20, num |-> 3, den |-> 2]]
MCRate == [side \in {"BUY", "SELL"} |-> 2]

Buy(i, l, q, available, effective, expires) ==
  [side |-> "BUY", inst |-> i, lot |-> l, quantity |-> q, ref |-> 3, refAt |-> 0,
   available |-> available, effective |-> effective, expires |-> expires, exit |-> FALSE]

Sell(i, l, q, available, effective, expires, exit) ==
  [Buy(i, l, q, available, effective, expires) EXCEPT !.side = "SELL", !.exit = exit]

\* An exit of "a" over the unit change against a purchase of it; "b" is bought
\* with almost all the cash, so that the fee of selling one share is not covered.
Rotation ==
  [lots |-> [l \in {"A0"} |-> [inst |-> "a", quantity |-> 4]],
   intents |-> <<Buy("b", "B1", 4, 1, 11, 22), Sell("a", "A0", 4, 1, 12, 13, TRUE),
                 Sell("b", "B1", 1, 20, 21, 23, FALSE), Buy("a", "A1", 4, 21, 21, 32)>>]

\* A purchase of "a" that is part done when its unit changes, and part of it due
\* for sale meanwhile; "b" is sold and bought at one instant.
Unfinished ==
  [lots |-> [l \in {"B0"} |-> [inst |-> "b", quantity |-> 4]],
   intents |-> <<Buy("a", "A1", 4, 1, 11, 23), Sell("b", "B0", 4, 11, 11, 32, TRUE),
                 Buy("b", "B1", 2, 11, 12, 32), Sell("a", "A1", 2, 1, 22, 32, TRUE)>>]

MCBooks == {Rotation, Unfinished}

Trades(open, capacity) ==
  [NoBar EXCEPT !.printed = TRUE, !.open = open, !.capacity = capacity]
Thin == Trades(3, 2)
Deep == Trades(2, 6)
Top == [Deep EXCEPT !.up = TRUE]
Floor == [Thin EXCEPT !.down = TRUE]
Halted == [Thin EXCEPT !.suspended = TRUE]

MCBars ==
  [t \in {11, 12, 21, 22, 31} |->
     [i \in {"a", "b"} |->
        {Thin} \cup (CASE t = 11 -> {NoBar, Deep}
                       [] t = 12 -> {NoBar, Halted}
                       [] t = 21 -> {Floor, Deep}
                       [] t = 22 -> {NoBar, Top}
                       [] OTHER  -> {NoBar})]]
=============================================================================
