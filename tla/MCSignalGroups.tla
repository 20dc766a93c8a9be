--------------------------- MODULE MCSignalGroups ---------------------------
(***************************************************************************)
(* One code, two signal days, a ladder of three rungs.                     *)
(***************************************************************************)
EXTENDS SignalGroups

Day(openDown, closeDown, closeUp, rise) ==
  [bar |-> TRUE, openDown |-> openDown, closeDown |-> closeDown,
   closeUp |-> closeUp, rise |-> rise]

MCSignalDays == {1, 2}

\* Limit-down opens and closes, a limit-up close, and every rung of the ladder.
MCQuotes ==
  {Day(o, c, FALSE, r) : o \in BOOLEAN, c \in BOOLEAN, r \in {0, 3}}
    \cup {Day(FALSE, FALSE, FALSE, r) : r \in 1 .. 2}
    \cup {Day(FALSE, FALSE, TRUE, 3)}
=============================================================================
