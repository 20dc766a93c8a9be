---------------------------- MODULE MCMinuteDay -----------------------------
(***************************************************************************)
(* Two codes on four minutes: the open, the chase with which the late      *)
(* window begins, the list and the close.                                  *)
(***************************************************************************)
EXTENDS MinuteDay

MCPool == [d \in 1 .. LastDay |-> IF d = 1 THEN <<"b", "a">> ELSE <<"a">>]

Quiet == [NoRow EXCEPT !.row = TRUE]
Floor == [Quiet EXCEPT !.openDown = TRUE]
Falls == [Quiet EXCEPT !.closeDown = TRUE]
Sealed == [Quiet EXCEPT !.closeUp = TRUE]

MCFrames ==
  {<<Quiet, Quiet, Quiet, Quiet>>, <<Quiet, Quiet, Sealed, NoRow>>,
   <<Floor, NoRow, Falls, Quiet>>, <<Quiet, Floor, NoRow, Falls>>,
   <<NoRow, NoRow, NoRow, NoRow>>}
=============================================================================
