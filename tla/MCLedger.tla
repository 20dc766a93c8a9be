------------------------------ MODULE MCLedger ------------------------------
(***************************************************************************)
(* A small instance of Ledger.  One symbol traded in lots of two on three  *)
(* dates: a holding from date 1 that sells from date 2 and one from date 2 *)
(* that sells from date 3.  Amounts are a few cents, so that a fee floor   *)
(* is as large as a small fill's proceeds.                                 *)
(***************************************************************************)
EXTENDS Ledger, TLC

CONSTANTS o1, o2

MCFees == [num |-> 1, den |-> 2, min_fee |-> 1, rounding |-> "HALF_UP"]
MCModel == [BUY |-> MCFees, SELL |-> [MCFees EXCEPT !.min_fee = 4]]

OldLot ==
  [symbol |-> "A", acquire_date |-> 1, sellable_date |-> 2, qty |-> 4,
   lot_size |-> 2, reserved_qty |-> 0]
NewLot == [OldLot EXCEPT !.acquire_date = 2, !.sellable_date = 3, !.qty = 2]

\* Lots 1, 2 and 3 are those of the fills.
MCLots == {[l \in {} |-> OldLot], [l \in {4, 5} |-> IF l = 4 THEN OldLot ELSE NewLot]}

OrderSymmetry == Permutations(OrderIds)
=============================================================================
