--------------------------- MODULE MCCapitalPool ----------------------------
(***************************************************************************)
(* Two stocks, three days of which the first is no trading day, and a     *)
(* capital that three orders exhaust.                                      *)
(***************************************************************************)
EXTENDS CapitalPool, TLC

MCTradingDays == {2, 3}
StockSymmetry == Permutations(Stocks)
=============================================================================
