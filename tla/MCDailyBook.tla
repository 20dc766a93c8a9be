---------------------------- MODULE MCDailyBook -----------------------------
(***************************************************************************)
(* Two codes, three days.  Every bar has the previous close 20 and the     *)
(* limits 18 and 22.                                                       *)
(***************************************************************************)
EXTENDS DailyBook

MCRank == [c \in {"a", "b"} |-> IF c = "a" THEN 1 ELSE 2]

MCPool == [d \in 1 .. LastDay |->
             IF d = 1 THEN <<"b", "a">> ELSE <<"a">>]

Bar(open, low, close) ==
  [NoQuote EXCEPT !.bar = TRUE, !.open = open, !.low = low, !.close = close,
                  !.up = 22, !.down = 18, !.board = TRUE, !.gate = TRUE, !.add = TRUE]

Rise == Bar(20, 20, 21)
Sealed == Bar(22, 22, 22)
Opened == Bar(22, 19, 21)
Fall == Bar(19, 18, 20)
Crash == Bar(18, 18, 18)

MCQuotes == {Rise, Sealed, Opened, Fall, Crash, [Rise EXCEPT !.board = FALSE],
             [Rise EXCEPT !.gate = FALSE], [Rise EXCEPT !.st = TRUE],
             [Rise EXCEPT !.add = FALSE]}

Industry ==
  [total_cash |-> 1000, daily_quota |-> 900,
   close_reasons |-> {"trail", "force_sell:t1_close"}, same_bar_reasons |-> {"open_board"},
   stop_gap |-> 2, stop_fill |-> "touch", industry |-> TRUE, allow_add |-> TRUE,
   index_blocks_add |-> TRUE, limit_up_chase |-> TRUE, limit_down_pending |-> TRUE,
   forbid_all_at_limit |-> FALSE, reserve_limit_up |-> TRUE, defer_limit_up |-> FALSE]

\* A legacy book that stops at the close, trades neither limit and holds a name once.
TopK ==
  [total_cash |-> 400, daily_quota |-> 400,
   close_reasons |-> {"topk_drop"}, same_bar_reasons |-> {"topk_drop"},
   stop_gap |-> 3, stop_fill |-> "close", industry |-> FALSE, allow_add |-> FALSE,
   index_blocks_add |-> TRUE, limit_up_chase |-> FALSE, limit_down_pending |-> FALSE,
   forbid_all_at_limit |-> TRUE, reserve_limit_up |-> FALSE, defer_limit_up |-> TRUE]

\* A legacy book that holds a name once as well, but chases and latches.
Version1 ==
  [total_cash |-> 400, daily_quota |-> 400,
   close_reasons |-> {"trail"}, same_bar_reasons |-> {"open_board"},
   stop_gap |-> 3, stop_fill |-> "touch", industry |-> FALSE, allow_add |-> FALSE,
   index_blocks_add |-> TRUE, limit_up_chase |-> TRUE, limit_down_pending |-> TRUE,
   forbid_all_at_limit |-> FALSE, reserve_limit_up |-> FALSE, defer_limit_up |-> FALSE]

MCProfiles == {Industry, TopK, Version1}
=============================================================================
