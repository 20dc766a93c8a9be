------------------------------ MODULE Matching ------------------------------
(***************************************************************************)
(* The pure helpers of minute_orders_backend/match.py: how many shares a   *)
(* completed bucket may trade, and what one order would take of it.        *)
(***************************************************************************)
EXTENDS Integers

\* L * floor(p * V / L) with the exact rate p = num / den, 0 <= p <= 1.
BucketCapacity(size, volume, num, den) ==
  size * ((num * volume) \div (den * size))

\* A limit order trades at a bucket's close when the close is no worse.
Crosses(side, price, limit) ==
  IF side = "BUY" THEN price <= limit ELSE price >= limit

\* The whole lots both the order and the bucket have left; 0 is NoMatch.
ProposedQty(remaining, capacity, size) ==
  size * ((IF remaining <= capacity THEN remaining ELSE capacity) \div size)
=============================================================================
