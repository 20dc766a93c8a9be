-------------------------------- MODULE Fees --------------------------------
(***************************************************************************)
(* The cumulative fee model of minute_orders_backend/fees.py.              *)
(*                                                                         *)
(* Money is a natural number of cents (money_cents refuses anything else). *)
(* A side's parameters are a record: rate = num / den, min_fee in cents,   *)
(* and one of the decimal module's rounding modes that are monotone.  An   *)
(* order pays on its cumulative notional, so each fill is charged the      *)
(* difference F(after) - F(before).                                        *)
(***************************************************************************)
EXTENDS Integers

Sides == {"BUY", "SELL"}

\* _MONOTONE_ROUNDING: the modes the model accepts.
Roundings == {"CEILING", "DOWN", "FLOOR", "HALF_DOWN", "HALF_EVEN", "HALF_UP", "UP"}

\* FeeModelParams after _validate_params.
FeeParams ==
  [num : Nat, den : Nat \ {0}, min_fee : Nat, rounding : Roundings]

\* Whether an amount of q whole cents and r / d of a cent is rounded to q + 1.
RoundsUp(rounding, q, r, d) ==
  \/ rounding \in {"CEILING", "UP"} /\ r > 0
  \/ rounding = "HALF_UP" /\ 2 * r >= d
  \/ rounding = "HALF_DOWN" /\ 2 * r > d
  \/ /\ rounding = "HALF_EVEN"
     /\ \/ 2 * r > d
        \/ 2 * r = d /\ q % 2 = 1

\* Decimal.quantize(Decimal("0.01")) of the nonnegative amount x / d cents.
Quantize(rounding, x, d) ==
  (x \div d) + (IF RoundsUp(rounding, x \div d, x % d, d) THEN 1 ELSE 0)

Larger(a, b) == IF a >= b THEN a ELSE b

\* F(0) = 0 and F(N) = quantize(max(min_fee, N * rate)).
CumulativeFee(params, notional) ==
  IF notional = 0
  THEN 0
  ELSE Quantize(params.rounding,
                Larger(params.min_fee * params.den, notional * params.num),
                params.den)

\* Fault: a fill is charged as if it were the order's only one.
FeePerFill(params, before, after) == CumulativeFee(params, after - before)

\* What a fill is charged when it takes its order's notional to `after'.
FeeDelta(params, before, after) ==
  CumulativeFee(params, after) - CumulativeFee(params, before)

\* The fee to reserve for the remaining quantity, all of it filled at the limit.
BuyFeeUpperBound(params, paid, limit, remaining) ==
  FeeDelta(params, paid, paid + limit * remaining)
=============================================================================
