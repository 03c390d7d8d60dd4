----------------------------- MODULE Volatility -----------------------------
(***************************************************************************)
(* Volatility (src/ta/volatility.py).  Prices are powers of two or zero    *)
(* and logarithms are to the base of two, so that they are exact; a        *)
(* volatility is given by its square, in those units and not annualized.   *)
(***************************************************************************)
EXTENDS Indicators

CONSTANT MaxLog      \* bound: the logarithm of the highest price

ASSUME VolatilityAssumption == MaxLog \in Nat

PowersOfTwo == {2 ^ k : k \in 0..MaxLog}

Log2(n) == CHOOSE k \in 0..MaxLog : 2 ^ k = n

(* math.log(p / q), zero when either price is not positive.                *)
LogRatio(p, q) == IF p > 0 /\ q > 0 THEN Log2(p) - Log2(q) ELSE 0

Variance(s) ==
    LET mean == Mean(s) IN Mean(Each(LAMBDA v : Square(Minus(v, mean)), s))
-----------------------------------------------------------------------------
(* Faults: plausible mistakes in the functions below.                      *)

IvRankUnclamped(current_iv, iv_history) ==
    IF iv_history = <<>> THEN Zero
    ELSE LET low == Least(iv_history)
             high == Greatest(iv_history)
         IN  IF low = high THEN Whole(50)
             ELSE Times(Over(Minus(current_iv, low), Minus(high, low)), Hundred)
-----------------------------------------------------------------------------
(* The window is cut at the first return, so that the first reading comes  *)
(* with the second return, however long the period.                        *)
HistoricalVolatility(candles, period) ==
    LET returns == [i \in 1..Len(candles) - 1 |->
                       Whole(LogRatio(candles[i + 1].close, candles[i].close))]
        Start(i) == IF i < period THEN 1 ELSE i - period + 1
    IN  [i \in 1..Len(candles) |->
            IF i <= 2 THEN None ELSE Variance(SubSeq(returns, Start(i - 1), i - 1))]

ParkinsonVolatility(candles, period) ==
    [i \in 1..Len(candles) |->
        IF i < period THEN None
        ELSE Mean(Each(LAMBDA c : Square(Whole(LogRatio(c.high, c.low))),
                       Window(candles, i, period)))]

IvRank(current_iv, iv_history) ==
    IF iv_history = <<>> THEN Zero
    ELSE LET low == Least(iv_history)
             high == Greatest(iv_history)
             rank == Times(Over(Minus(current_iv, low), Minus(high, low)), Hundred)
         IN  IF low = high THEN Whole(50) ELSE Greater(Zero, Lesser(Hundred, rank))

IvPercentile(current_iv, iv_history) ==
    IF iv_history = <<>> THEN Zero
    ELSE LET below == {i \in 1..Len(iv_history) : Below(iv_history[i], current_iv)}
         IN  Times(Fraction(Cardinality(below), Len(iv_history)), Hundred)

IvSurfacePoint(strike, atm_iv, spot, skew_factor) ==
    IF AtMost(spot, Zero) THEN atm_iv
    ELSE LET moneyness == Minus(Over(strike, spot), Whole(1))
         IN  Times(atm_iv, Plus(Whole(1), Times(skew_factor, Distance(moneyness, Zero))))
=============================================================================
