--------------------------- MODULE MarketStrength ---------------------------
(***************************************************************************)
(* Readings of the market's strength (src/market/strength.py).             *)
(***************************************************************************)
EXTENDS Fractions

Bullish == "BULLISH"
Neutral == "NEUTRAL"
Bearish == "BEARISH"

Biased(ratio, bull, bear) ==
    IF AtMost(bull, ratio) THEN Bullish
    ELSE IF AtMost(ratio, bear) THEN Bearish ELSE Neutral
-----------------------------------------------------------------------------
(* Faults: plausible mistakes in the functions below.                      *)

PcrInverted(call_oi, put_oi) ==
    IF call_oi = 0 THEN [pcr |-> Zero, bias |-> Neutral]
    ELSE LET ratio == Over(Whole(put_oi), Whole(call_oi))
         IN  [pcr |-> ratio, bias |-> Biased(Over(Whole(1), ratio), Fraction(6, 5), Fraction(7, 10))]
-----------------------------------------------------------------------------
(* pcr, of open interest or of volume.  Without calls there is no ratio    *)
(* and the market reads neutral, however many puts there are.              *)
Pcr(call_oi, put_oi) ==
    IF call_oi = 0 THEN [pcr |-> Zero, bias |-> Neutral]
    ELSE LET ratio == Over(Whole(put_oi), Whole(call_oi))
         IN  [pcr |-> ratio, bias |-> Biased(ratio, Fraction(6, 5), Fraction(7, 10))]

InterpretVix(vix_value) ==
    CASE vix_value < 12 -> [regime |-> "LOW_VOLATILITY", bias |-> Bullish]
      [] vix_value \in 12..17 -> [regime |-> "NORMAL", bias |-> Neutral]
      [] vix_value \in 18..24 -> [regime |-> "ELEVATED", bias |-> Bearish]
      [] OTHER -> [regime |-> "HIGH_FEAR", bias |-> Bullish]

(* Open interest or a price that did not change counts as one that fell.   *)
AnalyzeOi(current_oi, prev_oi, price, prev_price) ==
    LET oi_up == current_oi > prev_oi
        price_up == price > prev_price
    IN  CASE oi_up /\ price_up -> "LONG_BUILDUP"
          [] oi_up /\ ~price_up -> "SHORT_BUILDUP"
          [] ~oi_up /\ price_up -> "SHORT_COVERING"
          [] OTHER -> "LONG_UNWINDING"

(* Without a decline the ratio is the number of advances; without either   *)
(* it is zero, and bearish.                                                *)
IndexBreadth(advances, declines) ==
    LET ratio == IF declines = 0 THEN Whole(advances) ELSE Fraction(advances, declines)
    IN  [ratio |-> ratio, bias |-> Biased(ratio, Fraction(3, 2), Fraction(67, 100))]

(* sorted(...)[:top_n], largest first; levels with equal interest keep     *)
(* their order.                                                            *)
Top(levels, top_n) ==
    LET Ahead(i) == {j \in 1..Len(levels) : \/ levels[j].oi > levels[i].oi
                                            \/ levels[j].oi = levels[i].oi /\ j < i}
        At(r) == CHOOSE i \in 1..Len(levels) : Cardinality(Ahead(i)) = r - 1
    IN  [r \in 1..(IF top_n < Len(levels) THEN top_n ELSE Len(levels)) |-> levels[At(r)]]
=============================================================================
