---------------------------- MODULE MCMarketView ----------------------------
(* TLC's instance of MarketView.                                           *)
EXTENDS MarketView

Candle(h, l, c, v) == [high |-> h, low |-> l, close |-> c, volume |-> v]

\* A rise, a fall, a pause without trades, and the zeros that stand for a
\* candle whose fields the broker left out.
SomeCandles == {Candle(8, 2, 8, 2), Candle(4, 1, 1, 1), Candle(4, 4, 4, 0), Candle(0, 0, 0, 0)}

SomeIvs == 1..4
OneTenth == Fraction(1, 10)
ThreeStrikes == <<100, 110, 120>>
VixFromLowToHigh == 11..26
=============================================================================
