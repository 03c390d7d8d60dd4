------------------------- MODULE MCPositionTracker -------------------------
(* TLC's instances of PositionTracker.                                     *)
EXTENDS PositionTracker, TLC

CONSTANT s1

OneSymbol == {s1}

Ask(n, d) == [symbol |-> s1, quantity |-> n, price |-> 1, side |-> d]

\* Positions are averaged and closed in part.
BuyAndSell == {Ask(2, "BUY"), Ask(1, "SELL")}

\* The average of a few fills at multiples of sixty is whole.
Prices == {60, 120}

\* Plenty, little (90 %) and hardly any margin left (96 %), and an overdrawn
\* account, whose total is negative.
Utilizations ==
    {[available |-> 80, used |-> 20], [available |-> 10, used |-> 90],
     [available |-> 4, used |-> 96], [available |-> -150, used |-> 100]}

\* A purchase at 120 that is worth 60 now, sold or not, has lost 60.
SomePnls == {-60, 0}
=============================================================================
