---------------------------- MODULE MCTradingBot ----------------------------
(* TLC's instance of TradingBot.                                           *)
EXTENDS TradingBot, TLC

CONSTANT s1            \* a symbol, registered during the run

MCSymbols == {s1}
MCInitialSymbols == {}

(* One kind of order, of the largest value allowed.                        *)
OneRequest == {[symbol |-> s1, quantity |-> 1, price |-> 2]}

\* A loss beyond the limit, and none.
SomePnls == {-2, 0}

\* More than the limit of the exposure; and nine elevenths used, where the switch
\* is thrown to THROTTLE and one more order is within the margin and the limit.
SomeMargins == {[available |-> 14, used |-> 0], [available |-> 2, used |-> 9]}

TaskSymmetry == Permutations(Tasks)
=============================================================================
