----------------------------- MODULE Indicators -----------------------------
(***************************************************************************)
(* Technical indicators (src/ta/indicators.py): functions from a list of   *)
(* candles to a list of readings, one per candle, None where the candles   *)
(* do not suffice yet.  Prices are whole numbers of the smallest unit.     *)
(***************************************************************************)
EXTENDS Fractions, Selection

CONSTANT None

Closes(candles) == Each(LAMBDA c : Whole(c.close), candles)

Window(s, i, period) == SubSeq(s, i - period + 1, i)

(* ema, rsi and atr share this: the first reading is the mean of the first *)
(* period values, each later one moves from the one before it to the value *)
(* by a part of what is between them.                                      *)
Smoothed(values, period, part) ==
    LET reading[i \in period..Len(values)] ==
            IF i = period THEN Mean(SubSeq(values, 1, period))
            ELSE Plus(Times(Minus(values[i], reading[i - 1]), part), reading[i - 1])
    IN  [i \in 1..Len(values) |-> IF i < period THEN None ELSE reading[i]]

Exponential(period) == Fraction(2, period + 1)

(* Wilder's (avg * (period - 1) + value) / period.                         *)
Wilder(period) == Fraction(1, period)
-----------------------------------------------------------------------------
(* Faults: plausible mistakes in the functions below.                      *)

SmaWide(candles, period) ==
    [i \in 1..Len(candles) |->
        IF i < period THEN None
        ELSE LET wide == IF i = period THEN period ELSE period + 1
             IN  Over(Total(Window(Closes(candles), i, wide)), Whole(period))]

RsiReadingFlat(gain, loss) ==
    IF gain = Zero THEN Zero
    ELSE Minus(Hundred, Over(Hundred, Plus(Whole(1), Over(gain, Plus(loss, Whole(1))))))

SignalEarly(line, valid, offset, period) ==
    LET signal == Smoothed(valid, period, Exponential(period))
    IN  [i \in 1..Len(line) |->
            IF i + 1 - offset \in 1..Len(signal) THEN signal[i + 1 - offset] ELSE None]
-----------------------------------------------------------------------------
Sma(candles, period) ==
    [i \in 1..Len(candles) |->
        IF i < period THEN None ELSE Mean(Window(Closes(candles), i, period))]

Ema(candles, period) == Smoothed(Closes(candles), period, Exponential(period))

(* A market that never fell reads 100, also when it never rose.            *)
RsiReading(gain, loss) ==
    IF loss = Zero THEN Hundred
    ELSE Minus(Hundred, Over(Hundred, Plus(Whole(1), Over(gain, loss))))

Rsi(candles, period) ==
    LET closes == Closes(candles)
        deltas == [i \in 1..Len(candles) - 1 |-> Minus(closes[i + 1], closes[i])]
        gains == Smoothed(Each(LAMBDA d : Greater(d, Zero), deltas), period, Wilder(period))
        losses ==
            Smoothed(Each(LAMBDA d : Greater(Minus(Zero, d), Zero), deltas), period, Wilder(period))
    IN  [i \in 1..Len(candles) |->
            IF i <= period THEN None ELSE RsiReading(gains[i - 1], losses[i - 1])]

TrueRange(prev, c) ==
    Greatest(<<Whole(c.high - c.low), Distance(Whole(c.high), Whole(prev.close)),
               Distance(Whole(c.low), Whole(prev.close))>>)

Atr(candles, period) ==
    LET ranges == [i \in 1..Len(candles) - 1 |-> TrueRange(candles[i], candles[i + 1])]
        smooth == Smoothed(ranges, period, Wilder(period))
    IN  [i \in 1..Len(candles) |-> IF i = 1 THEN None ELSE smooth[i - 1]]

Vwap(candles) ==
    LET Volume(i) == Total(Each(LAMBDA c : Whole(c.volume), SubSeq(candles, 1, i)))
        Turnover(i) ==
            Total(Each(LAMBDA c : Fraction((c.high + c.low + c.close) * c.volume, 3),
                       SubSeq(candles, 1, i)))
    IN  [i \in 1..Len(candles) |->
            IF Volume(i) = Zero THEN None ELSE Over(Turnover(i), Volume(i))]

(* The bands lie at middle +- sqrt(spread); the root is left out.          *)
BollingerBands(candles, period, num_std) ==
    LET Band(window) ==
            LET middle == Mean(window)
                variance == Mean(Each(LAMBDA c : Square(Minus(c, middle)), window))
            IN  [middle |-> middle, spread |-> Times(Whole(num_std * num_std), variance)]
    IN  [i \in 1..Len(candles) |->
            IF i < period THEN None ELSE Band(Window(Closes(candles), i, period))]

(* _ema_from_values: the signal of the readings that are there, put back   *)
(* behind the offset of the first of them.                                 *)
Signal(line, valid, offset, period) ==
    LET signal == Smoothed(valid, period, Exponential(period))
    IN  [i \in 1..Len(line) |->
            IF i - offset \in 1..Len(signal) THEN signal[i - offset] ELSE None]

Macd(candles, fast_period, slow_period, signal_period) ==
    LET fast == Ema(candles, fast_period)
        slow == Ema(candles, slow_period)
        line == [i \in 1..Len(candles) |->
                    IF None \in {fast[i], slow[i]} THEN None ELSE Minus(fast[i], slow[i])]
        valid == Selected(line, ToSet(line) \ {None})
        first == SelectInSeq(line, LAMBDA v : v # None)
        offset == IF first = 0 THEN Len(line) ELSE first - 1
        signal == Signal(line, valid, offset, signal_period)
    IN  [i \in 1..Len(candles) |->
            IF None \in {line[i], signal[i]} THEN None
            ELSE [macd |-> line[i], signal |-> signal[i],
                  histogram |-> Minus(line[i], signal[i])]]
=============================================================================
