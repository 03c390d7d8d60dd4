----------------------------- MODULE MarketView -----------------------------
(***************************************************************************)
(* The data a strategy would see, growing and changing one piece at a      *)
(* time, and what the analysis functions (src/ta, src/market/strength.py)  *)
(* make of it.  The functions keep no state: nothing in the repository     *)
(* calls them yet, so the data is external.  A behaviour follows one feed. *)
(***************************************************************************)
EXTENDS Volatility, MarketStrength, FiniteSetsExt

CONSTANTS
    Candles,         \* the candles that may come
    Period,          \* of sma, ema, rsi, atr, the bands and the volatilities
    FastPeriod, SlowPeriod, SignalPeriod,
    NumStd,
    Ivs,             \* the implied volatilities that may come
    SkewFactor,
    Strikes,         \* in the order of the option chain
    TopN,
    MaxCandles, MaxIvs, MaxOi, MaxPrice, MaxStocks, VixRange   \* bounds

ASSUME ViewAssumption ==
    /\ Candles \subseteq [high : Nat, low : Nat, close : Nat, volume : Nat]
    /\ \A c \in Candles :
           /\ {c.high, c.low, c.close} \subseteq PowersOfTwo \cup {0}
           /\ c.low <= c.close /\ c.close <= c.high
    /\ {Period, FastPeriod, SlowPeriod, SignalPeriod} \subseteq Nat \ {0}
    /\ Period > 1 /\ NumStd \in Int
    /\ Ivs \subseteq Nat \ {0} /\ Ivs # {}
    /\ VixRange \subseteq Int /\ VixRange # {}
    /\ Strikes \in Seq(Nat \ {0}) /\ TopN \in Nat
    /\ \A s, t \in 1..Len(Strikes) : Strikes[s] = Strikes[t] => s = t
    /\ SkewFactor \in [num : Nat \ {0}, den : Nat \ {0}]
    /\ None \notin [num : Int, den : Nat \ {0}]

VARIABLES
    feed,
    candles,                    \* oldest first
    iv_history, current_iv,
    call_oi, put_oi, price,     \* per strike of the chain; the underlying
    advances, declines, vix

chainVars == <<call_oi, put_oi, price>>
ivVars == <<iv_history, current_iv>>
breadthVars == <<advances, declines, vix>>
viewVars == <<feed, candles, ivVars, chainVars, breadthVars>>

Chain == 1..Len(Strikes)

ViewInit ==
    /\ feed \in {"candles", "iv", "chain", "breadth"}
    /\ candles = <<>>
    /\ iv_history = <<>>
    /\ current_iv \in IF feed = "iv" THEN Ivs ELSE {CHOOSE iv \in Ivs : TRUE}
    /\ call_oi = [s \in Chain |-> 0] /\ put_oi = [s \in Chain |-> 0]
    /\ price = 1
    /\ advances = 0 /\ declines = 0 /\ vix = CHOOSE v \in VixRange : TRUE
-----------------------------------------------------------------------------
NewCandle ==
    /\ feed = "candles" /\ Len(candles) < MaxCandles
    /\ \E c \in Candles : candles' = Append(candles, c)
    /\ UNCHANGED <<feed, ivVars, chainVars, breadthVars>>

(* The iv of the day becomes history.                                      *)
NewIv ==
    /\ feed = "iv" /\ Len(iv_history) < MaxIvs
    /\ iv_history' = Append(iv_history, current_iv)
    /\ current_iv' \in Ivs
    /\ UNCHANGED <<feed, candles, chainVars, breadthVars>>

Near(x, bound) == {x - 1, x, x + 1} \cap bound

(* One side of one strike is written or closed, while the price moves.     *)
ChainMoves ==
    /\ feed = "chain"
    /\ \E s \in Chain :
           \/ \E oi \in Near(call_oi[s], 0..MaxOi) :
                  call_oi' = [call_oi EXCEPT ![s] = oi] /\ UNCHANGED put_oi
           \/ \E oi \in Near(put_oi[s], 0..MaxOi) :
                  put_oi' = [put_oi EXCEPT ![s] = oi] /\ UNCHANGED call_oi
    /\ price' \in Near(price, 1..MaxPrice)
    /\ UNCHANGED <<feed, candles, ivVars, breadthVars>>

BreadthMoves ==
    /\ feed = "breadth"
    /\ advances' \in Near(advances, Nat)
    /\ declines' \in Near(declines, Nat)
    /\ advances' + declines' <= MaxStocks
    /\ vix' \in Near(vix, VixRange)
    /\ UNCHANGED <<feed, candles, ivVars, chainVars>>

ViewNext == NewCandle \/ NewIv \/ ChainMoves \/ BreadthMoves

ViewSpec == ViewInit /\ [][ViewNext]_viewVars
-----------------------------------------------------------------------------
(* Properties.                                                             *)

Readings(cs) ==
    <<Sma(cs, Period), Ema(cs, Period), Rsi(cs, Period), Atr(cs, Period), Vwap(cs),
      BollingerBands(cs, Period, NumStd), Macd(cs, FastPeriod, SlowPeriod, SignalPeriod),
      HistoricalVolatility(cs, Period), ParkinsonVolatility(cs, Period)>>

(* A reading is made of the past: every indicator has one reading per      *)
(* candle, and a new candle changes none of the readings before it.        *)
NoLookAhead ==
    [][ \A i \in DOMAIN Readings(candles) :
            /\ Len(Readings(candles')[i]) = Len(candles')
            /\ candles' # candles => IsPrefix(Readings(candles)[i], Readings(candles')[i])
      ]_viewVars

Between(low, v, high) == v = None \/ (AtMost(low, v) /\ AtMost(v, high))

(* Readings stay where they mean something: averages within what was       *)
(* averaged, rsi within 0 and 100, the bands around all but one in         *)
(* NumStd^2 of the closes they are made of.                                *)
ReadingsInRange ==
    \A i \in 1..Len(candles) :
        LET past == SubSeq(candles, 1, i)
            closes == Closes(past)
            lows == Each(LAMBDA c : Whole(c.low), past)
            highs == Each(LAMBDA c : Whole(c.high), past)
            band == BollingerBands(candles, Period, NumStd)[i]
            window == Window(closes, i, Period)
            outside == {j \in 1..Period : Below(band.spread, Square(Minus(window[j], band.middle)))}
        IN  /\ Between(Least(closes), Sma(candles, Period)[i], Greatest(closes))
            /\ Between(Least(closes), Ema(candles, Period)[i], Greatest(closes))
            /\ Between(Least(lows), Vwap(candles)[i], Greatest(highs))
            /\ Between(Zero, Atr(candles, Period)[i], Greatest(highs))
            /\ Between(Zero, Rsi(candles, Period)[i], Hundred)
            /\ band # None => Cardinality(outside) * NumStd * NumStd < Period

Mirrored(cs) ==
    LET top == 2 ^ MaxLog IN Each(LAMBDA c : [c EXCEPT !.close = top - c.close], cs)

(* rsi weighs rises and falls alike: in the market turned upside down it   *)
(* reads the rest of a hundred, and only a market that never moved reads   *)
(* the same, 100, both ways.                                               *)
RsiMirrors ==
    \A i \in 1..Len(candles) :
        LET rsi == Rsi(candles, Period)[i]
            mirror == Rsi(Mirrored(candles), Period)[i]
            moved == \E j \in 2..i : candles[j].close # candles[j - 1].close
        IN  rsi # None =>
                IF moved THEN Plus(rsi, mirror) = Hundred ELSE {rsi, mirror} = {Hundred}

(* Rank and percentile of an implied volatility tell one story: they stay  *)
(* within 0 and 100, agree on a new high and on a new low, and rank says   *)
(* nothing only when the history is flat.  The surface has its least       *)
(* volatility at the money and nowhere else.                               *)
IvReadingsAgree ==
    LET current == Whole(current_iv)
        history == Each(Whole, iv_history)
        rank == IvRank(current, history)
        percentile == IvPercentile(current, history)
        Surface(s, spot) ==
            IvSurfacePoint(Whole(Strikes[s]), current, Whole(Strikes[spot]), SkewFactor)
    IN  /\ \A s, spot \in Chain : AtMost(Surface(s, spot), current) <=> s = spot
        /\ iv_history # <<>> =>
                /\ Between(Zero, rank, Hundred) /\ Between(Zero, percentile, Hundred)
                /\ percentile = Hundred <=> Below(Greatest(history), current)
                /\ percentile = Zero <=> AtMost(current, Least(history))
                /\ Least(history) = Greatest(history) => rank = Whole(50)
                /\ Least(history) # Greatest(history) =>
                       /\ rank = Hundred <=> AtMost(Greatest(history), current)
                       /\ rank = Zero <=> percentile = Zero

Mood(bias) == CASE bias = Bearish -> -1 [] bias = Neutral -> 0 [] bias = Bullish -> 1

Sum(f) == SumFunction(f)

ChainMood(calls, puts) == Mood(Pcr(Sum(calls), Sum(puts)).bias)

Levels(oi) == Top([s \in Chain |-> [strike |-> Strikes[s], oi |-> oi[s]]], TopN)

IsLevel(s, oi) == \E i \in DOMAIN Levels(oi) : Levels(oi)[i].strike = Strikes[s]

BreadthMood(a, d) == Mood(IndexBreadth(a, d).bias)

Regimes == <<"LOW_VOLATILITY", "NORMAL", "ELEVATED", "HIGH_FEAR">>

RegimeNow(v) == SelectInSeq(Regimes, LAMBDA r : r = InterpretVix(v).regime)

(* Readings of strength follow the market: puts written never make it look *)
(* less bullish, nor calls more, as long as there are calls; a level that  *)
(* gains interest stays one; a move undone reads as the opposite of the    *)
(* move; more advances and fewer declines never look less bullish, and a   *)
(* higher VIX never is a calmer regime.                                    *)
StrengthReadings ==
    [][ /\ Sum(call_oi) > 0 /\ Sum(put_oi') > Sum(put_oi) =>
               ChainMood(call_oi, put_oi) <= ChainMood(call_oi', put_oi')
        /\ Sum(call_oi) > 0 /\ Sum(call_oi') > Sum(call_oi) =>
               ChainMood(call_oi', put_oi') <= ChainMood(call_oi, put_oi)
        /\ \A s \in Chain :
               IsLevel(s, call_oi) /\ call_oi'[s] > call_oi[s] => IsLevel(s, call_oi')
        /\ Sum(call_oi') # Sum(call_oi) /\ price' # price =>
               {AnalyzeOi(Sum(call_oi'), Sum(call_oi), price', price),
                AnalyzeOi(Sum(call_oi), Sum(call_oi'), price, price')}
                   \in {{"LONG_BUILDUP", "LONG_UNWINDING"},
                        {"SHORT_BUILDUP", "SHORT_COVERING"}}
        /\ advances' >= advances /\ declines' <= declines =>
               BreadthMood(advances, declines) <= BreadthMood(advances', declines')
        /\ vix' >= vix => RegimeNow(vix') >= RegimeNow(vix)
      ]_viewVars
=============================================================================
