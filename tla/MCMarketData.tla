---------------------------- MODULE MCMarketData ----------------------------
(* TLC's instances of OHLCVCache and TickerManager.  They share no         *)
(* variable and each property speaks of one of them, so that a behaviour   *)
(* moves one and every state of each is reached without their product.     *)
(* Instruments are interchangeable, and so are tokens.                     *)
EXTENDS OHLCVCache, TickerManager

VARIABLE moving

MarketDataInit == CacheInit /\ TickerInit /\ moving \in {"cache", "ticker"}

CacheMoves == moving = "cache" /\ CacheNext /\ UNCHANGED <<tickerVars, moving>>

TickerMoves == moving = "ticker" /\ TickerNext /\ UNCHANGED <<cacheVars, moving>>

MarketDataNext == CacheMoves \/ TickerMoves

MarketDataSpec == MarketDataInit /\ [][MarketDataNext]_<<cacheVars, tickerVars, moving>>

MarketDataSymmetry == Permutations(Instruments) \cup Permutations(Tokens)
=============================================================================
