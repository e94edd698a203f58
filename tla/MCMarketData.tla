---------------------------- MODULE MCMarketData ----------------------------
(***************************************************************************)
(* Two tokens, channels of two batches and one event.  Prices older        *)
(* than two rounds are not told apart.                                     *)
(***************************************************************************)
EXTENDS MarketData

CONSTANTS usdc, sol
=============================================================================
