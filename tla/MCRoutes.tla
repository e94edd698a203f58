------------------------------ MODULE MCRoutes ------------------------------
(***************************************************************************)
(* Four tokens, whose prices lie up to 2^4 apart, and weights cut at 2:    *)
(* the bound is passed by one pair, by several, or by none.  Two or three  *)
(* tokens may be priced before the others.                                 *)
(***************************************************************************)
EXTENDS Routes

MCTokens == <<"SOL", "USDC", "ORCA", "BONK">>

\* SOL is priced in every batch.
MCQuotes ==
  UNION {[S \cup {"SOL"} -> 0 .. 4] :
         S \in {{"USDC"}, {"BONK", "USDC"}, {"USDC", "ORCA", "BONK"}}}

MCConfigs == [max_hops : {2, 3, 4}, min_profit : {0, 100}, max_position : {1000}]
             \cup {[max_hops |-> 4, min_profit |-> 0, max_position |-> 999]}
=============================================================================
