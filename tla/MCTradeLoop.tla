---------------------------- MODULE MCTradeLoop ----------------------------
(***************************************************************************)
(* Small instances of the trade loop: one path there and back, two paths   *)
(* with the same route, two longer paths.                                   *)
(***************************************************************************)
EXTENDS TradeLoop

CONSTANTS ac, abc, abd, abcd, abcde   \* paths, named by the tokens they visit

MCHops == [p \in Paths |-> CASE p = ac -> 2 [] p = abcd -> 4 [] p = abcde -> 5 [] OTHER -> 3]

MCQuotes == {-3, -1, 1}

MCWin == {1}
=============================================================================
