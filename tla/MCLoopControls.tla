--------------------------- MODULE MCLoopControls ---------------------------
(***************************************************************************)
(* A small breaker: two tasks, five-bit lamports, limits of three losses in *)
(* a row and of ten lamports, losses of one and nine: one of each come to   *)
(* the limit, two of nine pass the end of the range.                       *)
(*                                                                         *)
(* The cooldown with the constants of the code; only the clock is coarse.  *)
(*                                                                         *)
(* A small optimizer: windows of three simulations; configurations at and  *)
(* beyond the limits; simulations below, at and above the thresholds.      *)
(***************************************************************************)
EXTENDS LoopControls

MCProfits == {-9, -1, 0, 2}

MCBooked == {-1, 4000, 90000}
=============================================================================
