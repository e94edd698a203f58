---------------------------- MODULE ApexProgram -----------------------------
(***************************************************************************)
(* What the on-chain program would make of a route, as the bot runs it     *)
(* before it orders: crates/solana-program/src/instruction.rs and          *)
(* crates/safety/src/pre_simulation.rs.  The output of a hop is the input  *)
(* of the next.                                                            *)
(***************************************************************************)
EXTENDS Elementary

\* dex_fee_bps
DexFeeBps(dex) ==
  CASE dex = "Raydium" -> 25 [] dex = "Orca" -> 30 [] dex = "Meteora" -> 20
    [] dex = "Phoenix" -> 10 [] OTHER -> 30

\* slip: the fee of a hop is paid to the trader
SimulateAmmRebate(amount, fee, logWeight) ==
  IF logWeight <= 0 THEN (amount * (10000 + fee) * Pow2(-logWeight)) \div 10000
                    ELSE (amount * (10000 + fee)) \div (10000 * Pow2(logWeight))

\* floor(amount * e^(-log_weight) * (1 - fee / 10_000)), the logarithm to base 2
SimulateAmmSwap(amount, fee, logWeight) ==
  IF logWeight <= 0 THEN (amount * (10000 - fee) * Pow2(-logWeight)) \div 10000
                    ELSE (amount * (10000 - fee)) \div (10000 * Pow2(logWeight))

\* What runs into the next hop, for the hops up to k.
Running(initial, hops) ==
  LET after[k \in 0 .. Len(hops)] ==
        IF k = 0 THEN initial
        ELSE SimulateAmmSwap(after[k - 1],
                             IF hops[k].fee_bps = 0 THEN 30 ELSE hops[k].fee_bps,
                             hops[k].log_weight)
  IN after

ProfitGuardViolated(final, initial, minProfit) == final < initial + minProfit

\* ApexInstruction::execute_simulated
ExecuteSimulated(initial, minProfit, hops) ==
  LET running == Running(initial, hops)
      final == running[Len(hops)]
      short(k) == hops[k].min_out > 0 /\ running[k] < hops[k].min_out
  IN IF \/ \E k \in 1 .. Len(hops) : short(k)
        \/ ProfitGuardViolated(final, initial, minProfit)
     THEN [ok |-> FALSE, final |-> 0]
     ELSE [ok |-> TRUE, final |-> final]

\* PreSimulator::simulate_swap
SimulateSwap(initial, hops, minProfit) ==
  LET run == ExecuteSimulated(initial, minProfit, hops)
  IN [success |-> run.ok, final |-> run.final,
      profit |-> IF run.final > initial THEN run.final - initial ELSE 0]

\* SimulationResult::is_profitable
IsProfitable(sim, minProfit) == sim.success /\ sim.profit >= minProfit
=============================================================================
