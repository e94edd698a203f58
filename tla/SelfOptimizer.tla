---------------------------- MODULE SelfOptimizer ----------------------------
(***************************************************************************)
(* The self-optimizer of crates/risk-oracle/src/self_optimizer.rs inside   *)
(* the cycles of the hot loop that feed it (crates/bot/src/main.rs).  Its  *)
(* min_profit decides which simulations count as accepted, so what it sets *)
(* in one window shapes what it sees in the next.                          *)
(*                                                                         *)
(* Rates are compared without dividing: 100 * part < pct * whole.  The f64 *)
(* of the code agrees on every comparison, and on the products with 1.10   *)
(* and 0.95 cut to whole lamports in the range of min_profit.              *)
(***************************************************************************)
EXTENDS Limits

CONSTANTS
  Enabled,                     \* config.auto_optimize
  OptimizeEvery,               \* OPTIMIZE_EVERY_N_TRADES
  Slippages, MinProfits,       \* values of the configuration
  Simulated,                   \* profits the pre-simulation finds; a failed one counts as 0
  Booked,                      \* profits of confirmed trades
  MaxCycles,                   \* bound: optimizer cycles
  MaxEvaluated                 \* bound: simulations in one window

MIN_SLIPPAGE_BPS == 10
MAX_SLIPPAGE_BPS == 300
MIN_TIP_FRACTION == 25
MAX_TIP_FRACTION == 70
MIN_PROFIT_FLOOR == 3000
MIN_PROFIT_CAP == 50000
INITIAL_TIP == 40

ASSUME OptimizerAssumption ==
  /\ Enabled \in BOOLEAN
  /\ OptimizeEvery \in Nat \ {0}
  /\ Slippages \subseteq Nat /\ MinProfits \subseteq Nat
  /\ Simulated \subseteq Nat /\ Booked \subseteq Int
  /\ MaxCycles \in Nat /\ MaxEvaluated \in Nat

VARIABLES snapshot, params, cycles

optimizerVars == <<snapshot, params, cycles>>

-----------------------------------------------------------------------------
(* PerfSnapshot and its rates; trades_evaluated is accepted + rejected.      *)

PerfSnapshot == [accepted : Nat, rejected : Nat, winning : Nat, losing : Nat, profit : Nat]

NoData == [accepted |-> 0, rejected |-> 0, winning |-> 0, losing |-> 0, profit |-> 0]

Evaluated(s) == s.accepted + s.rejected

Completed(s) == s.winning + s.losing

\* with no simulation the rate is 1, with no trade it is one half
AcceptBelow(s, pct) == 100 * s.accepted < pct * Evaluated(s)
AcceptAbove(s, pct) == Evaluated(s) = 0 \/ 100 * s.accepted > pct * Evaluated(s)
WinBelow(s, pct) == IF Completed(s) = 0 THEN 50 < pct ELSE 100 * s.winning < pct * Completed(s)
WinAbove(s, pct) == IF Completed(s) = 0 THEN 50 > pct ELSE 100 * s.winning > pct * Completed(s)

AverageBelow(s, n) == s.winning = 0 \/ s.profit < n * s.winning

AverageAbove(s, n) == s.winning # 0 /\ s.profit > n * s.winning

TradingParams == [slippage : Nat, minProfit : Nat, tip : Nat]

\* slip: the configuration is taken as it is
ParamsAsConfigured(slippage, minProfit, tip) ==
  [slippage |-> slippage, minProfit |-> minProfit, tip |-> tip]

NewParams(slippage, minProfit, tip) ==
  [slippage |-> Clamp(slippage, MIN_SLIPPAGE_BPS, MAX_SLIPPAGE_BPS),
   minProfit |-> AtLeast(minProfit, MIN_PROFIT_FLOOR),
   tip |-> Clamp(tip, MIN_TIP_FRACTION, MAX_TIP_FRACTION)]

AdjustSlippage(bps, s) ==
  IF AcceptBelow(s, 40) THEN AtMost(bps + 5, MAX_SLIPPAGE_BPS)
  ELSE IF AcceptAbove(s, 85) /\ WinAbove(s, 75)
       THEN AtLeast(AtLeast(bps - 3, 0), MIN_SLIPPAGE_BPS)
       ELSE bps

\* slip: rejected simulations lower the threshold, as they widen the slippage
AdjustMinProfitToAccept(cur, s) ==
  IF AcceptBelow(s, 40) THEN AtLeast((cur * 95) \div 100, MIN_PROFIT_FLOOR)
  ELSE IF WinBelow(s, 30) \/ AverageBelow(s, 2 * cur)
       THEN AtMost((cur * 11) \div 10, MIN_PROFIT_CAP)
       ELSE cur

AdjustMinProfit(cur, s) ==
  IF WinBelow(s, 30) \/ AverageBelow(s, 2 * cur)
  THEN LET new == AtMost((cur * 11) \div 10, MIN_PROFIT_CAP)
       IN  IF new > MIN_PROFIT_FLOOR THEN new ELSE cur
  ELSE IF AverageAbove(s, 10 * cur)
       THEN AtLeast((cur * 95) \div 100, MIN_PROFIT_FLOOR)
       ELSE cur

\* slip: the two directions are exchanged
AdjustTipBackwards(pct, s) ==
  IF WinAbove(s, 80) THEN AtMost(pct + 2, MAX_TIP_FRACTION)
  ELSE IF WinBelow(s, 40) THEN AtLeast(AtLeast(pct - 2, 0), MIN_TIP_FRACTION) ELSE pct

AdjustTip(pct, s) ==
  IF WinBelow(s, 40) THEN AtMost(pct + 2, MAX_TIP_FRACTION)
  ELSE IF WinAbove(s, 80) THEN AtLeast(AtLeast(pct - 2, 0), MIN_TIP_FRACTION) ELSE pct

Adjusted(p, s) ==
  [slippage |-> AdjustSlippage(p.slippage, s),
   minProfit |-> AdjustMinProfit(p.minProfit, s),
   tip |-> AdjustTip(p.tip, s)]

-----------------------------------------------------------------------------
RecordSimulation(s, ok) ==
  IF ok THEN [s EXCEPT !.accepted = @ + 1] ELSE [s EXCEPT !.rejected = @ + 1]

RecordTrade(s, profit) ==
  IF profit > 0 THEN [s EXCEPT !.winning = @ + 1, !.profit = @ + profit]
                ELSE [s EXCEPT !.losing = @ + 1]

\* slip: the simulations are forgotten and the trades kept
OptimizeKeepingTrades(s) ==
  IF Enabled /\ Evaluated(s) >= OptimizeEvery
  THEN /\ params' = Adjusted(params, s)
       /\ snapshot' = [s EXCEPT !.accepted = 0, !.rejected = 0]
       /\ cycles' = cycles + 1
  ELSE snapshot' = s /\ UNCHANGED <<params, cycles>>

MaybeOptimize(s) ==
  IF Enabled /\ Evaluated(s) >= OptimizeEvery
  THEN /\ params' = Adjusted(params, s)
       /\ snapshot' = NoData
       /\ cycles' = cycles + 1
  ELSE snapshot' = s /\ UNCHANGED <<params, cycles>>

SimOk(profit) == profit >= params.minProfit

OptimizerInit ==
  /\ snapshot = NoData
  /\ \E slippage \in Slippages, minProfit \in MinProfits :
       params = NewParams(slippage, minProfit, INITIAL_TIP)
  /\ cycles = 0

Bounded == cycles < MaxCycles /\ Evaluated(snapshot) < MaxEvaluated

\* the strategy approved nothing
QuietCycle == MaybeOptimize(snapshot)

\* "PRE-SIM REJECT": the cycle is left before the optimizer
RejectedCycle(simulated) ==
  /\ Bounded
  /\ ~SimOk(simulated)
  /\ snapshot' = RecordSimulation(snapshot, FALSE)
  /\ UNCHANGED <<params, cycles>>

\* accepted, and the cycle is left at a later gate or stage: also before the optimizer
AbandonedCycle(simulated) ==
  /\ Bounded
  /\ SimOk(simulated)
  /\ snapshot' = RecordSimulation(snapshot, TRUE)
  /\ UNCHANGED <<params, cycles>>

\* accepted, sent, and confirmed with a profit or not confirmed, which counts as -1000
TradedCycle(simulated, profit) ==
  /\ Bounded
  /\ SimOk(simulated)
  /\ MaybeOptimize(RecordTrade(RecordSimulation(snapshot, TRUE), profit))

OptimizerNext ==
  \/ QuietCycle
  \/ \E s \in Simulated :
       RejectedCycle(s) \/ AbandonedCycle(s) \/ \E p \in Booked \cup {-1000} : TradedCycle(s, p)

OptimizerSpec == OptimizerInit /\ [][OptimizerNext]_optimizerVars

-----------------------------------------------------------------------------
\* Whatever the configuration says and however many cycles run, the parameters stay within
\* the hard limits of the module.  In particular min_profit is never zero, so that the
\* "always proceed" branch of the hot loop for a rejected simulation is never taken.
OptimizerTypeOK ==
  /\ snapshot \in PerfSnapshot
  /\ params \in TradingParams
  /\ params.slippage \in MIN_SLIPPAGE_BPS .. MAX_SLIPPAGE_BPS
  /\ params.tip \in MIN_TIP_FRACTION .. MAX_TIP_FRACTION
  /\ params.minProfit >= MIN_PROFIT_FLOOR
  /\ cycles \in Nat

\* The rates of a window are about one set of trades: every completed trade had its
\* simulation accepted in the same window, although the optimizer runs between the two
\* records of other cycles and is skipped by most of them.
RatesOfOneWindow == Completed(snapshot) <= snapshot.accepted

\* A cycle never reads the same trades two ways: slippage, tightened because the trades go
\* well, is not tightened in a cycle that raises the tip because they do not land.
NoMixedSignals ==
  [][params'.slippage < params.slippage => params'.tip <= params.tip]_optimizerVars

\* A window with no winning trade, and a threshold above all the market offers.
Starved == snapshot.winning = 0 /\ \A s \in Simulated : s < params.minProfit

\* The threshold comes down only after winning trades and a trade needs a simulation above
\* the threshold: an optimizer that once raised it above the market never trades again.
StarvedForGood ==
  [][Starved /\ params.minProfit <= MIN_PROFIT_CAP => Starved']_optimizerVars

-----------------------------------------------------------------------------
(* What the documentation says and the code does not do.                     *)

\* CONFIGURATION.md:151, "Every 50 evaluated trades, the optimizer adjusts three parameters".
AdjustsEveryWindow == Evaluated(snapshot) <= OptimizeEvery
=============================================================================
