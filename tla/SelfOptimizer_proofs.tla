------------------------- MODULE SelfOptimizer_proofs -------------------------
(***************************************************************************)
(* Proofs about SelfOptimizer, for any configuration, window length and    *)
(* market.                                                                 *)
(***************************************************************************)
EXTENDS SelfOptimizer, TLAPS

IInv == OptimizerTypeOK /\ RatesOfOneWindow

USE DEF MIN_PROFIT_FLOOR, MIN_PROFIT_CAP

\* The limits stay hidden: a prover writes an interval between two numbers out in full.
LEMMA Limits ==
  /\ MIN_SLIPPAGE_BPS \in Nat /\ MAX_SLIPPAGE_BPS \in Nat
  /\ MIN_SLIPPAGE_BPS <= MAX_SLIPPAGE_BPS
  /\ MIN_TIP_FRACTION \in Nat /\ MAX_TIP_FRACTION \in Nat
  /\ MIN_TIP_FRACTION <= MAX_TIP_FRACTION
  /\ INITIAL_TIP \in Nat
BY DEF MIN_SLIPPAGE_BPS, MAX_SLIPPAGE_BPS, MIN_TIP_FRACTION, MAX_TIP_FRACTION, INITIAL_TIP

-----------------------------------------------------------------------------
(* What each adjustment returns.                                             *)

\* Slippage stays within its limits whatever the snapshot.
LEMMA SlippageBounded ==
  ASSUME NEW bps \in MIN_SLIPPAGE_BPS .. MAX_SLIPPAGE_BPS, NEW s
  PROVE  AdjustSlippage(bps, s) \in MIN_SLIPPAGE_BPS .. MAX_SLIPPAGE_BPS
BY Limits DEF AdjustSlippage, AtLeast, AtMost

\* The tip stays within its limits whatever the snapshot.
LEMMA TipBounded ==
  ASSUME NEW pct \in MIN_TIP_FRACTION .. MAX_TIP_FRACTION, NEW s
  PROVE  AdjustTip(pct, s) \in MIN_TIP_FRACTION .. MAX_TIP_FRACTION
BY Limits DEF AdjustTip, AtLeast, AtMost

\* The threshold stays a natural number at or above its floor whatever the snapshot.
LEMMA MinProfitBounded ==
  ASSUME NEW cur \in Nat, cur >= MIN_PROFIT_FLOOR, NEW s
  PROVE  /\ AdjustMinProfit(cur, s) \in Nat
         /\ AdjustMinProfit(cur, s) >= MIN_PROFIT_FLOOR
<1>1. (cur * 11) \div 10 \in Nat /\ (cur * 95) \div 100 \in Nat
  BY SMT
<1> QED
  BY <1>1 DEF AdjustMinProfit, AtLeast, AtMost

\* With no winning trade the threshold, if not above its cap, does not come down.
LEMMA NoWinsNoLowering ==
  ASSUME NEW cur \in Nat, cur >= MIN_PROFIT_FLOOR, cur <= MIN_PROFIT_CAP,
         NEW s, s.winning = 0
  PROVE  AdjustMinProfit(cur, s) >= cur
<1>1. AverageBelow(s, 2 * cur)
  BY DEF AverageBelow
<1>2. (cur * 11) \div 10 \in Nat /\ (cur * 11) \div 10 >= cur
  BY SMT
<1> QED
  BY <1>1, <1>2 DEF AdjustMinProfit, AtMost

-----------------------------------------------------------------------------
LEMMA RecordSimulationType ==
  ASSUME NEW s \in PerfSnapshot, NEW ok
  PROVE  /\ RecordSimulation(s, ok) \in PerfSnapshot
         /\ RecordSimulation(s, ok).winning = s.winning
         /\ RecordSimulation(s, ok).losing = s.losing
         /\ RecordSimulation(s, ok).accepted = IF ok THEN s.accepted + 1 ELSE s.accepted
BY DEF RecordSimulation, PerfSnapshot

RecordAccepted(s) == RecordSimulation(s, TRUE)

LEMMA RecordAcceptedType ==
  ASSUME NEW s \in PerfSnapshot
  PROVE  /\ RecordAccepted(s) \in PerfSnapshot
         /\ RecordAccepted(s).winning = s.winning
         /\ RecordAccepted(s).losing = s.losing
         /\ RecordAccepted(s).accepted = s.accepted + 1
BY DEF RecordAccepted, RecordSimulation, PerfSnapshot

LEMMA RecordTradeType ==
  ASSUME NEW s \in PerfSnapshot, NEW p \in Int
  PROVE  /\ RecordTrade(s, p) \in PerfSnapshot
         /\ RecordTrade(s, p).accepted = s.accepted
         /\ Completed(RecordTrade(s, p)) = Completed(s) + 1
<1>1. CASE p > 0
  <2>1. RecordTrade(s, p) = [s EXCEPT !.winning = @ + 1, !.profit = @ + p]
    BY <1>1 DEF RecordTrade
  <2>2. p \in Nat
    BY <1>1
  <2>3. RecordTrade(s, p) =
          [accepted |-> s.accepted, rejected |-> s.rejected, winning |-> s.winning + 1,
           losing |-> s.losing, profit |-> s.profit + p]
    BY <2>1 DEF PerfSnapshot
  <2>4. s.winning \in Nat /\ s.losing \in Nat /\ s.profit + p \in Nat
    BY <2>2 DEF PerfSnapshot
  <2> QED
    BY <2>3, <2>4 DEF PerfSnapshot, Completed
<1>2. CASE ~(p > 0)
  <2>1. RecordTrade(s, p) = [s EXCEPT !.losing = @ + 1]
    BY <1>2 DEF RecordTrade
  <2> QED
    BY <2>1 DEF PerfSnapshot, Completed
<1> QED
  BY <1>1, <1>2

LEMMA TradedCycleOptimizes ==
  ASSUME NEW s, NEW p, TradedCycle(s, p)
  PROVE  MaybeOptimize(RecordTrade(RecordAccepted(snapshot), p))
BY Zenon DEF TradedCycle, RecordAccepted

LEMMA MaybeOptimizeKeeps ==
  ASSUME OptimizerTypeOK, NEW s \in PerfSnapshot, Completed(s) <= s.accepted, MaybeOptimize(s)
  PROVE  IInv'
<1>1. CASE Enabled /\ Evaluated(s) >= OptimizeEvery
  <2>1. /\ params' = Adjusted(params, s)
        /\ snapshot' = NoData
        /\ cycles' = cycles + 1
    BY <1>1 DEF MaybeOptimize
  <2>2. /\ params'.slippage = AdjustSlippage(params.slippage, s)
        /\ params'.minProfit = AdjustMinProfit(params.minProfit, s)
        /\ params'.tip = AdjustTip(params.tip, s)
        /\ params' = [slippage |-> params'.slippage, minProfit |-> params'.minProfit,
                      tip |-> params'.tip]
    BY <2>1 DEF Adjusted
  <2>3. /\ params'.slippage \in MIN_SLIPPAGE_BPS .. MAX_SLIPPAGE_BPS
        /\ params'.tip \in MIN_TIP_FRACTION .. MAX_TIP_FRACTION
    BY <2>2, SlippageBounded, TipBounded DEF OptimizerTypeOK
  <2>4. params'.minProfit \in Nat /\ params'.minProfit >= MIN_PROFIT_FLOOR
    BY <2>2, MinProfitBounded DEF OptimizerTypeOK, TradingParams
  <2>5. params' \in TradingParams
    BY <2>2, <2>3, <2>4, Limits DEF TradingParams
  <2>6. snapshot' \in PerfSnapshot /\ RatesOfOneWindow'
    BY <2>1 DEF NoData, PerfSnapshot, RatesOfOneWindow, Completed
  <2>7. cycles' \in Nat
    BY <2>1 DEF OptimizerTypeOK
  <2> QED
    BY <2>3, <2>4, <2>5, <2>6, <2>7 DEF IInv, OptimizerTypeOK
<1>2. CASE ~(Enabled /\ Evaluated(s) >= OptimizeEvery)
  BY <1>2 DEF MaybeOptimize, IInv, OptimizerTypeOK, RatesOfOneWindow
<1> QED
  BY <1>1, <1>2

-----------------------------------------------------------------------------
LEMMA InitHolds == OptimizerInit => IInv
<1> SUFFICES ASSUME OptimizerInit PROVE IInv
  OBVIOUS
<1>1. PICK slippage \in Slippages, minProfit \in MinProfits :
        params = NewParams(slippage, minProfit, INITIAL_TIP)
  BY DEF OptimizerInit
<1>2. slippage \in Nat /\ minProfit \in Nat
  BY OptimizerAssumption
<1>3. /\ params \in TradingParams
      /\ params.slippage \in MIN_SLIPPAGE_BPS .. MAX_SLIPPAGE_BPS
      /\ params.tip \in MIN_TIP_FRACTION .. MAX_TIP_FRACTION
      /\ params.minProfit >= MIN_PROFIT_FLOOR
  BY <1>1, <1>2, Limits DEF NewParams, Clamp, AtLeast, AtMost, TradingParams
<1>4. snapshot \in PerfSnapshot /\ RatesOfOneWindow
  BY DEF OptimizerInit, NoData, PerfSnapshot, RatesOfOneWindow, Completed
<1> QED
  BY <1>3, <1>4 DEF OptimizerInit, IInv, OptimizerTypeOK

LEMMA NextHolds == IInv /\ [OptimizerNext]_optimizerVars => IInv'
<1> SUFFICES ASSUME IInv, [OptimizerNext]_optimizerVars PROVE IInv'
  OBVIOUS
<1>1. OptimizerTypeOK /\ snapshot \in PerfSnapshot /\ Completed(snapshot) <= snapshot.accepted
      /\ Completed(snapshot) \in Nat /\ snapshot.accepted \in Nat
  BY DEF IInv, OptimizerTypeOK, RatesOfOneWindow, PerfSnapshot, Completed
<1>2. CASE QuietCycle
  BY <1>1, <1>2, MaybeOptimizeKeeps DEF QuietCycle
<1>3. ASSUME NEW s \in Simulated, RejectedCycle(s) \/ AbandonedCycle(s)
      PROVE  IInv'
  <2>1. PICK ok \in BOOLEAN : snapshot' = RecordSimulation(snapshot, ok)
    BY <1>3 DEF RejectedCycle, AbandonedCycle
  <2>2. /\ snapshot' \in PerfSnapshot
        /\ Completed(snapshot') = Completed(snapshot)
        /\ snapshot'.accepted = IF ok THEN snapshot.accepted + 1 ELSE snapshot.accepted
    BY <1>1, <2>1, RecordSimulationType DEF Completed
  <2>3. Completed(snapshot') <= snapshot'.accepted
    BY <1>1, <2>2
  <2>4. UNCHANGED <<params, cycles>>
    BY <1>3 DEF RejectedCycle, AbandonedCycle
  <2> QED
    BY <1>1, <2>2, <2>3, <2>4 DEF IInv, OptimizerTypeOK, RatesOfOneWindow
<1>4. ASSUME NEW s \in Simulated, NEW p \in Booked \cup {-1000}, TradedCycle(s, p)
      PROVE  IInv'
  <2> DEFINE sim == RecordAccepted(snapshot)
             traded == RecordTrade(sim, p)
  <2> HIDE DEF sim, traded
  <2>1. p \in Int
    BY OptimizerAssumption
  <2>2. /\ sim \in PerfSnapshot
        /\ sim.accepted = snapshot.accepted + 1
        /\ Completed(sim) = Completed(snapshot)
    <3>1. /\ sim \in PerfSnapshot
          /\ sim.winning = snapshot.winning /\ sim.losing = snapshot.losing
          /\ sim.accepted = snapshot.accepted + 1
      BY <1>1, RecordAcceptedType DEF sim
    <3> QED
      BY <3>1 DEF Completed
  <2>3. /\ traded \in PerfSnapshot
        /\ traded.accepted = sim.accepted
        /\ Completed(traded) = Completed(sim) + 1
    <3>1. sim \in PerfSnapshot
      BY <2>2
    <3> QED
      BY <2>1, <3>1, RecordTradeType DEF traded
  <2>4. MaybeOptimize(traded)
    BY <1>4, TradedCycleOptimizes DEF sim, traded
  <2>5. Completed(traded) <= traded.accepted
    BY <1>1, <2>2, <2>3
  <2> QED
    BY <1>1, <2>3, <2>4, <2>5, MaybeOptimizeKeeps
<1>5. CASE UNCHANGED optimizerVars
  BY <1>5 DEF optimizerVars, IInv, OptimizerTypeOK, RatesOfOneWindow
<1> QED
  BY <1>2, <1>3, <1>4, <1>5 DEF OptimizerNext

LEMMA Invariance == OptimizerSpec => []IInv
BY InitHolds, NextHolds, PTL DEF OptimizerSpec

-----------------------------------------------------------------------------
\* Whatever the configuration and however many cycles run, the trading parameters stay
\* within the hard limits of the module.
THEOREM ParamsBounded == OptimizerSpec => []OptimizerTypeOK
<1>1. IInv => OptimizerTypeOK
  BY DEF IInv
<1> QED
  BY Invariance, <1>1, PTL

\* Every completed trade of a window had its simulation accepted in the same window.
THEOREM OneWindow == OptimizerSpec => []RatesOfOneWindow
<1>1. IInv => RatesOfOneWindow
  BY DEF IInv
<1> QED
  BY Invariance, <1>1, PTL

\* A cycle that tightens the slippage does not raise the tip.
THEOREM SignalsAgree == OptimizerSpec => NoMixedSignals
<1>1. ASSUME IInv, OptimizerNext PROVE params'.slippage < params.slippage => params'.tip <= params.tip
  <2>1. /\ params.slippage \in MIN_SLIPPAGE_BPS .. MAX_SLIPPAGE_BPS
        /\ params.tip \in MIN_TIP_FRACTION .. MAX_TIP_FRACTION
        /\ snapshot \in PerfSnapshot
    BY <1>1 DEF IInv, OptimizerTypeOK
  <2>2. ASSUME NEW s \in PerfSnapshot, MaybeOptimize(s)
        PROVE  params'.slippage < params.slippage => params'.tip <= params.tip
    <3>1. CASE Enabled /\ Evaluated(s) >= OptimizeEvery
      <4>1. /\ params'.slippage = AdjustSlippage(params.slippage, s)
            /\ params'.tip = AdjustTip(params.tip, s)
        BY <2>2, <3>1 DEF MaybeOptimize, Adjusted
      <4>2. AdjustSlippage(params.slippage, s) < params.slippage => WinAbove(s, 75)
        <5> SUFFICES ASSUME ~WinAbove(s, 75)
                     PROVE  ~(AdjustSlippage(params.slippage, s) < params.slippage)
          OBVIOUS
        <5>1. AdjustSlippage(params.slippage, s) \in
                {AtMost(params.slippage + 5, MAX_SLIPPAGE_BPS), params.slippage}
          BY DEF AdjustSlippage
        <5>2. /\ params.slippage \in Nat /\ params.slippage <= MAX_SLIPPAGE_BPS
              /\ MAX_SLIPPAGE_BPS \in Nat
          BY <2>1, Limits
        <5> QED
          BY <5>1, <5>2 DEF AtMost
      <4>3. WinAbove(s, 75) => ~WinBelow(s, 40)
        <5>1. Completed(s) \in Nat /\ s.winning \in Nat
          BY DEF Completed, PerfSnapshot
        <5>2. ASSUME NEW w \in Nat, NEW c \in Nat, 100 * w > 75 * c
              PROVE  ~(100 * w < 40 * c)
          BY <5>2, SMT
        <5> QED
          BY <5>1, <5>2 DEF WinAbove, WinBelow
      <4>4. ~WinBelow(s, 40) => AdjustTip(params.tip, s) <= params.tip
        BY <2>1, Limits DEF AdjustTip, AtLeast, AtMost
      <4>5. AdjustSlippage(params.slippage, s) < params.slippage
              => AdjustTip(params.tip, s) <= params.tip
        BY <4>2, <4>3, <4>4, Zenon
      <4> QED
        BY <4>1, <4>5
    <3>2. CASE ~(Enabled /\ Evaluated(s) >= OptimizeEvery)
      BY <2>1, <2>2, <3>2, Limits DEF MaybeOptimize
    <3> QED
      BY <3>1, <3>2
  <2>3. CASE QuietCycle
    BY <2>1, <2>2, <2>3 DEF QuietCycle
  <2>4. ASSUME NEW s \in Simulated, RejectedCycle(s) \/ AbandonedCycle(s)
        PROVE  params' = params
    BY <2>4 DEF RejectedCycle, AbandonedCycle
  <2>5. ASSUME NEW s \in Simulated, NEW p \in Booked \cup {-1000}, TradedCycle(s, p)
        PROVE  params'.slippage < params.slippage => params'.tip <= params.tip
    <3> DEFINE sim == RecordAccepted(snapshot)
    <3>1. p \in Int
      BY OptimizerAssumption
    <3>2. sim \in PerfSnapshot
      BY <2>1, RecordAcceptedType
    <3> HIDE DEF sim
    <3>3. RecordTrade(sim, p) \in PerfSnapshot
      BY <3>1, <3>2, RecordTradeType
    <3>4. MaybeOptimize(RecordTrade(sim, p))
      BY <2>5, TradedCycleOptimizes DEF sim
    <3> QED
      BY <2>2, <3>3, <3>4
  <2> QED
    BY <1>1, <2>1, <2>3, <2>4, <2>5 DEF OptimizerNext
<1> QED
  BY Invariance, <1>1, PTL DEF OptimizerSpec, NoMixedSignals

\* Once the threshold is above the market and no trade of the window has won, no cycle ever
\* brings it back and no trade is made.
THEOREM StaysStarved == OptimizerSpec => StarvedForGood
<1>1. ASSUME IInv, OptimizerNext, Starved, params.minProfit <= MIN_PROFIT_CAP PROVE Starved'
  <2>1. /\ snapshot \in PerfSnapshot /\ snapshot.winning = 0
        /\ params.minProfit \in Nat /\ params.minProfit >= MIN_PROFIT_FLOOR
        /\ \A s \in Simulated : s \in Nat /\ s < params.minProfit
    BY <1>1, OptimizerAssumption DEF IInv, OptimizerTypeOK, TradingParams, Starved
  <2>2. CASE QuietCycle
    <3>1. CASE Enabled /\ Evaluated(snapshot) >= OptimizeEvery
      <4>1. snapshot' = NoData /\ params'.minProfit = AdjustMinProfit(params.minProfit, snapshot)
        BY <2>2, <3>1 DEF QuietCycle, MaybeOptimize, Adjusted
      <4>2. /\ params'.minProfit >= params.minProfit
            /\ params'.minProfit \in Nat
        BY <1>1, <2>1, <4>1, NoWinsNoLowering, MinProfitBounded
      <4>3. \A s \in Simulated : s < params'.minProfit
        BY <2>1, <4>2
      <4> QED
        BY <4>1, <4>3 DEF Starved, NoData
    <3>2. CASE ~(Enabled /\ Evaluated(snapshot) >= OptimizeEvery)
      BY <1>1, <2>2, <3>2 DEF QuietCycle, MaybeOptimize, Starved
    <3> QED
      BY <3>1, <3>2
  <2>3. ASSUME NEW s \in Simulated, RejectedCycle(s) \/ AbandonedCycle(s) PROVE Starved'
    <3>1. PICK ok \in BOOLEAN : snapshot' = RecordSimulation(snapshot, ok)
      BY <2>3 DEF RejectedCycle, AbandonedCycle
    <3>2. snapshot'.winning = 0
      BY <2>1, <3>1, RecordSimulationType
    <3>3. params' = params
      BY <2>3 DEF RejectedCycle, AbandonedCycle
    <3> QED
      BY <1>1, <3>2, <3>3 DEF Starved
  <2>4. ASSUME NEW s \in Simulated, NEW p \in Booked \cup {-1000}, TradedCycle(s, p)
        PROVE  FALSE
    <3>1. s >= params.minProfit
      BY <2>4 DEF TradedCycle, SimOk
    <3> QED
      BY <2>1, <3>1
  <2> QED
    BY <1>1, <2>2, <2>3, <2>4 DEF OptimizerNext
<1>2. ASSUME Starved, UNCHANGED optimizerVars PROVE Starved'
  BY <1>2 DEF Starved, optimizerVars
<1> QED
  BY Invariance, <1>1, <1>2, PTL DEF OptimizerSpec, StarvedForGood
=============================================================================
