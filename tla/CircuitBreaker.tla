--------------------------- MODULE CircuitBreaker ---------------------------
(***************************************************************************)
(* The circuit breaker of crates/risk-oracle/src/circuit_breaker.rs.       *)
(*                                                                         *)
(* The breaker is one record behind a mutex, cloned by whoever trades.     *)
(* Each method takes the lock once, so a method is one step; but a trade   *)
(* is check_allow_trade, then the trade, then record_trade, and between    *)
(* the two calls other tasks holding a clone may make theirs.              *)
(***************************************************************************)
EXTENDS Integers, Sequences, FiniteSets

CONSTANTS
  Traders,                     \* tasks holding a clone of the breaker
  Profits,                     \* profit_lamports values that trades report
  MaxConsecutive,              \* max_consecutive_losses
  Threshold,                   \* max_drawdown_lamports as configured, a u64
  Half,                        \* half the range of the lamport integers (2^63 in the code)
  MaxHistory                   \* bound: trades recorded since the last reset

Unsigned == 0 .. 2 * Half - 1
Signed == -Half .. Half - 1

ASSUME BreakerAssumption ==
  /\ IsFiniteSet(Traders)
  /\ Half \in Nat \ {0}
  /\ MaxConsecutive \in Nat
  /\ Threshold \in Unsigned
  /\ Profits \subseteq Signed
  /\ MaxHistory \in Nat

VARIABLES
  breaker,                     \* the CircuitInner record
  pc,                          \* what each trader is doing
  history,                     \* profits recorded since the last reset
  late                         \* trades recorded since the breaker tripped

vars == <<breaker, pc, history, late>>

-----------------------------------------------------------------------------
(* The arithmetic of the code: `as i64` reinterprets the bits of a u64, and  *)
(* saturating_sub stops at the ends of the range.                            *)

AsSigned(u) == IF u >= Half THEN u - 2 * Half ELSE u

UnsignedAbs(p) == IF p < 0 THEN -p ELSE p

\* slip: the plain subtraction
Unsaturated(n) == n

Saturate(n) ==
  IF n < -Half THEN -Half ELSE IF n > Half - 1 THEN Half - 1 ELSE n

(* CircuitInner and the methods that read or write it.                       *)

Inner == [state: {"Closed", "Open"}, consecutive: Nat, drawdown: Signed]

NewBreaker == [state |-> "Closed", consecutive |-> 0, drawdown |-> 0]

\* slip: the losing run is looked at instead of the latch
AllowsWithinRun(b) == b.consecutive < MaxConsecutive

AllowsTrade(b) == b.state = "Closed"

\* slip: a win does not end the losing run
CountKeepsRun(b, profit) ==
  IF profit < 0
  THEN [b EXCEPT !.consecutive = @ + 1,
                 !.drawdown = Saturate(@ - AsSigned(UnsignedAbs(profit)))]
  ELSE b

CountTrade(b, profit) ==
  IF profit < 0
  THEN [b EXCEPT !.consecutive = @ + 1,
                 !.drawdown = Saturate(@ - AsSigned(UnsignedAbs(profit)))]
  ELSE [b EXCEPT !.consecutive = 0]

\* -max_drawdown_lamports: the negation of i64::MIN wraps to itself in a release build
NegatedLimit == LET m == AsSigned(Threshold)
                IN  IF m = -Half THEN m ELSE -m

\* slip: strictly beyond the limits
TripBeyond(b) ==
  \/ b.consecutive > MaxConsecutive
  \/ b.drawdown < NegatedLimit

TripCondition(b) ==
  \/ b.consecutive >= MaxConsecutive
  \/ b.drawdown <= NegatedLimit

\* record_trade: count the trade, then trip if a limit is reached; an open breaker stays open
AfterTrade(b, profit) ==
  LET counted == CountTrade(b, profit)
  IN  IF TripCondition(counted) THEN [counted EXCEPT !.state = "Open"] ELSE counted

-----------------------------------------------------------------------------
Init ==
  /\ breaker = NewBreaker
  /\ pc = [t \in Traders |-> "idle"]
  /\ history = <<>>
  /\ late = 0

\* check_allow_trade returns Ok: the task goes on to trade
Check(t) ==
  /\ pc[t] = "idle"
  /\ AllowsTrade(breaker)
  /\ pc' = [pc EXCEPT ![t] = "trading"]
  /\ UNCHANGED <<breaker, history, late>>

\* the trade never completed (a failed order, a timeout): nothing is recorded
Abandon(t) ==
  /\ pc[t] = "trading"
  /\ pc' = [pc EXCEPT ![t] = "idle"]
  /\ UNCHANGED <<breaker, history, late>>

Record(t, profit) ==
  /\ pc[t] = "trading"
  /\ Len(history) < MaxHistory
  /\ breaker' = AfterTrade(breaker, profit)
  /\ history' = Append(history, profit)
  /\ late' = IF breaker.state = "Open" THEN late + 1 ELSE late
  /\ pc' = [pc EXCEPT ![t] = "idle"]

\* manual_reset: the operator's action, at any time, whoever is trading
ManualReset ==
  /\ breaker' = NewBreaker
  /\ history' = <<>>
  /\ late' = 0
  /\ UNCHANGED pc

Next ==
  \/ \E t \in Traders : Check(t) \/ Abandon(t) \/ \E p \in Profits : Record(t, p)
  \/ ManualReset

Spec == Init /\ [][Next]_vars

-----------------------------------------------------------------------------
TypeOK ==
  /\ breaker \in Inner
  /\ pc \in [Traders -> {"idle", "trading"}]
  /\ history \in Seq(Profits)
  /\ late \in Nat

(* The limits, over the trades recorded since the last reset and with no     *)
(* counters.                                                                 *)

LosingRun(n) ==
  /\ n >= MaxConsecutive
  /\ \A i \in n - MaxConsecutive + 1 .. n : history[i] < 0

LossSum[n \in Nat] ==
  IF n = 0 THEN 0
  ELSE LossSum[n - 1] + (IF history[n] < 0 THEN -history[n] ELSE 0)

\* The breaker is open exactly when, at some trade since the last reset, the trailing
\* losses came to the consecutive limit or the losses in total came to the drawdown
\* limit: the counters and the latch of record_trade, through wins and resets, say no
\* more and no less than the list of trades does.  Losses equal to the drawdown limit
\* open it, as in the code; the documents say otherwise (DrawdownMustExceed).
OpenIffLimitReached ==
  breaker.state = "Open" <=>
    \E n \in 1 .. Len(history) : LosingRun(n) \/ LossSum[n] >= Threshold

\* While the breaker is open only trades whose check came before the trip are
\* still recorded, so the overshoot is at most one trade for each other task.
OvershootBounded ==
  breaker.state = "Open" => late + 1 <= Cardinality(Traders)

\* No step of a trader closes the breaker or lets a new trade begin while it is
\* open; only the operator's reset does, and it clears the counters with it.
Latched ==
  [][breaker.state = "Open" =>
       /\ \A t \in Traders : pc'[t] = "trading" => pc[t] = "trading"
       /\ breaker'.state = "Open" \/ (breaker' = NewBreaker /\ history' = <<>>)]_vars

-----------------------------------------------------------------------------
(* What the documents say and the code does not do.                          *)

\* CONFIGURATION.md:57, "Circuit breaker trips after cumulative losses exceed this value",
\* and README.md:246, "drawdown exceeding": short of the losing run, losses that only
\* come to the limit leave the breaker closed.
DrawdownMustExceed ==
  breaker.state = "Open" =>
    \E n \in 1 .. Len(history) : LosingRun(n) \/ LossSum[n] > Threshold
=============================================================================
