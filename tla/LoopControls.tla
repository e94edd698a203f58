---------------------------- MODULE LoopControls ----------------------------
(***************************************************************************)
(* The three controls that the hot loop of crates/bot/src/main.rs holds:   *)
(* the circuit breaker, the pacing of submissions and the self-optimizer.  *)
(* They share no state, and what the loop tells one does not depend on     *)
(* what another answered but through the order of its gates, which         *)
(* TradeLoop has.  A behaviour is that of one control; the others stay as  *)
(* the loop created them.                                                  *)
(***************************************************************************)
EXTENDS CircuitBreaker, AdaptiveCooldown, SelfOptimizer

CONSTANT Controls              \* the controls to run

ASSUME ControlsAssumption == Controls \subseteq {"breaker", "cooldown", "optimizer"}

VARIABLE control               \* the one that runs

controlsVars == <<control, vars, cooldownVars, optimizerVars>>

ControlsInit ==
  /\ control \in Controls
  /\ Init /\ CooldownInit /\ OptimizerInit
  /\ control # "optimizer" => params = NewParams(0, 0, INITIAL_TIP)

ControlsNext ==
  /\ control' = control
  /\ \/ control = "breaker" /\ Next /\ UNCHANGED <<cooldownVars, optimizerVars>>
     \/ control = "cooldown" /\ CooldownNext /\ UNCHANGED <<vars, optimizerVars>>
     \/ control = "optimizer" /\ OptimizerNext /\ UNCHANGED <<vars, cooldownVars>>

ControlsSpec == ControlsInit /\ [][ControlsNext]_controlsVars /\ CooldownFairness
=============================================================================
