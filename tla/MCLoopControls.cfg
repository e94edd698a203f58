CONSTANTS
  Controls = {"breaker", "cooldown", "optimizer"}
  Traders = {t1, t2}
  Profits <- MCProfits
  MaxConsecutive = 3
  Threshold = 10
  Half = 16
  MaxHistory = 5
  Tick = 500
  Horizon = 5500
  Enabled = TRUE
  OptimizeEvery = 3
  Slippages = {0, 50, 298, 1000}
  MinProfits = {0, 2900, 44000}
  Simulated = {0, 3200, 49000}
  Booked <- MCBooked
  MaxCycles = 4
  MaxEvaluated = 5
SPECIFICATION ControlsSpec
INVARIANT TypeOK
INVARIANT OpenIffLimitReached
INVARIANT OvershootBounded
INVARIANT CooldownTypeOK
INVARIANT FullCooldownAfterPause
INVARIANT PauseIsQuiet
PROPERTY BacksOffWhenRefused
PROPERTY PausesEveryTenRefusals
PROPERTY ReadyAgain
INVARIANT OptimizerTypeOK
INVARIANT RatesOfOneWindow
PROPERTY NoMixedSignals
PROPERTY StarvedForGood
