CONSTANTS
  sol = sol
  usdc = usdc
  Tokens = {sol, usdc}
  SOL = sol
  Capacity = 2
  MaxAge = 2
  Keys = {"helius", "alchemy"}
  EventCapacity = 1
SPECIFICATION MarketSpec
INVARIANT MarketTypeOK
INVARIANT NothingLost
INVARIANT StaleIsLogged
PROPERTY LiveNeverGoesBack
PROPERTY BackPressureEnds
PROPERTY Recovers
