CONSTANTS
  TOKENS <- MCTokens
  Quotes <- MCQuotes
  Configs <- MCConfigs
  MIN_PROFIT_FLOOR = 50
  ActiveMins = {50, 100, 2000}
  MAX_LOG_WEIGHT = 2
  LIQUIDITY = 10000
  Infinity = Infinity
  REF_POSITION_LAMPORTS = 1000
SPECIFICATION Spec
INVARIANT PromiseComesFromClamp
INVARIANT OrderPays
INVARIANT SimulationOnlyCosts
