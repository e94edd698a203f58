CONSTANTS
  op = op
  tip = tip
  sys = sys
  other = other
  Balances <- MCBalances
  TipLamports = 3
  Fee = 1
  Reserve = 3
  MAX_ATTEMPTS = 3
  CONFIRM_POLLS = 2
  Pubkeys = {op, tip, sys, other}
  Operator = op
  TipAccount = tip
  SystemProgram = sys
  MaxIndex = 5
  Messages <- MCMessages
  Tips = {0, 1}
  Payer = 1
  Solend = 2
  MainPool = 3
  SolReserve = 4
  LiquiditySupply = 5
  FeeReceiver = 6
  Authority = 7
  WsolAta = 8
  TokenProgram = 9
  SysvarInstructions = 10
  System = 11
  AtaProgram = 12
  LoanTip = 13
  Budgets <- MCBudgets
  Swaps <- MCSwaps
  Tables <- MCTables
  Lamports <- MCLamports
  Batches <- MCBatches
  Profits = {40}
  Hashes = {"h1", "h2"}
  TipAccounts = {"t1"}
  MIN_TIP_LAMPORTS = 10
  MAX_BUNDLE_TXS = 3
  MAX_RETRIES = 2
  STATUS_POLL_ATTEMPTS = 2
  BLOCKHASH_RETRIES = 2
  MaxCalls = 2
SPECIFICATION Spec
INVARIANT ProofIsAffordable
INVARIANT OneProof
INVARIANT OrderSurvivesTip
INVARIANT LoanReadsAsMeant
INVARIANT LoanIsRepaid
INVARIANT BundlesPayOnce
PROPERTY AllEnd
CHECK_DEADLOCK FALSE
