CONSTANTS
  ac = ac
  abc = abc
  abd = abd
  abcd = abcd
  abcde = abcde
  Paths = {ac, abc, abd, abcd, abcde}
  Hops <- MCHops
  MaxHops = 2
  Quotes <- MCQuotes
  Fees = {2}
  InitialBalance = 5
  MinBalance = 1
  MaxConsecutive = 2
  Threshold = 3
  Half = 16
  OptimizeEvery = 1
  NoTrade = NoTrade
  NoOrder = NoOrder
  MaxSent = 2
  MaxEvaluated = 1
SPECIFICATION Spec
INVARIANT NoPathSentTwice
