SPECIFICATION Spec
CONSTANTS
  Ann = Ann
  Bob = Bob
  Cat = Cat
  Traders <- MCTraders
  Currencies <- MCCurrencies
  Assets <- MCAssets
  BaseOf <- MCBaseOf
  QuotingOf <- MCQuotingOf
  Sessions = {s1, s2}
  s1 = s1
  s2 = s2
  Requests <- MCFewRequests
  InitialBalance <- MCInitialBalance
  DepositAmounts = {2}
  MaxOrders = 4
  MaxDeposits = 0
  MaxFaults = 0
INVARIANTS NoOverdraft
