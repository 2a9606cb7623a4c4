SPECIFICATION FairSpec
CONSTANTS
  Ann = Ann
  Bob = Bob
  Cat = Cat
  Traders <- MCTraders
  Currencies <- MCCurrencies
  Assets <- MCAssets
  BaseOf <- MCBaseOf
  QuotingOf <- MCQuotingOf
  Sessions = {s1}
  s1 = s1
  s2 = s2
  Requests <- MCRequests
  InitialBalance <- MCInitialBalance
  DepositAmounts = {2}
  MaxOrders = 4
  MaxDeposits = 1
  MaxFaults = 0
INVARIANTS PartitionsAgree BookSettled FillsBalance NoOverdraft
PROPERTIES MoneyConserved BestPriceFirst LimitHonoured ImplementsExchange ReturnUnlessCanceled
