SPECIFICATION SubscribedSpec
CONSTANTS
  alice = alice
  bob = bob
  Addresses <- TwoAddresses
  Admin = alice
  DEXAdmin = alice
  Configs <- MCConfigs
  Amounts = {1, 2}
  MaxBonds = 1
  MaxTime = 2
  MaxHolderEntries = 2
  QuoteAssets = {"USDC"}
  Prices = {1, 2}
  Lifetimes = {0, 1}
  Deposits = {2}
  MaxOrders = 2
  MaxQuote = 2
INVARIANTS
  QuoteConserved
  SoldWithinListing
  QuoteIsBest
PROPERTIES
  DeliveryVersusPayment
CHECK_DEADLOCK FALSE
