SPECIFICATION TokenSpec
CONSTANTS
  h1 = h1
  h2 = h2
  m1 = m1
  TokenHolders = {h1, h2}
  Minters = {m1}
  FirstMinter = m1
  MinTransfer = 1
  TokenReceipts = {1, 2}
  MetaAmounts = {2, 4}
  UnusedMeta = {3}
  MintedAmounts = {2}
  VestedAmounts = {4}
  Schedules <- MCSchedules
  LockDates = {1}
  MaxSupply = 6
  MaxTime = 2
SYMMETRY MCHoldersAlike
INVARIANTS
  TokenTypeOK
  SupplyIsBalances
PROPERTIES
  LockedKept
CHECK_DEADLOCK FALSE
