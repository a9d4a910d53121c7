SPECIFICATION MetaSpec
CONSTANTS
  u1 = u1
  m1 = m1
  r1 = r1
  r2 = r2
  NSLP = NSLP
  Operator = Operator
  Treasury = Treasury
  Developers = Developers
  Users = {u1}
  LockupAccounts <- MCNoLockups
  Weights <- MCWeights
  BasisPoints = 10
  OneMilliNear = 0
  NumEpochsToUnlock = 1
  MinDepositAmount = 10
  MinStakeAmount = 3
  MinRestakeAmount = 2
  MinMovement = 20
  MinUnstakeAmount = 0
  MinBalanceForStorage = 5
  OperatorRewardsFee = 3
  DevelopersRewardsFee = 2
  TreasurySwapCut = 3
  OperatorSwapCut = 1
  DevelopersSwapCut = 1
  MinDiscount = 2
  MaxDiscount = 5
  LiquidityTarget = 10
  Deposits = {10}
  LiquidityDeposits = {10}
  UnstakeAmounts = {}
  WithdrawAmounts = {}
  SellAmounts = {8}
  RemoveAmounts = {10}
  MaxNear = 20
  FailingCalls = {}
  AskedPools = {1}
  RewardReplies <- MCRewardReplies
  MaxRewards = 10
  MaxEpoch = 1
  TokenHolders <- MCHolders
  Minters = {m1}
  FirstMinter = m1
  MinTransfer = 0
  TokenReceipts = {}
  MetaAmounts = {}
  UnusedMeta = {}
  MintedAmounts = {}
  VestedAmounts = {}
  Schedules = {}
  LockDates = {}
  MaxSupply = 0
  MaxTime = 0
  MetaPoolAccount = m1
  Multipliers <- MCMultipliers
  MaxMetaRewards <- MCMaxRewards
  HarvestCallers = {u1}
  HarvestReceipts = {r1, r2}
  MaxMeta = 5
SYMMETRY MCReceiptsAlike
PROPERTIES
  MetaMintedOnce
CHECK_DEADLOCK FALSE
