SPECIFICATION SpecPunctual
CONSTANTS
  RetrieveFirst = TRUE
  u1 = u1
  NSLP = NSLP
  Operator = Operator
  Treasury = Treasury
  Developers = Developers
  Users = {u1}
  LockupAccounts <- MCNoLockups
  Weights <- MCWeights
  BasisPoints = 10
  OneMilliNear = 0
  NumEpochsToUnlock = 2
  MinDepositAmount = 10
  MinStakeAmount = 3
  MinRestakeAmount = 2
  MinMovement = 20
  MinUnstakeAmount = 0
  MinBalanceForStorage = 5
  OperatorRewardsFee = 1
  DevelopersRewardsFee = 0
  TreasurySwapCut = 3
  OperatorSwapCut = 1
  DevelopersSwapCut = 1
  MinDiscount = 0
  MaxDiscount = 1
  LiquidityTarget = 50
  Deposits = {10}
  LiquidityDeposits = {}
  UnstakeAmounts = {4}
  WithdrawAmounts = {}
  SellAmounts = {}
  RemoveAmounts = {}
  MaxNear = 20
  FailingCalls = {}
  AskedPools = {}
  RewardReplies = {}
  MaxRewards = 0
  MaxEpoch = 6
INVARIANTS
  ClaimsInTime
CHECK_DEADLOCK FALSE
