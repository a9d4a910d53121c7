SPECIFICATION UncheckedSpec
CONSTANTS
  u1 = u1
  NSLP = NSLP
  Operator = Operator
  Treasury = Treasury
  Developers = Developers
  Users = {u1}
  LockupAccounts <- MCNoLockups
  Weights <- MCRemovedWeights
  BasisPoints = 10
  OneMilliNear = 0
  NumEpochsToUnlock = 1
  MinDepositAmount = 10
  MinStakeAmount = 1
  MinRestakeAmount = 100
  MinMovement = 20
  MinUnstakeAmount = 0
  MinBalanceForStorage = 5
  OperatorRewardsFee = 1
  DevelopersRewardsFee = 0
  TreasurySwapCut = 3
  OperatorSwapCut = 1
  DevelopersSwapCut = 1
  MinDiscount = 0
  MaxDiscount = 1
  LiquidityTarget = 50
  Deposits = {10}
  LiquidityDeposits = {}
  UnstakeAmounts = {}
  WithdrawAmounts = {}
  SellAmounts = {}
  RemoveAmounts = {}
  MaxNear = 10
  FailingCalls = {}
  AskedPools = {}
  RewardReplies = {}
  MaxRewards = 0
  MaxEpoch = 1
  PoolAccounts <- MCPoolAccounts
  Weightings <- MCWeightings
  ManualPools = {}
  ManualAmounts = {}
  Roundings <- MCRoundings
  MaxRoundings = 0
  PlannedUnstakes = {8}
  Agendas <- MCRemoved
INVARIANTS
  OnlyViewsPanic
CHECK_DEADLOCK FALSE
