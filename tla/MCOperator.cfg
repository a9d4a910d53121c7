SPECIFICATION OperatorSpec
CONSTANTS
  u1 = u1
  NSLP = NSLP
  Operator = Operator
  Treasury = Treasury
  Developers = Developers
  Users = {u1}
  LockupAccounts <- MCNoLockups
  Weights <- MCWeights
  BasisPoints = 10
  OneMilliNear = 0
  NumEpochsToUnlock = 1
  MinDepositAmount = 10
  MinStakeAmount = 1
  MinRestakeAmount = 100
  MinMovement = 20
  MinUnstakeAmount = 0
  MinBalanceForStorage = 5
  OperatorRewardsFee = 1
  DevelopersRewardsFee = 0
  TreasurySwapCut = 3
  OperatorSwapCut = 1
  DevelopersSwapCut = 1
  MinDiscount = 0
  MaxDiscount = 1
  LiquidityTarget = 50
  Deposits = {10}
  LiquidityDeposits = {}
  UnstakeAmounts = {}
  WithdrawAmounts = {}
  SellAmounts = {}
  RemoveAmounts = {}
  MaxNear = 10
  FailingCalls = {"unstake", "rewards"}
  AskedPools = {1}
  RewardReplies = {}
  MaxRewards = 0
  MaxEpoch = 2
  PoolAccounts <- MCPoolAccounts
  Weightings <- MCWeightings
  ManualPools = {1, 4}
  ManualAmounts = {5}
  Roundings <- MCRoundings
  MaxRoundings = 1
  PlannedUnstakes = {8}
  Agendas <- MCAgendas
INVARIANTS
  OperatorTypeOK
  OneCallPerPool
  CashStaysBacked
  ClaimsStayBacked
  BalanceStillMatches
  RecordsMatchPools
  OnlyViewsPanic
PROPERTIES
  LocksRecovered
CHECK_DEADLOCK FALSE
