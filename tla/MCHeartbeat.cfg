SPECIFICATION LiveSpec
CONSTANTS
  u1 = u1
  NSLP = NSLP
  Operator = Operator
  Treasury = Treasury
  Developers = Developers
  Users = {u1}
  LockupAccounts <- MCNoLockups
  Weights <- MCWeights
  BasisPoints = 10
  OneMilliNear = 0
  NumEpochsToUnlock = 2
  MinDepositAmount = 10
  MinStakeAmount = 3
  MinRestakeAmount = 4
  MinMovement = 1
  MinUnstakeAmount = 0
  MinBalanceForStorage = 5
  OperatorRewardsFee = 1
  DevelopersRewardsFee = 0
  TreasurySwapCut = 3
  OperatorSwapCut = 1
  DevelopersSwapCut = 1
  MinDiscount = 0
  MaxDiscount = 1
  LiquidityTarget = 50
  Deposits = {10}
  LiquidityDeposits = {}
  UnstakeAmounts = {}
  WithdrawAmounts = {5}
  SellAmounts = {}
  RemoveAmounts = {}
  MaxNear = 20
  FailingCalls = {"stake", "restake", "unstake", "retrieve"}
  AskedPools = {}
  RewardReplies = {}
  MaxRewards = 0
  MaxEpoch = 4
INVARIANTS
  TypeOK
  OneCallInFlight
  CashBacked
  ClaimsBacked
  OrdersMatchDelta
  BalanceMatches
  CallbacksNeverPanic
  PoolsAddUp
  ReservePayable
PROPERTIES
  WaitNotProlonged
  BusyReleased
  StakeOrdersServed
  UnstakeOrdersServed
CHECK_DEADLOCK FALSE
