SPECIFICATION Spec
CONSTANTS
  u1 = u1
  NSLP = NSLP
  Operator = Operator
  Treasury = Treasury
  Developers = Developers
  Users = {u1}
  LockupAccounts <- MCNoLockups
  Weights <- MCWeights
  BasisPoints = 10
  OneMilliNear = 0
  NumEpochsToUnlock = 1
  MinDepositAmount = 10
  MinStakeAmount = 3
  MinRestakeAmount = 2
  MinMovement = 20
  MinUnstakeAmount = 0
  MinBalanceForStorage = 5
  OperatorRewardsFee = 3
  DevelopersRewardsFee = 2
  TreasurySwapCut = 3
  OperatorSwapCut = 1
  DevelopersSwapCut = 1
  MinDiscount = 2
  MaxDiscount = 5
  LiquidityTarget = 10
  Deposits = {10}
  LiquidityDeposits = {10}
  UnstakeAmounts = {}
  WithdrawAmounts = {}
  SellAmounts = {8}
  RemoveAmounts = {5}
  MaxNear = 20
  FailingCalls = {"rewards"}
  AskedPools = {1}
  RewardReplies <- MCRewardReplies
  MaxRewards = 10
  MaxEpoch = 2
INVARIANTS
  ReservePayable
  AccountsAddUp
  StakingFindsAPool
  OnlyPoolHasAvailable
  Solvent
PROPERTIES
  PriceHolds
  LiquidityValueHolds
  ImplementsCustody
CHECK_DEADLOCK FALSE
