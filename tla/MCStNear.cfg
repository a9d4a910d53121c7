SPECIFICATION StNearSpec
CONSTANTS
  u1 = u1
  u2 = u2
  NSLP = NSLP
  Operator = Operator
  Treasury = Treasury
  Developers = Developers
  Users = {u1, u2}
  LockupAccounts <- MCNoLockups
  Weights <- MCWeights
  BasisPoints = 10
  OneMilliNear = 1
  NumEpochsToUnlock = 1
  MinDepositAmount = 10
  MinStakeAmount = 1
  MinRestakeAmount = 2
  MinMovement = 20
  MinUnstakeAmount = 50
  MinBalanceForStorage = 5
  OperatorRewardsFee = 3
  DevelopersRewardsFee = 2
  TreasurySwapCut = 3
  OperatorSwapCut = 1
  DevelopersSwapCut = 1
  MinDiscount = 0
  MaxDiscount = 1
  LiquidityTarget = 50
  Deposits = {10}
  LiquidityDeposits = {}
  UnstakeAmounts = {5}
  WithdrawAmounts = {}
  SellAmounts = {}
  RemoveAmounts = {}
  MaxNear = 10
  FailingCalls = {"rewards"}
  AskedPools = {1}
  RewardReplies <- MCRewardReplies
  MaxRewards = 0
  MaxEpoch = 1
  Holders = {u1, u2}
  Receipts = {1, 2}
  TransferAmounts = {6}
  UnusedReplies = {3, 7}
INVARIANTS
  StNearTypeOK
  AccountsAddUp
PROPERTIES
  ImplementsCustody
  TransfersResolved
CHECK_DEADLOCK FALSE
