CONSTANTS
  alice = alice
  bob = bob
  Alice = alice
  Bob = bob
  Accounts = {alice, bob}
  Manager = Manager
  None = None
  Statements = {1, 2, 3, 4, 5, 6, 7, 8, 9, 10, 11, 12, 13, 14}
  ExistentialDeposit = 2
  U32Max = 9
  U64Max = 9
  BalanceModulus = 100000
  AggregationSize = 14
  MaxPendingPublishQueueSize = 8
  Registrations <- TestRegistrations
  Deliveries = {}
  CallFees = {60}
  BaseTip = 1
  TipPercent = 10
  DomainBaseDeposit = 1
  DomainByteDeposit = 1
  AllowlistBaseDeposit = 1
  AllowlistItemDeposit = 1
  FreezeAmounts = {}
  Endowment <- Rich
  Sizes = {1, 2, 3, 4, 5, 6, 7, 8, 9, 10, 11, 12, 13, 14}
  CallFee = 60
  MaxFaults = 2
SPECIFICATION TestSpec
INVARIANTS FaultlessPasses OkMeansDone LossesNoticed
CHECK_DEADLOCK FALSE
