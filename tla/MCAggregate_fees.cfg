CONSTANTS
  alice = alice
  bob = bob
  Accounts = {alice, bob}
  Manager = Manager
  None = None
  Statements = {s1}
  ExistentialDeposit = 2
  U32Max = 1
  U64Max = 2
  BalanceModulus = 64
  AggregationSize = 3
  MaxPendingPublishQueueSize = 2
  Registrations <- FeeRegistrations
  Deliveries <- FeeDeliveries
  CallFees = {1, 3}
  BaseTip = 1
  TipPercent = 10
  DomainBaseDeposit = 1
  DomainByteDeposit = 1
  AllowlistBaseDeposit = 1
  AllowlistItemDeposit = 1
  FreezeAmounts = {0, 38}
  Endowment <- RichAndPoor
SPECIFICATION Spec
INVARIANTS ReservesCovered
PROPERTIES SettledInFull
