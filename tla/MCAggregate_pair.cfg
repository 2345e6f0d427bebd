CONSTANTS
  alice = alice
  bob = bob
  Accounts = {alice, bob}
  Manager = Manager
  None = None
  Statements = {s1, s2}
  ExistentialDeposit = 2
  U32Max = 2
  U64Max = 1
  BalanceModulus = 64
  AggregationSize = 3
  MaxPendingPublishQueueSize = 2
  Registrations <- PairRegistrations
  Deliveries <- NoDeliveries
  CallFees = {0}
  BaseTip = 0
  TipPercent = 10
  DomainBaseDeposit = 1
  DomainByteDeposit = 1
  AllowlistBaseDeposit = 1
  AllowlistItemDeposit = 1
  FreezeAmounts = {}
  Endowment <- Equal
SPECIFICATION Spec
INVARIANTS PathsServed StorageAccounted
PROPERTIES ImplementsService
