CONSTANTS
  alice = alice
  bob = bob
  Accounts = {alice, bob}
  Manager = Manager
  None = None
  Statements = {s1}
  ExistentialDeposit = 2
  U32Max = 1
  U64Max = 1
  BalanceModulus = 64
  AggregationSize = 3
  MaxPendingPublishQueueSize = 2
  Registrations <- OwnerRegistrations
  Deliveries <- NoDeliveries
  CallFees = {3}
  BaseTip = 1
  TipPercent = 10
  DomainBaseDeposit = 1
  DomainByteDeposit = 1
  AllowlistBaseDeposit = 1
  AllowlistItemDeposit = 1
  FreezeAmounts = {}
  Endowment <- RichAndPoor
SPECIFICATION Spec
INVARIANTS OwnerExpect
