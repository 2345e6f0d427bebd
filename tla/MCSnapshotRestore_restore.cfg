CONSTANTS
  None = None
  h1 = h1
  h2 = h2
  o1 = o1
  o2 = o2
  rich = rich
  saver = saver
  dust = dust
  module = module
  banned = banned
  Pallets <- TwoPallets
  Keys <- AllKeys
  OldTickets <- Genesis
  Owners = {o1, o2}
  Poor = {o2}
  LastUsed <- Usage
  OldBalances <- Holdings
  ModuleAccounts = {module}
  BlockList = {banned}
  ExistentialDeposit = 2
  Fee = 1
  Sudo = Sudo
  Custody = Custody
  CustodyFunds = 11
  CommandLines <- Lines
  MaxMoves = 2
  MaxFaults = 1
SPECIFICATION FairSpec
INVARIANTS SnapshotComplete NoNonceGap EachCallOnce RestoredAsTaken CustodyCovers
PROPERTIES RestoreCompletes
CHECK_DEADLOCK FALSE
