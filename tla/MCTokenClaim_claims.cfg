CONSTANTS
  alice = alice
  treasury = treasury
  Accounts = {alice, treasury}
  EthereumAddresses = {eve}
  Pot = Pot
  UnclaimedDestination = treasury
  ExistentialDeposit = 2
  Amounts = {0, 1, 2}
  Messages = {m1, m2, none}
  EmptyMessage = none
  MaxBeneficiaries = 2
  MaxOpBeneficiaries = 1
  MaxClaims = 1
  MaxSignatures = 3
  Funds <- NoPot
SPECIFICATION FairSpec
INVARIANTS TypeOK PotCoversClaims PaidAsSigned
PROPERTIES OnlyEntriesArePaid LeftoversGo
