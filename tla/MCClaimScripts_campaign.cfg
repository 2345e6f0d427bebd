CONSTANTS
  a1 = a1
  a2 = a2
  eve = eve
  s1 = s1
  s2 = s2
  s3 = s3
  campaign = campaign
  Accounts = {a1, a2}
  EthereumAddresses = {eve}
  Pot = Pot
  UnclaimedDestination = a1
  ExistentialDeposit = 2
  Amounts = {1}
  Messages = {campaign, other, none}
  EmptyMessage = none
  MaxBeneficiaries = 3
  MaxOpBeneficiaries = 2
  MaxClaims = 1
  MaxSignatures = 0
  Funds <- Start
  CommandLines <- Lines
  CsvFiles <- Files
  Decimals = 1
  Signatories = {s1, s2, s3}
  Proposer = s1
  SudoKeys <- Keys
  Leftovers <- OldLists
  Retries = 2
  MaxReorgs = 1
SPECIFICATION CampaignSpec
INVARIANTS ChunksInOrder NoChunkLost GrantedAsWritten ProposalsShared
CHECK_DEADLOCK FALSE
