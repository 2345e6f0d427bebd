CONSTANTS
  Accounts = {alice, bob}
  ExistentialDeposit = 2
  Verifiers = {ultrahonk, tee}
  Ultrahonk = ultrahonk
  Tee = tee
  KeyBytes = {k1}
  NoBytes = NoBytes
  Pubs = {p1}
  RefCountMax = 2
  VkBaseDeposit = 1
  VkByteDeposit = 1
  Funds <- Equal
SYMMETRY Interchangeable
SPECIFICATION Spec
INVARIANTS TypeOK RefCountsExact VkDepositsExact StatementNamesKey
