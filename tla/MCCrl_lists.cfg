CONSTANTS
  intel = intel
  CaNames = {ca}
  Roots = {intel, aws}
  Issuers = {i1, i2, i3}
  RootOf <- Chains
  Serials = {s1, s2}
  MaxRevokedCerts = 3
  MaxIssuers = 2
  MaxLists = 2
SYMMETRY Interchangeable
SPECIFICATION Spec
INVARIANTS TypeOK StoredListsInForce NoRevokedAttestation
PROPERTY ListsOnlyAdvance
