SPECIFICATION AccessSpec
CONSTANTS
  ObjectIds = {m1, m2}
  Addresses = {alice, bob}
  PolicyIds = {p1, p2}
  Blobs = {b}
  Manifests = {h}
  Payloads = {x}
  Rights <- MCRights
  Expiries = {0, 1}
  AccessPayloads <- MCAccessPayloads
  NoBlob = NoBlob
  NoManifest = NoManifest
  NoParent = NoParent
  MaxEntries = 3
  MaxTime = 2
  MaxTotal = 2
CONSTRAINT SmallEnough
SYMMETRY Symmetric
INVARIANTS
  AccessTypeOK
  GrantsReplayFromChain
  PolicyBinding
  OwnerHoldsPolicy
PROPERTIES
  ApprovalsFollowTheChain
  TransferFreezesPolicy
