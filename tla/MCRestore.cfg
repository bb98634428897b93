SPECIFICATION RestoreSpec
CONSTANTS
  ObjectIds = {m1, m2}
  Addresses = {alice, bob}
  PolicyIds = {p1, pkg}
  Creator = alice
  PackageId = pkg
  Blobs <- Ciphertexts
  Manifests = {h}
  Payloads = {x}
  Rights <- MCRights
  Expiries = {0, 1}
  AccessPayloads <- MCAccessPayloads
  NoBlob = NoBlob
  NoManifest = NoManifest
  NoParent = NoParent
  Servers = 2
  Threshold = 2
  Attempts = 2
  MaxEntries = 3
  MaxTime = 1
  MaxTotal = 3
CHECK_DEADLOCK FALSE
INVARIANTS
  RestoredWasCurrent
  RestoredIsOnRecord
  WrongKeyOnlyForFork
  DenialIsDeserved
PROPERTIES
  RestoreEnds
