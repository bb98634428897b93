SPECIFICATION ClientSpec
CONSTANTS
  ObjectIds = {m1}
  Addresses = {alice}
  Operator = alice
  PolicyIds = {p1, pkg}
  PackageId = pkg
  NoPolicy = NoPolicy
  Torn = Torn
  Enclaves = {1, 2}
  Debug = {2}
  Clients = {c1, c2}
  Files = {f1}
  Offered <- Attestations
  Claims <- SomeClaims
  Blobs <- Snapshots
  Manifests <- Directories
  Payloads <- Logs
  AccessPayloads = {g}
  NoBlob = NoBlob
  NoManifest = NoManifest
  NoParent = NoParent
  MaxEntries = 4
  MaxTime = 0
  OutOfGas = FALSE
  MaxCommands = 5
  MaxOthers = 0
CHECK_DEADLOCK FALSE
SYMMETRY Symmetric
INVARIANT
  AttestationBindsCheckpoint
