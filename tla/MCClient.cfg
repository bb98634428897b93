SPECIFICATION ClientSpec
CONSTANTS
  ObjectIds = {m1, m2}
  Addresses = {alice}
  Operator = alice
  PolicyIds = {p1, p2, pkg}
  PackageId = pkg
  NoPolicy = NoPolicy
  Torn = Torn
  Enclaves = {1, 2}
  Debug = {2}
  Clients = {c1, c2}
  Files = {f1, f2}
  Offered <- AllCommands
  Claims <- SomeClaims
  Blobs <- Snapshots
  Manifests <- Directories
  Payloads <- Logs
  AccessPayloads = {g}
  NoBlob = NoBlob
  NoManifest = NoManifest
  NoParent = NoParent
  MaxEntries = 5
  MaxTime = 0
  OutOfGas = TRUE
  MaxCommands = 7
  MaxOthers = 1
CHECK_DEADLOCK FALSE
CONSTRAINT Explored
SYMMETRY Symmetric
INVARIANTS
  StateIsCacheOfChain
  AnchoredIsRestorable
  LogHasRun
  AttestationNeverAhead
  PassingAttestationIsTrue
PROPERTIES
  RetirementDeclines
  CaveatStays
  NoOlderSnapshot
