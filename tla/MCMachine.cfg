SPECIFICATION Spec
CONSTANTS
  ObjectIds = {m1, m2, m3}
  Addresses = {alice, bob}
  PolicyIds = {p}
  Blobs = {b1, b2}
  Manifests = {h}
  Payloads = {x}
  AccessPayloads = {g}
  NoBlob = NoBlob
  NoManifest = NoManifest
  NoParent = NoParent
  MaxEntries = 3
  MaxTime = 1
  MaxTotal = 2
  MaxMoved = 1
CONSTRAINT SmallEnough
SYMMETRY Symmetric
INVARIANTS
  TypeOK
  HeadReplaysFromEvents
  CheckpointSeqsContiguous
  CurrentStateIsLastCheckpoint
  ForkLineage
  HeadsNeverCollide
PROPERTIES
  HistoryAppendOnly
  TransferredIsFrozen
  ImplementsVersionedEnvironment
