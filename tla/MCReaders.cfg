SPECIFICATION ReadersSpec
CONSTANTS
  ObjectIds = {m1, m2, m3}
  Addresses = {alice}
  PolicyIds = {p}
  Blobs = {b}
  Manifests = {h}
  Payloads = {x}
  AccessPayloads = {g}
  NoBlob = NoBlob
  NoManifest = NoManifest
  NoParent = NoParent
  None = None
  Unknown = Unknown
  MaxEntries = 2
  MaxTime = 0
  MaxTotal = 2
CONSTRAINT Small
SYMMETRY Symmetric
INVARIANTS
  EntriesArePrefix
  QuietReadVerifies
  PassingReportIsTrue
  LineageNeverFailsFalsely
  CleanEvidenceIsTrue
  AnchorIsTrue
  IndexIsTrue
  RebuildIsDeterministic
