SPECIFICATION ConsoleSpec
CONSTANTS
  ObjectIds = {m1, m2}
  Addresses = {alice, bob}
  PolicyIds = {p1, p2}
  User = alice
  Home = Home
  None = None
  Blobs = {b}
  Manifests = {h}
  Payloads = {x}
  Rights <- MCRights
  Expiries = {0}
  AccessPayloads <- MCAccessPayloads
  NoBlob = NoBlob
  NoManifest = NoManifest
  NoParent = NoParent
  MaxEntries = 2
  MaxTime = 0
  MaxClicks = 2
CONSTRAINT OneAway
CHECK_DEADLOCK FALSE
INVARIANTS
  NeverTwice
  TransactionsStayValid
  PeopleShownHadAccess
PROPERTIES
  SignedEnds
