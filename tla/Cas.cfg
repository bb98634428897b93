SPECIFICATION CasSpec
CONSTANTS
  Writers = {w1, w2}
  Hashes = {h1, h2}
  NoFile = NoFile
  MaxFiles = 4
CHECK_DEADLOCK FALSE
INVARIANTS
  ReadersSeeWholeObjects
