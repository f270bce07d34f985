CONSTANTS
  Peers = {p1, p2}
  Hashes = {h1, h2}
  None = None
  maxTxAnnounces = 2
  maxTxRetrievals = 2
  MaxInputs = 4
SPECIFICATION Spec
INVARIANTS
  TrackersAgree
  TimersSet
PROPERTIES
  UnlistedByDrop
  Resolved
CHECK_DEADLOCK FALSE
