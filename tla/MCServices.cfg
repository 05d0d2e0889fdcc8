SPECIFICATION MCSpec
CONSTANTS
  None = None
  Keys = {k1}
  Pairings = {p1, p2}
  Nonces = {n1, n2}
  Skew = 1
  NonceLife = 3
  RateWindow = 1
  MaxRate = 2
  MaxLive = 1
  PairingLife = 2
  Retention = 1
  MaxPending = 2
  MaxTime = 4
  FilePaths = {"a", "b"}
  FilesPatched = {"a"}
  MaxEntries = 6
  MaxOps = 1
  MaxMessages = 1
  MaxContents = 2
  JournalChats = {c1, c2}
  JournalTurns = {"r1"}
  JournalEvents = 2
INVARIANTS
  RunsOnce
  ContextMatchesJournal
  CopiesAreFaithful
  SettledOnce
  NothingIsLost
  WindowShowsJournal
PROPERTIES
  HistoryIsAppendOnly
SYMMETRY Symmetry
CHECK_DEADLOCK FALSE
