SPECIFICATION Spec
CONSTANTS
  Callers = {"a", "b", "c"}
  MaxTries = 2
  CacheTTL = 2
  Script <- BwScript
  MaxEvents = 3
  MaxPosts = 2
  Accounts = {"alice", "bob"}
  Acts <- InActs
  MaxAccepted = 3
  Members = {"m1", "m2", "m3"}
  Relays = {"relay"}
  Self = "self"
  MaxCandidates = 2
  MaxItems = 3
  ThreadPages = 2
  MaxReplies = 4
  Slots = 2
  MaxFollowers = 5
  PageSize = 2
  ListPages = 3
  DirectoryLimit = 3
  Width = 16
  Texts = {"x", "y"}
  Networks = {"n1", "n2"}
  RingSize = 3
  MaxKeys = 3
INVARIANTS
  RepliesMirrored
  SuccessIsDelivered
  RowsAreGenuine
  RepliesStoredOnce
  CandidatesAreRight
  ThreadInOrder
  ListIsExact
  ServesRecentLines
  KeyIsStable
PROPERTIES
  OneFetchPerWindow
  PagesAdvance
CHECK_DEADLOCK FALSE
