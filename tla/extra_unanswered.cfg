SPECIFICATION HostSpec
CONSTANTS
  None = None
  Parts = {"ndp"}
  Failures = {}
  Allowance = 2
  MaxMoved = 2
  MaxBoots = 2
  MaxMonth = 0
  Enforcers = {"panel"}
  Editors = {"form"}
  CpuValues = {3}
  MemValues = {1}
  Cap = 2
  Extenders = {"form"}
  MaxClock = 1
  Boxes = {n1, n2}
  SnapLimit = 2
  MaxSnap = 3
  MaxDeleting = 1
  RoutedBlocks = {b1}
  ExtraBlocks = {b2}
  PrefixMode = TRUE
  Refreshes = TRUE
  MaxPublished = 2
  NoRow = NoRow
  Accounts = {n1, n2}
  Workers = {w1, w2}
  BlockCount = 3
  MaxTasks = 3
  Reserved = {0}
  Gone = Gone
  Tenants = {n1, n2}
  Addresses = {a1, a2}
  PoolEditors = {e1}
  NoAccount = NoAccount
  Members = {n1, n2}
  Requests = {w1, w2}
  Colors = {c1}
  Tokens = {1, 2}
  Ids = {1, 2, 3, 4, 5}
  Hashes = {1, 2, 3}
  SignIns = {l1, l2}
  AdminMax = 2
  MaxOpened = 6
  Openers = {"older", "p1", "p2"}
  SchemaVersion = 20
  BinaryVersion <- MCBinaryVersion
  Shells = {n1, n2}
  Connections = {w1, w2}
  MaxPerUser = 2
  StreamFds = {"0", "1", "2"}
  Backlog = 2
  Forms = {w1, w2}
  Entrants = {n1}
  JobIds = {"j1", "j2"}
  Pids = {w1, w2}
  Size = 1
  Patience = 1
  Stall = 1
  Attempts = 2
  MaxAccounts = 3
  Modes = {"prefix", "pool", "none"}
INVARIANT FileAnswered
CHECK_DEADLOCK FALSE
