SPECIFICATION HostSpec
CONSTANTS
  None = None
  Parts = {"throttle", "cpu", "power", "snapshots", "ndp", "blocks", "pool", "sessions", "admin",
           "migrations", "terminal", "pty", "batch", "transfer", "import"}
  Failures = {"metrics", "traffic_db", "nic", "nic_read", "launch", "panel", "incus", "save",
              "row", "relaunch", "enforcer", "host", "cli", "share_row", "rules_file", "responder",
              "announce", "rules_write",
              "worker", "create", "delete", "route", "nic_start", "db", "disk", "attach",
              "socket", "export", "signal", "kill", "import", "dhcp", "clear", "meddle", "del",
              "status", "provision", "discard", "nmcli", "apply"}
  Allowance = 2
  MaxMoved = 2
  MaxBoots = 2
  MaxMonth = 1
  Enforcers = {"panel"}
  Editors = {"form"}
  CpuValues = {1, 3}
  MemValues = {1}
  Cap = 2
  Extenders = {"form"}
  MaxClock = 2
  Boxes = {n1, n2}
  SnapLimit = 2
  MaxSnap = 3
  MaxDeleting = 1
  RoutedBlocks = {b1}
  ExtraBlocks = {b2}
  PrefixMode = TRUE
  Refreshes = TRUE
  MaxPublished = 2
  NoRow = NoRow
  Accounts = {n1, n2}
  Workers = {w1, w2}
  BlockCount = 3
  MaxTasks = 3
  Reserved = {0}
  Gone = Gone
  Tenants = {n1, n2}
  Addresses = {a1, a2}
  PoolEditors = {e1}
  NoAccount = NoAccount
  Members = {n1, n2}
  Requests = {w1, w2}
  Colors = {c1}
  Tokens = {1, 2}
  Ids = {1, 2, 3, 4, 5}
  Hashes = {1, 2, 3}
  SignIns = {l1, l2}
  AdminMax = 2
  MaxOpened = 6
  Openers = {"older", "p1", "p2"}
  SchemaVersion = 20
  BinaryVersion <- MCBinaryVersion
  Shells = {n1, n2}
  Connections = {w1, w2}
  MaxPerUser = 1
  StreamFds = {"0", "1", "2"}
  Backlog = 2
  Forms = {w1, w2}
  Entrants = {n1, n2}
  JobIds = {"j1", "j2"}
  Pids = {w1, w2, w3}
  Size = 1
  Patience = 1
  Stall = 1
  Attempts = 2
  MaxAccounts = 3
  Modes = {"prefix", "pool", "none"}
SYMMETRY HostSymmetry
INVARIANTS
  TypesOK  CpuSafe  SnapshotsSafe WakeNotLost BlocksSafe PoolSafe
  SessionsSafe AdminCapped MigrationsSafe TerminalSafe BatchHonest FilesAccounted ImportSafe
PROPERTIES SnapshotSteps
CHECK_DEADLOCK FALSE
