SPECIFICATION PartsSpec
CONSTANTS
  None = None
  Undefined = Undefined
  Users = {u1}
  Passwords = {p1, p2}
  Tokens = {t1, t2}
  Slots = {s1, s2}
  LOGIN_MAX_FAILS = 2
  LOGIN_LOCK_MS = 1
  MaxTime = 2
  MaxFailures = 3
  MaxBreaks = 2
  Small = 2
  Ext2 = 2
  Ext8 = 3
  MaskLen = 2
  FramePayloads <- BitStrings
  Masks <- Keys
  MaxFrames = 3
  MaxBytes = 6
  Ids = {"u1", "u2", "u3", "u4"}
  MaxIndex = 9
  Sessions = {"s1", "s2"}
  Servers = {v1, v2}
  BATCH = 1
  HISTORY_LIMIT = 2
  MaxPosts = 1
  MaxArchiveBreaks = 1
  Batches <- Posted
  OldRows <- Stored
  MaxUpgrades = 1
  Back = 2
  Fwd = 3
  LookBack = 4
  Answers = 2
  HOPS = 3
  PATHs <- Directories
  Wanted = "n"
  Names = {"n", "q", "e", "z", "y"}
  GateBundles <- Gates
  FlagBundles <- Flagged
  ModuleBundles <- Modules
  MaxEvents <- EventBounds
  Agents = {a}
  Shells = {s}
  Owned = {o}
  Topics = {"tasks", "todos", "activity"}
  MaxTodos = 2
INVARIANT EdgesFollowed
CHECK_DEADLOCK FALSE
