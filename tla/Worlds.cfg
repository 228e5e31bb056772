SPECIFICATION AllSpec
CONSTANTS
  system = system
  red = red
  blue = blue
  plain = plain
  Service <- MCService
  Refreshable <- MCRefreshable
  Immediate <- MCImmediate
  Mounted <- MCMounted
  Changes <- MCChanges
  MaxRefreshes = 3
  NONE = NONE
  MountUrls <- MCUrls
  LowerCase <- MCLowerCase
  MaxMounted = 3
  SyntheticPackage = {1, 2, 3}
  LocalPackage = {1, 2}
  MaxClock = 4
  Parts = {"refresh", "quiet refresh", "mounts", "synthetic", "synthetic alone",
           "local dir", "local dir remade", "undump", "undump again"}
INVARIANTS
  ShowsLoadedWorlds
  PendingsTellTheTruth
  OnlyDerivedShare
  SavedIsShown
  DumpsReadBack
PROPERTIES
  ImplementsAtomicRefresh
  QuietlyEnds
  PicksUp
\* Bounds on refreshes, times and loads, and a failed assertion, stop the model.
CHECK_DEADLOCK FALSE
