SPECIFICATION AllSpec
CONSTANTS
  Package <- MCPackage
  Channel <- MCChannel
  Dep <- MCDep
  Lock = {"l1"}
  SpecOf <- MCSpecOf
  ChannelOf <- MCChannelOf
  System <- MCSystem
  Hidden <- MCHidden
  Score <- MCScore
  DepsOf <- MCDepsOf
  DepName <- MCDepName
  DepChannel <- MCDepChannel
  Meets <- MCMeets
  ANY = "any"
  MaxPackages = 3
  MaxSequence = 5
  ABSENT = ABSENT
  MALFORMED = MALFORMED
  UNKNOWN = UNKNOWN
  MaxId = 2
  CleanupTime = 1
  CleanupDelay = 1
  Percents = {50}
  Sizes <- MCSizes
  MaxClock = 4
  MultiWorld = {1, 2}
  MultiKind = {"packages", "locks"}
  MaxChanges = 1
  MaxTouches = 5
  WalkWorld = {1, 2, 3, 4}
  MaxWalkTouches = 7
  Parts = {"store", "channel store", "questions", "deaf questions", "subs", "subs saved",
           "subs imported", "pendings", "deps", "multi", "walks"}
INVARIANTS
  ClientsSeeWhatIsThere
  UpgradesAgree
  StatusIsKept
  DepsAreShared
PROPERTIES
  StoreIsWhole
  PendingsAreCleaned
\* Bounds on times, numbers and changes stop some of the parts.
CHECK_DEADLOCK FALSE
