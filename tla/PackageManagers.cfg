SPECIFICATION Spec
CONSTANTS
  mounted = mounted
  duplicate = duplicate
  tool = tool
  conf = conf
  a1 = a1
  a2 = a2
  b = b
  c = c
  none = none
  SystemWorlds = {mounted, duplicate}
  MaxAlone = 3
  MaxSystem = 2
  MaxLock = 2
  MaxCalls = 20
  MaxDepth = 3
  DebPackage = {tool, conf}
  DebInstalled = {tool}
  MaxTransactions = 2
  MaxOthers = 1
  MaxHeld = 1
  RpmPackage = {a1, a2, b, c}
  RpmName <- MCRpmName
  RpmObsoletes <- MCRpmObsoletes
  RpmInstallOnly = {c}
  Parts = {"system alone", "system", "front", "front unhandled", "debman", "status",
           "status nested", "lines", "rpm", "rpm before 4.1 locked"}
INVARIANTS
  ChangesAreSeen
  LockedOrWatched
  LockIsPassedOn
  OnlyWhatWasAsked
  FilesAreRead
  RpmDoesWhatWasAsked
PROPERTIES
  IsCountingLock
  FailuresAreReported
\* The bounds on what happens stop some of the parts.
CHECK_DEADLOCK FALSE
