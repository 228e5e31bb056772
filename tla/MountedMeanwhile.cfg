SPECIFICATION AllSpec
CONSTANTS
  system = system
  red = red
  blue = blue
  plain = plain
  Service <- MCService
  Refreshable <- MCRefreshable
  Immediate <- MCImmediate
  Mounted <- MCMounted
  Changes = {"mount"}
  MaxRefreshes = 1
  NONE = NONE
  MountUrls <- MCUrls
  LowerCase <- MCLowerCase
  MaxMounted = 4
  SyntheticPackage = {1, 2, 3}
  LocalPackage = {1, 2}
  MaxClock = 4
  Parts = {"refresh"}
INVARIANT WaitsForTheRefreshed
\* The bound on refreshes and a failed assertion stop the multi world.
CHECK_DEADLOCK FALSE
