CONSTANTS
  Clients = {c1, c2}
  Dog = dog
  Sleepers = {s1}
  Profiles = {p1}
  DefaultProfile = p1
  NoProfile = noProfile
  NoProc = noProc
  NoBuild = noBuild
  Calls = {"start", "stop", "shutdown", "update"}
  Toggles = {"tun"}
  InitConfigs <- ConfigBoth
  AutoRestart = TRUE
  MaxRetries = 1
  LaunchResults = {TRUE, FALSE}
  TunResults = {TRUE, FALSE}
  StaleResults = {TRUE}
  SaveResults = {TRUE}
SPECIFICATION Spec
SYMMETRY Symmetry
INVARIANTS
  IndInv
  OneCore
  StartsAreExclusive
  LocksAreOrdered
  TakeoverHasOwner
  ProxyHasOwner
  RunningIsRestored
PROPERTIES
  ExitCleanupSparesLiveCore
  OnlyStopsDropIntent
  StopClearsIntent
  KeepsContract
