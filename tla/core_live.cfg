CONSTANTS
  Clients = {c1}
  Dog = dog
  Sleepers = {s1}
  Profiles = {p1}
  DefaultProfile = p1
  NoProfile = noProfile
  NoProc = noProc
  NoBuild = noBuild
  Calls = {"start", "stop", "update", "status", "repair", "select"}
  Toggles = {"tun"}
  InitConfigs <- ConfigTun
  AutoRestart = TRUE
  MaxRetries = 2
  LaunchResults = {TRUE, FALSE}
  TunResults = {TRUE, FALSE}
  StaleResults = {TRUE}
  SaveResults = {TRUE}
SPECIFICATION FairSpec
PROPERTIES
  CallsReturn
  TakeoverIsUndone
  FailedLaunchesEnd
