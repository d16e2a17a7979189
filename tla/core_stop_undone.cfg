CONSTANTS
  Clients = {c1}
  Dog = dog
  Sleepers = {s1}
  Profiles = {p1}
  DefaultProfile = p1
  NoProfile = noProfile
  NoProc = noProc
  NoBuild = noBuild
  Calls = {"start", "stop"}
  Toggles = {}
  InitConfigs <- ConfigTun
  AutoRestart = TRUE
  MaxRetries = 2
  LaunchResults = {TRUE}
  TunResults = {TRUE}
  StaleResults = {TRUE}
  SaveResults = {TRUE}
SPECIFICATION Spec
PROPERTIES
  AutoRestartRespectsStop
