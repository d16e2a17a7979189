CONSTANTS
  Clients = {c1}
  Dog = dog
  Sleepers = {s1}
  Profiles = {p1}
  DefaultProfile = p1
  NoProfile = noProfile
  NoProc = noProc
  NoBuild = noBuild
  Calls = {"start"}
  Toggles = {}
  InitConfigs <- ConfigTun
  AutoRestart = TRUE
  MaxRetries = 2
  LaunchResults = {TRUE}
  TunResults = {FALSE}
  StaleResults = {TRUE}
  SaveResults = {TRUE}
SPECIFICATION FairSpec
PROPERTIES
  RetriesEnd
