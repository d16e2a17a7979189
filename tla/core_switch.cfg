CONSTANTS
  Clients = {c1, c2}
  Dog = dog
  Sleepers = {s1}
  Profiles = {p1}
  DefaultProfile = p1
  NoProfile = noProfile
  NoProc = noProc
  NoBuild = noBuild
  Calls = {"start", "update"}
  Toggles = {"tun"}
  InitConfigs <- ConfigTun
  AutoRestart = TRUE
  MaxRetries = 1
  LaunchResults = {TRUE}
  TunResults = {TRUE}
  StaleResults = {TRUE}
  SaveResults = {TRUE, FALSE}
SPECIFICATION SwitchSpec
SYMMETRY Symmetry
INVARIANTS
  SwitchTakesEffect
