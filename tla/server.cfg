SPECIFICATION Spec
CONSTANTS
  Writers = {w1, w2}
  LogSubs = {s1}
  RingSize = 2
  LogCap = 2
  MaxLines = 4
  Handlers = {h1, h2}
  EventSubs = {e1, e2}
  BusCap = 2
  MaxEvents = 2
  NoHandler = NoHandler
  Callers = {c1, c2}
  Loop = Loop
  bodyA = bodyA
  bodyB = bodyB
  Bodies = {bodyA, bodyB}
  Offers <- MCOffers
  MaxCalls = 2
  MaxWindows = 1
  MaxFaults = 2
  Procs = {p1, p2}
  Nobody = Nobody
  MaxAttempts = 2
  MaxRequests = 1
  plain = plain
  dotcn = dotcn
  both = both
  nowhere = nowhere
  localhost = localhost
  loop = loop
  lan = lan
  cnaddr = cnaddr
  far = far
  wide = wide
  Names = {plain, dotcn, both, nowhere, localhost}
  Addrs = {loop, lan, cnaddr, wide, far}
  Localhost = localhost
  Loopback = loop
  Private = {loop, lan}
  BuiltinCn = {cnaddr, wide}
  CnNames = {dotcn, both}
  DotCn = {dotcn}
  Codes = {"cn", "private", "us"}
  GeoFiles <- MCGeoFiles
  Resolve <- MCResolve
  Ports = {22, 80, 443}
  CustomRules <- MCCustom
  MaxRoutingUpdates = 1
  SettingsTasks = {t1, t2}
  MaxEdits = 2
  MaxLoads = 2
  Blank = Blank
  MaxPageIds = 3
  PageTasks = {t1, t2}
  MaxPageJobs = 2
  MaxPending = 2
  MaxOpens = 3
  MaxFormSaves = 2
SYMMETRY MCSymmetry
INVARIANTS
  TypeOK
  LiveLinesInOrder
  ClientsAgreeOnOrder
  BackoffSurvives
  ServersKeepApart
  TesterAgrees
  UnsavedEditsSurvive
  PageSettles
  KeysGoToTheTop
  LinkIsHonoured
PROPERTIES
  LogIsFanOut
  BusIsFanOut
  SavesKeepOthersWork
CHECK_DEADLOCK FALSE
