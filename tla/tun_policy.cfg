CONSTANTS
  User = user
  Rec = rec
  NoProc = noProc
  Profiles = {"p1", "p2"}
  Server <- ServerOf
  Dns <- DnsNone
  RouteOrder <- Routes
  Moving = {"lan", "vpn"}
  PrioMin = 10
  PrioMax = 13
  ForeignPrios = {12}
  Modes = {"off", "policy", "other"}
  MaxEvents = 2
SPECIFICATION FairSpec
INVARIANTS
  TypeOK
  EscapeFirst
  NoMixture
  CriticalFirst
  NoStrayRules
PROPERTIES
  ForeignLossNeedsSharedPrio
  Repaired
