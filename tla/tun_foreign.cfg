CONSTANTS
  User = user
  Rec = rec
  NoProc = noProc
  Profiles = {"p1"}
  Server <- ServerOf
  Dns <- DnsOne
  RouteOrder <- Routes
  Moving = {"lan", "vpn"}
  PrioMin = 10
  PrioMax = 19
  ForeignPrios = {12}
  Modes = {"policy"}
  MaxEvents = 1
SPECIFICATION Spec
PROPERTIES
  ForeignRulesSurvive
