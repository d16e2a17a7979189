CONSTANTS
  Nets = {"eth", "wlan"}
  Metric <- Metrics
  Tun = "tun"
  MaxEvents = 4
SPECIFICATION FairSpec
INVARIANTS
  IndInv
  NothingForgotten
  StopRestores
  RecordLasts
PROPERTIES
  CrashRecovers
