CONSTANTS
  Nets = {"eth", "wlan"}
  Metric <- Metrics
  Tun = "tun"
  MaxEvents = 1
SPECIFICATION Spec
INVARIANT WayBack
