--------------------------- MODULE MCTunRestore ----------------------------
(* The instances TLC checks of TunRestore.                                 *)
EXTENDS TunRestore

\* eth's route has the metric of the route through TUN, wlan's comes after it.
Metrics == [n \in Nets |-> IF n = "eth" THEN 0 ELSE 100]
============================================================================
