---------------------------- MODULE MCCoreSwitch ----------------------------
(* The instance TLC checks of CoreSwitch.                                  *)
EXTENDS CoreSwitch, TLC

\* Clients are interchangeable.
Symmetry == Permutations(Clients)

ConfigTun == {[tun |-> TRUE, proxy |-> FALSE]}
=============================================================================
