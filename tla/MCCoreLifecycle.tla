-------------------------- MODULE MCCoreLifecycle --------------------------
(* The instances TLC checks of CoreLifecycle.                              *)
EXTENDS CoreLifecycle, TLC

\* Clients are interchangeable, and so are the slots for sleeping goroutines.
Symmetry == Permutations(Clients) \cup Permutations(Sleepers)

ConfigTun == {[tun |-> TRUE, proxy |-> FALSE]}
ConfigBoth == {[tun |-> TRUE, proxy |-> TRUE]}
ConfigProxy == {[tun |-> FALSE, proxy |-> TRUE]}
ConfigAny == Config
============================================================================
