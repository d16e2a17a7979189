---------------------------- MODULE MCTunPolicy ----------------------------
(* The instances TLC checks of TunPolicy.                                  *)
EXTENDS TunPolicy

\* Two profiles with a server each.
ServerOf == [p \in Profiles |-> IF p = "p1" THEN "srv1" ELSE "srv2"]
DnsOne == <<"dns">>
DnsNone == <<>>
Routes == <<"lan", "vpn">>
============================================================================
