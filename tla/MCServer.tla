------------------------------ MODULE MCServer ------------------------------
(***************************************************************************)
(* The parts of the backend and of the console that share no state with    *)
(* the core's lifecycle nor with each other, checked in one run: focus is  *)
(* the part a behaviour is about, and the others rest in their initial     *)
(* states.  The states of the run are the sum of theirs.                   *)
(***************************************************************************)
EXTENDS LogBroker, EventBus, Catalog, Launcher, RoutingRules, SettingsForm,
        ProfilesPage, Overlays, Links, TLC

CONSTANTS bodyA, bodyB, plain, dotcn, both, nowhere, localhost, loop, lan, cnaddr, wide, far

(* What a subscription offers: one profile, or two with the first repeated. *)
MCOffers == {<<bodyA>>, <<bodyA, bodyB, bodyA>>}

MCResolve ==
  plain :> {far} @@ dotcn :> {cnaddr} @@ both :> {cnaddr, far} @@ nowhere :> {}
    @@ localhost :> {loop}

(* Two editions of geoip.dat.                                              *)
MCGeoFiles ==
  { [private |-> {loop, lan}, cn |-> {cnaddr}, us |-> {far}],
    [private |-> {loop, lan}, cn |-> {cnaddr, wide}, us |-> {}] }

Says(k, names) == {[kind |-> k, names |-> names, under |-> names]}

(* A word two names contain, and one of them ends in.                      *)
MCWord == {[kind |-> "word", names |-> {dotcn, both}, under |-> {both}]}

UserRule(t, v, o) == [type |-> t, values |-> v, out |-> o]

MCCustom ==
  { <<>>,
    << UserRule("domain", Says("domain", {plain}), "block"),
       UserRule("port", {80, 443}, "direct"), UserRule("ip", {Net({far})}, "direct") >>,
    << UserRule("geoip", {Listed("us")}, "block"), UserRule("domain", MCWord, "proxy"),
       UserRule("protocol", {"bittorrent"}, "direct"),
       UserRule("ip", {Net({lan, cnaddr})}, "proxy") >>,
    << UserRule("geosite", {GeositeCn}, "proxy"), UserRule("port", {443}, "direct"),
       UserRule("domain", Says("regexp", {plain}), "block"),
       UserRule("geosite", Says("geosite", {both}), "block") >> }

VARIABLE focus

Parts == {"log", "bus", "catalog", "launcher", "routing", "settings", "page", "overlays",
          "links"}

RestOf(part) ==
  /\ part # "log" => UNCHANGED logVars
  /\ part # "bus" => UNCHANGED busVars
  /\ part # "catalog" => UNCHANGED catVars
  /\ part # "launcher" => UNCHANGED launchVars
  /\ part # "routing" => UNCHANGED routingVars
  /\ part # "settings" => UNCHANGED settingsVars
  /\ part # "page" => UNCHANGED pageVars
  /\ part # "overlays" => UNCHANGED overlayVars
  /\ part # "links" => UNCHANGED linkVars

(* A part a behaviour is not about has one initial state; geoip.dat is the *)
(* older edition. *)
Init ==
  /\ focus \in Parts
  /\ LogInit /\ BusInit /\ CatInit /\ OverlaysInit /\ LinksInit
  /\ SettingsInit /\ (focus # "settings" => ~language)
  /\ LaunchInit /\ (focus # "launcher" => ~intent)
  /\ RoutingInit /\ lists.us # {} /\ (focus # "routing" => geo = Assets)
  /\ PageInit /\ listed \in (IF focus = "page" THEN {{1}, {2, 3}} ELSE {{1}})

Next ==
  /\ UNCHANGED focus
  /\ RestOf(focus)
  /\ \/ focus = "log" /\ LogNext
     \/ focus = "bus" /\ BusNext
     \/ focus = "catalog" /\ CatNext
     \/ focus = "launcher" /\ LaunchNext
     \/ focus = "routing" /\ RoutingNext
     \/ focus = "settings" /\ SettingsNext
     \/ focus = "page" /\ PageNext
     \/ focus = "overlays" /\ OverlaysNext
     \/ focus = "links" /\ LinksNext

MCSymmetry == Permutations(Procs)

vars == <<focus, logVars, busVars, catVars, launchVars, routingVars, settingsVars,
          pageVars, overlayVars, linkVars>>

Spec == Init /\ [][Next]_vars

(* Every part keeps to its types. *)
TypeOK ==
  /\ focus \in Parts
  /\ focus = "log" => LogTypeOK
  /\ focus = "bus" => BusTypeOK
  /\ focus = "catalog" => CatTypeOK
  /\ focus = "launcher" => LaunchTypeOK
  /\ focus = "routing" => RoutingTypeOK
  /\ focus = "settings" => SettingsTypeOK
  /\ focus = "page" => PageTypeOK
  /\ focus = "overlays" => OverlaysTypeOK
  /\ focus = "links" => LinksTypeOK
=============================================================================
