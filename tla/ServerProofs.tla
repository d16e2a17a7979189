---------------------------- MODULE ServerProofs ----------------------------
(***************************************************************************)
(* The parts of MCServer under its specification.  Each of them takes only *)
(* steps of its own there, so what was proved about it alone holds in any  *)
(* behaviour of the whole.                                                 *)
(***************************************************************************)
EXTENDS MCServer, BackendProofs, CatalogProofs, ConsoleProofs, TLAPS

-----------------------------------------------------------------------------
(* No part takes a step that is not one of its own: the initial states are *)
(* its initial states, and while the behaviour is about another part its   *)
(* variables do not change.                                                *)

LEMMA LogAlone == Spec => LogSpec
<1>1. Init => LogInit
  BY DEF Init
<1>2. [Next]_vars => [LogNext]_logVars
  BY DEF Next, RestOf, vars
<1>3. QED
  BY <1>1, <1>2, PTL DEF Spec, LogSpec

LEMMA BusAlone == Spec => BusSpec
<1>1. Init => BusInit
  BY DEF Init
<1>2. [Next]_vars => [BusNext]_busVars
  BY DEF Next, RestOf, vars
<1>3. QED
  BY <1>1, <1>2, PTL DEF Spec, BusSpec

LEMMA CatAlone == Spec => CatSpec
<1>1. Init => CatInit
  BY DEF Init
<1>2. [Next]_vars => [CatNext]_catVars
  BY DEF Next, RestOf, vars
<1>3. QED
  BY <1>1, <1>2, PTL DEF Spec, CatSpec

LEMMA LaunchAlone == Spec => LaunchSpec
<1>1. Init => LaunchInit
  BY DEF Init
<1>2. [Next]_vars => [LaunchNext]_launchVars
  BY DEF Next, RestOf, vars
<1>3. QED
  BY <1>1, <1>2, PTL DEF Spec, LaunchSpec

LEMMA RoutingAlone == Spec => RoutingSpec
<1>1. Init => RoutingInit
  BY DEF Init
<1>2. [Next]_vars => [RoutingNext]_routingVars
  BY DEF Next, RestOf, vars
<1>3. QED
  BY <1>1, <1>2, PTL DEF Spec, RoutingSpec

LEMMA SettingsAlone == Spec => SettingsSpec
<1>1. Init => SettingsInit
  BY DEF Init
<1>2. [Next]_vars => [SettingsNext]_settingsVars
  BY DEF Next, RestOf, vars
<1>3. QED
  BY <1>1, <1>2, PTL DEF Spec, SettingsSpec

LEMMA PageAlone == Spec => PageSpec
<1>1. Init => PageInit
  BY DEF Init
<1>2. [Next]_vars => [PageNext]_pageVars
  BY DEF Next, RestOf, vars
<1>3. QED
  BY <1>1, <1>2, PTL DEF Spec, PageSpec

LEMMA OverlaysAlone == Spec => OverlaysSpec
<1>1. Init => OverlaysInit
  BY DEF Init
<1>2. [Next]_vars => [OverlaysNext]_overlayVars
  BY DEF Next, RestOf, vars
<1>3. QED
  BY <1>1, <1>2, PTL DEF Spec, OverlaysSpec

LEMMA LinksAlone == Spec => LinksSpec
<1>1. Init => LinksInit
  BY DEF Init
<1>2. [Next]_vars => [LinksNext]_linkVars
  BY DEF Next, RestOf, vars
<1>3. QED
  BY <1>1, <1>2, PTL DEF Spec, LinksSpec

-----------------------------------------------------------------------------
\* A behaviour stays with the part it is about.
LEMMA FocusStays == Spec => [](focus \in Parts)
<1>1. Init => focus \in Parts
  BY DEF Init
<1>2. focus \in Parts /\ [Next]_vars => (focus \in Parts)'
  BY DEF Next, vars
<1>3. QED
  BY <1>1, <1>2, PTL DEF Spec

\* Every part keeps to its types, however its goroutines, requests, faults and
\* processes interleave: for any number of each of them.
THEOREM ServerTyping == Spec => []TypeOK
<1> DEFINE Typed == /\ LogTypeOK /\ BusTypeOK /\ CatTypeOK
                    /\ LaunchTypeOK /\ RoutingTypeOK
                    /\ SettingsTypeOK /\ PageTypeOK /\ OverlaysTypeOK /\ LinksTypeOK
<1>1. LogInv /\ BusInv => LogTypeOK /\ BusTypeOK
  BY DEF LogInv, BusInv
<1>2. IndInv /\ RoutingInv => LaunchTypeOK /\ RoutingTypeOK
  BY DEF IndInv, RoutingInv
<1>3. SettingsInv /\ PageInv /\ OverlaysInv /\ LinksInv
        => SettingsTypeOK /\ PageTypeOK /\ OverlaysTypeOK /\ LinksTypeOK
  BY DEF SettingsInv, PageInv, OverlaysInv, LinksInv
<1>4. Spec => []Typed
  BY <1>1, <1>2, <1>3, LogAlone, BusAlone, CatAlone, LaunchAlone, RoutingAlone,
     SettingsAlone, PageAlone, OverlaysAlone, LinksAlone, LogInvariant, BusInvariant,
     CatalogTyping, LaunchInvariant, RoutingInvariant, SettingsInvariant, PageInvariant,
     OverlaysInvariant, LinksInvariant, PTL
<1>5. focus \in Parts /\ Typed => TypeOK
  BY DEF Parts, TypeOK
<1>6. QED
  BY <1>4, <1>5, FocusStays, PTL

\* The whole keeps what each part was shown to keep.
THEOREM ServerIsSafe ==
  Spec => /\ [](LiveLinesInOrder /\ ClientsAgreeOnOrder /\ BackoffSurvives)
          /\ [](ServersKeepApart /\ TesterAgrees)
          /\ [](UnsavedEditsSurvive /\ PageSettles /\ KeysGoToTheTop /\ LinkIsHonoured)
          /\ LogIsFanOut /\ BusIsFanOut /\ SavesKeepOthersWork
BY LogAlone, BusAlone, CatAlone, LaunchAlone, RoutingAlone, SettingsAlone, PageAlone,
   OverlaysAlone, LinksAlone, LiveInOrder, AgreementOnOrder, NoSecondFetch,
   ProcessesKeepApart, TestPredictsCore, EditsSurvive, PageOfOnePiece, KeysFollow,
   LinksHonoured, LogImplementsFanOut, BusImplementsFanOut, OthersWorkSurvives, PTL
=============================================================================
