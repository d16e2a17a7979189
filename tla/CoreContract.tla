---------------------------- MODULE CoreContract ----------------------------
(***************************************************************************)
(* What the core's lifecycle promises to the rest of the machine, whatever *)
(* its goroutines, mutexes, flags and files: one xray instance, one        *)
(* operation on it at a time, and a host whose network is taken over only  *)
(* by the operation that has brought a core up, given back while no core   *)
(* is there, and never left taken over without a core unless a clean-up is *)
(* booked.                                                                 *)
(*                                                                         *)
(* CoreLifecycle implements it.                                            *)
(***************************************************************************)

VARIABLES
  xray,      \* "none", "new" (started, not published), "live", "dead" (it has
             \* stopped by itself), "old" (withdrawn, not closed yet)
  takeover,  \* the host's network goes through the core
  section,   \* the kind of operation at work on the core, "none" between two
  deciding,  \* a core has been brought up, and whether it takes over is open
  booked     \* a clean-up after the exit of a core has been asked for

contractVars == <<xray, takeover, section, deciding, booked>>

Starting == {"start", "restart"}
Stopping == {"stop", "restart"}
Sections == Starting \cup Stopping \cup {"cleanup", "tunOff"}

ContractInit ==
  /\ xray = "none" /\ ~takeover
  /\ section = "none" /\ ~deciding /\ ~booked

-----------------------------------------------------------------------------
(* Sections.                                                               *)

\* A clean-up takes place only if one was booked; others may still be.
Enter(s) ==
  /\ section = "none" /\ section' = s
  /\ s = "cleanup" => booked
  /\ booked' \in (IF s = "cleanup" THEN BOOLEAN ELSE {booked})
  /\ UNCHANGED <<xray, takeover, deciding>>

\* No section ends with an instance in its hands, nor leaves the host taken
\* over by a core that is gone, unless a clean-up is still to come.
Leave ==
  /\ section \in Sections \ {"tunOff"} /\ section' = "none"
  /\ xray \notin {"new", "old"} /\ ~deciding
  /\ takeover /\ xray = "none" => booked
  /\ UNCHANGED <<xray, takeover, deciding, booked>>

\* The user has switched TUN off: the one way to give the network back beside
\* a running core.
TurnOff ==
  /\ section = "tunOff" /\ section' = "none"
  /\ takeover' = FALSE
  /\ UNCHANGED <<xray, deciding, booked>>

-----------------------------------------------------------------------------
(* The instance.                                                           *)

Launch ==
  /\ section \in Starting /\ ~deciding
  /\ xray = "none" /\ xray' = "new"
  /\ UNCHANGED <<takeover, section, deciding, booked>>

Publish ==
  /\ section \in Starting
  /\ xray = "new" /\ xray' = "live"
  /\ deciding' = TRUE
  /\ UNCHANGED <<takeover, section, booked>>

Withdraw ==
  /\ section \in Stopping /\ ~deciding
  /\ xray \in {"live", "dead"} /\ xray' = "old"
  /\ UNCHANGED <<takeover, section, deciding, booked>>

Close ==
  /\ section \in Stopping
  /\ xray = "old" /\ xray' = "none"
  /\ UNCHANGED <<takeover, section, deciding, booked>>

Exit ==
  /\ xray = "live" /\ xray' = "dead"
  /\ UNCHANGED <<takeover, section, deciding, booked>>

\* An exit is noticed by a status poll or the watchdog, which book a clean-up,
\* or by the section under way, which owes one before it ends.
NoticeFromOutside ==
  /\ xray = "dead" /\ xray' = "none"
  /\ booked' = TRUE
  /\ UNCHANGED <<takeover, section, deciding>>

NoticeInside ==
  /\ section \in Sections \ {"tunOff"} /\ ~deciding
  /\ xray = "dead" /\ xray' = "none"
  /\ UNCHANGED <<takeover, section, deciding, booked>>

-----------------------------------------------------------------------------
(* The host.                                                               *)

\* Once per core, by the section that has published it.  It may have exited
\* meanwhile, even have been noticed: then the clean-up is booked.
Decide ==
  /\ section \in Starting
  /\ deciding /\ deciding' = FALSE
  /\ takeover' \in BOOLEAN
  /\ xray \in {"live", "dead"} \/ booked
  /\ UNCHANGED <<xray, section, booked>>

GiveBack ==
  /\ section \in Sections \ {"tunOff"} /\ ~deciding
  /\ xray = "none"
  /\ takeover' = FALSE
  /\ UNCHANGED <<xray, section, deciding, booked>>

ContractNext ==
  \/ \E s \in Sections : Enter(s)
  \/ Leave \/ TurnOff
  \/ Launch \/ Publish \/ Withdraw \/ Close \/ Exit \/ NoticeFromOutside \/ NoticeInside
  \/ Decide \/ GiveBack

ContractSpec == ContractInit /\ [][ContractNext]_contractVars

\* What a host can rely on: taken over without a core means that somebody is at
\* work on it, or bound to come.
NeverAbandoned == takeover /\ xray = "none" => section # "none" \/ booked
=============================================================================
