------------------------------ MODULE Launcher ------------------------------
(***************************************************************************)
(* The life of the server process: RunServer, the boot restore and the     *)
(* instance lock of internal/launcher, Server.Run and the exit clean-up of *)
(* internal/httpapi, around start and stop of the core (CoreLifecycle has  *)
(* those in detail; here they take the core mutex, do their work and       *)
(* release it).                                                            *)
(*                                                                         *)
(* Several processes may be started over one data directory.  The host has *)
(* one takeover - device, routes, rules, all found by name - so whoever    *)
(* tears down tears down what is there, its own or not.  owner is the      *)
(* process whose start installed what is there now.                        *)
(***************************************************************************)
EXTENDS Naturals

CONSTANTS Procs,        \* processes, each started once
          Nobody,
          MaxAttempts,  \* maxStartAttempts of the boot restore
          MaxRequests   \* bound: start, stop and exit requests, all processes

ASSUME LauncherBounds ==
  /\ Nobody \notin Procs
  /\ MaxAttempts \in Nat \ {0}
  /\ MaxRequests \in Nat

VARIABLES lock,     \* who holds the file lock of the data directory
          phase,    \* of each process
          cancelled,\* processes that got a signal: ctx is done
          boot,     \* where its boot restore stands
          attempts, \* starts the boot restore has tried
          request,  \* what its request handler is about to do
          mutex,    \* which of its goroutines holds coreOpMu
          core,     \* the processes with a running core
          owner,    \* whose takeover is installed on the host
          intent,   \* coreShouldRestore in the data directory
          requests,
          late,     \* history: a start began after ShutdownCore was through
          lost      \* history: cores that lost their takeover to an exit
                    \* clean-up or to a late start

launchVars == <<lock, phase, cancelled, boot, attempts, request, mutex, core,
                owner, intent, requests, late, lost>>

Phases == {"off", "serving", "draining", "closing", "returned", "dead"}

LaunchTypeOK ==
  /\ lock \in Procs \cup {Nobody}
  /\ phase \in [Procs -> Phases]
  /\ cancelled \subseteq Procs
  /\ boot \in [Procs -> {"none", "probing", "ready", "starting", "waiting"}]
  /\ attempts \in [Procs -> 0 .. MaxAttempts]
  /\ request \in [Procs -> {"none", "start", "stop", "exit", "residue", "shutdown"}]
  /\ mutex \in [Procs -> {"free", "boot", "handler", "main"}]
  /\ core \subseteq Procs
  /\ owner \in Procs \cup {Nobody}
  /\ intent \in BOOLEAN
  /\ requests \in 0 .. MaxRequests
  /\ late \subseteq Procs
  /\ lost \subseteq Procs

LaunchInit ==
  /\ lock = Nobody
  /\ phase = [p \in Procs |-> "off"]
  /\ cancelled = {}
  /\ boot = [p \in Procs |-> "none"]
  /\ attempts = [p \in Procs |-> 0]
  /\ request = [p \in Procs |-> "none"]
  /\ mutex = [p \in Procs |-> "free"]
  /\ core = {}
  /\ owner = Nobody
  /\ intent \in BOOLEAN
  /\ requests = 0
  /\ late = {}
  /\ lost = {}

Alive(p) == phase[p] \notin {"off", "dead"}

-----------------------------------------------------------------------------
(* A server that goes on without the lock.                                 *)
RunServerUnlocked(p) ==
  /\ phase[p] = "off"
  /\ lock' = IF lock = Nobody THEN p ELSE lock
  /\ phase' = [phase EXCEPT ![p] = "serving"]
  /\ \E autoRun \in BOOLEAN :
       boot' = [boot EXCEPT ![p] = IF intent \/ autoRun THEN "probing" ELSE "none"]
  /\ UNCHANGED <<cancelled, attempts, request, mutex, core, owner, intent,
                 requests, late, lost>>

(* A flock on a file of the data directory; no process waits for it.       *)
AcquireInstanceLock(p) == lock = Nobody /\ lock' = p

(* RunServer up to its wait: the lock, then the HTTP server and, when the  *)
(* stored intent or autoRun asks for it, the boot restore.                 *)
RunServer(p) ==
  /\ phase[p] = "off"
  /\ \/ /\ AcquireInstanceLock(p)
        /\ phase' = [phase EXCEPT ![p] = "serving"]
        /\ \E autoRun \in BOOLEAN :
             boot' = [boot EXCEPT ![p] = IF intent \/ autoRun THEN "probing" ELSE "none"]
     \/ /\ lock # Nobody
        /\ phase' = [phase EXCEPT ![p] = "dead"]
        /\ UNCHANGED <<lock, boot>>
  /\ UNCHANGED <<cancelled, attempts, request, mutex, core, owner, intent,
                 requests, late, lost>>

(* waitForBootNetworkReady: reachable or given up on; a signal ends it.    *)
BootNetworkReady(p) ==
  /\ Alive(p) /\ boot[p] = "probing"
  /\ boot' = [boot EXCEPT ![p] = IF p \in cancelled THEN "none" ELSE "ready"]
  /\ UNCHANGED <<lock, phase, cancelled, attempts, request, mutex, core, owner,
                 intent, requests, late, lost>>

(* The pause after a failed attempt: the timer or a signal ends it.        *)
BootRetry(p) ==
  /\ Alive(p) /\ boot[p] = "waiting"
  /\ \/ boot' = [boot EXCEPT ![p] = "ready"]
     \/ p \in cancelled /\ boot' = [boot EXCEPT ![p] = "none"]
  /\ attempts' = IF boot'[p] = "none" THEN [attempts EXCEPT ![p] = 0] ELSE attempts
  /\ UNCHANGED <<lock, phase, cancelled, request, mutex, core, owner,
                 intent, requests, late, lost>>

(* The head of the attempt loop looks at ctx; from there on the goroutine  *)
(* waits for the mutex whatever happens.                                   *)
BootAttempt(p) ==
  /\ Alive(p) /\ boot[p] = "ready"
  /\ IF p \in cancelled
     THEN boot' = [boot EXCEPT ![p] = "none"] /\ attempts' = [attempts EXCEPT ![p] = 0]
     ELSE /\ boot' = [boot EXCEPT ![p] = "starting"]
          /\ attempts' = [attempts EXCEPT ![p] = @ + 1]
  /\ UNCHANGED <<lock, phase, cancelled, request, mutex, core, owner, intent,
                 requests, late, lost>>

-----------------------------------------------------------------------------
(* Install and teardown replace what is there, found by name.              *)
Replaced(excused) == IF excused THEN lost \cup (core \cap {owner}) ELSE lost

TearDown(excused) == owner' = Nobody /\ lost' = Replaced(excused)

TakeMutex(p, g) ==
  /\ Alive(p) /\ mutex[p] = "free"
  /\ mutex' = [mutex EXCEPT ![p] = g]

(* startCore takes the mutex; unless the core runs it clears what a dead   *)
(* process may have left.                                                  *)
StartBegins(p, g) ==
  /\ TakeMutex(p, g)
  /\ IF p \in core THEN UNCHANGED <<owner, lost>> ELSE TearDown(phase[p] = "returned")
  /\ late' = IF phase[p] = "returned" THEN late \cup {p} ELSE late
  /\ UNCHANGED <<lock, phase, cancelled, boot, attempts, request, core, intent,
                 requests>>

(* ... and releases it: running with the takeover installed, or failed.    *)
Started(p) ==
  /\ core' = core \cup {p}
  /\ owner' = p
  /\ lost' = Replaced(phase[p] = "returned")
  /\ intent' = TRUE

(* After a failed attempt: the loop without its bound, and the loop.       *)
TriesForever(p) == "waiting"

AfterFailedStart(p) == IF attempts[p] = MaxAttempts THEN "none" ELSE "waiting"

BootStart(p) == boot[p] = "starting" /\ StartBegins(p, "boot")

(* A start that leaves the core degraded counts as a failed attempt, and   *)
(* here as one with a takeover: what it holds is its own.                  *)
BootStartEnds(p) ==
  /\ Alive(p) /\ mutex[p] = "boot"
  /\ mutex' = [mutex EXCEPT ![p] = "free"]
  /\ \/ /\ boot' = [boot EXCEPT ![p] = "none"]
        /\ IF p \in core THEN UNCHANGED <<core, owner, intent, lost>> ELSE Started(p)
     \/ /\ boot' = [boot EXCEPT ![p] = AfterFailedStart(p)]
        /\ \/ p \notin core /\ Started(p)
           \/ UNCHANGED <<core, owner, intent, lost>>
  /\ attempts' = IF boot'[p] = "none" THEN [attempts EXCEPT ![p] = 0] ELSE attempts
  /\ UNCHANGED <<lock, phase, cancelled, request, requests, late>>

-----------------------------------------------------------------------------
(* A request comes in while the server serves.                             *)
LaunchRequest(p, what) ==
  /\ phase[p] = "serving"
  /\ request[p] = "none"
  /\ requests < MaxRequests
  /\ requests' = requests + 1
  /\ request' = [request EXCEPT ![p] = what]
  /\ UNCHANGED <<lock, phase, cancelled, boot, attempts, mutex, core, owner,
                 intent, late, lost>>

HandlerStart(p) == request[p] = "start" /\ StartBegins(p, "handler")

(* StopCore; stopCore takes the core out before it tears down.             *)
HandlerStop(p) ==
  /\ request[p] \in {"stop", "exit"}
  /\ TakeMutex(p, "handler")
  /\ core' = core \ {p}
  /\ UNCHANGED <<lock, phase, cancelled, boot, attempts, request, owner, intent,
                 requests, late, lost>>

HandlerEnds(p) ==
  /\ Alive(p) /\ mutex[p] = "handler"
  /\ mutex' = [mutex EXCEPT ![p] = "free"]
  /\ request' = [request EXCEPT ![p] = IF @ = "exit" THEN "residue" ELSE "none"]
  /\ \/ /\ request[p] = "start"
        /\ \/ p \notin core /\ Started(p)
           \/ UNCHANGED <<core, owner, intent, lost>>
     \/ /\ request[p] # "start"
        /\ TearDown(phase[p] = "returned")
        /\ intent' = FALSE
        /\ UNCHANGED core
  /\ UNCHANGED <<lock, phase, cancelled, boot, attempts, requests, late>>

(* handleExitCleanup goes on without the mutex: the devices are deleted by *)
(* name, whoever has put them up meanwhile.                                *)
CleanupTunResidue(p) ==
  /\ Alive(p) /\ request[p] = "residue"
  /\ TearDown(TRUE)
  /\ \E shutdownBackend \in BOOLEAN :
       request' = [request EXCEPT ![p] = IF shutdownBackend THEN "shutdown" ELSE "none"]
  /\ UNCHANGED <<lock, phase, cancelled, boot, attempts, mutex, core, intent,
                 requests, late>>

(* Its goroutine shuts the HTTP server down 200 ms later: Run returns at   *)
(* once, since ListenAndServe does, and nobody cancels ctx.                *)
ShutdownBackend(p) ==
  /\ phase[p] = "serving" /\ request[p] = "shutdown"
  /\ phase' = [phase EXCEPT ![p] = "closing"]
  /\ request' = [request EXCEPT ![p] = "none"]
  /\ UNCHANGED <<lock, cancelled, boot, attempts, mutex, core, owner, intent,
                 requests, late, lost>>

-----------------------------------------------------------------------------
(* SIGTERM or SIGINT: Run stops listening and waits for the handlers, five *)
(* seconds at most; or the listener fails.                                 *)
Signal(p) ==
  /\ phase[p] = "serving"
  /\ phase' = [phase EXCEPT ![p] = "draining"]
  /\ cancelled' = cancelled \cup {p}
  /\ UNCHANGED <<lock, boot, attempts, request, mutex, core, owner, intent,
                 requests, late, lost>>

RunReturns(p) ==
  /\ phase[p] \in {"serving", "draining"}
  /\ phase' = [phase EXCEPT ![p] = "closing"]
  /\ UNCHANGED <<lock, cancelled, boot, attempts, request, mutex, core, owner,
                 intent, requests, late, lost>>

(* ShutdownCore waits for the mutex like any other operation.              *)
ShutdownCore(p) ==
  /\ phase[p] = "closing"
  /\ TakeMutex(p, "main")
  /\ core' = core \ {p}
  /\ UNCHANGED <<lock, phase, cancelled, boot, attempts, request, owner, intent,
                 requests, late, lost>>

(* It tears down, keeps the intent, and RunServer returns: the deferred    *)
(* release of the lock.                                                    *)
RunServerReturns(p) ==
  /\ Alive(p) /\ mutex[p] = "main"
  /\ mutex' = [mutex EXCEPT ![p] = "free"]
  /\ phase' = [phase EXCEPT ![p] = "returned"]
  /\ TearDown(phase[p] = "returned")
  /\ lock' = Nobody
  /\ UNCHANGED <<cancelled, boot, attempts, request, core, intent, requests, late>>

(* The process ends, after main or killed: its goroutines and what they    *)
(* knew are gone, the kernel frees its lock, what it has installed stays.  *)
Ends(p) ==
  /\ phase' = [phase EXCEPT ![p] = "dead"]
  /\ boot' = [boot EXCEPT ![p] = "none"]
  /\ request' = [request EXCEPT ![p] = "none"]
  /\ mutex' = [mutex EXCEPT ![p] = "free"]
  /\ core' = core \ {p}
  /\ lock' = IF lock = p THEN Nobody ELSE lock
  /\ cancelled' = cancelled \ {p}
  /\ attempts' = [attempts EXCEPT ![p] = 0]
  /\ late' = late \ {p} /\ lost' = lost \ {p}
  /\ UNCHANGED <<owner, intent, requests>>

ProcessExit(p) == phase[p] = "returned" /\ Ends(p)

Killed(p) == Alive(p) /\ phase[p] # "returned" /\ Ends(p)

LaunchNext ==
  \E p \in Procs :
    \/ RunServer(p) \/ BootNetworkReady(p) \/ BootAttempt(p) \/ BootRetry(p)
    \/ BootStart(p) \/ BootStartEnds(p)
    \/ \E what \in {"start", "stop", "exit"} : LaunchRequest(p, what)
    \/ HandlerStart(p) \/ HandlerStop(p) \/ HandlerEnds(p)
    \/ CleanupTunResidue(p) \/ ShutdownBackend(p)
    \/ Signal(p) \/ RunReturns(p) \/ ShutdownCore(p) \/ RunServerReturns(p)
    \/ ProcessExit(p) \/ Killed(p)

LaunchSpec == LaunchInit /\ [][LaunchNext]_launchVars

-----------------------------------------------------------------------------
(* Processes end clean and leave each other alone.  A start that was under *)
(* way when the server stopped is waited for and undone; only one that had *)
(* not yet taken the mutex can install a takeover after ShutdownCore       *)
(* (server.go:104-114 of the launcher).                                    *)
ExitLeavesNothing ==
  \A p \in Procs : phase[p] = "returned" /\ owner = p => p \in late

(* And a core that runs keeps its takeover, whatever other processes are   *)
(* started over the same data directory (instance_lock.go:26-30), save     *)
(* when an exit clean-up without the mutex (httpapi/server.go:597) or such *)
(* a late start tears it down.                                             *)
RunningKeepsTakeover ==
  \A p \in core : owner # p => p \in lost \cup late

ServersKeepApart == ExitLeavesNothing /\ RunningKeepsTakeover
=============================================================================
