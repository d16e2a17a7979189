--------------------------- MODULE BackendProofs ---------------------------
(***************************************************************************)
(* Proofs about four parts of the backend.                                 *)
(*                                                                         *)
(* Launcher, for any number of processes, requests and boot attempts.  The *)
(* two halves of ServersKeepApart rest on who may touch the host: a        *)
(* process that has not returned from RunServer holds the file lock        *)
(* (LockHeld), so another one with a core must be past it (CoresLate); a   *)
(* core is taken out before its takeover is (MutexHeld).                   *)
(*                                                                         *)
(* RoutingRules, for any names, addresses and rules of a user: the routing *)
(* test reads a rule differently from the core's router, but not one of    *)
(* the rules that are built (RuleMatch), and both take the first.          *)
(*                                                                         *)
(* LogBroker and EventBus, for any number of readers and any sizes of      *)
(* channels: what a client gets, in which order, and that both implement   *)
(* FanOut.                                                                 *)
(***************************************************************************)
EXTENDS Launcher, RoutingRules, LogBroker, EventBus, SeqLemmas, FiniteSetTheorems

-----------------------------------------------------------------------------
(* Launcher.                                                               *)

Serves(p) == phase[p] \in {"serving", "draining", "closing"}

LockHeld == \A p \in Procs : Serves(p) => lock = p

\* What the holder of a core mutex is about, and what it knows.
MainHolds(p) == mutex[p] = "main" => phase[p] = "closing" /\ p \notin core

BootHolds(p) ==
  mutex[p] = "boot" => boot[p] = "starting" /\ (phase[p] = "returned" => p \in late)

HandlerHolds(p) ==
  mutex[p] = "handler" =>
    /\ request[p] \in {"start", "stop", "exit"}
    /\ request[p] = "start" /\ phase[p] = "returned" => p \in late
    /\ request[p] # "start" => p \notin core

MutexHeld ==
  \A p \in Procs : /\ mutex[p] # "free" => Alive(p)
                   /\ MainHolds(p) /\ BootHolds(p) /\ HandlerHolds(p)

CoresLate ==
  \A p \in core : Alive(p) /\ (phase[p] = "returned" => p \in late)

AttemptsLeft ==
  \A p \in Procs :
    /\ phase[p] = "off" => attempts[p] = 0
    /\ boot[p] \in {"probing", "ready", "waiting"} => attempts[p] < MaxAttempts

IndInv ==
  LaunchTypeOK /\ LockHeld /\ MutexHeld /\ CoresLate /\ AttemptsLeft /\ ServersKeepApart

-----------------------------------------------------------------------------
\* While a process serves, a core of another one is a late one, so that what
\* is torn down or replaced is nobody's, or excused.
LEMMA OthersAreLate ==
  ASSUME IndInv, NEW p \in Procs, Serves(p), NEW q \in core, q # p
  PROVE  q \in late
<1>1. q \in Procs /\ ~Serves(q)
  BY DEF IndInv, LaunchTypeOK, LockHeld
<1>2. phase[q] = "returned"
  BY <1>1 DEF IndInv, LaunchTypeOK, Phases, CoresLate, Alive, Serves
<1>3. QED
  BY <1>2 DEF IndInv, CoresLate

\* Whoever replaces the takeover leaves every other core with its own, or
\* among the lost and late ones.
LEMMA ReplacingIsExcused ==
  ASSUME IndInv, NEW p \in Procs, Alive(p), NEW q \in core, q # p, NEW excused,
         phase[p] = "returned" => excused
  PROVE  q \in Replaced(excused) \cup late
<1>1. CASE excused
  BY <1>1 DEF Replaced, IndInv, ServersKeepApart, RunningKeepsTakeover
<1>2. CASE ~excused
  <2>1. Serves(p)
    BY <1>2 DEF IndInv, LaunchTypeOK, Phases, Alive, Serves
  <2>2. QED
    BY <2>1, OthersAreLate
<1>3. QED
  BY <1>1, <1>2

-----------------------------------------------------------------------------
\* A process starts only over a free lock, and has nothing yet.
LEMMA RunServerKeeps ==
  ASSUME IndInv, NEW p \in Procs, RunServer(p)
  PROVE  IndInv'
<1>1. LaunchTypeOK'
  BY DEF IndInv, LaunchTypeOK, Phases, RunServer, AcquireInstanceLock
<1>2. LockHeld'
  BY LauncherBounds
  DEF IndInv, LaunchTypeOK, LockHeld, Serves, RunServer, AcquireInstanceLock
<1>3. MutexHeld'
  BY DEF IndInv, LaunchTypeOK, MutexHeld, MainHolds, BootHolds, HandlerHolds, Alive,
         RunServer
<1>4. CoresLate'
  BY DEF IndInv, LaunchTypeOK, CoresLate, Alive, RunServer
<1>5. AttemptsLeft'
  BY LauncherBounds DEF IndInv, LaunchTypeOK, AttemptsLeft, RunServer
<1>6. ServersKeepApart'
  BY DEF IndInv, LaunchTypeOK, ServersKeepApart, ExitLeavesNothing,
         RunningKeepsTakeover, RunServer
<1>7. QED
  BY <1>1, <1>2, <1>3, <1>4, <1>5, <1>6 DEF IndInv

\* The boot restore goes on, or ends with a signal.
LEMMA BootNetworkReadyKeeps ==
  ASSUME IndInv, NEW p \in Procs, BootNetworkReady(p)
  PROVE  IndInv'
<1>1. LaunchTypeOK'
  BY DEF IndInv, LaunchTypeOK, BootNetworkReady
<1>2. LockHeld'
  BY DEF IndInv, LockHeld, Serves, BootNetworkReady
<1>3. MutexHeld'
  BY DEF IndInv, MutexHeld, MainHolds, BootHolds, HandlerHolds, Alive, BootNetworkReady
<1>4. CoresLate'
  BY DEF IndInv, CoresLate, Alive, BootNetworkReady
<1>5. AttemptsLeft'
  BY DEF IndInv, AttemptsLeft, BootNetworkReady
<1>6. ServersKeepApart'
  BY DEF IndInv, ServersKeepApart, ExitLeavesNothing, RunningKeepsTakeover,
         BootNetworkReady
<1>7. QED
  BY <1>1, <1>2, <1>3, <1>4, <1>5, <1>6 DEF IndInv

\* The pause ends.
LEMMA BootRetryKeeps ==
  ASSUME IndInv, NEW p \in Procs, BootRetry(p)
  PROVE  IndInv'
<1>1. LaunchTypeOK'
  <2>1. attempts' \in [Procs -> 0 .. MaxAttempts]
    BY LauncherBounds DEF IndInv, LaunchTypeOK, BootRetry
  <2>2. QED
    BY <2>1 DEF IndInv, LaunchTypeOK, BootRetry
<1>2. LockHeld'
  BY DEF IndInv, LockHeld, Serves, BootRetry
<1>3. MutexHeld'
  BY DEF IndInv, LaunchTypeOK, MutexHeld, MainHolds, BootHolds, HandlerHolds, Alive,
         BootRetry
<1>4. CoresLate'
  BY DEF IndInv, CoresLate, Alive, BootRetry
<1>5. AttemptsLeft'
  BY DEF IndInv, LaunchTypeOK, AttemptsLeft, BootRetry
<1>6. ServersKeepApart'
  BY DEF IndInv, ServersKeepApart, ExitLeavesNothing, RunningKeepsTakeover, BootRetry
<1>7. QED
  BY <1>1, <1>2, <1>3, <1>4, <1>5, <1>6 DEF IndInv

\* An attempt is counted; those that wait have one left.
LEMMA BootAttemptKeeps ==
  ASSUME IndInv, NEW p \in Procs, BootAttempt(p)
  PROVE  IndInv'
<1>1. LaunchTypeOK'
  BY LauncherBounds DEF IndInv, LaunchTypeOK, AttemptsLeft, BootAttempt
<1>2. LockHeld'
  BY DEF IndInv, LockHeld, Serves, BootAttempt
<1>3. MutexHeld'
  BY DEF IndInv, LaunchTypeOK, MutexHeld, MainHolds, BootHolds, HandlerHolds, Alive,
         BootAttempt
<1>4. CoresLate'
  BY DEF IndInv, CoresLate, Alive, BootAttempt
<1>5. AttemptsLeft'
  BY DEF IndInv, LaunchTypeOK, AttemptsLeft, Alive, BootAttempt
<1>6. ServersKeepApart'
  BY DEF IndInv, ServersKeepApart, ExitLeavesNothing, RunningKeepsTakeover, BootAttempt
<1>7. QED
  BY <1>1, <1>2, <1>3, <1>4, <1>5, <1>6 DEF IndInv

\* A request notes what it wants.
LEMMA LaunchRequestKeeps ==
  ASSUME IndInv, NEW p \in Procs, NEW what \in {"start", "stop", "exit"}, LaunchRequest(p, what)
  PROVE  IndInv'
<1>1. LaunchTypeOK'
  BY LauncherBounds DEF IndInv, LaunchTypeOK, LaunchRequest
<1>2. LockHeld'
  BY DEF IndInv, LockHeld, Serves, LaunchRequest
<1>3. MutexHeld'
  BY DEF IndInv, MutexHeld, MainHolds, BootHolds, HandlerHolds, Alive, LaunchRequest
<1>4. CoresLate'
  BY DEF IndInv, CoresLate, Alive, LaunchRequest
<1>5. AttemptsLeft'
  BY DEF IndInv, AttemptsLeft, LaunchRequest
<1>6. ServersKeepApart'
  BY DEF IndInv, ServersKeepApart, ExitLeavesNothing, RunningKeepsTakeover,
         LaunchRequest
<1>7. QED
  BY <1>1, <1>2, <1>3, <1>4, <1>5, <1>6 DEF IndInv

\* Draining, a process keeps its lock.
LEMMA SignalKeeps ==
  ASSUME IndInv, NEW p \in Procs, Signal(p)
  PROVE  IndInv'
<1>1. LaunchTypeOK'
  BY DEF IndInv, LaunchTypeOK, Phases, Signal
<1>2. LockHeld'
  BY DEF IndInv, LockHeld, Serves, Signal
<1>3. MutexHeld'
  BY DEF IndInv, MutexHeld, MainHolds, BootHolds, HandlerHolds, Alive, Signal
<1>4. CoresLate'
  BY DEF IndInv, CoresLate, Alive, Signal
<1>5. AttemptsLeft'
  BY DEF IndInv, AttemptsLeft, Signal
<1>6. ServersKeepApart'
  BY DEF IndInv, ServersKeepApart, ExitLeavesNothing, RunningKeepsTakeover, Signal
<1>7. QED
  BY <1>1, <1>2, <1>3, <1>4, <1>5, <1>6 DEF IndInv

\* Closing, too.
LEMMA RunReturnsKeeps ==
  ASSUME IndInv, NEW p \in Procs, RunReturns(p)
  PROVE  IndInv'
<1>1. LaunchTypeOK'
  BY DEF IndInv, LaunchTypeOK, Phases, RunReturns
<1>2. LockHeld'
  BY DEF IndInv, LockHeld, Serves, RunReturns
<1>3. MutexHeld'
  BY DEF IndInv, MutexHeld, MainHolds, BootHolds, HandlerHolds, Alive, RunReturns
<1>4. CoresLate'
  BY DEF IndInv, CoresLate, Alive, RunReturns
<1>5. AttemptsLeft'
  BY DEF IndInv, AttemptsLeft, RunReturns
<1>6. ServersKeepApart'
  BY DEF IndInv, ServersKeepApart, ExitLeavesNothing, RunningKeepsTakeover, RunReturns
<1>7. QED
  BY <1>1, <1>2, <1>3, <1>4, <1>5, <1>6 DEF IndInv

\* A request of exit can close it as well.
LEMMA ShutdownBackendKeeps ==
  ASSUME IndInv, NEW p \in Procs, ShutdownBackend(p)
  PROVE  IndInv'
<1>1. LaunchTypeOK'
  BY DEF IndInv, LaunchTypeOK, Phases, ShutdownBackend
<1>2. LockHeld'
  BY DEF IndInv, LockHeld, Serves, ShutdownBackend
<1>3. MutexHeld'
  BY DEF IndInv, MutexHeld, MainHolds, BootHolds, HandlerHolds, Alive, ShutdownBackend
<1>4. CoresLate'
  BY DEF IndInv, CoresLate, Alive, ShutdownBackend
<1>5. AttemptsLeft'
  BY DEF IndInv, AttemptsLeft, ShutdownBackend
<1>6. ServersKeepApart'
  BY DEF IndInv, ServersKeepApart, ExitLeavesNothing, RunningKeepsTakeover,
         ShutdownBackend
<1>7. QED
  BY <1>1, <1>2, <1>3, <1>4, <1>5, <1>6 DEF IndInv

\* A start tears down before it installs; after ShutdownCore it is late.
LEMMA StartBeginsKeeps ==
  ASSUME IndInv, NEW p \in Procs, NEW g \in {"boot", "handler"}, StartBegins(p, g),
         g = "boot" => boot[p] = "starting", g = "handler" => request[p] = "start"
  PROVE  IndInv'
<1>1. LaunchTypeOK'
  BY DEF IndInv, LaunchTypeOK, StartBegins, TakeMutex, TearDown, Replaced
<1>2. LockHeld'
  BY DEF IndInv, LockHeld, Serves, StartBegins
<1>3. MutexHeld'
  BY DEF IndInv, MutexHeld, MainHolds, BootHolds, HandlerHolds, Alive, StartBegins,
         TakeMutex
<1>4. CoresLate'
  BY DEF IndInv, CoresLate, Alive, StartBegins
<1>5. AttemptsLeft'
  BY DEF IndInv, AttemptsLeft, StartBegins
<1>6. ServersKeepApart'
  <2>1. ExitLeavesNothing'
    BY LauncherBounds
    DEF IndInv, ServersKeepApart, ExitLeavesNothing, StartBegins, TearDown
  <2>2. ASSUME NEW q \in core PROVE q \in lost' \cup late' \/ owner' = q
    <3>1. CASE p \in core
      BY <3>1 DEF StartBegins, IndInv, ServersKeepApart, RunningKeepsTakeover
    <3>2. CASE p \notin core
      BY <3>2, ReplacingIsExcused DEF StartBegins, TakeMutex, TearDown
    <3>3. QED
      BY <3>1, <3>2
  <2>3. core' = core
    BY DEF StartBegins
  <2>4. QED
    BY <2>1, <2>2, <2>3 DEF ServersKeepApart, RunningKeepsTakeover
<1>7. QED
  BY <1>1, <1>2, <1>3, <1>4, <1>5, <1>6 DEF IndInv

\* The boot restore installs its own takeover, or nothing.
LEMMA BootStartEndsKeeps ==
  ASSUME IndInv, NEW p \in Procs, BootStartEnds(p)
  PROVE  IndInv'
<1>1. LaunchTypeOK'
  <2>1. boot' \in [Procs -> {"none", "probing", "ready", "starting", "waiting"}]
    BY DEF BootStartEnds, AfterFailedStart, IndInv, LaunchTypeOK
  <2>2. core' \subseteq Procs /\ owner' \in Procs \cup {Nobody} /\ intent' \in BOOLEAN
    BY DEF BootStartEnds, Started, IndInv, LaunchTypeOK
  <2>3. lost' \subseteq Procs
    BY DEF BootStartEnds, Started, Replaced, IndInv, LaunchTypeOK
  <2>4. mutex' \in [Procs -> {"free", "boot", "handler", "main"}]
    BY DEF BootStartEnds, IndInv, LaunchTypeOK
  <2>5. attempts' \in [Procs -> 0 .. MaxAttempts]
    BY LauncherBounds DEF BootStartEnds, IndInv, LaunchTypeOK
  <2>6. QED
    BY <2>1, <2>2, <2>3, <2>4, <2>5 DEF BootStartEnds, IndInv, LaunchTypeOK
<1>2. LockHeld'
  BY DEF IndInv, LockHeld, Serves, BootStartEnds
<1>3. MutexHeld'
  BY DEF IndInv, LaunchTypeOK, MutexHeld, MainHolds, BootHolds, HandlerHolds, Alive,
         BootStartEnds, Started
<1>4. CoresLate'
  BY DEF IndInv, MutexHeld, BootHolds, CoresLate, Alive, BootStartEnds, Started
<1>5. AttemptsLeft'
  BY LauncherBounds
  DEF IndInv, LaunchTypeOK, AttemptsLeft, BootStartEnds, AfterFailedStart
<1>6. ServersKeepApart'
  <2>1. ExitLeavesNothing'
    BY DEF IndInv, ServersKeepApart, ExitLeavesNothing, MutexHeld, BootHolds,
           BootStartEnds, Started
  <2>2. ASSUME NEW q \in core, q # p PROVE q \in lost' \cup late' \/ owner' = q
    BY <2>2, ReplacingIsExcused
    DEF IndInv, ServersKeepApart, RunningKeepsTakeover, BootStartEnds, Started
  <2>3. p \in core' => p \in lost' \cup late' \/ owner' = p
    BY DEF IndInv, ServersKeepApart, RunningKeepsTakeover, BootStartEnds, Started
  <2>4. core' \subseteq core \cup {p}
    BY DEF BootStartEnds, Started
  <2>5. QED
    BY <2>1, <2>2, <2>3, <2>4 DEF ServersKeepApart, RunningKeepsTakeover
<1>7. QED
  BY <1>1, <1>2, <1>3, <1>4, <1>5, <1>6 DEF IndInv

\* A stop takes the core out first.
LEMMA HandlerStopKeeps ==
  ASSUME IndInv, NEW p \in Procs, HandlerStop(p)
  PROVE  IndInv'
<1>1. LaunchTypeOK'
  BY DEF IndInv, LaunchTypeOK, HandlerStop, TakeMutex
<1>2. LockHeld'
  BY DEF IndInv, LockHeld, Serves, HandlerStop
<1>3. MutexHeld'
  BY DEF IndInv, MutexHeld, MainHolds, BootHolds, HandlerHolds, Alive, HandlerStop,
         TakeMutex
<1>4. CoresLate'
  BY DEF IndInv, CoresLate, Alive, HandlerStop
<1>5. AttemptsLeft'
  BY DEF IndInv, AttemptsLeft, HandlerStop
<1>6. ServersKeepApart'
  BY DEF IndInv, ServersKeepApart, ExitLeavesNothing, RunningKeepsTakeover, HandlerStop
<1>7. QED
  BY <1>1, <1>2, <1>3, <1>4, <1>5, <1>6 DEF IndInv

\* A request installs, or tears down what is no core of its process any more.
LEMMA HandlerEndsKeeps ==
  ASSUME IndInv, NEW p \in Procs, HandlerEnds(p)
  PROVE  IndInv'
<1>1. LaunchTypeOK'
  <2>1. request' \in [Procs -> {"none", "start", "stop", "exit", "residue", "shutdown"}]
    BY DEF HandlerEnds, IndInv, LaunchTypeOK
  <2>2. core' \subseteq Procs /\ owner' \in Procs \cup {Nobody} /\ intent' \in BOOLEAN
    BY DEF HandlerEnds, Started, TearDown, IndInv, LaunchTypeOK
  <2>3. lost' \subseteq Procs
    BY DEF HandlerEnds, Started, TearDown, Replaced, IndInv, LaunchTypeOK
  <2>4. mutex' \in [Procs -> {"free", "boot", "handler", "main"}]
    BY DEF HandlerEnds, IndInv, LaunchTypeOK
  <2>5. QED
    BY <2>1, <2>2, <2>3, <2>4 DEF HandlerEnds, IndInv, LaunchTypeOK
<1>2. LockHeld'
  BY DEF IndInv, LockHeld, Serves, HandlerEnds
<1>3. MutexHeld'
  BY DEF IndInv, LaunchTypeOK, MutexHeld, MainHolds, BootHolds, HandlerHolds, Alive,
         HandlerEnds, Started
<1>4. CoresLate'
  BY DEF IndInv, MutexHeld, HandlerHolds, CoresLate, Alive, HandlerEnds, Started
<1>5. AttemptsLeft'
  BY DEF IndInv, AttemptsLeft, HandlerEnds
<1>6. ServersKeepApart'
  <2>1. ExitLeavesNothing'
    BY LauncherBounds
    DEF IndInv, ServersKeepApart, ExitLeavesNothing, MutexHeld, HandlerHolds,
        HandlerEnds, Started, TearDown
  <2>2. ASSUME NEW q \in core, q # p PROVE q \in lost' \cup late' \/ owner' = q
    BY <2>2, ReplacingIsExcused
    DEF IndInv, ServersKeepApart, RunningKeepsTakeover, HandlerEnds, Started, TearDown
  <2>3. p \in core' => p \in lost' \cup late' \/ owner' = p
    BY DEF IndInv, ServersKeepApart, RunningKeepsTakeover, MutexHeld, HandlerHolds,
           HandlerEnds, Started
  <2>4. core' \subseteq core \cup {p}
    BY DEF HandlerEnds, Started, TearDown
  <2>5. QED
    BY <2>1, <2>2, <2>3, <2>4 DEF ServersKeepApart, RunningKeepsTakeover
<1>7. QED
  BY <1>1, <1>2, <1>3, <1>4, <1>5, <1>6 DEF IndInv

\* The clean-up without the mutex is excused by lost.
LEMMA CleanupTunResidueKeeps ==
  ASSUME IndInv, NEW p \in Procs, CleanupTunResidue(p)
  PROVE  IndInv'
<1>1. LaunchTypeOK'
  BY DEF IndInv, LaunchTypeOK, CleanupTunResidue, TearDown, Replaced
<1>2. LockHeld'
  BY DEF IndInv, LockHeld, Serves, CleanupTunResidue
<1>3. MutexHeld'
  BY DEF IndInv, MutexHeld, MainHolds, BootHolds, HandlerHolds, Alive, CleanupTunResidue
<1>4. CoresLate'
  BY DEF IndInv, CoresLate, Alive, CleanupTunResidue
<1>5. AttemptsLeft'
  BY DEF IndInv, AttemptsLeft, CleanupTunResidue
<1>6. ServersKeepApart'
  <2>1. ExitLeavesNothing'
    BY LauncherBounds DEF ExitLeavesNothing, CleanupTunResidue, TearDown
  <2>2. ASSUME NEW q \in core PROVE q \in lost' \cup late'
    BY DEF IndInv, ServersKeepApart, RunningKeepsTakeover, Replaced, CleanupTunResidue,
           TearDown
  <2>3. core' = core
    BY DEF CleanupTunResidue
  <2>4. QED
    BY <2>1, <2>2, <2>3 DEF ServersKeepApart, RunningKeepsTakeover
<1>7. QED
  BY <1>1, <1>2, <1>3, <1>4, <1>5, <1>6 DEF IndInv

\* ShutdownCore takes the core out.
LEMMA ShutdownCoreKeeps ==
  ASSUME IndInv, NEW p \in Procs, ShutdownCore(p)
  PROVE  IndInv'
<1>1. LaunchTypeOK'
  BY DEF IndInv, LaunchTypeOK, ShutdownCore, TakeMutex
<1>2. LockHeld'
  BY DEF IndInv, LockHeld, Serves, ShutdownCore
<1>3. MutexHeld'
  BY DEF IndInv, MutexHeld, MainHolds, BootHolds, HandlerHolds, Alive, ShutdownCore,
         TakeMutex
<1>4. CoresLate'
  BY DEF IndInv, CoresLate, Alive, ShutdownCore
<1>5. AttemptsLeft'
  BY DEF IndInv, AttemptsLeft, ShutdownCore
<1>6. ServersKeepApart'
  BY DEF IndInv, ServersKeepApart, ExitLeavesNothing, RunningKeepsTakeover, ShutdownCore
<1>7. QED
  BY <1>1, <1>2, <1>3, <1>4, <1>5, <1>6 DEF IndInv

\* The teardown of ShutdownCore is under the file lock.
LEMMA RunServerReturnsKeeps ==
  ASSUME IndInv, NEW p \in Procs, RunServerReturns(p)
  PROVE  IndInv'
<1>1. LaunchTypeOK'
  BY DEF IndInv, LaunchTypeOK, Phases, RunServerReturns, TearDown, Replaced
<1>2. LockHeld'
  BY DEF IndInv, LaunchTypeOK, LockHeld, MutexHeld, MainHolds, Serves, RunServerReturns
<1>3. MutexHeld'
  BY DEF IndInv, LaunchTypeOK, MutexHeld, MainHolds, BootHolds, HandlerHolds, Alive,
         RunServerReturns
<1>4. CoresLate'
  BY DEF IndInv, MutexHeld, MainHolds, CoresLate, Alive, RunServerReturns
<1>5. AttemptsLeft'
  BY DEF IndInv, AttemptsLeft, RunServerReturns
<1>6. ServersKeepApart'
  <2>1. ExitLeavesNothing'
    BY LauncherBounds DEF ExitLeavesNothing, RunServerReturns, TearDown
  <2>2. ASSUME NEW q \in core PROVE q \in lost' \cup late'
    BY ReplacingIsExcused DEF IndInv, MutexHeld, MainHolds, RunServerReturns, TearDown
  <2>3. core' = core
    BY DEF RunServerReturns
  <2>4. QED
    BY <2>1, <2>2, <2>3 DEF ServersKeepApart, RunningKeepsTakeover
<1>7. QED
  BY <1>1, <1>2, <1>3, <1>4, <1>5, <1>6 DEF IndInv

\* A process that ends takes its core and its lock with it.
LEMMA EndsKeeps ==
  ASSUME IndInv, NEW p \in Procs, Ends(p)
  PROVE  IndInv'
<1>1. LaunchTypeOK'
  <2>1. attempts' \in [Procs -> 0 .. MaxAttempts]
    BY LauncherBounds DEF IndInv, LaunchTypeOK, Ends
  <2>2. QED
    BY <2>1 DEF IndInv, LaunchTypeOK, Phases, Ends
<1>2. LockHeld'
  BY DEF IndInv, LaunchTypeOK, LockHeld, Serves, Ends
<1>3. MutexHeld'
  BY DEF IndInv, LaunchTypeOK, MutexHeld, MainHolds, BootHolds, HandlerHolds, Alive,
         Ends
<1>4. CoresLate'
  BY DEF IndInv, CoresLate, Alive, Ends
<1>5. AttemptsLeft'
  BY DEF IndInv, LaunchTypeOK, AttemptsLeft, Ends
<1>6. ServersKeepApart'
  BY DEF IndInv, LaunchTypeOK, ServersKeepApart, ExitLeavesNothing, RunningKeepsTakeover,
         Ends
<1>7. QED
  BY <1>1, <1>2, <1>3, <1>4, <1>5, <1>6 DEF IndInv

-----------------------------------------------------------------------------
\* The inductive invariant, for every set of processes.
THEOREM LaunchInvariant == LaunchSpec => []IndInv
<1>1. LaunchInit => IndInv
  BY LauncherBounds
  DEF LaunchInit, IndInv, LaunchTypeOK, Phases, LockHeld, Serves, MutexHeld, MainHolds,
      BootHolds, HandlerHolds, CoresLate, AttemptsLeft, ServersKeepApart,
      ExitLeavesNothing, RunningKeepsTakeover
<1>2. IndInv /\ [LaunchNext]_launchVars => IndInv'
  <2> SUFFICES ASSUME IndInv, [LaunchNext]_launchVars PROVE IndInv'
    OBVIOUS
  <2>1. CASE UNCHANGED launchVars
    BY <2>1
    DEF launchVars, IndInv, LaunchTypeOK, LockHeld, Serves, MutexHeld, MainHolds,
        BootHolds, HandlerHolds, CoresLate, Alive, AttemptsLeft, ServersKeepApart,
        ExitLeavesNothing, RunningKeepsTakeover
  <2>2. CASE LaunchNext
    <3> PICK p \in Procs :
          \/ RunServer(p) \/ BootNetworkReady(p) \/ BootAttempt(p) \/ BootRetry(p)
          \/ BootStart(p) \/ BootStartEnds(p)
          \/ \E what \in {"start", "stop", "exit"} : LaunchRequest(p, what)
          \/ HandlerStart(p) \/ HandlerStop(p) \/ HandlerEnds(p)
          \/ CleanupTunResidue(p) \/ ShutdownBackend(p)
          \/ Signal(p) \/ RunReturns(p) \/ ShutdownCore(p) \/ RunServerReturns(p)
          \/ ProcessExit(p) \/ Killed(p)
      BY <2>2 DEF LaunchNext
    <3>1. CASE BootStart(p)
      BY <3>1, StartBeginsKeeps DEF BootStart
    <3>2. CASE HandlerStart(p)
      BY <3>2, StartBeginsKeeps DEF HandlerStart
    <3>3. CASE ProcessExit(p) \/ Killed(p)
      BY <3>3, EndsKeeps DEF ProcessExit, Killed
    <3>4. CASE \E what \in {"start", "stop", "exit"} : LaunchRequest(p, what)
      BY <3>4, LaunchRequestKeeps
    <3>5. CASE RunServer(p) \/ BootNetworkReady(p) \/ BootAttempt(p) \/ BootRetry(p)
      BY <3>5, RunServerKeeps, BootNetworkReadyKeeps, BootAttemptKeeps, BootRetryKeeps
    <3>6. CASE BootStartEnds(p) \/ HandlerStop(p) \/ HandlerEnds(p)
      BY <3>6, BootStartEndsKeeps, HandlerStopKeeps, HandlerEndsKeeps
    <3>7. CASE CleanupTunResidue(p) \/ ShutdownBackend(p) \/ Signal(p) \/ RunReturns(p)
      BY <3>7, CleanupTunResidueKeeps, ShutdownBackendKeeps, SignalKeeps,
         RunReturnsKeeps
    <3>8. CASE ShutdownCore(p) \/ RunServerReturns(p)
      BY <3>8, ShutdownCoreKeeps, RunServerReturnsKeeps
    <3>9. QED
      BY <3>1, <3>2, <3>3, <3>4, <3>5, <3>6, <3>7, <3>8
  <2>3. QED
    BY <2>1, <2>2
<1>3. QED
  BY <1>1, <1>2, PTL DEF LaunchSpec

\* No process that has returned leaves a takeover behind unless a start began
\* after its ShutdownCore, and no running core loses its own to another
\* process but to a clean-up without the mutex or such a late start.
THEOREM ProcessesKeepApart == LaunchSpec => []ServersKeepApart
BY LaunchInvariant, PTL DEF IndInv

\* Two processes never serve one data directory at a time
\* (AcquireInstanceLock), from the first request to the end of ShutdownCore.
THEOREM OneServer ==
  LaunchSpec => [](\A p, q \in Procs : Serves(p) /\ Serves(q) => p = q)
<1>1. IndInv => \A p, q \in Procs : Serves(p) /\ Serves(q) => p = q
  BY DEF IndInv, LockHeld
<1>2. QED
  BY <1>1, LaunchInvariant, PTL
-----------------------------------------------------------------------------
(* RoutingRules.                                                           *)

\* The rules that are built, the closing one apart: no condition on networks,
\* and none on both names and addresses.
BodyRules ==
  {r \in [tags : SUBSET {"api", "http", "socks"}, nets : {{}}, protos : SUBSET Protocols,
          ports : SUBSET Ports, names : SUBSET NamePatterns, addrs : SUBSET AddrPatterns,
          out : {"api", "proxy", "direct", "block"}] : r.names = {} \/ r.addrs = {}}

Body(rc, forced, assets) ==
  << [Always("api") EXCEPT !.tags = {"api"}] >>
  \o (IF rc.bypass THEN LocalBypass ELSE <<>>)
  \o (IF forced THEN << [Always("proxy") EXCEPT !.tags = {"http", "socks"}] >> ELSE <<>>)
  \o (IF rc.mode = "bypass_cn" THEN BypassCn(assets) ELSE <<>>)
  \o UserPart(rc.rules, assets)

\* One condition added to a rule that has none.
LEMMA OneCondition ==
  ASSUME NEW out \in {"api", "proxy", "direct", "block"}
  PROVE  /\ Always(out) \in BodyRules
         /\ \A s \in SUBSET {"api", "http", "socks"} : [Always(out) EXCEPT !.tags = s] \in BodyRules
         /\ \A s \in SUBSET Protocols : [Always(out) EXCEPT !.protos = s] \in BodyRules
         /\ \A s \in SUBSET Ports : [Always(out) EXCEPT !.ports = s] \in BodyRules
         /\ \A s \in SUBSET NamePatterns : [Always(out) EXCEPT !.names = s] \in BodyRules
         /\ \A s \in SUBSET AddrPatterns : [Always(out) EXCEPT !.addrs = s] \in BodyRules
<1>1. Always(out) \in BodyRules
  BY DEF Always, BodyRules
<1>2. ASSUME NEW s \in SUBSET {"api", "http", "socks"}
      PROVE  [Always(out) EXCEPT !.tags = s] \in BodyRules
  BY DEF Always, BodyRules
<1>3. ASSUME NEW s \in SUBSET Protocols PROVE [Always(out) EXCEPT !.protos = s] \in BodyRules
  BY DEF Always, BodyRules
<1>4. ASSUME NEW s \in SUBSET Ports PROVE [Always(out) EXCEPT !.ports = s] \in BodyRules
  BY DEF Always, BodyRules
<1>5. ASSUME NEW s \in SUBSET NamePatterns PROVE [Always(out) EXCEPT !.names = s] \in BodyRules
  BY DEF Always, BodyRules
<1>6. ASSUME NEW s \in SUBSET AddrPatterns PROVE [Always(out) EXCEPT !.addrs = s] \in BodyRules
  BY DEF Always, BodyRules
<1>7. QED
  BY <1>1, <1>2, <1>3, <1>4, <1>5, <1>6

LEMMA UserPartFits ==
  ASSUME NEW list \in CustomRules, NEW assets
  PROVE  UserPart(list, assets) \in Seq(BodyRules)
<1> DEFINE E == {i \in DOMAIN list : Usable(list[i], assets)}
           usable == Picked(list, E)
<1>1. list \in Seq(UserRules)
  BY RoutingValues
<1>2. usable \in Seq(UserRules)
  BY <1>1, PickedIs
<1> HIDE DEF usable
<1>3. ASSUME NEW rule \in UserRules PROVE Custom(rule) \in BodyRules
  <2>1. rule.out \in {"api", "proxy", "direct", "block"}
    BY DEF UserRules
  <2>2. CASE rule.type \in {"domain", "geosite"} /\ rule.values \in SUBSET NamePatterns
    BY <2>1, <2>2, OneCondition DEF Custom
  <2>3. CASE rule.type \in {"ip", "geoip"} /\ rule.values \in SUBSET AddrPatterns
    BY <2>1, <2>3, OneCondition DEF Custom
  <2>4. CASE rule.type = "port" /\ rule.values \in SUBSET Ports
    BY <2>1, <2>4, OneCondition DEF Custom
  <2>5. CASE rule.type = "protocol" /\ rule.values \in SUBSET Protocols
    BY <2>1, <2>5, OneCondition DEF Custom
  <2>6. QED
    BY <2>2, <2>3, <2>4, <2>5 DEF UserRules
<1>4. [i \in DOMAIN usable |-> Custom(usable[i])] \in Seq(BodyRules)
  BY <1>2, <1>3
<1>5. QED
  BY <1>4 DEF UserPart, usable

LEMMA BodyFits ==
  ASSUME NEW rc \in RoutingConfigs, NEW forced \in BOOLEAN, NEW assets
  PROVE  Body(rc, forced, assets) \in Seq(BodyRules)
<1>1. << [Always("api") EXCEPT !.tags = {"api"}] >> \in Seq(BodyRules)
  BY DEF Always, BodyRules
<1>2. (IF rc.bypass THEN LocalBypass ELSE <<>>) \in Seq(BodyRules)
  <2> DEFINE p == [kind |-> "full", names |-> {Localhost}, under |-> {Localhost}]
  <2>1. {p} \in SUBSET NamePatterns /\ {Net({Loopback})} \in SUBSET AddrPatterns
    BY RoutingValues DEF NamePatterns, AddrPatterns
  <2> HIDE DEF p
  <2>2. /\ [Always("direct") EXCEPT !.names = {p}] \in BodyRules
        /\ [Always("direct") EXCEPT !.addrs = {Net({Loopback})}] \in BodyRules
    BY <2>1, OneCondition
  <2>3. QED
    BY <2>2 DEF LocalBypass, p
<1>3. (IF forced THEN << [Always("proxy") EXCEPT !.tags = {"http", "socks"}] >> ELSE <<>>)
        \in Seq(BodyRules)
  <2>1. [Always("proxy") EXCEPT !.tags = {"http", "socks"}] \in BodyRules
    BY OneCondition
  <2>2. QED
    BY <2>1
<1>4. (IF rc.mode = "bypass_cn" THEN BypassCn(assets) ELSE <<>>) \in Seq(BodyRules)
  <2> DEFINE Bypassed(code, addrs) ==
               [Always("direct") EXCEPT !.addrs =
                  {IF "geoip" \in assets THEN Listed(code) ELSE Net(addrs)}]
  <2>1. << Bypassed("private", Private), Bypassed("cn", BuiltinCn) >> \in Seq(BodyRules)
    <3>1. ASSUME NEW code \in Codes, NEW addrs \in SUBSET Addrs
          PROVE  Bypassed(code, addrs) \in BodyRules
      <4>1. {IF "geoip" \in assets THEN Listed(code) ELSE Net(addrs)} \in SUBSET AddrPatterns
        BY DEF AddrPatterns
      <4>2. QED
        BY <4>1, OneCondition
    <3> HIDE DEF Bypassed
    <3>2. Bypassed("private", Private) \in BodyRules /\ Bypassed("cn", BuiltinCn) \in BodyRules
      BY <3>1, RoutingValues
    <3>3. QED
      BY <3>2
  <2>2. (IF "geosite" \in assets THEN << [Always("direct") EXCEPT !.names = {GeositeCn}] >>
                                 ELSE <<>>) \in Seq(BodyRules)
    <3>1. {GeositeCn} \in SUBSET NamePatterns
      BY RoutingValues DEF GeositeCn, NamePatterns
    <3>2. [Always("direct") EXCEPT !.names = {GeositeCn}] \in BodyRules
      BY <3>1, OneCondition
    <3>3. QED
      BY <3>2
  <2>3. QED
    BY <2>1, <2>2, ConcatIs DEF BypassCn, Joined
<1>5. UserPart(rc.rules, assets) \in Seq(BodyRules)
  BY UserPartFits DEF RoutingConfigs
<1>6. QED
  BY <1>1, <1>2, <1>3, <1>4, <1>5, ConcatIs DEF Body, Joined

\* For the rules that are built and read alike, the test's conditions are the
\* router's: at once, and for a name whose addresses are looked at later.
LEMMA RuleMatch ==
  ASSUME NEW r \in BodyRules, NEW q \in Queries, ReadAlike(r, q), NEW strategy \in Strategies
  PROVE  /\ MatchRoutingRule(r, q, strategy) <=> Applies(r, q, strategy = "ipondemand")
         /\ strategy = "ipifnonmatch" /\ ~Applies(r, q, FALSE) =>
              (Applies(r, q, TRUE) <=> Deferred(r, q, strategy) /\ MatchResolved(r, q))
<1>1. OneText(q.port, r.ports) <=> Among(q.port, r.ports)
  <2>1. IsFiniteSet(r.ports)
    BY RoutingValues, FS_Subset DEF BodyRules
  <2>2. q.port \in r.ports => \E x : r.ports = {x}
    BY <2>1, FS_Singleton DEF ReadAlike
  <2>3. QED
    BY <2>2 DEF OneText, Among
<1>2. r.nets = {} /\ r.names \subseteq NamePatterns /\ (r.names = {} \/ r.addrs = {})
  BY DEF BodyRules
<1>3. Conditions(r, q) <=> /\ Among(q.tag, r.tags) /\ Among(Network(q), r.nets)
                           /\ Among(q.proto, r.protos) /\ Among(q.port, r.ports)
  BY <1>1, <1>2 DEF Conditions, OneText, Among
<1>4. (q.target \in Names \/ q.target \in Addrs) /\ ~(q.target \in Names /\ q.target \in Addrs)
  BY RoutingValues DEF Queries
<1>5. /\ \A p \in r.names : CoreName(q.target, p) <=> TestName(q.target, p)
      /\ \A p \in r.addrs, a \in KnownAddrs(q, TRUE) : CoreAddr(a, p) <=> TestAddr(a, p)
  BY DEF ReadAlike
<1> DEFINE named == r.names # {} => \E p \in r.names : CoreName(q.target, p)
<1>6. named <=> RuleMatchesDomain(r, q)
  BY <1>5 DEF RuleMatchesDomain
<1> DEFINE Found(known) == \E p \in r.addrs, a \in known : CoreAddr(a, p)
<1>7. Found(KnownAddrs(q, TRUE)) <=> RuleMatchesIP(r, KnownAddrs(q, TRUE))
  BY <1>5 DEF RuleMatchesIP
<1>8. ~Found({})
  OBVIOUS
<1>9. \A resolved \in BOOLEAN :
        Applies(r, q, resolved) <=>
          Conditions(r, q) /\ named /\ (r.addrs # {} => Found(KnownAddrs(q, resolved)))
  BY <1>3 DEF Applies
<1>10. CASE q.target \in Addrs
  <2>1. KnownAddrs(q, TRUE) = {q.target} /\ KnownAddrs(q, FALSE) = {q.target}
    BY <1>10 DEF KnownAddrs
  <2>2. named <=> r.names = {}
    <3>1. \A p \in r.names : q.target \notin p.names
      BY <1>2, <1>4, <1>10 DEF NamePatterns
    <3>2. QED
      BY <3>1 DEF CoreName
  <2> HIDE DEF named, Found
  <2>3. ~Deferred(r, q, strategy)
    BY <1>4, <1>10 DEF Deferred
  <2>4. \A resolved \in BOOLEAN : Applies(r, q, resolved) <=> MatchRoutingRule(r, q, strategy)
    BY <1>7, <1>9, <1>10, <2>1, <2>2 DEF MatchRoutingRule
  <2>5. QED
    BY <2>3, <2>4
<1>11. CASE q.target \in Names
  <2>1. KnownAddrs(q, TRUE) = Resolve[q.target] /\ KnownAddrs(q, FALSE) = {}
    BY <1>4, <1>11 DEF KnownAddrs
  <2>2. r.addrs # {} => named
    BY <1>2
  <2> HIDE DEF named, Found
  <2>3. Applies(r, q, FALSE) <=> Conditions(r, q) /\ named /\ r.addrs = {}
    BY <1>8, <1>9, <2>1
  <2>4. Applies(r, q, TRUE) <=> /\ Conditions(r, q) /\ named
                                /\ r.addrs # {} => RuleMatchesIP(r, Resolve[q.target])
    BY <1>7, <1>9, <2>1
  <2>5. MatchRoutingRule(r, q, strategy) <=> Applies(r, q, strategy = "ipondemand")
    BY <1>4, <1>6, <1>11, <2>3, <2>4 DEF MatchRoutingRule
  <2>6. r.addrs # {} => r.names = {}
    BY <1>2
  <2>7. QED
    BY <1>11, <2>2, <2>3, <2>4, <2>5, <2>6 DEF Deferred, MatchResolved
<1>12. QED
  BY <1>4, <1>10, <1>11

\* Where the first match is, of two tests.
LEMMA FirstMatch ==
  ASSUME NEW S, NEW rules \in Seq(S), NEW E \in SUBSET DOMAIN rules, E # {}
  PROVE  /\ Min(E) \in E /\ (\A i \in E : Min(E) <= i)
         /\ rules[Min(E)] \in S
<1>1. DOMAIN rules = 1 .. Len(rules) /\ Len(rules) \in Nat
  OBVIOUS
<1>2. E \subseteq Nat
  BY <1>1
<1>3. Min(E) \in E /\ \A i \in E : Min(E) <= i
  BY <1>2, MinOf
<1>4. QED
  BY <1>3

\* Rules without a closing one: the second pass of the router is the test's look
\* at the deferred rules.
LEMMA SameWithoutClosing ==
  ASSUME NEW rc \in RoutingConfigs, rc.mode # "direct",
         NEW rules \in Seq(BodyRules), NEW q \in Queries,
         \A i \in DOMAIN rules : ReadAlike(rules[i], q)
  PROVE  TestRouting(rc, rules, q) = CoreRoute([strategy |-> rc.strategy, rules |-> rules], q)
<1> DEFINE first == {i \in DOMAIN rules : Applies(rules[i], q, rc.strategy = "ipondemand")}
           second == {i \in DOMAIN rules : Applies(rules[i], q, TRUE)}
           match == {i \in DOMAIN rules : MatchRoutingRule(rules[i], q, rc.strategy)}
           later == {i \in DOMAIN rules :
                      Deferred(rules[i], q, rc.strategy) /\ MatchResolved(rules[i], q)}
           Out(E) == IF E = {} THEN "none" ELSE rules[Min(E)].out
<1>1. rc.strategy \in Strategies
  BY DEF RoutingConfigs
<1>2. \A i \in DOMAIN rules : rules[i] \in BodyRules /\ ReadAlike(rules[i], q)
  OBVIOUS
<1>3. match = first
  BY <1>1, <1>2, RuleMatch
<1>4. ASSUME first = {}, rc.strategy = "ipifnonmatch" PROVE later = second
  <2>1. \A i \in DOMAIN rules : ~Applies(rules[i], q, FALSE)
    BY <1>4
  <2>2. QED
    BY <1>1, <1>2, <1>4, <2>1, RuleMatch
<1>5. rc.strategy # "ipifnonmatch" => later = {}
  BY DEF Deferred
<1>6. ASSUME NEW E \in SUBSET DOMAIN rules, E # {} PROVE Out(E) # "none"
  <2>1. rules[Min(E)] \in BodyRules
    BY <1>6, FirstMatch
  <2>2. QED
    BY <1>6, <2>1 DEF BodyRules
<1>7. TestRouting(rc, rules, q) =
        IF Out(match) # "none" THEN Out(match) ELSE
        IF Out(later) # "none" THEN Out(later) ELSE "proxy"
  BY DEF TestRouting, FirstOf
<1>8. CoreRoute([strategy |-> rc.strategy, rules |-> rules], q) =
        IF Out(first) # "none" THEN Out(first) ELSE
        IF rc.strategy = "ipifnonmatch" /\ Out(second) # "none" THEN Out(second) ELSE "proxy"
  BY DEF CoreRoute, FirstOf
<1> HIDE DEF match, later, second
<1>9. CASE first = {}
  BY <1>3, <1>4, <1>5, <1>7, <1>8, <1>9
<1>10. CASE first # {}
  BY <1>3, <1>6, <1>7, <1>8, <1>10
<1>11. QED
  BY <1>9, <1>10

\* With the closing rule of mode direct, which the router takes for everything
\* left and the test does not: what it is there for is the test's default.
LEMMA SameWithClosing ==
  ASSUME NEW rc \in RoutingConfigs, rc.mode = "direct",
         NEW body \in Seq(BodyRules), NEW q \in Queries,
         rc.strategy = "ipifnonmatch" => q.target \notin Names,
         \A i \in DOMAIN (body \o Closing("direct")) :
           ReadAlike((body \o Closing("direct"))[i], q)
  PROVE  TestRouting(rc, body \o Closing("direct"), q) =
           CoreRoute([strategy |-> rc.strategy, rules |-> body \o Closing("direct")], q)
<1> DEFINE last == [Always("direct") EXCEPT !.nets = {"tcp", "udp"}]
           rules == body \o Closing("direct")
           n == Len(body) + 1
           first == {i \in DOMAIN rules : Applies(rules[i], q, rc.strategy = "ipondemand")}
           match == {i \in DOMAIN rules : MatchRoutingRule(rules[i], q, rc.strategy)}
           later == {i \in DOMAIN rules :
                      Deferred(rules[i], q, rc.strategy) /\ MatchResolved(rules[i], q)}
           Out(E) == IF E = {} THEN "none" ELSE rules[Min(E)].out
<1>0. rc.strategy \in Strategies
  BY DEF RoutingConfigs
<1>1. /\ last.nets = {"tcp", "udp"} /\ last.out = "direct" /\ last.tags = {} /\ last.protos = {}
      /\ last.ports = {} /\ last.names = {} /\ last.addrs = {}
  BY DEF Always
<1> HIDE DEF last
<1>2. Closing("direct") = <<last>>
  BY DEF Closing, last
<1>3. /\ rules \in Seq(BodyRules \cup {last}) /\ DOMAIN rules = 1 .. n /\ n \in Nat \ {0}
      /\ rules[n] = last /\ \A i \in 1 .. n : i # n => rules[i] \in BodyRules
  <2>1. body \in Seq(BodyRules \cup {last}) /\ <<last>> \in Seq(BodyRules \cup {last})
    OBVIOUS
  <2>2. Len(body) \in Nat /\ \A i \in 1 .. Len(body) : body[i] \in BodyRules
    OBVIOUS
  <2>3. Len(<<last>>) = 1 /\ <<last>>[1] = last
    OBVIOUS
  <2> DEFINE tail == <<last>>
  <2>4. tail \in Seq(BodyRules \cup {last}) /\ Len(tail) = 1 /\ tail[1] = last
           /\ rules = body \o tail
    BY <1>2, <2>1, <2>3
  <2> HIDE DEF tail
  <2>5. /\ rules \in Seq(BodyRules \cup {last}) /\ Len(rules) = Len(body) + 1
        /\ \A k \in 1 .. Len(body) + 1 :
             rules[k] = IF k <= Len(body) THEN body[k] ELSE tail[k - Len(body)]
    <3> HIDE DEF rules
    <3>1. /\ body \o tail \in Seq(BodyRules \cup {last})
          /\ Len(body \o tail) = Len(body) + Len(tail)
          /\ \A k \in 1 .. Len(body) + Len(tail) :
               (body \o tail)[k] = IF k <= Len(body) THEN body[k] ELSE tail[k - Len(body)]
      <4>1. Joined(BodyRules \cup {last}, body, tail, body \o tail)
        BY <2>1, <2>4, ConcatIs
      <4>2. QED
        BY <4>1 DEF Joined
    <3>2. QED
      BY <2>4, <3>1
  <2>6. DOMAIN rules = 1 .. n
    BY <2>5
  <2>7. rules[n] = last
    BY <2>4, <2>2, <2>5
  <2>8. \A i \in 1 .. n : i # n => i <= Len(body) /\ i \in 1 .. Len(body)
    BY <2>2
  <2>9. QED
    BY <2>2, <2>5, <2>6, <2>7, <2>8
<1>4. \A i \in DOMAIN rules : ReadAlike(rules[i], q)
  OBVIOUS
<1>5. TestRouting(rc, rules, q) =
        IF Out(match) # "none" THEN Out(match) ELSE
        IF Out(later) # "none" THEN Out(later) ELSE "direct"
  BY DEF TestRouting, FirstOf
<1>6. rc.strategy # "ipifnonmatch" \/ Out(first) # "none" =>
        CoreRoute([strategy |-> rc.strategy, rules |-> rules], q) =
          IF Out(first) # "none" THEN Out(first) ELSE "proxy"
  BY DEF CoreRoute, FirstOf
<1> HIDE DEF rules, n
<1>7. Applies(last, q, rc.strategy = "ipondemand") /\ ~MatchRoutingRule(last, q, rc.strategy)
  <2>1. Applies(last, q, rc.strategy = "ipondemand")
    BY <1>1 DEF Applies, Among, Network
  <2>2. last.nets # {q.proto} /\ last.nets # {}
    BY <1>1
  <2>3. QED
    BY <2>1, <2>2 DEF MatchRoutingRule, Conditions, OneText
<1>8. n \in first /\ n \notin match /\ \A i \in 1 .. n : i # n => (i \in first <=> i \in match)
  <2>1. \A i \in 1 .. n : i # n =>
          (MatchRoutingRule(rules[i], q, rc.strategy)
             <=> Applies(rules[i], q, rc.strategy = "ipondemand"))
    BY <1>0, <1>3, <1>4, RuleMatch
  <2>2. n \in 1 .. n
    BY <1>3
  <2>3. /\ \A i \in 1 .. n : i \in first <=> Applies(rules[i], q, rc.strategy = "ipondemand")
        /\ \A i \in 1 .. n : i \in match <=> MatchRoutingRule(rules[i], q, rc.strategy)
    BY <1>3
  <2> HIDE DEF first, match
  <2>4. QED
    BY <1>3, <1>7, <2>1, <2>2, <2>3
<1>9. later = {}
  BY <1>0 DEF Deferred
<1>10. first \subseteq DOMAIN rules /\ match \subseteq DOMAIN rules
  OBVIOUS
<1> HIDE DEF first, match, later
<1>11. first # {} /\ Min(first) \in first /\ \A i \in first : Min(first) <= i
  BY <1>3, <1>8, <1>10, FirstMatch
<1>12. CASE match = {}
  <2>1. Min(first) = n
    BY <1>3, <1>8, <1>10, <1>11, <1>12
  <2>2. Out(first) = "direct"
    BY <1>1, <1>3, <1>11, <2>1
  <2>3. Out(match) = "none" /\ Out(later) = "none"
    BY <1>9, <1>12
  <2>4. QED
    BY <1>5, <1>6, <2>2, <2>3 DEF rules
<1>13. CASE match # {}
  <2>1. Min(match) \in match /\ (\A i \in match : Min(match) <= i)
    BY <1>3, <1>10, <1>13, FirstMatch
  <2>2. Min(match) # n /\ Min(match) \in 1 .. n
    BY <1>3, <1>8, <1>10, <2>1
  <2>3. Min(first) = Min(match)
    <3>1. Min(first) <= Min(match)
      BY <1>8, <1>11, <2>1, <2>2
    <3>2. Min(match) \in Nat /\ Min(first) \in 1 .. n /\ Min(match) < n
      BY <1>3, <1>10, <1>11, <2>2
    <3>3. Min(first) # n
      BY <1>3, <3>1, <3>2
    <3>4. Min(match) <= Min(first)
      BY <1>8, <1>11, <2>1, <3>2, <3>3
    <3>5. QED
      BY <3>1, <3>2, <3>4
  <2>4. rules[Min(match)] \in BodyRules
    BY <1>3, <2>2
  <2>5. Out(match) = Out(first) /\ Out(match) # "none"
    BY <1>11, <1>13, <2>3, <2>4 DEF BodyRules
  <2>6. QED
    BY <1>5, <1>6, <2>5 DEF rules
<1>14. QED
  BY <1>12, <1>13

\* A running core has the rules of what is stored, unless its restart is still to
\* come or the assets changed under it.
RoutingInv ==
  /\ RoutingTypeOK
  /\ running /\ ~pending /\ ~drifted => installed = Built(geo)

THEOREM RoutingInvariant == RoutingSpec => []RoutingInv
<1> USE DEF RoutingTypeOK, Counts
<1>1. RoutingInit => RoutingInv
  <2> SUFFICES ASSUME RoutingInit PROVE RoutingInv
    OBVIOUS
  <2>1. routing \in RoutingConfigs
    BY RoutingValues DEF RoutingInit, RoutingConfigs, Modes, Strategies
  <2>2. updates \in [{"routing", "config", "geo"} -> 0 .. MaxRoutingUpdates]
    BY RoutingValues DEF RoutingInit
  <2>3. installed = Built(geo) /\ installed.strategy \in Strategies
    BY <2>1 DEF RoutingInit, Built, RoutingConfigs
  <2>4. QED
    BY <2>1, <2>2, <2>3 DEF RoutingInit, RoutingInv
<1>2. ASSUME RoutingInv, [RoutingNext]_routingVars PROVE RoutingInv'
  <2>1. CASE UNCHANGED routingVars
    BY <1>2, <2>1 DEF RoutingInv, routingVars, Built
  <2>2. \A rc : \A g \in Ensured(rc) : g \subseteq Assets
    BY <1>2 DEF RoutingInv, Ensured, Assets
  <2>3. ASSUME NEW rc \in RoutingConfigs, UpdateRoutingConfig(rc) PROVE RoutingInv'
    <3>1. updates' \in [{"routing", "config", "geo"} -> 0 .. MaxRoutingUpdates]
      BY <1>2, <2>3, RoutingValues DEF RoutingInv, UpdateRoutingConfig
    <3>2. QED
      BY <1>2, <2>2, <2>3, <3>1 DEF RoutingInv, UpdateRoutingConfig, Built
  <2>4. ASSUME NEW forced \in BOOLEAN, UpdateLocalProxyMode(forced) PROVE RoutingInv'
    <3>1. updates' \in [{"routing", "config", "geo"} -> 0 .. MaxRoutingUpdates]
      BY <1>2, <2>4, RoutingValues DEF RoutingInv, UpdateLocalProxyMode
    <3>2. QED
      BY <1>2, <2>4, <3>1 DEF RoutingInv, UpdateLocalProxyMode, Built
  <2>5. CASE UpdateRoutingGeoData
    <3>1. updates' \in [{"routing", "config", "geo"} -> 0 .. MaxRoutingUpdates]
      BY <1>2, <2>5, RoutingValues DEF RoutingInv, UpdateRoutingGeoData
    <3>2. QED
      BY <1>2, <2>5, <3>1 DEF RoutingInv, UpdateRoutingGeoData, Built, Assets
  <2>6. CASE StartCore
    BY <1>2, <2>2, <2>6 DEF RoutingInv, StartCore, Built, RoutingConfigs
  <2>7. CASE StopCore
    BY <1>2, <2>7 DEF RoutingInv, StopCore, Built
  <2>8. ASSUME NEW c \in Codes, LoadGeoIPMatcher(c) PROVE RoutingInv'
    <3>1. lists[c] \subseteq Addrs
      BY <1>2, RoutingValues DEF RoutingInv
    <3>2. DOMAIN cached' \subseteq Codes /\ \A d \in DOMAIN cached' : cached'[d] \subseteq Addrs
      BY <1>2, <2>8, <3>1 DEF RoutingInv, LoadGeoIPMatcher
    <3>3. QED
      BY <1>2, <2>8, <3>2 DEF RoutingInv, LoadGeoIPMatcher, Built
  <2>9. QED
    BY <1>2, <2>1, <2>3, <2>4, <2>5, <2>6, <2>7, <2>8 DEF RoutingNext
<1>3. QED
  BY <1>1, <1>2, PTL DEF RoutingSpec

\* The test predicts the core: for every target, inbound, protocol and port it
\* names the outbound that a running core uses where the two read the rules
\* alike, apart from the exceptions that TesterAgrees names, whatever rules the
\* user has, whatever geoip.dat said and says, and whatever was updated.
THEOREM TestPredictsCore == RoutingSpec => []TesterAgrees
<1>1. ASSUME RoutingInv, running, ~pending, ~drifted, NEW q \in Queries,
             \A i \in DOMAIN BuildRules(routing, force, geo) :
               ReadAlike(BuildRules(routing, force, geo)[i], q),
             ~DirectBeforeAddrs(q)
      PROVE  TestRouting(routing, BuildRules(routing, force, geo), q) = CoreRoute(installed, q)
  <2> DEFINE body == Body(routing, force, geo)
             rules == BuildRules(routing, force, geo)
  <2>1. routing \in RoutingConfigs /\ force \in BOOLEAN
    BY <1>1 DEF RoutingInv, RoutingTypeOK
  <2>2. body \in Seq(BodyRules)
    BY <2>1, BodyFits
  <2>3. rules = body \o Closing(routing.mode)
    BY DEF BuildRules, Body
  <2>4. installed = [strategy |-> routing.strategy, rules |-> rules]
    BY <1>1 DEF RoutingInv, Built
  <2> HIDE DEF body, rules
  <2>5. CASE routing.mode = "direct"
    <3>1. routing.strategy = "ipifnonmatch" => q.target \notin Names
      BY <1>1, <2>5 DEF DirectBeforeAddrs
    <3>2. rules = body \o Closing("direct") /\ \A i \in DOMAIN rules : ReadAlike(rules[i], q)
      BY <1>1, <2>3, <2>5 DEF rules
    <3>3. TestRouting(routing, rules, q) = CoreRoute(installed, q)
      BY <2>1, <2>2, <2>4, <2>5, <3>1, <3>2, SameWithClosing
    <3>4. QED
      BY <3>3 DEF rules
  <2>6. CASE routing.mode # "direct"
    <3>1. rules = body
      BY <2>2, <2>3, <2>6 DEF Closing
    <3>2. rules \in Seq(BodyRules) /\ \A i \in DOMAIN rules : ReadAlike(rules[i], q)
      BY <1>1, <2>2, <3>1 DEF rules
    <3>3. TestRouting(routing, rules, q) = CoreRoute(installed, q)
      BY <2>1, <2>4, <2>6, <3>2, SameWithoutClosing
    <3>4. QED
      BY <3>3 DEF rules
  <2>7. QED
    BY <2>5, <2>6
<1>2. RoutingInv => TesterAgrees
  BY <1>1 DEF TesterAgrees
<1>3. QED
  BY <1>2, RoutingInvariant, PTL

-----------------------------------------------------------------------------
(***************************************************************************)
(* What LogBroker guarantees for any writers, subscriptions and sizes.  A  *)
(* line is on its way to a client in one of three places: the flow (what   *)
(* was seen, then what the channel holds), the history still to be sent,   *)
(* and the sends a dispatch still has to do.  The history has only lines   *)
(* older than the subscription and the sends only newer ones, since        *)
(* subscribe registers and copies under one lock: so no line is in two     *)
(* places.  And a writer has one dispatch under way at a time, of its      *)
(* latest line.                                                            *)
(***************************************************************************)

Flow(c) == seen[c] \o chan[c]

RingLines ==
  /\ \A i \in DOMAIN ring : ring[i][2] <= lines[ring[i][1]]
  /\ \A i, j \in DOMAIN ring : ring[i] = ring[j] => i = j

Since == \A c \in LogSubs : \A w \in Writers : since[c][w] <= lines[w]

Fresh ==
  \A c \in LogSubs : sub[c] = "out" =>
    /\ seen[c] = <<>> /\ chan[c] = <<>> /\ history[c] = <<>>
    /\ \A w \in Writers, l \in Lines : <<c, l>> \notin to[w]

Sends ==
  \A w \in Writers, c \in LogSubs, l \in Lines : <<c, l>> \in to[w] =>
    /\ l = <<w, lines[w]>>
    /\ Live(c, l)
    /\ \A i \in DOMAIN Flow(c) : Flow(c)[i] # l

Histories ==
  \A c \in LogSubs : \A i \in DOMAIN history[c] :
    /\ ~Live(c, history[c][i])
    /\ \A j \in DOMAIN history[c] : history[c][i] = history[c][j] => i = j
    /\ \A j \in DOMAIN Flow(c) : Flow(c)[j] # history[c][i]

Flows ==
  \A c \in LogSubs : \A i \in DOMAIN Flow(c) :
    /\ Flow(c)[i][2] <= lines[Flow(c)[i][1]]
    /\ \A j \in DOMAIN Flow(c) :
         /\ Flow(c)[i] = Flow(c)[j] => i = j
         /\ /\ i < j /\ Flow(c)[i][1] = Flow(c)[j][1]
            /\ Live(c, Flow(c)[i]) /\ Live(c, Flow(c)[j])
            => Flow(c)[i][2] < Flow(c)[j][2]

LogInv ==
  LogTypeOK /\ RingLines /\ Since /\ Fresh /\ Sends /\ Histories /\ Flows

-----------------------------------------------------------------------------
\* The bound on the lines of all writers bounds those of each.
LEMMA RoomForOne ==
  ASSUME LogTypeOK, NEW w \in Writers, Cardinality(Logged) < MaxLines
  PROVE  lines[w] + 1 \in 1 .. MaxLines
<1>1. lines[w] \in 0 .. MaxLines /\ MaxLines \in Nat
  BY LogBounds DEF LogTypeOK
<1>2. IsFiniteSet(1 .. MaxLines) /\ IsFiniteSet(1 .. lines[w])
  BY <1>1, FS_Interval
<1>3. IsFiniteSet(Lines)
  BY <1>2, FS_Product, LogBounds DEF Lines
<1>4. IsFiniteSet(Logged)
  BY <1>3, FS_Subset DEF Logged
<1>5. {w} \X (1 .. lines[w]) \subseteq Logged
  BY <1>1 DEF Logged, Lines
<1>6. Cardinality({w} \X (1 .. lines[w])) = lines[w]
  <2>1. Cardinality(1 .. lines[w]) = lines[w]
    BY <1>1, FS_Interval
  <2>2. Cardinality({w} \X (1 .. lines[w])) = Cardinality({w}) * Cardinality(1 .. lines[w])
    BY <1>2, FS_Product, FS_Singleton
  <2>3. Cardinality({w}) = 1
    BY FS_Singleton
  <2>4. QED
    BY <1>1, <2>1, <2>2, <2>3
<1>7. lines[w] <= Cardinality(Logged)
  BY <1>4, <1>5, <1>6, FS_Subset
<1>8. Cardinality(Logged) \in Nat
  BY <1>4, FS_CardinalityType
<1>9. QED
  BY <1>1, <1>7, <1>8

\* Flows are sequences of lines, and begin with what the client has seen.
LEMMA FlowShape ==
  ASSUME LogTypeOK, NEW c \in LogSubs
  PROVE  /\ Flow(c) \in Seq(Lines)
         /\ DOMAIN seen[c] \subseteq DOMAIN Flow(c)
         /\ \A i \in DOMAIN seen[c] : Flow(c)[i] = seen[c][i]
<1>1. seen[c] \in Seq(Lines) /\ chan[c] \in Seq(Lines)
  BY DEF LogTypeOK
<1>2. QED
  BY <1>1, Prefix DEF Flow

\* A send adds its line to the flow, or drops it.
LEMMA PutExtends ==
  ASSUME LogTypeOK, NEW c \in LogSubs, NEW l \in Lines, Put(c, l), seen' = seen
  PROVE  /\ chan' \in [LogSubs -> Seq(Lines)] /\ panicked' \in BOOLEAN
         /\ Flow(c)' \in {Flow(c), Append(Flow(c), l)}
         /\ \A d \in LogSubs \ {c} : Flow(d)' = Flow(d)
         /\ chan'[c] # chan[c] => sub[c] = "in"
<1>1. seen[c] \in Seq(Lines) /\ chan[c] \in Seq(Lines)
  BY DEF LogTypeOK
<1>2. /\ chan' \in [LogSubs -> Seq(Lines)]
      /\ chan'[c] \in {chan[c], Append(chan[c], l)}
      /\ \A d \in LogSubs \ {c} : chan'[d] = chan[d]
      /\ chan'[c] # chan[c] => sub[c] = "in"
  BY DEF LogTypeOK, Put
<1>3. seen[c] \o Append(chan[c], l) = Append(seen[c] \o chan[c], l)
  <2>1. \A s, t \in Seq(Lines), e \in Lines : s \o Append(t, e) = Append(s \o t, e)
    BY AddLast
  <2>2. QED
    BY <1>1, <2>1, Zenon
<1>4. panicked' \in BOOLEAN
  BY DEF Put
<1>5. QED
  BY <1>2, <1>3, <1>4 DEF Flow
-----------------------------------------------------------------------------
\* A dispatch adds the one line nobody has.
LEMMA DispatchKeeps ==
  ASSUME LogInv, NEW w \in Writers, Dispatch(w)
  PROVE  LogInv'
<1> DEFINE new == <<w, lines[w] + 1>>
<1>1. lines[w] + 1 \in 1 .. MaxLines /\ new \in Lines
  BY RoomForOne DEF Dispatch, LogInv, Lines
<1>2. /\ lines' = [lines EXCEPT ![w] = lines[w] + 1]
      /\ \A v \in Writers : lines[v] \in Nat /\ lines'[v] \in Nat /\ lines[v] <= lines'[v]
      /\ lines'[w] = lines[w] + 1
      /\ \A v \in Writers \ {w} : lines'[v] = lines[v]
  BY LogBounds DEF Dispatch, LogInv, LogTypeOK
<1>3. /\ \A v \in Writers \ {w} : to'[v] = to[v]
      /\ to'[w] = Registered \X {new}
      /\ to' \in [Writers -> SUBSET (LogSubs \X Lines)]
  BY <1>1 DEF Dispatch, LogInv, LogTypeOK, Registered
<1>4. /\ \A c \in LogSubs : Flow(c)' = Flow(c)
      /\ UNCHANGED <<sub, chan, history, seen, since, panicked>>
  BY DEF Dispatch, Flow
<1>5. \A l \in Lines : l[1] \in Writers /\ l[2] \in Nat
  BY DEF Lines
<1>6. \A c \in LogSubs : \A i \in DOMAIN Flow(c) : Flow(c)[i] \in Lines
  BY FlowShape DEF LogInv
<1>7. ring' \in Seq(Lines) /\ RingLines'
  <2> DEFINE short == IF Len(ring) >= RingSize THEN Tail(ring) ELSE ring
  <2>1. ring \in Seq(Lines) /\ Len(ring) \in Nat /\ DOMAIN ring = 1 .. Len(ring)
    BY DEF LogInv, LogTypeOK
  <2>2. Len(ring) >= RingSize => ring # <<>>
    BY LogBounds
  <2>3. /\ short \in Seq(Lines)
        /\ \A i \in DOMAIN short : short[i][2] <= lines[short[i][1]]
        /\ \A i, j \in DOMAIN short : short[i] = short[j] => i = j
    <3>1. CASE Len(ring) >= RingSize
      <4>1. /\ Tail(ring) \in Seq(Lines) /\ DOMAIN Tail(ring) = 1 .. Len(ring) - 1
            /\ \A i \in 1 .. Len(ring) - 1 : Tail(ring)[i] = ring[i + 1]
        BY <2>1, <2>2, <3>1
      <4>2. \A i \in 1 .. Len(ring) - 1 : i + 1 \in DOMAIN ring
        BY <2>1
      <4>3. QED
        BY <3>1, <4>1, <4>2 DEF LogInv, RingLines
    <3>2. CASE ~(Len(ring) >= RingSize)
      BY <2>1, <3>2 DEF LogInv, RingLines
    <3>3. QED
      BY <3>1, <3>2
  <2>4. ring' = Append(short, new)
    BY DEF Dispatch, Push
  <2> HIDE DEF short
  <2>5. /\ ring' \in Seq(Lines) /\ DOMAIN ring' = DOMAIN short \cup {Len(short) + 1}
        /\ Len(short) + 1 \notin DOMAIN short
        /\ ring'[Len(short) + 1] = new
        /\ \A i \in DOMAIN short : ring'[i] = short[i] /\ short[i] \in Lines
    BY <1>1, <2>3, <2>4
  <2>6. \A i \in DOMAIN short : short[i] # new
    BY <1>2, <2>3
  <2>7. QED
    BY <1>2, <1>5, <2>3, <2>5, <2>6 DEF RingLines
<1>8. LogTypeOK'
  <2>1. lines' \in [Writers -> 0 .. MaxLines]
    BY <1>1, LogBounds DEF Dispatch, LogInv, LogTypeOK
  <2>2. QED
    BY <1>3, <1>4, <1>7, <2>1 DEF LogInv, LogTypeOK
<1>9. Since'
  BY <1>2, <1>4 DEF LogInv, LogTypeOK, Since
<1>10. Fresh'
  BY <1>3, <1>4 DEF LogInv, Fresh, Registered
<1>11. Sends'
  <2>1. \A c \in LogSubs : Live(c, new)
    BY <1>2 DEF LogInv, LogTypeOK, Since, Live
  <2>2. \A c \in LogSubs : \A i \in DOMAIN Flow(c) : Flow(c)[i] # new
    BY <1>2 DEF LogInv, Flows
  <2>3. QED
    BY <1>2, <1>3, <1>4, <2>1, <2>2 DEF LogInv, Sends, Live
<1>12. Histories'
  BY <1>4 DEF LogInv, Histories, Live
<1>13. Flows'
  BY <1>2, <1>4, <1>5, <1>6 DEF LogInv, Flows, Live
<1>14. QED
  BY <1>7, <1>8, <1>9, <1>10, <1>11, <1>12, <1>13 DEF LogInv
\* A line added to a flow that does not have it, and that is newer than those
\* of its writer there, or older than the subscription.
LEMMA AddedToFlow ==
  ASSUME LogInv, LogTypeOK', NEW c \in LogSubs, NEW l \in Lines,
         lines' = lines, since' = since, l[2] <= lines[l[1]],
         Flow(c)' \in {Flow(c), Append(Flow(c), l)},
         \A d \in LogSubs \ {c} : Flow(d)' = Flow(d),
         \A i \in DOMAIN Flow(c) : Flow(c)[i] # l,
         Live(c, l) => l[2] = lines[l[1]]
  PROVE  /\ Flows'
         /\ \A d \in LogSubs : \A i \in DOMAIN Flow(d)' :
              (i \in DOMAIN Flow(d) /\ Flow(d)'[i] = Flow(d)[i]) \/ (d = c /\ Flow(d)'[i] = l)
<1>1. CASE Flow(c)' = Flow(c)
  <2>1. \A d \in LogSubs : Flow(d)' = Flow(d)
    BY <1>1
  <2>2. \A d \in LogSubs : \A k : Live(d, k)' <=> Live(d, k)
    BY DEF Live
  <2>3. \A d \in LogSubs : \A i \in DOMAIN Flow(d) :
          /\ Flow(d)[i][2] <= lines[Flow(d)[i][1]]
          /\ \A j \in DOMAIN Flow(d) :
               /\ Flow(d)[i] = Flow(d)[j] => i = j
               /\ /\ i < j /\ Flow(d)[i][1] = Flow(d)[j][1]
                  /\ Live(d, Flow(d)[i])' /\ Live(d, Flow(d)[j])'
                  => Flow(d)[i][2] < Flow(d)[j][2]
    <3> SUFFICES ASSUME NEW d \in LogSubs, NEW i \in DOMAIN Flow(d), NEW j \in DOMAIN Flow(d)
                 PROVE  /\ Flow(d)[i][2] <= lines[Flow(d)[i][1]]
                        /\ Flow(d)[i] = Flow(d)[j] => i = j
                        /\ /\ i < j /\ Flow(d)[i][1] = Flow(d)[j][1]
                           /\ Live(d, Flow(d)[i])' /\ Live(d, Flow(d)[j])'
                           => Flow(d)[i][2] < Flow(d)[j][2]
      OBVIOUS
    <3>1. (Live(d, Flow(d)[i])' <=> Live(d, Flow(d)[i])) /\ (Live(d, Flow(d)[j])' <=> Live(d, Flow(d)[j]))
      BY <2>2
    <3>2. QED
      BY <3>1 DEF LogInv, Flows
  <2>4. Flows'
    BY <2>1, <2>3 DEF Flows
  <2>5. QED
    BY <2>1, <2>4
<1>2. CASE Flow(c)' = Append(Flow(c), l)
  <2> DEFINE n == Len(Flow(c)) + 1
  <2>1. /\ n \in Nat /\ DOMAIN Flow(c)' = DOMAIN Flow(c) \cup {n} /\ n \notin DOMAIN Flow(c)
        /\ Flow(c)'[n] = l
        /\ \A i \in DOMAIN Flow(c) : Flow(c)'[i] = Flow(c)[i] /\ i \in Nat /\ i < n
    BY <1>2, FlowShape DEF LogInv
  <2>2. \A k \in Lines : k[1] \in Writers /\ k[2] \in Nat
    BY DEF Lines
  <2>3. \A i \in DOMAIN Flow(c) : Flow(c)[i] \in Lines /\ Flow(c)[i] = <<Flow(c)[i][1], Flow(c)[i][2]>>
    <3>1. \A k \in Lines : k = <<k[1], k[2]>>
      BY DEF Lines
    <3>2. QED
      BY <3>1, FlowShape DEF LogInv
  <2>4. l = <<l[1], l[2]>>
    BY DEF Lines
  <2>5. \A i \in DOMAIN Flow(c) : Live(c, l) /\ Flow(c)[i][1] = l[1] => Flow(c)[i][2] < l[2]
    <3> SUFFICES ASSUME NEW i \in DOMAIN Flow(c), Live(c, l), Flow(c)[i][1] = l[1]
                 PROVE  Flow(c)[i][2] < l[2]
      OBVIOUS
    <3>1. Flow(c)[i][2] <= l[2]
      BY DEF LogInv, Flows
    <3>2. Flow(c)[i][2] # l[2]
      BY <2>3, <2>4
    <3>3. QED
      BY <2>2, <2>3, <3>1, <3>2
  <2>6. \A d \in LogSubs : \A k : Live(d, k)' <=> Live(d, k)
    BY DEF Live
  <2>7. ASSUME NEW d \in LogSubs, NEW i \in DOMAIN Flow(d)'
        PROVE  /\ Flow(d)'[i][2] <= lines[Flow(d)'[i][1]]
               /\ \A j \in DOMAIN Flow(d)' :
                    /\ Flow(d)'[i] = Flow(d)'[j] => i = j
                    /\ /\ i < j /\ Flow(d)'[i][1] = Flow(d)'[j][1]
                       /\ Live(d, Flow(d)'[i]) /\ Live(d, Flow(d)'[j])
                       => Flow(d)'[i][2] < Flow(d)'[j][2]
    <3>1. CASE d # c
      BY <3>1 DEF LogInv, Flows
    <3>2. CASE d = c
      <4>1. Flow(d)'[i][2] <= lines[Flow(d)'[i][1]]
        BY <2>1, <3>2 DEF LogInv, Flows
      <4>2. ASSUME NEW j \in DOMAIN Flow(d)', Flow(d)'[i] = Flow(d)'[j] PROVE i = j
        BY <2>1, <3>2, <4>2 DEF LogInv, Flows
      <4>3. ASSUME NEW j \in DOMAIN Flow(d)', i < j, Flow(d)'[i][1] = Flow(d)'[j][1],
                   Live(d, Flow(d)'[i]), Live(d, Flow(d)'[j])
            PROVE  Flow(d)'[i][2] < Flow(d)'[j][2]
        <5>1. i \in DOMAIN Flow(c)
          BY <2>1, <3>2, <4>3
        <5>2. CASE j = n
          BY <2>1, <2>5, <3>2, <4>3, <5>1, <5>2
        <5>3. CASE j # n
          BY <2>1, <3>2, <4>3, <5>1, <5>3 DEF LogInv, Flows
        <5>4. QED
          BY <5>2, <5>3
      <4>4. QED
        BY <4>1, <4>2, <4>3
    <3>3. QED
      BY <3>1, <3>2
  <2>8. Flows'
    BY <2>6, <2>7 DEF Flows
  <2>9. ASSUME NEW d \in LogSubs, NEW i \in DOMAIN Flow(d)'
        PROVE  (i \in DOMAIN Flow(d) /\ Flow(d)'[i] = Flow(d)[i]) \/ (d = c /\ Flow(d)'[i] = l)
    <3>1. CASE d # c
      BY <3>1
    <3>2. CASE d = c
      BY <2>1, <3>2
    <3>3. QED
      BY <3>1, <3>2
  <2>10. QED
    BY <2>8, <2>9
<1>3. QED
  BY <1>1, <1>2

\* A send of a dispatch: its line is the latest of its writer.
LEMMA SendLiveKeeps ==
  ASSUME LogInv, NEW w \in Writers, NEW c \in LogSubs, NEW l \in Lines, SendLive(w, c, l)
  PROVE  LogInv'
<1>1. /\ l = <<w, lines[w]>> /\ Live(c, l) /\ \A i \in DOMAIN Flow(c) : Flow(c)[i] # l
  BY DEF LogInv, Sends, SendLive
<1>2. UNCHANGED <<ring, lines, sub, history, seen, since>>
  BY DEF SendLive
<1>3. /\ to' \in [Writers -> SUBSET (LogSubs \X Lines)]
      /\ to'[w] = to[w] \ {<<c, l>>}
      /\ \A v \in Writers \ {w} : to'[v] = to[v]
  BY DEF SendLive, LogInv, LogTypeOK
<1>4. /\ chan' \in [LogSubs -> Seq(Lines)] /\ panicked' \in BOOLEAN
      /\ Flow(c)' \in {Flow(c), Append(Flow(c), l)}
      /\ \A d \in LogSubs \ {c} : Flow(d)' = Flow(d)
      /\ chan'[c] # chan[c] => sub[c] = "in"
  BY PutExtends DEF SendLive, LogInv
<1>5. LogTypeOK'
  BY <1>2, <1>3, <1>4 DEF LogInv, LogTypeOK
<1>6. l[1] = w /\ l[2] = lines[w] /\ lines[w] \in Nat
  BY <1>1, LogBounds DEF LogInv, LogTypeOK
<1>7. /\ Flows'
      /\ \A d \in LogSubs : \A i \in DOMAIN Flow(d)' :
           (i \in DOMAIN Flow(d) /\ Flow(d)'[i] = Flow(d)[i]) \/ (d = c /\ Flow(d)'[i] = l)
  <2>1. l[2] = lines[l[1]] /\ l[2] <= lines[l[1]]
    BY <1>6
  <2>2. l \in Lines /\ lines' = lines /\ since' = since
    BY <1>2
  <2>3. /\ Flow(c)' \in {Flow(c), Append(Flow(c), l)}
        /\ \A d \in LogSubs \ {c} : Flow(d)' = Flow(d)
    BY <1>4, Zenon
  <2>4. \A i \in DOMAIN Flow(c) : Flow(c)[i] # l
    BY <1>1, Zenon
  <2>5. QED
    BY <1>5, <2>1, <2>2, <2>3, <2>4, AddedToFlow, Zenon
<1>8. Fresh'
  <2>1. sub[c] # "out"
    BY DEF SendLive, LogInv, Fresh
  <2>2. \A d \in LogSubs \ {c} : chan'[d] = chan[d]
    BY DEF SendLive, Put, LogInv, LogTypeOK
  <2>3. QED
    BY <1>2, <1>3, <2>1, <2>2 DEF LogInv, Fresh
<1>9. Sends'
  <2> SUFFICES ASSUME NEW v \in Writers, NEW d \in LogSubs, NEW k \in Lines, <<d, k>> \in to'[v]
               PROVE  /\ k = <<v, lines[v]>> /\ Live(d, k)
                      /\ \A i \in DOMAIN Flow(d)' : Flow(d)'[i] # k
    BY <1>2 DEF Sends, Live
  <2>1. <<d, k>> \in to[v] /\ ~(v = w /\ d = c /\ k = l)
    BY <1>3
  <2>2. k = <<v, lines[v]>> /\ Live(d, k) /\ \A i \in DOMAIN Flow(d) : Flow(d)[i] # k
    BY <2>1 DEF LogInv, Sends
  <2>3. d = c => k # l
    BY <1>1, <2>1, <2>2
  <2>4. QED
    BY <1>7, <2>2, <2>3
<1>10. Histories'
  <2>1. \A i \in DOMAIN history[c] : history[c][i] # l
    BY <1>1 DEF LogInv, Histories
  <2>2. QED
    BY <1>2, <1>7, <2>1 DEF LogInv, Histories, Live
<1>11. RingLines' /\ Since'
  BY <1>2 DEF LogInv, RingLines, Since
<1>12. QED
  BY <1>5, <1>7, <1>8, <1>9, <1>10, <1>11 DEF LogInv

\* A send of the history: its line is older than the subscription.
LEMMA SendHistoryKeeps ==
  ASSUME LogInv, NEW c \in LogSubs, SendHistory(c)
  PROVE  LogInv'
<1> DEFINE l == Head(history[c])
           h == history[c]
<1>1. /\ h \in Seq(Lines) /\ h # <<>> /\ l \in Lines /\ Tail(h) \in Seq(Lines)
      /\ DOMAIN h = 1 .. Len(h) /\ DOMAIN Tail(h) = 1 .. Len(h) - 1 /\ Len(h) \in Nat \ {0}
      /\ l = h[1] /\ \A i \in DOMAIN Tail(h) : Tail(h)[i] = h[i + 1]
  BY DEF SendHistory, LogInv, LogTypeOK
<1>2. 1 \in DOMAIN h /\ \A i \in DOMAIN Tail(h) : i + 1 \in DOMAIN h /\ i + 1 # 1
  BY <1>1
<1>3. /\ ~Live(c, l) /\ \A i \in DOMAIN Flow(c) : Flow(c)[i] # l
      /\ \A i \in DOMAIN Tail(h) : Tail(h)[i] # l
  BY <1>1, <1>2 DEF LogInv, Histories
<1>4. UNCHANGED <<ring, lines, to, sub, seen, since>>
  BY DEF SendHistory
<1>5. /\ history' \in [LogSubs -> Seq(Lines)] /\ history'[c] = Tail(h)
      /\ \A d \in LogSubs \ {c} : history'[d] = history[d]
  BY <1>1 DEF SendHistory, LogInv, LogTypeOK
<1>6. /\ chan' \in [LogSubs -> Seq(Lines)] /\ panicked' \in BOOLEAN
      /\ Flow(c)' \in {Flow(c), Append(Flow(c), l)}
      /\ \A d \in LogSubs \ {c} : Flow(d)' = Flow(d)
      /\ chan'[c] # chan[c] => sub[c] = "in"
  BY <1>1, PutExtends DEF SendHistory, LogInv
<1>7. LogTypeOK'
  BY <1>4, <1>5, <1>6 DEF LogInv, LogTypeOK
<1>8. l[2] <= lines[l[1]]
  <2>1. l[1] \in Writers /\ l[2] \in Nat
    BY <1>1 DEF Lines
  <2>2. /\ since[c][l[1]] \in Nat /\ lines[l[1]] \in Nat
        /\ since[c][l[1]] <= lines[l[1]]
    <3>1. since[c][l[1]] \in 0 .. MaxLines /\ lines[l[1]] \in 0 .. MaxLines
      BY <2>1 DEF LogInv, LogTypeOK
    <3>2. QED
      BY <2>1, <3>1, LogBounds DEF LogInv, Since
  <2>3. QED
    BY <1>3, <2>1, <2>2 DEF Live
<1>9. /\ Flows'
      /\ \A d \in LogSubs : \A i \in DOMAIN Flow(d)' :
           (i \in DOMAIN Flow(d) /\ Flow(d)'[i] = Flow(d)[i]) \/ (d = c /\ Flow(d)'[i] = l)
  <2>1. l \in Lines /\ (Live(c, l) => l[2] = lines[l[1]])
    BY <1>1, <1>3
  <2>2. lines' = lines /\ since' = since
    BY <1>4
  <2> HIDE DEF l
  <2>3. QED
    BY <1>3, <1>6, <1>7, <1>8, <2>1, <2>2, AddedToFlow, Zenon
<1>10. Fresh'
  <2>1. sub[c] # "out"
    BY <1>1 DEF LogInv, Fresh
  <2>2. \A d \in LogSubs \ {c} : chan'[d] = chan[d]
    BY DEF SendHistory, Put, LogInv, LogTypeOK
  <2>3. QED
    BY <1>4, <1>5, <2>1, <2>2 DEF LogInv, Fresh
<1>11. Sends'
  <2>1. \A v \in Writers, k \in Lines : <<c, k>> \in to[v] => k # l
    BY <1>3 DEF LogInv, Sends
  <2>2. QED
    BY <1>4, <1>9, <2>1 DEF LogInv, Sends, Live
<1>12. Histories'
  <2> SUFFICES ASSUME NEW d \in LogSubs, NEW i \in DOMAIN history'[d]
               PROVE  /\ ~Live(d, history'[d][i])
                      /\ \A j \in DOMAIN history'[d] : history'[d][i] = history'[d][j] => i = j
                      /\ \A j \in DOMAIN Flow(d)' : Flow(d)'[j] # history'[d][i]
    BY <1>4 DEF Histories, Live
  <2>1. CASE d # c
    <3>1. history'[d] = history[d] /\ Flow(d)' = Flow(d)
      BY <1>5, <1>6, <2>1
    <3>2. i \in DOMAIN history[d]
      BY <3>1
    <3>3. QED
      BY <3>1, <3>2, Zenon DEF LogInv, Histories
  <2>2. CASE d = c
    <3>1. i \in DOMAIN Tail(h) /\ history'[d][i] = h[i + 1] /\ i + 1 \in DOMAIN h
      BY <1>1, <1>2, <1>5, <2>2
    <3>2. ~Live(c, h[i + 1]) /\ \A j \in DOMAIN Flow(c) : Flow(c)[j] # h[i + 1]
      BY <3>1 DEF LogInv, Histories
    <3>3. ASSUME NEW j \in DOMAIN history'[d], history'[d][i] = history'[d][j] PROVE i = j
      <4>1. j \in DOMAIN Tail(h) /\ history'[d][j] = h[j + 1] /\ j + 1 \in DOMAIN h
        BY <1>1, <1>2, <1>5, <2>2
      <4>2. i + 1 = j + 1
        BY <3>1, <3>3, <4>1 DEF LogInv, Histories
      <4>3. QED
        BY <1>1, <3>1, <4>1, <4>2
    <3>4. h[i + 1] # l
      BY <1>1, <1>3, <3>1
    <3>5. QED
      BY <1>9, <2>2, <3>1, <3>2, <3>3, <3>4
  <2>3. QED
    BY <2>1, <2>2
<1>13. RingLines' /\ Since'
  BY <1>4 DEF LogInv, RingLines, Since
<1>14. QED
  BY <1>7, <1>9, <1>10, <1>11, <1>12, <1>13 DEF LogInv

\* A step that adds no line anywhere, and leaves a subscription its age unless
\* it has just been made.
LEMMA NothingAdded ==
  ASSUME LogInv, lines' = lines, to' = to,
         \A d \in LogSubs : /\ DOMAIN Flow(d)' \subseteq DOMAIN Flow(d)
                            /\ \A i \in DOMAIN Flow(d)' : Flow(d)'[i] = Flow(d)[i],
         \A d \in LogSubs : since'[d] = since[d] \/ sub[d] = "out"
  PROVE  /\ Sends' /\ Flows'
         /\ \A d \in LogSubs : sub[d] = "out" => DOMAIN Flow(d)' = {}
<1>1. ASSUME NEW d \in LogSubs, sub[d] = "out" PROVE DOMAIN Flow(d) = {}
  <2>1. seen[d] = <<>> /\ chan[d] = <<>>
    BY <1>1 DEF LogInv, Fresh
  <2>2. DOMAIN (<<>> \o <<>>) = {}
    OBVIOUS
  <2>3. QED
    BY <2>1, <2>2 DEF Flow
<1>2. \A d \in LogSubs : \A k : sub[d] # "out" => (Live(d, k)' <=> Live(d, k))
  BY DEF Live
<1>3. Sends'
  <2> SUFFICES ASSUME NEW v \in Writers, NEW d \in LogSubs, NEW k \in Lines, <<d, k>> \in to[v]
               PROVE  /\ k = <<v, lines[v]>> /\ Live(d, k)'
                      /\ \A i \in DOMAIN Flow(d)' : Flow(d)'[i] # k
    BY DEF Sends
  <2>1. /\ k = <<v, lines[v]>> /\ Live(d, k) /\ sub[d] # "out"
        /\ \A i \in DOMAIN Flow(d) : Flow(d)[i] # k
    BY DEF LogInv, Sends, Fresh
  <2>2. QED
    BY <1>2, <2>1
<1>4. Flows'
  <2> SUFFICES ASSUME NEW d \in LogSubs, NEW i \in DOMAIN Flow(d)', NEW j \in DOMAIN Flow(d)'
               PROVE  /\ Flow(d)'[i][2] <= lines[Flow(d)'[i][1]]
                      /\ Flow(d)'[i] = Flow(d)'[j] => i = j
                      /\ /\ i < j /\ Flow(d)'[i][1] = Flow(d)'[j][1]
                         /\ Live(d, Flow(d)[i])' /\ Live(d, Flow(d)[j])'
                         => Flow(d)'[i][2] < Flow(d)'[j][2]
    BY DEF Flows
  <2>1. /\ i \in DOMAIN Flow(d) /\ j \in DOMAIN Flow(d) /\ sub[d] # "out"
        /\ Flow(d)'[i] = Flow(d)[i] /\ Flow(d)'[j] = Flow(d)[j]
    BY <1>1
  <2>2. (Live(d, Flow(d)[i])' <=> Live(d, Flow(d)[i])) /\ (Live(d, Flow(d)[j])' <=> Live(d, Flow(d)[j]))
    BY <2>1 DEF Live
  <2>3. QED
    BY <2>1, <2>2 DEF LogInv, Flows
<1>5. QED
  BY <1>1, <1>3, <1>4

\* And if it adds nothing to the histories either.
LEMMA HistoriesStay ==
  ASSUME LogInv, lines' = lines, since' = since, history' = history,
         \A d \in LogSubs : /\ DOMAIN Flow(d)' \subseteq DOMAIN Flow(d)
                            /\ \A i \in DOMAIN Flow(d)' : Flow(d)'[i] = Flow(d)[i]
  PROVE  Histories'
<1> SUFFICES ASSUME NEW d \in LogSubs, NEW i \in DOMAIN history[d]
             PROVE  /\ ~Live(d, history[d][i])
                    /\ \A j \in DOMAIN history[d] : history[d][i] = history[d][j] => i = j
                    /\ \A j \in DOMAIN Flow(d)' : Flow(d)'[j] # history[d][i]
  BY DEF Histories, Live
<1>1. QED
  BY DEF LogInv, Histories

\* A subscription begins with the ring, none of which is newer than it.
LEMMA SubscribeKeeps ==
  ASSUME LogInv, NEW c \in LogSubs, Subscribe(c)
  PROVE  LogInv'
<1>1. /\ UNCHANGED <<ring, lines, to, chan, seen, panicked>>
      /\ sub[c] = "out" /\ \A d \in LogSubs : Flow(d)' = Flow(d)
  BY DEF Subscribe, Flow
<1>2. /\ history' \in [LogSubs -> Seq(Lines)] /\ history'[c] = ring
      /\ \A d \in LogSubs \ {c} : history'[d] = history[d]
  BY DEF Subscribe, LogInv, LogTypeOK
<1>3. /\ since' \in [LogSubs -> [Writers -> 0 .. MaxLines]] /\ since'[c] = lines
      /\ \A d \in LogSubs \ {c} : since'[d] = since[d]
  BY DEF Subscribe, LogInv, LogTypeOK
<1>4. /\ sub' \in [LogSubs -> SubStates] /\ sub'[c] = "in"
      /\ \A d \in LogSubs \ {c} : sub'[d] = sub[d]
  BY DEF Subscribe, LogInv, LogTypeOK, SubStates
<1>5. Sends' /\ Flows' /\ \A d \in LogSubs : sub[d] = "out" => DOMAIN Flow(d)' = {}
  BY <1>1, <1>3, NothingAdded
<1>6. LogTypeOK'
  BY <1>1, <1>2, <1>3, <1>4 DEF LogInv, LogTypeOK
<1>7. RingLines'
  BY <1>1 DEF LogInv, RingLines
<1>8. Since'
  <2>1. \A w \in Writers : lines[w] <= lines[w]
    BY LogBounds DEF LogInv, LogTypeOK
  <2>2. QED
    BY <1>1, <1>3, <2>1 DEF LogInv, Since
<1>9. Fresh'
  BY <1>1, <1>2, <1>4 DEF LogInv, Fresh
<1>10. Histories'
  <2> SUFFICES ASSUME NEW d \in LogSubs, NEW i \in DOMAIN history'[d]
               PROVE  /\ ~Live(d, history[d][i])'
                      /\ \A j \in DOMAIN history'[d] : history'[d][i] = history'[d][j] => i = j
                      /\ \A j \in DOMAIN Flow(d)' : Flow(d)'[j] # history'[d][i]
    BY DEF Histories
  <2>1. CASE d = c
    <3>1. i \in DOMAIN ring /\ history'[d] = ring
      BY <1>2, <2>1
    <3>2. /\ ring[i][2] <= lines[ring[i][1]]
          /\ \A j \in DOMAIN ring : ring[i] = ring[j] => i = j
      BY <3>1 DEF LogInv, RingLines
    <3>3. ring[i] \in Lines
      BY <3>1 DEF LogInv, LogTypeOK
    <3>4. ring[i][2] \in Nat /\ ring[i][1] \in Writers
      BY <3>3 DEF Lines
    <3>5. lines[ring[i][1]] \in Nat
      BY <3>4, LogBounds DEF LogInv, LogTypeOK
    <3>6. ~Live(d, history[d][i])'
      <4>1. ~(ring[i][2] > lines[ring[i][1]])
        BY <3>2, <3>4, <3>5
      <4>2. QED
        BY <1>3, <2>1, <3>1, <4>1 DEF Live
    <3>7. DOMAIN Flow(d)' = {}
      BY <1>1, <1>5, <2>1
    <3>8. QED
      BY <3>1, <3>2, <3>6, <3>7
  <2>2. CASE d # c
    <3>1. history'[d] = history[d] /\ since'[d] = since[d] /\ Flow(d)' = Flow(d)
      BY <1>1, <1>2, <1>3, <2>2
    <3>2. i \in DOMAIN history[d]
      BY <3>1
    <3>3. Live(d, history[d][i])' <=> Live(d, history[d][i])
      BY <3>1 DEF Live
    <3>4. /\ ~Live(d, history[d][i])
          /\ \A j \in DOMAIN history[d] : history[d][i] = history[d][j] => i = j
          /\ \A j \in DOMAIN Flow(d) : Flow(d)[j] # history[d][i]
      BY <3>2 DEF LogInv, Histories
    <3>5. QED
      BY <3>1, <3>3, <3>4
  <2>3. QED
    BY <2>1, <2>2
<1>11. QED
  BY <1>5, <1>6, <1>7, <1>8, <1>9, <1>10 DEF LogInv

\* What is received was in the flow already; what is cut off no longer is.
LEMMA ReadersKeep ==
  ASSUME LogInv, NEW c \in LogSubs, \/ Receive(c) \/ CancelDelete(c) \/ CancelClose(c) \/ Clear
                                    \/ UNCHANGED logVars
  PROVE  LogInv'
<1>1. UNCHANGED <<lines, to, history, since, panicked>> /\ ring' \in {ring, <<>>}
  BY DEF Receive, CancelDelete, CancelClose, Clear, logVars
<1>2. /\ seen[c] \in Seq(Lines) /\ chan[c] \in Seq(Lines)
      /\ seen \in [LogSubs -> Seq(Lines)] /\ chan \in [LogSubs -> Seq(Lines)]
  BY DEF LogInv, LogTypeOK
<1>3. ASSUME NEW d \in LogSubs
      PROVE  Flow(d)' = Flow(d) \/ (d = c /\ Flow(d)' = seen[c] \o <<>>)
  <2>1. CASE Receive(c) /\ d = c
    <3>1. seen'[c] = Append(seen[c], Head(chan[c])) /\ chan'[c] = Tail(chan[c]) /\ chan[c] # <<>>
      BY <1>2, <2>1 DEF Receive
    <3>2. Append(seen[c], Head(chan[c])) \o Tail(chan[c]) = seen[c] \o chan[c]
      BY <1>2, <3>1, MoveHead
    <3>3. QED
      BY <2>1, <3>1, <3>2 DEF Flow
  <2>2. CASE CancelDelete(c) /\ d = c
    BY <1>2, <2>2 DEF CancelDelete, Flow
  <2>3. CASE d # c \/ CancelClose(c) \/ Clear \/ UNCHANGED logVars
    <3>1. seen'[d] = seen[d] /\ chan'[d] = chan[d]
      BY <1>2, <2>3 DEF Receive, CancelDelete, CancelClose, Clear, logVars
    <3>2. QED
      BY <3>1 DEF Flow
  <2>4. QED
    BY <2>1, <2>2, <2>3
<1>4. \A d \in LogSubs : /\ DOMAIN Flow(d)' \subseteq DOMAIN Flow(d)
                         /\ \A i \in DOMAIN Flow(d)' : Flow(d)'[i] = Flow(d)[i]
  <2>1. seen[c] \o <<>> = seen[c]
    BY <1>2
  <2>2. DOMAIN seen[c] \subseteq DOMAIN Flow(c) /\ \A i \in DOMAIN seen[c] : Flow(c)[i] = seen[c][i]
    BY FlowShape DEF LogInv
  <2>3. QED
    BY <1>3, <2>1, <2>2
<1>5. Sends' /\ Flows' /\ Histories'
  BY <1>1, <1>4, NothingAdded, HistoriesStay
<1>6. /\ seen' \in [LogSubs -> Seq(Lines)] /\ chan' \in [LogSubs -> Seq(Lines)]
      /\ sub' \in [LogSubs -> SubStates]
      /\ \A d \in LogSubs : sub'[d] = "out" =>
           sub[d] = "out" /\ seen'[d] = seen[d] /\ chan'[d] = chan[d]
  <2>1. CASE Receive(c)
    <3>1. Append(seen[c], Head(chan[c])) \in Seq(Lines) /\ Tail(chan[c]) \in Seq(Lines)
      BY <1>2, <2>1, MoveHead DEF Receive
    <3>2. seen' \in [LogSubs -> Seq(Lines)] /\ chan' \in [LogSubs -> Seq(Lines)]
      BY <1>2, <2>1, <3>1 DEF Receive
    <3>3. sub' = sub /\ sub[c] = "in" /\ \A d \in LogSubs \ {c} : seen'[d] = seen[d] /\ chan'[d] = chan[d]
      BY <1>2, <2>1 DEF Receive
    <3>4. sub \in [LogSubs -> SubStates]
      BY DEF LogInv, LogTypeOK
    <3>5. QED
      BY <3>2, <3>3, <3>4
  <2>2. CASE CancelDelete(c)
    BY <2>2 DEF CancelDelete, LogInv, LogTypeOK, SubStates
  <2>3. CASE CancelClose(c)
    BY <2>3 DEF CancelClose, LogInv, LogTypeOK, SubStates
  <2>4. CASE UNCHANGED <<seen, chan, sub>>
    BY <2>4 DEF LogInv, LogTypeOK
  <2>5. QED
    BY <2>1, <2>2, <2>3, <2>4 DEF Clear, logVars
<1>7. LogTypeOK'
  <2>1. ring' \in Seq(Lines)
    <3>1. ring \in Seq(Lines)
      BY DEF LogInv, LogTypeOK
    <3>2. <<>> \in Seq(Lines)
      OBVIOUS
    <3>3. QED
      BY <1>1, <3>1, <3>2, Zenon
  <2>2. QED
    BY <1>1, <1>6, <2>1 DEF LogInv, LogTypeOK
<1>8. RingLines' /\ Since'
  <2>1. DOMAIN <<>> = {}
    OBVIOUS
  <2>2. QED
    BY <1>1, <2>1 DEF LogInv, RingLines, Since
<1>9. Fresh'
  BY <1>1, <1>6 DEF LogInv, Fresh
<1>10. QED
  BY <1>5, <1>7, <1>8, <1>9 DEF LogInv

\* Every step keeps the invariant.
LEMMA LogInvKept == LogInv /\ [LogNext]_logVars => LogInv'
<1> SUFFICES ASSUME LogInv, [LogNext]_logVars PROVE LogInv'
  OBVIOUS
<1>1. CASE UNCHANGED logVars
  <2>1. CASE LogSubs # {}
    <3>1. PICK c \in LogSubs : TRUE
      BY <2>1
    <3>2. QED
      BY <1>1, <3>1, ReadersKeep
  <2>2. CASE LogSubs = {}
    BY <1>1, <2>2 DEF logVars, LogInv, LogTypeOK, RingLines, Since, Fresh, Sends, Histories, Flows
  <2>3. QED
    BY <2>1, <2>2
<1>2. CASE Clear
  <2>1. CASE LogSubs # {}
    <3>1. PICK c \in LogSubs : TRUE
      BY <2>1
    <3>2. QED
      BY <1>2, <3>1, ReadersKeep
  <2>2. CASE LogSubs = {}
    BY <1>2, <2>2 DEF Clear, LogInv, LogTypeOK, RingLines, Since, Fresh, Sends, Histories, Flows
  <2>3. QED
    BY <2>1, <2>2
<1>3. QED
  BY <1>1, <1>2, DispatchKeeps, SendLiveKeeps, SendHistoryKeeps, SubscribeKeeps, ReadersKeep
  DEF LogNext

-----------------------------------------------------------------------------
\* The inductive invariant, for all writers, subscriptions and sizes.
THEOREM LogInvariant == LogSpec => []LogInv
<1>1. LogInit => LogInv
  <2> SUFFICES ASSUME LogInit PROVE LogInv
    OBVIOUS
  <2>1. \A c \in LogSubs : seen[c] = <<>> /\ chan[c] = <<>> /\ history[c] = <<>>
    BY DEF LogInit
  <2>2. DOMAIN (<<>> \o <<>>) = {} /\ DOMAIN <<>> = {} /\ <<>> \in Seq(Lines)
    OBVIOUS
  <2>3. \A c \in LogSubs : DOMAIN Flow(c) = {}
    BY <2>1, <2>2 DEF Flow
  <2>4. LogTypeOK
    <3>1. 0 \in 0 .. MaxLines
      BY LogBounds
    <3>2. [w \in Writers |-> 0] \in [Writers -> 0 .. MaxLines]
      BY <3>1
    <3>3. since \in [LogSubs -> [Writers -> 0 .. MaxLines]] /\ lines \in [Writers -> 0 .. MaxLines]
      BY <3>2 DEF LogInit
    <3>4. ring \in Seq(Lines) /\ to \in [Writers -> SUBSET (LogSubs \X Lines)]
      BY <2>2 DEF LogInit
    <3>5. /\ chan \in [LogSubs -> Seq(Lines)] /\ history \in [LogSubs -> Seq(Lines)]
          /\ seen \in [LogSubs -> Seq(Lines)] /\ sub \in [LogSubs -> SubStates]
          /\ panicked \in BOOLEAN
      BY <2>2 DEF LogInit, SubStates
    <3>6. QED
      BY <3>3, <3>4, <3>5 DEF LogTypeOK
  <2>5. RingLines /\ Histories /\ Flows
    BY <2>1, <2>2, <2>3 DEF LogInit, RingLines, Histories, Flows
  <2>6. Since
    BY DEF LogInit, Since
  <2>7. Fresh /\ Sends
    BY <2>1 DEF LogInit, Fresh, Sends
  <2>8. QED
    BY <2>4, <2>5, <2>6, <2>7 DEF LogInv
<1>2. QED
  BY <1>1, LogInvKept, PTL DEF LogSpec

\* The lines of one writer that are newer than a subscription reach its client
\* in order, whatever the history goroutine puts between them (dispatch serves
\* all its subscribers before it returns).
THEOREM LiveInOrder == LogSpec => []LiveLinesInOrder
<1>1. LogInv => LiveLinesInOrder
  <2> SUFFICES ASSUME LogInv, NEW c \in LogSubs, NEW i \in DOMAIN seen[c], NEW j \in DOMAIN seen[c],
                      i < j, seen[c][i][1] = seen[c][j][1],
                      Live(c, seen[c][i]), Live(c, seen[c][j])
               PROVE  seen[c][i][2] < seen[c][j][2]
    BY DEF LiveLinesInOrder
  <2>1. /\ i \in DOMAIN Flow(c) /\ j \in DOMAIN Flow(c)
        /\ Flow(c)[i] = seen[c][i] /\ Flow(c)[j] = seen[c][j]
    BY FlowShape DEF LogInv
  <2>2. QED
    BY <2>1 DEF LogInv, Flows
<1>2. QED
  BY <1>1, LogInvariant, PTL

-----------------------------------------------------------------------------
\* The next line of a channel was logged and has not been seen yet.
LEMMA LineIsNew ==
  ASSUME LogInv, NEW c \in LogSubs, chan[c] # <<>>
  PROVE  /\ Head(chan[c]) \in Logged
         /\ \A i \in DOMAIN seen[c] : seen[c][i] # Head(chan[c])
<1> DEFINE n == Len(seen[c]) + 1
<1>1. seen[c] \in Seq(Lines) /\ chan[c] \in Seq(Lines)
  BY DEF LogInv, LogTypeOK
<1>2. Head(chan[c]) \in Lines
  BY <1>1, MoveHead
<1>3. n \in DOMAIN Flow(c) /\ Flow(c)[n] = Head(chan[c])
  BY <1>1, Junction DEF Flow
<1>4. \A i \in DOMAIN seen[c] : i # n
  BY <1>1
<1>5. \A i \in DOMAIN seen[c] : i \in DOMAIN Flow(c) /\ Flow(c)[i] = seen[c][i]
  BY FlowShape DEF LogInv
<1>6. QED
  BY <1>2, <1>3, <1>4, <1>5 DEF LogInv, Flows, Logged

\* The broker implements the fan-out: a client gets a line at most once, from
\* the history or live, and none before it subscribed or after it left.
THEOREM LogImplementsFanOut == LogSpec => LogIsFanOut
<1> DEFINE member == [c \in LogSubs |-> IF sub[c] = "leaving" THEN "gone" ELSE sub[c]]
<1>1. LogInit => LogFan!FanInit
  <2> SUFFICES ASSUME LogInit PROVE LogFan!FanInit
    OBVIOUS
  <2>1. \A l \in Lines : l[1] \in Writers /\ l[2] \in 1 .. MaxLines
    BY DEF Lines
  <2>2. Logged = {}
    BY <2>1, LogBounds DEF LogInit, Logged
  <2>3. member = [c \in LogSubs |-> "out"]
    BY DEF LogInit
  <2>4. seen = [c \in LogSubs |-> <<>>]
    BY DEF LogInit
  <2>5. QED
    BY <2>2, <2>3, <2>4 DEF LogFan!FanInit
<1>2. LogInv /\ [LogNext]_logVars => [LogFan!FanNext]_(LogFan!fanVars)
  <2> SUFFICES ASSUME LogInv, [LogNext]_logVars PROVE [LogFan!FanNext]_(LogFan!fanVars)
    OBVIOUS
  <2>1. CASE \E w \in Writers : Dispatch(w)
    <3> PICK w \in Writers : Dispatch(w)
      BY <2>1
    <3> DEFINE new == <<w, lines[w] + 1>>
    <3>1. lines[w] + 1 \in 1 .. MaxLines /\ new \in Lines
      BY RoomForOne DEF Dispatch, LogInv, Lines
    <3>2. /\ lines'[w] = lines[w] + 1 /\ lines[w] \in Nat
          /\ \A v \in Writers : lines[v] \in Nat /\ lines'[v] \in Nat /\ lines[v] <= lines'[v]
      BY LogBounds DEF Dispatch, LogInv, LogTypeOK
    <3>3. \A l \in Lines : l[1] \in Writers /\ l[2] \in Nat
      BY DEF Lines
    <3>4. Logged \subseteq Logged' /\ Logged' \subseteq Lines
      BY <3>2, <3>3 DEF Logged
    <3>5. new \in Logged' /\ new \notin Logged
      BY <3>1, <3>2 DEF Logged
    <3>6. UNCHANGED <<member, seen>>
      BY DEF Dispatch
    <3>7. LogFan!Publish
      BY <3>4, <3>5, <3>6 DEF LogFan!Publish
    <3>8. QED
      BY <3>7 DEF LogFan!FanNext
  <2>2. CASE \E c \in LogSubs : Subscribe(c)
    <3> PICK c \in LogSubs : Subscribe(c)
      BY <2>2
    <3>1. member[c] = "out" /\ member' = [member EXCEPT ![c] = "in"]
      BY DEF Subscribe, LogInv, LogTypeOK
    <3>2. UNCHANGED <<Logged, seen>>
      BY DEF Subscribe, Logged
    <3>3. LogFan!Join(c)
      BY <3>1, <3>2 DEF LogFan!Join
    <3>4. QED
      BY <3>3 DEF LogFan!FanNext
  <2>3. CASE \E c \in LogSubs : Receive(c)
    <3> PICK c \in LogSubs : Receive(c)
      BY <2>3
    <3>1. member[c] = "in" /\ chan[c] # <<>>
      BY DEF Receive
    <3>2. Head(chan[c]) \in Logged \ LogFan!Got(c) /\ Head(chan[c]) \in Lines
      BY <3>1, LineIsNew DEF LogFan!Got, Logged
    <3>3. seen' = [seen EXCEPT ![c] = Append(@, Head(chan[c]))]
      BY DEF Receive
    <3>4. UNCHANGED <<Logged, member>>
      BY DEF Receive, Logged
    <3>5. LogFan!Deliver(c)
      BY <3>1, <3>2, <3>3, <3>4 DEF LogFan!Deliver
    <3>6. QED
      BY <3>2, <3>5 DEF LogFan!FanNext
  <2>4. CASE \E c \in LogSubs : CancelDelete(c)
    <3> PICK c \in LogSubs : CancelDelete(c)
      BY <2>4
    <3>1. member[c] = "in" /\ member' = [member EXCEPT ![c] = "gone"]
      BY DEF CancelDelete, LogInv, LogTypeOK
    <3>2. UNCHANGED <<Logged, seen>>
      BY DEF CancelDelete, Logged
    <3>3. LogFan!Leave(c)
      BY <3>1, <3>2 DEF LogFan!Leave
    <3>4. QED
      BY <3>3 DEF LogFan!FanNext
  <2>5. CASE \E c \in LogSubs : CancelClose(c)
    <3>1. UNCHANGED member
      BY <2>5 DEF CancelClose, LogInv, LogTypeOK
    <3>2. UNCHANGED <<Logged, seen>>
      BY <2>5 DEF CancelClose, Logged
    <3>3. QED
      BY <3>1, <3>2 DEF LogFan!fanVars
  <2>6. CASE \/ \E w \in Writers, c \in LogSubs, l \in Lines : SendLive(w, c, l)
             \/ \E c \in LogSubs : SendHistory(c)
             \/ Clear
             \/ UNCHANGED logVars
    <3>1. UNCHANGED <<lines, sub, seen>>
      BY <2>6 DEF SendLive, SendHistory, Clear, logVars
    <3>2. QED
      BY <3>1 DEF LogFan!fanVars, Logged
  <2>7. QED
    BY <2>1, <2>2, <2>3, <2>4, <2>5, <2>6 DEF LogNext
<1>3. QED
  BY <1>1, <1>2, LogInvariant, PTL DEF LogSpec, LogIsFanOut, LogFan!FanSpec

-----------------------------------------------------------------------------
(***************************************************************************)
(* What EventBus guarantees for any handlers, subscriptions and channel    *)
(* sizes.  The trail of a subscription is what its client has been sent    *)
(* and will be: forwarded, then queued.  Forwarding leaves it as it is, so *)
(* only a send of publishEvent changes a trail; and since the mutex covers *)
(* the whole round of sends, the event under way is the last one in every  *)
(* trail that has it (LatestLast), whatever was dropped before.            *)
(***************************************************************************)

Trail(c) == forwarded[c] \o queue[c]

Latest(h) == <<h, events[h]>>

OneAtATime == \A h \in Handlers : rest[h] # {} => mu = h /\ events[h] > 0

Published ==
  \A c \in EventSubs : \A i \in DOMAIN Trail(c) : Trail(c)[i][2] <= events[Trail(c)[i][1]]

Once ==
  \A c \in EventSubs : \A i, j \in DOMAIN Trail(c) : Trail(c)[i] = Trail(c)[j] => i = j

NotYet ==
  \A h \in Handlers : \A c \in rest[h] :
    stream[c] # "gone" /\ \A i \in DOMAIN Trail(c) : Trail(c)[i] # Latest(h)

LatestLast ==
  \A c \in EventSubs : \A i \in DOMAIN Trail(c) :
    mu \in Handlers /\ Trail(c)[i] = Latest(mu) => i = Len(Trail(c))

Agree ==
  \A c, d \in EventSubs : \A i, j \in DOMAIN Trail(c) : \A k, l \in DOMAIN Trail(d) :
    i < j /\ k < l /\ Trail(d)[k] = Trail(c)[j] => Trail(d)[l] # Trail(c)[i]

TrailInv == Published /\ Once /\ LatestLast /\ Agree

BusInv == BusTypeOK /\ OneAtATime /\ NotYet /\ TrailInv

-----------------------------------------------------------------------------
\* Trails are sequences of events, and begin with what was forwarded.
LEMMA TrailShape ==
  ASSUME BusTypeOK, NEW c \in EventSubs
  PROVE  /\ Trail(c) \in Seq(Events)
         /\ DOMAIN forwarded[c] \subseteq DOMAIN Trail(c)
         /\ \A i \in DOMAIN forwarded[c] : Trail(c)[i] = forwarded[c][i]
<1>1. forwarded[c] \in Seq(Events) /\ queue[c] \in Seq(Events)
  BY DEF BusTypeOK
<1>2. QED
  BY <1>1, Prefix DEF Trail

-----------------------------------------------------------------------------
\* The types, one action at a time.
LEMMA BusTypesKept == BusInv /\ [BusNext]_busVars => BusTypeOK'
<1> SUFFICES ASSUME BusInv, [BusNext]_busVars PROVE BusTypeOK'
  OBVIOUS
<1> USE BusBounds
<1>1. ASSUME NEW h \in Handlers, PublishLock(h) PROVE BusTypeOK'
  BY <1>1 DEF BusInv, BusTypeOK, PublishLock, Subscribed
<1>2. ASSUME NEW h \in Handlers, PublishUnlock(h) PROVE BusTypeOK'
  BY <1>2 DEF BusInv, BusTypeOK, PublishUnlock
<1>3. ASSUME NEW h \in Handlers, NEW c \in EventSubs, PublishSend(h, c) PROVE BusTypeOK'
  <2>1. Latest(h) \in Events
    <3>1. events[h] \in 1 .. MaxEvents
      <4>1. rest[h] # {}
        BY <1>3 DEF PublishSend
      <4>2. events[h] > 0 /\ events[h] \in 0 .. MaxEvents
        BY <4>1 DEF BusInv, BusTypeOK, OneAtATime
      <4>3. QED
        BY <4>2
    <3>2. QED
      BY <3>1 DEF Latest, Events
  <2>2. queue' \in [EventSubs -> Seq(Events)]
    BY <1>3, <2>1 DEF BusInv, BusTypeOK, PublishSend, Latest
  <2>3. rest' \in [Handlers -> SUBSET EventSubs]
    BY <1>3 DEF BusInv, BusTypeOK, PublishSend
  <2>4. QED
    BY <1>3, <2>2, <2>3 DEF BusInv, BusTypeOK, PublishSend
<1>4. ASSUME NEW c \in EventSubs, Forward(c) PROVE BusTypeOK'
  <2>1. forwarded[c] \in Seq(Events) /\ queue[c] \in Seq(Events) /\ queue[c] # <<>>
    BY <1>4 DEF BusInv, BusTypeOK, Forward
  <2>2. Append(forwarded[c], Head(queue[c])) \in Seq(Events) /\ Tail(queue[c]) \in Seq(Events)
    BY <2>1, MoveHead
  <2>3. QED
    BY <1>4, <2>2 DEF BusInv, BusTypeOK, Forward
<1>5. ASSUME NEW c \in EventSubs, AddSubscriber(c) \/ Disconnect(c) \/ RemoveSubscriber(c)
      PROVE  BusTypeOK'
  BY <1>5 DEF BusInv, BusTypeOK, AddSubscriber, Disconnect, RemoveSubscriber
<1>6. CASE UNCHANGED busVars
  BY <1>6 DEF BusInv, BusTypeOK, busVars
<1>7. QED
  BY <1>1, <1>2, <1>3, <1>4, <1>5, <1>6 DEF BusNext

-----------------------------------------------------------------------------
\* A step that changes no trail and no count keeps what trails say, as long as
\* nobody takes the mutex.
LEMMA SameTrails ==
  ASSUME BusInv, \A c \in EventSubs : Trail(c)' = Trail(c), events' = events,
         mu' \in {mu, NoHandler}
  PROVE  TrailInv'
<1> USE BusBounds DEF BusInv, TrailInv
<1>1. Published' /\ Once' /\ Agree'
  BY DEF Published, Once, Agree
<1>2. LatestLast'
  BY DEF LatestLast, Latest
<1>3. QED
  BY <1>1, <1>2

\* Forwarding moves an event along its trail.
LEMMA ForwardKeepsTrails ==
  ASSUME BusTypeOK, NEW c \in EventSubs, Forward(c), NEW d \in EventSubs
  PROVE  Trail(d)' = Trail(d)
<1>1. CASE d = c
  <2>1. forwarded[c] \in Seq(Events) /\ queue[c] \in Seq(Events) /\ queue[c] # <<>>
    BY DEF BusTypeOK, Forward
  <2>2. forwarded'[c] = Append(forwarded[c], Head(queue[c])) /\ queue'[c] = Tail(queue[c])
    BY DEF BusTypeOK, Forward
  <2>3. Append(forwarded[c], Head(queue[c])) \o Tail(queue[c]) = forwarded[c] \o queue[c]
    BY <2>1, MoveHead
  <2>4. QED
    BY <1>1, <2>2, <2>3 DEF Trail
<1>2. CASE d # c
  <2>1. forwarded'[d] = forwarded[d] /\ queue'[d] = queue[d]
    BY <1>2 DEF BusTypeOK, Forward
  <2>2. QED
    BY <2>1 DEF Trail
<1>3. QED
  BY <1>1, <1>2

\* A send puts the event under way at the end of a trail, or drops it.
LEMMA SendExtendsTrail ==
  ASSUME BusInv, NEW h \in Handlers, NEW c \in EventSubs, PublishSend(h, c)
  PROVE  /\ Latest(h) \in Events
         /\ Trail(c)' \in {Trail(c), Append(Trail(c), Latest(h))}
         /\ \A d \in EventSubs \ {c} : Trail(d)' = Trail(d)
<1>1. Latest(h) \in Events
  <2>1. rest[h] # {} /\ events[h] \in 0 .. MaxEvents
    BY DEF BusInv, BusTypeOK, PublishSend
  <2>2. events[h] \in 1 .. MaxEvents
    BY <2>1, BusBounds DEF BusInv, OneAtATime
  <2>3. QED
    BY <2>2 DEF Latest, Events
<1>2. forwarded[c] \in Seq(Events) /\ queue[c] \in Seq(Events)
  BY DEF BusInv, BusTypeOK
<1>3. forwarded' = forwarded /\ queue'[c] \in {queue[c], Append(queue[c], Latest(h))}
  BY DEF BusInv, BusTypeOK, PublishSend, Latest
<1>4. Trail(c)' \in {Trail(c), Append(Trail(c), Latest(h))}
  <2>1. forwarded[c] \o Append(queue[c], Latest(h)) = Append(forwarded[c] \o queue[c], Latest(h))
    <3>1. \A s, t \in Seq(Events), e \in Events : s \o Append(t, e) = Append(s \o t, e)
      BY AddLast
    <3>2. QED
      BY <1>1, <1>2, <3>1, Zenon
  <2>2. QED
    BY <1>3, <2>1 DEF Trail
<1>5. ASSUME NEW d \in EventSubs \ {c} PROVE queue'[d] = queue[d]
  BY DEF BusInv, BusTypeOK, PublishSend
<1>6. QED
  BY <1>1, <1>3, <1>4, <1>5 DEF Trail

\* After a send: the event is last wherever it is, and new where it was put.
LEMMA SendKeeps ==
  ASSUME BusInv, NEW h \in Handlers, NEW c \in EventSubs, PublishSend(h, c)
  PROVE  TrailInv'
<1> DEFINE e == Latest(h)
<1>1. /\ mu = h /\ mu' = h /\ events' = events /\ events[h] > 0
      /\ stream' = stream /\ c \in rest[h]
  BY DEF PublishSend, BusInv, OneAtATime
<1>2. e \in Events /\ Trail(c) \in Seq(Events)
  BY SendExtendsTrail, TrailShape DEF BusInv
<1>3. \A d \in EventSubs : \A i \in DOMAIN Trail(d) : Trail(d)[i] = e => i = Len(Trail(d))
  BY <1>1 DEF BusInv, TrailInv, LatestLast
<1>4. \A i \in DOMAIN Trail(c) : Trail(c)[i] # e
  BY <1>1 DEF BusInv, NotYet
<1>5. \A d \in EventSubs \ {c} : Trail(d)' = Trail(d)
  BY SendExtendsTrail
<1>6. CASE Trail(c)' = Trail(c)
  <2>1. \A d \in EventSubs : Trail(d)' = Trail(d)
    BY <1>5, <1>6
  <2>2. QED
    BY <1>1, <2>1, SameTrails
<1>7. CASE Trail(c)' = Append(Trail(c), e)
  <2> DEFINE n == Len(Trail(c)) + 1
  <2>1. /\ n \in Nat /\ DOMAIN Trail(c)' = DOMAIN Trail(c) \cup {n} /\ Len(Trail(c)') = n
        /\ Trail(c)'[n] = e /\ n \notin DOMAIN Trail(c) /\ DOMAIN Trail(c) \subseteq Nat
        /\ \A i \in DOMAIN Trail(c) : Trail(c)'[i] = Trail(c)[i] /\ i < n
    BY <1>2, <1>7
  <2>2. Published'
    <3>1. e[1] = h /\ e[2] = events[h]
      BY DEF Latest
    <3>2. events[h] \in Nat
      BY DEF BusInv, BusTypeOK
    <3>3. QED
      BY <1>1, <1>5, <2>1, <3>1, <3>2 DEF BusInv, TrailInv, Published
  <2>3. Once'
    BY <1>4, <1>5, <2>1 DEF BusInv, TrailInv, Once
  <2>4. LatestLast'
    <3>1. Latest(mu)' = e
      BY <1>1 DEF Latest
    <3>2. ASSUME NEW d \in EventSubs, NEW i \in DOMAIN Trail(d)', Trail(d)'[i] = e
          PROVE  i = Len(Trail(d)')
      <4>1. CASE d = c
        BY <4>1, <3>2, <1>4, <2>1
      <4>2. CASE d # c
        BY <4>2, <3>2, <1>3, <1>5
      <4>3. QED
        BY <4>1, <4>2
    <3>3. QED
      BY <3>1, <3>2 DEF LatestLast
  <2>5. Agree'
    <3> SUFFICES ASSUME NEW a \in EventSubs, NEW b \in EventSubs,
                        NEW i \in DOMAIN Trail(a)', NEW j \in DOMAIN Trail(a)',
                        NEW k \in DOMAIN Trail(b)', NEW l \in DOMAIN Trail(b)',
                        i < j, k < l, Trail(b)'[k] = Trail(a)'[j], Trail(b)'[l] = Trail(a)'[i]
                 PROVE  FALSE
      BY DEF Agree
    <3>1. Trail(a)' = Trail(a) \/ a = c
      BY <1>5
    <3>2. Trail(b)' = Trail(b) \/ b = c
      BY <1>5
    <3>3. \A d \in EventSubs : DOMAIN Trail(d) = 1 .. Len(Trail(d)) /\ Len(Trail(d)) \in Nat
      BY TrailShape DEF BusInv
    \* e is the last of a trail, so it is neither the first of the pair in one
    \* nor, if it is the second, the first of it in the other.
    <3>4. Trail(a)'[i] # e
      BY <1>3, <1>4, <2>1, <3>1, <3>3
    <3>5. Trail(b)'[k] # e
      BY <1>3, <1>4, <2>1, <3>2, <3>3
    <3>6. i \in DOMAIN Trail(a) /\ Trail(a)[i] = Trail(a)'[i]
      BY <2>1, <3>1, <3>4
    <3>7. j \in DOMAIN Trail(a) /\ Trail(a)[j] = Trail(a)'[j]
      BY <2>1, <3>1, <3>5
    <3>8. k \in DOMAIN Trail(b) /\ Trail(b)[k] = Trail(b)'[k]
      BY <2>1, <3>2, <3>5
    <3>9. l \in DOMAIN Trail(b) /\ Trail(b)[l] = Trail(b)'[l]
      BY <2>1, <3>2, <3>4
    <3>10. QED
      BY <3>6, <3>7, <3>8, <3>9 DEF BusInv, TrailInv, Agree
  <2>6. QED
    BY <2>2, <2>3, <2>4, <2>5 DEF TrailInv
<1>8. QED
  BY <1>6, <1>7, SendExtendsTrail

\* A new event is in no trail yet.
LEMMA LockKeeps ==
  ASSUME BusInv, NEW h \in Handlers, PublishLock(h)
  PROVE  TrailInv' /\ NotYet'
<1>1. \A c \in EventSubs : Trail(c)' = Trail(c) /\ Trail(c) \in Seq(Events)
  BY TrailShape DEF PublishLock, Trail, BusInv
<1>2. /\ mu' = h /\ stream' = stream /\ events'[h] = events[h] + 1
      /\ \A g \in Handlers \ {h} : events'[g] = events[g]
      /\ \A g \in Handlers : events[g] \in Nat
  BY BusBounds DEF PublishLock, BusInv, BusTypeOK
<1>3. \A c \in EventSubs : \A i \in DOMAIN Trail(c) :
        Trail(c)[i][1] \in Handlers /\ Trail(c)[i][2] \in Nat
  BY <1>1 DEF Events
<1>4. Published'
  BY <1>1, <1>2, <1>3 DEF BusInv, TrailInv, Published
<1>5. Once' /\ Agree'
  BY <1>1 DEF BusInv, TrailInv, Once, Agree
<1>6. \A c \in EventSubs : \A i \in DOMAIN Trail(c) : Trail(c)[i] # Latest(h)'
  BY <1>2, <1>3 DEF BusInv, TrailInv, Published, Latest
<1>7. LatestLast'
  BY <1>1, <1>2, <1>6 DEF LatestLast, Latest
<1>8. NotYet'
  <2>1. \A g \in Handlers : rest'[g] = IF g = h THEN Subscribed ELSE {}
    BY BusBounds DEF PublishLock, MuFree, BusInv, BusTypeOK, OneAtATime
  <2>2. ASSUME NEW g \in Handlers, NEW c \in rest'[g]
        PROVE  g = h /\ c \in EventSubs /\ stream'[c] # "gone"
    BY <1>2, <2>1 DEF Subscribed
  <2>3. QED
    BY <1>1, <1>6, <2>2 DEF NotYet
<1>9. QED
  BY <1>4, <1>5, <1>7, <1>8 DEF TrailInv
\* The rest of the actions leave the trails alone, and nobody unsubscribes
\* while an event is under way.
LEMMA OthersKeep ==
  ASSUME BusInv, \/ \E h \in Handlers : PublishUnlock(h)
                 \/ \E c \in EventSubs : AddSubscriber(c) \/ Forward(c) \/ Disconnect(c)
                                          \/ RemoveSubscriber(c)
                 \/ UNCHANGED busVars
  PROVE  OneAtATime' /\ NotYet' /\ TrailInv'
<1>1. \A c \in EventSubs : Trail(c)' = Trail(c)
  <2>1. CASE \E c \in EventSubs : Forward(c)
    BY <2>1, ForwardKeepsTrails DEF BusInv
  <2>2. CASE UNCHANGED <<queue, forwarded>>
    BY <2>2 DEF Trail
  <2>3. QED
    BY <2>1, <2>2 DEF PublishUnlock, AddSubscriber, Disconnect, RemoveSubscriber, busVars
<1>2. /\ events' = events /\ mu' \in {mu, NoHandler} /\ rest' = rest
      /\ mu' # mu => rest[mu] = {} /\ mu \in Handlers
  BY DEF PublishUnlock, AddSubscriber, Forward, Disconnect, RemoveSubscriber, busVars
<1>3. TrailInv'
  BY <1>1, <1>2, SameTrails
<1>4. OneAtATime'
  BY <1>2 DEF BusInv, OneAtATime
<1>5. \A h \in Handlers : \A c \in rest[h] : stream'[c] # "gone"
  <2>1. ASSUME NEW d \in EventSubs, RemoveSubscriber(d) PROVE \A h \in Handlers : rest[h] = {}
    BY <2>1, BusBounds DEF RemoveSubscriber, MuFree, BusInv, OneAtATime
  <2>2. ASSUME NEW d \in EventSubs, AddSubscriber(d) \/ Disconnect(d), NEW h \in Handlers,
               NEW c \in rest[h]
        PROVE  stream'[c] # "gone"
    BY <2>2 DEF AddSubscriber, Disconnect, BusInv, BusTypeOK, NotYet
  <2>3. CASE stream' = stream
    BY <2>3 DEF BusInv, NotYet
  <2>4. QED
    BY <2>1, <2>2, <2>3 DEF PublishUnlock, Forward, busVars
<1>6. NotYet'
  <2>1. \A h \in Handlers : rest[h] \subseteq EventSubs
    BY DEF BusInv, BusTypeOK
  <2>2. QED
    BY <1>1, <1>2, <1>5, <2>1 DEF BusInv, NotYet, Latest
<1>7. QED
  BY <1>3, <1>4, <1>6

\* Every step keeps the invariant.
LEMMA BusInvKept == BusInv /\ [BusNext]_busVars => BusInv'
<1> SUFFICES ASSUME BusInv, [BusNext]_busVars PROVE OneAtATime' /\ NotYet' /\ TrailInv'
  BY BusTypesKept DEF BusInv
<1>1. ASSUME NEW h \in Handlers, PublishLock(h) PROVE OneAtATime' /\ NotYet' /\ TrailInv'
  <2>1. OneAtATime'
    BY <1>1, BusBounds DEF PublishLock, MuFree, BusInv, BusTypeOK, OneAtATime
  <2>2. QED
    BY <1>1, <2>1, LockKeeps
<1>2. ASSUME NEW h \in Handlers, NEW c \in EventSubs, PublishSend(h, c)
      PROVE  OneAtATime' /\ NotYet' /\ TrailInv'
  <2>1. OneAtATime'
    BY <1>2 DEF PublishSend, BusInv, BusTypeOK, OneAtATime
  <2>2. NotYet'
    <3>1. \A g \in Handlers : rest'[g] \subseteq rest[g] \ {c}
      BY <1>2 DEF PublishSend, BusInv, BusTypeOK, OneAtATime
    <3>2. \A d \in EventSubs \ {c} : Trail(d)' = Trail(d)
      BY <1>2, SendExtendsTrail
    <3>3. events' = events /\ stream' = stream
      BY <1>2 DEF PublishSend
    <3>4. \A g \in Handlers : rest[g] \subseteq EventSubs
      BY DEF BusInv, BusTypeOK
    <3>5. QED
      BY <3>1, <3>2, <3>3, <3>4 DEF BusInv, NotYet, Latest
  <2>3. QED
    BY <1>2, <2>1, <2>2, SendKeeps
<1>3. QED
  BY <1>1, <1>2, OthersKeep DEF BusNext

-----------------------------------------------------------------------------
\* The inductive invariant, for all handlers, subscriptions and bounds.
THEOREM BusInvariant == BusSpec => []BusInv
<1>1. BusInit => BusInv
  <2> SUFFICES ASSUME BusInit PROVE BusInv
    OBVIOUS
  <2>1. \A c \in EventSubs : Trail(c) = <<>>
    BY DEF BusInit, Trail
  <2>2. TrailInv
    BY <2>1 DEF TrailInv, Published, Once, LatestLast, Agree
  <2>3. BusTypeOK
    BY BusBounds DEF BusInit, BusTypeOK
  <2>4. OneAtATime /\ NotYet
    BY DEF BusInit, OneAtATime, NotYet
  <2>5. QED
    BY <2>2, <2>3, <2>4 DEF BusInv
<1>2. QED
  BY <1>1, BusInvKept, PTL DEF BusSpec

\* Any two clients agree on the order of the events both were sent, whatever
\* was dropped for either, and no send meets a closed channel (publishEvent
\* and removeSubscriber under one mutex).
THEOREM AgreementOnOrder == BusSpec => []ClientsAgreeOnOrder
<1>1. BusInv => ClientsAgreeOnOrder
  <2> SUFFICES ASSUME BusInv PROVE ClientsAgreeOnOrder
    OBVIOUS
  <2>1. \A h \in Handlers : \A c \in rest[h] : stream[c] # "gone"
    BY DEF BusInv, NotYet
  <2>2. ASSUME NEW c \in EventSubs, NEW d \in EventSubs,
               NEW i \in DOMAIN forwarded[c], NEW j \in DOMAIN forwarded[c], i < j,
               NEW k \in DOMAIN forwarded[d], NEW l \in DOMAIN forwarded[d], k < l,
               forwarded[d][k] = forwarded[c][j], forwarded[d][l] = forwarded[c][i]
        PROVE  FALSE
    <3>1. /\ i \in DOMAIN Trail(c) /\ j \in DOMAIN Trail(c)
          /\ Trail(c)[i] = forwarded[c][i] /\ Trail(c)[j] = forwarded[c][j]
      BY TrailShape DEF BusInv
    <3>2. /\ k \in DOMAIN Trail(d) /\ l \in DOMAIN Trail(d)
          /\ Trail(d)[k] = forwarded[d][k] /\ Trail(d)[l] = forwarded[d][l]
      BY TrailShape DEF BusInv
    <3>3. QED
      BY <2>2, <3>1, <3>2 DEF BusInv, TrailInv, Agree
  <2>3. QED
    BY <2>1, <2>2 DEF ClientsAgreeOnOrder, Before
<1>2. QED
  BY <1>1, BusInvariant, PTL

-----------------------------------------------------------------------------
\* The next event of a queue was published and has not been forwarded yet.
LEMMA EventIsNew ==
  ASSUME BusInv, NEW c \in EventSubs, queue[c] # <<>>
  PROVE  /\ Head(queue[c]) \in Events
         /\ Head(queue[c])[2] <= events[Head(queue[c])[1]]
         /\ \A i \in DOMAIN forwarded[c] : forwarded[c][i] # Head(queue[c])
<1> DEFINE n == Len(forwarded[c]) + 1
<1>1. forwarded[c] \in Seq(Events) /\ queue[c] \in Seq(Events)
  BY DEF BusInv, BusTypeOK
<1>2. Head(queue[c]) \in Events
  BY <1>1, MoveHead
<1>3. n \in DOMAIN Trail(c) /\ Trail(c)[n] = Head(queue[c])
  BY <1>1, Junction DEF Trail
<1>4. \A i \in DOMAIN forwarded[c] : i # n
  BY <1>1
<1>5. \A i \in DOMAIN forwarded[c] : i \in DOMAIN Trail(c) /\ Trail(c)[i] = forwarded[c][i]
  BY TrailShape DEF BusInv
<1>6. QED
  BY <1>2, <1>3, <1>4, <1>5 DEF BusInv, TrailInv, Published, Once

\* The bus implements the fan-out: a client receives an event at most once,
\* nothing that was not published, and nothing before it joined or after it
\* left.
THEOREM BusImplementsFanOut == BusSpec => BusIsFanOut
<1>1. BusInit => BusFan!FanInit
  <2> SUFFICES ASSUME BusInit PROVE BusFan!FanInit
    OBVIOUS
  <2>1. \A e \in Events : e[1] \in Handlers /\ e[2] \in 1 .. MaxEvents
    BY DEF Events
  <2>2. {e \in Events : e[2] <= events[e[1]]} = {}
    BY <2>1, BusBounds DEF BusInit
  <2>3. [c \in EventSubs |-> IF stream[c] = "left" THEN "gone" ELSE stream[c]]
          = [c \in EventSubs |-> "out"]
    BY DEF BusInit
  <2>4. forwarded = [c \in EventSubs |-> <<>>]
    BY DEF BusInit
  <2>5. QED
    BY <2>2, <2>3, <2>4 DEF BusFan!FanInit
<1>2. BusInv /\ [BusNext]_busVars => [BusFan!FanNext]_(BusFan!fanVars)
  <2> SUFFICES ASSUME BusInv, [BusNext]_busVars PROVE [BusFan!FanNext]_(BusFan!fanVars)
    OBVIOUS
  <2> DEFINE published == {e \in Events : e[2] <= events[e[1]]}
             member == [c \in EventSubs |-> IF stream[c] = "left" THEN "gone" ELSE stream[c]]
  <2>1. CASE \E h \in Handlers : PublishLock(h)
    <3> PICK h \in Handlers : PublishLock(h)
      BY <2>1
    <3>1. /\ events'[h] = events[h] + 1 /\ events[h] \in Nat /\ events[h] + 1 <= MaxEvents
          /\ \A g \in Handlers : events[g] \in Nat /\ events[g] <= events'[g]
          /\ \A g \in Handlers : events'[g] \in Nat
      BY BusBounds DEF PublishLock, BusInv, BusTypeOK
    <3>2. \A e \in Events : e[1] \in Handlers /\ e[2] \in 1 .. MaxEvents
      BY DEF Events
    <3>3. published \subseteq published' /\ published' \subseteq Events
      BY <3>1, <3>2
    <3>4. Latest(h)' \in published' /\ Latest(h)' \notin published
      BY <3>1, BusBounds DEF Latest, Events
    <3>5. UNCHANGED <<member, forwarded>>
      BY DEF PublishLock
    <3>6. BusFan!Publish
      BY <3>3, <3>4, <3>5 DEF BusFan!Publish
    <3>7. QED
      BY <3>6 DEF BusFan!FanNext
  <2>2. CASE \E c \in EventSubs : AddSubscriber(c)
    <3> PICK c \in EventSubs : AddSubscriber(c)
      BY <2>2
    <3>1. member[c] = "out" /\ member' = [member EXCEPT ![c] = "in"]
      BY DEF AddSubscriber, BusInv, BusTypeOK
    <3>2. UNCHANGED <<published, forwarded>>
      BY DEF AddSubscriber
    <3>3. BusFan!Join(c)
      BY <3>1, <3>2 DEF BusFan!Join
    <3>4. QED
      BY <3>3 DEF BusFan!FanNext
  <2>3. CASE \E c \in EventSubs : Forward(c)
    <3> PICK c \in EventSubs : Forward(c)
      BY <2>3
    <3>1. member[c] = "in" /\ queue[c] # <<>>
      BY DEF Forward
    <3>2. Head(queue[c]) \in published \ BusFan!Got(c)
      BY <3>1, EventIsNew DEF BusFan!Got
    <3>3. forwarded' = [forwarded EXCEPT ![c] = Append(@, Head(queue[c]))]
      BY DEF Forward
    <3>4. UNCHANGED <<published, member>>
      BY DEF Forward
    <3>5. BusFan!Deliver(c)
      BY <3>1, <3>2, <3>3, <3>4 DEF BusFan!Deliver
    <3>6. Head(queue[c]) \in Events
      BY <3>2
    <3>7. QED
      BY <3>5, <3>6 DEF BusFan!FanNext
  <2>4. CASE \E c \in EventSubs : Disconnect(c)
    <3> PICK c \in EventSubs : Disconnect(c)
      BY <2>4
    <3>1. member[c] = "in" /\ member' = [member EXCEPT ![c] = "gone"]
      BY DEF Disconnect, BusInv, BusTypeOK
    <3>2. UNCHANGED <<published, forwarded>>
      BY DEF Disconnect
    <3>3. BusFan!Leave(c)
      BY <3>1, <3>2 DEF BusFan!Leave
    <3>4. QED
      BY <3>3 DEF BusFan!FanNext
  <2>5. CASE \E c \in EventSubs : RemoveSubscriber(c)
    <3>1. UNCHANGED member
      BY <2>5 DEF RemoveSubscriber, BusInv, BusTypeOK
    <3>2. UNCHANGED <<published, forwarded>>
      BY <2>5 DEF RemoveSubscriber
    <3>3. QED
      BY <3>1, <3>2 DEF BusFan!fanVars
  <2>6. CASE \/ \E h \in Handlers : PublishUnlock(h)
             \/ \E h \in Handlers, c \in EventSubs : PublishSend(h, c)
             \/ UNCHANGED busVars
    <3>1. UNCHANGED <<events, stream, forwarded>>
      BY <2>6 DEF PublishUnlock, PublishSend, busVars
    <3>2. QED
      BY <3>1 DEF BusFan!fanVars
  <2>7. QED
    BY <2>1, <2>2, <2>3, <2>4, <2>5, <2>6 DEF BusNext
<1>3. QED
  BY <1>1, <1>2, BusInvariant, PTL DEF BusSpec, BusIsFanOut, BusFan!FanSpec
=============================================================================
