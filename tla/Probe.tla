--------------------------------- MODULE Probe ---------------------------------
(***************************************************************************)
(* How a supervisor proves that the kernel it watches is alive.  The kernel's *)
(* bridge (supervision_bridge.py) registers it, publishes the stage its main  *)
(* thread waits for, and answers probe requests from a thread of its own;     *)
(* the supervisor (supervisor.py) writes a request, waits for the answer,     *)
(* reads the files again, compares, and writes a heartbeat; the status        *)
(* command (supervision_status.py) tells from the latest heartbeat what is     *)
(* known.  All of it goes through files that each process reads one after      *)
(* another while the others rewrite them.                                     *)
(*                                                                         *)
(* Of time only the age of the latest heartbeat is kept, in three steps that  *)
(* the code tells apart; whether a request has expired when the bridge looks, *)
(* or its deadline has passed when the supervisor does, is left open.  Probe   *)
(* sequence numbers are left out: the nonce of a request is unique by itself.  *)
(***************************************************************************)
EXTENDS Naturals, FiniteSets

CONSTANTS
  Kernels,     \* kernel invocations, each a process
  None,        \* absent file or value
  MaxSaves,    \* bound: saves of run_state.json
  MaxStages    \* bound: stages a kernel starts

ASSUME ProbeAssumption ==
  /\ None \notin Kernels
  /\ MaxSaves \in Nat /\ MaxStages \in Nat

VARIABLES
  run_state,           \* run_state.json: its version, and the state it tells
  bridge_registration, active_stage, probe_request, probe_ack,
  heartbeat,           \* the latest heartbeat
  age,                 \* of the latest heartbeat
  kernel,              \* a kernel's main thread
  bridge,              \* its bridge's thread
  supervisor,          \* the supervisor at work
  session,             \* its session: the first kernel spawned in it, None before
  since                \* history: what happened since the request under way

files == <<bridge_registration, active_stage, probe_request, probe_ack>>
vars  == <<run_state, files, heartbeat, age, kernel, bridge, supervisor, session,
           since>>

-----------------------------------------------------------------------------
(* Data *)

States   == {"working", "stopped"}
RunState == [version : 0..MaxSaves, state : States]
Stage    == [kernel : Kernels, number : 1..MaxStages]

\* A nonce is compared with that of the latest request only: writing a request
\* makes all there are those of earlier ones.
Nonces   == {"latest", "earlier"}

\* own: written in the session in which the kernel was spawned.
Request  == [kernel : Kernels, nonce : Nonces, own : BOOLEAN]

\* An answer names its kernel's session.  fresh: acked_at is after the second of
\* the latest heartbeat.  That it is not after the request's expiry is not kept:
\* a late answer is as good as none.
Ack ==
  [kernel : Kernels, nonce : Nonces, snapshot : RunState, stage : Stage \cup {None},
   fresh : BOOLEAN]

ClaimClasses == {"live_attached", "attachment_unproven", "waiting_state_observed",
                 "terminal_observed", "snapshot_only"}
\* The snapshot it carries is what its supervisor had read when it wrote it.
Heartbeat == [claim : ClaimClasses, kernel : Kernels \cup {None}]

\* This very second; within live_stale_timeout_sec; older.
Ages == 0..2

NoSnapshot == [version |-> 0, state |-> "working"]

Begun ==
  [pc |-> "begin", kernel |-> None, request |-> None, ack |-> None, registration |-> None,
   stage |-> None, snapshot |-> NoSnapshot]

NoBridge ==
  [pc |-> "off", request |-> None, last_ack |-> "earlier", snapshot |-> NoSnapshot,
   stage |-> None]

NothingSince == [states |-> {}, answered |-> {}]

Alive(k) == kernel[k].pc \notin {"unborn", "ended", "killed"}

Outdated(message) ==
  IF message = None THEN None ELSE [message EXCEPT !.nonce = "earlier"]

Init ==
  /\ run_state = [version |-> 0, state |-> "working"]
  /\ bridge_registration = None /\ active_stage = None
  /\ probe_request = None /\ probe_ack = None
  /\ heartbeat = None /\ age = 2
  /\ kernel = [k \in Kernels |->
                 [pc |-> "unborn", session |-> None, stages |-> 0, child |-> FALSE]]
  /\ bridge = [k \in Kernels |-> NoBridge]
  /\ supervisor = Begun /\ session = None
  /\ since = NothingSince

-----------------------------------------------------------------------------
(* The kernel's main thread *)

MainThread(k, from, to) ==
  /\ kernel[k].pc = from
  /\ kernel' = [kernel EXCEPT ![k].pc = to]
  /\ UNCHANGED <<run_state, heartbeat, age, supervisor, session, since>>

\* RuntimeProbeBridge.start: what earlier kernels left is unlinked before the
\* registration tells of this one.
StartBridge(k) ==
  /\ MainThread(k, "starting", "running")
  /\ probe_request' = None /\ probe_ack' = None /\ active_stage' = None
  /\ bridge_registration' = k
  /\ bridge' = [bridge EXCEPT ![k].pc = "waiting"]

\* A bridge that cannot start is done without.
StartWithoutBridge(k) ==
  /\ MainThread(k, "starting", "running")
  /\ UNCHANGED <<files, bridge>>

Save(k) ==
  /\ kernel[k].pc = "running" /\ ~kernel[k].child
  /\ run_state.version < MaxSaves
  /\ \E s \in States : run_state' = [version |-> run_state.version + 1, state |-> s]
  /\ since' = IF since.states = {} THEN since
              ELSE [since EXCEPT !.states = @ \cup {run_state'}]
  /\ UNCHANGED <<files, heartbeat, age, kernel, bridge, supervisor, session>>

\* run_with_active_stage: the main thread waits for its child, which ends or is
\* killed at its timeout.
PublishActiveStage(k) ==
  /\ kernel[k].pc = "running" /\ bridge[k].pc # "off"
  /\ ~kernel[k].child /\ kernel[k].stages < MaxStages
  /\ kernel' = [kernel EXCEPT ![k].stages = @ + 1, ![k].child = TRUE]
  /\ active_stage' = [kernel |-> k, number |-> kernel'[k].stages]
  /\ UNCHANGED <<run_state, bridge_registration, probe_request, probe_ack, heartbeat,
                 age, bridge, supervisor, session, since>>

\* The file is unlinked, whoever published it.
ClearActiveStage(k) ==
  /\ kernel[k].pc = "running" /\ kernel[k].child
  /\ kernel' = [kernel EXCEPT ![k].child = FALSE]
  /\ active_stage' = None
  /\ UNCHANGED <<run_state, bridge_registration, probe_request, probe_ack, heartbeat,
                 age, bridge, supervisor, session, since>>

\* RuntimeProbeBridge.stop: the thread is told to end, and joined for a second.
StopBridge(k) ==
  /\ bridge[k].pc # "off" /\ ~kernel[k].child
  /\ MainThread(k, "running", "stopping")
  /\ UNCHANGED <<files, bridge>>

UnlinkFiles(k) ==
  /\ MainThread(k, "stopping", "unlinked")
  /\ active_stage' = None /\ probe_ack' = None /\ probe_request' = None
  /\ UNCHANGED <<bridge_registration, bridge>>

\* A thread that could not be joined ends with the process.
Unregister(k) ==
  /\ MainThread(k, "unlinked", "ended")
  /\ bridge_registration' = None
  /\ bridge' = [bridge EXCEPT ![k] = [NoBridge EXCEPT !.pc = "dead"]]
  /\ UNCHANGED <<active_stage, probe_request, probe_ack>>

EndWithoutBridge(k) ==
  /\ bridge[k].pc = "off" /\ ~kernel[k].child
  /\ MainThread(k, "running", "ended")
  /\ UNCHANGED <<files, bridge>>

KernelDies(k) ==
  /\ Alive(k)
  /\ kernel' = [kernel EXCEPT ![k].pc = "killed"]
  /\ bridge' = [bridge EXCEPT ![k] = IF @.pc = "off" THEN @
                                     ELSE [NoBridge EXCEPT !.pc = "dead"]]
  /\ UNCHANGED <<run_state, files, heartbeat, age, supervisor, session, since>>

KernelNext(k) ==
  \/ StartBridge(k) \/ StartWithoutBridge(k) \/ Save(k)
  \/ PublishActiveStage(k) \/ ClearActiveStage(k) \/ StopBridge(k) \/ UnlinkFiles(k)
  \/ Unregister(k) \/ EndWithoutBridge(k) \/ KernelDies(k)

-----------------------------------------------------------------------------
(* The bridge's thread: _serve_loop *)

ServeLoop(k, from, thread) ==
  /\ bridge[k].pc = from
  /\ bridge' = [bridge EXCEPT ![k] = thread]
  /\ UNCHANGED <<run_state, bridge_registration, active_stage, probe_request, heartbeat,
                 age, kernel, supervisor, session>>

\* A request for this kernel, from its own supervisor, not dealt with yet.
Matches(k) ==
  /\ kernel[k].pc = "running"
  /\ probe_request # None
  /\ probe_request.kernel = k /\ probe_request.own
  /\ probe_request.nonce # bridge[k].last_ack

MatchRequest(k) ==
  /\ Matches(k)
  /\ ServeLoop(k, "waiting", [bridge[k] EXCEPT !.pc = "state", !.request = probe_request])
  /\ UNCHANGED <<probe_ack, since>>

IgnoreExpired(k) ==
  /\ Matches(k)
  /\ ServeLoop(k, "waiting", [bridge[k] EXCEPT !.last_ack = probe_request.nonce])
  /\ UNCHANGED <<probe_ack, since>>

\* kernel_snapshot_from_run_state reads the file, then hashes it; then the stage.
BridgeReadsState(k) ==
  /\ ServeLoop(k, "state",
               [bridge[k] EXCEPT !.pc = "hash", !.snapshot.state = run_state.state])
  /\ UNCHANGED <<probe_ack, since>>

BridgeHashesState(k) ==
  /\ ServeLoop(k, "hash",
               [bridge[k] EXCEPT !.pc = "ack", !.snapshot.version = run_state.version,
                                 !.stage = active_stage])
  /\ UNCHANGED <<probe_ack, since>>

\* The stage ends between the look for its file and the read.
BridgeRetries(k) ==
  /\ ServeLoop(k, "hash", [NoBridge EXCEPT !.pc = "waiting", !.last_ack = bridge[k].last_ack])
  /\ UNCHANGED <<probe_ack, since>>

WriteAck(k) ==
  /\ ServeLoop(k, "ack",
               [NoBridge EXCEPT !.pc = "waiting", !.last_ack = bridge[k].request.nonce])
  /\ probe_ack' = [kernel |-> k, nonce |-> bridge[k].request.nonce,
                   snapshot |-> bridge[k].snapshot, stage |-> bridge[k].stage,
                   fresh |-> heartbeat = None \/ age > 0]
  /\ since' = IF since.states = {} THEN since
              ELSE [since EXCEPT !.answered = @ \cup {k}]

\* A write that fails is not caught: the thread ends, the kernel goes on.
BridgeThreadDies(k) ==
  /\ ServeLoop(k, "ack", [NoBridge EXCEPT !.pc = "dead"])
  /\ UNCHANGED <<probe_ack, since>>

BridgeNext(k) ==
  \/ MatchRequest(k) \/ IgnoreExpired(k) \/ BridgeReadsState(k) \/ BridgeHashesState(k)
  \/ BridgeRetries(k) \/ WriteAck(k) \/ BridgeThreadDies(k)

-----------------------------------------------------------------------------
(* The supervisor *)

Supervise(from, next) ==
  /\ supervisor.pc = from /\ supervisor' = next
  /\ UNCHANGED <<run_state, bridge_registration, active_stage, session>>

\* attach_existing_live_kernel, or nothing to monitor.
Begin ==
  /\ Supervise("begin",
       IF bridge_registration # None /\ Alive(bridge_registration)
       THEN [supervisor EXCEPT !.pc = "monitor", !.kernel = bridge_registration]
       ELSE [supervisor EXCEPT !.pc = "classify"])
  /\ UNCHANGED <<probe_request, probe_ack, heartbeat, age, kernel, bridge, since>>

AppendHeartbeat(claim, k) ==
  /\ heartbeat' = [claim |-> claim, kernel |-> k]
  /\ age' = 0

\* manage without a kernel: what the run's state calls for is not told here.
Observe(claim, next) ==
  /\ Supervise("classify", next)
  /\ AppendHeartbeat(claim, None)
  /\ UNCHANGED <<probe_request, probe_ack, kernel, bridge, since>>

ObserveWaiting  == Observe("waiting_state_observed", supervisor)
ObserveTerminal == Observe("terminal_observed", [supervisor EXCEPT !.pc = "off"])
ObserveSnapshot == Observe("snapshot_only", [supervisor EXCEPT !.pc = "spawn"])

SpawnKernel(k) ==
  /\ kernel[k].pc = "unborn"
  /\ supervisor.pc = "spawn"
  /\ supervisor' = [supervisor EXCEPT !.pc = "monitor", !.kernel = k]
  /\ session' = IF session = None THEN k ELSE session
  /\ kernel' = [kernel EXCEPT ![k].pc = "starting", ![k].session = session']
  /\ UNCHANGED <<run_state, files, heartbeat, age, bridge, since>>

\* _monitor_kernel_invocation.
MonitorEnds ==
  /\ Supervise("monitor", [supervisor EXCEPT !.pc = "classify", !.kernel = None])
  /\ ~Alive(supervisor.kernel)
  /\ UNCHANGED <<probe_request, probe_ack, heartbeat, age, kernel, bridge, since>>

\* _probe_once.
UnlinkAck ==
  /\ Supervise("monitor", [supervisor EXCEPT !.pc = "request"])
  /\ Alive(supervisor.kernel)
  /\ probe_ack' = None
  /\ UNCHANGED <<probe_request, heartbeat, age, kernel, bridge, since>>

WriteRequest_slip ==
  LET request == [kernel |-> supervisor.kernel, nonce |-> "latest",
                  own |-> kernel[supervisor.kernel].session = session]
  IN  /\ Supervise("request", [supervisor EXCEPT !.pc = "await", !.request = request])
      /\ probe_request' = request
      /\ since' = [states |-> {run_state}, answered |-> {}]
      /\ UNCHANGED <<probe_ack, bridge, heartbeat, age, kernel>>

WriteRequest ==
  LET request == [kernel |-> supervisor.kernel, nonce |-> "latest",
                  own |-> kernel[supervisor.kernel].session = session]
  IN  /\ Supervise("request", [supervisor EXCEPT !.pc = "await", !.request = request])
      /\ probe_request' = request
      /\ probe_ack' = Outdated(probe_ack)
      /\ bridge' = [k \in Kernels |-> [bridge[k] EXCEPT !.last_ack = "earlier",
                                                       !.request = Outdated(@)]]
      /\ since' = [states |-> {run_state}, answered |-> {}]
      /\ UNCHANGED <<heartbeat, age, kernel>>

AckSeen ==
  /\ Supervise("await", [supervisor EXCEPT !.pc = "state", !.ack = probe_ack])
  /\ probe_ack # None
  /\ probe_ack.nonce = supervisor.request.nonce
  /\ probe_ack.kernel = supervisor.request.kernel
  /\ UNCHANGED <<probe_request, probe_ack, heartbeat, age, kernel, bridge, since>>

\* Without an answer, what is read again changes nothing.
DeadlinePasses ==
  /\ Supervise("await", [supervisor EXCEPT !.pc = "judge", !.ack = None])
  /\ UNCHANGED <<probe_request, probe_ack, heartbeat, age, kernel, bridge, since>>

\* validate_probe_roundtrip reads everything again.
ReadState ==
  /\ Supervise("state", [supervisor EXCEPT !.pc = "hash",
                                           !.snapshot.state = run_state.state])
  /\ UNCHANGED <<probe_request, probe_ack, heartbeat, age, kernel, bridge, since>>

HashState ==
  /\ Supervise("hash", [supervisor EXCEPT !.pc = "files",
                                          !.snapshot.version = run_state.version])
  /\ UNCHANGED <<probe_request, probe_ack, heartbeat, age, kernel, bridge, since>>

\* The registration, then the active stage.
ReadFiles ==
  /\ Supervise("files", [supervisor EXCEPT !.pc = "judge", !.stage = active_stage,
                                           !.registration = bridge_registration])
  /\ UNCHANGED <<probe_request, probe_ack, heartbeat, age, kernel, bridge, since>>

Valid_slip(s) ==
  /\ s.registration = s.request.kernel /\ kernel[s.registration].session = session
  /\ s.ack # None
  /\ s.ack.kernel = s.request.kernel /\ kernel[s.ack.kernel].session = session
  /\ s.ack.nonce = s.request.nonce
  /\ s.ack.fresh
  /\ s.ack.snapshot.state = s.snapshot.state
  /\ s.ack.stage = s.stage

\* What it read agrees with the answer, and the answer with the request.
Valid(s) ==
  /\ s.registration = s.request.kernel /\ kernel[s.registration].session = session
  /\ s.ack # None
  /\ s.ack.kernel = s.request.kernel /\ kernel[s.ack.kernel].session = session
  /\ s.ack.nonce = s.request.nonce
  /\ s.ack.fresh
  /\ s.ack.snapshot = s.snapshot
  /\ s.ack.stage = s.stage

WriteHeartbeat ==
  /\ Supervise("judge", [Begun EXCEPT !.pc = "sleep", !.kernel = supervisor.kernel])
  /\ AppendHeartbeat(IF Valid(supervisor) THEN "live_attached" ELSE "attachment_unproven",
                     supervisor.kernel)
  /\ since' = NothingSince
  /\ UNCHANGED <<probe_request, probe_ack, kernel, bridge>>

\* live_probe_interval_sec is a second at least.
Wake ==
  /\ Supervise("sleep", [supervisor EXCEPT !.pc = "monitor"])
  /\ age > 0
  /\ UNCHANGED <<probe_request, probe_ack, heartbeat, age, kernel, bridge, since>>

SupervisorDies ==
  /\ supervisor.pc # "off"
  /\ supervisor' = [Begun EXCEPT !.pc = "off"] /\ since' = NothingSince
  /\ UNCHANGED <<run_state, files, heartbeat, age, kernel, bridge, session>>

\* The control lock leaves one supervisor at a time.  Before it has the lock,
\* supervise_resume takes the session of the registration, whoever is at work, or a
\* new one if there is none; the registrations it may have found are those of the
\* kernels that wrote one by now.
NextSupervisor ==
  /\ supervisor.pc = "off" /\ supervisor' = Begun
  /\ session' \in {None} \cup
        {kernel[k].session : k \in {j \in Kernels : bridge[j].pc # "off"}}
  /\ UNCHANGED <<run_state, files, heartbeat, age, kernel, bridge, since>>

SupervisorStep ==
  \/ Begin \/ ObserveWaiting \/ ObserveTerminal \/ ObserveSnapshot
  \/ \E k \in Kernels : SpawnKernel(k)
  \/ MonitorEnds \/ UnlinkAck \/ WriteRequest \/ AckSeen \/ DeadlinePasses
  \/ ReadState \/ HashState \/ ReadFiles \/ WriteHeartbeat \/ Wake

Tick ==
  /\ age < 2 /\ age' = age + 1
  /\ UNCHANGED <<run_state, files, heartbeat, kernel, bridge, supervisor, session, since>>

Next ==
  \/ \E k \in Kernels : KernelNext(k) \/ BridgeNext(k)
  \/ SupervisorStep \/ SupervisorDies \/ NextSupervisor \/ Tick

\* Time passes; a supervisor and a bridge's thread that have a step to take take
\* it.  Nothing makes a kernel end, or a supervisor start.
Fairness ==
  /\ WF_vars(Tick) /\ WF_vars(SupervisorStep)
  /\ \A k \in Kernels : WF_vars(BridgeNext(k))

Spec == Init /\ [][Next]_vars /\ Fairness

-----------------------------------------------------------------------------
(* supervision_status.py *)

StatusClaim_slip ==
  IF heartbeat = None
  THEN IF bridge_registration # None THEN "attachment_unproven" ELSE "snapshot_only"
  ELSE heartbeat.claim

\* _derive_claim_class, as if the files were read at once.  waiting_stale_timeout_sec
\* is as long as the other.
StatusClaim ==
  IF heartbeat = None
  THEN IF bridge_registration # None THEN "attachment_unproven" ELSE "snapshot_only"
  ELSE CASE heartbeat.claim = "terminal_observed" -> "terminal_observed"
         [] heartbeat.claim = "snapshot_only"     -> "snapshot_only"
         [] age < 2                               -> heartbeat.claim
         [] OTHER -> IF /\ heartbeat.claim # "waiting_state_observed"
                        /\ bridge_registration # None
                     THEN "attachment_unproven" ELSE "snapshot_only"

-----------------------------------------------------------------------------
(* Properties *)

Threads ==
  [pc : {"off", "waiting", "state", "hash", "ack", "dead"},
   request : Request \cup {None}, last_ack : Nonces, snapshot : RunState,
   stage : Stage \cup {None}]

Supervisors ==
  [pc : {"begin", "classify", "spawn", "monitor", "request", "await", "state", "hash",
         "files", "judge", "sleep", "off"},
   kernel : Kernels \cup {None}, request : Request \cup {None},
   ack : Ack \cup {None}, registration : Kernels \cup {None},
   stage : Stage \cup {None}, snapshot : RunState]

\* Files keep their schemas, a supervisor has a kernel while it monitors and only
\* then, and a published stage its bridge.
TypeOK ==
  /\ run_state \in RunState
  /\ bridge_registration \in Kernels \cup {None}
  /\ active_stage \in Stage \cup {None}
  /\ probe_request \in Request \cup {None} /\ probe_ack \in Ack \cup {None}
  /\ heartbeat \in Heartbeat \cup {None} /\ age \in Ages
  /\ kernel \in [Kernels -> [pc : {"unborn", "starting", "running",
                                   "stopping", "unlinked", "ended", "killed"},
                             session : Kernels \cup {None}, stages : 0..MaxStages,
                             child : BOOLEAN]]
  /\ bridge \in [Kernels -> Threads]
  /\ supervisor \in Supervisors /\ session \in Kernels \cup {None}
  /\ supervisor.kernel = None <=> supervisor.pc \in {"begin", "classify", "spawn", "off"}
  /\ \A k \in Kernels : kernel[k].child => bridge[k].pc # "off"
  /\ since \in [states : SUBSET RunState, answered : SUBSET Kernels]

Attests(k) == heartbeat # None /\ heartbeat.claim = "live_attached" /\ heartbeat.kernel = k

\* A heartbeat that claims a kernel live is of a kernel that answered after it was
\* asked, and what it tells of the run was so after that, all at one time: neither
\* an old answer nor two halves of a file rewritten in between are attested
\* (docs/supervision-guide.md:119-129, validate_probe_roundtrip,
\* kernel_snapshot_from_run_state).
LiveIsProven ==
  [][\A k \in Kernels : WriteHeartbeat /\ Attests(k)' =>
        k \in since.answered /\ supervisor.snapshot \in since.states]_vars

\* Nobody is left who could answer for k.
Unanswering(k) == kernel[k].pc \in {"ended", "killed"} \/ bridge[k].pc = "dead"

\* docs/supervision-guide.md:131-142: a claim of a kernel that cannot answer any
\* more is withdrawn for good, whether the kernel, its bridge's thread or the
\* supervisor died, and whichever supervisor comes next (_monitor_kernel_invocation,
\* attach_existing_live_kernel, _derive_claim_class).
ClaimLapses ==
  \A k \in Kernels :
    Unanswering(k) ~> [](~(Attests(k) /\ StatusClaim = "live_attached"))

Watched(k) ==
  /\ supervisor.pc # "off" /\ supervisor.kernel = k
  /\ kernel[k].session = session /\ kernel[k].pc = "running"
  /\ bridge[k].pc \notin {"off", "dead"} /\ bridge_registration = k

\* An answer to the request the supervisor waits for is written or on its way.
Answering(k) ==
  \/ Matches(k)
  \/ bridge[k].request # None /\ bridge[k].request.nonce = "latest"
  \/ probe_ack # None /\ probe_ack.nonce = "latest"

\* A kernel that a supervisor of its session watches, the one that spawned it or one
\* that attached to it, is proven live again and again, provided that from some point
\* on answers under way come in time: no answer given, no refusal and no torn read
\* keeps the next probe from succeeding (_last_ack_key, _probe_once).
LiveKernelIsProven ==
  \A k \in Kernels :
    /\ <>[]Watched(k)
    /\ <>[][/\ DeadlinePasses => ~Answering(k)
            /\ ~IgnoreExpired(k) /\ ~BridgeRetries(k)]_vars
    => []<><<WriteHeartbeat /\ Attests(k)'>>_vars

=============================================================================
