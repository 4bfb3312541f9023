------------------------------ MODULE ProbeProofs ------------------------------
(***************************************************************************)
(* Proofs about Probe, for any kernels, saves and stages.                   *)
(*                                                                         *)
(* Why a live claim is proven: an answer that names the latest request was   *)
(* written after it, and the supervisor reads the state after it has the     *)
(* answer and hashes the file after that.  The hash of the answer is of a     *)
(* version no later than the one whose state the supervisor read, and the     *)
(* supervisor's hash of one no earlier; if they agree, the state is of that    *)
(* version too, however the file was rewritten between the reads.             *)
(***************************************************************************)
EXTENDS Probe, TLAPS

Process ==
  [pc : {"unborn", "starting", "running", "stopping", "unlinked", "ended", "killed"},
   session : Kernels \cup {None}, stages : 0..MaxStages, child : BOOLEAN]

\* From the request to the heartbeat that its answer is judged for.
Asking == {"await", "state", "hash", "files", "judge"}

FilesOK ==
  /\ run_state \in RunState
  /\ bridge_registration \in Kernels \cup {None}
  /\ active_stage \in Stage \cup {None}
  /\ probe_request \in Request \cup {None} /\ probe_ack \in Ack \cup {None}
  /\ heartbeat \in Heartbeat \cup {None} /\ age \in Ages

KernelsOK == kernel \in [Kernels -> Process] /\ session \in Kernels \cup {None}

\* A thread that reads for an answer has its request.
BridgesOK ==
  /\ bridge \in [Kernels -> Threads]
  /\ \A k \in Kernels :
       /\ kernel[k].child => bridge[k].pc # "off"
       /\ bridge[k].pc \in {"state", "hash", "ack"} => bridge[k].request \in Request

SupervisorOK ==
  /\ supervisor \in Supervisors
  /\ supervisor.kernel = None <=> supervisor.pc \in {"begin", "classify", "spawn", "off"}

\* No snapshot is ahead of the file.
SnapshotsOK ==
  /\ \A k \in Kernels : bridge[k].snapshot.version <= run_state.version
  /\ probe_ack # None => probe_ack.snapshot.version <= run_state.version
  /\ supervisor.ack # None => supervisor.ack.snapshot.version <= run_state.version

\* The run states since the request, the present one among them and the latest.
HistoryOK ==
  /\ since \in [states : SUBSET RunState, answered : SUBSET Kernels]
  /\ since.states # {} =>
       /\ run_state \in since.states
       /\ \A s \in since.states : s.version <= run_state.version
       /\ \A s, t \in since.states : s.version = t.version => s = t

\* What the supervisor holds while it asks: an answer that was given since, a state
\* no older than the answer's version, and then a snapshot that was never torn if it
\* has the answer's version.
AnswerOK ==
  supervisor.pc \in Asking =>
    /\ since.states # {}
    /\ supervisor.request \in Request /\ supervisor.request.nonce = "latest"
    /\ supervisor.request.kernel = supervisor.kernel
    /\ probe_ack # None /\ probe_ack.nonce = "latest" =>
         probe_ack.kernel \in since.answered
    /\ supervisor.pc # "await" /\ supervisor.ack # None =>
         supervisor.ack.kernel \in since.answered
    /\ supervisor.pc = "hash" =>
         \E s \in since.states :
           /\ s.state = supervisor.snapshot.state
           /\ supervisor.ack # None => supervisor.ack.snapshot.version <= s.version
    /\ /\ supervisor.pc \in {"files", "judge"} /\ supervisor.ack # None
       /\ supervisor.ack.snapshot.version = supervisor.snapshot.version
       => supervisor.snapshot \in since.states

IInv == FilesOK /\ KernelsOK /\ BridgesOK /\ SupervisorOK /\ SnapshotsOK /\ HistoryOK
        /\ AnswerOK

-----------------------------------------------------------------------------
(* The parts of the invariant, one by one *)

\* NoBridge and Begun are a thread and a supervisor at rest.
LEMMA RestTypes ==
  NoSnapshot \in RunState /\ NoBridge \in Threads /\ Begun \in Supervisors
  BY ProbeAssumption
     DEF NoSnapshot, RunState, States, NoBridge, Threads, Nonces, Begun, Supervisors

LEMMA FilesStep ==
  ASSUME IInv, Next
  PROVE  FilesOK'
<1>1. /\ FilesOK /\ KernelsOK /\ BridgesOK /\ SupervisorOK
  BY DEF IInv
<1>2. ASSUME NEW k \in Kernels, KernelNext(k) PROVE FilesOK'
  <2>1. CASE Save(k)
    <3>1. run_state' \in RunState
      BY <1>1, <2>1, ProbeAssumption DEF Save, FilesOK, RunState
    <3> QED
      BY <1>1, <2>1, <3>1 DEF Save, FilesOK, files
  <2>2. CASE PublishActiveStage(k)
    <3>1. active_stage' \in Stage
      BY <1>1, <2>2, ProbeAssumption DEF PublishActiveStage, KernelsOK, Process, Stage
    <3> QED
      BY <1>1, <2>2, <3>1 DEF PublishActiveStage, FilesOK
  <2>3. CASE \/ StartBridge(k) \/ StartWithoutBridge(k) \/ ClearActiveStage(k)
             \/ StopBridge(k) \/ UnlinkFiles(k) \/ Unregister(k)
             \/ EndWithoutBridge(k) \/ KernelDies(k)
    BY <1>1, <2>3
       DEF StartBridge, StartWithoutBridge, ClearActiveStage, StopBridge, UnlinkFiles,
           Unregister, EndWithoutBridge, KernelDies, MainThread, files, FilesOK
  <2> QED
    BY <1>2, <2>1, <2>2, <2>3 DEF KernelNext
<1>3. ASSUME NEW k \in Kernels, BridgeNext(k) PROVE FilesOK'
  <2>1. CASE WriteAck(k)
    <3>1. bridge[k] \in Threads /\ bridge[k].request \in Request
      BY <1>1, <2>1 DEF WriteAck, ServeLoop, BridgesOK
    <3>2. probe_ack' \in Ack
      BY <2>1, <3>1 DEF WriteAck, Ack, Threads, Request
    <3> QED
      BY <1>1, <2>1, <3>2 DEF WriteAck, ServeLoop, FilesOK
  <2>2. CASE ~WriteAck(k)
    BY <1>1, <1>3, <2>2
       DEF BridgeNext, MatchRequest, IgnoreExpired, BridgeReadsState, BridgeHashesState,
           BridgeRetries, BridgeThreadDies, ServeLoop, FilesOK
  <2> QED
    BY <2>1, <2>2
<1>4. ASSUME SupervisorStep PROVE FilesOK'
  <2>1. CASE WriteRequest
    <3> DEFINE request == [kernel |-> supervisor.kernel, nonce |-> "latest",
                           own |-> kernel[supervisor.kernel].session = session]
    <3>1. supervisor.kernel \in Kernels
      BY <1>1, <2>1 DEF WriteRequest, Supervise, SupervisorOK, Supervisors
    <3>2. request \in Request
      BY <1>1, <3>1 DEF KernelsOK, Process, Request, Nonces
    <3>3. Outdated(probe_ack) \in Ack \cup {None}
      BY <1>1 DEF FilesOK, Outdated, Ack, Nonces
    <3> QED
      BY <1>1, <2>1, <3>2, <3>3 DEF WriteRequest, Supervise, FilesOK
  <2>2. CASE WriteHeartbeat \/ ObserveWaiting \/ ObserveTerminal \/ ObserveSnapshot
    <3>1. heartbeat' \in Heartbeat /\ age' = 0
      BY <1>1, <2>2
         DEF WriteHeartbeat, ObserveWaiting, ObserveTerminal, ObserveSnapshot, Observe,
             AppendHeartbeat, FilesOK, SupervisorOK, Supervisors, Heartbeat, ClaimClasses
    <3> QED
      BY <1>1, <2>2, <3>1
         DEF WriteHeartbeat, ObserveWaiting, ObserveTerminal, ObserveSnapshot, Observe,
             Supervise, FilesOK, Ages
  <2>3. CASE \/ Begin \/ (\E k \in Kernels : SpawnKernel(k)) \/ MonitorEnds \/ UnlinkAck
             \/ AckSeen \/ DeadlinePasses \/ ReadState \/ HashState \/ ReadFiles \/ Wake
    BY <1>1, <2>3
       DEF Begin, SpawnKernel, MonitorEnds, UnlinkAck, AckSeen, DeadlinePasses, ReadState,
           HashState, ReadFiles, Wake, Supervise, FilesOK, files
  <2> QED
    BY <1>4, <2>1, <2>2, <2>3 DEF SupervisorStep
<1>5. CASE SupervisorDies \/ NextSupervisor \/ Tick
  BY <1>1, <1>5 DEF SupervisorDies, NextSupervisor, Tick, files, FilesOK, Ages
<1> QED
  BY <1>2, <1>3, <1>4, <1>5 DEF Next

LEMMA ProcessTypes ==
  ASSUME NEW q \in Process, NEW s \in Kernels
  PROVE  /\ \A pc \in {"starting", "running", "stopping", "unlinked", "ended", "killed"} :
              /\ [q EXCEPT !.pc = pc] \in Process
              /\ [q EXCEPT !.pc = pc, !.session = s] \in Process
         /\ [q EXCEPT !.child = FALSE] \in Process
         /\ q.stages < MaxStages => [q EXCEPT !.stages = @ + 1, !.child = TRUE] \in Process
<1>1. q.stages < MaxStages => q.stages + 1 \in 0..MaxStages
  BY ProbeAssumption DEF Process
<1>2. TRUE \in BOOLEAN /\ FALSE \in BOOLEAN
  OBVIOUS
<1>3. \A pc \in {"starting", "running", "stopping", "unlinked", "ended", "killed"} :
        /\ [q EXCEPT !.pc = pc] \in Process
        /\ [q EXCEPT !.pc = pc, !.session = s] \in Process
  BY <1>2 DEF Process
<1>4. [q EXCEPT !.child = FALSE] \in Process
  BY <1>2 DEF Process
<1>5. q.stages < MaxStages => [q EXCEPT !.stages = @ + 1, !.child = TRUE] \in Process
  BY <1>1, <1>2 DEF Process
<1> QED
  BY <1>3, <1>4, <1>5

\* A process that changes.
LEMMA ProcessChanges ==
  ASSUME KernelsOK, NEW k \in Kernels, NEW q \in Process,
         kernel' = [kernel EXCEPT ![k] = q], session' \in Kernels \cup {None}
  PROVE  KernelsOK'
  BY DEF KernelsOK

LEMMA KernelsStep ==
  ASSUME IInv, Next
  PROVE  KernelsOK'
<1>1. /\ KernelsOK /\ session \in Kernels \cup {None}
      /\ \A k \in Kernels : kernel[k] \in Process
  BY DEF IInv, KernelsOK
<1>2. ASSUME NEW k \in Kernels, KernelNext(k) PROVE KernelsOK'
  <2>0. session' = session
    BY <1>2
       DEF KernelNext, StartBridge, StartWithoutBridge, Save, PublishActiveStage,
           ClearActiveStage, StopBridge, UnlinkFiles, Unregister, EndWithoutBridge,
           KernelDies, MainThread
  <2>1. ASSUME NEW pc \in {"running", "stopping", "unlinked", "ended", "killed"},
               kernel' = [kernel EXCEPT ![k].pc = pc]
        PROVE  KernelsOK'
    <3>1. kernel' = [kernel EXCEPT ![k] = [kernel[k] EXCEPT !.pc = pc]]
      BY <2>1
    <3> QED
      BY <1>1, <2>0, <3>1, ProcessTypes, ProcessChanges
  <2>2. CASE \/ StartBridge(k) \/ StartWithoutBridge(k) \/ StopBridge(k)
             \/ UnlinkFiles(k) \/ Unregister(k) \/ EndWithoutBridge(k) \/ KernelDies(k)
    BY <2>1, <2>2
       DEF StartBridge, StartWithoutBridge, StopBridge, UnlinkFiles, Unregister,
           EndWithoutBridge, KernelDies, MainThread
  <2>3. CASE PublishActiveStage(k)
    <3>1. /\ kernel[k].stages < MaxStages
          /\ kernel' = [kernel EXCEPT
               ![k] = [kernel[k] EXCEPT !.stages = @ + 1, !.child = TRUE]]
      BY <2>3 DEF PublishActiveStage
    <3>2. [kernel[k] EXCEPT !.stages = @ + 1, !.child = TRUE] \in Process
      BY <1>1, <3>1, ProcessTypes
    <3> QED
      BY <1>1, <2>0, <3>1, <3>2, ProcessChanges
  <2>4. CASE ClearActiveStage(k)
    <3>1. kernel' = [kernel EXCEPT ![k] = [kernel[k] EXCEPT !.child = FALSE]]
      BY <2>4 DEF ClearActiveStage
    <3> QED
      BY <1>1, <2>0, <3>1, ProcessTypes, ProcessChanges
  <2>5. CASE Save(k)
    BY <1>1, <2>0, <2>5 DEF Save, KernelsOK
  <2> QED
    BY <1>2, <2>2, <2>3, <2>4, <2>5 DEF KernelNext
<1>3. ASSUME NEW k \in Kernels, BridgeNext(k) PROVE KernelsOK'
  BY <1>1, <1>3
     DEF BridgeNext, MatchRequest, IgnoreExpired, BridgeReadsState, BridgeHashesState,
         BridgeRetries, WriteAck, BridgeThreadDies, ServeLoop, KernelsOK
<1>4. ASSUME SupervisorStep PROVE KernelsOK'
  <2>1. ASSUME NEW k \in Kernels, SpawnKernel(k) PROVE KernelsOK'
    <3>1. kernel' = [kernel EXCEPT
            ![k] = [kernel[k] EXCEPT !.pc = "starting", !.session = session']]
      BY <2>1 DEF SpawnKernel
    <3>2. session' \in Kernels
      BY <1>1, <2>1 DEF SpawnKernel
    <3>3. [kernel[k] EXCEPT !.pc = "starting", !.session = session'] \in Process
      BY <1>1, <3>2, ProcessTypes
    <3> QED
      BY <1>1, <3>1, <3>2, <3>3, ProcessChanges
  <2>2. CASE kernel' = kernel /\ session' = session
    BY <1>1, <2>2 DEF KernelsOK
  <2> QED
    BY <1>4, <2>1, <2>2
       DEF SupervisorStep, Begin, ObserveWaiting, ObserveTerminal, ObserveSnapshot,
           Observe, MonitorEnds, UnlinkAck, WriteRequest, AckSeen, DeadlinePasses,
           ReadState, HashState, ReadFiles, WriteHeartbeat, Wake, Supervise
<1>5. CASE NextSupervisor
  <2>1. session' \in Kernels \cup {None} /\ kernel' = kernel
    BY <1>1, <1>5 DEF NextSupervisor, Process
  <2> QED
    BY <1>1, <2>1 DEF KernelsOK
<1>6. CASE SupervisorDies \/ Tick
  BY <1>1, <1>6 DEF SupervisorDies, Tick, KernelsOK
<1> QED
  BY <1>2, <1>3, <1>4, <1>5, <1>6 DEF Next

\* No step makes a child without a bridge.
LEMMA ChildHasBridge ==
  ASSUME IInv, Next, NEW j \in Kernels, kernel'[j].child
  PROVE  bridge[j].pc # "off"
<1>1. /\ kernel[j].child => bridge[j].pc # "off"
      /\ KernelsOK /\ kernel[j] \in Process
  BY DEF IInv, BridgesOK, KernelsOK
<1>2. ASSUME NEW k \in Kernels, KernelNext(k) PROVE bridge[j].pc # "off"
  <2>1. CASE PublishActiveStage(k)
    BY <1>1, <2>1 DEF PublishActiveStage, KernelsOK, Process
  <2>2. CASE \/ StartBridge(k) \/ StartWithoutBridge(k) \/ StopBridge(k) \/ Save(k)
             \/ UnlinkFiles(k) \/ Unregister(k) \/ EndWithoutBridge(k) \/ KernelDies(k)
    BY <1>1, <2>2
       DEF StartBridge, StartWithoutBridge, StopBridge, Save, UnlinkFiles, Unregister,
           EndWithoutBridge, KernelDies, MainThread, KernelsOK, Process
  <2>3. CASE ClearActiveStage(k)
    BY <1>1, <2>3 DEF ClearActiveStage, KernelsOK, Process
  <2> QED
    BY <1>2, <2>1, <2>2, <2>3 DEF KernelNext
<1>3. ASSUME NEW k \in Kernels, BridgeNext(k) PROVE bridge[j].pc # "off"
  BY <1>1, <1>3
     DEF BridgeNext, MatchRequest, IgnoreExpired, BridgeReadsState, BridgeHashesState,
         BridgeRetries, WriteAck, BridgeThreadDies, ServeLoop
<1>4. ASSUME SupervisorStep PROVE bridge[j].pc # "off"
  <2>1. ASSUME NEW k \in Kernels, SpawnKernel(k) PROVE kernel'[j].child = kernel[j].child
    BY <1>1, <2>1 DEF SpawnKernel, KernelsOK, Process
  <2> QED
    BY <1>1, <1>4, <2>1
       DEF SupervisorStep, Begin, ObserveWaiting, ObserveTerminal, ObserveSnapshot,
           Observe, MonitorEnds, UnlinkAck, WriteRequest, AckSeen, DeadlinePasses,
           ReadState, HashState, ReadFiles, WriteHeartbeat, Wake
<1>5. CASE SupervisorDies \/ NextSupervisor \/ Tick
  BY <1>1, <1>5 DEF SupervisorDies, NextSupervisor, Tick, KernelsOK, Process
<1> QED
  BY <1>2, <1>3, <1>4, <1>5 DEF Next

\* A thread that changes.
ThreadOK(thread) ==
  /\ thread \in Threads /\ thread.pc # "off"
  /\ thread.pc \in {"state", "hash", "ack"} => thread.request \in Request

LEMMA ThreadChanges ==
  ASSUME IInv, Next, NEW k \in Kernels, NEW thread, ThreadOK(thread),
         bridge' = [bridge EXCEPT ![k] = thread]
  PROVE  BridgesOK'
<1>1. BridgesOK
  BY DEF IInv
<1>2. bridge' \in [Kernels -> Threads] /\ \A j \in Kernels \ {k} : bridge'[j] = bridge[j]
      /\ bridge'[k] = thread
  BY <1>1 DEF BridgesOK, ThreadOK
<1>3. \A j \in Kernels : kernel'[j].child => bridge'[j].pc # "off"
  BY <1>2, ChildHasBridge DEF ThreadOK
<1> QED
  BY <1>1, <1>2, <1>3 DEF BridgesOK, ThreadOK

LEMMA DeadThread ==
  ThreadOK([NoBridge EXCEPT !.pc = "dead"])
  BY RestTypes DEF ThreadOK, Threads

LEMMA BridgesStep ==
  ASSUME IInv, Next
  PROVE  BridgesOK'
<1>1. /\ FilesOK /\ BridgesOK /\ SupervisorOK
      /\ \A k \in Kernels : bridge[k] \in Threads
  BY DEF IInv, BridgesOK
<1>2. CASE bridge' = bridge
  BY <1>1, <1>2, ChildHasBridge DEF BridgesOK
<1>3. ASSUME NEW k \in Kernels, KernelNext(k) PROVE BridgesOK'
  <2>1. CASE StartBridge(k)
    <3> DEFINE thread == [bridge[k] EXCEPT !.pc = "waiting"]
    <3>1. bridge' = [bridge EXCEPT ![k] = thread]
      BY <2>1 DEF StartBridge
    <3>2. ThreadOK(thread)
      BY <1>1 DEF ThreadOK, Threads
    <3> QED
      BY <3>1, <3>2, ThreadChanges
  <2>2. CASE Unregister(k) \/ KernelDies(k)
    <3>1. bridge' = [bridge EXCEPT ![k] = [NoBridge EXCEPT !.pc = "dead"]] \/ bridge' = bridge
      BY <1>1, <2>2 DEF Unregister, KernelDies, BridgesOK
    <3> QED
      BY <1>2, <3>1, DeadThread, ThreadChanges
  <2> QED
    BY <1>2, <1>3, <2>1, <2>2
       DEF KernelNext, StartWithoutBridge, Save, PublishActiveStage, ClearActiveStage,
           StopBridge, UnlinkFiles, EndWithoutBridge
<1>4. ASSUME NEW k \in Kernels, BridgeNext(k) PROVE BridgesOK'
  <2>1. CASE MatchRequest(k)
    <3> DEFINE thread == [bridge[k] EXCEPT !.pc = "state", !.request = probe_request]
    <3>1. bridge' = [bridge EXCEPT ![k] = thread]
      BY <2>1 DEF MatchRequest, ServeLoop
    <3>2. probe_request \in Request
      BY <1>1, <2>1 DEF MatchRequest, Matches, FilesOK
    <3>3. ThreadOK(thread)
      BY <1>1, <3>2 DEF ThreadOK, Threads
    <3> QED
      BY <3>1, <3>3, ThreadChanges
  <2>2. CASE IgnoreExpired(k)
    <3> DEFINE thread == [bridge[k] EXCEPT !.last_ack = probe_request.nonce]
    <3>1. bridge' = [bridge EXCEPT ![k] = thread] /\ bridge[k].pc = "waiting"
      BY <2>2 DEF IgnoreExpired, ServeLoop
    <3>2. probe_request.nonce \in Nonces
      BY <1>1, <2>2 DEF IgnoreExpired, Matches, FilesOK, Request
    <3>3. ThreadOK(thread)
      BY <1>1, <3>1, <3>2 DEF ThreadOK, Threads
    <3> QED
      BY <3>1, <3>3, ThreadChanges
  <2>3. CASE BridgeReadsState(k)
    <3> DEFINE thread == [bridge[k] EXCEPT !.pc = "hash", !.snapshot.state = run_state.state]
    <3>1. bridge' = [bridge EXCEPT ![k] = thread] /\ bridge[k].pc = "state"
      BY <2>3 DEF BridgeReadsState, ServeLoop
    <3>2. run_state.state \in States /\ bridge[k].request \in Request
      BY <1>1, <3>1 DEF FilesOK, RunState, BridgesOK
    <3>3. ThreadOK(thread)
      BY <1>1, <3>2 DEF ThreadOK, Threads, RunState
    <3> QED
      BY <3>1, <3>3, ThreadChanges
  <2>4. CASE BridgeHashesState(k)
    <3> DEFINE thread == [bridge[k] EXCEPT !.pc = "ack", !.stage = active_stage,
                                           !.snapshot.version = run_state.version]
    <3>1. bridge' = [bridge EXCEPT ![k] = thread] /\ bridge[k].pc = "hash"
      BY <2>4 DEF BridgeHashesState, ServeLoop
    <3>2. run_state.version \in 0..MaxSaves /\ bridge[k].request \in Request
      BY <1>1, <3>1 DEF FilesOK, RunState, BridgesOK
    <3>3. ThreadOK(thread)
      BY <1>1, <3>2 DEF ThreadOK, Threads, RunState, FilesOK
    <3> QED
      BY <3>1, <3>3, ThreadChanges
  <2>5. CASE BridgeRetries(k) \/ WriteAck(k)
    <3>1. PICK nonce \in Nonces :
            bridge' = [bridge EXCEPT
              ![k] = [NoBridge EXCEPT !.pc = "waiting", !.last_ack = nonce]]
      <4>1. bridge[k].last_ack \in Nonces
        BY <1>1 DEF Threads
      <4>2. WriteAck(k) => bridge[k].request.nonce \in Nonces
        BY <1>1 DEF WriteAck, ServeLoop, BridgesOK, Request
      <4> QED
        BY <2>5, <4>1, <4>2 DEF BridgeRetries, WriteAck, ServeLoop
    <3>2. ThreadOK([NoBridge EXCEPT !.pc = "waiting", !.last_ack = nonce])
      BY RestTypes DEF ThreadOK, Threads
    <3> QED
      BY <3>1, <3>2, ThreadChanges
  <2>6. CASE BridgeThreadDies(k)
    BY <2>6, DeadThread, ThreadChanges DEF BridgeThreadDies, ServeLoop
  <2> QED
    BY <1>4, <2>1, <2>2, <2>3, <2>4, <2>5, <2>6 DEF BridgeNext
<1>5. CASE WriteRequest
  <2>1. bridge' = [k \in Kernels |-> [bridge[k] EXCEPT !.last_ack = "earlier",
                                                       !.request = Outdated(@)]]
    BY <1>5 DEF WriteRequest
  <2>2. ASSUME NEW k \in Kernels
        PROVE  /\ bridge'[k] \in Threads /\ bridge'[k].pc = bridge[k].pc
               /\ bridge[k].request \in Request => bridge'[k].request \in Request
    <3> DEFINE request == Outdated(bridge[k].request)
    <3>1. /\ request \in Request \cup {None}
          /\ bridge[k].request \in Request => request \in Request
      BY <1>1 DEF Threads, Outdated, Request, Nonces
    <3>2. bridge'[k] = [bridge[k] EXCEPT !.last_ack = "earlier", !.request = request]
      BY <2>1
    <3> HIDE DEF request
    <3> QED
      BY <1>1, <3>1, <3>2 DEF Threads, Nonces
  <2>3. bridge' \in [Kernels -> Threads]
    <3>1. bridge' = [k \in Kernels |-> bridge'[k]]
      BY <2>1
    <3> QED
      BY <2>2, <3>1
  <2> QED
    BY <1>1, <2>2, <2>3, ChildHasBridge DEF BridgesOK
<1>6. ASSUME SupervisorStep PROVE BridgesOK'
  BY <1>2, <1>5, <1>6
     DEF SupervisorStep, Begin, ObserveWaiting, ObserveTerminal, ObserveSnapshot, Observe,
         SpawnKernel, MonitorEnds, UnlinkAck, AckSeen, DeadlinePasses, ReadState,
         HashState, ReadFiles, WriteHeartbeat, Wake
<1>7. CASE SupervisorDies \/ NextSupervisor \/ Tick
  BY <1>2, <1>7 DEF SupervisorDies, NextSupervisor, Tick
<1> QED
  BY <1>3, <1>4, <1>6, <1>7 DEF Next

LEMMA SupervisorTyped ==
  ASSUME IInv, Next
  PROVE  SupervisorOK'
<1>1. /\ FilesOK /\ KernelsOK /\ SupervisorOK /\ supervisor \in Supervisors
      /\ supervisor.kernel = None <=> supervisor.pc \in {"begin", "classify", "spawn", "off"}
  BY DEF IInv, SupervisorOK
<1>2. CASE supervisor' = supervisor
  BY <1>1, <1>2 DEF SupervisorOK
<1>3. ASSUME SupervisorStep PROVE SupervisorOK'
  <2>1. CASE Begin
    BY <1>1, <2>1, ProbeAssumption DEF Begin, Supervise, SupervisorOK, Supervisors, FilesOK
  <2>2. CASE ObserveWaiting \/ ObserveTerminal \/ ObserveSnapshot
    BY <1>1, <2>2
       DEF ObserveWaiting, ObserveTerminal, ObserveSnapshot, Observe, Supervise,
           SupervisorOK, Supervisors
  <2>3. ASSUME NEW k \in Kernels, SpawnKernel(k) PROVE SupervisorOK'
    BY <1>1, <2>3, ProbeAssumption DEF SpawnKernel, Supervise, SupervisorOK, Supervisors
  <2>4. CASE MonitorEnds
    BY <1>1, <2>4 DEF MonitorEnds, Supervise, SupervisorOK, Supervisors
  <2>5. CASE UnlinkAck \/ DeadlinePasses \/ Wake
    BY <1>1, <2>5 DEF UnlinkAck, DeadlinePasses, Wake, Supervise, SupervisorOK, Supervisors
  <2>6. CASE WriteRequest
    <3> DEFINE request == [kernel |-> supervisor.kernel, nonce |-> "latest",
                           own |-> kernel[supervisor.kernel].session = session]
    <3>1. supervisor.kernel \in Kernels
      BY <1>1, <2>6 DEF WriteRequest, Supervise, Supervisors
    <3>2. request \in Request
      BY <1>1, <3>1 DEF KernelsOK, Process, Request, Nonces
    <3>3. /\ supervisor' = [supervisor EXCEPT !.pc = "await", !.request = request]
          /\ supervisor.pc = "request"
      BY <2>6 DEF WriteRequest, Supervise
    <3> HIDE DEF request
    <3> QED
      BY <1>1, <3>2, <3>3 DEF SupervisorOK, Supervisors
  <2>7. CASE AckSeen
    BY <1>1, <2>7 DEF AckSeen, Supervise, SupervisorOK, Supervisors, FilesOK
  <2>8. CASE ReadState \/ HashState
    <3>1. run_state.version \in 0..MaxSaves /\ run_state.state \in States
      BY <1>1 DEF FilesOK, RunState
    <3>2. supervisor.snapshot \in RunState
      BY <1>1 DEF Supervisors
    <3>3. ASSUME NEW snapshot \in RunState, NEW pc \in {"hash", "files"},
                 supervisor' = [supervisor EXCEPT !.pc = pc, !.snapshot = snapshot],
                 supervisor.pc \in {"state", "hash"}
          PROVE  SupervisorOK'
      BY <1>1, <3>3 DEF SupervisorOK, Supervisors
    <3>4. CASE ReadState
      <4> DEFINE snapshot == [supervisor.snapshot EXCEPT !.state = run_state.state]
      <4>1. supervisor' = [supervisor EXCEPT !.pc = "hash", !.snapshot = snapshot]
        BY <3>4 DEF ReadState, Supervise
      <4>2. snapshot \in RunState /\ supervisor.pc = "state"
        BY <3>1, <3>2, <3>4 DEF ReadState, Supervise, RunState
      <4> HIDE DEF snapshot
      <4> QED
        BY <3>3, <4>1, <4>2
    <3>5. CASE HashState
      <4> DEFINE snapshot == [supervisor.snapshot EXCEPT !.version = run_state.version]
      <4>1. supervisor' = [supervisor EXCEPT !.pc = "files", !.snapshot = snapshot]
        BY <3>5 DEF HashState, Supervise
      <4>2. snapshot \in RunState /\ supervisor.pc = "hash"
        BY <3>1, <3>2, <3>5 DEF HashState, Supervise, RunState
      <4> HIDE DEF snapshot
      <4> QED
        BY <3>3, <4>1, <4>2
    <3> QED
      BY <2>8, <3>4, <3>5
  <2>9. CASE ReadFiles
    BY <1>1, <2>9 DEF ReadFiles, Supervise, SupervisorOK, Supervisors, FilesOK
  <2>10. CASE WriteHeartbeat
    <3>1. /\ supervisor' = [Begun EXCEPT !.pc = "sleep", !.kernel = supervisor.kernel]
          /\ supervisor.pc = "judge"
      BY <2>10 DEF WriteHeartbeat, Supervise
    <3> QED
      BY <1>1, <3>1, RestTypes DEF SupervisorOK, Supervisors
  <2> QED
    BY <1>3, <2>1, <2>2, <2>3, <2>4, <2>5, <2>6, <2>7, <2>8, <2>9, <2>10
       DEF SupervisorStep
<1>4. CASE SupervisorDies \/ NextSupervisor
  <2>1. supervisor' = Begun \/ supervisor' = [Begun EXCEPT !.pc = "off"]
    BY <1>4 DEF SupervisorDies, NextSupervisor
  <2>2. Begun.pc = "begin" /\ Begun.kernel = None
    BY DEF Begun
  <2> QED
    BY <2>1, <2>2, RestTypes DEF SupervisorOK, Supervisors
<1>5. ASSUME NEW k \in Kernels, KernelNext(k) \/ BridgeNext(k) PROVE supervisor' = supervisor
  BY <1>5
     DEF KernelNext, StartBridge, StartWithoutBridge, Save, PublishActiveStage,
         ClearActiveStage, StopBridge, UnlinkFiles, Unregister, EndWithoutBridge,
         KernelDies, MainThread, BridgeNext, MatchRequest, IgnoreExpired,
         BridgeReadsState, BridgeHashesState, BridgeRetries, WriteAck, BridgeThreadDies,
         ServeLoop
<1>6. CASE Tick
  BY <1>2, <1>6 DEF Tick
<1> QED
  BY <1>2, <1>3, <1>4, <1>5, <1>6 DEF Next

-----------------------------------------------------------------------------
(* Snapshots and the history *)

\* run_state.json only goes on to later versions, and its states since a request are
\* kept.
LEMMA StateGoesOn ==
  ASSUME IInv, Next
  PROVE  /\ run_state.version <= run_state'.version
         /\ HistoryOK'
         /\ supervisor.pc \in Asking /\ supervisor'.pc \in Asking =>
              /\ since.states # {} => since'.states # {}
              /\ since.states \subseteq since'.states
              /\ since.answered \subseteq since'.answered
<1>1. /\ FilesOK /\ HistoryOK /\ run_state \in RunState /\ run_state.version \in Nat
      /\ SupervisorOK
  BY ProbeAssumption DEF IInv, FilesOK, RunState
<1>2. CASE run_state' = run_state /\ since' = since
  BY <1>1, <1>2 DEF HistoryOK
<1>3. ASSUME NEW k \in Kernels, Save(k)
      PROVE  /\ HistoryOK' /\ run_state.version <= run_state'.version
             /\ since.states # {} => since'.states # {}
             /\ since.states \subseteq since'.states /\ since'.answered = since.answered
  <2>1. /\ run_state' \in RunState /\ run_state'.version = run_state.version + 1
    BY <1>1, <1>3, ProbeAssumption DEF Save, RunState
  <2>2. \A s \in since.states : s \in RunState /\ s.version \in Nat
    BY <1>1, ProbeAssumption DEF HistoryOK, RunState
  <2>3. CASE since.states = {}
    BY <1>1, <1>3, <2>1, <2>3 DEF Save, HistoryOK
  <2>4. CASE since.states # {}
    <3>1. since' = [since EXCEPT !.states = @ \cup {run_state'}]
      BY <1>3, <2>4 DEF Save
    <3>2. since'.states = since.states \cup {run_state'} /\ since'.answered = since.answered
          /\ since' \in [states : SUBSET RunState, answered : SUBSET Kernels]
      BY <1>1, <2>1, <3>1 DEF HistoryOK
    <3>3. \A s \in since.states : s.version < run_state'.version
      BY <1>1, <2>1, <2>2, <2>4 DEF HistoryOK
    <3>4. \A s \in since'.states : s.version <= run_state'.version
      BY <1>1, <2>1, <2>2, <3>2, <3>3
    <3>5. \A s, t \in since'.states : s.version = t.version => s = t
      BY <1>1, <2>1, <2>2, <2>4, <3>2, <3>3 DEF HistoryOK
    <3> QED
      BY <1>1, <2>1, <3>2, <3>4, <3>5 DEF HistoryOK
  <2> QED
    BY <2>3, <2>4
<1>4. ASSUME NEW k \in Kernels, WriteAck(k)
      PROVE  /\ HistoryOK' /\ run_state' = run_state /\ since'.states = since.states
             /\ since.answered \subseteq since'.answered
  <2>1. run_state' = run_state
    BY <1>4 DEF WriteAck, ServeLoop
  <2>2. since' = since \/ since' = [since EXCEPT !.answered = @ \cup {k}]
    BY <1>4 DEF WriteAck
  <2>3. /\ since'.states = since.states /\ since.answered \subseteq since'.answered
        /\ since' \in [states : SUBSET RunState, answered : SUBSET Kernels]
    BY <1>1, <2>2 DEF HistoryOK
  <2> QED
    BY <1>1, <2>1, <2>3 DEF HistoryOK
<1>5. CASE WriteRequest
  <2>1. since' = [states |-> {run_state}, answered |-> {}] /\ run_state' = run_state
        /\ supervisor.pc = "request"
    BY <1>5 DEF WriteRequest, Supervise
  <2>2. since'.states = {run_state} /\ since'.answered = {}
        /\ since' \in [states : SUBSET RunState, answered : SUBSET Kernels]
    BY <1>1, <2>1
  <2>3. HistoryOK'
    BY <1>1, <2>1, <2>2 DEF HistoryOK
  <2> QED
    BY <1>1, <2>1, <2>3 DEF Asking
<1>6. CASE WriteHeartbeat
  <2>1. since' = [states |-> {}, answered |-> {}] /\ run_state' = run_state
        /\ supervisor' = [Begun EXCEPT !.pc = "sleep", !.kernel = supervisor.kernel]
    BY <1>6 DEF WriteHeartbeat, Supervise, NothingSince
  <2>2. supervisor'.pc = "sleep"
    BY <2>1 DEF Begun
  <2> QED
    BY <1>1, <2>1, <2>2 DEF HistoryOK, Asking
<1>7. ASSUME NEW k \in Kernels, KernelNext(k), ~Save(k)
      PROVE  run_state' = run_state /\ since' = since
  BY <1>7
     DEF KernelNext, StartBridge, StartWithoutBridge, PublishActiveStage,
         ClearActiveStage, StopBridge, UnlinkFiles, Unregister, EndWithoutBridge,
         KernelDies, MainThread
<1>8. ASSUME NEW k \in Kernels, BridgeNext(k), ~WriteAck(k)
      PROVE  run_state' = run_state /\ since' = since
  BY <1>8
     DEF BridgeNext, MatchRequest, IgnoreExpired, BridgeReadsState, BridgeHashesState,
         BridgeRetries, BridgeThreadDies, ServeLoop
<1>9. ASSUME SupervisorStep, ~WriteRequest, ~WriteHeartbeat
      PROVE  run_state' = run_state /\ since' = since
  BY <1>9
     DEF SupervisorStep, Begin, ObserveWaiting, ObserveTerminal, ObserveSnapshot, Observe,
         SpawnKernel, MonitorEnds, UnlinkAck, AckSeen, DeadlinePasses, ReadState,
         HashState, ReadFiles, Wake, Supervise
<1>10. CASE NextSupervisor \/ Tick
  BY <1>2, <1>10 DEF NextSupervisor, Tick
<1>11. CASE SupervisorDies
  <2>1. since' = [states |-> {}, answered |-> {}] /\ run_state' = run_state
        /\ supervisor' = [Begun EXCEPT !.pc = "off"]
    BY <1>11 DEF SupervisorDies, NothingSince
  <2>2. supervisor'.pc = "off"
    BY <2>1 DEF Begun
  <2> QED
    BY <1>1, <2>1, <2>2 DEF HistoryOK, Asking
<1> QED
  BY <1>1, <1>2, <1>3, <1>4, <1>5, <1>6, <1>7, <1>8, <1>9, <1>10, <1>11 DEF Next

LEMMA SnapshotsStep ==
  ASSUME IInv, Next
  PROVE  SnapshotsOK'
<1>1. /\ FilesOK /\ SnapshotsOK /\ SupervisorOK /\ supervisor \in Supervisors
      /\ \A k \in Kernels : bridge[k] \in Threads
      /\ BridgesOK
  BY DEF IInv, BridgesOK, SupervisorOK
<1>2. run_state.version <= run_state'.version /\ FilesOK' /\ BridgesOK' /\ SupervisorOK'
  BY StateGoesOn, FilesStep, BridgesStep, SupervisorTyped
<1>3. run_state.version \in Nat /\ run_state'.version \in Nat
  BY <1>1, <1>2, ProbeAssumption DEF FilesOK, RunState
<1>4. /\ \A k \in Kernels : bridge[k].snapshot.version \in Nat
      /\ probe_ack # None => probe_ack.snapshot.version \in Nat
      /\ supervisor.ack # None => supervisor.ack.snapshot.version \in Nat
  BY <1>1, ProbeAssumption DEF FilesOK, Threads, Supervisors, Ack, RunState
<1>5. /\ \A k \in Kernels : bridge[k].snapshot.version <= run_state'.version
      /\ probe_ack # None => probe_ack.snapshot.version <= run_state'.version
      /\ supervisor.ack # None => supervisor.ack.snapshot.version <= run_state'.version
  BY <1>1, <1>2, <1>3, <1>4 DEF SnapshotsOK
<1>6. NoBridge.snapshot.version = 0 /\ Begun.ack = None
  BY DEF NoBridge, NoSnapshot, Begun
<1>7. ASSUME NEW k \in Kernels
      PROVE  \/ bridge'[k].snapshot.version = bridge[k].snapshot.version
             \/ bridge'[k].snapshot.version = run_state.version
             \/ bridge'[k].snapshot.version = 0
  <2>0. bridge \in [Kernels -> Threads] /\ bridge[k] \in Threads
    BY <1>1 DEF BridgesOK
  <2>1. ASSUME NEW j \in Kernels, KernelNext(j)
        PROVE  \/ bridge'[k].snapshot = bridge[k].snapshot
               \/ bridge'[k].snapshot.version = 0
    <3>1. CASE Unregister(j) \/ KernelDies(j)
      <4>1. \/ bridge' = [bridge EXCEPT ![j] = [NoBridge EXCEPT !.pc = "dead"]]
            \/ bridge' = bridge
        BY <2>0, <3>1 DEF Unregister, KernelDies
      <4>2. [NoBridge EXCEPT !.pc = "dead"].snapshot = NoBridge.snapshot
        BY RestTypes DEF Threads
      <4> QED
        BY <1>6, <2>0, <4>1, <4>2
    <3>2. CASE StartBridge(j)
      BY <2>0, <3>2 DEF StartBridge, Threads
    <3> QED
      BY <2>1, <3>1, <3>2
         DEF KernelNext, StartWithoutBridge, Save, PublishActiveStage, ClearActiveStage,
             StopBridge, UnlinkFiles, EndWithoutBridge
  <2>2. ASSUME NEW j \in Kernels, BridgeNext(j)
        PROVE  \/ bridge'[k].snapshot.version = bridge[k].snapshot.version
               \/ bridge'[k].snapshot.version = run_state.version
               \/ bridge'[k].snapshot.version = 0
    <3> DEFINE old == bridge[j]
    <3>0. old \in Threads
      BY <1>1
    <3>1. ASSUME NEW thread, bridge' = [bridge EXCEPT ![j] = thread]
          PROVE  bridge'[k] = bridge[k] \/ (j = k /\ bridge'[k] = thread)
      <4>1. j # k => bridge'[k] = bridge[k]
        BY <2>0, <3>1
      <4>2. bridge'[j] = thread
        BY <2>0, <3>1
      <4> QED
        BY <4>1, <4>2
    <3>2. ASSUME NEW thread, bridge' = [bridge EXCEPT ![j] = thread],
                 \/ thread.snapshot.version = bridge[j].snapshot.version
                 \/ thread.snapshot.version = run_state.version
                 \/ thread.snapshot.version = 0
          PROVE  \/ bridge'[k].snapshot.version = bridge[k].snapshot.version
                 \/ bridge'[k].snapshot.version = run_state.version
                 \/ bridge'[k].snapshot.version = 0
      BY <3>1, <3>2
    <3> HIDE DEF old
    <3>3. CASE MatchRequest(j)
      <4>1. [old EXCEPT !.pc = "state", !.request = probe_request].snapshot = old.snapshot
        BY <3>0 DEF Threads
      <4> QED
        BY <3>2, <3>3, <4>1 DEF MatchRequest, ServeLoop, old
    <3>4. CASE IgnoreExpired(j)
      <4>1. [old EXCEPT !.last_ack = probe_request.nonce].snapshot = old.snapshot
        BY <3>0 DEF Threads
      <4> QED
        BY <3>2, <3>4, <4>1 DEF IgnoreExpired, ServeLoop, old
    <3>5. CASE BridgeReadsState(j)
      <4>1. [old EXCEPT !.pc = "hash", !.snapshot.state = run_state.state].snapshot.version
              = old.snapshot.version
        BY <3>0 DEF Threads, RunState
      <4> QED
        BY <3>2, <3>5, <4>1 DEF BridgeReadsState, ServeLoop, old
    <3>6. CASE BridgeHashesState(j)
      <4>1. [old EXCEPT !.pc = "ack", !.snapshot.version = run_state.version,
                        !.stage = active_stage].snapshot.version = run_state.version
        BY <3>0 DEF Threads, RunState
      <4> QED
        BY <3>2, <3>6, <4>1 DEF BridgeHashesState, ServeLoop, old
    <3>7. CASE BridgeRetries(j)
      <4>1. [NoBridge EXCEPT !.pc = "waiting", !.last_ack = bridge[j].last_ack]
              .snapshot.version = 0
        BY <1>6, RestTypes DEF Threads
      <4> QED
        BY <3>2, <3>7, <4>1 DEF BridgeRetries, ServeLoop
    <3>8. CASE WriteAck(j)
      <4>1. [NoBridge EXCEPT !.pc = "waiting", !.last_ack = bridge[j].request.nonce]
              .snapshot.version = 0
        BY <1>6, RestTypes DEF Threads
      <4> QED
        BY <3>2, <3>8, <4>1 DEF WriteAck, ServeLoop
    <3>9. CASE BridgeThreadDies(j)
      <4>1. [NoBridge EXCEPT !.pc = "dead"].snapshot.version = 0
        BY <1>6, RestTypes DEF Threads
      <4> QED
        BY <3>2, <3>9, <4>1 DEF BridgeThreadDies, ServeLoop
    <3> QED
      BY <2>2, <3>3, <3>4, <3>5, <3>6, <3>7, <3>8, <3>9 DEF BridgeNext
  <2>3. CASE WriteRequest
    BY <2>0, <2>3 DEF WriteRequest, Threads
  <2>4. ASSUME SupervisorStep, ~WriteRequest PROVE bridge' = bridge
    BY <2>4
       DEF SupervisorStep, Begin, ObserveWaiting, ObserveTerminal, ObserveSnapshot,
           Observe, SpawnKernel, MonitorEnds, UnlinkAck, AckSeen, DeadlinePasses,
           ReadState, HashState, ReadFiles, WriteHeartbeat, Wake
  <2>5. SupervisorDies \/ NextSupervisor \/ Tick => bridge' = bridge
    BY DEF SupervisorDies, NextSupervisor, Tick
  <2> QED
    BY <2>1, <2>2, <2>3, <2>4, <2>5 DEF Next
<1>8. probe_ack' # None =>
        \/ probe_ack # None /\ probe_ack'.snapshot = probe_ack.snapshot
        \/ \E k \in Kernels : probe_ack'.snapshot = bridge[k].snapshot
  <2>1. ASSUME NEW k \in Kernels, KernelNext(k) PROVE probe_ack' \in {None, probe_ack}
    BY <2>1
       DEF KernelNext, StartBridge, StartWithoutBridge, Save, PublishActiveStage,
           ClearActiveStage, StopBridge, UnlinkFiles, Unregister, EndWithoutBridge,
           KernelDies, MainThread, files
  <2>2. ASSUME NEW k \in Kernels, BridgeNext(k)
        PROVE  probe_ack' = probe_ack \/ probe_ack'.snapshot = bridge[k].snapshot
    BY <2>2
       DEF BridgeNext, MatchRequest, IgnoreExpired, BridgeReadsState, BridgeHashesState,
           BridgeRetries, WriteAck, BridgeThreadDies
  <2>3. CASE WriteRequest
    BY <1>1, <2>3 DEF WriteRequest, Outdated, FilesOK, Ack
  <2>4. ASSUME SupervisorStep, ~WriteRequest PROVE probe_ack' \in {None, probe_ack}
    BY <2>4
       DEF SupervisorStep, Begin, ObserveWaiting, ObserveTerminal, ObserveSnapshot,
           Observe, SpawnKernel, MonitorEnds, UnlinkAck, AckSeen, DeadlinePasses,
           ReadState, HashState, ReadFiles, WriteHeartbeat, Wake, files
  <2>5. SupervisorDies \/ NextSupervisor \/ Tick => probe_ack' = probe_ack
    BY DEF SupervisorDies, NextSupervisor, Tick, files
  <2> QED
    BY <2>1, <2>2, <2>3, <2>4, <2>5 DEF Next
<1>9. supervisor'.ack # None =>
        \/ supervisor'.ack = supervisor.ack
        \/ supervisor'.ack = probe_ack
  <2>1. ASSUME NEW k \in Kernels, KernelNext(k) \/ BridgeNext(k)
        PROVE  supervisor' = supervisor
    BY <2>1
       DEF KernelNext, StartBridge, StartWithoutBridge, Save, PublishActiveStage,
           ClearActiveStage, StopBridge, UnlinkFiles, Unregister, EndWithoutBridge,
           KernelDies, MainThread, BridgeNext, MatchRequest, IgnoreExpired,
           BridgeReadsState, BridgeHashesState, BridgeRetries, WriteAck,
           BridgeThreadDies, ServeLoop
  <2>2. CASE SupervisorStep /\ ~WriteHeartbeat
    BY <1>1, <2>2
       DEF SupervisorStep, Begin, ObserveWaiting, ObserveTerminal, ObserveSnapshot,
           Observe, SpawnKernel, MonitorEnds, UnlinkAck, WriteRequest, AckSeen,
           DeadlinePasses, ReadState, HashState, ReadFiles, Wake, Supervise, Supervisors
  <2>3. CASE WriteHeartbeat \/ SupervisorDies \/ NextSupervisor
    BY <1>6, <2>3, RestTypes
       DEF WriteHeartbeat, SupervisorDies, NextSupervisor, Supervise, Supervisors
  <2> QED
    BY <2>1, <2>2, <2>3 DEF Next, Tick
<1>10. \A k \in Kernels : bridge'[k].snapshot.version <= run_state'.version
  BY <1>2, <1>3, <1>5, <1>7
<1>11. probe_ack' # None => probe_ack'.snapshot.version <= run_state'.version
  BY <1>5, <1>8
<1>12. supervisor'.ack # None => supervisor'.ack.snapshot.version <= run_state'.version
  BY <1>5, <1>9
<1> QED
  BY <1>10, <1>11, <1>12 DEF SnapshotsOK

-----------------------------------------------------------------------------
(* What the supervisor holds while it asks *)

\* The supervisor waits: what it holds stays right while others go on.
LEMMA AnswerKeeps ==
  ASSUME IInv, Next, supervisor' = supervisor,
         probe_ack' # None /\ probe_ack'.nonce = "latest" =>
           \/ probe_ack' = probe_ack
           \/ since.states # {} => probe_ack'.kernel \in since'.answered
  PROVE  AnswerOK'
<1>1. AnswerOK
  BY DEF IInv
<1>2. supervisor.pc \in Asking =>
        /\ since'.states # {} /\ since.states \subseteq since'.states
        /\ since.answered \subseteq since'.answered
  BY <1>1, StateGoesOn DEF AnswerOK
<1> SUFFICES ASSUME supervisor.pc \in Asking
             PROVE  AnswerOK'
  BY DEF AnswerOK
<1>3. probe_ack' # None /\ probe_ack'.nonce = "latest" =>
        probe_ack'.kernel \in since'.answered
  BY <1>1, <1>2 DEF AnswerOK
<1>4. supervisor.pc # "await" /\ supervisor.ack # None =>
        supervisor.ack.kernel \in since'.answered
  BY <1>1, <1>2 DEF AnswerOK
<1>5. supervisor.pc = "hash" =>
        \E s \in since'.states :
          /\ s.state = supervisor.snapshot.state
          /\ supervisor.ack # None => supervisor.ack.snapshot.version <= s.version
  BY <1>1, <1>2 DEF AnswerOK
<1>6. /\ supervisor.pc \in {"files", "judge"} /\ supervisor.ack # None
      /\ supervisor.ack.snapshot.version = supervisor.snapshot.version
      => supervisor.snapshot \in since'.states
  BY <1>1, <1>2 DEF AnswerOK
<1>7. /\ supervisor.request \in Request /\ supervisor.request.nonce = "latest"
      /\ supervisor.request.kernel = supervisor.kernel
  BY <1>1 DEF AnswerOK
<1> QED
  BY <1>2, <1>3, <1>4, <1>5, <1>6, <1>7 DEF AnswerOK

LEMMA AnswerStep ==
  ASSUME IInv, Next
  PROVE  AnswerOK'
<1>1. /\ FilesOK /\ KernelsOK /\ BridgesOK /\ SupervisorOK /\ SnapshotsOK /\ HistoryOK
      /\ AnswerOK /\ supervisor \in Supervisors
  BY DEF IInv, SupervisorOK
<1>2. run_state.version \in Nat
  BY <1>1, ProbeAssumption DEF FilesOK, RunState
<1>3. ASSUME NEW k \in Kernels, KernelNext(k) PROVE AnswerOK'
  <2>1. supervisor' = supervisor /\ probe_ack' \in {None, probe_ack}
    BY <1>3
       DEF KernelNext, StartBridge, StartWithoutBridge, Save, PublishActiveStage,
           ClearActiveStage, StopBridge, UnlinkFiles, Unregister, EndWithoutBridge,
           KernelDies, MainThread, files
  <2> QED
    BY <2>1, AnswerKeeps
<1>4. ASSUME NEW k \in Kernels, BridgeNext(k) PROVE AnswerOK'
  <2>1. supervisor' = supervisor
    BY <1>4
       DEF BridgeNext, MatchRequest, IgnoreExpired, BridgeReadsState, BridgeHashesState,
           BridgeRetries, WriteAck, BridgeThreadDies, ServeLoop
  <2>2. CASE WriteAck(k)
    <3>1. probe_ack'.kernel = k
      BY <2>2 DEF WriteAck
    <3>2. since.states # {} => k \in since'.answered
      BY <1>1, <2>2 DEF WriteAck, HistoryOK
    <3> QED
      BY <2>1, <3>1, <3>2, AnswerKeeps
  <2>3. CASE ~WriteAck(k)
    <3>1. probe_ack' = probe_ack
      BY <1>4, <2>3
         DEF BridgeNext, MatchRequest, IgnoreExpired, BridgeReadsState,
             BridgeHashesState, BridgeRetries, BridgeThreadDies
    <3> QED
      BY <2>1, <3>1, AnswerKeeps
  <2> QED
    BY <2>2, <2>3
<1>5. ASSUME supervisor'.pc \notin Asking PROVE AnswerOK'
  BY <1>5 DEF AnswerOK
<1>6. CASE WriteRequest
  <2> DEFINE request == [kernel |-> supervisor.kernel, nonce |-> "latest",
                         own |-> kernel[supervisor.kernel].session = session]
  <2>1. /\ supervisor.pc = "request" /\ probe_ack' = Outdated(probe_ack)
        /\ supervisor' = [supervisor EXCEPT !.pc = "await", !.request = request]
        /\ since' = [states |-> {run_state}, answered |-> {}]
    BY <1>6 DEF WriteRequest, Supervise
  <2>2. supervisor.kernel \in Kernels
    BY <1>1, <2>1 DEF SupervisorOK, Supervisors
  <2>3. request \in Request /\ request.nonce = "latest"
        /\ request.kernel = supervisor.kernel
    BY <1>1, <2>2 DEF KernelsOK, Process, Request, Nonces
  <2> HIDE DEF request
  <2>4. /\ supervisor'.pc = "await" /\ supervisor'.request = request
        /\ supervisor'.kernel = supervisor.kernel
    BY <1>1, <2>1 DEF Supervisors
  <2>5. probe_ack' # None => probe_ack'.nonce # "latest"
    BY <1>1, <2>1 DEF Outdated, FilesOK, Ack
  <2>6. since'.states # {}
    BY <2>1
  <2> QED
    BY <2>3, <2>4, <2>5, <2>6 DEF AnswerOK
<1>7. ASSUME supervisor.pc \in Asking, since' = since, probe_ack' = probe_ack,
             supervisor'.request = supervisor.request,
             supervisor'.kernel = supervisor.kernel,
             supervisor'.pc # "await" /\ supervisor'.ack # None =>
               supervisor'.ack.kernel \in since.answered,
             supervisor'.pc = "hash" =>
               \E s \in since.states :
                 /\ s.state = supervisor'.snapshot.state
                 /\ supervisor'.ack # None => supervisor'.ack.snapshot.version <= s.version,
             /\ supervisor'.pc \in {"files", "judge"} /\ supervisor'.ack # None
             /\ supervisor'.ack.snapshot.version = supervisor'.snapshot.version
             => supervisor'.snapshot \in since.states
      PROVE  AnswerOK'
  BY <1>1, <1>7 DEF AnswerOK
<1>8. CASE AckSeen \/ DeadlinePasses
  <2>1. /\ supervisor.pc = "await" /\ UNCHANGED <<since, probe_ack>>
        /\ \/ /\ supervisor' = [supervisor EXCEPT !.pc = "state", !.ack = probe_ack]
              /\ probe_ack # None /\ probe_ack.nonce = supervisor.request.nonce
           \/ supervisor' = [supervisor EXCEPT !.pc = "judge", !.ack = None]
    BY <1>8 DEF AckSeen, DeadlinePasses, Supervise
  <2>2. /\ supervisor'.pc \in {"state", "judge"} /\ supervisor'.request = supervisor.request
        /\ supervisor'.kernel = supervisor.kernel
        /\ supervisor'.pc = "judge" => supervisor'.ack = None
        /\ supervisor'.ack # None =>
             supervisor'.ack = probe_ack /\ probe_ack.nonce = supervisor.request.nonce
    BY <1>1, <2>1 DEF Supervisors
  <2>3. supervisor'.ack # None => supervisor'.ack.kernel \in since.answered
    BY <1>1, <2>1, <2>2 DEF AnswerOK, Asking
  <2> QED
    BY <1>7, <2>1, <2>2, <2>3 DEF Asking
<1>9. CASE ReadState
  <2>1. /\ supervisor.pc = "state" /\ UNCHANGED <<since, probe_ack>>
        /\ supervisor' = [supervisor EXCEPT !.pc = "hash",
                                            !.snapshot.state = run_state.state]
    BY <1>9 DEF ReadState, Supervise
  <2>2. /\ supervisor'.pc = "hash" /\ supervisor'.request = supervisor.request
        /\ supervisor'.kernel = supervisor.kernel /\ supervisor'.ack = supervisor.ack
        /\ supervisor'.snapshot.state = run_state.state
    BY <1>1, <2>1 DEF Supervisors, RunState
  <2>3. run_state \in since.states
    BY <1>1, <2>1 DEF AnswerOK, HistoryOK, Asking
  <2>4. supervisor.ack # None => supervisor.ack.snapshot.version <= run_state.version
    BY <1>1 DEF SnapshotsOK
  <2>5. supervisor.ack # None => supervisor.ack.kernel \in since.answered
    BY <1>1, <2>1 DEF AnswerOK, Asking
  <2> QED
    BY <1>7, <2>1, <2>2, <2>3, <2>4, <2>5 DEF Asking
<1>10. CASE HashState
  <2>1. /\ supervisor.pc = "hash" /\ UNCHANGED <<since, probe_ack>>
        /\ supervisor' = [supervisor EXCEPT !.pc = "files",
                                            !.snapshot.version = run_state.version]
    BY <1>10 DEF HashState, Supervise
  <2>2. /\ supervisor'.pc = "files" /\ supervisor'.request = supervisor.request
        /\ supervisor'.kernel = supervisor.kernel /\ supervisor'.ack = supervisor.ack
        /\ supervisor'.snapshot =
             [version |-> run_state.version, state |-> supervisor.snapshot.state]
    BY <1>1, <2>1 DEF Supervisors, RunState
  <2>3. PICK s \in since.states :
          /\ s.state = supervisor.snapshot.state
          /\ supervisor.ack # None => supervisor.ack.snapshot.version <= s.version
    BY <1>1, <2>1 DEF AnswerOK, Asking
  <2>4. /\ s \in RunState /\ s.version \in Nat /\ s.version <= run_state.version
        /\ run_state \in since.states
        /\ s.version = run_state.version => s = run_state
    BY <1>1, <2>3, ProbeAssumption DEF HistoryOK, RunState
  <2>5. supervisor.ack # None => supervisor.ack.snapshot.version \in Nat
    BY <1>1, ProbeAssumption DEF Supervisors, Ack, RunState
  <2>6. supervisor.ack # None /\ supervisor.ack.snapshot.version = run_state.version =>
          s.version = run_state.version
    BY <1>2, <2>3, <2>4, <2>5
  <2>7. run_state = [version |-> run_state.version, state |-> run_state.state]
    BY <1>1 DEF FilesOK, RunState
  <2>8. supervisor.ack # None /\ supervisor.ack.snapshot.version = run_state.version =>
          supervisor'.snapshot = run_state
    BY <2>2, <2>3, <2>4, <2>6, <2>7
  <2>9. supervisor.ack # None => supervisor.ack.kernel \in since.answered
    BY <1>1, <2>1 DEF AnswerOK, Asking
  <2>10. supervisor'.snapshot.version = run_state.version
    BY <2>2
  <2> QED
    BY <1>7, <2>1, <2>2, <2>4, <2>8, <2>9, <2>10 DEF Asking
<1>11. CASE ReadFiles
  <2>1. /\ supervisor.pc = "files" /\ UNCHANGED <<since, probe_ack>>
        /\ supervisor' = [supervisor EXCEPT !.pc = "judge", !.stage = active_stage,
                                            !.registration = bridge_registration]
    BY <1>11 DEF ReadFiles, Supervise
  <2>2. /\ supervisor'.pc = "judge" /\ supervisor'.request = supervisor.request
        /\ supervisor'.kernel = supervisor.kernel /\ supervisor'.ack = supervisor.ack
        /\ supervisor'.snapshot = supervisor.snapshot
    BY <1>1, <2>1 DEF Supervisors
  <2>3. /\ supervisor.ack # None => supervisor.ack.kernel \in since.answered
        /\ supervisor.ack # None
           /\ supervisor.ack.snapshot.version = supervisor.snapshot.version
           => supervisor.snapshot \in since.states
    BY <1>1, <2>1 DEF AnswerOK, Asking
  <2> QED
    BY <1>7, <2>1, <2>2, <2>3 DEF Asking
<1>12. CASE \/ Begin \/ ObserveWaiting \/ ObserveTerminal \/ ObserveSnapshot
            \/ (\E k \in Kernels : SpawnKernel(k)) \/ MonitorEnds \/ UnlinkAck
            \/ WriteHeartbeat \/ Wake \/ SupervisorDies \/ NextSupervisor
  <2>1. /\ [Begun EXCEPT !.pc = "off"].pc = "off" /\ Begun.pc = "begin"
        /\ [Begun EXCEPT !.pc = "sleep", !.kernel = supervisor.kernel].pc = "sleep"
    BY DEF Begun
  <2>2. supervisor'.pc \notin Asking
    BY <1>1, <1>12, <2>1
       DEF Begin, ObserveWaiting, ObserveTerminal, ObserveSnapshot, Observe, SpawnKernel,
           MonitorEnds, UnlinkAck, WriteHeartbeat, Wake, SupervisorDies, NextSupervisor,
           Supervise, Supervisors, Asking
  <2> QED
    BY <1>5, <2>2
<1>13. CASE Tick
  BY <1>13, AnswerKeeps DEF Tick, files
<1> QED
  BY <1>3, <1>4, <1>6, <1>8, <1>9, <1>10, <1>11, <1>12, <1>13 DEF Next, SupervisorStep

-----------------------------------------------------------------------------
(* The theorems *)

\* Of Spec only Init and the steps matter here.
THEOREM Invariance == Init /\ [][Next]_vars => []IInv
<1>1. Init => IInv
  <2> SUFFICES ASSUME Init PROVE IInv
    OBVIOUS
  <2>1. FilesOK
    BY ProbeAssumption DEF Init, FilesOK, RunState, States, Ages
  <2>2. KernelsOK
    BY ProbeAssumption DEF Init, KernelsOK, Process
  <2>3. BridgesOK /\ \A k \in Kernels : bridge[k] = NoBridge
    <3>1. \A k \in Kernels : bridge[k] = NoBridge /\ ~kernel[k].child
      BY DEF Init
    <3>2. NoBridge.pc = "off"
      BY DEF NoBridge
    <3> QED
      BY <3>1, <3>2, RestTypes DEF Init, BridgesOK
  <2>4. SupervisorOK /\ supervisor.ack = None /\ supervisor.pc = "begin"
    BY RestTypes DEF Init, SupervisorOK, Begun
  <2>5. SnapshotsOK
    <3>1. NoBridge.snapshot.version = 0
      BY DEF NoBridge, NoSnapshot
    <3> QED
      BY <2>3, <2>4, <3>1 DEF Init, SnapshotsOK
  <2>6. HistoryOK
    BY DEF Init, HistoryOK, NothingSince
  <2>7. AnswerOK
    BY <2>4 DEF AnswerOK, Asking
  <2> QED
    BY <2>1, <2>2, <2>3, <2>4, <2>5, <2>6, <2>7 DEF IInv
<1>2. IInv /\ [Next]_vars => IInv'
  <2>1. ASSUME IInv, Next PROVE IInv'
    BY <2>1, FilesStep, KernelsStep, BridgesStep, SupervisorTyped, SnapshotsStep,
       StateGoesOn, AnswerStep DEF IInv
  <2>2. ASSUME IInv, UNCHANGED vars PROVE IInv'
    <3>1. UNCHANGED <<run_state, bridge_registration, active_stage, probe_request,
                      probe_ack, heartbeat, age, kernel, bridge, supervisor, session, since>>
      BY <2>2 DEF vars, files
    <3> QED
      BY <2>2, <3>1
         DEF IInv, FilesOK, KernelsOK, BridgesOK, SupervisorOK, SnapshotsOK, HistoryOK,
             AnswerOK
  <2> QED
    BY <2>1, <2>2
<1> QED
  BY <1>1, <1>2, PTL

\* The files keep their schemas, a supervisor has a kernel while it monitors and only
\* then, and a published stage its bridge.
THEOREM TypeCorrect == Spec => []TypeOK
<1>1. IInv => TypeOK
  BY DEF IInv, FilesOK, KernelsOK, Process, BridgesOK, SupervisorOK, HistoryOK, TypeOK
<1> QED
  BY <1>1, Invariance, PTL DEF Spec

\* A live claim is of a kernel that answered the request it was asked, and tells a
\* state of the run since then, never two halves (validate_probe_roundtrip).
THEOREM LiveProven == Spec => LiveIsProven
<1> DEFINE Proven ==
      \A k \in Kernels : WriteHeartbeat /\ Attests(k)' =>
        k \in since.answered /\ supervisor.snapshot \in since.states
<1>1. ASSUME IInv, NEW k \in Kernels, WriteHeartbeat, Attests(k)'
      PROVE  k \in since.answered /\ supervisor.snapshot \in since.states
  <2>1. supervisor.pc = "judge" /\ AnswerOK /\ HistoryOK
    BY <1>1 DEF IInv, WriteHeartbeat, Supervise
  <2>2. /\ heartbeat' =
             [claim |-> IF Valid(supervisor) THEN "live_attached"
                        ELSE "attachment_unproven",
              kernel |-> supervisor.kernel]
        /\ heartbeat'.claim = "live_attached" /\ heartbeat'.kernel = k
    BY <1>1 DEF WriteHeartbeat, AppendHeartbeat, Attests
  <2>3. Valid(supervisor) /\ supervisor.kernel = k
    BY <2>2
  <2>4. /\ supervisor.ack # None /\ supervisor.ack.kernel = supervisor.request.kernel
        /\ supervisor.ack.snapshot = supervisor.snapshot
    BY <2>3 DEF Valid
  <2>5. /\ supervisor.ack.kernel \in since.answered
        /\ supervisor.request.kernel = supervisor.kernel
        /\ supervisor.snapshot \in since.states
    BY <2>1, <2>4 DEF AnswerOK, Asking
  <2> QED
    BY <2>3, <2>4, <2>5
<1>2. IInv /\ [Next]_vars => [Proven]_vars
  BY <1>1
<1> QED
  BY <1>2, Invariance, PTL DEF Spec, LiveIsProven
=============================================================================
