------------------------------ MODULE Supervision ------------------------------
(***************************************************************************)
(* The supervisor of a run: RunSupervisor.manage of                         *)
(* automation/plan_orchestrator/supervisor.py, which starts the kernel,     *)
(* waits for its end, classifies what it left (classify_recovery of         *)
(* supervision_recovery.py) and acts on that.  One supervisor at a time is  *)
(* modelled; ControlLock says how far that can be relied on.                *)
(*                                                                         *)
(* The kernel, the human and the disk are the supervisor's environment.     *)
(* The kernel is seen as its supervisor sees it, from one outcome of an     *)
(* item to the next (Kernel has the inside); a stop of it in between leaves *)
(* current_state "inside", or at an outcome that the item's row lacks.      *)
(* Reports matter to the supervisor through their hashes: an attempt that   *)
(* writes reports writes new ones (they name the attempt and the time), one *)
(* that fails earlier leaves the old ones.                                  *)
(* Heartbeats, and interventions that no budget counts, are left out.       *)
(*                                                                         *)
(* A definition whose name ends in _slip is wrong on purpose: the one after *)
(* it with a plausible mistake, kept to test that the properties notice.    *)
(***************************************************************************)
EXTENDS Naturals, Sequences, FiniteSets, RunStateMachine

CONSTANTS
  NumItems,        \* items of the plan
  AutoAdvance,     \* run_state.options.auto_advance
  Budget,          \* max_auto_resume_attempts
  WaitBounded,     \* is max_wait_seconds given
  Damages,         \* what may go wrong with the run's files and branch
  MaxAttempts,     \* bound: attempts of all items
  MaxPackages,     \* bound: contents of the evidence inbox
  MaxDeaths,       \* bound: deaths of the supervisor
  MaxHumanResumes  \* bound: resumes a human starts

Items == 1..NumItems
None  == 0

ASSUME SupervisionAssumption ==
  /\ NumItems \in Nat \ {0} /\ Budget \in Nat
  /\ AutoAdvance \in BOOLEAN /\ WaitBounded \in BOOLEAN
  /\ Damages \subseteq {"plan_missing", "plan_invalid", "source_missing", "branch_missing"}
  /\ MaxAttempts \in Nat /\ MaxPackages \in Nat /\ MaxDeaths \in Nat
  /\ MaxHumanResumes \in Nat

VARIABLES
  \* the run, as its files tell it
  current_state,    \* "none" before there is a run, "inside" in an attempt
  current_item_id,  \* an item, or None
  rows,             \* item -> outcome, gate record, reports
  damage,           \* subset of Damages
  \* the kernel process
  kernel,
  \* the supervisor's process
  pc, mode, prior_wait_action_kind, initial_resume_consumed,
  explicit_evidence, decision,
  \* the supervisor's files, and what a human puts in the inbox
  interventions, inbox,
  \* observation
  attempts, resumes, uncounted, mishaps

run        == <<current_state, current_item_id, rows>>
supervisor == <<mode, prior_wait_action_kind, initial_resume_consumed,
                explicit_evidence>>
history    == <<resumes, uncounted>>
vars == <<run, damage, kernel, pc, supervisor, decision, interventions, inbox,
          attempts, history, mishaps>>

\* The package an operator names on the command line.
Explicit == MaxPackages + 1
Packages == 0..Explicit

RunStates == {"none", "ST05", "inside", "ST110", "ST120", "ST130", "ST140"}
Row == [terminal_state : TerminalNames,
        gate : {"none", "pending", "approved", "rejected"},
        reports : 0..MaxAttempts,  \* the attempt that wrote them
        scope_failed : BOOLEAN]
KernelProcess == [phase : {"none", "starting", "ready", "reset", "next", "busy"},
                  supervised : BOOLEAN, registered : BOOLEAN,
                  item : Items \cup {None}, evidence : Packages]
NoKernel == [phase |-> "none", supervised |-> FALSE, registered |-> FALSE,
             item |-> None, evidence |-> 0]

Waits   == {"wait_manual_gate", "wait_external_evidence"}
Resumes == {"resume_saved_run", "resume_after_manual_gate",
            "resume_blocked_external", "resume_escalated"}
Actions == Waits \cup Resumes
           \cup {"none", "terminal_passed", "terminal_segment_passed",
                 "doctor_fix_safe", "park"}
Fingerprint == [item : Items \cup {None}, terminal_state : TerminalNames,
                current_state : RunStates, reports : 0..MaxAttempts, package : Packages]
NoFingerprint == [item |-> None, terminal_state |-> "none", current_state |-> "none",
                  reports |-> 0, package |-> 0]
Decision == [action : Actions, item : Items \cup {None}, fingerprint : Fingerprint,
             package : Packages]
NoDecision == [action |-> "none", item |-> None, fingerprint |-> NoFingerprint,
               package |-> 0]

\* The interventions some budget counts.
Counted == {"resume_escalated", "resume_blocked_external", "doctor_fix_safe"}
Intervention == [action : Counted, item : Items \cup {None}, fingerprint : Fingerprint]

Init ==
  /\ current_state = "none" /\ current_item_id = None
  /\ rows = [i \in Items |-> [terminal_state |-> "none", gate |-> "none",
                              reports |-> 0, scope_failed |-> FALSE]]
  /\ damage = {} /\ kernel = NoKernel
  /\ pc = "off" /\ mode = "run" /\ prior_wait_action_kind = "none"
  /\ initial_resume_consumed = FALSE /\ explicit_evidence = 0
  /\ decision = NoDecision /\ interventions = <<>> /\ inbox = 0
  /\ attempts = 0 /\ mishaps = {}
  /\ resumes = [i \in Items |-> 0] /\ uncounted = [i \in Items |-> 0]

Unfinished == \E i \in Items : rows[i].terminal_state # "passed"
KernelRuns == kernel.phase # "none"
KernelFiles == <<damage, interventions, inbox>>

-----------------------------------------------------------------------------
(* classify_recovery *)

\* _current_item_state
Focus ==
  IF current_item_id # None THEN current_item_id
  ELSE IF Unfinished THEN CHOOSE i \in Items : FirstUnfinished(i, rows)
  ELSE None
item_state == rows[Focus]

\* _ready_evidence_directory: 0 for none.
ReadyEvidence == IF explicit_evidence # 0 THEN explicit_evidence ELSE inbox

\* build_recovery_fingerprint; the summary is a function of the outcome.
FingerprintWith(package) ==
  [item |-> Focus, terminal_state |-> item_state.terminal_state,
   current_state |-> current_state, reports |-> item_state.reports,
   package |-> package]

CountPrior(action, fingerprint) ==
  Cardinality({n \in 1..Len(interventions) :
     interventions[n].action = action /\ interventions[n].fingerprint = fingerprint})
CountPriorForItem(action, i) ==
  Cardinality({n \in 1..Len(interventions) :
     interventions[n].action = action /\ interventions[n].item = i})

\* The checks of the doctor's report that decide something.
RunReferences ==
  [normalized_plan_path_exists |-> "plan_missing" \notin damage,
   normalized_plan_valid       |-> "plan_invalid" \notin damage,
   run_branch_exists           |-> "branch_missing" \notin damage]
NeedsDoctorFix == ~RunReferences.normalized_plan_path_exists
                  \/ ~RunReferences.normalized_plan_valid

\* The pending action of the status report, which looks at an item of its own
\* (_focus_item) and at whether files exist.
Stopped(i) == rows[i].terminal_state \in
                {"awaiting_human_gate", "blocked_external", "escalated"}
PendingRepair ==
  /\ damage \cap {"plan_missing", "source_missing"} # {}
  /\ Unfinished => IF current_item_id # None THEN ~Stopped(current_item_id)
                   ELSE \A i \in Items : ~Stopped(i)

AllowResumeAfterManualGate == mode = "resume" \/ AutoAdvance
AfterManualGate ==
  /\ prior_wait_action_kind = "wait_manual_gate"
  /\ AllowResumeAfterManualGate
  /\ current_state = "ST130" /\ Unfinished

DoctorAction ==
  IF CountPrior("doctor_fix_safe", FingerprintWith(0)) >= 1
  THEN "park" ELSE "doctor_fix_safe"

BlockedAction ==
  IF ReadyEvidence = 0 THEN "wait_external_evidence"
  ELSE IF CountPrior("resume_blocked_external", FingerprintWith(ReadyEvidence)) >= 1
  THEN "park" ELSE "resume_blocked_external"

EscalatedAction_slip ==
  IF item_state.gate = "rejected" \/ ~RunReferences.run_branch_exists
     \/ item_state.scope_failed
  THEN "park"
  ELSE IF NeedsDoctorFix THEN DoctorAction
  ELSE IF CountPrior("resume_escalated", FingerprintWith(0)) >= Budget
  THEN "park" ELSE "resume_escalated"

EscalatedAction_slip2 ==
  IF ~RunReferences.run_branch_exists \/ item_state.scope_failed
  THEN "park"
  ELSE IF NeedsDoctorFix THEN DoctorAction
  ELSE IF \/ CountPriorForItem("resume_escalated", Focus) >= Budget
          \/ CountPrior("resume_escalated", FingerprintWith(0)) >= Budget
  THEN "park" ELSE "resume_escalated"

EscalatedAction ==
  IF item_state.gate = "rejected" \/ ~RunReferences.run_branch_exists
     \/ item_state.scope_failed
  THEN "park"
  ELSE IF NeedsDoctorFix THEN DoctorAction
  ELSE IF \/ CountPriorForItem("resume_escalated", Focus) >= Budget
          \/ CountPrior("resume_escalated", FingerprintWith(0)) >= Budget
  THEN "park" ELSE "resume_escalated"

PassedAction ==
  IF ~Unfinished THEN "terminal_passed"
  ELSE IF AutoAdvance THEN "resume_saved_run" ELSE "terminal_segment_passed"

In(state, outcome) == current_state = state \/ item_state.terminal_state = outcome

RecoveryAction ==
  IF Focus = None THEN "terminal_passed"
  ELSE IF AfterManualGate THEN "resume_after_manual_gate"
  ELSE IF In("ST110", "awaiting_human_gate") THEN "wait_manual_gate"
  ELSE IF In("ST120", "blocked_external") THEN BlockedAction
  ELSE IF PendingRepair /\ NeedsDoctorFix THEN DoctorAction
  ELSE IF In("ST140", "escalated") THEN EscalatedAction
  ELSE IF mode = "resume" /\ ~initial_resume_consumed /\ Unfinished
       THEN "resume_saved_run"
  ELSE IF current_state = "ST130" THEN PassedAction
  ELSE "park"

RecoveryDecision ==
  IF Focus = None THEN [NoDecision EXCEPT !.action = "terminal_passed"]
  ELSE [action |-> RecoveryAction, item |-> Focus,
        fingerprint |-> FingerprintWith(IF In("ST120", "blocked_external")
                                        THEN ReadyEvidence ELSE 0),
        package |-> IF RecoveryAction = "resume_blocked_external"
                    THEN ReadyEvidence ELSE 0]

-----------------------------------------------------------------------------
(* The supervisor *)

Goto(from, to) == pc = from /\ pc' = to

\* Every supervisor begins with nothing in memory.
Begin(as, evidence) ==
  /\ mode' = as
  /\ prior_wait_action_kind' = "none"
  /\ initial_resume_consumed' = FALSE
  /\ explicit_evidence' = evidence

\* A process that finds another kernel running on the run it starts one for:
\* the two are not followed further.
SpawnKernel(evidence) ==
  IF KernelRuns
  THEN UNCHANGED kernel /\ mishaps' = mishaps \cup {"two_kernels"}
  ELSE /\ kernel' = [NoKernel EXCEPT !.phase = "starting", !.supervised = TRUE,
                                     !.evidence = evidence]
       /\ UNCHANGED mishaps

\* supervise_run
SuperviseRun ==
  /\ Goto("off", "monitor")
  /\ current_state = "none" /\ ~KernelRuns
  /\ Begin("run", 0)
  /\ \E evidence \in {0, Explicit} : SpawnKernel(evidence)
  /\ UNCHANGED <<run, KernelFiles, decision, attempts, history>>

SuperviseResume_slip ==
  /\ Goto("off", "classify")
  /\ current_state # "none"
  /\ \E evidence \in {0, Explicit} : Begin("resume", evidence)
  /\ UNCHANGED <<run, KernelFiles, kernel, decision, attempts, history, mishaps>>

\* supervise_resume: a kernel that registered is attached to.
SuperviseResume ==
  /\ pc = "off"
  /\ pc' = IF kernel.registered THEN "monitor" ELSE "classify"
  /\ current_state # "none"
  /\ \E evidence \in {0, Explicit} : Begin("resume", evidence)
  /\ UNCHANGED <<run, KernelFiles, kernel, decision, attempts, history, mishaps>>

\* _monitor_kernel_invocation returns once its own kernel is over.
MonitorEnds ==
  /\ Goto("monitor", "classify")
  /\ ~kernel.supervised
  /\ UNCHANGED <<run, KernelFiles, kernel, supervisor, decision, attempts,
                 history, mishaps>>

\* Without a run state classify_recovery raises and the call is over.
Classify ==
  /\ pc = "classify"
  /\ IF current_state = "none"
     THEN pc' = "off" /\ UNCHANGED decision
     ELSE pc' = "act" /\ decision' = RecoveryDecision
  /\ UNCHANGED <<run, KernelFiles, kernel, supervisor, attempts, history, mishaps>>

Finish ==
  /\ Goto("act", "off")
  /\ decision.action \in {"terminal_passed", "terminal_segment_passed"}
  /\ decision' = NoDecision
  /\ UNCHANGED <<run, KernelFiles, kernel, supervisor, attempts, history, mishaps>>

\* No budget counts the intervention of a supervisor that gives up.
Park ==
  /\ Goto("act", "off")
  /\ decision.action = "park"
  /\ prior_wait_action_kind' = "none"
  /\ decision' = NoDecision
  /\ UNCHANGED <<run, KernelFiles, kernel, mode, initial_resume_consumed,
                 explicit_evidence, attempts, history, mishaps>>

Wait ==
  /\ pc = "act"
  /\ decision.action \in Waits
  /\ prior_wait_action_kind' = decision.action
  /\ pc' \in {"wait"} \cup (IF WaitBounded THEN {"off"} ELSE {})
  /\ decision' = NoDecision
  /\ UNCHANGED <<run, KernelFiles, kernel, mode, initial_resume_consumed,
                 explicit_evidence, attempts, history, mishaps>>

Poll ==
  /\ Goto("wait", "classify")
  /\ UNCHANGED <<run, KernelFiles, kernel, supervisor, decision, attempts,
                 history, mishaps>>

Record(d) ==
  interventions' = IF d.action \in Counted
                   THEN Append(interventions, [action |-> d.action, item |-> d.item,
                                               fingerprint |-> d.fingerprint])
                   ELSE interventions

\* doctor --fix-safe rebuilds the plan from its snapshot, or skips that.
Repaired == {damage, damage \ {"plan_missing", "plan_invalid"}}

Repair_slip ==
  /\ Goto("act", "classify")
  /\ decision.action = "doctor_fix_safe"
  /\ damage' \in Repaired
  /\ prior_wait_action_kind' = "none"
  /\ decision' = NoDecision
  /\ UNCHANGED <<run, kernel, mode, initial_resume_consumed, explicit_evidence,
                 interventions, inbox, attempts, history, mishaps>>

Repair ==
  /\ Goto("act", "classify")
  /\ decision.action = "doctor_fix_safe"
  /\ damage' \in Repaired
  /\ Record(decision)
  /\ prior_wait_action_kind' = "none"
  /\ decision' = NoDecision
  /\ UNCHANGED <<run, kernel, mode, initial_resume_consumed, explicit_evidence,
                 inbox, attempts, history, mishaps>>

\* spawn_supervised_resume.  Evidence goes to the kernel of a blocked item only.
SpawnResume ==
  /\ Goto("act", "record")
  /\ decision.action \in Resumes
  /\ SpawnKernel(decision.package)
  /\ prior_wait_action_kind' = "none"
  /\ initial_resume_consumed' = TRUE
  /\ resumes' = IF decision.action = "resume_escalated"
                THEN [resumes EXCEPT ![decision.item] = @ + 1] ELSE resumes
  /\ UNCHANGED <<run, KernelFiles, mode, explicit_evidence, decision, attempts,
                 uncounted>>

\* The intervention is written after the kernel was started.
RecordResume ==
  /\ Goto("record", "monitor")
  /\ Record(decision)
  /\ explicit_evidence' = 0
  /\ decision' = NoDecision
  /\ UNCHANGED <<run, damage, inbox, kernel, mode, prior_wait_action_kind,
                 initial_resume_consumed, attempts, history, mishaps>>

\* The supervisor dies; its kernel lives on.
Die ==
  /\ pc # "off"
  /\ Cardinality(mishaps \cap {"death1", "death2"}) < MaxDeaths
  /\ pc' = "off"
  /\ decision' = NoDecision
  /\ mishaps' = mishaps
       \cup {IF "death1" \in mishaps THEN "death2" ELSE "death1"}
       \cup (IF KernelRuns /\ ~kernel.registered THEN {"unattached"} ELSE {})
  /\ uncounted' = IF pc = "record" /\ decision.action = "resume_escalated"
                  THEN [uncounted EXCEPT ![decision.item] = @ + 1] ELSE uncounted
  /\ UNCHANGED <<run, KernelFiles, kernel, supervisor, attempts, resumes>>

-----------------------------------------------------------------------------
(* The kernel, from the outside *)

KernelStep(from, to) == kernel.phase = from /\ kernel' = [kernel EXCEPT !.phase = to]
Elsewhere == <<damage, pc, supervisor, decision, interventions, inbox>>
KernelOnly == UNCHANGED <<Elsewhere, history>>

\* The bridge registers before the run is looked at; a bridge that fails is
\* done without, and a kernel that no supervisor started has none.
KernelBegins ==
  /\ kernel.phase = "starting"
  /\ \E registered \in BOOLEAN :
       kernel' = [kernel EXCEPT !.phase = "ready", !.registered = registered]
  /\ UNCHANGED <<run, attempts, mishaps>> /\ KernelOnly

\* run: the first save of the run.
KernelCreatesRun ==
  /\ kernel.phase = "ready" /\ current_state = "none"
  /\ kernel' = [kernel EXCEPT !.phase = "next"]
  /\ current_state' = "ST05"
  /\ UNCHANGED <<current_item_id, rows, attempts, mishaps>> /\ KernelOnly

\* A call that ends without an attempt: preflight, a state resume refuses, an
\* item whose inputs or prerequisites are missing.
KernelEnds ==
  /\ kernel.phase \in {"starting", "ready", "reset", "next"}
  /\ kernel' = NoKernel
  /\ UNCHANGED <<run, attempts, mishaps>> /\ KernelOnly

ResumeTarget(i) ==
  IF current_item_id # None /\ current_state \in {"ST120", "ST140"}
  THEN i = current_item_id ELSE FirstUnfinished(i, rows)

KernelResets ==
  /\ kernel.phase = "ready" /\ "plan_missing" \notin damage
  /\ current_state \notin {"none", "ST110"}
  /\ \E i \in Items :
       /\ ResumeTarget(i)
       /\ \/ rows[i].terminal_state = "escalated"
          \/ rows[i].terminal_state = "blocked_external" /\ kernel.evidence # 0
       /\ kernel' = [kernel EXCEPT !.phase = "reset", !.item = i]
  /\ current_state' = "ST05" /\ current_item_id' = None
  /\ UNCHANGED <<rows, attempts, mishaps>> /\ KernelOnly

KernelSelects_slip ==
  /\ attempts < MaxAttempts
  /\ \E i \in Items :
       /\ \/ kernel.phase = "reset" /\ i = kernel.item
          \/ kernel.phase = "next" /\ rows[i].terminal_state # "passed"
          \/ /\ kernel.phase = "ready" /\ "plan_missing" \notin damage
             /\ ResumeTarget(i)
             /\ rows[i].terminal_state \notin {"blocked_external", "escalated"}
       /\ kernel' = [kernel EXCEPT !.phase = "busy", !.item = i]
       /\ current_item_id' = i
       /\ rows' = [rows EXCEPT ![i].terminal_state = "none"]
  /\ current_state' = "inside"
  /\ attempts' = attempts + 1
  /\ UNCHANGED <<Elsewhere, resumes, uncounted, mishaps>>

\* An attempt begins; the table lets it begin from two states only.
KernelSelects ==
  /\ current_state \in {"ST05", "ST130"}
  /\ attempts < MaxAttempts
  /\ \E i \in Items :
       /\ \/ kernel.phase = "reset" /\ i = kernel.item
          \/ kernel.phase = "next" /\ rows[i].terminal_state # "passed"
          \/ /\ kernel.phase = "ready" /\ "plan_missing" \notin damage
             /\ ResumeTarget(i)
             /\ rows[i].terminal_state \notin {"blocked_external", "escalated"}
       /\ kernel' = [kernel EXCEPT !.phase = "busy", !.item = i]
       /\ current_item_id' = i
       /\ rows' = [rows EXCEPT ![i].terminal_state = "none"]
  /\ current_state' = "inside"
  /\ attempts' = attempts + 1
  /\ UNCHANGED <<Elsewhere, resumes, uncounted, mishaps>>

StateOf(outcome) ==
  CASE outcome = "passed" -> "ST130" [] outcome = "awaiting_human_gate" -> "ST110"
    [] outcome = "blocked_external" -> "ST120" [] outcome = "escalated" -> "ST140"

\* What an attempt that got to a state has written.  One that fails, or finds
\* no evidence where it needs some, may do so before it wrote a report; a scope
\* check that fails is the end of it.
Written(state, reported, scope_failed) ==
  /\ \/ reported
     \/ state \in {"inside", "ST140"}
     \/ state = "ST120" /\ kernel.evidence = 0
  /\ IF reported
     THEN scope_failed => state \in {"inside", "ST140"}
     ELSE scope_failed = rows[kernel.item].scope_failed

\* An attempt ends.  The gate record of an item without a gate is refused, which
\* leaves a row that waits for a decision about nothing.  The queue goes on
\* after a pass.
KernelAttemptEnds ==
  /\ kernel.phase = "busy"
  /\ \E outcome \in TerminalNames \ {"none"}, reported, scope_failed, refused \in BOOLEAN :
       /\ Written(StateOf(outcome), reported, scope_failed)
       /\ refused => outcome = "awaiting_human_gate" /\ rows[kernel.item].gate = "none"
       /\ current_state' = StateOf(outcome)
       /\ rows' = [rows EXCEPT ![kernel.item] =
            [terminal_state |-> outcome,
             gate |-> IF outcome = "awaiting_human_gate" /\ ~refused
                      THEN "pending" ELSE @.gate,
             reports |-> IF reported THEN attempts ELSE @.reports,
             scope_failed |-> scope_failed]]
       /\ \/ kernel' = NoKernel
          \/ /\ outcome = "passed"
             /\ kernel' = [kernel EXCEPT !.phase = "next", !.evidence = 0]
  /\ UNCHANGED <<current_item_id, attempts, mishaps>> /\ KernelOnly

\* The kernel dies in an attempt: inside it, or after the save of the state it
\* ends in and before that of the row.
KernelDies ==
  /\ kernel.phase = "busy"
  /\ \E state \in RunStates \ {"none", "ST05"}, reported, scope_failed \in BOOLEAN :
       /\ Written(state, reported, scope_failed)
       /\ current_state' = state
       /\ rows' = [rows EXCEPT
            ![kernel.item].reports = IF reported THEN attempts ELSE @,
            ![kernel.item].scope_failed = scope_failed]
  /\ kernel' = NoKernel
  /\ UNCHANGED <<current_item_id, attempts, mishaps>> /\ KernelOnly

-----------------------------------------------------------------------------
(* The human and the disk *)

Outside == UNCHANGED <<pc, supervisor, decision, interventions, attempts, resumes,
                       uncounted>>

\* mark-manual-gate: the record, then the run.  It may end between the two,
\* when it dies or when the approved commit cannot land.
DecideGate ==
  /\ \E i \in Items, approve, saved \in BOOLEAN :
       LET verdict == IF approve THEN "approved" ELSE "rejected"
           outcome == IF approve THEN "passed" ELSE "escalated"
       IN  /\ rows[i].gate = "pending"
           /\ rows' = [rows EXCEPT
                ![i].gate = verdict,
                ![i].terminal_state = IF saved THEN outcome ELSE @]
           /\ current_item_id' = IF saved THEN i ELSE current_item_id
           /\ current_state' = IF saved THEN StateOf(outcome) ELSE current_state
  /\ UNCHANGED <<damage, kernel, inbox, mishaps>> /\ Outside

SupplyEvidence ==
  /\ inbox < MaxPackages
  /\ inbox' = inbox + 1
  /\ UNCHANGED <<run, damage, kernel, mishaps>> /\ Outside

\* resume outside supervision, with evidence or without, is open to a human at
\* any time and overrides what the supervisor parked.
HumanResumes ==
  /\ ~KernelRuns /\ current_state # "none"
  /\ Cardinality(mishaps \cap {"human1", "human2"}) < MaxHumanResumes
  /\ \E evidence \in {0, Explicit} :
       kernel' = [NoKernel EXCEPT !.phase = "ready", !.evidence = evidence]
  /\ mishaps' = mishaps \cup {IF "human1" \in mishaps THEN "human2" ELSE "human1"}
  /\ UNCHANGED <<run, damage, inbox>> /\ Outside

FilesDamaged ==
  /\ current_state # "none"
  /\ \E d \in Damages \ damage : damage' = damage \cup {d}
  /\ UNCHANGED <<run, kernel, inbox, mishaps>> /\ Outside

-----------------------------------------------------------------------------
Supervise == Classify \/ Finish \/ Park \/ Wait \/ Poll \/ Repair \/ SpawnResume
             \/ RecordResume \/ MonitorEnds
KernelWork == KernelBegins \/ KernelCreatesRun \/ KernelEnds \/ KernelResets
              \/ KernelSelects \/ KernelAttemptEnds \/ KernelDies
Environment == DecideGate \/ SupplyEvidence \/ HumanResumes \/ FilesDamaged

Next == /\ "two_kernels" \notin mishaps
        /\ \/ SuperviseRun \/ SuperviseResume \/ Supervise \/ Die
           \/ KernelWork \/ Environment

\* A supervisor is a loop without blocking calls but for its sleeps, and every
\* stage of a kernel runs under a timeout.
Spec == Init /\ [][Next]_vars /\ WF_vars(Supervise) /\ WF_vars(KernelWork)

-----------------------------------------------------------------------------
(* Properties *)

Observations == {"death1", "death2", "unattached", "human1", "human2", "two_kernels"}

\* What the run's files, the processes and the interventions may hold.  A
\* supervisor remembers a wait only until it acts on something else: what an
\* approval lets it resume is the item it waited for.
TypeOK ==
  /\ current_state \in RunStates /\ current_item_id \in Items \cup {None}
  /\ rows \in [Items -> Row] /\ damage \subseteq Damages
  /\ kernel \in KernelProcess
  /\ pc \in {"off", "monitor", "classify", "act", "wait", "record"}
  /\ mode \in {"run", "resume"}
  /\ prior_wait_action_kind \in
       IF pc \in {"monitor", "record"} THEN {"none"} ELSE Waits \cup {"none"}
  /\ initial_resume_consumed \in BOOLEAN /\ explicit_evidence \in {0, Explicit}
  /\ decision \in Decision /\ interventions \in Seq(Intervention)
  /\ inbox \in 0..MaxPackages /\ attempts \in 0..MaxAttempts
  /\ resumes \in [Items -> Nat] /\ uncounted \in [Items -> Nat]
  /\ mishaps \subseteq Observations

\* An escalated item is resumed automatically at most Budget times, whatever
\* its attempts wrote and however many supervisors it took: the budget is read
\* from the intervention files, of all supervisors of the run.  A resume whose
\* supervisor died before it wrote the file is the one kind not counted.
EscalationBudget == \A i \in Items : resumes[i] <= Budget + uncounted[i]

\* A kernel the supervisor does not know of: a human started it, or an earlier
\* supervisor that died before it was registered.
Unseen == {"unattached", "human1", "human2"}

\* The supervisor never starts a kernel beside another one it could know of.
KernelsOverlapOnlyUnseen == "two_kernels" \in mishaps => mishaps \cap Unseen # {}

\* An item whose gate a human rejected is not attempted again, whatever waits,
\* restarts and repairs follow, until a human resumes the run.  (A kernel that
\* is not seen may reach the gate between a decision and what it decides.)
Attempted(i) == kernel.phase # "busy" /\ kernel'.phase = "busy" /\ kernel'.item = i
RejectionHolds ==
  [][\A i \in Items : rows[i].gate = "rejected" /\ Attempted(i)
                        => mishaps \cap Unseen # {}]_vars

\* Once no kernel starts an attempt any more, the supervisor comes to a wait or
\* to its end, again and again: it does not restart a kernel for ever.
Settled == pc \in {"off", "wait"}
SpinsNotIdly == <>[][UNCHANGED attempts]_attempts => []<>Settled

\* Whatever supervisors, their kernels and a human do, the run keeps to the
\* outline that Kernel implements.
Outline == INSTANCE RunOutline WITH
  outcome <- [i \in Items |-> rows[i].terminal_state],
  gate    <- [i \in Items |-> rows[i].gate],
  busy    <- kernel.phase = "busy"
OutlineRefined == Outline!Spec
=============================================================================
