-------------------------------- MODULE Kernel --------------------------------
(***************************************************************************)
(* The orchestration kernel: PlanOrchestrator of                            *)
(* automation/plan_orchestrator/runtime.py with the two collaborators whose *)
(* effects outlive it, WorktreeManager (branches) and git_checkpoint        *)
(* (commits).  One run is modelled from the moment run_new() saved it.      *)
(*                                                                         *)
(* Every call of the kernel (run, resume, refresh-run, mark-manual-gate) is *)
(* a process that loads run_state.json, works, and saves it after each      *)
(* state change.  An action below is one stretch of such a call, from one   *)
(* save or one effect on git to the next, so that Interrupt, the death of   *)
(* the process, can fall between any two of them.  What the process holds   *)
(* in memory is in pc and call; everything else survives it.                *)
(*                                                                         *)
(* A definition whose name ends in _slip is wrong on purpose: it is the      *)
(* definition after it with one plausible mistake, kept to test that the    *)
(* properties would notice.  No action uses it.                              *)
(***************************************************************************)
EXTENDS Naturals, Sequences, FiniteSets, SequencesExt, RunStateMachine

CONSTANTS
  NumItems,             \* items of the plan, numbered in its order
  Prerequisites,        \* item -> the items it names as prerequisites
  GateRequired,         \* items with manual_gate.required
  EvidenceRequired,     \* items with external_check.required
  TriageAsksGate,       \* items whose triage may answer awaiting_human_gate
  Requests,             \* what run may be asked for: [items, list]
  MaxItems,             \* options.max_items, 0 for none
  MaxFixRounds,         \* options.max_fix_rounds
  MaxRemediationRounds, \* options.max_remediation_rounds
  MaxAttempts,          \* bound: attempts of an item
  MaxRefreshes,         \* bound: refresh branches
  MaxInterrupts         \* bound: kinds of point a process dies at

Items == 1..NumItems
None  == 0

\* A plan may name a prerequisite that is no item, that comes later, or that is
\* the item itself: nothing that reads it looks.
ASSUME PlanAssumption ==
  /\ NumItems \in Nat \ {0}
  /\ Prerequisites \in [Items -> SUBSET Nat]
  /\ GateRequired \subseteq Items
  /\ EvidenceRequired \subseteq Items
  /\ TriageAsksGate \subseteq Items

ASSUME BudgetAssumption ==
  /\ MaxItems \in Nat /\ MaxFixRounds \in Nat /\ MaxRemediationRounds \in Nat
  /\ MaxAttempts \in Nat \ {0} /\ MaxRefreshes \in Nat /\ MaxInterrupts \in Nat

\* The command line also lets --items name an item twice, which asks for a
\* second attempt of it; no request does that here.
ASSUME RequestsAssumption ==
  \A r \in Requests :
    /\ r.items \in Seq(Items) /\ r.list \in BOOLEAN
    /\ \A m, n \in 1..Len(r.items) : m # n => r.items[m] # r.items[n]

VARIABLES
  \* run_state.json
  current_state,    \* a StateId
  current_item_id,  \* an item, or None
  items,            \* the row of each item
  run_branch,       \* run_branch_name: an index into run_branches
  \* manual_gate.json of each attempt, and git
  gates,            \* item -> attempt -> record
  run_branches,     \* the run branch, then its refreshes: their histories
  item_branches,    \* item -> attempt -> history, NoHistory if no such branch
  \* the process
  pc, call,
  \* observation: commits that a refresh brought onto the run branch, and what
  \* went wrong so far
  adopted, mishaps

\* With the run branch goes what came onto it when it was chosen.
saved   == <<current_state, current_item_id, items, run_branch, adopted>>
git     == <<run_branches, item_branches>>
process == <<pc, call>>
vars    == <<saved, gates, git, process, mishaps>>

-----------------------------------------------------------------------------
(* Data *)

\* A commit is named by who made it: a mutation stage of an item's attempt,
\* by its round, or somebody outside the run (item None).  A history is the
\* sequence of commits up to a ref; an ancestor is a prefix.
Commits   == Nat \X Nat \X Nat
NoHistory == <<>>
Base      == <<None, 0, 0>>
External(k) == <<None, k, 0>>

\* A report is known by the cycle that wrote it.
Cycles  == Nat \X Nat \X Nat
NoCycle == <<0, 0, 0>>

Evidence   == {"none", "missing", "present"}
Decisions  == {"pass", "awaiting_human_gate", "blocked_external", "escalate",
               "fix_required"}

\* manual_gate.json: what was decided, and about which commit.
GateRecord ==
  [status : {"absent", "pending", "approved", "rejected"}, ref : Seq(Commits)]

\* The row's state field mirrors current_state and its other paths name files
\* no call of the kernel reads back; both are left out.
ItemRow ==
  [terminal_state : TerminalNames,
   attempt_number : 1..MaxAttempts,
   fix_rounds_completed : Nat,
   remediation_rounds_completed : Nat,
   branch : 0..MaxAttempts,     \* attempt of branch_name and worktree_path
   checkpoint_ref : Seq(Commits),
   execution_report : Cycles,   \* latest_paths, from here ...
   fix_report : Cycles,
   verification_report : Cycles,
   codex_audit_report : Cycles,
   claude_audit_report : Cycles,
   triage_report : Cycles,
   manual_gate : 0..MaxAttempts, \* ... to here: the attempt of the gate record
   manual_gate_status : {"not_required", "pending", "approved", "rejected"},
   external_check_status : {"not_required", "pending_evidence", "resolved"}]

NewItem(i) ==
  [terminal_state |-> "none", attempt_number |-> 1,
   fix_rounds_completed |-> 0, remediation_rounds_completed |-> 0,
   branch |-> None, checkpoint_ref |-> NoHistory,
   execution_report |-> NoCycle, fix_report |-> NoCycle,
   verification_report |-> NoCycle, codex_audit_report |-> NoCycle,
   claude_audit_report |-> NoCycle, triage_report |-> NoCycle,
   manual_gate |-> None, manual_gate_status |-> "not_required",
   external_check_status |->
     IF i \in EvidenceRequired THEN "pending_evidence" ELSE "not_required"]

Call ==
  [item : 0..NumItems,          \* the item under way
   queue : Seq(Items),          \* pending of _run_requested_items
   continue : BOOLEAN,          \* continue_after_queue
   limit : Nat,                 \* max_items, 0 for none
   processed : Nat,
   evidence : Evidence,         \* --external-evidence-dir: names no directory, or one
   decision : Decisions \cup {"none"},
   packet : Cycles]             \* the mutation report in the audit packet

NoCall ==
  [item |-> None, queue |-> <<>>, continue |-> FALSE, limit |-> 0, processed |-> 0,
   evidence |-> "none", decision |-> "none", packet |-> NoCycle]

StagePCs == {"context", "running", "reported", "committed", "verifying",
             "verified", "packet", "audit_codex", "audit_claude", "triaging"}

PCs == StagePCs \cup
  {"idle", "queue", "selected", "worktree", "prepared", "decide", "landing",
   "passing", "advance", "gating", "blocking", "escalating",
   "gate_approved", "gate_landed", "gate_rejected", "refreshing"}

-----------------------------------------------------------------------------
(* Helpers *)

it  == call.item
row == items[it]

RunTip == run_branches[run_branch]
Branch(i) == item_branches[i][items[i].attempt_number]

\* cycle_tag: the counters of an attempt name the stage and its round, since a
\* fix and a remediation round each bump one of them.
Cycle(i) ==
  <<items[i].attempt_number, items[i].fix_rounds_completed,
    items[i].remediation_rounds_completed>>
Round(i) == items[i].fix_rounds_completed + items[i].remediation_rounds_completed

NextAttemptNumber_slip(r) ==
  IF r.terminal_state # "none" THEN r.attempt_number + 1 ELSE r.attempt_number

\* A number is used up once it has a branch or an outcome.
NextAttemptNumber(r) ==
  IF r.branch # None \/ r.terminal_state # "none"
  THEN r.attempt_number + 1
  ELSE r.attempt_number

Goto(from, to) == pc = from /\ pc' = to

SetState(i, state) ==
  /\ CanMove(current_state, state)
  /\ current_state' = state
  /\ current_item_id' = i

Return == pc' = "idle" /\ call' = NoCall

-----------------------------------------------------------------------------
(* run_new, from its first save on *)

Init ==
  /\ current_state = "ST05"
  /\ current_item_id = None
  /\ items = [i \in Items |-> NewItem(i)]
  /\ run_branch = 1
  /\ gates = [i \in Items |->
               [a \in 1..MaxAttempts |-> [status |-> "absent", ref |-> NoHistory]]]
  /\ run_branches = <<(<<Base>>)>>
  /\ item_branches = [i \in Items |-> [a \in 1..MaxAttempts |-> NoHistory]]
  /\ pc = "queue"
  /\ \E r \in Requests, auto \in BOOLEAN, evidence \in Evidence :
       /\ r.list => ~auto /\ evidence = "none"
       /\ call = [NoCall EXCEPT !.queue = r.items, !.continue = auto,
                                !.limit = MaxItems, !.evidence = evidence]
  /\ adopted = {} /\ mishaps = {}

-----------------------------------------------------------------------------
(* _run_requested_items: the queue of a run or resume call *)

LimitReached == call.limit # 0 /\ call.processed >= call.limit

FinishQueue ==
  /\ pc = "queue"
  /\ call.queue = <<>> \/ LimitReached
  /\ Return
  /\ UNCHANGED <<saved, gates, git, mishaps>>

\* Repository inputs the item consults are not tracked at the run branch (any
\* item may turn out so), or its prerequisites have not passed.
RefuseItem ==
  /\ pc = "queue" /\ call.queue # <<>> /\ ~LimitReached
  /\ Return
  /\ UNCHANGED <<saved, gates, git, mishaps>>

\* The head of the queue starts a fresh attempt.  The row is rewritten before
\* the move to ST10 is checked, and an illegal move leaves it so: the handler
\* of _run_requested_items saves what it finds in memory.
SelectItem ==
  /\ pc = "queue" /\ call.queue # <<>> /\ ~LimitReached
  /\ LET i == Head(call.queue)
     IN  /\ PrerequisitesSatisfied(Prerequisites[i], items)
         /\ NextAttemptNumber(items[i]) <= MaxAttempts
         /\ items' = [items EXCEPT
              ![i] = [@ EXCEPT !.attempt_number = NextAttemptNumber(items[i]),
                               !.fix_rounds_completed = 0,
                               !.remediation_rounds_completed = 0,
                               !.terminal_state = "none"]]
         /\ \/ /\ SetState(i, "ST10")
               /\ pc' = "selected"
               /\ call' = [call EXCEPT !.item = i, !.queue = Tail(@),
                    !.evidence = IF call.processed = 0 THEN @ ELSE "none"]
               /\ UNCHANGED mishaps
            \/ /\ ~CanMove(current_state, "ST10")
               /\ Return
               /\ mishaps' = mishaps \cup {"illegal_move"}
               /\ UNCHANGED <<current_state, current_item_id>>
  /\ UNCHANGED <<run_branch, adopted, gates, git>>

\* After an item passed and the queue ran dry, the call goes on with the first
\* unfinished item when it was asked to.
AdvanceQueue ==
  /\ pc = "advance"
  /\ LET extend == call.continue /\ call.queue = <<>>
         Next1(i) == FirstUnfinished(i, items)
         open(i) == /\ items[i].terminal_state = "none"
                    /\ PrerequisitesSatisfied(Prerequisites[i], items)
     IN  \/ /\ ~extend \/ \A i \in Items : ~Next1(i)
            /\ pc' = "queue"
            /\ UNCHANGED call
         \/ \E i \in Items :
              /\ extend /\ Next1(i) /\ open(i)
              /\ pc' = "queue"
              /\ call' = [call EXCEPT !.queue = <<i>>]
         \/ \E i \in Items :
              /\ extend /\ Next1(i) /\ ~open(i)
              /\ Return
  /\ UNCHANGED <<saved, gates, git, mishaps>>

-----------------------------------------------------------------------------
(* _run_item_attempt: a worktree for the attempt *)

BlockWithoutEvidence ==
  /\ Goto("selected", "blocking")
  /\ it \in EvidenceRequired /\ call.evidence = "none"
  /\ SetState(it, "ST120")
  /\ UNCHANGED <<items, run_branch, adopted, gates, git, call, mishaps>>

WorktreeBase_slip == run_branches[1]

WorktreeBase == RunTip

\* git worktree add -b <branch of the attempt> <run branch>.
AddWorktree ==
  /\ Goto("selected", "worktree")
  /\ ~(it \in EvidenceRequired /\ call.evidence = "none")
  /\ Branch(it) = NoHistory
  /\ item_branches' = [item_branches EXCEPT ![it][row.attempt_number] = WorktreeBase]
  /\ UNCHANGED <<saved, gates, run_branches, call, mishaps>>

RecordWorktree ==
  /\ Goto("worktree", "prepared")
  /\ SetState(it, "ST15")
  /\ items' = [items EXCEPT ![it].branch = row.attempt_number]
  /\ UNCHANGED <<run_branch, adopted, gates, git, call, mishaps>>

\* _copy_external_evidence on a directory that is not there.
EvidenceMissing ==
  /\ pc = "prepared" /\ call.evidence = "missing"
  /\ Return
  /\ mishaps' = mishaps \cup {"evidence_missing"}
  /\ UNCHANGED <<saved, gates, git>>

PrepareContext_slip ==
  /\ Goto("prepared", "context")
  /\ call.evidence # "missing"
  /\ items' = [items EXCEPT ![it].external_check_status =
                 IF call.evidence = "present" THEN "resolved" ELSE @]
  /\ call' = [call EXCEPT !.evidence = "none"]
  /\ UNCHANGED <<current_state, current_item_id, run_branch, adopted, gates, git, mishaps>>

PrepareContext ==
  /\ Goto("prepared", "context")
  /\ call.evidence # "missing"
  /\ SetState(it, "ST20")
  /\ items' = [items EXCEPT ![it].external_check_status =
                 IF call.evidence = "present" THEN "resolved" ELSE @]
  /\ call' = [call EXCEPT !.evidence = "none"]
  /\ UNCHANGED <<run_branch, adopted, gates, git, mishaps>>

-----------------------------------------------------------------------------
(* _run_mutation_stage: execute, or a fix or remediation round *)

StartMutation ==
  /\ Goto("context", "running")
  /\ \/ /\ current_state = "ST20"
        /\ SetState(it, "ST30")
     \/ /\ current_state \in {"ST80", "ST95"}
        /\ UNCHANGED <<current_state, current_item_id>>
  /\ UNCHANGED <<items, run_branch, adopted, gates, git, call, mishaps>>

\* The stage answered: its report is the execution report in round 0, the fix
\* report later.
RecordReport ==
  /\ Goto("running", "reported")
  /\ items' =
       IF Round(it) = 0
       THEN [items EXCEPT ![it].execution_report = Cycle(it)]
       ELSE [items EXCEPT ![it].fix_report = Cycle(it)]
  /\ UNCHANGED <<current_state, current_item_id, run_branch, adopted, gates, git, call,
                 mishaps>>

\* A checkpoint commit, unless the stage changed no file.
CommitCheckpoint ==
  /\ Goto("reported", "committed")
  /\ \/ item_branches' = [item_branches EXCEPT ![it][row.attempt_number] =
                            Append(@, <<it, row.attempt_number, Round(it)>>)]
     \/ UNCHANGED item_branches
  /\ UNCHANGED <<saved, gates, run_branches, call, mishaps>>

RecordCheckpoint_slip ==
  /\ Goto("committed", "verifying")
  /\ SetState(it, "ST40")
  /\ items' = [items EXCEPT ![it].checkpoint_ref =
                 IF @ = NoHistory THEN Branch(it) ELSE @]
  /\ UNCHANGED <<run_branch, adopted, gates, git, call, mishaps>>

RecordCheckpoint ==
  /\ Goto("committed", "verifying")
  /\ SetState(it, "ST40")
  /\ items' = [items EXCEPT ![it].checkpoint_ref = Branch(it)]
  /\ UNCHANGED <<run_branch, adopted, gates, git, call, mishaps>>

Verify ==
  /\ Goto("verifying", "verified")
  /\ items' = [items EXCEPT ![it].verification_report = Cycle(it)]
  /\ UNCHANGED <<current_state, current_item_id, run_branch, adopted, gates, git, call,
                 mishaps>>

-----------------------------------------------------------------------------
(* _run_audit_and_triage *)

\* The packet's mutation report: fix_report_path or execution_report_path.
BuildAuditPacket ==
  /\ Goto("verified", "packet")
  /\ SetState(it, "ST50")
  /\ call' = [call EXCEPT !.packet =
                IF row.fix_report # NoCycle THEN row.fix_report
                ELSE row.execution_report]
  /\ UNCHANGED <<items, run_branch, adopted, gates, git, mishaps>>

StartCodexAudit ==
  /\ Goto("packet", "audit_codex")
  /\ SetState(it, "ST60")
  /\ UNCHANGED <<items, run_branch, adopted, gates, git, call, mishaps>>

StartClaudeAudit ==
  /\ Goto("audit_codex", "audit_claude")
  /\ SetState(it, "ST61")
  /\ items' = [items EXCEPT ![it].codex_audit_report = Cycle(it)]
  /\ UNCHANGED <<run_branch, adopted, gates, git, call, mishaps>>

StartTriage ==
  /\ Goto("audit_claude", "triaging")
  /\ SetState(it, "ST70")
  /\ items' = [items EXCEPT ![it].claude_audit_report = Cycle(it)]
  /\ UNCHANGED <<run_branch, adopted, gates, git, call, mishaps>>

\* overall_decision of the triage report, after the handoff rules had their say.
Triage ==
  /\ Goto("triaging", "decide")
  /\ \E d \in Decisions :
       /\ d = "awaiting_human_gate" => it \in TriageAsksGate
       /\ call' = [call EXCEPT !.decision = d]
  /\ items' = [items EXCEPT ![it].triage_report = Cycle(it)]
  /\ UNCHANGED <<current_state, current_item_id, run_branch, adopted, gates, git, mishaps>>

\* _raise_terminal_from_exception: a stage failed, timed out or broke a rule.
\* The commit of a stage that broke down in git may have been made.
StageFails ==
  /\ pc \in StagePCs /\ pc' = "escalating"
  /\ SetState(it, "ST140")
  /\ UNCHANGED <<items, run_branch, adopted, gates, git, call, mishaps>>

-----------------------------------------------------------------------------
(* _run_item_attempt: what follows the triage decision *)

Land_slip ==
  /\ Goto("decide", "landing")
  /\ call.decision = "pass"
  /\ IsPrefix(RunTip, Branch(it))
  /\ run_branches' = [run_branches EXCEPT ![run_branch] = Branch(it)]
  /\ UNCHANGED <<saved, gates, item_branches, call, mishaps>>

\* _finalize_pass moves the run branch first and records the pass second.
Land ==
  /\ Goto("decide", "landing")
  /\ call.decision = "pass" /\ it \notin GateRequired
  /\ IsPrefix(RunTip, Branch(it))
  /\ run_branches' = [run_branches EXCEPT ![run_branch] = Branch(it)]
  /\ UNCHANGED <<saved, gates, item_branches, call, mishaps>>

RecordPass ==
  /\ Goto("landing", "passing")
  /\ SetState(it, "ST130")
  /\ UNCHANGED <<items, run_branch, adopted, gates, git, call, mishaps>>

FinishPass ==
  /\ Goto("passing", "advance")
  /\ items' = [items EXCEPT ![it].terminal_state = "passed"]
  /\ call' = [call EXCEPT !.item = None, !.processed = @ + 1,
                          !.decision = "none", !.packet = NoCycle]
  /\ UNCHANGED <<current_state, current_item_id, run_branch, adopted, gates, git, mishaps>>

RequestGate ==
  /\ Goto("decide", "gating")
  /\ \/ call.decision = "pass" /\ it \in GateRequired
     \/ call.decision = "awaiting_human_gate"
  /\ SetState(it, "ST110")
  /\ UNCHANGED <<items, run_branch, adopted, gates, git, call, mishaps>>

\* An item without a gate has gate_type "none", which the record's schema does
\* not admit: the write fails, and the handler of _run_requested_items saves
\* the row as _terminal_awaiting_human_gate had it by then.
WriteGate ==
  /\ pc = "gating"
  /\ Return
  /\ LET waiting == [row EXCEPT !.terminal_state = "awaiting_human_gate",
                                !.manual_gate_status = "pending"]
         a == row.attempt_number
     IN  \/ /\ it \in GateRequired
            /\ gates' = [gates EXCEPT ![it][a] =
                           [status |-> "pending", ref |-> row.checkpoint_ref]]
            /\ items' = [items EXCEPT ![it] = [waiting EXCEPT !.manual_gate = a]]
            /\ UNCHANGED mishaps
         \/ /\ it \notin GateRequired
            /\ items' = [items EXCEPT ![it] = waiting]
            /\ mishaps' = mishaps \cup {"gate_invalid"}
            /\ UNCHANGED gates
  /\ UNCHANGED <<current_state, current_item_id, run_branch, adopted, git>>

BlockOnTriage ==
  /\ Goto("decide", "blocking")
  /\ call.decision = "blocked_external"
  /\ SetState(it, "ST120")
  /\ UNCHANGED <<items, run_branch, adopted, gates, git, call, mishaps>>

FinishBlocked ==
  /\ pc = "blocking"
  /\ Return
  /\ items' = [items EXCEPT
       ![it] = [@ EXCEPT !.terminal_state = "blocked_external",
                         !.external_check_status = "pending_evidence"]]
  /\ UNCHANGED <<current_state, current_item_id, run_branch, adopted, gates, git, mishaps>>

Escalate_slip ==
  /\ Goto("decide", "escalating")
  /\ \/ call.decision = "escalate"
     \/ /\ call.decision = "fix_required"
        /\ row.fix_rounds_completed >= MaxFixRounds
        /\ row.remediation_rounds_completed > MaxRemediationRounds
  /\ SetState(it, "ST140")
  /\ UNCHANGED <<items, run_branch, adopted, gates, git, call, mishaps>>

\* Findings that remain after both budgets are spent escalate as well.
Escalate ==
  /\ Goto("decide", "escalating")
  /\ \/ call.decision = "escalate"
     \/ /\ call.decision = "fix_required"
        /\ row.fix_rounds_completed >= MaxFixRounds
        /\ row.remediation_rounds_completed >= MaxRemediationRounds
  /\ SetState(it, "ST140")
  /\ UNCHANGED <<items, run_branch, adopted, gates, git, call, mishaps>>

FinishEscalated ==
  /\ pc = "escalating"
  /\ Return
  /\ items' = [items EXCEPT ![it].terminal_state = "escalated"]
  /\ UNCHANGED <<current_state, current_item_id, run_branch, adopted, gates, git, mishaps>>

StartFix_slip ==
  /\ Goto("decide", "context")
  /\ call.decision = "fix_required"
  /\ row.fix_rounds_completed < MaxFixRounds
  /\ SetState(it, "ST80")
  /\ call' = [call EXCEPT !.decision = "none", !.packet = NoCycle]
  /\ UNCHANGED <<items, run_branch, adopted, gates, git, mishaps>>

StartFix ==
  /\ Goto("decide", "context")
  /\ call.decision = "fix_required"
  /\ row.fix_rounds_completed < MaxFixRounds
  /\ SetState(it, "ST80")
  /\ items' = [items EXCEPT ![it].fix_rounds_completed = @ + 1]
  /\ call' = [call EXCEPT !.decision = "none", !.packet = NoCycle]
  /\ UNCHANGED <<run_branch, adopted, gates, git, mishaps>>

StartRemediation ==
  /\ Goto("decide", "context")
  /\ call.decision = "fix_required"
  /\ row.fix_rounds_completed >= MaxFixRounds
  /\ row.remediation_rounds_completed < MaxRemediationRounds
  /\ SetState(it, "ST95")
  /\ items' = [items EXCEPT ![it].remediation_rounds_completed = @ + 1]
  /\ call' = [call EXCEPT !.decision = "none", !.packet = NoCycle]
  /\ UNCHANGED <<run_branch, adopted, gates, git, mishaps>>

-----------------------------------------------------------------------------
(* resume *)

ResumeTarget_slip(i) ==
  IF current_item_id # None /\ current_state \in {"ST120", "ST130", "ST140"}
  THEN i = current_item_id
  ELSE FirstUnfinished(i, items)

ResumeTarget(i) ==
  IF current_item_id # None /\ current_state \in {"ST120", "ST140"}
  THEN i = current_item_id
  ELSE FirstUnfinished(i, items)

ResumeAllowed_slip == TRUE

\* A pending gate is decided by mark-manual-gate, not by resume.
ResumeAllowed == current_state # "ST110"

Resettable_slip == {"blocked_external"}

\* The outcomes after which _reset_item_for_resume takes the run back to ST05,
\* around the transition table.
Resettable == {"blocked_external", "escalated"}

\* A blocked item asks for evidence; the directory is not looked at here.
Resume ==
  /\ Goto("idle", "queue")
  /\ ResumeAllowed
  /\ \A j \in Items : \/ items[j].terminal_state = "passed"
                      \/ NextAttemptNumber(items[j]) <= MaxAttempts
  /\ \E i \in Items, auto \in BOOLEAN, evidence \in Evidence :
       /\ ResumeTarget(i)
       /\ items[i].terminal_state = "blocked_external" => evidence # "none"
       /\ IF items[i].terminal_state \in Resettable
          THEN current_state' = "ST05" /\ current_item_id' = None
          ELSE UNCHANGED <<current_state, current_item_id>>
       /\ call' = [NoCall EXCEPT !.queue = <<i>>, !.continue = auto,
                     !.limit = IF auto THEN MaxItems ELSE 0, !.evidence = evidence]
  /\ UNCHANGED <<items, run_branch, adopted, gates, git, mishaps>>

-----------------------------------------------------------------------------
(* mark_manual_gate: the gate's file, then git, and run_state.json last *)

GateOf(i) == gates[i][items[i].manual_gate]
GatePending(i) == items[i].manual_gate # None /\ GateOf(i).status = "pending"

MarkGate_slip(i, outcome) ==
  /\ Goto("idle", IF outcome = "approved" THEN "gate_approved" ELSE "gate_rejected")
  /\ GatePending(i)
  /\ gates' = [gates EXCEPT ![i][1].status = outcome]
  /\ call' = [NoCall EXCEPT !.item = i]
  /\ UNCHANGED <<saved, git, mishaps>>

MarkGate(i, outcome) ==
  /\ Goto("idle", IF outcome = "approved" THEN "gate_approved" ELSE "gate_rejected")
  /\ GatePending(i)
  /\ gates' = [gates EXCEPT ![i][items[i].manual_gate].status = outcome]
  /\ call' = [NoCall EXCEPT !.item = i]
  /\ UNCHANGED <<saved, git, mishaps>>

\* The run branch moves to the commit that was reviewed.  A run branch that is
\* no ancestor of it stops the call, with the approval in the gate's file only.
LandApproved ==
  /\ pc = "gate_approved"
  /\ \/ /\ IsPrefix(RunTip, GateOf(it).ref)
        /\ run_branches' = [run_branches EXCEPT ![run_branch] = GateOf(it).ref]
        /\ pc' = "gate_landed"
        /\ UNCHANGED <<call, mishaps>>
     \/ /\ ~IsPrefix(RunTip, GateOf(it).ref)
        /\ Return
        /\ mishaps' = mishaps \cup {"gate_unlandable"}
        /\ UNCHANGED run_branches
  /\ UNCHANGED <<saved, gates, item_branches>>

RecordApproval_slip ==
  /\ pc = "gate_landed"
  /\ SetState(it, "ST130")
  /\ items' = [items EXCEPT ![it].manual_gate_status = "approved"]
  /\ Return
  /\ UNCHANGED <<run_branch, adopted, gates, git, mishaps>>

RecordApproval ==
  /\ pc = "gate_landed"
  /\ SetState(it, "ST130")
  /\ items' = [items EXCEPT
       ![it] = [@ EXCEPT !.terminal_state = "passed",
                         !.manual_gate_status = "approved"]]
  /\ Return
  /\ UNCHANGED <<run_branch, adopted, gates, git, mishaps>>

RecordRejection ==
  /\ pc = "gate_rejected"
  /\ SetState(it, "ST140")
  /\ items' = [items EXCEPT
       ![it] = [@ EXCEPT !.terminal_state = "escalated",
                         !.manual_gate_status = "rejected"]]
  /\ Return
  /\ UNCHANGED <<run_branch, adopted, gates, git, mishaps>>

-----------------------------------------------------------------------------
(* refresh_run: a new run branch at a descendant of the present one *)

\* What a ref may name: a commit of some branch, or one from outside on top of it.
Branches == ToSet(run_branches) \cup
            {item_branches[i][a] : i \in Items, a \in 1..MaxAttempts}
Refs ==
  LET known == UNION {{SubSeq(h, 1, n) : n \in 1..Len(h)} : h \in Branches}
  IN  known \cup {Append(h, External(Len(run_branches))) : h \in known}

RefreshTargets_slip == Refs

\* Any ref of which the run branch is an ancestor will do: its own tip, one that
\* somebody else put commits on, the branch of an attempt that was escalated or
\* still waits for its gate.
RefreshTargets == {h \in Refs : IsPrefix(RunTip, h)}

CreateRefreshBranch ==
  /\ Goto("idle", "refreshing")
  /\ Len(run_branches) <= MaxRefreshes
  /\ \E target \in RefreshTargets : run_branches' = Append(run_branches, target)
  /\ UNCHANGED <<saved, gates, item_branches, call, mishaps>>

RecordRefresh ==
  /\ pc = "refreshing"
  /\ run_branch' = Len(run_branches)
  /\ adopted' = adopted \cup
       ToSet(SubSeq(Last(run_branches), Len(RunTip) + 1, Len(Last(run_branches))))
  /\ Return
  /\ UNCHANGED <<current_state, current_item_id, items, gates, git, mishaps>>

-----------------------------------------------------------------------------
(* The process dies *)

Interrupt ==
  /\ pc # "idle"
  /\ Cardinality((mishaps \cup {pc}) \cap PCs) <= MaxInterrupts
  /\ mishaps' = mishaps \cup {pc}
  /\ Return
  /\ UNCHANGED <<saved, gates, git>>

-----------------------------------------------------------------------------
QueueStep   == FinishQueue \/ RefuseItem \/ SelectItem \/ AdvanceQueue
PrepareStep == \/ BlockWithoutEvidence \/ AddWorktree \/ RecordWorktree
               \/ EvidenceMissing \/ PrepareContext
MutateStep  == \/ StartMutation \/ RecordReport \/ CommitCheckpoint
               \/ RecordCheckpoint \/ Verify
AuditStep   == \/ BuildAuditPacket \/ StartCodexAudit \/ StartClaudeAudit
               \/ StartTriage \/ Triage \/ StageFails
OutcomeStep == \/ Land \/ RecordPass \/ FinishPass \/ RequestGate \/ WriteGate
               \/ BlockOnTriage \/ FinishBlocked \/ Escalate \/ FinishEscalated
               \/ StartFix \/ StartRemediation
DecisionStep == LandApproved \/ RecordApproval \/ RecordRejection

\* What a process does once it runs, and what starts one.
Work == QueueStep \/ PrepareStep \/ MutateStep \/ AuditStep \/ OutcomeStep
        \/ DecisionStep \/ RecordRefresh
Command == \/ Resume \/ CreateRefreshBranch
           \/ \E i \in Items, outcome \in {"approved", "rejected"} : MarkGate(i, outcome)

Next == Work \/ Command \/ Interrupt

\* Every stage is a subprocess with a timeout, so a running call goes on.  No
\* command is ever owed, and nothing obliges a process to die.
Spec == Init /\ [][Next]_vars /\ WF_vars(Work)

=============================================================================
