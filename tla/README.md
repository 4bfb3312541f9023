# Verification of plan-orchestrator

TLA+ models of `automation/plan_orchestrator`, checked with TLC and, where noted,
proved with TLAPS. `PROJECT.json` maps every definition to the lines it stands for
and lists the runs, hazards, findings and theorems.

## 1. The system

`plan-orchestrator` takes a markdown playbook and runs its items one at a time. Each
item gets a git worktree and branch of its own; a coding agent edits it, the result is
verified, audited twice, triaged, perhaps fixed, perhaps shown to a human, and then
fast-forwarded onto the run branch. A second layer, the supervisor, spawns the kernel,
watches it and restarts it within bounds.

| component | state it keeps | operations | correct when |
| --- | --- | --- | --- |
| state machine (`state_machine.py`) | none: states, table of moves | check a move, first unfinished item, prerequisites | moves and outcomes agree |
| run state store (`state_store.py`, `models.py`) | `run_state.json` | create, load, save atomically, append event | what is saved is enough to resume from |
| kernel runtime (`runtime.py`) | the process: queue, item under way, decision | run, resume, refresh-run, mark-manual-gate | only reviewed and approved work lands, once, in order; a stopped run can be resumed |
| worktree manager (`worktree_manager.py`) | run branch, refresh branches, item branches | add worktree, fast-forward, refresh | the run branch only grows |
| git checkpoint (`git_checkpoint.py`) | commits on item branches | stage allowed changes, commit, check authority | nothing out of scope is committed |
| manual gate record (`reporting.py`) | `manual_gate.json` per attempt | request, decide | a decision reaches the attempt that was reviewed |
| findings and handoff (`findings.py`, `runtime.py` 549-702) | none | merge by fingerprint, rewrite a triage decision | no blocking finding is lost on the way to a pass |
| verification (`verification.py`) | none | run commands, scope check, artifact check | its status says what its parts say |
| stage runner (`subprocess_runner.py`) | child process, active-stage record | run a stage, time out, repair a report | a stage that ended is really over |
| supervisor (`supervisor.py`, `supervision_recovery.py`) | control lock, interventions, heartbeats | start, poll, recover, wait, park | one supervisor per run, bounded retries, a wait that notices the answer |
| probe bridge (`supervision_bridge.py`) | registration, request, acknowledgement | register, probe, acknowledge | an acknowledgement answers the present request |
| supervision status (`supervision_status.py`, `supervision_artifacts.py`) | none | read all of the above | its verdict is one the run could have had |
| status, doctor, cli | none | print | read-only |
| config, parser, snapshot, validators | files written once | load, normalise, validate | pure |

Interaction is by files and git: the kernel saves `run_state.json` after every change
of state; a human's `mark-manual-gate` writes the gate record, moves git and saves
`run_state.json`; the supervisor reads all of these and spawns kernel processes.

What is hard: a process may die between any two saves, and between a save and an effect
on git; nothing keeps two commands from running at once over one `run_state.json`;
stages leave processes behind; files are read one after another while they are
rewritten; models answer whatever their schemas allow; several files describe one fact
(`current_state`, the row's `terminal_state`, the gate record, the branch) and are written
one after the other; attempts and rounds leave values behind in the row that later ones may
read; calls by a human and by the supervisor come in any order; retries and waits are
bounded by counting files.
The `hazards` in `PROJECT.json` list each at its line.

## 2. Plan

Written, in the order of what matters most:

1. the kernel: `RunStateMachine`, `Kernel`, `KernelProperties`, and the two abstract
   specifications it implements, `RunLedger` and `RunOutline`; proofs in `KernelProofs`
   and `KernelHistoryProofs`;
2. what is inside an attempt and `Kernel` leaves open: `Checkpoint` (worktree, commits
   and scope) and `Review` (reports, findings and decisions), with `CheckpointProofs` and
   `ReviewProofs`;
3. what happens when `Kernel`'s one process at a time is not true: `Commands` and
   `CommandsProofs`;
4. the supervisor: `ControlLock`, `Supervision` and `Probe`, each with its proofs.

Left, most important first:

1. two supervisors' loops at once (composes `ControlLock` and `Supervision`), whose
   sequence numbers of interventions may collide once the lock was lost in a race;
2. an abstract attempt (rounds, decisions, budgets) that both `Review` and `Kernel`
   implement;
3. a refinement of `Kernel` by `Commands` with a single caller;
4. the sequence of a run's snapshot files, and a run whose snapshot was edited.

## 3. The modules

Modules share no variables; what one leaves open another has in detail. `Kernel` has
the stages of an attempt one by one and takes any decision of triage; `Review` has where
the decision comes from; `Checkpoint` has which commits a checkpoint names; `Commands`
has the attempt as one step and several processes; `Supervision` has the kernel as seen
from outside, and `Probe` how a running one is seen at all.

### Kernel

`RunStateMachine` is `state_machine.py`: the table of moves and two predicates.

`Kernel` is one run from the first save of `run_new` on. Variables:

| variable | code |
| --- | --- |
| `current_state`, `current_item_id`, `run_branch` | the fields of `run_state.json` of that name (`run_branch_name` as an index into `run_branches`) |
| `items` | the rows: a report path is the cycle (attempt, fix rounds, remediation rounds) that wrote it, `checkpoint_ref` the history it names, `branch` and `manual_gate` the attempt they belong to |
| `gates` | `manual_gate.json` of each attempt: status and commit |
| `run_branches`, `item_branches` | git: a branch is the sequence of commits up to it, an ancestor a prefix |
| `pc`, `call` | the process: where it is, its queue, its item, its evidence argument, the triage decision and the packet it built |
| `adopted` | observation only: the commits that a refresh brought onto the run branch |
| `mishaps` | observation only: where a process died, and which operator mistakes were made |

An action is the code from one save, or one effect on git, to the next. Two saves with no
decision and no effect on git between them are one action: `RecordWorktree` (the row's
branch, then ST15), `RecordCheckpoint` (the row's checkpoint, then ST40), `PrepareContext`
(the row's evidence in `_run_item_attempt`, then ST20 in `_run_mutation_stage`,
`runtime.py:1598`). A death between the two saves leaves what a death just after them
leaves, as far as `resume` can tell, since the state it is refused in is the same kind. A
git command or a file that fails outside the handlers ends the call as a death does, and
is covered by `Interrupt`. A command the code refuses without a change is a disabled
action.

| code | actions |
| --- | --- |
| `_run_requested_items`, `_next_auto_advance_item` | `FinishQueue`, `RefuseItem`, `SelectItem`, `AdvanceQueue` |
| `_run_item_attempt` up to its loop | `BlockWithoutEvidence`, `AddWorktree`, `RecordWorktree`, `EvidenceMissing`, `PrepareContext` |
| `_run_mutation_stage` | `StartMutation`, `RecordReport`, `CommitCheckpoint`, `RecordCheckpoint`, `Verify` |
| `_run_audit_and_triage` | `BuildAuditPacket`, `StartCodexAudit`, `StartClaudeAudit`, `StartTriage`, `Triage` |
| `_raise_terminal_from_exception` | `StageFails` |
| what follows triage | `Land`, `RecordPass`, `FinishPass`, `RequestGate`, `WriteGate`, `BlockOnTriage`, `FinishBlocked`, `Escalate`, `FinishEscalated`, `StartFix`, `StartRemediation` |
| `resume` | `Resume` |
| `mark_manual_gate` | `MarkGate`, `LandApproved`, `RecordApproval`, `RecordRejection` |
| `refresh_run` | `CreateRefreshBranch` (with `RefreshTargets`), `RecordRefresh` |
| a process dies | `Interrupt` |

`create_run_refresh_branch` takes any ref that descends from the run branch
(`worktree_manager.py:147`), and so does `RefreshTargets`: the run branch itself, a commit
made elsewhere on top of any branch there is (`Refs`), or the branch of any attempt, an
undecided one included. What such a ref adds is in `adopted` from then on, and the
properties about who may land speak of the rest. Histories are sequences: a merge is not
told from a commit on top.

`RunLedger` is the abstract specification of the kernel: a history, what refreshes brought
to it, who passed, who is approved, and at most one item that landed and is not yet
recorded. `KernelProperties!Ledger` maps the kernel onto it; `LedgerRefined` is checked.

`RunOutline` is a run as those see it who do not work on it: where it is, each item's
outcome and gate, whether an attempt is under way, from one outcome to the next.
`KernelProperties!Outline` maps the kernel onto it: the states within an attempt are
`"inside"`, and a decision shows when its process is done with it. `Supervision` has the
same variables under the same names, so that its kernel and its human are an environment
that keeps to the outline (`Supervision!Outline`). What `Kernel` owes and what
`Supervision` relies on is thus one specification, and both are checked, and proved,
against it: this is what joins the two modules.

`KernelProperties` holds the properties, each with the code it is about. `MCKernel`
gives the constants their values.

### Review

`Review` is one attempt from its first mutation report to its outcome. In the packet a
finding is its canonical id, which stands for its title, category, paths and evidence;
severities only order the packet. Triage, a model, answers anything its schema allows: of
each finding it names it says what it likes, whether it is actionable and whether it is one
of those the hand-off counts as repairs (`TriageFinding`: its values of `is_blocking`,
`file_paths` and `source_refs`, as far as the rules tell them apart).

| variable | code |
| --- | --- |
| `phase` | the step of the round |
| `fix_rounds_completed`, `remediation_rounds_completed`, `source_finding_ids` | the row's counters, and the findings the next mutation stage is told to fix |
| `mutation`, `verification`, `codex`, `claude` | the reports, as far as a finding or decision depends on them |
| `effort` | the effort claude is called with |
| `packet`, `answer`, `report` | the merged packet; triage's report as written, and as kept |

| code | actions and operators |
| --- | --- |
| `_run_mutation_stage`, `run_verification` | `MutationStage`, `Verification` (`OverallResult`) |
| codex and claude audits, with the retry at less effort and the salvage of other shapes | `AuditCodex`, `RetryClaude`, `AuditClaude` |
| `write_merged_findings_packet`, `merge_findings` | `WritePacket` (`Candidates`, `Merged`, `SignalsOf`) |
| triage | `Triage` |
| `_preserve_mutation_control_handoff` | `PreserveHandoff` (`Handoff`, `Preserved`, `Injected`, `DesiredDecision`, `BlockingRepoContent`, `Disposition`) |
| what `_run_item_attempt` does with the decision | `EndAttempt`, `StartFix`, `StartRemediation`, `BudgetExhausted` |
| a stage fails | `StageFails` |

### Checkpoint

`Checkpoint` is the branch and worktree of one attempt. Beside the orchestrator, the
agent, the verification's commands and whatever they left behind edit and commit.

| variable | code |
| --- | --- |
| `branch`, `index`, `dirty` | git: commits past the base, staged and unstaged changes, each a path (and the old name of a rename) |
| `previous_ref`, `checkpoint_ref`, `scope_failed` | what the round starts from, its commit, the scope check of its report |
| `gate_ref`, `run_branch` | the commit of the gate record; how much of the branch landed |
| `straggler`, `round`, `pc` | a child outlives its stage; the round; where the attempt is |

| code | actions |
| --- | --- |
| a stage and its children | `Edit`, `CommitBy`, `LeaveStraggler`, `StragglerEnds`, `StageReports` |
| `stage_allowed_changes`, `classify_scope_paths` | `StageAllowedChanges`, `RefuseChanges` |
| `create_checkpoint_commit` | `CreateCheckpoint` |
| `scope_check_for_committed_changes` | `ScopeCheck` |
| `collect_post_checkpoint_authority_violations` | `AcceptCheckpoint`, `RefuseCheckpoint` |
| next round, pass, gate | `NextRound`, `FinalizePass`, `AwaitGate`, `Approve`, `EndAttempt` |

### Commands

`Commands` is any number of `resume`, `mark-manual-gate` and `refresh-run` calls at once.
`state_store.py` takes no lock: a command loads `run_state.json` once, works on its copy
and saves the copy whole.

| variable | code |
| --- | --- |
| `disk` | `run_state.json` |
| `gates`, `run_branches`, `item_branches`, `adopted` | as in `Kernel` |
| `calls` | of each command: its place, its copy, its item and arguments, the tip it saw the run branch at, and what had passed when it loaded the file (observation) |

| code | actions |
| --- | --- |
| `load_run_state`, `save_run_state` | `Load`, `Save`, in every action |
| `resume`, `_reset_item_for_resume` | `Resume`, `Reset` |
| `_run_requested_items`, `_run_item_attempt` | `Select`, `BlockWithoutEvidence`, `AddWorktree`, `RecordWorktree`, `Work`, `StopShort`, `RecordStop` |
| `fast_forward_run_branch_to_ref`: the check, then `update-ref` | `ReadRunTip`, `UpdateRef`, in `StartLanding`, `Land`, `StartApproval`, `LandApproved` |
| `_finalize_pass`, `_terminal_awaiting_human_gate` | `EnterPassed`, `RecordPass`, `EnterGate`, `WriteGate` |
| `mark_manual_gate` | `MarkGate`, `CheckPending`, `WriteDecision`, `RecordApproval`, `RecordRejection` |
| `refresh_run`: the checks, the search for a name, `git branch`, the save | `RefreshRun`, `ChooseTarget`, `FindName`, `CreateBranch`, `RecordRefresh` |

A command that dies is one that takes no further step.

### ControlLock

`ControlLock` is `acquire_control_lock` and `release_control_lock`: `lock` is the file
(`Absent`, `Torn` when it is no document, or the owner it names), `pc` and `seen` are
each process's place and what it read, `attached` says whose open file still is the one
at the path. An action is one operation on the file.

| code | actions |
| --- | --- |
| `_safe_json_write_exclusive` | `CreateLock`, `WriteLock`; again as `RecreateLock` |
| `acquire_control_lock` after `FileExistsError` | `ReadLock`, `JudgeOwner` (with `PidIsRunning`), `Overwrite`, `UnlinkMissing` |
| `manage` ends, `release_control_lock` | `EndManage`, `ReadOwnLock`, `RemoveLock` |
| a process dies | `Die` |

`died` and `raced` are observations: where a process died, and whether a step changed
another lock than the one its process had judged.

### Supervision

`Supervision` is `RunSupervisor.manage` with `classify_recovery`, one supervisor at a
time. Its environment is the kernel, seen from outside (`RunOutline`: from one outcome of
an item to the next), a human and the disk. A kernel may also die after it saved the state
its attempt ends in and before the outcome (`KernelDies`), the record of a gate may be
refused (`refused` in `KernelAttemptEnds`), and a decision may get no further than its
record (`DecideGate`).

| variable | code |
| --- | --- |
| `current_state`, `current_item_id`, `rows` | what `classify_recovery` reads of `run_state.json` and of the gate and verification reports; `reports` is the attempt that wrote the latest reports, which is what their hashes tell apart |
| `damage` | which files and branches the doctor and the status find missing or invalid |
| `kernel` | the kernel process, whether a supervisor spawned it, whether its bridge registered |
| `pc`, `mode`, `prior_wait_action_kind`, `initial_resume_consumed`, `explicit_evidence`, `decision` | the supervisor's process |
| `interventions` | the intervention files some budget counts |
| `inbox` | the evidence inbox: which of its successive contents it holds |
| `attempts`, `resumes`, `uncounted`, `mishaps` | observation only |

| code | actions |
| --- | --- |
| `supervise_run`, `supervise_resume` | `SuperviseRun`, `SuperviseResume` |
| `_monitor_kernel_invocation` | `MonitorEnds` |
| `manage`: status, doctor and `classify_recovery` | `Classify` (with `RecoveryDecision`) |
| `manage`: what it decides | `Finish`, `Park`, `Wait`, `Poll`, `Repair`, `SpawnResume`, `RecordResume` |
| a supervisor dies | `Die` |
| `run`, `resume` as seen from outside | `KernelBegins`, `KernelCreatesRun`, `KernelResets`, `KernelSelects`, `KernelAttemptEnds`, `KernelEnds`, `KernelDies` |
| `mark-manual-gate`, a human's `resume`, the inbox, the disk | `DecideGate`, `HumanResumes`, `SupplyEvidence`, `FilesDamaged` |

The fingerprint of `build_recovery_fingerprint` is the record of what it hashes, so two
are equal exactly when the hashed values are. `SpawnResume` and `RecordResume` are two
actions because the kernel runs before the file that counts it is written.

### Probe

`Probe` is the kernel's bridge, the supervisor's probe and heartbeats, and the claim the
status command derives, over files that each process reads one after another.

| variable | code |
| --- | --- |
| `run_state` | `run_state.json`: a version, which its hash tells, and the state read from it |
| `bridge_registration`, `active_stage`, `probe_request`, `probe_ack`, `heartbeat` | the supervision files; a nonce is the latest request's or an earlier one's |
| `age` | of the latest heartbeat: this second, within `live_stale_timeout_sec`, older |
| `kernel`, `bridge`, `supervisor` | the main thread of each kernel, its bridge's thread, the supervisor at work |
| `session` | that supervisor's session: a new one, or the one it took from the registration (`supervise_resume`), so that a kernel it attaches to answers it |
| `since` | observation: states of the run, and kernels that answered, since the request under way |

| code | actions |
| --- | --- |
| `RuntimeProbeBridge.start`, `stop` | `StartBridge`, `StartWithoutBridge`; `StopBridge`, `UnlinkFiles`, `Unregister`, `EndWithoutBridge` |
| `run_with_active_stage` | `PublishActiveStage`, `ClearActiveStage` |
| `_serve_loop` | `MatchRequest`, `IgnoreExpired`, `BridgeReadsState`, `BridgeHashesState`, `BridgeRetries`, `WriteAck`, `BridgeThreadDies` |
| `attach_existing_live_kernel`, `manage` without a kernel | `Begin`, `ObserveWaiting`, `ObserveTerminal`, `ObserveSnapshot`, `SpawnKernel` |
| `_monitor_kernel_invocation`, `_probe_once` | `MonitorEnds`, `UnlinkAck`, `WriteRequest`, `AckSeen`, `DeadlinePasses`, `Wake` |
| `validate_probe_roundtrip` | `ReadState`, `HashState`, `ReadFiles`, `WriteHeartbeat` (`Valid`) |
| `_derive_claim_class` | `StatusClaim` |
| saves, deaths, restarts, time | `Save`, `KernelDies`, `SupervisorDies`, `NextSupervisor`, `Tick` |

Definitions that end in `_slip` are wrong versions of
the definition after them: each run's properties are tried against them (`mutants`).

## 4. The runs

| run | instance | shows |
| --- | --- | --- |
| `recovery` | 2 items, the second gated and dependent, the first needing evidence; no rounds, 2 attempts, 1 refresh, deaths at one kind of point (any) | nothing lands unreviewed, unapproved or twice, but for what a refresh brings; worktrees hold their prerequisites; a refresh keeps passed work; a pending gate holds the run; attempt numbers are never reused; a landing is refused by git only after a refresh onto another history; a pass is final; the run can be moved on unless one of the named mishaps happened; a human's decision takes effect unless one of them left it half way; ledger and outline are implemented |
| `rounds` | 1 gated item, 2 fix rounds, 1 remediation round, 2 attempts, 1 refresh, deaths | what passes is what its own last cycle verified, audited and triaged |
| `liveness` | chain of 2, the second gated, 1 fix and 1 remediation round, no deaths | no call dies of a refused move; each of its steps brings it nearer its end; calls return; approvals become passes |
| `handoff` | 1 audit finding, 1 required command, mutation reports of up to two requests, 1 fix and 1 remediation round | no blocking finding or source is lost in the merge; a stop of the mutation stage is honoured; nothing passes or waits over a repository finding triage calls blocking, once the mutation stage raised anything; a fix is told of exactly what it is to fix |
| `scope` | 4 paths, one of each kind; 3 rounds, 2 changes, every writer | what lands was checked but for a straggler's later commits, and is in scope |
| `commands` | 3 commands in any overlap, 2 items, 2 attempts, 2 refreshes | no attempt has two workers; what is called passed is landed; nothing gated is landed or built upon undecided, unless a refresh was pointed at it; an attempt's branch stands still once its gate record is there; branches only grow; a pass is lost only to a copy older than it |
| `lock` | 4 supervisor calls, one pid reused, deaths anywhere | two hold the lock only after a step hit a lock it had not judged; clean ends leave no lock; an unreadable lock is a death's |
| `budgets` | 2 items, auto-advance, budget 1, 2 attempts, 1 inbox content, 1 death of the supervisor, 1 resume by a human | retries of an escalated item stay within the budget plus the uncounted ones; a kernel is started beside another only if that one could not be seen; a rejection holds; the run keeps to the outline |
| `settles` | 2 items, no auto-advance, plan and run branch lost at any time and again | a supervisor whose kernels attempt nothing any more waits or ends |
| `probe` | 1 kernel, 1 save, 1 stage, any number of supervisors and requests | a claim of life is proven by an answer to this request and a state the run was in; it lapses when nobody can answer; a watched kernel is proven alive again and again |
| `packet` | 1 item | disagreement 1 of section 6, a violation |
| `ungated` | as `handoff`, with mutation reports that ask for no stop | disagreement 2, a violation |

Bounds. Two items are enough for order, dependence and auto-advance, since the code
relates an item to the others only through prerequisites and the first unfinished one.
Two attempts let an earlier one leave something for a later one. `MaxInterrupts` bounds
the kinds of point a process dies at, not how often. `MaxAttempts`, `MaxRefreshes` and
`MaxInterrupts` bound the state space and appear as guards of `SelectItem`, `Resume`,
`CreateRefreshBranch` and `Interrupt`; the code has none of these limits. Deadlock is not
checked where a run that is finished, or that a mishap stranded, stops.

`handoff`: findings meet only when their ids are equal, so one id that both audits may
report, twice and in disagreement, is what the merge can get wrong; the command is one
source beside it. Of each finding triage may say anything, which is where the rules of the
hand-off contradict each other. A mutation report makes at most two requests (`SignalsOf`: a
stop from outside, a human, an escalation, its open items): the rules take them by
priority, so any two show which goes first. `scope`: two
changes are one that is committed and one that follows it, three rounds a first, a middle
and a last. `commands`: two callers race and the third is the decision or refresh they
race about; the two attempts are one that is overtaken and one that overtakes.
`MaxAttempts` and `MaxRefreshes` are guards of `Select` and `FindName`. It is
symmetric in the commands, which no property names. `probe`: one save and one stage are
enough to fall between any two reads, and supervisors follow each other without a bound,
a nonce being the latest or not. `MaxChanges`, `MaxSaves` and `MaxStages` are guards of `Edit`,
`Save` and `PublishActiveStage`.

Four calls in `lock` are two more than a race needs: one leaves something, two contend,
and the fourth meets what they leave. It is symmetric in the calls whose pid is not
reused. In `budgets` nothing is damaged: repairs and losses multiply the states and are
what `settles` is about (where a lost playbook decides nothing a lost plan does not),
while `budgets` asks about deaths and humans. Budget 1 with two attempts per run and a
death is the smallest instance in which an attempt changes the fingerprint between two
resumes and a resume goes uncounted. `MaxAttempts`, `MaxPackages`, `MaxDeaths` and
`MaxHumanResumes` are guards of `KernelSelects`, `SupplyEvidence`, `Die` and
`HumanResumes`. Every safety property of these instances but that of `packet` and
`ungated` is proved for all of them in section 5. The type invariant of each module is
proved there and is not among the properties of a run.

Fairness. Of the kernel: weak fairness of `Work`, the union of what a started process does
next. Every stage runs under a timeout and every other step is local, so a running process
goes on. Nothing is assumed of commands or deaths. Of the supervisor: weak fairness of
`Supervise`, a loop that blocks nowhere but in its sleeps, and of `KernelWork`, whose
stages have timeouts; nothing is assumed of the human or the disk. Of the probe: time
passes (`Tick`), and the supervisor's and the bridge's thread take the steps they have;
nothing makes a kernel end or a supervisor start.

`SpinsNotIdly` speaks of behaviours in which attempts come to an end, so the bound on them
does not make it true: what it excludes is a loop that goes on without any.
`ApprovedItemPasses` is about runs without refreshes: a refresh onto another history while
a gate is pending makes the reviewed commit unlandable (`LandApproved`, second disjunct),
which `StrandedOnlyByMishap` admits by name. `LiveKernelIsProven` is about a
kernel that stays watched and whose answers come in time from some point on: what it
excludes is that an earlier answer, refusal or torn read keeps a later probe from
succeeding.

## 5. What is proved

For every value of the constants that satisfies the assumptions of the modules, all
invariants and all action properties the passing runs check, and the three refinements
(the kernel of `RunLedger` and of `RunOutline`, a supervised run of `RunOutline`). The
assumptions are about types and bounds, and for the kernel that one call does not ask for
an item twice (`RequestsAssumption`). Nothing is assumed of prerequisites: a plan with
missing, later or cyclic ones is one the parser accepts, and the theorems hold for it.

**Kernel, the process** (`KernelProofs`): `TypeCorrect`, `PendingGateSafe`, `PassedFinal`,
`EarlierAttemptsStay`, `BudgetKept`, from `Inductive`: `Spec => []IInv`.
`PendingGateHolds` is not inductive alone: that a new record names the current item and
the reviewed tip needs to know where the process is. `IInv` adds `AttemptInv` (the item
under way is current, has no outcome, and from verification on its checkpoint is its
branch's tip), `DecisionInv` (the item of a decision awaits one), `StoppedInv` (a run that
stopped on an item stopped because it did not pass: else resume would attempt a passed
item) and `QueueInv` (what is queued has not passed and comes up once). One lemma covers
the steps inside an attempt (`AttemptStep`), one the steps that return (`ReturnStep`);
each action is then a case. `PassedFinal` and `EarlierAttemptsStay` say which row, branch
and record each group of actions touches (`AttemptTouches`, `OtherTouches`).

**Kernel, its histories** (`KernelHistoryProofs`): `PassedLanded`, `GateGuards`,
`PassedReviewed`, `Builds`, `LandedOnce`, `Proceeds` and `ImplementsLedger`, from
`HistoryInductive`: `Spec => []HInv`. `GateGuards` and `LandedOnce` leave aside what a
refresh brought (`adopted`). None of them is inductive alone, and they need each other.
`TipInv` says that an attempt's branch is the history it started from and its own commits,
that it starts at the run branch, and that a refresh branch under way goes on from it;
`FreshInv` that no branch or record has the number of an attempt to come; `BehindInv` that
an item set back for another call is not overtaken; `CommitInv` that every branch, since a
refresh may take any, has only commits of attempts the rows know; `BuildInv` that an
attempt starts from what holds its prerequisites; `ReviewInv` that reports are of the
present cycle as far as it has come; `StateInv` and `ProceedInv` which state the process
may be in; `OnceInv` when an item may have landed and not look so. A dead process is what
makes them long: a run that died between a branch and its record has a branch its row does
not know, and the invariant has to say that it is stuck. The refinement takes each step to
a step of the ledger or a stutter, by the group of actions.

`ImplementsOutline` needs two more facts (`OutlineInv`): a gate that is waited for holds
the run (`WaitInv`), so that the gate another item's reader sees never moves with it; and
an item queued in a run that no selection can leave has no outcome (`AnewInv`), since a
selection that is refused (`SelectItem`, second disjunct) would erase that outcome and the
outline lets only an attempt do so. `DecisionsTakeEffect` is about a record and a row that
are written at different times, with git between them; `DecidedInv` says of each gate
record that is named, whatever it says, which outcome its item then has, and that a
decision is half way only while `mark_manual_gate` is at it or after one of the mishaps by
name. `GitNeverRefuses` is about the same gap: it follows from `HInv` that a new branch's
name is free and that the run branch is an ancestor of what an attempt lands; that an
approved commit can be overtaken by a refresh only needs `LandableInv`, which follows the
reviewed commit from the record through every refresh, and `RefreshOnTop`, that what a
refresh adds moves no place at which the run branch left another history, or makes the
first one itself (`LeastPlace` finds it). `RefreshAdopts` says that what is new on the run
branch after a refresh is in `adopted`.

What `CallEnds` needs is proved but for the fairness: no move is refused (`MovesGoThrough`),
each step of a call comes down in one lexicographic order (`CallsComeDown`: items that did
not pass, queue, rounds, places of the procedure), and what comes down are natural numbers
(`CallsAreFinite`, from `BudgetKept`). So for any budgets and any answers of the models a
call that keeps taking steps ends; that it takes them is weak fairness, which only TLC
checks.

**Checkpoint** (`CheckpointProofs`): `LandedWasReviewed` and `LandedInScope`, for any paths,
roots, rounds and writers. The invariant says who may have committed past the checkpoint
at each place of a round and which part of the branch passed a scope check there; that
checks of the rounds add up to one of the branch is `ScopeBetween`.

**Review** (`ReviewProofs`): `BlockingSurvivesMerge`, `StopsAreHonoured`,
`RepairsBeforeGate` and `FixCarriesFindings` (`FixCarries`), for any findings, reports and
budgets, and whatever triage writes of a finding. The invariant ties the packet's control
block to its findings, and the report that is acted on to the packet and triage's answer
(`report = Handoff(packet, answer)`); what the hand-off adds to the answer is never a
repair, and when a fix is ordered only the stage's own open items can be actionable in it
(`InjectedFrom`).

**Commands** (`CommandsProofs`): all six properties of the run and the type invariant, for
any number of commands. A copy is
a run state of the past, so the invariant says the same of the file and of every copy
(`StateOK`, `LandedOK`) and of each command what its place implies about git and the gates
(`CallOK`). A step of another command makes git and the gates only go on (`Onward`), which
all of these outlive. `GateGuardsLanding` says of a run branch that every commit on it was
allowed there, whoever put it, which takes an invariant about all histories at once
(`GuardInv`): beneath an attempt's own commits is only what was on a run branch, what a
refresh is about to point at is so too but for what it adds (`Beyond`, which `adopted` takes
in once the branch is there), and who lands without a decision works on an item without a
gate. `KeepsGuard` is what one step adds to them.

**ControlLock** (`ControlLockProofs`): `TypesKept`, `OneHolderKept`, `CleanEnd`,
`UnreadableByDeath`, for any set of supervisors and of reused pids. As long as no step
raced, the holder is who the file names and the only writer has an empty file open
(`OwnerInv`), what was judged gone stays gone (`SeenInv`), and a file without a writer is
its holder's or a dead process's (`LeftInv`).

**Supervision** (`SupervisionProofs`): `SupervisionTypes`, with when there is a decision
(`DecisionInv`); that `classify_recovery` answers in every state needs that there is a first
unfinished item whenever one is unfinished (`LeastElement`, from the well-foundedness of
finite sets). `EscalationBudgetKept`: `BudgetInv` relates the resumes of an item to the files
that count it, one less between a spawn and its file, and keeps the count below the budget
when a resume is decided. `KernelsSeen`: while no kernel escaped notice, the one that runs
belongs to the supervisor that waits for it, or no supervisor is there and it is registered
(`SeenInv`). `RejectionKept`: a gate that is pending or rejected is the current item's, no
kernel runs beside it, and a decision taken before does not resume (`GateInv`, which needs
`SeenInv`: it is the kernel nobody sees that could reach the gate after the decision).

`SupervisionKeepsOutline` takes the environment action by action to the steps of the outline
(nothing a supervisor does is one), which needs that the item of a busy kernel is the
current one and that a pending gate is its row's. The converse, that the environment of
`Supervision` may take every step of the outline, would need `ENABLED` or a witness for each
hidden variable and is not proved; so is not that the kernel's own bookkeeping of reports
(`Written`) is that of `Kernel`.

**Probe** (`ProbeProofs`): `TypeCorrect` and `LiveProven`. An acknowledgement of the
latest nonce was given since the request; no snapshot is ahead of the file; the supervisor
reads the state no earlier than the answer's version and hashes it no earlier than that.
So if the hashes agree, the state it read is of that version, however the file was
rewritten in between (`AnswerOK`). A kernel is believed when it is of the supervisor's
session, spawned in it or taken over with its registration, and the theorem is about both.

Only model-checked: liveness (`CallEnds`, `ApprovedItemPasses`, `SpinsNotIdly`,
`ClaimLapses`, `LiveKernelIsProven`), since temporal reasoning with fairness is out of the
prover's reach, and the two violations.

## 6. Where code and documents disagree

Shown by a run:

1. `packet`: `fix_report_path` is never cleared, so the execute round of a later attempt is
   audited with an earlier attempt's fix report (`runtime.py:1855`).
2. `ungated`: a required verification command that fails is only a finding, which triage may
   leave out or call not blocking, and the item passes or waits for its approval
   (`runtime.py:605`); `docs/playbook-contract.md:106` calls those commands the required
   gate.

Met while modelling, without a run of their own. The first six are behaviours of the
modules; the others lie outside them:

3. A gate that triage asks for on an item whose plan has none: the record's schema refuses
   it after ST110 was saved, and no command leaves that state (`runtime.py:2199`;
   `gate_invalid` in `StrandedOnlyByMishap`).
4. The repository's `README.md:214` says that only a passed or approved item can advance
   the run branch; `refresh-run` takes any descendant of it (`worktree_manager.py:147`), the branch of an
   attempt that waits for its gate, was escalated or blocked included, and the next item
   builds on it. `GateGuardsLanding` and `LandsOnce` leave `adopted` aside for this reason.
5. An evidence directory that does not exist is noticed after ST15, outside the handler that
   escalates, and no resume leaves that state (`runtime.py:945`; `evidence_missing`).
6. The control lock is read, judged and then unlinked or overwritten in separate steps: a
   release between the failed create and the read is enough for two later supervisors to
   hold it, with no death (`supervisor.py:231`; the message at 249 promises the contrary).
7. At ST130 with auto-advance the supervisor resumes without counting: a resume that ends
   before an attempt is repeated for ever, where `docs/release-checklist.md:150` says
   retries are bounded (`supervision_recovery.py:466`). The run `settles` has no
   auto-advance for this reason.
8. An evidence package counts as tried per fingerprint, and every attempt changes the
   fingerprint: it is tried again with the same files, where the reason for parking
   (`supervision_recovery.py:283`) says once.
9. Two `mark-manual-gate` calls at once both find the record pending: one may land what the
   other rejects (`runtime.py:334`; `CheckPending`, `WriteDecision` of `Commands`). That
   some decision was made before the landing is all that holds (`GateGuardsLanding`).
10. `supervise status` says `live_attached` for `live_stale_timeout_sec` after the bridge
    went; `docs/supervision-guide.md:67` says the proof matched the current bridge.
11. A rename is known by its new name: its source may lie outside the item's roots, which the
    mutation stage may not touch (`git_checkpoint.py:57`, `docs/playbook-contract.md:62`).
12. Prerequisite ranges: the parser makes of `1-5` the ids 1 to 5 without padding, where
    `docs/plan_orchestrator_workflow.html:756` says 01 to 05; a reversed range is empty; ids
    that do not exist, and cycles, are accepted, and such an item is refused when its turn
    comes.
13. A supervisor may give up waiting at the poll after the answer arrived
    (`supervisor.py:678`); it drops the evidence directory it was given after its first
    resume of any kind (`supervisor.py:761`); a process of another user counts as dead
    (`supervisor.py:74`).

Stated as exceptions in the properties because no document promises otherwise: a death in
the middle of an item or decision strands the run (`StrandedOnlyByMishap`), a death between
ST130 and the row's outcome lands a second attempt of the item (`LandsOnce`), and what a
process left behind commits after the last check lands unreviewed (`LandedWasReviewed`).

What the models say that is not obvious from the code: saves of whole copies keep what is
called passed landed under any overlap, where saves of single fields would not; of two
commands that select the same attempt the loser fails at the worktree, and then saves its
stale copy over the winner's; two commands can work at different attempts of one item, never
at the same; a kernel that outlives its supervisor is proven live by the next one only
because that one takes over the session of the registration: one that finds no registration
has a new session, and nothing the kernel answers counts for it.

## 7. Not modelled

Left out: contents of reports, prompts and packets; in `Kernel`, where `overall_decision`
comes from (any the schema allows, with a gate asked for only where `TriageAsksGate` says
so); schemas beyond the refusals above; hashes, which are taken to tell contents apart;
repository preflight; `--items` with a repeated item (`RequestsAssumption`); two
supervisors' loops at once, and with them the sequence numbers of supervision files;
processes of other users; an inbox that is emptied; deadlines and expiries of probes as
numbers (a deadline may pass, and a request expire, at any time); changes that are undone
within an attempt, whose diff would not show them; triage naming a finding twice with one
value of what the models keep, as a report is a set; merges, as histories are sequences;
everything listed as `not_modelled` in `PROJECT.json`, with its reason: configuration, plan
parsing, schemas and the command line have no state of their own, and of their results the
modules take every value their assumptions admit.

Taken as one step though the code has several:

- `Probe.StatusClaim`: the status command reads its files one after another; the model
  reads them at once, so a verdict mixed from two moments is not covered.
- `Kernel.PrepareContext`, `RecordWorktree`, `RecordCheckpoint`: two saves each (section 3).
- `Commands.AddWorktree`: the look at path and branch, and git's call. A branch whose
  directory is not there yet is reused (`worktree_manager.py:99`), which git refuses while
  the worktree of the command that made it has it checked out; so whoever comes second fails
  in either order. Nothing in the code removes a worktree, and a human who does so between
  two calls is not modelled.
- `Commands.ChooseTarget`: the run branch's tip is resolved together with the check that the
  target descends from it. The search for a free name (`FindName`) and the creation of the
  branch are steps of their own.
