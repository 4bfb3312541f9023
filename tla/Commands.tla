------------------------------- MODULE Commands -------------------------------
(***************************************************************************)
(* Several kernel commands at once on one run: resume, mark-manual-gate and *)
(* refresh-run of PlanOrchestrator (runtime.py), over the run_state.json    *)
(* that state_store.py loads and saves without a lock.                      *)
(*                                                                         *)
(* Each command loads the file once, works on its own copy and saves that   *)
(* copy whole, so the last save wins and an earlier one may be undone.  What *)
(* keeps the run together is git (a branch name is created once, the run     *)
(* branch moves by compare-and-swap) and the gate's own file.               *)
(*                                                                         *)
(* Kernel has the stages of an attempt one by one and a single command.      *)
(* Here the stages of an attempt are one step, each attempt leaves one       *)
(* commit, and prerequisites and rounds are left out.                        *)
(***************************************************************************)
EXTENDS Naturals, Sequences, SequencesExt, RunStateMachine

CONSTANTS
  Callers,           \* the commands; one that dies takes no further step
  NumItems,
  GateRequired,
  EvidenceRequired,
  MaxAttempts,       \* bound: attempts of an item
  MaxRefreshes       \* bound: refresh branches

Items    == 1..NumItems
None     == 0
Attempts == 1..MaxAttempts

ASSUME CommandsAssumption ==
  /\ NumItems \in Nat \ {0} /\ MaxAttempts \in Nat \ {0} /\ MaxRefreshes \in Nat
  /\ GateRequired \subseteq Items /\ EvidenceRequired \subseteq Items

VARIABLES
  disk,          \* run_state.json
  gates,         \* item -> attempt -> status of manual_gate.json
  run_branches,  \* the run branch, then its refreshes: sequences of commits
  item_branches, \* item -> attempt -> history, NoHistory if there is none
  calls,         \* caller -> the command it runs
  adopted        \* observation: commits that a refresh brought onto a run branch

\* With the branches goes what a refresh put on them.
git  == <<run_branches, item_branches, adopted>>
vars == <<disk, gates, git, calls>>

-----------------------------------------------------------------------------
(* Data *)

\* A commit is the attempt that made it, or one from outside (item None).
Commits   == (0..NumItems) \X Nat
NoHistory == <<>>
Base      == <<None, 0>>

Row == [terminal_state : TerminalNames,
        attempt_number : Attempts,
        branch : 0..MaxAttempts,       \* attempt of branch_name and worktree_path
        manual_gate : 0..MaxAttempts]  \* attempt of manual_gate_path

RunState == [current_state : StateIds, current_item_id : 0..NumItems,
             items : [Items -> Row], run_branch : 1..(MaxRefreshes + 1)]

NewRow == [terminal_state |-> "none", attempt_number |-> 1, branch |-> None,
           manual_gate |-> None]

PCs == {"idle", "done", "reset", "select", "selected", "prepare", "working", "reviewed",
        "landing", "landed", "blocked", "escalated", "gated",
        "marking", "marked", "approved", "approving", "accepted", "rejected",
        "retargeting", "naming", "branching", "refreshed"}

Call == [pc : PCs, copy : RunState, item : 0..NumItems,
         evidence : BOOLEAN, auto : BOOLEAN, outcome : {"approved", "rejected"},
         tip : Seq(Commits),    \* the history the run branch was seen at
         target : Seq(Commits), \* what a refresh is to point at
         knew : SUBSET Items]   \* observation: passed when the file was loaded

NewRun == [current_state |-> "ST05", current_item_id |-> None,
           items |-> [i \in Items |-> NewRow], run_branch |-> 1]

NoCall == [pc |-> "idle", copy |-> NewRun, item |-> None, evidence |-> FALSE,
           auto |-> FALSE, outcome |-> "approved", tip |-> NoHistory,
           target |-> NoHistory, knew |-> {}]

Init ==
  /\ disk = NewRun
  /\ gates = [i \in Items |-> [a \in Attempts |-> "absent"]]
  /\ run_branches = <<(<<Base>>)>>
  /\ item_branches = [i \in Items |-> [a \in Attempts |-> NoHistory]]
  /\ calls = [p \in Callers |-> NoCall]
  /\ adopted = {}

-----------------------------------------------------------------------------
(* The parts of a command *)

Passed(state) == {i \in Items : state.items[i].terminal_state = "passed"}

At(p, pc)      == calls[p].pc = pc
RowOf(p)       == calls[p].copy.items[calls[p].item]
RunTipOf(p)    == run_branches[calls[p].copy.run_branch]
BranchOf(p)    == item_branches[calls[p].item][RowOf(p).attempt_number]

\* load_run_state, at the start of a command.
Load(call) == [call EXCEPT !.copy = disk, !.knew = Passed(disk)]

Continue(p, call) == calls' = [calls EXCEPT ![p] = call]
Done == [NoCall EXCEPT !.pc = "done"]
Return(p) == Continue(p, Done)

Save_slip(p, copy, pc) ==
  /\ disk' = [copy EXCEPT !.run_branch = IF @ > disk.run_branch THEN @
                                         ELSE disk.run_branch]
  /\ Continue(p, IF pc = "done" THEN Done ELSE [calls[p] EXCEPT !.copy = copy, !.pc = pc])

\* save_run_state writes all of the command's copy.
Save(p, copy, pc) ==
  /\ disk' = copy
  /\ Continue(p, IF pc = "done" THEN Done ELSE [calls[p] EXCEPT !.copy = copy, !.pc = pc])

\* A copy in which the item under way is in a state and its row as given.
Moved(p, state, row) ==
  [calls[p].copy EXCEPT !.current_state = state, !.current_item_id = calls[p].item,
                        !.items[calls[p].item] = row]

MayMove(p, state) == CanMove(calls[p].copy.current_state, state)

-----------------------------------------------------------------------------
(* resume *)

Target(state, i) ==
  IF state.current_item_id # None /\ state.current_state \in {"ST120", "ST140"}
  THEN i = state.current_item_id
  ELSE FirstUnfinished(i, state.items)

\* A first call of run looks the same as a resume at ST05.
Resume(p, evidence, auto) ==
  /\ At(p, "idle")
  /\ disk.current_state # "ST110"
  /\ \E i \in Items :
       LET outcome == disk.items[i].terminal_state
       IN  /\ Target(disk, i)
           /\ outcome = "blocked_external" => evidence
           /\ Continue(p, [Load(NoCall) EXCEPT
                !.pc = IF outcome \in {"blocked_external", "escalated"}
                       THEN "reset" ELSE "select",
                !.item = i, !.evidence = evidence, !.auto = auto])
  /\ UNCHANGED <<disk, gates, git>>

\* _reset_item_for_resume.
Reset(p) ==
  /\ At(p, "reset")
  /\ Save(p, [calls[p].copy EXCEPT !.current_state = "ST05", !.current_item_id = None],
          "select")
  /\ UNCHANGED <<gates, git>>

NextAttemptNumber(row) ==
  IF row.branch # None \/ row.terminal_state # "none"
  THEN row.attempt_number + 1
  ELSE row.attempt_number

\* The handler of _run_requested_items saves a refused selection as well.
Select(p) ==
  /\ At(p, "select")
  /\ NextAttemptNumber(RowOf(p)) \in Attempts
  /\ LET fresh == [RowOf(p) EXCEPT !.attempt_number = NextAttemptNumber(RowOf(p)),
                                   !.terminal_state = "none"]
     IN  IF MayMove(p, "ST10")
         THEN Save(p, Moved(p, "ST10", fresh), "selected")
         ELSE Save(p, [calls[p].copy EXCEPT !.items[calls[p].item] = fresh], "done")
  /\ UNCHANGED <<gates, git>>

LacksEvidence(p) == calls[p].item \in EvidenceRequired /\ ~calls[p].evidence

BlockWithoutEvidence(p) ==
  /\ At(p, "selected") /\ LacksEvidence(p)
  /\ Save(p, Moved(p, "ST120", RowOf(p)), "blocked")
  /\ UNCHANGED <<gates, git>>

AddWorktree_slip(p) ==
  /\ At(p, "selected") /\ ~LacksEvidence(p)
  /\ item_branches' = [item_branches EXCEPT
       ![calls[p].item][RowOf(p).attempt_number] = RunTipOf(p)]
  /\ Continue(p, [calls[p] EXCEPT !.pc = "prepare"])
  /\ UNCHANGED <<disk, run_branches, gates, adopted>>

\* git creates a worktree's directory and branch once, and checks a branch out in
\* one worktree at a time: whoever comes second fails, wherever between its look at
\* the two and its git call the first one came, and its handler saves its copy.
AddWorktree(p) ==
  /\ At(p, "selected") /\ ~LacksEvidence(p)
  /\ \/ /\ BranchOf(p) = NoHistory
        /\ item_branches' = [item_branches EXCEPT
             ![calls[p].item][RowOf(p).attempt_number] = RunTipOf(p)]
        /\ Continue(p, [calls[p] EXCEPT !.pc = "prepare"])
        /\ UNCHANGED disk
     \/ /\ BranchOf(p) # NoHistory
        /\ Save(p, calls[p].copy, "done")
        /\ UNCHANGED item_branches
  /\ UNCHANGED <<run_branches, gates, adopted>>

RecordWorktree(p) ==
  /\ At(p, "prepare")
  /\ Save(p, Moved(p, "ST15", [RowOf(p) EXCEPT !.branch = RowOf(p).attempt_number]), "working")
  /\ UNCHANGED <<gates, git>>

\* The stages up to triage commit a change and have it reviewed.
Work(p) ==
  /\ At(p, "working")
  /\ item_branches' = [item_branches EXCEPT
       ![calls[p].item][RowOf(p).attempt_number] =
         Append(@, <<calls[p].item, RowOf(p).attempt_number>>)]
  /\ Save(p, Moved(p, "ST70", RowOf(p)), "reviewed")
  /\ UNCHANGED <<run_branches, gates, adopted>>

\* A stage fails, or triage escalates or blocks.
StopShort(p) ==
  /\ \/ At(p, "working") /\ Save(p, Moved(p, "ST140", RowOf(p)), "escalated")
     \/ At(p, "reviewed") /\ Save(p, Moved(p, "ST140", RowOf(p)), "escalated")
     \/ At(p, "reviewed") /\ Save(p, Moved(p, "ST120", RowOf(p)), "blocked")
  /\ UNCHANGED <<gates, git>>

\* The outcome is saved after the state.
RecordStop(p) ==
  /\ \/ /\ At(p, "escalated")
        /\ Save(p, Moved(p, "ST140", [RowOf(p) EXCEPT !.terminal_state = "escalated"]), "done")
     \/ /\ At(p, "blocked")
        /\ Save(p, Moved(p, "ST120", [RowOf(p) EXCEPT !.terminal_state = "blocked_external"]),
                "done")
  /\ UNCHANGED <<gates, git>>

-----------------------------------------------------------------------------
(* fast_forward_run_branch_to_ref *)

\* The check: the run branch, as read, is an ancestor of the commit to land.
\* Otherwise git refuses.
ReadRunTip(p, commit, pc) ==
  IF IsPrefix(RunTipOf(p), commit)
  THEN Continue(p, [calls[p] EXCEPT !.tip = RunTipOf(p), !.pc = pc]) /\ UNCHANGED disk
  ELSE IF pc = "landing"
  THEN Save(p, calls[p].copy, "done")
  ELSE Return(p) /\ UNCHANGED disk

UpdateRef_slip(p, commit, pc) ==
  /\ run_branches' = [run_branches EXCEPT ![calls[p].copy.run_branch] = commit]
  /\ Continue(p, [calls[p] EXCEPT !.pc = pc])
  /\ UNCHANGED disk

\* update-ref moves the branch only from where it was seen.
UpdateRef(p, commit, pc) ==
  IF RunTipOf(p) = calls[p].tip
  THEN /\ run_branches' = [run_branches EXCEPT ![calls[p].copy.run_branch] = commit]
       /\ Continue(p, [calls[p] EXCEPT !.pc = pc])
       /\ UNCHANGED disk
  ELSE /\ IF pc = "landed" THEN Save(p, calls[p].copy, "done")
                           ELSE Return(p) /\ UNCHANGED disk
       /\ UNCHANGED run_branches

-----------------------------------------------------------------------------
(* _finalize_pass and _terminal_awaiting_human_gate *)

StartLanding_slip(p) ==
  /\ At(p, "reviewed")
  /\ ReadRunTip(p, BranchOf(p), "landing")
  /\ UNCHANGED <<gates, git>>

StartLanding(p) ==
  /\ At(p, "reviewed") /\ calls[p].item \notin GateRequired
  /\ ReadRunTip(p, BranchOf(p), "landing")
  /\ UNCHANGED <<gates, git>>

Land(p) ==
  /\ At(p, "landing")
  /\ UpdateRef(p, BranchOf(p), "landed")
  /\ UNCHANGED <<gates, item_branches, adopted>>

EnterPassed(p) ==
  /\ At(p, "landed") /\ calls[p].copy.current_state # "ST130"
  /\ Save(p, Moved(p, "ST130", RowOf(p)), "landed")
  /\ UNCHANGED <<gates, git>>

\* The pass is saved, and the next item selected if the call is to go on.
RecordPass(p) ==
  /\ At(p, "landed") /\ calls[p].copy.current_state = "ST130"
  /\ LET done == Moved(p, "ST130", [RowOf(p) EXCEPT !.terminal_state = "passed"])
         next == {i \in Items : FirstUnfinished(i, done.items)}
     IN  IF calls[p].auto /\ next # {}
         THEN /\ disk' = done
              /\ \E i \in next : Continue(p, [calls[p] EXCEPT
                   !.copy = done, !.item = i, !.evidence = FALSE, !.tip = NoHistory,
                   !.pc = "select"])
         ELSE Save(p, done, "done")
  /\ UNCHANGED <<gates, git>>

EnterGate(p) ==
  /\ At(p, "reviewed") /\ calls[p].item \in GateRequired
  /\ Save(p, Moved(p, "ST110", RowOf(p)), "gated")
  /\ UNCHANGED <<gates, git>>

WriteGate(p) ==
  /\ At(p, "gated")
  /\ LET a == RowOf(p).attempt_number
     IN  /\ gates' = [gates EXCEPT ![calls[p].item][a] = "pending"]
         /\ Save(p, Moved(p, "ST110", [RowOf(p) EXCEPT
                      !.terminal_state = "awaiting_human_gate", !.manual_gate = a]), "done")
  /\ UNCHANGED git

-----------------------------------------------------------------------------
(* mark_manual_gate: all in memory until the save at its end *)

MarkGate(p, i, outcome) ==
  /\ At(p, "idle")
  /\ disk.items[i].manual_gate # None
  /\ Continue(p, [Load(NoCall) EXCEPT !.pc = "marking", !.item = i, !.outcome = outcome])
  /\ UNCHANGED <<disk, gates, git>>

GateStatus(p) == gates[calls[p].item][RowOf(p).manual_gate]
GateCommit(p) == item_branches[calls[p].item][RowOf(p).manual_gate]

CheckPending_slip(p) ==
  /\ At(p, "marking")
  /\ Continue(p, [calls[p] EXCEPT !.pc = "marked"])
  /\ UNCHANGED <<disk, gates, git>>

CheckPending(p) ==
  /\ At(p, "marking")
  /\ IF GateStatus(p) = "pending" THEN Continue(p, [calls[p] EXCEPT !.pc = "marked"])
                                  ELSE Return(p)
  /\ UNCHANGED <<disk, gates, git>>

WriteDecision(p) ==
  /\ At(p, "marked")
  /\ gates' = [gates EXCEPT ![calls[p].item][RowOf(p).manual_gate] = calls[p].outcome]
  /\ Continue(p, [calls[p] EXCEPT !.pc = calls[p].outcome])
  /\ UNCHANGED <<disk, git>>

StartApproval(p) ==
  /\ At(p, "approved")
  /\ ReadRunTip(p, GateCommit(p), "approving")
  /\ UNCHANGED <<gates, git>>

LandApproved(p) ==
  /\ At(p, "approving")
  /\ UpdateRef(p, GateCommit(p), "accepted")
  /\ UNCHANGED <<gates, item_branches, adopted>>

\* A move that the copy's state refuses ends the command, with nothing saved.
RecordDecision(p, pc, state, outcome) ==
  /\ At(p, pc) /\ MayMove(p, state)
  /\ Save(p, Moved(p, state, [RowOf(p) EXCEPT !.terminal_state = outcome]), "done")
  /\ UNCHANGED <<gates, git>>

RecordApproval(p)  == RecordDecision(p, "accepted", "ST130", "passed")
RecordRejection(p) == RecordDecision(p, "rejected", "ST140", "escalated")

-----------------------------------------------------------------------------
(* refresh_run *)

RefreshRun(p) ==
  /\ At(p, "idle")
  /\ Continue(p, [Load(NoCall) EXCEPT !.pc = "retargeting"])
  /\ UNCHANGED <<disk, gates, git>>

\* What a ref may name: a commit of some branch, or one from outside on top of it.
Branches == ToSet(run_branches) \cup {item_branches[i][a] : i \in Items, a \in Attempts}
Refs ==
  LET known == UNION {{SubSeq(h, 1, n) : n \in 1..Len(h)} : h \in Branches}
  IN  known \cup {Append(h, <<None, Len(run_branches)>>) : h \in known}

\* Any ref of which the run branch, as it is, is an ancestor will do.
ChooseTarget(p) ==
  /\ At(p, "retargeting")
  /\ \E target \in Refs :
       /\ IsPrefix(RunTipOf(p), target)
       /\ Continue(p, [calls[p] EXCEPT !.target = target, !.tip = RunTipOf(p),
                                       !.pc = "naming"])
  /\ UNCHANGED <<disk, gates, git>>

\* The new branch gets the first name that is free.
FindName(p) ==
  /\ At(p, "naming")
  /\ Len(run_branches) <= MaxRefreshes
  /\ Continue(p, [calls[p] EXCEPT !.item = None, !.pc = "branching",
                                  !.copy.run_branch = Len(run_branches) + 1])
  /\ UNCHANGED <<disk, gates, git>>

\* git branch refuses a name that another refresh took meanwhile.
CreateBranch(p) ==
  /\ At(p, "branching")
  /\ IF calls[p].copy.run_branch = Len(run_branches) + 1
     THEN /\ run_branches' = Append(run_branches, calls[p].target)
          /\ adopted' = adopted \cup
               ToSet(SubSeq(calls[p].target, Len(calls[p].tip) + 1, Len(calls[p].target)))
          /\ Continue(p, [calls[p] EXCEPT !.pc = "refreshed"])
     ELSE Return(p) /\ UNCHANGED <<run_branches, adopted>>
  /\ UNCHANGED <<disk, item_branches, gates>>

RecordRefresh(p) ==
  /\ At(p, "refreshed")
  /\ Save(p, calls[p].copy, "done")
  /\ UNCHANGED <<gates, git>>

-----------------------------------------------------------------------------
Attempt(p) == \/ Reset(p) \/ Select(p) \/ BlockWithoutEvidence(p) \/ AddWorktree(p)
              \/ RecordWorktree(p) \/ Work(p) \/ StopShort(p) \/ RecordStop(p)
              \/ StartLanding(p) \/ Land(p) \/ EnterPassed(p) \/ RecordPass(p)
              \/ EnterGate(p) \/ WriteGate(p)
Decision(p) == \/ CheckPending(p) \/ WriteDecision(p) \/ StartApproval(p)
               \/ LandApproved(p) \/ RecordApproval(p) \/ RecordRejection(p)
Refresh(p) == \/ RefreshRun(p) \/ ChooseTarget(p) \/ FindName(p) \/ CreateBranch(p)
              \/ RecordRefresh(p)

Next ==
  \E p \in Callers :
    \/ \E evidence, auto \in BOOLEAN : Resume(p, evidence, auto)
    \/ \E i \in Items, outcome \in {"approved", "rejected"} : MarkGate(p, i, outcome)
    \/ Attempt(p) \/ Decision(p) \/ Refresh(p)

Spec == Init /\ [][Next]_vars

-----------------------------------------------------------------------------
(* Properties *)

\* The shapes of the file, of git and of the commands, and a copy names a run
\* branch that exists unless it is just creating it.
TypeOK ==
  /\ disk \in RunState /\ disk.run_branch <= Len(run_branches)
  /\ gates \in [Items -> [Attempts -> {"absent", "pending", "approved", "rejected"}]]
  /\ \A b \in 1..Len(run_branches) : run_branches[b] \in Seq(Commits)
  /\ item_branches \in [Items -> [Attempts -> Seq(Commits)]]
  /\ adopted \in SUBSET Commits
  /\ \A p \in Callers :
       /\ calls[p].pc \in PCs /\ calls[p].copy \in RunState /\ calls[p].item \in 0..NumItems
       /\ calls[p].pc # "branching" => calls[p].copy.run_branch <= Len(run_branches)

InAttempt == {"prepare", "working", "reviewed", "landing", "landed", "gated"}

\* Two commands never work in one attempt's worktree, though both may have
\* selected it from the same file (prepare_item_worktree).
OneWorkerPerAttempt ==
  \A p, q \in Callers :
    p # q /\ calls[p].pc \in InAttempt /\ calls[q].pc \in InAttempt =>
      <<calls[p].item, RowOf(p).attempt_number>> # <<calls[q].item, RowOf(q).attempt_number>>

\* What a run state calls passed is on the run branch it names: in the file,
\* whoever saved last, and in every command's copy.  A save of single fields
\* would not keep this.
PassedIsLanded ==
  \A state \in {disk} \cup {calls[p].copy : p \in {q \in Callers : ~At(q, "branching")}} :
    \A i \in Passed(state) :
      <<i, state.items[i].attempt_number>> \in ToSet(run_branches[state.run_branch])

\* Nothing of a gated item is on a run branch, refreshed or not, or beneath the
\* work of another attempt, before its own gate was decided, but for what a refresh
\* put there: create_run_refresh_branch() asks nothing of a descendant.  Two
\* decisions at once may still end with the one recorded that did not land it.
GateGuardsLanding ==
  LET settled(c) == c[1] \in GateRequired =>
                      gates[c[1]][c[2]] \in {"approved", "rejected"}
  IN  /\ \A b \in 1..Len(run_branches) :
           \A c \in ToSet(run_branches[b]) \ adopted : settled(c)
      /\ \A i \in Items, a \in Attempts :
           \A c \in ToSet(item_branches[i][a]) \ adopted : c = <<i, a>> \/ settled(c)

\* However commands race, a run branch is never moved back or sideways.
RunBranchesOnlyGrow ==
  [][\A b \in 1..Len(run_branches) : IsPrefix(run_branches[b], run_branches'[b])]_vars

\* Once its gate record is written nobody works at an attempt any more: what an
\* approval lands is what was put before the human.
ReviewedStays ==
  [][\A i \in Items, a \in Attempts :
       gates[i][a] # "absent" => item_branches'[i][a] = item_branches[i][a]]_vars

\* A pass is erased from the file only by a command that had loaded the file
\* before the pass was saved.
PassErasedOnlyByStaleCopy ==
  [][\A i \in Passed(disk) \ Passed(disk') :
       \E p \in Callers : calls'[p] # calls[p] /\ i \notin calls[p].knew]_vars

=============================================================================
