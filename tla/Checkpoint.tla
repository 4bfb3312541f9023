------------------------------ MODULE Checkpoint ------------------------------
(***************************************************************************)
(* The worktree of an item's attempt and the commits on its branch, round   *)
(* after round: git_checkpoint.py, the scope and authority checks that       *)
(* _run_mutation_stage makes around the verification, and what is landed of  *)
(* the branch in the end.                                                    *)
(*                                                                         *)
(* Beside the orchestrator three others write to the worktree: the agent of  *)
(* a mutation stage, the verification's commands, and whatever process one   *)
(* of these left behind, which a timeout does not reach: only the child      *)
(* itself is killed.  Each may also use git, though the prompts ask the       *)
(* agent not to.  No change is undone, so that a diff shows what the commits *)
(* in between changed.                                                        *)
(***************************************************************************)
EXTENDS Naturals, Sequences, FiniteSets

CONSTANTS
  Paths,
  Allowed,     \* paths within the item's allowed_write_roots
  Forbidden,   \* paths within FORBIDDEN_ROOTS
  Ignored,     \* paths within IGNORED_CACHE_ROOTS
  NoPath,
  MaxRounds,   \* fix and remediation rounds
  MaxChanges   \* bound: changes made in all

ASSUME PathAssumption ==
  /\ Allowed \subseteq Paths /\ Forbidden \subseteq Paths /\ Ignored \subseteq Paths
  /\ NoPath \notin Paths
  /\ MaxRounds \in Nat /\ MaxChanges \in Nat

VARIABLES
  branch,      \* commits on the item's branch past its base
  index,       \* changes staged in the worktree
  dirty,       \* changes not staged
  previous_ref, checkpoint_ref, \* lengths of branch
  scope_failed,\* scope_check of the verification report
  gate_ref,    \* checkpoint_ref of the gate record, when one waits
  run_branch,  \* how much of branch has landed
  straggler,   \* a process of an earlier stage is alive
  round, pc

refs == <<previous_ref, checkpoint_ref, scope_failed, gate_ref, run_branch>>
vars == <<branch, index, dirty, refs, straggler, round, pc>>

-----------------------------------------------------------------------------
(* Data *)

\* A change of a path; a rename, which git records from the index, has a source.
Change  == [path : Paths, source : Paths \cup {NoPath}]
Writers == {"agent", "command", "straggler"}
Commit  == [changes : SUBSET Change, by : Writers \cup {"orchestrator"}]

\* What git status and git diff --name-only print of changes: of a rename the new
\* name.
Shown(changes) == {c.path : c \in changes}

ChangesBetween(base, target) ==
  UNION {branch[n].changes : n \in (base + 1)..target}

\* classify_scope_paths.
ForbiddenPaths(paths) == paths \cap Forbidden
ScopeViolations(paths) == paths \ (Allowed \cup Ignored)

InScope(paths) == ForbiddenPaths(paths) = {} /\ ScopeViolations(paths) = {}

AllChanges == dirty \cup index \cup ChangesBetween(0, Len(branch))

-----------------------------------------------------------------------------
(* Who writes to the worktree *)

Active(who) ==
  \/ who = "agent" /\ pc = "mutation"
  \/ who = "command" /\ pc = "verifying"
  \/ who = "straggler" /\ straggler

Edit(who) ==
  /\ Active(who)
  /\ Cardinality(AllChanges) < MaxChanges
  /\ \E c \in Change :
       /\ c.source # c.path /\ c \notin AllChanges
       /\ IF c.source = NoPath
          THEN dirty' = dirty \cup {c} /\ UNCHANGED index
          ELSE index' = index \cup {c} /\ UNCHANGED dirty
  /\ UNCHANGED <<branch, refs, straggler, round, pc>>

\* git commit -a.
CommitBy(who) ==
  /\ Active(who)
  /\ index \cup dirty # {}
  /\ branch' = Append(branch, [changes |-> index \cup dirty, by |-> who])
  /\ index' = {} /\ dirty' = {}
  /\ UNCHANGED <<refs, straggler, round, pc>>

\* A stage ends, or is killed by its timeout, without its children.
LeaveStraggler ==
  /\ pc \in {"mutation", "verifying"} /\ ~straggler
  /\ straggler' = TRUE
  /\ UNCHANGED <<branch, index, dirty, refs, round, pc>>

StragglerEnds ==
  /\ straggler /\ straggler' = FALSE
  /\ UNCHANGED <<branch, index, dirty, refs, round, pc>>

-----------------------------------------------------------------------------
(* _run_mutation_stage *)

Goto(from, to) == pc = from /\ pc' = to

Init ==
  /\ branch = <<>> /\ index = {} /\ dirty = {}
  /\ previous_ref = 0 /\ checkpoint_ref = 0 /\ scope_failed = FALSE
  /\ gate_ref = 0 /\ run_branch = 0
  /\ straggler = FALSE /\ round = 0 /\ pc = "mutation"

StageReports ==
  /\ Goto("mutation", "staging")
  /\ UNCHANGED <<branch, index, dirty, refs, straggler, round>>

\* stage_allowed_changes: a path out of scope ends the attempt.
RefuseChanges ==
  /\ Goto("staging", "escalated")
  /\ ~InScope(Shown(index \cup dirty))
  /\ UNCHANGED <<branch, index, dirty, refs, straggler, round>>

StageAllowedChanges ==
  /\ Goto("staging", "committing")
  /\ InScope(Shown(index \cup dirty))
  /\ LET stageable == {c \in dirty : c.path \notin Ignored}
     IN  index' = index \cup stageable /\ dirty' = dirty \ stageable
  /\ UNCHANGED <<branch, refs, straggler, round>>

\* create_checkpoint_commit: HEAD is the checkpoint, whoever committed last.
CreateCheckpoint ==
  /\ Goto("committing", "verifying")
  /\ branch' = IF index = {} THEN branch
               ELSE Append(branch, [changes |-> index, by |-> "orchestrator"])
  /\ index' = {}
  /\ checkpoint_ref' = Len(branch')
  /\ UNCHANGED <<dirty, previous_ref, scope_failed, gate_ref, run_branch, straggler,
                 round>>

\* run_verification has run its commands: what this round committed is checked.
ScopeCheck ==
  /\ Goto("verifying", "verified")
  /\ scope_failed' = ~InScope(Shown(ChangesBetween(previous_ref, checkpoint_ref)))
  /\ UNCHANGED <<branch, index, dirty, previous_ref, checkpoint_ref, gate_ref, run_branch,
                 straggler, round>>

\* collect_post_checkpoint_authority_violations.
AuthorityViolated == checkpoint_ref # Len(branch) \/ index \cup dirty # {}

RefuseCheckpoint ==
  /\ Goto("verified", "escalated")
  /\ AuthorityViolated \/ scope_failed
  /\ UNCHANGED <<branch, index, dirty, refs, straggler, round>>

AcceptCheckpoint_slip ==
  /\ Goto("verified", "audit")
  /\ ~scope_failed
  /\ UNCHANGED <<branch, index, dirty, refs, straggler, round>>

AcceptCheckpoint ==
  /\ Goto("verified", "audit")
  /\ ~AuthorityViolated /\ ~scope_failed
  /\ UNCHANGED <<branch, index, dirty, refs, straggler, round>>

-----------------------------------------------------------------------------
(* _run_item_attempt, once the checkpoint is audited and triaged *)

NextRound_slip ==
  /\ Goto("audit", "mutation")
  /\ round < MaxRounds
  /\ round' = round + 1
  /\ previous_ref' = Len(branch)
  /\ UNCHANGED <<branch, index, dirty, checkpoint_ref, scope_failed, gate_ref, run_branch,
                 straggler>>

\* previous_ref of the next round is what _run_mutation_stage returned.
NextRound ==
  /\ Goto("audit", "mutation")
  /\ round < MaxRounds
  /\ round' = round + 1
  /\ previous_ref' = checkpoint_ref
  /\ UNCHANGED <<branch, index, dirty, checkpoint_ref, scope_failed, gate_ref, run_branch,
                 straggler>>

\* _finalize_pass fast-forwards to the tip of the item's branch.
FinalizePass ==
  /\ Goto("audit", "passed")
  /\ run_branch' = Len(branch)
  /\ UNCHANGED <<branch, index, dirty, previous_ref, checkpoint_ref, scope_failed,
                 gate_ref, straggler, round>>

AwaitGate ==
  /\ Goto("audit", "awaiting_human_gate")
  /\ gate_ref' = checkpoint_ref
  /\ UNCHANGED <<branch, index, dirty, previous_ref, checkpoint_ref, scope_failed,
                 run_branch, straggler, round>>

\* mark_manual_gate fast-forwards to the commit the record names.
Approve ==
  /\ Goto("awaiting_human_gate", "passed")
  /\ run_branch' = gate_ref
  /\ UNCHANGED <<branch, index, dirty, previous_ref, checkpoint_ref, scope_failed,
                 gate_ref, straggler, round>>

\* Blocked, escalated, rejected, or a stage failed.
EndAttempt ==
  /\ pc \in {"mutation", "verifying", "audit", "awaiting_human_gate"}
  /\ pc' = "escalated"
  /\ UNCHANGED <<branch, index, dirty, refs, straggler, round>>

Next ==
  \/ \E who \in Writers : Edit(who) \/ CommitBy(who)
  \/ LeaveStraggler \/ StragglerEnds
  \/ StageReports \/ RefuseChanges \/ StageAllowedChanges \/ CreateCheckpoint
  \/ ScopeCheck \/ RefuseCheckpoint \/ AcceptCheckpoint
  \/ NextRound \/ FinalizePass \/ AwaitGate \/ Approve \/ EndAttempt

Spec == Init /\ [][Next]_vars

-----------------------------------------------------------------------------
(* Properties *)

PCs == {"mutation", "staging", "committing", "verifying", "verified", "audit",
        "passed", "awaiting_human_gate", "escalated"}

\* Refs name commits of the branch, and each is of its place in the round.
TypeOK ==
  /\ branch \in Seq(Commit) /\ index \subseteq Change /\ dirty \subseteq Change
  /\ previous_ref \in 0..checkpoint_ref /\ checkpoint_ref \in 0..Len(branch)
  /\ gate_ref \in 0..checkpoint_ref /\ run_branch \in 0..Len(branch)
  /\ scope_failed \in BOOLEAN /\ straggler \in BOOLEAN
  /\ round \in 0..MaxRounds /\ pc \in PCs

\* Out of what landed, only what a process left behind committed after the last
\* check is not part of the checkpoint that was verified and audited; whoever else
\* committed, agent or command, had it checked or the attempt ended
\* (collect_post_checkpoint_authority_violations, _finalize_pass).  What a human
\* approves is the checkpoint, even if the branch went on meanwhile.
LandedWasReviewed ==
  /\ \A n \in (checkpoint_ref + 1)..run_branch : branch[n].by = "straggler"
  /\ pc = "passed" /\ gate_ref # 0 => run_branch = checkpoint_ref

\* Nothing of the landed checkpoint is out of scope, over all rounds, commits made
\* behind the orchestrator's back between two of them included
\* (scope_check_for_committed_changes).  Of a rename it is the new name that
\* counts: git does not show the other.
LandedInScope ==
  pc = "passed" =>
    InScope(Shown(UNION {branch[n].changes : n \in 1..(IF run_branch < checkpoint_ref
                                                       THEN run_branch
                                                       ELSE checkpoint_ref)}))

=============================================================================
