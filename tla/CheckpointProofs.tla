--------------------------- MODULE CheckpointProofs ---------------------------
(***************************************************************************)
(* Proofs about Checkpoint, for any paths, any roots and any number of      *)
(* rounds and changes.  The invariant says who may have committed past the  *)
(* checkpoint at each place of a round, and which part of the branch has    *)
(* passed the scope check there.                                             *)
(***************************************************************************)
EXTENDS Checkpoint, TLAPS

\* The checkpoint was accepted and no later round has begun.
Accepted == pc \in {"audit", "awaiting_human_gate", "passed"}

\* Past an accepted checkpoint only what was left behind commits.
TipInv ==
  Accepted => \A n \in (checkpoint_ref + 1)..Len(branch) : branch[n].by = "straggler"

\* Nothing lands before the pass; a gate names the checkpoint it waits with.
LandInv ==
  /\ pc # "passed" => run_branch = 0
  /\ pc \notin {"awaiting_human_gate", "passed", "escalated"} => gate_ref = 0
  /\ pc = "awaiting_human_gate" => gate_ref = checkpoint_ref
  /\ pc = "passed" /\ gate_ref # 0 => run_branch = checkpoint_ref

ScopedUpTo(last) == \A n \in 1..last : InScope(Shown(branch[n].changes))

\* Earlier rounds were in scope; so is this one once it is accepted.
ScopeInv ==
  /\ ScopedUpTo(previous_ref)
  /\ pc = "verified" /\ ~scope_failed => ScopedUpTo(checkpoint_ref)
  /\ Accepted => ScopedUpTo(checkpoint_ref)

IInv == TypeOK /\ TipInv /\ LandInv /\ ScopeInv

-----------------------------------------------------------------------------
\* A set of changes is in scope exactly when each of its parts is.
LEMMA ScopeOfUnion ==
  ASSUME NEW S
  PROVE  InScope(Shown(UNION S)) <=> \A changes \in S : InScope(Shown(changes))
<1>1. ASSUME InScope(Shown(UNION S)), NEW changes \in S
      PROVE  InScope(Shown(changes))
  <2>1. Shown(changes) \subseteq Shown(UNION S)
    BY DEF Shown
  <2> QED
    BY <1>1, <2>1 DEF InScope, ForbiddenPaths, ScopeViolations
<1>2. ASSUME \A changes \in S : InScope(Shown(changes))
      PROVE  InScope(Shown(UNION S))
  <2>1. \A p \in Shown(UNION S) : \E changes \in S : p \in Shown(changes)
    BY DEF Shown
  <2>2. \A p \in Shown(UNION S) : p \notin Forbidden /\ p \in Allowed \cup Ignored
    BY <1>2, <2>1 DEF InScope, ForbiddenPaths, ScopeViolations
  <2> QED
    BY <2>2 DEF InScope, ForbiddenPaths, ScopeViolations
<1> QED
  BY <1>1, <1>2

\* The diff of two commits is in scope exactly when each commit between them is.
LEMMA ScopeBetween ==
  ASSUME NEW base, NEW target
  PROVE  InScope(Shown(ChangesBetween(base, target))) <=>
           \A n \in (base + 1)..target : InScope(Shown(branch[n].changes))
<1> DEFINE parts == {branch[n].changes : n \in (base + 1)..target}
<1>1. InScope(Shown(UNION parts)) <=> \A changes \in parts : InScope(Shown(changes))
  BY ScopeOfUnion
<1>2. (\A changes \in parts : InScope(Shown(changes))) <=>
        \A n \in (base + 1)..target : InScope(Shown(branch[n].changes))
  OBVIOUS
<1> QED
  BY <1>1, <1>2 DEF ChangesBetween

\* What one adds to a branch leaves what is there.
LEMMA BranchGrows ==
  ASSUME branch \in Seq(Commit), NEW c \in Commit, branch' = Append(branch, c)
  PROVE  /\ branch' \in Seq(Commit) /\ Len(branch') = Len(branch) + 1
         /\ \A n \in 1..Len(branch) : branch'[n] = branch[n]
         /\ branch'[Len(branch) + 1] = c
  OBVIOUS

-----------------------------------------------------------------------------
LEMMA InitInv == Init => IInv
<1> SUFFICES ASSUME Init PROVE IInv
  OBVIOUS
<1>1. TypeOK
  <2>1. branch \in Seq(Commit) /\ Len(branch) = 0
    BY DEF Init
  <2>2. round \in 0..MaxRounds
    BY PathAssumption DEF Init
  <2>3. /\ index \subseteq Change /\ dirty \subseteq Change
        /\ scope_failed \in BOOLEAN /\ straggler \in BOOLEAN /\ pc \in PCs
    BY DEF Init, PCs
  <2>4. /\ previous_ref \in 0..checkpoint_ref /\ gate_ref \in 0..checkpoint_ref
        /\ checkpoint_ref \in 0..Len(branch) /\ run_branch \in 0..Len(branch)
    BY <2>1 DEF Init
  <2> QED
    BY <2>1, <2>2, <2>3, <2>4 DEF TypeOK
<1> QED
  BY <1>1 DEF Init, IInv, TipInv, LandInv, ScopeInv, ScopedUpTo, Accepted

\* An edit touches neither the branch nor the refs.
LEMMA WorktreeStep ==
  ASSUME IInv, index' \subseteq Change, dirty' \subseteq Change,
         UNCHANGED <<branch, refs, round, pc>>, straggler' \in BOOLEAN
  PROVE  IInv'
  BY DEF IInv, TypeOK, TipInv, LandInv, ScopeInv, ScopedUpTo, Accepted, refs, PCs,
         Change, Commit, InScope, Shown, ForbiddenPaths, ScopeViolations

\* A commit by another than the orchestrator is past the checkpoint; whose it is
\* follows from where the round is.
LEMMA CommitStep ==
  ASSUME IInv, NEW who \in Writers, CommitBy(who)
  PROVE  IInv'
<1> DEFINE c == [changes |-> index \cup dirty, by |-> who]
<1>1. TypeOK
  BY DEF IInv
<1>2. c \in Commit
  BY <1>1 DEF Commit, TypeOK
<1>3. branch' = Append(branch, c) /\ UNCHANGED <<refs, straggler, round, pc>>
      /\ index' = {} /\ dirty' = {}
  BY DEF CommitBy
<1>4. /\ branch' \in Seq(Commit) /\ Len(branch') = Len(branch) + 1
      /\ \A n \in 1..Len(branch) : branch'[n] = branch[n]
      /\ branch'[Len(branch) + 1] = c
  BY <1>1, <1>2, <1>3, BranchGrows DEF TypeOK
<1>5. Len(branch) \in Nat /\ checkpoint_ref \in 0..Len(branch)
      /\ previous_ref \in 0..checkpoint_ref
  BY <1>1 DEF TypeOK
<1>6. TypeOK'
  BY <1>1, <1>3, <1>4, <1>5 DEF TypeOK, refs
<1>7. TipInv'
  <2>1. Accepted => who = "straggler"
    BY DEF CommitBy, Active, Accepted, Writers
  <2>2. Accepted' => Accepted /\ checkpoint_ref' = checkpoint_ref
    BY <1>3 DEF Accepted, refs
  <2> QED
    BY <1>4, <1>5, <2>1, <2>2 DEF IInv, TipInv
<1>8. LandInv'
  BY <1>3 DEF IInv, LandInv, refs
<1>9. ScopeInv'
  <2>1. \A last \in 0..Len(branch) : ScopedUpTo(last) => ScopedUpTo(last)'
    BY <1>4, <1>5 DEF ScopedUpTo, InScope, Shown, ForbiddenPaths, ScopeViolations
  <2>2. UNCHANGED <<previous_ref, checkpoint_ref, scope_failed, pc>>
    BY <1>3 DEF refs
  <2> QED
    BY <1>5, <2>1, <2>2 DEF IInv, ScopeInv, Accepted, ScopedUpTo
<1> QED
  BY <1>6, <1>7, <1>8, <1>9 DEF IInv
-----------------------------------------------------------------------------
\* Within a round nothing is committed once the orchestrator's commit is taken as
\* the checkpoint: the branch may grow, the refs not.
LEMMA CreateCheckpointStep == IInv /\ CreateCheckpoint => IInv'
<1> SUFFICES ASSUME IInv, CreateCheckpoint PROVE IInv'
  OBVIOUS
<1>1. TypeOK /\ pc = "committing" /\ pc' = "verifying"
  BY DEF IInv, CreateCheckpoint, Goto
<1>2. UNCHANGED <<dirty, previous_ref, scope_failed, gate_ref, run_branch, straggler, round>>
      /\ index' = {} /\ checkpoint_ref' = Len(branch')
  BY DEF CreateCheckpoint
<1> DEFINE c == [changes |-> index, by |-> "orchestrator"]
<1>3. /\ branch' \in Seq(Commit) /\ Len(branch') \in Nat
      /\ Len(branch) <= Len(branch')
      /\ \A n \in 1..Len(branch) : branch'[n] = branch[n]
  <2>1. CASE index = {}
    BY <1>1, <2>1 DEF CreateCheckpoint, TypeOK
  <2>2. CASE index # {}
    <3>1. branch' = Append(branch, c)
      BY <2>2 DEF CreateCheckpoint
    <3>2. c \in Commit
      BY <1>1 DEF Commit, TypeOK
    <3> QED
      BY <1>1, <3>1, <3>2, BranchGrows DEF TypeOK
  <2> QED
    BY <2>1, <2>2
<1>4. Len(branch) \in Nat /\ checkpoint_ref \in 0..Len(branch)
      /\ previous_ref \in 0..checkpoint_ref
  BY <1>1 DEF TypeOK
<1>5. TypeOK'
  <2>1. gate_ref \in 0..checkpoint_ref /\ run_branch \in 0..Len(branch)
    BY <1>1 DEF TypeOK
  <2>2. previous_ref' \in 0..checkpoint_ref' /\ checkpoint_ref' \in 0..Len(branch')
        /\ gate_ref' \in 0..checkpoint_ref' /\ run_branch' \in 0..Len(branch')
    BY <1>2, <1>3, <1>4, <2>1
  <2> QED
    BY <1>1, <1>2, <1>3, <2>2 DEF TypeOK, PCs
<1>6. TipInv' /\ LandInv'
  BY <1>1, <1>2 DEF IInv, TipInv, LandInv, Accepted
<1>7. ScopeInv'
  <2>1. ScopedUpTo(previous_ref) => ScopedUpTo(previous_ref)'
    BY <1>2, <1>3, <1>4 DEF ScopedUpTo, InScope, Shown, ForbiddenPaths, ScopeViolations
  <2> QED
    BY <1>1, <2>1 DEF IInv, ScopeInv, Accepted
<1> QED
  BY <1>5, <1>6, <1>7 DEF IInv

\* The check covers what was committed since the last round's checkpoint.
LEMMA ScopeCheckStep == IInv /\ ScopeCheck => IInv'
<1> SUFFICES ASSUME IInv, ScopeCheck PROVE IInv'
  OBVIOUS
<1>1. TypeOK /\ ScopedUpTo(previous_ref)
  BY DEF IInv, ScopeInv
<1>2. /\ pc = "verifying" /\ pc' = "verified"
      /\ UNCHANGED <<branch, index, dirty, previous_ref, checkpoint_ref, gate_ref,
                     run_branch, straggler, round>>
  BY DEF ScopeCheck, Goto
<1>3. TypeOK'
  <2>1. scope_failed' \in BOOLEAN
    BY DEF ScopeCheck
  <2> QED
    BY <1>1, <1>2, <2>1 DEF TypeOK, PCs
<1>4. TipInv' /\ LandInv'
  BY <1>2 DEF IInv, TipInv, LandInv, Accepted
<1>5. ~scope_failed' => ScopedUpTo(checkpoint_ref)
  <2> SUFFICES ASSUME ~scope_failed' PROVE ScopedUpTo(checkpoint_ref)
    OBVIOUS
  <2>1. InScope(Shown(ChangesBetween(previous_ref, checkpoint_ref)))
    BY DEF ScopeCheck
  <2>2. \A n \in (previous_ref + 1)..checkpoint_ref : InScope(Shown(branch[n].changes))
    BY <2>1, ScopeBetween
  <2> QED
    BY <1>1, <2>2 DEF ScopedUpTo, TypeOK
<1>6. ScopeInv'
  <2>1. \A last : ScopedUpTo(last)' <=> ScopedUpTo(last)
    BY <1>2 DEF ScopedUpTo, InScope, Shown, ForbiddenPaths, ScopeViolations
  <2> QED
    BY <1>1, <1>2, <1>5, <2>1 DEF ScopeInv, Accepted, ScopedUpTo
<1> QED
  BY <1>3, <1>4, <1>6 DEF IInv

\* Accepted is only the tip of the branch, so nothing is past it yet.
LEMMA AcceptCheckpointStep == IInv /\ AcceptCheckpoint => IInv'
<1> SUFFICES ASSUME IInv, AcceptCheckpoint PROVE IInv'
  OBVIOUS
<1>1. /\ pc = "verified" /\ pc' = "audit" /\ ~scope_failed
      /\ checkpoint_ref = Len(branch)
      /\ UNCHANGED <<branch, index, dirty, refs, straggler, round>>
  BY DEF AcceptCheckpoint, Goto, AuthorityViolated
<1>2. TypeOK' /\ LandInv'
  BY <1>1 DEF IInv, TypeOK, LandInv, refs, PCs
<1>3. TipInv'
  <2>1. Len(branch) \in Nat
    BY DEF IInv, TypeOK
  <2> QED
    BY <1>1, <2>1 DEF TipInv, refs
<1>4. ScopeInv'
  BY <1>1 DEF IInv, ScopeInv, Accepted, ScopedUpTo, refs, InScope, Shown,
              ForbiddenPaths, ScopeViolations
<1> QED
  BY <1>2, <1>3, <1>4 DEF IInv

\* The steps to a place where nothing is accepted: nothing is asked there.
LEMMA LeaveStep ==
  IInv /\ (\/ StageReports \/ RefuseChanges \/ StageAllowedChanges
           \/ RefuseCheckpoint \/ EndAttempt) => IInv'
<1> SUFFICES ASSUME IInv, \/ StageReports \/ RefuseChanges \/ StageAllowedChanges
                          \/ RefuseCheckpoint \/ EndAttempt
             PROVE  IInv'
  OBVIOUS
<1>1. /\ UNCHANGED <<branch, refs, straggler, round>>
      /\ index' \subseteq index \cup dirty /\ dirty' \subseteq dirty
      /\ pc # "passed"
      /\ \/ pc' = "escalated"
         \/ pc = "mutation" /\ pc' = "staging"
         \/ pc = "staging" /\ pc' = "committing"
  BY DEF StageReports, RefuseChanges, StageAllowedChanges, RefuseCheckpoint, EndAttempt,
         Goto
<1>2. TypeOK'
  BY <1>1 DEF IInv, TypeOK, refs, PCs
<1>3. TipInv' /\ LandInv'
  BY <1>1 DEF IInv, TipInv, LandInv, Accepted, refs
<1>4. ScopeInv'
  BY <1>1 DEF IInv, ScopeInv, Accepted, ScopedUpTo, refs, InScope, Shown,
              ForbiddenPaths, ScopeViolations
<1> QED
  BY <1>2, <1>3, <1>4 DEF IInv

\* After the audit: the next round starts from an accepted checkpoint, the pass
\* lands the tip, the gate waits with the checkpoint and an approval lands it.
LEMMA AuditedStep ==
  IInv /\ (NextRound \/ FinalizePass \/ AwaitGate \/ Approve) => IInv'
<1> SUFFICES ASSUME IInv, NextRound \/ FinalizePass \/ AwaitGate \/ Approve
             PROVE  IInv'
  OBVIOUS
<1>1. /\ UNCHANGED <<branch, index, dirty, checkpoint_ref, scope_failed, straggler>>
      /\ Accepted
  BY DEF NextRound, FinalizePass, AwaitGate, Approve, Goto, Accepted
<1>2. \A last : ScopedUpTo(last)' <=> ScopedUpTo(last)
  BY <1>1 DEF ScopedUpTo, InScope, Shown, ForbiddenPaths, ScopeViolations
<1>3. ScopedUpTo(checkpoint_ref) /\ ScopedUpTo(previous_ref)
  BY <1>1 DEF IInv, ScopeInv
<1>4. \A n \in (checkpoint_ref + 1)..Len(branch) : branch[n].by = "straggler"
  BY <1>1 DEF IInv, TipInv
<1>5. previous_ref' \in {previous_ref, checkpoint_ref}
  BY DEF NextRound, FinalizePass, AwaitGate, Approve
<1>6. TipInv' /\ ScopeInv'
  <2>1. pc' # "verified"
    BY DEF NextRound, FinalizePass, AwaitGate, Approve, Goto
  <2> QED
    BY <1>1, <1>2, <1>3, <1>4, <1>5, <2>1 DEF TipInv, ScopeInv
<1>7. TypeOK' /\ LandInv'
  <2>1. TypeOK /\ LandInv /\ Len(branch) \in Nat /\ MaxRounds \in Nat
    BY PathAssumption DEF IInv, TypeOK
  <2>2. CASE NextRound
    BY <2>1, <2>2 DEF TypeOK, LandInv, PCs, NextRound, Goto
  <2>3. CASE FinalizePass
    BY <2>1, <2>3 DEF TypeOK, LandInv, PCs, FinalizePass, Goto
  <2>4. CASE AwaitGate
    BY <2>1, <2>4 DEF TypeOK, LandInv, PCs, AwaitGate, Goto
  <2>5. CASE Approve
    BY <2>1, <2>5 DEF TypeOK, LandInv, PCs, Approve, Goto
  <2> QED
    BY <2>2, <2>3, <2>4, <2>5
<1> QED
  BY <1>6, <1>7 DEF IInv

-----------------------------------------------------------------------------
LEMMA NextStep == IInv /\ [Next]_vars => IInv'
<1> SUFFICES ASSUME IInv, [Next]_vars PROVE IInv'
  OBVIOUS
<1>1. ASSUME NEW who \in Writers, Edit(who) PROVE IInv'
  <2>1. TypeOK
    BY DEF IInv
  <2>2. index' \subseteq Change /\ dirty' \subseteq Change
    BY <1>1, <2>1 DEF Edit, TypeOK
  <2>3. UNCHANGED <<branch, refs, straggler, round, pc>>
    BY <1>1 DEF Edit
  <2>4. straggler' \in BOOLEAN /\ UNCHANGED <<branch, refs, round, pc>>
    BY <2>1, <2>3 DEF TypeOK
  <2> QED
    BY <2>2, <2>4, WorktreeStep
<1>2. ASSUME NEW who \in Writers, CommitBy(who) PROVE IInv'
  BY <1>2, CommitStep
<1>3. CASE LeaveStraggler \/ StragglerEnds \/ UNCHANGED vars
  <2>1. TypeOK
    BY DEF IInv
  <2>2. UNCHANGED <<branch, index, dirty, refs, round, pc>> /\ straggler' \in BOOLEAN
    BY <1>3, <2>1 DEF LeaveStraggler, StragglerEnds, vars, TypeOK
  <2>3. index' \subseteq Change /\ dirty' \subseteq Change
    BY <2>1, <2>2 DEF TypeOK
  <2> QED
    BY <2>2, <2>3, WorktreeStep
<1> QED
  BY <1>1, <1>2, <1>3, CreateCheckpointStep, ScopeCheckStep, AcceptCheckpointStep,
     LeaveStep, AuditedStep DEF Next

THEOREM Invariance == Spec => []IInv
<1> QED
  BY InitInv, NextStep, PTL DEF Spec

\* The refs of a round name commits of the branch, the last checkpoint never
\* before the one the round started from.
THEOREM TypeCorrect == Spec => []TypeOK
<1>1. IInv => TypeOK
  BY DEF IInv
<1> QED
  BY <1>1, Invariance, PTL

\* What lands past the reviewed checkpoint was committed by a process a stage left
\* behind, and by nobody else; an approved gate lands the checkpoint itself
\* (collect_post_checkpoint_authority_violations, mark_manual_gate).
THEOREM ReviewedLands == Spec => []LandedWasReviewed
<1>1. IInv => LandedWasReviewed
  <2> SUFFICES ASSUME IInv PROVE LandedWasReviewed
    OBVIOUS
  <2>1. run_branch \in 0..Len(branch) /\ checkpoint_ref \in 0..Len(branch)
        /\ Len(branch) \in Nat
    BY DEF IInv, TypeOK
  <2>2. CASE pc = "passed"
    BY <2>1, <2>2 DEF IInv, TipInv, LandInv, Accepted, LandedWasReviewed
  <2>3. CASE pc # "passed"
    BY <2>1, <2>3 DEF IInv, LandInv, LandedWasReviewed
  <2> QED
    BY <2>2, <2>3
<1> QED
  BY <1>1, Invariance, PTL

\* The landed part of the reviewed branch is within the item's roots, whoever
\* committed it and in whichever round (scope_check_for_committed_changes checks
\* only the round's own commits).
THEOREM ScopeLands == Spec => []LandedInScope
<1>1. IInv => LandedInScope
  <2> SUFFICES ASSUME IInv, pc = "passed" PROVE LandedInScope
    BY DEF LandedInScope
  <2> DEFINE last == IF run_branch < checkpoint_ref THEN run_branch ELSE checkpoint_ref
  <2>1. ScopedUpTo(checkpoint_ref)
    BY DEF IInv, ScopeInv, Accepted
  <2>2. run_branch \in Nat /\ checkpoint_ref \in Nat
    BY DEF IInv, TypeOK
  <2>3. \A changes \in {branch[n].changes : n \in 1..last} : InScope(Shown(changes))
    BY <2>1, <2>2 DEF ScopedUpTo
  <2> QED
    BY <2>3, ScopeOfUnion DEF LandedInScope
<1> QED
  BY <1>1, Invariance, PTL
=============================================================================
