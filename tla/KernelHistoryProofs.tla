-------------------------- MODULE KernelHistoryProofs --------------------------
(***************************************************************************)
(* Theorems about what a run leaves on its branches: what lands was         *)
(* reviewed and approved, lands once and stays; attempts build on their     *)
(* prerequisites; git refuses nothing; a run is stranded only by a mishap;  *)
(* and the kernel implements the ledger.  Each invariant is strengthened by *)
(* what the process at work, and a process that died, leave true.           *)
(***************************************************************************)
EXTENDS KernelProofs, FiniteSetTheorems, WellFoundedInduction

-----------------------------------------------------------------------------
(* The invariants *)

\* From the worktree to the decision; from the selection to the decision.
BranchPCs == StagePCs \cup {"worktree", "prepared", "decide", "gating"}
EarlyPCs  == AttemptPCs \ {"landing", "passing"}

\* The state a run is in, where the process is.
StateInv ==
  /\ pc \in {"triaging", "decide", "landing"} => current_state = "ST70"
  /\ pc \in {"selected", "worktree"} => current_state = "ST10"
  /\ pc = "blocking" => current_state = "ST120"
  /\ pc = "escalating" => current_state = "ST140"
  /\ pc = "advance" => current_state = "ST130"
  /\ pc = "queue" => current_state # "ST110"
  /\ pc \in DecisionPCs =>
       /\ current_state = "ST110" /\ current_item_id = it
       /\ GateOf(it).status = IF pc = "gate_rejected" THEN "rejected" ELSE "approved"

\* The cycle that verified, audited and triaged is the attempt's present one,
\* as far as it has come; a row that waits or passed keeps it.
ReviewInv ==
  /\ \A i \in Items : items[i].manual_gate # None => i \in GateRequired
  /\ \A i \in Items :
       items[i].terminal_state \in {"awaiting_human_gate", "passed"} => Reviewed(i)
  /\ pc \in {"verified", "packet", "audit_codex", "audit_claude", "triaging",
             "decide", "gating", "landing", "passing"} =>
       row.verification_report = Cycle(it)
  /\ pc \in {"audit_claude", "triaging", "decide", "gating", "landing", "passing"} =>
       row.codex_audit_report = Cycle(it)
  /\ pc \in {"triaging", "decide", "gating", "landing", "passing"} =>
       row.claude_audit_report = Cycle(it)
  /\ pc \in {"decide", "gating", "landing", "passing"} =>
       row.triage_report = Cycle(it)
  /\ pc \in {"landing", "passing"} =>
       it \notin GateRequired /\ row.checkpoint_ref = Branch(it)

\* A number that is used up is known by its row: no branch and no gate record
\* has the number of an attempt to come.  Only a run that died between the
\* worktree and its record has a branch its row does not know, and it is stuck.
FreshInv ==
  /\ pc = "selected" => Branch(it) = NoHistory
  /\ pc \in BranchPCs \ {"worktree"} => row.branch # None
  /\ \A i \in Items :
       items[i].terminal_state = "awaiting_human_gate" => items[i].branch # None
  /\ \A i \in Items, a \in 1..MaxAttempts :
       item_branches[i][a] # NoHistory =>
         /\ a <= items[i].attempt_number
         /\ \/ a < items[i].attempt_number
            \/ items[i].branch # None \/ items[i].terminal_state # "none"
            \/ current_state = "ST10" /\ current_item_id = i /\ pc # "selected"
  /\ \A i \in Items, a \in 1..MaxAttempts :
       gates[i][a].status # "absent" =>
         /\ a <= items[i].attempt_number
         /\ a < items[i].attempt_number \/ items[i].terminal_state # "none"

\* An item set back for another call is not overtaken by a later one.
BehindInv ==
  \A i \in Items :
    items[i].terminal_state \in Resettable =>
      /\ current_item_id <= i
      /\ \A m \in 1..Len(call.queue) : call.queue[m] <= i

\* What an attempt adds to the history it started from is its own.
Own(h, i, a) ==
  \A n \in 1..Len(h) : n > Len(RunTip) => h[n][1] = i /\ h[n][2] = a

TipInv ==
  /\ RunTip # NoHistory
  /\ pc = "refreshing" => IsPrefix(RunTip, run_branches[Len(run_branches)])
  /\ pc \in BranchPCs => IsPrefix(RunTip, Branch(it)) /\ Own(Branch(it), it, row.attempt_number)
  /\ \A i \in Items :
       items[i].terminal_state = "awaiting_human_gate" =>
         Own(items[i].checkpoint_ref, i, items[i].attempt_number)
  /\ pc \in {"landing", "passing"} => RunTip = row.checkpoint_ref
  /\ pc = "gate_landed" => RunTip = row.checkpoint_ref

\* The commits of any branch are of attempts the rows know, and what an attempt
\* starts from holds none of its own.
CommitInv ==
  /\ \A h \in Branches : \A c \in ToSet(h) :
       c[1] \in Items =>
         /\ items[c[1]].branch # None
         /\ c[2] >= 1 /\ c[2] <= items[c[1]].attempt_number
  /\ \A c \in ToSet(RunTip) :
       c[1] \in Items /\ pc \in EarlyPCs /\ c[1] = it =>
         c[2] < items[c[1]].attempt_number

\* An attempt starts from a run branch that holds its prerequisites.
BuildInv ==
  /\ pc = "selected" => PrerequisitesSatisfied(Prerequisites[it], items)
  /\ \A i \in Items, a \in 1..MaxAttempts :
       item_branches[i][a] # NoHistory =>
         \A j \in Prerequisites[i] :
           /\ j \in Items /\ items[j].terminal_state = "passed"
           /\ IsPrefix(items[j].checkpoint_ref, item_branches[i][a])

\* An item that landed passed, is about to, or is where the run is stuck: its
\* process died before the save of ST130, or before a decision's.
OnItsWay(j) ==
  \/ items[j].terminal_state = "passed"
  \/ pc = "passing" /\ it = j
  \/ /\ current_item_id = j /\ current_state = "ST70"
     /\ pc \notin EarlyPCs /\ items[j].terminal_state = "none"
  \/ /\ current_item_id = j /\ current_state = "ST110"
     /\ items[j].terminal_state = "awaiting_human_gate"
     /\ GateOf(j).status = "approved" /\ pc # "gate_approved"

\* A process that dies before the outcome of an item is saved lets it land again.
OnceInv ==
  "passing" \notin mishaps =>
    /\ \A c, d \in ToSet(RunTip) \ adopted :
         c[1] \in Items /\ c[1] = d[1] => c[2] = d[2]
    /\ \A c \in ToSet(RunTip) \ adopted : c[1] \in Items => OnItsWay(c[1])

Stranded ==
  mishaps \cap (StrandingPCs \cup
    {"evidence_missing", "gate_invalid", "gate_unlandable"}) # {}

\* A queue is worked on from a state that a selection may leave.
ProceedInv ==
  /\ pc \in {"idle", "refreshing"} => CanProceed \/ Stranded
  /\ pc = "queue" => current_state \in {"ST05", "ST130"} \/ Stranded

HInv == /\ StateInv /\ ReviewInv /\ FreshInv /\ BehindInv /\ TipInv /\ CommitInv
        /\ GateGuardsLanding /\ PassedIsLanded /\ BuildInv /\ OnceInv /\ ProceedInv

-----------------------------------------------------------------------------
(* Sequences *)

\* A prefix agrees in every place it has.
LEMMA PrefixPlaces ==
  ASSUME NEW S, NEW s \in Seq(S), NEW t \in Seq(S)
  PROVE  IsPrefix(s, t) <=> Len(s) <= Len(t) /\ \A n \in 1..Len(s) : s[n] = t[n]
<1>1. ASSUME IsPrefix(s, t) PROVE Len(s) <= Len(t) /\ \A n \in 1..Len(s) : s[n] = t[n]
  <2>1. Len(s) <= Len(t) /\ SubSeq(s, 1, Len(s)) = SubSeq(t, 1, Len(s))
    BY <1>1 DEF IsPrefix
  <2>2. \A n \in 1..Len(s) : SubSeq(s, 1, Len(s))[n] = s[n]
    OBVIOUS
  <2>3. \A n \in 1..Len(s) : SubSeq(t, 1, Len(s))[n] = t[n]
    BY <2>1
  <2> QED
    BY <2>1, <2>2, <2>3
<1>2. ASSUME Len(s) <= Len(t), \A n \in 1..Len(s) : s[n] = t[n] PROVE IsPrefix(s, t)
  <2>1. SubSeq(s, 1, Len(s)) = s
    OBVIOUS
  <2>2. SubSeq(t, 1, Len(s)) = s
    BY <1>2
  <2> QED
    BY <1>2, <2>1, <2>2 DEF IsPrefix
<1> QED
  BY <1>1, <1>2

LEMMA PrefixSelf == ASSUME NEW S, NEW s \in Seq(S) PROVE IsPrefix(s, s)
  BY PrefixPlaces

LEMMA EmptyHasNoPlace == Len(<<>>) = 0
  OBVIOUS

LEMMA PrefixAppend ==
  ASSUME NEW S, NEW s \in Seq(S), NEW c \in S
  PROVE  IsPrefix(s, Append(s, c)) /\ Append(s, c) # <<>> /\ c \in ToSet(Append(s, c))
<1>1. /\ Append(s, c) \in Seq(S) /\ Len(Append(s, c)) = Len(s) + 1
      /\ \A n \in 1..Len(s) : Append(s, c)[n] = s[n]
      /\ Append(s, c)[Len(s) + 1] = c
  OBVIOUS
<1>2. Len(s) \in Nat
  OBVIOUS
<1>3. IsPrefix(s, Append(s, c))
  <2>1. Len(s) <= Len(Append(s, c)) /\ \A n \in 1..Len(s) : s[n] = Append(s, c)[n]
    BY <1>1, <1>2
  <2> QED
    BY <1>1, <2>1, PrefixPlaces
<1>4. c \in ToSet(Append(s, c))
  <2>1. Len(s) + 1 \in DOMAIN Append(s, c)
    BY <1>1, <1>2
  <2>2. \E n \in DOMAIN Append(s, c) : Append(s, c)[n] = c
    BY <1>1, <2>1
  <2> QED
    BY <2>2 DEF ToSet
<1>5. Append(s, c) # <<>>
  <2>1. Len(Append(s, c)) # 0
    BY <1>1, <1>2
  <2>2. Append(s, c) = <<>> => Len(Append(s, c)) = 0
    BY Zenon, EmptyHasNoPlace
  <2> QED
    BY <2>1, <2>2
<1> QED
  BY <1>3, <1>4, <1>5

LEMMA PrefixTrans ==
  ASSUME NEW S, NEW s \in Seq(S), NEW t \in Seq(S), NEW u \in Seq(S),
         IsPrefix(s, t), IsPrefix(t, u)
  PROVE  IsPrefix(s, u)
<1>1. /\ Len(s) <= Len(t) /\ \A n \in 1..Len(s) : s[n] = t[n]
      /\ Len(t) <= Len(u) /\ \A n \in 1..Len(t) : t[n] = u[n]
  BY PrefixPlaces
<1>2. Len(s) \in Nat /\ Len(t) \in Nat /\ Len(u) \in Nat
  OBVIOUS
<1>3. Len(s) <= Len(u) /\ \A n \in 1..Len(s) : s[n] = u[n]
  BY <1>1, <1>2
<1> QED
  BY <1>3, PrefixPlaces

\* What grows keeps what it had.
LEMMA PrefixMembers ==
  ASSUME NEW S, NEW s \in Seq(S), NEW t \in Seq(S), IsPrefix(s, t)
  PROVE  ToSet(s) \subseteq ToSet(t) /\ (s # <<>> => t # <<>>)
<1>1. Len(s) <= Len(t) /\ \A n \in 1..Len(s) : s[n] = t[n]
  BY PrefixPlaces
<1>2. DOMAIN s = 1..Len(s) /\ DOMAIN t = 1..Len(t) /\ Len(s) \in Nat /\ Len(t) \in Nat
  OBVIOUS
<1> QED
  BY <1>1, <1>2 DEF ToSet

-----------------------------------------------------------------------------
(* What a step leaves as it is *)

\* The steps that give an item an outcome or take it back.
OutcomeSteps ==
  \/ SelectItem \/ FinishPass \/ WriteGate \/ FinishBlocked \/ FinishEscalated
  \/ RecordApproval \/ RecordRejection

\* Each field of a row has the steps that write it.
LEMMA RowFrame ==
  ASSUME IInv, Next, NEW i \in Items
  PROVE  /\ items'[i].terminal_state = items[i].terminal_state \/ OutcomeSteps
         /\ items'[i].attempt_number = items[i].attempt_number \/ SelectItem
         /\ items'[i].branch = items[i].branch \/ RecordWorktree
         /\ items'[i].checkpoint_ref = items[i].checkpoint_ref \/ RecordCheckpoint
         /\ items'[i].manual_gate = items[i].manual_gate \/ WriteGate
         /\ items'[i].verification_report = items[i].verification_report \/ Verify
         /\ items'[i].codex_audit_report = items[i].codex_audit_report \/ StartClaudeAudit
         /\ items'[i].claude_audit_report = items[i].claude_audit_report \/ StartTriage
         /\ items'[i].triage_report = items[i].triage_report \/ Triage
<1> USE DEF saved
<1>1. items \in [Items -> ItemRow] /\ items[i] \in ItemRow
  BY DEF IInv, TypeOK
<1>2. CASE PrepareStep \/ MutateStep \/ AuditStep \/ OutcomeStep
  <2>1. pc \in AttemptPCs /\ (i # it => items'[i] = items[i])
    BY <1>2, AttemptTouches DEF IInv
  <2>2. it \in Items /\ row = items[it] /\ row \in ItemRow
    BY <2>1, AttemptFacts
  <2>3. CASE PrepareStep
    BY <1>1, <2>1, <2>2, <2>3
    DEF ItemRow, PrepareStep, BlockWithoutEvidence, AddWorktree, RecordWorktree,
        EvidenceMissing, PrepareContext
  <2>4. CASE MutateStep
    BY <1>1, <2>1, <2>2, <2>4
    DEF ItemRow, MutateStep, StartMutation, RecordReport, CommitCheckpoint,
        RecordCheckpoint, Verify
  <2>5. CASE AuditStep
    BY <1>1, <2>1, <2>2, <2>5
    DEF ItemRow, AuditStep, BuildAuditPacket, StartCodexAudit, StartClaudeAudit,
        StartTriage, Triage, StageFails
  <2>6. CASE OutcomeStep
    <3>1. CASE WriteGate
      <4> DEFINE waiting == [row EXCEPT !.terminal_state = "awaiting_human_gate",
                                        !.manual_gate_status = "pending"]
                 recorded == [waiting EXCEPT !.manual_gate = row.attempt_number]
      <4>1. \/ items' = [items EXCEPT ![it] = waiting]
            \/ items' = [items EXCEPT ![it] = recorded]
        BY <3>1 DEF WriteGate
      <4>2. \A r \in {waiting, recorded} :
              /\ r.attempt_number = row.attempt_number
              /\ r.branch = row.branch /\ r.checkpoint_ref = row.checkpoint_ref
              /\ r.verification_report = row.verification_report
              /\ r.codex_audit_report = row.codex_audit_report
              /\ r.claude_audit_report = row.claude_audit_report
              /\ r.triage_report = row.triage_report
        BY <2>2 DEF ItemRow
      <4> HIDE DEF waiting, recorded
      <4> QED
        BY <1>1, <2>1, <2>2, <3>1, <4>1, <4>2 DEF OutcomeSteps
    <3>2. CASE FinishBlocked
      BY <1>1, <2>1, <2>2, <3>2 DEF ItemRow, FinishBlocked, OutcomeSteps
    <3>3. CASE FinishPass \/ FinishEscalated
      BY <1>1, <2>1, <2>2, <3>3 DEF ItemRow, FinishPass, FinishEscalated, OutcomeSteps
    <3>4. CASE StartFix \/ StartRemediation
      BY <1>1, <2>1, <2>2, <3>4 DEF ItemRow, StartFix, StartRemediation
    <3>5. CASE Land \/ RecordPass \/ RequestGate \/ BlockOnTriage \/ Escalate
      BY <3>5 DEF Land, RecordPass, RequestGate, BlockOnTriage, Escalate
    <3> QED
      BY <2>6, <3>1, <3>2, <3>3, <3>4, <3>5 DEF OutcomeStep
  <2> QED
    BY <1>2, <2>3, <2>4, <2>5, <2>6
<1>3. CASE DecisionStep
  <2>1. it \in Items
    BY <1>3 DEF DecisionStep, LandApproved, RecordApproval, RecordRejection, IInv,
                DecisionInv, DecisionPCs
  <2>2. items[it] \in ItemRow
    BY <1>1, <2>1
  <2>3. CASE LandApproved
    BY <2>3 DEF LandApproved
  <2>4. CASE RecordApproval
    BY <1>1, <2>1, <2>2, <2>4 DEF ItemRow, RecordApproval, OutcomeSteps
  <2>5. CASE RecordRejection
    BY <1>1, <2>1, <2>2, <2>5 DEF ItemRow, RecordRejection, OutcomeSteps
  <2> QED
    BY <1>3, <2>3, <2>4, <2>5 DEF DecisionStep
<1>4. CASE SelectItem
  <2>1. Head(call.queue) \in Items
    BY <1>4 DEF SelectItem, IInv, TypeOK, Call
  <2>2. items[Head(call.queue)] \in ItemRow
    BY <1>1, <2>1
  <2> QED
    BY <1>1, <1>4, <2>1, <2>2 DEF ItemRow, SelectItem, OutcomeSteps
<1>5. CASE \/ FinishQueue \/ RefuseItem \/ AdvanceQueue \/ RecordRefresh \/ Command
           \/ Interrupt
  BY <1>5
  DEF FinishQueue, RefuseItem, AdvanceQueue, RecordRefresh, Command, Resume,
      CreateRefreshBranch, MarkGate, Interrupt
<1> QED
  BY <1>2, <1>3, <1>4, <1>5 DEF Next, Work, QueueStep

\* So do the records, the branches and what was observed.
LEMMA GitFrame ==
  ASSUME Next
  PROVE  /\ run_branch' = run_branch \/ RecordRefresh
         /\ run_branches' = run_branches \/ Land \/ LandApproved \/ CreateRefreshBranch
         /\ item_branches' = item_branches \/ AddWorktree \/ CommitCheckpoint
         /\ \/ gates' = gates \/ WriteGate
            \/ \E i \in Items, outcome \in {"approved", "rejected"} : MarkGate(i, outcome)
         /\ adopted' = adopted \/ RecordRefresh
         /\ adopted \subseteq adopted'
         /\ mishaps \subseteq mishaps'
<1> USE DEF saved, git
<1>1. CASE QueueStep \/ PrepareStep
  BY <1>1
  DEF QueueStep, FinishQueue, RefuseItem, SelectItem, AdvanceQueue, PrepareStep,
      BlockWithoutEvidence, AddWorktree, RecordWorktree, EvidenceMissing, PrepareContext
<1>2. CASE MutateStep \/ AuditStep
  BY <1>2
  DEF MutateStep, StartMutation, RecordReport, CommitCheckpoint, RecordCheckpoint,
      Verify, AuditStep, BuildAuditPacket, StartCodexAudit, StartClaudeAudit,
      StartTriage, Triage, StageFails
<1>3. CASE OutcomeStep
  BY <1>3
  DEF OutcomeStep, Land, RecordPass, FinishPass, RequestGate, WriteGate, BlockOnTriage,
      FinishBlocked, Escalate, FinishEscalated, StartFix, StartRemediation
<1>4. CASE DecisionStep
  BY <1>4 DEF DecisionStep, LandApproved, RecordApproval, RecordRejection
<1>5. CASE RecordRefresh \/ Interrupt
  BY <1>5 DEF RecordRefresh, Interrupt
<1>6. CASE Resume \/ CreateRefreshBranch
  BY <1>6 DEF Resume, CreateRefreshBranch
<1>7. CASE \E i \in Items, outcome \in {"approved", "rejected"} : MarkGate(i, outcome)
  BY <1>7 DEF MarkGate
<1> QED
  BY <1>1, <1>2, <1>3, <1>4, <1>5, <1>6, <1>7 DEF Next, Work, Command

\* Each place of the process is reached by one or two steps.
LEMMA Places ==
  ASSUME Next
  PROVE  /\ pc' = "selected" => SelectItem
         /\ pc' = "worktree" => AddWorktree
         /\ pc' = "prepared" => RecordWorktree
         /\ pc' = "context" => PrepareContext \/ StartFix \/ StartRemediation
         /\ pc' = "running" => StartMutation
         /\ pc' = "reported" => RecordReport
         /\ pc' = "committed" => CommitCheckpoint
         /\ pc' = "verifying" => RecordCheckpoint
         /\ pc' = "verified" => Verify
         /\ pc' = "packet" => BuildAuditPacket
         /\ pc' = "audit_codex" => StartCodexAudit
         /\ pc' = "audit_claude" => StartClaudeAudit
         /\ pc' = "triaging" => StartTriage
         /\ pc' = "decide" => Triage
         /\ pc' = "landing" => Land
         /\ pc' = "passing" => RecordPass
         /\ pc' = "advance" => FinishPass
         /\ pc' = "gating" => RequestGate
         /\ pc' = "blocking" => BlockWithoutEvidence \/ BlockOnTriage
         /\ pc' = "escalating" => StageFails \/ Escalate
         /\ pc' \in {"gate_approved", "gate_rejected"} =>
              \E i \in Items, outcome \in {"approved", "rejected"} : MarkGate(i, outcome)
         /\ pc' = "gate_landed" => LandApproved
         /\ pc' = "refreshing" => CreateRefreshBranch
         /\ pc' = "queue" => AdvanceQueue \/ Resume
<1> USE DEF Goto, Return
<1>1. CASE QueueStep \/ PrepareStep
  BY <1>1
  DEF QueueStep, FinishQueue, RefuseItem, SelectItem, AdvanceQueue, PrepareStep,
      BlockWithoutEvidence, AddWorktree, RecordWorktree, EvidenceMissing, PrepareContext
<1>2. CASE MutateStep
  BY <1>2
  DEF MutateStep, StartMutation, RecordReport, CommitCheckpoint, RecordCheckpoint, Verify
<1>3. CASE AuditStep
  BY <1>3
  DEF AuditStep, BuildAuditPacket, StartCodexAudit, StartClaudeAudit,
      StartTriage, Triage, StageFails
<1>4. CASE OutcomeStep
  BY <1>4
  DEF OutcomeStep, Land, RecordPass, FinishPass, RequestGate, WriteGate, BlockOnTriage,
      FinishBlocked, Escalate, FinishEscalated, StartFix, StartRemediation
<1>5. CASE DecisionStep
  BY <1>5 DEF DecisionStep, LandApproved, RecordApproval, RecordRejection
<1>6. CASE RecordRefresh \/ Interrupt
  BY <1>6 DEF RecordRefresh, Interrupt
<1>7. CASE Resume \/ CreateRefreshBranch
  BY <1>7 DEF Resume, CreateRefreshBranch
<1>8. CASE \E i \in Items, outcome \in {"approved", "rejected"} : MarkGate(i, outcome)
  BY <1>8 DEF MarkGate
<1> QED
  BY <1>1, <1>2, <1>3, <1>4, <1>5, <1>6, <1>7, <1>8 DEF Next, Work, Command

\* Where each step that writes the row or git starts, and what it then does.
LEMMA Starts ==
  /\ SelectItem => pc = "queue"
  /\ AddWorktree => pc = "selected" /\ pc' = "worktree"
  /\ RecordWorktree => pc = "worktree" /\ pc' = "prepared"
  /\ CommitCheckpoint => pc = "reported" /\ pc' = "committed"
  /\ RecordCheckpoint => pc = "committed" /\ pc' = "verifying"
  /\ Verify => pc = "verifying" /\ pc' = "verified"
  /\ StartClaudeAudit => pc = "audit_codex" /\ pc' = "audit_claude"
  /\ StartTriage => pc = "audit_claude" /\ pc' = "triaging"
  /\ Triage => pc = "triaging" /\ pc' = "decide"
  /\ Land => pc = "decide" /\ pc' = "landing"
  /\ RecordPass => pc = "landing" /\ pc' = "passing"
  /\ FinishPass => pc = "passing" /\ pc' = "advance"
  /\ RequestGate => pc = "decide" /\ pc' = "gating"
  /\ WriteGate => pc = "gating" /\ pc' = "idle"
  /\ FinishBlocked => pc = "blocking" /\ pc' = "idle"
  /\ FinishEscalated => pc = "escalating" /\ pc' = "idle"
  /\ StartFix => pc = "decide" /\ pc' = "context"
  /\ StartRemediation => pc = "decide" /\ pc' = "context"
  /\ LandApproved => pc = "gate_approved" /\ pc' \in {"gate_landed", "idle"}
  /\ RecordApproval => pc = "gate_landed" /\ pc' = "idle"
  /\ RecordRejection => pc = "gate_rejected" /\ pc' = "idle"
  /\ CreateRefreshBranch => pc = "idle" /\ pc' = "refreshing"
  /\ RecordRefresh => pc = "refreshing" /\ pc' = "idle"
  /\ Resume => pc = "idle" /\ pc' = "queue"
BY DEF SelectItem, AddWorktree, RecordWorktree, CommitCheckpoint, RecordCheckpoint, Verify,
       StartClaudeAudit, StartTriage, Triage, Land, RecordPass, FinishPass, RequestGate,
       WriteGate, FinishBlocked, FinishEscalated, StartFix, StartRemediation, LandApproved,
       RecordApproval, RecordRejection, CreateRefreshBranch, RecordRefresh, Resume,
       Goto, Return

\* An attempt goes on with the same item and number.
LEMMA GoesOn ==
  ASSUME IInv, Next, pc' \in AttemptPCs, ~SelectItem
  PROVE  /\ pc \in AttemptPCs /\ it' = it /\ it \in Items
         /\ current_item_id' = it
         /\ row' = items'[it] /\ row = items[it]
         /\ row'.attempt_number = row.attempt_number
         /\ row.terminal_state = "none"
<1>1. IInv'
  BY NextInv
<1>2. call \in Call
  BY DEF IInv, TypeOK
<1>3. CASE PrepareStep
  <2>1. pc \in AttemptPCs
    BY <1>3, AttemptTouches DEF IInv
  <2>2. it' = it
    BY <1>2, <1>3
    DEF PrepareStep, BlockWithoutEvidence, AddWorktree, RecordWorktree, EvidenceMissing,
        PrepareContext, it, Return, AttemptPCs, StagePCs, Call
  <2> QED
    BY <1>1, <2>1, <2>2, AttemptFacts, RowFrame DEF IInv, AttemptInv, row
<1>4. CASE MutateStep \/ AuditStep
  <2>1. pc \in AttemptPCs
    BY <1>4, AttemptTouches DEF IInv
  <2>2. it' = it
    BY <1>2, <1>4
    DEF MutateStep, StartMutation, RecordReport, CommitCheckpoint, RecordCheckpoint,
        Verify, AuditStep, BuildAuditPacket, StartCodexAudit, StartClaudeAudit,
        StartTriage, Triage, StageFails, it, Call
  <2> QED
    BY <1>1, <2>1, <2>2, AttemptFacts, RowFrame DEF IInv, AttemptInv, row
<1>5. CASE OutcomeStep
  <2>1. pc \in AttemptPCs
    BY <1>5, AttemptTouches DEF IInv
  <2>2. it' = it
    BY <1>2, <1>5
    DEF OutcomeStep, Land, RecordPass, FinishPass, RequestGate, WriteGate, BlockOnTriage,
        FinishBlocked, Escalate, FinishEscalated, StartFix, StartRemediation, it, Call,
        Goto, Return, AttemptPCs, StagePCs
  <2> QED
    BY <1>1, <2>1, <2>2, AttemptFacts, RowFrame DEF IInv, AttemptInv, row
<1>6. CASE \/ FinishQueue \/ RefuseItem \/ AdvanceQueue \/ DecisionStep
           \/ RecordRefresh \/ Command \/ Interrupt
  BY <1>6
  DEF FinishQueue, RefuseItem, AdvanceQueue, DecisionStep, LandApproved, RecordApproval,
      RecordRejection, RecordRefresh, Command, Resume, CreateRefreshBranch, MarkGate,
      Interrupt, Goto, Return, AttemptPCs, StagePCs
<1> QED
  BY <1>3, <1>4, <1>5, <1>6 DEF Next, Work, QueueStep

\* A row that waits or passed stays as it was, but for its outcome, or is taken
\* up again; its branches and the commits its gates name stay.
LEMMA SettledStays ==
  ASSUME IInv, Next, NEW i \in Items,
         items[i].terminal_state \in {"awaiting_human_gate", "passed"},
         items'[i].terminal_state \in {"awaiting_human_gate", "passed"}
  PROVE  /\ items'[i].attempt_number = items[i].attempt_number
         /\ items'[i].branch = items[i].branch
         /\ items'[i].checkpoint_ref = items[i].checkpoint_ref
         /\ items'[i].manual_gate = items[i].manual_gate
         /\ items'[i].verification_report = items[i].verification_report
         /\ items'[i].codex_audit_report = items[i].codex_audit_report
         /\ items'[i].claude_audit_report = items[i].claude_audit_report
         /\ items'[i].triage_report = items[i].triage_report
         /\ Cycle(i)' = Cycle(i) /\ Branch(i)' = Branch(i)
         /\ \A a \in 1..MaxAttempts : /\ item_branches'[i][a] = item_branches[i][a]
                                      /\ gates'[i][a].ref = gates[i][a].ref
<1>1. items[i] \in ItemRow /\ items[i].attempt_number \in 1..MaxAttempts
  BY DEF IInv, TypeOK, ItemRow
<1>2. CASE PrepareStep \/ MutateStep \/ AuditStep \/ OutcomeStep
  <2>1. pc \in AttemptPCs
    BY <1>2, AttemptTouches DEF IInv
  <2>2. i # it
    BY <2>1, AttemptFacts
  <2> QED
    BY <1>1, <1>2, <2>2, AttemptTouches DEF IInv, Cycle, Branch
<1>3. CASE QueueStep \/ DecisionStep \/ RecordRefresh \/ Command \/ Interrupt
  <2>1. UNCHANGED item_branches
    BY <1>3, OtherTouches DEF IInv
  <2>2. \A a \in 1..MaxAttempts : gates'[i][a].ref = gates[i][a].ref
    <3>1. CASE UNCHANGED gates
      BY <3>1
    <3>2. CASE ~UNCHANGED gates
      <4>1. PICK j \in Items, outcome \in {"approved", "rejected"} : MarkGate(j, outcome)
        BY <1>3, <3>2, OtherTouches DEF IInv
      <4>2. gates \in [Items -> [1..MaxAttempts -> GateRecord]]
        BY DEF IInv, TypeOK
      <4>3. gates' = [gates EXCEPT ![j][items[j].manual_gate].status = outcome]
        BY <4>1 DEF MarkGate
      <4> QED
        BY <4>2, <4>3 DEF GateRecord
    <3> QED
      BY <3>1, <3>2
  <2>3. ~SelectItem \/ i # Head(call.queue)
    <3>1. SUFFICES ASSUME SelectItem, i = Head(call.queue)
                   PROVE  items'[i].terminal_state = "none"
      OBVIOUS
    <3> QED
      BY <1>1, <3>1 DEF SelectItem, IInv, TypeOK, ItemRow
  <2>4. CASE items'[i] = items[i]
    BY <2>1, <2>2, <2>4 DEF Cycle, Branch
  <2>5. CASE DecisionStep /\ pc \in DecisionPCs /\ i = it /\ items'[i] # items[i]
    <3>1. RecordApproval
      <4>1. ~LandApproved
        BY <2>5 DEF LandApproved, saved
      <4>2. ~RecordRejection
        BY <1>1, <2>5 DEF RecordRejection, IInv, TypeOK, ItemRow
      <4> QED
        BY <2>5, <4>1, <4>2 DEF DecisionStep
    <3>2. items'[i] = [items[i] EXCEPT !.terminal_state = "passed",
                                       !.manual_gate_status = "approved"]
      BY <2>5, <3>1 DEF RecordApproval, IInv, TypeOK
    <3> QED
      BY <1>1, <2>1, <2>2, <3>2 DEF ItemRow, Cycle, Branch
  <2> QED
    BY <1>3, <2>3, <2>4, <2>5, OtherTouches DEF IInv
<1> QED
  BY <1>2, <1>3 DEF Next, Work

\* The cycle of an attempt changes with its rounds only.
LEMMA CycleStays ==
  ASSUME IInv, Next, ~SelectItem, ~StartFix, ~StartRemediation, NEW i \in Items
  PROVE  Cycle(i)' = Cycle(i)
BY CountersStay, RowFrame DEF Cycle

-----------------------------------------------------------------------------
(* One lemma for each part of the invariant *)

LEMMA StateKept == ASSUME IInv, StateInv, Next PROVE StateInv'
<1> USE DEF Goto, SetState
<1>1. pc' \in {"triaging", "decide", "landing"} => current_state' = "ST70"
  BY Places DEF StateInv, StartTriage, Triage, Land, saved
<1>0. pc' \in {"selected", "worktree"} => current_state' = "ST10"
  BY Places DEF StateInv, SelectItem, Return, AddWorktree, saved
<1>2. pc' = "blocking" => current_state' = "ST120"
  BY Places DEF BlockWithoutEvidence, BlockOnTriage
<1>3. pc' = "escalating" => current_state' = "ST140"
  BY Places DEF StageFails, Escalate
<1>4. pc' = "advance" => current_state' = "ST130"
  BY Places DEF FinishPass, IInv, AttemptInv, AttemptPCs
<1>5. pc' = "queue" => current_state' # "ST110"
  <2>1. CASE AdvanceQueue
    BY <2>1 DEF AdvanceQueue, StateInv, saved
  <2>2. CASE Resume
    BY <2>2 DEF Resume, ResumeAllowed
  <2> QED
    BY <2>1, <2>2, Places
<1>6. ASSUME pc' \in {"gate_approved", "gate_rejected"}
      PROVE  /\ current_state' = "ST110" /\ current_item_id' = it'
             /\ GateOf(it)'.status = IF pc' = "gate_rejected" THEN "rejected" ELSE "approved"
  <2>1. PICK i \in Items, outcome \in {"approved", "rejected"} : MarkGate(i, outcome)
    BY <1>6, Places
  <2>2. current_state = "ST110" /\ current_item_id = i
    BY <2>1 DEF MarkGate, IInv, PendingGateHolds
  <2>3. call' = [NoCall EXCEPT !.item = i] /\ UNCHANGED saved
    BY <2>1 DEF MarkGate
  <2>4. it' = i
    BY <2>3, NoCallType DEF it, Call
  <2>5. items[i].manual_gate \in 1..MaxAttempts
    BY <2>1 DEF MarkGate, GatePending, IInv, TypeOK, ItemRow, None
  <2>6. gates'[i][items[i].manual_gate].status = outcome
    <3>1. gates \in [Items -> [1..MaxAttempts -> GateRecord]]
      BY DEF IInv, TypeOK
    <3>2. gates' = [gates EXCEPT ![i][items[i].manual_gate].status = outcome]
      BY <2>1 DEF MarkGate
    <3>3. gates[i][items[i].manual_gate] \in GateRecord
      BY <2>5, <3>1
    <3>4. gates'[i][items[i].manual_gate] =
            [gates[i][items[i].manual_gate] EXCEPT !.status = outcome]
      BY <2>5, <3>1, <3>2
    <3> QED
      BY <3>3, <3>4 DEF GateRecord
  <2>7. pc' = IF outcome = "approved" THEN "gate_approved" ELSE "gate_rejected"
    BY <2>1 DEF MarkGate
  <2> QED
    BY <2>1, <2>2, <2>3, <2>4, <2>6, <2>7 DEF GateOf, saved
<1>7. pc' = "gate_landed" =>
        /\ current_state' = "ST110" /\ current_item_id' = it'
        /\ GateOf(it)'.status = "approved"
  <2>1. SUFFICES ASSUME LandApproved, pc' = "gate_landed"
                 PROVE  /\ current_state' = "ST110" /\ current_item_id' = it'
                        /\ GateOf(it)'.status = "approved"
    BY Places
  <2>2. call' = call /\ UNCHANGED <<saved, gates>> /\ pc = "gate_approved"
    BY <2>1 DEF LandApproved, Return
  <2> QED
    BY <2>2 DEF StateInv, DecisionPCs, GateOf, it, saved
<1> QED
  BY <1>0, <1>1, <1>2, <1>3, <1>4, <1>5, <1>6, <1>7 DEF StateInv, DecisionPCs

LEMMA ReviewKept == ASSUME IInv, ReviewInv, Next PROVE ReviewInv'
<1>1. items \in [Items -> ItemRow] /\ item_branches \in [Items -> [1..MaxAttempts -> Seq(Commits)]]
      /\ gates \in [Items -> [1..MaxAttempts -> GateRecord]]
  BY DEF IInv, TypeOK
<1>2. ASSUME NEW i \in Items, items'[i].manual_gate # None PROVE i \in GateRequired
  <2>1. CASE ~WriteGate
    BY <1>2, <2>1, RowFrame DEF ReviewInv
  <2>2. CASE WriteGate
    <3>1. pc \in AttemptPCs
      BY <2>2, Starts DEF AttemptPCs
    <3>2. it \in Items /\ row = items[it] /\ row \in ItemRow
      BY <3>1, AttemptFacts
    <3>3. CASE it \in GateRequired
      BY <1>1, <1>2, <2>2, <3>2, <3>3 DEF WriteGate, ReviewInv
    <3>4. CASE it \notin GateRequired
      <4>1. items' = [items EXCEPT ![it] =
              [row EXCEPT !.terminal_state = "awaiting_human_gate",
                          !.manual_gate_status = "pending"]]
        BY <2>2, <3>4 DEF WriteGate
      <4>2. items'[i].manual_gate = items[i].manual_gate
        BY <1>1, <3>2, <4>1 DEF ItemRow
      <4> QED
        BY <1>2, <4>2 DEF ReviewInv
    <3> QED
      BY <3>3, <3>4
  <2> QED
    BY <2>1, <2>2
<1>3. ASSUME NEW i \in Items, items'[i].terminal_state \in {"awaiting_human_gate", "passed"}
      PROVE  Reviewed(i)'
  <2>1. CASE items[i].terminal_state \in {"awaiting_human_gate", "passed"}
    <3>1. i \in GateRequired => items[i].manual_gate \in 1..MaxAttempts
      BY <1>1, <2>1 DEF ReviewInv, Reviewed, ItemRow
    <3> QED
      BY <1>3, <2>1, <3>1, SettledStays DEF ReviewInv, Reviewed, GateOf
  <2>2. CASE items[i].terminal_state \notin {"awaiting_human_gate", "passed"}
    <3>1. WriteGate \/ FinishPass
      <4>1. items'[i].terminal_state # items[i].terminal_state
        BY <1>3, <2>2
      <4>2. CASE SelectItem
        BY <1>1, <1>3, <4>1, <4>2 DEF SelectItem, ItemRow
      <4>3. CASE FinishBlocked \/ FinishEscalated
        <5>1. it \in Items /\ items[it] \in ItemRow
          BY <4>3, AttemptFacts, Starts DEF AttemptPCs
        <5>2. i # it => items'[i] = items[i]
          BY <1>1, <4>3 DEF FinishBlocked, FinishEscalated
        <5>3. FinishBlocked => items'[it].terminal_state = "blocked_external"
          BY <1>1, <5>1 DEF FinishBlocked, ItemRow
        <5>4. FinishEscalated => items'[it].terminal_state = "escalated"
          BY <1>1, <5>1 DEF FinishEscalated, ItemRow
        <5> QED
          BY <1>3, <2>2, <4>3, <5>2, <5>3, <5>4
      <4>4. CASE RecordApproval \/ RecordRejection
        <5>1. pc \in DecisionPCs
          BY <4>4, Starts DEF DecisionPCs
        <5>2. it \in Items /\ i # it
          BY <2>2, <5>1 DEF IInv, DecisionInv, row
        <5> QED
          BY <1>1, <1>3, <2>2, <4>4, <5>2 DEF RecordApproval, RecordRejection
      <4> QED
        BY <4>1, <4>2, <4>3, <4>4, RowFrame DEF OutcomeSteps
    <3>2. pc \in AttemptPCs /\ pc \in {"gating", "passing"}
      BY <3>1, Starts DEF AttemptPCs
    <3>3. it \in Items /\ row = items[it] /\ row \in ItemRow
          /\ row.attempt_number \in 1..MaxAttempts
      BY <3>2, AttemptFacts
    <3>4. i = it
      BY <1>3, <2>2, <3>1, AttemptTouches DEF OutcomeStep, IInv
    <3>5. /\ row.verification_report = Cycle(it) /\ row.codex_audit_report = Cycle(it)
          /\ row.claude_audit_report = Cycle(it) /\ row.triage_report = Cycle(it)
          /\ row.checkpoint_ref = Branch(it)
      BY <3>2 DEF ReviewInv, IInv, AttemptInv, ReviewedPCs
    <3>6. Cycle(i)' = Cycle(i)
      BY <3>1, CycleStays, Starts
    <3>7. Branch(i)' = Branch(i) /\ items'[i].attempt_number = items[i].attempt_number
      <4>1. item_branches' = item_branches /\ ~SelectItem
        BY <3>1, GitFrame, Starts
      <4> QED
        BY <4>1, RowFrame DEF Branch
    <3>8. /\ items'[i].verification_report = items[i].verification_report
          /\ items'[i].codex_audit_report = items[i].codex_audit_report
          /\ items'[i].claude_audit_report = items[i].claude_audit_report
          /\ items'[i].triage_report = items[i].triage_report
          /\ items'[i].checkpoint_ref = items[i].checkpoint_ref
      BY <3>1, RowFrame, Starts
    <3>9. i \in GateRequired => /\ items'[i].manual_gate = items'[i].attempt_number
                                /\ GateOf(i)'.ref = items'[i].checkpoint_ref
      <4>1. SUFFICES ASSUME i \in GateRequired
                     PROVE  /\ items'[i].manual_gate = row.attempt_number
                            /\ GateOf(i)'.ref = row.checkpoint_ref
        BY <3>3, <3>4, <3>7, <3>8
      <4>2. WriteGate
        BY <3>1, <3>2, <3>4, <4>1, Starts DEF ReviewInv
      <4>3. gates'[i][row.attempt_number].ref = row.checkpoint_ref
        <5> DEFINE record == [status |-> "pending", ref |-> row.checkpoint_ref]
                   a == row.attempt_number
        <5>1. gates' = [gates EXCEPT ![it][a] = record]
          BY <3>4, <4>1, <4>2 DEF WriteGate
        <5>2. record.ref = row.checkpoint_ref /\ a \in 1..MaxAttempts
          BY <3>3
        <5> HIDE DEF record, a
        <5>3. gates'[it][a] = record
          BY <1>1, <3>3, <5>1, <5>2
        <5> QED
          BY <3>4, <5>2, <5>3 DEF a
      <4> DEFINE r == [[row EXCEPT !.terminal_state = "awaiting_human_gate",
                                   !.manual_gate_status = "pending"]
                         EXCEPT !.manual_gate = row.attempt_number]
      <4>4. items'[i] = r
        BY <1>1, <3>3, <3>4, <4>1, <4>2 DEF WriteGate
      <4>5. r.manual_gate = row.attempt_number
        BY <3>3 DEF ItemRow
      <4> QED
        BY <4>3, <4>4, <4>5 DEF GateOf
    <3> QED
      BY <3>3, <3>4, <3>5, <3>6, <3>7, <3>8, <3>9 DEF Reviewed
  <2> QED
    BY <2>1, <2>2
<1>4. ASSUME pc' \in {"verified", "packet", "audit_codex", "audit_claude", "triaging",
                      "decide", "gating", "landing", "passing"}
      PROVE  /\ row'.verification_report = Cycle(it)'
             /\ pc' \in {"audit_claude", "triaging", "decide", "gating", "landing",
                         "passing"} => row'.codex_audit_report = Cycle(it)'
             /\ pc' \in {"triaging", "decide", "gating", "landing", "passing"} =>
                  row'.claude_audit_report = Cycle(it)'
             /\ pc' \in {"decide", "gating", "landing", "passing"} =>
                  row'.triage_report = Cycle(it)'
             /\ pc' \in {"landing", "passing"} =>
                  it' \notin GateRequired /\ row'.checkpoint_ref = Branch(it)'
  <2>1. ~SelectItem /\ ~StartFix /\ ~StartRemediation /\ pc' \in AttemptPCs
    <3>1. SelectItem => pc' \in {"selected", "idle"}
      BY DEF SelectItem, Return
    <3> QED
      BY <1>4, <3>1, Starts DEF AttemptPCs, StagePCs
  <2>2. pc \in AttemptPCs /\ it' = it /\ it \in Items /\ row' = items'[it] /\ row = items[it]
    BY <2>1, GoesOn
  <2>3. Cycle(it)' = Cycle(it)
    BY <2>1, <2>2, CycleStays DEF Cycle
  <2>4. row \in ItemRow
    BY <2>2, AttemptFacts
  <2>5. row'.verification_report = Cycle(it)
    <3>1. CASE Verify
      BY <1>1, <2>2, <2>4, <3>1 DEF Verify, ItemRow
    <3>2. CASE ~Verify
      <4>1. pc \in {"verified", "packet", "audit_codex", "audit_claude", "triaging",
                    "decide", "gating", "landing", "passing"}
        BY <1>4, <3>2, Places
        DEF BuildAuditPacket, StartCodexAudit, StartClaudeAudit, StartTriage, Triage,
            RequestGate, Land, RecordPass, Goto
      <4> QED
        BY <2>2, <3>2, <4>1, RowFrame DEF ReviewInv
    <3> QED
      BY <3>1, <3>2
  <2>6. pc' \in {"audit_claude", "triaging", "decide", "gating", "landing", "passing"} =>
          row'.codex_audit_report = Cycle(it)
    <3>1. CASE StartClaudeAudit
      BY <1>1, <2>2, <2>4, <3>1 DEF StartClaudeAudit, ItemRow
    <3>2. CASE ~StartClaudeAudit
      <4>1. pc' \in {"audit_claude", "triaging", "decide", "gating", "landing", "passing"} =>
            pc \in {"audit_claude", "triaging", "decide", "gating", "landing", "passing"}
        BY <3>2, Places, Starts
      <4> QED
        BY <2>2, <3>2, <4>1, RowFrame DEF ReviewInv
    <3> QED
      BY <3>1, <3>2
  <2>7. pc' \in {"triaging", "decide", "gating", "landing", "passing"} =>
          row'.claude_audit_report = Cycle(it)
    <3>1. CASE StartTriage
      BY <1>1, <2>2, <2>4, <3>1 DEF StartTriage, ItemRow
    <3>2. CASE ~StartTriage
      <4>1. pc' \in {"triaging", "decide", "gating", "landing", "passing"} =>
            pc \in {"triaging", "decide", "gating", "landing", "passing"}
        BY <3>2, Places, Starts
      <4> QED
        BY <2>2, <3>2, <4>1, RowFrame DEF ReviewInv
    <3> QED
      BY <3>1, <3>2
  <2>8. pc' \in {"decide", "gating", "landing", "passing"} => row'.triage_report = Cycle(it)
    <3>1. CASE Triage
      BY <1>1, <2>2, <2>4, <3>1 DEF Triage, ItemRow
    <3>2. CASE ~Triage
      <4>1. pc' \in {"decide", "gating", "landing", "passing"} =>
            pc \in {"decide", "gating", "landing", "passing"}
        BY <3>2, Places, Starts
      <4> QED
        BY <2>2, <3>2, <4>1, RowFrame DEF ReviewInv
    <3> QED
      BY <3>1, <3>2
  <2>9. pc' \in {"landing", "passing"} =>
          it' \notin GateRequired /\ row'.checkpoint_ref = Branch(it)'
    <3>1. SUFFICES ASSUME Land \/ RecordPass
                   PROVE  it \notin GateRequired /\ row'.checkpoint_ref = Branch(it)'
      BY <2>2, Places
    <3>2. it \notin GateRequired /\ row.checkpoint_ref = Branch(it)
      BY <3>1 DEF Land, RecordPass, Goto, ReviewInv, IInv, AttemptInv, AttemptPCs, ReviewedPCs
    <3>3. UNCHANGED <<items, item_branches>>
      BY <3>1 DEF Land, RecordPass, saved, git
    <3> QED
      BY <2>2, <3>2, <3>3 DEF Branch
  <2> QED
    BY <2>2, <2>3, <2>5, <2>6, <2>7, <2>8, <2>9
<1> QED
  BY <1>2, <1>3, <1>4 DEF ReviewInv

\* The current item changes with a selection, a resume and the work on it.
LEMMA CurrentFrame ==
  ASSUME IInv, StateInv, Next
  PROVE  \/ UNCHANGED <<current_state, current_item_id>>
         \/ /\ SelectItem /\ pc' = "selected" /\ CanMove(current_state, "ST10")
            /\ current_state' = "ST10" /\ current_item_id' = Head(call.queue)
         \/ /\ Resume /\ current_state' = "ST05" /\ current_item_id' = None
         \/ /\ pc \in AttemptPCs /\ current_item_id' = current_item_id /\ current_item_id = it
         \/ /\ RecordApproval \/ RecordRejection
            /\ current_item_id' = current_item_id /\ current_item_id = it
<1> USE DEF saved
<1>1. CASE PrepareStep \/ MutateStep \/ AuditStep \/ OutcomeStep
  <2>1. pc \in AttemptPCs /\ current_item_id = it
    BY <1>1, AttemptTouches, AttemptFacts DEF IInv
  <2>2. CASE PrepareStep \/ MutateStep
    BY <2>1, <2>2
    DEF PrepareStep, BlockWithoutEvidence, AddWorktree, RecordWorktree, EvidenceMissing,
        PrepareContext, MutateStep, StartMutation, RecordReport, CommitCheckpoint,
        RecordCheckpoint, Verify, SetState
  <2>3. CASE AuditStep
    BY <2>1, <2>3
    DEF AuditStep, BuildAuditPacket, StartCodexAudit, StartClaudeAudit,
        StartTriage, Triage, StageFails, SetState
  <2>4. CASE OutcomeStep
    BY <2>1, <2>4
    DEF OutcomeStep, Land, RecordPass, FinishPass, RequestGate, WriteGate, BlockOnTriage,
        FinishBlocked, Escalate, FinishEscalated, StartFix, StartRemediation, SetState
  <2> QED
    BY <1>1, <2>2, <2>3, <2>4
<1>2. CASE SelectItem
  BY <1>2 DEF SelectItem, SetState
<1>3. CASE Resume
  BY <1>3 DEF Resume
<1>4. CASE DecisionStep
  BY <1>4, Starts DEF DecisionStep, LandApproved, RecordApproval, RecordRejection, SetState,
                  StateInv, DecisionPCs
<1>5. CASE FinishQueue \/ RefuseItem \/ AdvanceQueue \/ RecordRefresh \/ Interrupt
  BY <1>5 DEF FinishQueue, RefuseItem, AdvanceQueue, RecordRefresh, Interrupt
<1>6. CASE CreateRefreshBranch
  BY <1>6 DEF CreateRefreshBranch
<1>7. CASE \E i \in Items, outcome \in {"approved", "rejected"} : MarkGate(i, outcome)
  BY <1>7 DEF MarkGate
<1> QED
  BY <1>1, <1>2, <1>3, <1>4, <1>5, <1>6, <1>7 DEF Next, Work, QueueStep, Command

\* The row of an item keeps its number and its having an outcome, unless the
\* item is selected.
LEMMA RowMoves ==
  ASSUME IInv, Next, NEW i \in Items
  PROVE  \/ /\ items'[i].attempt_number = items[i].attempt_number
            /\ items[i].terminal_state # "none" => items'[i].terminal_state # "none"
         \/ /\ SelectItem /\ i = Head(call.queue)
            /\ items'[i].attempt_number = NextAttemptNumber(items[i])
            /\ items'[i].branch = items[i].branch
            /\ items'[i].terminal_state = "none"
            /\ NextAttemptNumber(items[i]) \in 1..MaxAttempts
<1>1. items \in [Items -> ItemRow]
  BY DEF IInv, TypeOK
<1>2. CASE SelectItem
  <2>1. Head(call.queue) \in Items
    BY <1>2 DEF SelectItem, IInv, TypeOK, Call
  <2>2. i # Head(call.queue) => items'[i] = items[i]
    BY <1>1, <1>2, <2>1 DEF SelectItem
  <2>3. NextAttemptNumber(items[i]) <= MaxAttempts \/ i # Head(call.queue)
    BY <1>2 DEF SelectItem
  <2>4. i = Head(call.queue) =>
          /\ items'[i].attempt_number = NextAttemptNumber(items[i])
          /\ items'[i].branch = items[i].branch
          /\ items'[i].terminal_state = "none"
    BY <1>1, <1>2, <2>1 DEF SelectItem, ItemRow
  <2> QED
    BY <1>1, <1>2, <2>2, <2>3, <2>4, NextAttemptType
<1>3. CASE ~SelectItem
  <2>1. items'[i].attempt_number = items[i].attempt_number
    BY <1>3, RowFrame
  <2>2. CASE FinishPass \/ WriteGate \/ FinishBlocked \/ FinishEscalated
    <3>1. pc \in AttemptPCs
      BY <2>2, Starts DEF AttemptPCs
    <3>2. it \in Items /\ items[it] \in ItemRow /\ items[it].terminal_state = "none"
      BY <3>1, AttemptFacts
    <3>3. i # it => items'[i] = items[i]
      BY <2>2, AttemptTouches DEF OutcomeStep, IInv
    <3> QED
      BY <2>1, <3>2, <3>3
  <2>3. CASE RecordApproval \/ RecordRejection
    <3>1. it \in Items /\ items[it] \in ItemRow
      BY <1>1, <2>3, Starts DEF IInv, DecisionInv, DecisionPCs
    <3>2. RecordApproval => items' = [items EXCEPT
            ![it] = [@ EXCEPT !.terminal_state = "passed", !.manual_gate_status = "approved"]]
      BY DEF RecordApproval
    <3>3. RecordRejection => items' = [items EXCEPT
            ![it] = [@ EXCEPT !.terminal_state = "escalated", !.manual_gate_status = "rejected"]]
      BY DEF RecordRejection
    <3>4. i = it => items'[i].terminal_state # "none"
      BY <1>1, <2>3, <3>1, <3>2, <3>3 DEF ItemRow
    <3>5. i # it => items'[i] = items[i]
      BY <1>1, <2>3, <3>2, <3>3
    <3> QED
      BY <2>1, <3>4, <3>5
  <2>4. CASE ~OutcomeSteps
    BY <2>1, <2>4, RowFrame
  <2> QED
    BY <1>3, <2>2, <2>3, <2>4 DEF OutcomeSteps
<1> QED
  BY <1>2, <1>3

\* The queue is worked off, or has the one item of an advance or a resume.
LEMMA QueueFrame ==
  ASSUME IInv, Next
  PROVE  \/ call'.queue \in {call.queue, <<>>}
         \/ SelectItem /\ call'.queue = Tail(call.queue)
         \/ \E j \in Items :
              /\ call'.queue = <<j>>
              /\ \/ AdvanceQueue /\ FirstUnfinished(j, items)
                 \/ Resume /\ ResumeTarget(j)
<1>1. call \in Call
  BY DEF IInv, TypeOK
<1>2. NoCall.queue = <<>> /\ NoCall \in Call
  BY NoCallType DEF NoCall
<1>3. Return => call'.queue = <<>>
  BY <1>2 DEF Return
<1>4. CASE PrepareStep \/ MutateStep \/ AuditStep
  BY <1>1, <1>3, <1>4
  DEF PrepareStep, BlockWithoutEvidence, AddWorktree, RecordWorktree, EvidenceMissing,
      PrepareContext, MutateStep, StartMutation, RecordReport, CommitCheckpoint,
      RecordCheckpoint, Verify, AuditStep, BuildAuditPacket, StartCodexAudit,
      StartClaudeAudit, StartTriage, Triage, StageFails, Call
<1>5. CASE OutcomeStep
  BY <1>1, <1>3, <1>5
  DEF OutcomeStep, Land, RecordPass, FinishPass, RequestGate, WriteGate, BlockOnTriage,
      FinishBlocked, Escalate, FinishEscalated, StartFix, StartRemediation, Call
<1>6. CASE DecisionStep
  BY <1>3, <1>6 DEF DecisionStep, LandApproved, RecordApproval, RecordRejection
<1>7. CASE FinishQueue \/ RefuseItem \/ RecordRefresh \/ Interrupt
  BY <1>3, <1>7 DEF FinishQueue, RefuseItem, RecordRefresh, Interrupt
<1>8. CASE SelectItem
  <2>1. CASE call' = [call EXCEPT !.item = Head(call.queue), !.queue = Tail(@),
                    !.evidence = IF call.processed = 0 THEN @ ELSE "none"]
    BY <1>1, <1>8, <2>1 DEF Call
  <2> QED
    BY <1>3, <1>8, <2>1 DEF SelectItem
<1>9. CASE AdvanceQueue
  BY <1>1, <1>3, <1>9 DEF AdvanceQueue, Call
<1>10. CASE Resume
  <2>1. PICK j \in Items, auto \in BOOLEAN, evidence \in Evidence :
          /\ ResumeTarget(j)
          /\ call' = [NoCall EXCEPT !.queue = <<j>>, !.continue = auto,
                        !.limit = IF auto THEN MaxItems ELSE 0, !.evidence = evidence]
    BY <1>10 DEF Resume
  <2>2. call'.queue = <<j>>
    BY <1>2, <2>1 DEF Call
  <2> QED
    BY <1>10, <2>1, <2>2
<1>11. CASE CreateRefreshBranch
  BY <1>11 DEF CreateRefreshBranch
<1>12. CASE \E i \in Items, outcome \in {"approved", "rejected"} : MarkGate(i, outcome)
  BY <1>2, <1>12 DEF MarkGate, Call
<1> QED
  BY <1>4, <1>5, <1>6, <1>7, <1>8, <1>9, <1>10, <1>11, <1>12
  DEF Next, Work, QueueStep, Command

\* Which outcome each step gives, and to which item.
LEMMA NewOutcome ==
  ASSUME IInv, Next, NEW i \in Items, items'[i].terminal_state # items[i].terminal_state
  PROVE  \/ /\ SelectItem /\ i = Head(call.queue) /\ items'[i].terminal_state = "none"
         \/ /\ i = it /\ FinishPass /\ items'[i].terminal_state = "passed"
         \/ /\ i = it /\ WriteGate /\ items'[i].terminal_state = "awaiting_human_gate"
         \/ /\ i = it /\ FinishBlocked /\ items'[i].terminal_state = "blocked_external"
         \/ /\ i = it /\ FinishEscalated /\ items'[i].terminal_state = "escalated"
         \/ /\ i = it /\ RecordApproval /\ items'[i].terminal_state = "passed"
         \/ /\ i = it /\ RecordRejection /\ items'[i].terminal_state = "escalated"
<1>1. items \in [Items -> ItemRow]
  BY DEF IInv, TypeOK
<1>2. CASE SelectItem
  <2>1. Head(call.queue) \in Items
    BY <1>2 DEF SelectItem, IInv, TypeOK, Call
  <2> QED
    BY <1>1, <1>2, <2>1, RowMoves DEF SelectItem
<1>3. CASE FinishPass \/ WriteGate \/ FinishBlocked \/ FinishEscalated
  <2>1. pc \in AttemptPCs
    BY <1>3, Starts DEF AttemptPCs
  <2>2. it \in Items /\ items[it] \in ItemRow /\ row = items[it]
    BY <2>1, AttemptFacts
  <2>3. i = it
    BY <1>3, AttemptTouches DEF OutcomeStep, IInv
  <2>4. CASE WriteGate
    <3> DEFINE waiting == [row EXCEPT !.terminal_state = "awaiting_human_gate",
                                      !.manual_gate_status = "pending"]
               recorded == [waiting EXCEPT !.manual_gate = row.attempt_number]
    <3>1. \/ items' = [items EXCEPT ![it] = waiting]
          \/ items' = [items EXCEPT ![it] = recorded]
      BY <2>4 DEF WriteGate
    <3>2. \A r \in {waiting, recorded} : r.terminal_state = "awaiting_human_gate"
      BY <2>2 DEF ItemRow
    <3> HIDE DEF waiting, recorded
    <3> QED
      BY <1>1, <2>2, <2>3, <2>4, <3>1, <3>2
  <2>5. FinishPass => items'[it].terminal_state = "passed"
    BY <1>1, <2>2 DEF FinishPass, ItemRow
  <2>6. FinishBlocked => items'[it].terminal_state = "blocked_external"
    BY <1>1, <2>2 DEF FinishBlocked, ItemRow
  <2>7. FinishEscalated => items'[it].terminal_state = "escalated"
    BY <1>1, <2>2 DEF FinishEscalated, ItemRow
  <2> QED
    BY <1>3, <2>3, <2>4, <2>5, <2>6, <2>7
<1>4. CASE RecordApproval \/ RecordRejection
  <2>1. it \in Items /\ items[it] \in ItemRow
    BY <1>1, <1>4, Starts DEF IInv, DecisionInv, DecisionPCs
  <2>2. RecordApproval => items' = [items EXCEPT
          ![it] = [@ EXCEPT !.terminal_state = "passed", !.manual_gate_status = "approved"]]
    BY DEF RecordApproval
  <2>3. RecordRejection => items' = [items EXCEPT
          ![it] = [@ EXCEPT !.terminal_state = "escalated", !.manual_gate_status = "rejected"]]
    BY DEF RecordRejection
  <2>4. i = it
    BY <1>1, <1>4, <2>1, <2>2, <2>3
  <2>5. RecordApproval => items'[it].terminal_state = "passed"
    BY <1>1, <2>1, <2>2 DEF ItemRow
  <2>6. RecordRejection => items'[it].terminal_state = "escalated"
    BY <1>1, <2>1, <2>3 DEF ItemRow
  <2> QED
    BY <1>4, <2>4, <2>5, <2>6
<1> QED
  BY <1>2, <1>3, <1>4, RowFrame DEF OutcomeSteps

LEMMA BehindKept == ASSUME IInv, StateInv, BehindInv, Next PROVE BehindInv'
<1> SUFFICES ASSUME NEW i \in Items, items'[i].terminal_state \in Resettable
             PROVE  /\ current_item_id' <= i
                    /\ \A m \in 1..Len(call'.queue) : call'.queue[m] <= i
  BY DEF BehindInv, Resettable
<1>1. IInv' /\ call.queue \in Seq(Items) /\ call'.queue \in Seq(Items) /\ i \in Nat
  <2>1. IInv' /\ call \in Call /\ call' \in Call
    BY NextInv DEF IInv, TypeOK
  <2>2. call.queue \in Seq(Items) /\ call'.queue \in Seq(Items)
    BY <2>1 DEF Call
  <2> QED
    BY <2>1, <2>2, PlanAssumption DEF Items
<1>2. CASE items[i].terminal_state \notin Resettable
  <2>1. /\ i = it /\ Return
        /\ FinishBlocked \/ FinishEscalated \/ RecordRejection
    BY <1>2, NewOutcome DEF Resettable, FinishBlocked, FinishEscalated, RecordRejection
  <2>2. call'.queue = <<>>
    BY <2>1 DEF Return, NoCall
  <2>3. pc \in AttemptPCs \/ RecordRejection
    BY <2>1, Starts DEF AttemptPCs
  <2>4. current_item_id' = it
    <3>1. CASE RecordRejection
      BY <3>1 DEF RecordRejection, SetState
    <3>2. CASE pc \in AttemptPCs /\ ~RecordRejection
      BY <2>1, <3>2, AttemptFacts DEF FinishBlocked, FinishEscalated
    <3> QED
      BY <2>3, <3>1, <3>2
  <2> QED
    BY <1>1, <2>1, <2>2, <2>4
<1>3. CASE items[i].terminal_state \in Resettable
  <2>1. current_item_id <= i /\ \A m \in 1..Len(call.queue) : call.queue[m] <= i
    BY <1>3 DEF BehindInv
  <2>2. SelectItem => Head(call.queue) <= i
    <3>1. SUFFICES ASSUME call.queue # <<>> PROVE Head(call.queue) <= i
      BY DEF SelectItem
    <3>2. 1 \in 1..Len(call.queue) /\ Head(call.queue) = call.queue[1]
      BY <1>1, <3>1
    <3> QED
      BY <2>1, <3>2
  <2>3. current_item_id' <= i
    BY <1>1, <2>1, <2>2, CurrentFrame DEF None
  <2>4. ASSUME NEW j \in Items, FirstUnfinished(j, items) PROVE j <= i
    <3>1. items[i].terminal_state # "passed" /\ DOMAIN items = Items
      BY <1>3 DEF Resettable, IInv, TypeOK
    <3>2. ~(i < j)
      BY <2>4, <3>1 DEF FirstUnfinished
    <3> QED
      BY <3>2, <1>1 DEF Items
  <2>5. \A j \in Items : ResumeTarget(j) => j <= i
    BY <2>1, <2>4 DEF ResumeTarget
  <2>6. \A m \in 1..Len(call'.queue) : call'.queue[m] <= i
    <3>1. CASE call'.queue \in {call.queue, <<>>}
      BY <2>1, <3>1
    <3>2. CASE SelectItem /\ call'.queue = Tail(call.queue)
      <4>1. call.queue # <<>>
        BY <3>2 DEF SelectItem
      <4>2. \A m \in 1..Len(call'.queue) :
              m + 1 \in 1..Len(call.queue) /\ call'.queue[m] = call.queue[m + 1]
        BY <1>1, <3>2, <4>1
      <4> QED
        BY <2>1, <4>2
    <3>3. ASSUME NEW j \in Items, call'.queue = <<j>>,
                 FirstUnfinished(j, items) \/ ResumeTarget(j)
          PROVE  \A m \in 1..Len(call'.queue) : call'.queue[m] <= i
      BY <2>4, <2>5, <3>3
    <3> QED
      BY <3>1, <3>2, <3>3, QueueFrame
  <2> QED
    BY <2>3, <2>6
<1> QED
  BY <1>2, <1>3

LEMMA FreshKept == ASSUME IInv, StateInv, BehindInv, FreshInv, Next PROVE FreshInv'
<1>1. IInv' /\ IInv
  BY NextInv
<1>2. \A i \in Items : /\ items[i] \in ItemRow /\ items'[i] \in ItemRow
                       /\ items[i].attempt_number \in Nat
                       /\ items'[i].attempt_number \in 1..MaxAttempts
  <2>1. items \in [Items -> ItemRow] /\ items' \in [Items -> ItemRow]
    BY <1>1 DEF IInv, TypeOK
  <2>2. \A r \in ItemRow : r.attempt_number \in 1..MaxAttempts /\ r.attempt_number \in Nat
    BY BudgetAssumption DEF ItemRow
  <2> QED
    BY <2>1, <2>2
<1>3. ASSUME pc' = "selected" PROVE Branch(it)' = NoHistory
  <2> DEFINE i == Head(call.queue)
  <2>1. /\ SelectItem /\ CanMove(current_state, "ST10") /\ i \in Items
        /\ call' = [call EXCEPT !.item = i, !.queue = Tail(@),
                      !.evidence = IF call.processed = 0 THEN @ ELSE "none"]
    <3>1. SelectItem
      BY <1>3, Places
    <3>2. call \in Call /\ call.queue # <<>>
      BY <1>1, <3>1 DEF SelectItem, IInv, TypeOK
    <3>3. i \in Items
      BY <3>2 DEF Call
    <3>4. ~Return
      BY <1>3 DEF Return
    <3> QED
      BY <3>1, <3>3, <3>4 DEF SelectItem, SetState
  <2>2. it' = i /\ item_branches' = item_branches
    BY <2>1, GitFrame, Starts DEF it, IInv, TypeOK, Call
  <2>3. /\ items'[i].attempt_number = NextAttemptNumber(items[i])
        /\ NextAttemptNumber(items[i]) \in 1..MaxAttempts
    BY <1>2, <2>1, RowMoves, NextAttemptType DEF SelectItem, IInv, TypeOK, ItemRow
  <2>4. current_state # "ST10"
    BY <2>1 DEF CanMove, TRANSITIONS, StateIds
  <2> HIDE DEF i
  <2>5. item_branches[i][NextAttemptNumber(items[i])] = NoHistory
    BY <1>2, <2>1, <2>3, <2>4 DEF FreshInv, NextAttemptNumber
  <2> QED
    BY <2>2, <2>3, <2>5 DEF Branch
<1>4. ASSUME pc' \in BranchPCs \ {"worktree"} PROVE row'.branch # None
  <2>1. ~SelectItem /\ pc' \in AttemptPCs
    BY <1>4 DEF SelectItem, Return, BranchPCs, AttemptPCs, StagePCs
  <2>2. /\ pc \in AttemptPCs /\ it' = it /\ it \in Items
        /\ row' = items'[it] /\ row = items[it]
    BY <2>1, GoesOn
  <2>3. CASE RecordWorktree
    <3>1. items'[it].branch = row.attempt_number /\ row.attempt_number \in 1..MaxAttempts
      BY <1>2, <2>2, <2>3, AttemptFacts DEF RecordWorktree, ItemRow, IInv, TypeOK
    <3> QED
      BY <2>2, <3>1 DEF None
  <2>4. CASE ~RecordWorktree
    <3>1. pc \in BranchPCs \ {"worktree"}
      BY <1>4, <2>4, Places, Starts
      DEF BranchPCs, StagePCs, PrepareContext, StartMutation, RecordReport,
          BuildAuditPacket, StartCodexAudit, Goto
    <3> QED
      BY <2>2, <2>4, <3>1, RowFrame DEF FreshInv
  <2> QED
    BY <2>3, <2>4
<1>5. ASSUME NEW i \in Items, NEW a \in 1..MaxAttempts, item_branches'[i][a] # NoHistory
      PROVE  /\ a <= items'[i].attempt_number
             /\ \/ a < items'[i].attempt_number
                \/ items'[i].branch # None \/ items'[i].terminal_state # "none"
                \/ current_state' = "ST10" /\ current_item_id' = i /\ pc' # "selected"
  <2>1. CASE item_branches[i][a] = NoHistory
    <3>1. AddWorktree \/ CommitCheckpoint
      BY <1>5, <2>1, GitFrame
    <3>2. pc \in AttemptPCs /\ pc' \in AttemptPCs /\ ~SelectItem
      BY <3>1, Starts DEF AttemptPCs, StagePCs
    <3>3. i = it /\ a = row.attempt_number
      BY <1>1, <1>5, <2>1, <3>1, AttemptTouches DEF PrepareStep, MutateStep, IInv
    <3>4. /\ row = items[it] /\ row' = items'[it] /\ current_item_id' = it
          /\ row'.attempt_number = row.attempt_number
      BY <3>2, GoesOn
    <3>5. CASE AddWorktree
      BY <1>2, <3>3, <3>4, <3>5, Starts DEF AddWorktree, StateInv, saved
    <3>6. CASE CommitCheckpoint
      <4>1. row.branch # None
        BY <3>6, Starts DEF FreshInv, BranchPCs, StagePCs
      <4> QED
        BY <1>2, <3>3, <3>4, <3>6, <4>1, RowFrame, Starts
    <3> QED
      BY <3>1, <3>5, <3>6
  <2>2. CASE item_branches[i][a] # NoHistory
    <3>1. /\ a <= items[i].attempt_number
          /\ \/ a < items[i].attempt_number
             \/ items[i].branch # None \/ items[i].terminal_state # "none"
             \/ current_state = "ST10" /\ current_item_id = i /\ pc # "selected"
      BY <2>2 DEF FreshInv
    <3>2. items[i].branch # None => items'[i].branch # None
      <4>1. CASE RecordWorktree
        <5>1. pc \in AttemptPCs
          BY <4>1, Starts DEF AttemptPCs
        <5>2. it \in Items /\ row = items[it] /\ row.attempt_number \in 1..MaxAttempts
          BY <5>1, AttemptFacts
        <5> QED
          BY <1>2, <4>1, <5>2 DEF RecordWorktree, IInv, TypeOK, ItemRow, None
      <4> QED
        BY <4>1, RowFrame
    <3>3. CASE /\ items'[i].attempt_number = items[i].attempt_number
               /\ items[i].terminal_state # "none" => items'[i].terminal_state # "none"
      <4>1. SUFFICES ASSUME a = items[i].attempt_number, items[i].branch = None,
                            items[i].terminal_state = "none", items'[i].branch = None,
                            items'[i].terminal_state = "none",
                            current_state = "ST10", current_item_id = i, pc # "selected"
                     PROVE  current_state' = "ST10" /\ current_item_id' = i /\ pc' # "selected"
        BY <1>2, <3>1, <3>2, <3>3
      <4>2. ~CanMove(current_state, "ST10")
        BY <4>1 DEF CanMove, TRANSITIONS, StateIds
      <4>3. pc' # "selected"
        BY <4>2, Places DEF SelectItem, SetState, Return
      <4>4. ~(Resume /\ current_state' = "ST05" /\ current_item_id' = None)
        <5>1. SUFFICES ASSUME Resume, current_state' = "ST05" PROVE FALSE
          OBVIOUS
        <5>2. PICK j \in Items : ResumeTarget(j) /\ items[j].terminal_state \in Resettable
          BY <4>1, <5>1 DEF Resume
        <5>3. FirstUnfinished(j, items)
          BY <4>1, <5>2 DEF ResumeTarget
        <5>4. i <= j
          BY <4>1, <5>2 DEF BehindInv
        <5>5. ~(i < j)
          BY <4>1, <5>3 DEF FirstUnfinished, IInv, TypeOK
        <5>6. i = j
          BY <5>4, <5>5 DEF Items
        <5> QED
          BY <4>1, <5>2, <5>6 DEF Resettable
      <4>5. ~RecordApproval /\ ~RecordRejection
        BY <4>1, Starts DEF StateInv, DecisionPCs
      <4>6. ASSUME pc \in AttemptPCs, current_item_id = it
            PROVE  UNCHANGED <<current_state, current_item_id>>
        <5>1. i = it /\ row = items[it]
          BY <4>1, <4>6, AttemptFacts
        <5>2. pc \notin BranchPCs \ {"worktree"}
          BY <4>1, <5>1 DEF FreshInv
        <5>3. pc \notin {"landing", "blocking", "escalating"}
          BY <4>1 DEF StateInv
        <5>4. pc # "passing"
          BY <4>1 DEF IInv, AttemptInv, AttemptPCs
        <5>5. pc = "worktree"
          BY <4>1, <4>6, <5>2, <5>3, <5>4 DEF AttemptPCs, BranchPCs, StagePCs
        <5>6. ~RecordWorktree
          <6>1. SUFFICES ASSUME RecordWorktree PROVE FALSE
            OBVIOUS
          <6>2. items'[it].branch = row.attempt_number /\ row.attempt_number \in 1..MaxAttempts
            BY <1>2, <4>6, <5>1, <6>1, AttemptFacts DEF RecordWorktree, ItemRow, IInv, TypeOK
          <6> QED
            BY <4>1, <5>1, <6>2 DEF None
        <5>7. Interrupt
          BY <5>5, <5>6
          DEF Next, Work, QueueStep, FinishQueue, RefuseItem, SelectItem, AdvanceQueue,
              PrepareStep, BlockWithoutEvidence, AddWorktree, EvidenceMissing,
              PrepareContext, MutateStep, StartMutation, RecordReport, CommitCheckpoint,
              RecordCheckpoint, Verify, AuditStep, BuildAuditPacket, StartCodexAudit,
              StartClaudeAudit, StartTriage, Triage, StageFails, OutcomeStep, Land,
              RecordPass, FinishPass, RequestGate, WriteGate, BlockOnTriage, FinishBlocked,
              Escalate, FinishEscalated, StartFix, StartRemediation, DecisionStep,
              LandApproved, RecordApproval, RecordRejection, RecordRefresh, Command,
              Resume, CreateRefreshBranch, MarkGate, Goto, StagePCs
        <5> QED
          BY <5>7 DEF Interrupt, saved
      <4> QED
        BY <4>1, <4>3, <4>4, <4>5, <4>6, CurrentFrame
    <3>4. CASE /\ SelectItem /\ i = Head(call.queue)
               /\ items'[i].attempt_number = NextAttemptNumber(items[i])
               /\ items'[i].branch = items[i].branch
               /\ items'[i].terminal_state = "none"
      <4>1. CASE items[i].branch # None \/ items[i].terminal_state # "none"
        BY <1>2, <3>1, <3>4, <4>1 DEF NextAttemptNumber
      <4>2. CASE items[i].branch = None /\ items[i].terminal_state = "none"
        <5>1. items'[i].attempt_number = items[i].attempt_number
          BY <3>4, <4>2 DEF NextAttemptNumber
        <5>2. current_state = "ST10" =>
                pc' # "selected" /\ UNCHANGED <<current_state, current_item_id>>
          BY <3>4 DEF SelectItem, SetState, CanMove, TRANSITIONS, StateIds, Return
        <5> QED
          BY <1>2, <3>1, <4>2, <5>1, <5>2
      <4> QED
        BY <4>1, <4>2
    <3> QED
      BY <3>3, <3>4, RowMoves
  <2> QED
    BY <2>1, <2>2
<1>6. ASSUME NEW i \in Items, NEW a \in 1..MaxAttempts, gates'[i][a].status # "absent"
      PROVE  /\ a <= items'[i].attempt_number
             /\ a < items'[i].attempt_number \/ items'[i].terminal_state # "none"
  <2>1. CASE gates[i][a].status = "absent"
    <3>1. WriteGate
      <4>1. SUFFICES ASSUME NEW j \in Items, NEW outcome \in {"approved", "rejected"},
                            MarkGate(j, outcome)
                     PROVE  FALSE
        BY <1>6, <2>1, GitFrame
      <4>2. gates \in [Items -> [1..MaxAttempts -> GateRecord]]
            /\ gates' = [gates EXCEPT ![j][items[j].manual_gate].status = outcome]
            /\ gates[j][items[j].manual_gate].status = "pending"
        BY <1>1, <4>1 DEF MarkGate, IInv, TypeOK, GatePending, GateOf
      <4>3. j # i \/ items[j].manual_gate # a
        BY <2>1, <4>2
      <4> QED
        BY <1>6, <2>1, <4>2, <4>3
    <3>2. pc \in AttemptPCs
      BY <3>1, Starts DEF AttemptPCs, StagePCs
    <3>3. i = it /\ a = row.attempt_number /\ row = items[it]
      BY <1>6, <2>1, <3>1, <3>2, AttemptTouches, AttemptFacts DEF OutcomeStep, IInv
    <3>4. items'[i].terminal_state = "awaiting_human_gate" \/ items[i].terminal_state # "none"
      <4>1. row.terminal_state = "none" /\ it \in Items /\ row \in ItemRow
        BY <3>2, AttemptFacts
      <4> DEFINE waiting == [row EXCEPT !.terminal_state = "awaiting_human_gate",
                                        !.manual_gate_status = "pending"]
                 recorded == [waiting EXCEPT !.manual_gate = row.attempt_number]
      <4>2. \/ items' = [items EXCEPT ![it] = waiting]
            \/ items' = [items EXCEPT ![it] = recorded]
        BY <3>1 DEF WriteGate
      <4>3. \A r \in {waiting, recorded} : r.terminal_state = "awaiting_human_gate"
        BY <4>1 DEF ItemRow
      <4> HIDE DEF waiting, recorded
      <4> QED
        BY <1>1, <3>3, <4>1, <4>2, <4>3 DEF IInv, TypeOK
    <3>5. items'[i].attempt_number = items[i].attempt_number
      BY <3>1, RowFrame, Starts
    <3>6. items[i].terminal_state = "none"
      BY <3>2, <3>3, AttemptFacts
    <3> QED
      BY <1>2, <3>3, <3>4, <3>5, <3>6
  <2>2. CASE gates[i][a].status # "absent"
    <3>1. /\ a <= items[i].attempt_number
          /\ a < items[i].attempt_number \/ items[i].terminal_state # "none"
      BY <2>2 DEF FreshInv
    <3> QED
      BY <1>2, <3>1, RowMoves DEF NextAttemptNumber
  <2> QED
    BY <2>1, <2>2
<1>7. ASSUME NEW i \in Items, items'[i].terminal_state = "awaiting_human_gate"
      PROVE  items'[i].branch # None
  <2>1. CASE items[i].terminal_state = "awaiting_human_gate"
    BY <1>7, <2>1, SettledStays DEF FreshInv
  <2>2. CASE items[i].terminal_state # "awaiting_human_gate"
    <3>1. WriteGate /\ i = it
      BY <1>7, <2>2, NewOutcome
    <3>2. pc = "gating" /\ row = items[it]
      BY <3>1, Starts, AttemptFacts DEF AttemptPCs
    <3> QED
      BY <3>1, <3>2, RowFrame, Starts DEF FreshInv, BranchPCs
  <2> QED
    BY <2>1, <2>2
<1> QED
  BY <1>3, <1>4, <1>5, <1>6, <1>7 DEF FreshInv

-----------------------------------------------------------------------------
(* The run branch *)

\* What the histories are.
LEMMA Histories ==
  ASSUME IInv
  PROVE  /\ RunTip \in Seq(Commits) /\ run_branch \in 1..Len(run_branches)
         /\ run_branches \in Seq(Seq(Commits))
         /\ \A i \in Items, a \in 1..MaxAttempts : item_branches[i][a] \in Seq(Commits)
         /\ \A i \in Items : /\ items[i] \in ItemRow
                             /\ items[i].attempt_number \in 1..MaxAttempts
                             /\ items[i].checkpoint_ref \in Seq(Commits)
                             /\ Branch(i) \in Seq(Commits)
<1>1. /\ run_branch \in 1..Len(run_branches) /\ run_branches \in Seq(Seq(Commits))
      /\ item_branches \in [Items -> [1..MaxAttempts -> Seq(Commits)]]
      /\ items \in [Items -> ItemRow]
  BY DEF IInv, TypeOK
<1>2. \A r \in ItemRow : r.attempt_number \in 1..MaxAttempts /\ r.checkpoint_ref \in Seq(Commits)
  BY DEF ItemRow
<1>3. \A i \in Items : /\ items[i] \in ItemRow /\ items[i].attempt_number \in 1..MaxAttempts
                       /\ items[i].checkpoint_ref \in Seq(Commits)
  BY <1>1, <1>2
<1>4. \A i \in Items, a \in 1..MaxAttempts : item_branches[i][a] \in Seq(Commits)
  BY <1>1
<1>5. \A i \in Items : Branch(i) \in Seq(Commits)
  BY <1>3, <1>4 DEF Branch
<1>6. RunTip \in Seq(Commits)
  <2>1. run_branches[run_branch] \in Seq(Commits)
    BY <1>1
  <2> QED
    BY <2>1 DEF RunTip
<1> QED
  BY <1>1, <1>3, <1>4, <1>5, <1>6

\* The run branch moves to a branch that was reviewed, or to a refresh.
LEMMA TipMoves ==
  ASSUME IInv, ReviewInv, TipInv, Next
  PROVE  \/ RunTip' = RunTip
         \/ Land /\ RunTip' = Branch(it)
         \/ /\ LandApproved /\ pc' = "gate_landed" /\ IsPrefix(RunTip, GateOf(it).ref)
            /\ RunTip' = GateOf(it).ref
         \/ /\ RecordRefresh /\ IsPrefix(RunTip, RunTip')
            /\ adopted' =
                 adopted \cup ToSet(SubSeq(RunTip', Len(RunTip) + 1, Len(RunTip')))
<1>1. /\ run_branch \in 1..Len(run_branches) /\ run_branches \in Seq(Seq(Commits))
      /\ RunTip = run_branches[run_branch]
  BY Histories DEF RunTip
<1>2. CASE Land
  <2>1. run_branches' = [run_branches EXCEPT ![run_branch] = Branch(it)]
        /\ run_branch' = run_branch
    BY <1>2 DEF Land, saved
  <2> QED
    BY <1>1, <1>2, <2>1 DEF RunTip
<1>3. CASE LandApproved
  <2>1. run_branch' = run_branch
    BY <1>3 DEF LandApproved, saved
  <2>2. CASE /\ IsPrefix(RunTip, GateOf(it).ref)
             /\ run_branches' = [run_branches EXCEPT ![run_branch] = GateOf(it).ref]
             /\ pc' = "gate_landed"
    BY <1>1, <1>3, <2>1, <2>2 DEF RunTip
  <2>3. CASE UNCHANGED run_branches
    BY <2>1, <2>3 DEF RunTip
  <2> QED
    BY <1>3, <2>2, <2>3 DEF LandApproved
<1>4. CASE CreateRefreshBranch
  <2>1. PICK target : run_branches' = Append(run_branches, target)
    BY <1>4 DEF CreateRefreshBranch
  <2>2. run_branch' = run_branch
    BY <1>4 DEF CreateRefreshBranch, saved
  <2> QED
    BY <1>1, <2>1, <2>2 DEF RunTip
<1>5. CASE RecordRefresh
  <2>1. run_branch' = Len(run_branches) /\ run_branches' = run_branches /\ pc = "refreshing"
    BY <1>5 DEF RecordRefresh, git
  <2>2. RunTip' = run_branches[Len(run_branches)] /\ RunTip' = Last(run_branches)
    BY <2>1 DEF RunTip, Last
  <2>3. IsPrefix(RunTip, RunTip')
    BY <2>1, <2>2 DEF TipInv
  <2>4. adopted' = adopted \cup ToSet(SubSeq(RunTip', Len(RunTip) + 1, Len(RunTip')))
    BY <1>5, <2>2 DEF RecordRefresh
  <2> QED
    BY <1>5, <2>3, <2>4
<1>6. CASE run_branch' = run_branch /\ run_branches' = run_branches
  BY <1>6 DEF RunTip
<1> QED
  BY <1>2, <1>3, <1>4, <1>5, <1>6, GitFrame

\* It only grows.
LEMMA TipGrows ==
  ASSUME IInv, ReviewInv, TipInv, Next
  PROVE  /\ IsPrefix(RunTip, RunTip') /\ Len(RunTip) <= Len(RunTip')
         /\ RunTip \in Seq(Commits) /\ RunTip' \in Seq(Commits)
<1>1. RunTip \in Seq(Commits)
  BY Histories
<1>2. RunTip' \in Seq(Commits)
  <2>1. IInv'
    BY NextInv
  <2> QED
    BY <2>1 DEF IInv, TypeOK, RunTip
<1>3. IsPrefix(RunTip, RunTip')
  <2>1. CASE RunTip' = RunTip
    BY <1>1, <2>1, PrefixSelf
  <2>2. CASE Land /\ RunTip' = Branch(it)
    BY <2>2, Starts DEF TipInv, BranchPCs
  <2>3. CASE IsPrefix(RunTip, GateOf(it).ref) /\ RunTip' = GateOf(it).ref
    BY <2>3
  <2> QED
    BY <2>1, <2>2, <2>3, TipMoves
<1>4. Len(RunTip) <= Len(RunTip')
  BY <1>1, <1>2, <1>3, PrefixPlaces
<1> QED
  BY <1>1, <1>2, <1>3, <1>4

\* A refresh adopts what it adds.
LEMMA RefreshAdopts ==
  ASSUME RecordRefresh
  PROVE  adopted' = adopted \cup ToSet(SubSeq(RunTip', Len(RunTip) + 1, Len(RunTip')))
<1>1. Last(run_branches) = RunTip'
  BY DEF RecordRefresh, git, Last, RunTip
<1> QED
  BY <1>1 DEF RecordRefresh

\* What a history adds to one it extends.
LEMMA BeyondPrefix ==
  ASSUME NEW S, NEW s \in Seq(S), NEW t \in Seq(S), IsPrefix(s, t), NEW c \in ToSet(t)
  PROVE  c \in ToSet(s) \/ \E n \in 1..Len(t) : n > Len(s) /\ t[n] = c
<1>1. /\ Len(s) <= Len(t) /\ \A n \in 1..Len(s) : s[n] = t[n]
      /\ DOMAIN t = 1..Len(t) /\ DOMAIN s = 1..Len(s) /\ Len(s) \in Nat /\ Len(t) \in Nat
  BY PrefixPlaces
<1>2. PICK n \in 1..Len(t) : t[n] = c
  BY <1>1 DEF ToSet
<1>3. CASE n <= Len(s)
  <2>1. n \in DOMAIN s /\ s[n] = c
    BY <1>1, <1>2, <1>3
  <2> QED
    BY <2>1 DEF ToSet
<1>4. CASE n > Len(s)
  BY <1>2, <1>4
<1> QED
  BY <1>1, <1>3, <1>4

\* What it adds is the end of it.
LEMMA BeyondAdded ==
  ASSUME NEW S, NEW s \in Seq(S), NEW t \in Seq(S), IsPrefix(s, t),
         NEW n \in 1..Len(t), n > Len(s)
  PROVE  t[n] \in ToSet(SubSeq(t, Len(s) + 1, Len(t)))
<1> DEFINE u == SubSeq(t, Len(s) + 1, Len(t))
<1>1. Len(s) \in Nat /\ Len(t) \in Nat /\ Len(s) <= Len(t)
  BY PrefixPlaces
<1>2. /\ DOMAIN u = 1..(Len(t) - Len(s))
      /\ \A m \in 1..(Len(t) - Len(s)) : u[m] = t[Len(s) + m]
  BY <1>1
<1>3. n - Len(s) \in 1..(Len(t) - Len(s)) /\ Len(s) + (n - Len(s)) = n
  BY <1>1
<1>4. n - Len(s) \in DOMAIN u /\ u[n - Len(s)] = t[n]
  BY <1>2, <1>3
<1> QED
  BY <1>4 DEF ToSet

\* An item whose gate is about to land waits for it at the reviewed commit.
LEMMA DecidedRow ==
  ASSUME IInv, StateInv, ReviewInv, pc \in DecisionPCs
  PROVE  /\ it \in Items /\ it \in GateRequired /\ row = items[it]
         /\ row.terminal_state = "awaiting_human_gate"
         /\ row.manual_gate = row.attempt_number
         /\ GateOf(it).ref = row.checkpoint_ref /\ row.checkpoint_ref = Branch(it)
         /\ GateOf(it) = gates[it][row.attempt_number]
         /\ current_state = "ST110" /\ current_item_id = it
         /\ Reviewed(it)
BY DEF IInv, DecisionInv, StateInv, ReviewInv, Reviewed, row, GateOf

\* A commit that comes onto the run branch is of the attempt that lands, or came
\* with a refresh.
LEMMA NewCommits ==
  ASSUME IInv, StateInv, ReviewInv, TipInv, Next,
         NEW c \in ToSet(RunTip'), c \notin ToSet(RunTip)
  PROVE  \/ RecordRefresh /\ c \in adopted'
         \/ /\ Land /\ it \in Items /\ c[1] = it /\ c[2] = items[it].attempt_number
         \/ /\ LandApproved /\ pc' = "gate_landed"
            /\ it \in Items /\ c[1] = it /\ c[2] = items[it].attempt_number
            /\ c \in ToSet(GateOf(it).ref)
<1>1. PICK n \in 1..Len(RunTip') : n > Len(RunTip) /\ RunTip'[n] = c
  BY TipGrows, BeyondPrefix
<1>2. CASE RunTip' = RunTip
  BY <1>2
<1>3. CASE Land /\ RunTip' = Branch(it)
  <2>1. pc = "decide" /\ it \in Items /\ row = items[it]
    BY <1>3, Starts, AttemptFacts DEF AttemptPCs
  <2>2. Own(Branch(it), it, row.attempt_number)
    BY <2>1 DEF TipInv, BranchPCs
  <2> QED
    BY <1>1, <1>3, <2>1, <2>2 DEF Own
<1>4. CASE LandApproved /\ pc' = "gate_landed" /\ RunTip' = GateOf(it).ref
  <2>1. pc \in DecisionPCs
    BY <1>4, Starts DEF DecisionPCs
  <2>2. /\ it \in Items /\ row = items[it] /\ row.checkpoint_ref = GateOf(it).ref
        /\ row.terminal_state = "awaiting_human_gate"
    BY <2>1, DecidedRow
  <2>3. Own(GateOf(it).ref, it, row.attempt_number)
    BY <2>2 DEF TipInv
  <2> QED
    BY <1>1, <1>4, <2>2, <2>3 DEF Own
<1>5. CASE /\ RecordRefresh /\ IsPrefix(RunTip, RunTip')
           /\ adopted' =
                adopted \cup ToSet(SubSeq(RunTip', Len(RunTip) + 1, Len(RunTip')))
  <2>1. c \in ToSet(SubSeq(RunTip', Len(RunTip) + 1, Len(RunTip')))
    BY <1>1, <1>5, TipGrows, BeyondAdded
  <2> QED
    BY <1>5, <2>1
<1> QED
  BY <1>2, <1>3, <1>4, <1>5, TipMoves

\* An attempt is early until it lands.
LEMMA EarlyStays ==
  ASSUME Next, pc' \in EarlyPCs, ~SelectItem
  PROVE  pc \notin {"landing", "passing"}
BY Places, Starts
DEF EarlyPCs, AttemptPCs, StagePCs, BlockWithoutEvidence, PrepareContext, StartMutation,
    RecordReport, BuildAuditPacket, StartCodexAudit, StageFails, BlockOnTriage, Escalate,
    Goto

-----------------------------------------------------------------------------
(* The parts about histories *)

LEMMA TipKept == ASSUME IInv, StateInv, ReviewInv, FreshInv, TipInv, Next PROVE TipInv'
<1>1. IInv'
  BY NextInv
<1>2. /\ RunTip \in Seq(Commits) /\ RunTip' \in Seq(Commits)
      /\ IsPrefix(RunTip, RunTip') /\ Len(RunTip) <= Len(RunTip')
      /\ Len(RunTip) \in Nat /\ Len(RunTip') \in Nat
  BY TipGrows
<1>3. RunTip' # NoHistory
  BY <1>2, PrefixMembers DEF TipInv, NoHistory
<1>4. ASSUME pc' = "refreshing"
      PROVE  IsPrefix(RunTip', run_branches'[Len(run_branches')])
  <2>1. CreateRefreshBranch
    BY <1>4, Places
  <2>2. PICK target \in RefreshTargets : run_branches' = Append(run_branches, target)
    BY <2>1 DEF CreateRefreshBranch
  <2>3. RunTip' = RunTip
    BY <2>1, TipMoves, Starts
  <2>4. run_branches \in Seq(Seq(Commits)) /\ Len(run_branches) \in Nat
    BY Histories
  <2>5. Len(run_branches') = Len(run_branches) + 1
        /\ run_branches'[Len(run_branches) + 1] = target
    <3>1. target \in Seq(Commits)
      BY <2>2, RefTypes DEF RefreshTargets, IInv
    <3> QED
      BY <2>2, <2>4, <3>1
  <2>6. IsPrefix(RunTip, target)
    BY <2>2 DEF RefreshTargets
  <2> QED
    BY <2>3, <2>5, <2>6
<1>5. ASSUME pc' \in BranchPCs
      PROVE  IsPrefix(RunTip', Branch(it)') /\ Own(Branch(it), it, row.attempt_number)'
  <2>1. ~SelectItem /\ pc' \in AttemptPCs
    BY <1>5 DEF SelectItem, Return, BranchPCs, AttemptPCs, StagePCs
  <2>2. /\ pc \in AttemptPCs /\ it' = it /\ it \in Items
        /\ row' = items'[it] /\ row = items[it]
        /\ row'.attempt_number = row.attempt_number
    BY <2>1, GoesOn
  <2>3. RunTip' = RunTip
    BY <1>5, TipMoves, Starts DEF BranchPCs, StagePCs
  <2>4. Branch(it) \in Seq(Commits) /\ row.attempt_number \in 1..MaxAttempts
    BY <2>2, Histories
  <2>5. item_branches \in [Items -> [1..MaxAttempts -> Seq(Commits)]]
    BY DEF IInv, TypeOK
  <2>6. Branch(it)' = item_branches'[it][row.attempt_number]
        /\ Branch(it) = item_branches[it][row.attempt_number]
    BY <2>2 DEF Branch
  <2>7. CASE AddWorktree
    <3>1. item_branches' = [item_branches EXCEPT ![it][row.attempt_number] = RunTip]
      BY <2>7 DEF AddWorktree, WorktreeBase
    <3>2. Branch(it)' = RunTip
      BY <2>2, <2>4, <2>5, <2>6, <3>1
    <3>3. IsPrefix(RunTip, RunTip)
      BY <1>2, PrefixSelf
    <3> QED
      BY <1>2, <2>2, <2>3, <3>2, <3>3 DEF Own
  <2>8. CASE ~AddWorktree
    <3>1. pc \in BranchPCs
      BY <1>5, <2>8, Places, Starts
      DEF BranchPCs, StagePCs, PrepareContext, StartMutation, RecordReport,
          BuildAuditPacket, StartCodexAudit, Goto
    <3>2. IsPrefix(RunTip, Branch(it)) /\ Own(Branch(it), it, row.attempt_number)
      BY <3>1 DEF TipInv
    <3>3. CASE item_branches' = item_branches
      BY <2>2, <2>3, <2>6, <3>2, <3>3 DEF Own
    <3>4. CASE item_branches' # item_branches
      <4> DEFINE c == <<it, row.attempt_number, Round(it)>>
      <4>1. CommitCheckpoint
        BY <2>8, <3>4, GitFrame
      <4>2. item_branches' = [item_branches EXCEPT ![it][row.attempt_number] = Append(@, c)]
        BY <3>4, <4>1 DEF CommitCheckpoint
      <4>3. Branch(it)' = Append(Branch(it), c)
        BY <2>2, <2>4, <2>5, <2>6, <4>2
      <4>4. c \in Commits /\ c[1] = it /\ c[2] = row.attempt_number
        BY <2>2, AttemptFacts, PlanAssumption DEF Commits, Items
      <4> HIDE DEF c
      <4>5. IsPrefix(Branch(it), Append(Branch(it), c)) /\ Append(Branch(it), c) \in Seq(Commits)
        BY <2>4, <4>4, PrefixAppend
      <4>6. IsPrefix(RunTip, Append(Branch(it), c))
        BY <1>2, <2>4, <3>2, <4>5, PrefixTrans
      <4>7. \A n \in 1..Len(Append(Branch(it), c)) :
              \/ n \in 1..Len(Branch(it)) /\ Append(Branch(it), c)[n] = Branch(it)[n]
              \/ Append(Branch(it), c)[n] = c
        BY <2>4, <4>4
      <4> QED
        BY <2>2, <2>3, <3>2, <4>3, <4>4, <4>6, <4>7 DEF Own
    <3> QED
      BY <3>3, <3>4
  <2> QED
    BY <2>7, <2>8
<1>6. ASSUME NEW i \in Items, items'[i].terminal_state = "awaiting_human_gate"
      PROVE  Own(items[i].checkpoint_ref, i, items[i].attempt_number)'
  <2>1. /\ items'[i].checkpoint_ref = items[i].checkpoint_ref
        /\ items'[i].attempt_number = items[i].attempt_number
        /\ Own(items[i].checkpoint_ref, i, items[i].attempt_number)
    <3>1. CASE items[i].terminal_state = "awaiting_human_gate"
      BY <1>6, <3>1, SettledStays DEF TipInv
    <3>2. CASE items[i].terminal_state # "awaiting_human_gate"
      <4>1. WriteGate /\ i = it
        BY <1>6, <3>2, NewOutcome
      <4>2. pc = "gating" /\ row = items[it] /\ pc \in AttemptPCs
        BY <4>1, Starts, AttemptFacts DEF AttemptPCs
      <4>3. row.checkpoint_ref = Branch(it) /\ Own(Branch(it), it, row.attempt_number)
        BY <4>2 DEF TipInv, BranchPCs, IInv, AttemptInv, ReviewedPCs
      <4> QED
        BY <4>1, <4>2, <4>3, RowFrame, Starts
    <3> QED
      BY <3>1, <3>2
  <2>2. items[i].checkpoint_ref \in Seq(Commits)
    BY Histories
  <2> QED
    BY <1>2, <2>1, <2>2 DEF Own
<1>7. ASSUME pc' \in {"landing", "passing"} PROVE RunTip' = row'.checkpoint_ref
  <2>1. /\ Land \/ RecordPass
        /\ pc' \in AttemptPCs /\ pc \in {"decide", "landing"} /\ ~SelectItem
    BY <1>7, Places, Starts DEF AttemptPCs
  <2>2. /\ it' = it /\ row' = items'[it] /\ row = items[it] /\ UNCHANGED items
    BY <2>1, GoesOn DEF Land, RecordPass, saved
  <2>3. CASE Land
    <3>1. RunTip' = Branch(it)
      <4>1. RunTip' = run_branches'[run_branch'] /\ UNCHANGED run_branch
            /\ run_branches' = [run_branches EXCEPT ![run_branch] = Branch(it)]
        BY <2>3 DEF Land, saved, RunTip
      <4> QED
        BY <4>1, Histories
    <3>2. row.checkpoint_ref = Branch(it)
      BY <2>3, Starts DEF IInv, AttemptInv, ReviewedPCs, AttemptPCs
    <3> QED
      BY <2>2, <3>1, <3>2
  <2>4. CASE RecordPass
    <3>1. RunTip' = RunTip /\ pc = "landing"
      BY <2>4, TipMoves, Starts
    <3> QED
      BY <2>2, <3>1 DEF TipInv
  <2> QED
    BY <2>1, <2>3, <2>4
<1>8. ASSUME pc' = "gate_landed" PROVE RunTip' = row'.checkpoint_ref
  <2>1. LandApproved /\ pc \in DecisionPCs /\ pc = "gate_approved"
    BY <1>8, Places, Starts DEF DecisionPCs
  <2>2. RunTip' = GateOf(it).ref
    <3>1. RunTip' = run_branches'[run_branch'] /\ UNCHANGED run_branch
          /\ run_branches' = [run_branches EXCEPT ![run_branch] = GateOf(it).ref]
      BY <1>8, <2>1 DEF LandApproved, saved, RunTip, Return
    <3> QED
      BY <3>1, Histories
  <2>3. UNCHANGED <<items, call>>
    BY <1>8, <2>1 DEF LandApproved, saved, Return
  <2> QED
    BY <2>1, <2>2, <2>3, DecidedRow DEF row, it
<1> QED
  BY <1>3, <1>4, <1>5, <1>6, <1>7, <1>8 DEF TipInv

\* What CommitInv says of a commit on the run branch.
LEMMA TipCommits ==
  ASSUME IInv, CommitInv, NEW c \in ToSet(RunTip), c[1] \in Items
  PROVE  /\ items[c[1]].branch # None
         /\ c[2] >= 1 /\ c[2] <= items[c[1]].attempt_number
         /\ pc \in EarlyPCs /\ c[1] = it => c[2] < items[c[1]].attempt_number
<1>1. RunTip \in Branches
  BY Histories DEF RunTip, Branches, ToSet
<1> QED
  BY <1>1 DEF CommitInv

\* A ref names commits of a branch, or one more from outside.
LEMMA RefCommits ==
  ASSUME TypeOK, NEW h \in Refs, NEW c \in ToSet(h), c[1] # None
  PROVE  \E b \in Branches : c \in ToSet(b)
<1>1. PICK b \in Branches : \E n \in 1..Len(b) :
        \/ h = SubSeq(b, 1, n)
        \/ h = Append(SubSeq(b, 1, n), External(Len(run_branches)))
  BY DEF Refs
<1>2. PICK n \in 1..Len(b) :
        \/ h = SubSeq(b, 1, n)
        \/ h = Append(SubSeq(b, 1, n), External(Len(run_branches)))
  BY <1>1
<1>3. b \in Seq(Commits)
  <2>1. ToSet(run_branches) \subseteq Seq(Commits)
    BY DEF TypeOK, ToSet
  <2>2. \A i \in Items, a \in 1..MaxAttempts : item_branches[i][a] \in Seq(Commits)
    BY DEF TypeOK
  <2> QED
    BY <2>1, <2>2 DEF Branches
<1>4. PICK m \in 1..Len(h) : h[m] = c
  BY RefTypes DEF ToSet
<1>5. External(Len(run_branches))[1] = None
  BY DEF External
<1>6. m \in 1..n /\ h[m] = b[m]
  <2>1. SubSeq(b, 1, n) \in Seq(Commits) /\ Len(SubSeq(b, 1, n)) = n
        /\ \A k \in 1..n : SubSeq(b, 1, n)[k] = b[k]
    BY <1>3
  <2>2. CASE h = SubSeq(b, 1, n)
    BY <1>4, <2>1, <2>2
  <2>3. CASE h = Append(SubSeq(b, 1, n), External(Len(run_branches)))
    <3>1. m \in 1..n \/ h[m] = External(Len(run_branches))
      BY <1>4, <2>1, <2>3
    <3>2. m \in 1..n
      BY <1>4, <1>5, <3>1
    <3> QED
      BY <2>1, <2>3, <3>2
  <2> QED
    BY <1>2, <2>2, <2>3
<1> QED
  BY <1>1, <1>3, <1>4, <1>6 DEF ToSet

\* A branch holds commits that some branch held, but for the one that the attempt
\* under way makes.
LEMMA BranchCommits ==
  ASSUME IInv, StateInv, ReviewInv, FreshInv, Next,
         NEW h \in Branches', NEW c \in ToSet(h), c[1] \in Items
  PROVE  \/ \E b \in Branches : c \in ToSet(b)
         \/ items[c[1]].branch # None /\ c[2] = items[c[1]].attempt_number
<1>1. /\ run_branch \in 1..Len(run_branches) /\ run_branches \in Seq(Seq(Commits))
      /\ item_branches \in [Items -> [1..MaxAttempts -> Seq(Commits)]] /\ TypeOK
  BY DEF IInv, TypeOK
<1>2. /\ RunTip \in Branches /\ \A n \in 1..Len(run_branches) : run_branches[n] \in Branches
      /\ \A i \in Items : Branch(i) \in Branches
      /\ \A i \in Items, a \in 1..MaxAttempts : item_branches[i][a] \in Branches
  BY <1>1, Histories DEF RunTip, Branch, Branches, ToSet
<1>3. CASE \E n \in 1..Len(run_branches') : h = run_branches'[n]
  <2>1. PICK n \in 1..Len(run_branches') : h = run_branches'[n]
    BY <1>3
  <2>2. CASE run_branches' = run_branches
    BY <1>2, <2>1, <2>2
  <2>3. CASE Land
    <3>1. run_branches' = [run_branches EXCEPT ![run_branch] = Branch(it)]
      BY <2>3 DEF Land
    <3>2. it \in Items
      BY <2>3, Starts, AttemptFacts DEF AttemptPCs
    <3>3. h \in Branches
      BY <1>1, <1>2, <2>1, <3>1, <3>2
    <3> QED
      BY <3>3
  <2>4. CASE LandApproved
    <3>1. \/ run_branches' = run_branches
          \/ run_branches' = [run_branches EXCEPT ![run_branch] = GateOf(it).ref]
      BY <2>4 DEF LandApproved
    <3>2. it \in Items /\ GateOf(it).ref = Branch(it)
      BY <2>4, Starts, DecidedRow DEF DecisionPCs
    <3>3. CASE run_branches' = run_branches
      BY <1>2, <2>1, <3>3
    <3>4. CASE run_branches' = [run_branches EXCEPT ![run_branch] = Branch(it)]
      BY <1>1, <1>2, <2>1, <3>2, <3>4
    <3> QED
      BY <3>1, <3>2, <3>3, <3>4
  <2>5. CASE CreateRefreshBranch
    <3>1. PICK target \in RefreshTargets : run_branches' = Append(run_branches, target)
      BY <2>5 DEF CreateRefreshBranch
    <3>2. target \in Refs /\ target \in Seq(Commits)
      BY <1>1, <3>1, RefTypes DEF RefreshTargets
    <3>3. (n \in 1..Len(run_branches) /\ h = run_branches[n]) \/ h = target
      <4>1. /\ Len(run_branches') = Len(run_branches) + 1
            /\ \A k \in 1..Len(run_branches) : run_branches'[k] = run_branches[k]
            /\ run_branches'[Len(run_branches) + 1] = target
        BY <1>1, <3>1, <3>2
      <4>2. Len(run_branches) \in Nat
        BY <1>1
      <4> QED
        BY <2>1, <4>1, <4>2
    <3>4. c[1] # None
      BY DEF Items, None
    <3> QED
      BY <1>1, <1>2, <3>2, <3>3, <3>4, RefCommits
  <2> QED
    BY <2>2, <2>3, <2>4, <2>5, GitFrame
<1>4. CASE \E i \in Items, a \in 1..MaxAttempts : h = item_branches'[i][a]
  <2>1. PICK i \in Items, a \in 1..MaxAttempts : h = item_branches'[i][a]
    BY <1>4
  <2>2. CASE item_branches' = item_branches
    BY <1>2, <2>1, <2>2
  <2>3. CASE AddWorktree
    <3>1. item_branches' = [item_branches EXCEPT ![it][row.attempt_number] = RunTip]
      BY <2>3 DEF AddWorktree, WorktreeBase
    <3>2. it \in Items /\ row.attempt_number \in 1..MaxAttempts
      BY <2>3, Starts, AttemptFacts DEF AttemptPCs
    <3>3. h = RunTip \/ h = item_branches[i][a]
      BY <1>1, <2>1, <3>1, <3>2
    <3> QED
      BY <1>2, <2>1, <3>3
  <2>4. CASE CommitCheckpoint
    <3> DEFINE e == <<it, row.attempt_number, Round(it)>>
    <3>1. pc = "reported" /\ pc \in AttemptPCs
      BY <2>4, Starts DEF AttemptPCs, StagePCs
    <3>2. it \in Items /\ row = items[it] /\ row.attempt_number \in 1..MaxAttempts
      BY <3>1, AttemptFacts
    <3>3. row.branch # None
      BY <3>1 DEF FreshInv, BranchPCs, StagePCs
    <3>4. e \in Commits /\ e[1] = it /\ e[2] = row.attempt_number
      <4>1. it \in Nat /\ row.attempt_number \in Nat
        BY <3>2, PlanAssumption DEF Items
      <4>2. Round(it) \in Nat
        BY <3>1, AttemptFacts
      <4> QED
        BY ONLY <4>1, <4>2 DEF Commits
    <3>5. CASE item_branches' =
                 [item_branches EXCEPT ![it][row.attempt_number] = Append(@, e)]
      <4> HIDE DEF e
      <4>1. \/ h = item_branches[i][a]
            \/ h = Append(item_branches[i][a], e)
        BY <1>1, <2>1, <3>2, <3>5
      <4>2. item_branches[i][a] \in Seq(Commits) /\ item_branches[i][a] \in Branches
        BY <1>1, <1>2, <2>1
      <4>3. c \in ToSet(item_branches[i][a]) \/ c = e
        <5>1. CASE h = Append(item_branches[i][a], e)
          <6>1. PICK m \in DOMAIN h : h[m] = c
            BY DEF ToSet
          <6>2. \/ m \in DOMAIN item_branches[i][a] /\ h[m] = item_branches[i][a][m]
                \/ h[m] = e
            BY <3>4, <4>2, <5>1, <6>1
          <6> QED
            BY <6>1, <6>2 DEF ToSet
        <5> QED
          BY <4>1, <5>1
      <4> QED
        BY <3>2, <3>3, <3>4, <4>2, <4>3
    <3> QED
      BY <2>2, <2>4, <3>5 DEF CommitCheckpoint
  <2> QED
    BY <2>2, <2>3, <2>4, GitFrame
<1> QED
  <2>1. run_branches' \in Seq(Seq(Commits))
    BY NextInv DEF IInv, TypeOK
  <2> QED
    BY <1>3, <1>4, <2>1 DEF Branches, ToSet

LEMMA CommitKept ==
  ASSUME IInv, StateInv, ReviewInv, FreshInv, TipInv, CommitInv, Next
  PROVE  CommitInv'
<1>1. ASSUME NEW i \in Items
      PROVE  /\ items[i].attempt_number \in Nat /\ items'[i].attempt_number \in Nat
             /\ items[i].branch # None => items'[i].branch # None
             /\ items[i].attempt_number <= items'[i].attempt_number
  <2>1. items'[i] \in ItemRow /\ items[i] \in ItemRow
    BY NextInv, Histories DEF IInv, TypeOK
  <2>2. \A r \in ItemRow : r.attempt_number \in Nat
    BY BudgetAssumption DEF ItemRow
  <2>3. items[i].branch # None => items'[i].branch # None
    <3>1. CASE RecordWorktree
      <4>1. pc \in AttemptPCs
        BY <3>1, Starts DEF AttemptPCs
      <4>2. /\ it \in Items /\ row.attempt_number \in 1..MaxAttempts
            /\ items \in [Items -> ItemRow] /\ items[it] \in ItemRow
        BY <4>1, AttemptFacts
      <4>3. items' = [items EXCEPT ![it].branch = row.attempt_number]
        BY <3>1 DEF RecordWorktree
      <4>4. items'[it].branch = row.attempt_number
        BY <4>2, <4>3 DEF ItemRow
      <4>5. i # it => items'[i] = items[i]
        BY <4>2, <4>3
      <4>6. row.attempt_number # None
        BY <4>2 DEF None
      <4> QED
        BY <4>4, <4>5, <4>6
    <3> QED
      BY <3>1, RowFrame
  <2>4. items[i].attempt_number <= items'[i].attempt_number
    BY <2>1, <2>2, RowMoves DEF NextAttemptNumber
  <2> QED
    BY <2>1, <2>2, <2>3, <2>4
<1>2. ASSUME NEW h \in Branches', NEW c \in ToSet(h), c[1] \in Items
      PROVE  /\ items'[c[1]].branch # None
             /\ c[2] >= 1 /\ c[2] <= items'[c[1]].attempt_number
  <2> DEFINE i == c[1]
  <2>1. CASE \E b \in Branches : c \in ToSet(b)
    <3>1. PICK b \in Branches : c \in ToSet(b)
      BY <2>1
    <3>2. items[i].branch # None /\ c[2] >= 1 /\ c[2] <= items[i].attempt_number
      BY <1>2, <3>1 DEF CommitInv
    <3>3. c[2] \in Nat
      <4>1. b \in Seq(Commits)
        <5>1. run_branches \in Seq(Seq(Commits))
          BY DEF IInv, TypeOK
        <5> QED
          BY <3>1, <5>1, Histories DEF Branches, ToSet
      <4> QED
        BY <3>1, <4>1 DEF ToSet, Commits
    <3> HIDE DEF i
    <3>4. i \in Items
      BY <1>2 DEF i
    <3> QED
      BY <1>1, <3>2, <3>3, <3>4 DEF i
  <2>2. CASE items[i].branch # None /\ c[2] = items[i].attempt_number
    <3>1. items[i].attempt_number \in 1..MaxAttempts
      BY <1>2, Histories
    <3> HIDE DEF i
    <3>2. i \in Items
      BY <1>2 DEF i
    <3> QED
      BY <1>1, <2>2, <3>1, <3>2 DEF i
  <2> QED
    BY <1>2, <2>1, <2>2, BranchCommits
<1>3. ASSUME NEW c \in ToSet(RunTip'), c[1] \in Items, pc' \in EarlyPCs, c[1] = it'
      PROVE  c[2] < items'[c[1]].attempt_number
  <2> DEFINE i == c[1]
  <2>1. i \in Items /\ c \in ToSet(RunTip) /\ c[2] \in Nat
    <3>1. RunTip' = RunTip
      BY <1>3, TipMoves, Starts DEF EarlyPCs, AttemptPCs, StagePCs
    <3> QED
      BY <1>3, <3>1, Histories DEF ToSet, Commits
  <2>2. /\ items[i].branch # None /\ c[2] <= items[i].attempt_number
        /\ pc \in EarlyPCs /\ i = it => c[2] < items[i].attempt_number
    BY <2>1, TipCommits
  <2> HIDE DEF i
  <2>3. CASE SelectItem
    <3>1. call' = [call EXCEPT !.item = Head(call.queue), !.queue = Tail(@),
                    !.evidence = IF call.processed = 0 THEN @ ELSE "none"]
      BY <1>3, <2>3 DEF SelectItem, Return, EarlyPCs, AttemptPCs, StagePCs
    <3>2. i = Head(call.queue)
      BY <1>3, <3>1 DEF i, it, IInv, TypeOK, Call
    <3>3. items'[i].attempt_number = NextAttemptNumber(items[i])
      <4>1. items \in [Items -> ItemRow]
        BY DEF IInv, TypeOK
      <4> QED
        BY <2>1, <2>3, <3>2, <4>1 DEF SelectItem, ItemRow
    <3>4. items'[i].attempt_number = items[i].attempt_number + 1
      BY <2>2, <3>3 DEF NextAttemptNumber
    <3> QED
      BY <1>1, <2>1, <2>2, <3>4 DEF i
  <2>4. CASE ~SelectItem
    <3>1. pc \in EarlyPCs /\ it' = it
      BY <1>3, <2>4, GoesOn, EarlyStays DEF EarlyPCs
    <3>2. items'[i].attempt_number = items[i].attempt_number
      BY <2>1, <2>4, RowMoves
    <3> QED
      BY <1>3, <2>2, <3>1, <3>2 DEF i
  <2> QED
    BY <2>3, <2>4
<1> QED
  BY <1>2, <1>3 DEF CommitInv

LEMMA GuardKept ==
  ASSUME IInv, StateInv, ReviewInv, TipInv, CommitInv, GateGuardsLanding, Next
  PROVE  GateGuardsLanding'
<1> SUFFICES ASSUME NEW c \in ToSet(RunTip') \ adopted', c[1] \in GateRequired
             PROVE  /\ gates'[c[1]][c[2]].status = "approved"
                    /\ c \in ToSet(gates'[c[1]][c[2]].ref)
  BY DEF GateGuardsLanding
<1>1. gates \in [Items -> [1..MaxAttempts -> GateRecord]] /\ c[1] \in Items /\ c[1] # None
  <2>1. gates \in [Items -> [1..MaxAttempts -> GateRecord]]
    BY DEF IInv, TypeOK
  <2>2. c[1] \in Items
    BY PlanAssumption
  <2> QED
    BY <2>1, <2>2 DEF Items, None
<1>2. CASE c \in ToSet(RunTip)
  <2>1. gates[c[1]][c[2]].status = "approved" /\ c \in ToSet(gates[c[1]][c[2]].ref)
    BY <1>2, GitFrame DEF GateGuardsLanding
  <2>2. c[2] \in 1..MaxAttempts
    <3>1. c[2] >= 1 /\ c[2] <= items[c[1]].attempt_number
      BY <1>1, <1>2, TipCommits
    <3>2. c[2] \in Nat
      BY <1>2, Histories DEF ToSet, Commits
    <3>3. items[c[1]].attempt_number \in 1..MaxAttempts
      BY <1>1, Histories
    <3>4. MaxAttempts \in Nat
      BY BudgetAssumption
    <3> QED
      BY <3>1, <3>2, <3>3, <3>4
  <2>3. CASE WriteGate
    <3>1. pc \in AttemptPCs /\ pc \in EarlyPCs
      BY <2>3, Starts DEF AttemptPCs, EarlyPCs
    <3>2. c[1] # it \/ c[2] # row.attempt_number
      BY <1>1, <1>2, <3>1, AttemptFacts, TipCommits
    <3> QED
      BY <1>1, <2>1, <2>2, <2>3, <3>2, AttemptTouches DEF OutcomeStep, IInv
  <2>4. ASSUME NEW j \in Items, NEW outcome \in {"approved", "rejected"}, MarkGate(j, outcome)
        PROVE  gates'[c[1]][c[2]] = gates[c[1]][c[2]]
    <3>1. gates' = [gates EXCEPT ![j][items[j].manual_gate].status = outcome]
          /\ gates[j][items[j].manual_gate].status = "pending"
      BY <2>4 DEF MarkGate, GatePending, GateOf
    <3>2. c[1] # j \/ c[2] # items[j].manual_gate
      BY <2>1, <3>1
    <3> QED
      BY <1>1, <2>2, <3>1, <3>2
  <2> QED
    BY <2>1, <2>3, <2>4, GitFrame
<1>3. CASE c \notin ToSet(RunTip)
  <2>1. \/ Land /\ c[1] = it
        \/ LandApproved /\ c[1] = it /\ c[2] = items[it].attempt_number
           /\ c \in ToSet(GateOf(it).ref)
    BY <1>1, <1>3, NewCommits
  <2>2. ~Land \/ c[1] # it
    BY DEF Land
  <2>3. LandApproved /\ pc = "gate_approved" /\ pc \in DecisionPCs /\ gates' = gates
    BY <2>1, <2>2, Starts DEF LandApproved, DecisionPCs
  <2>4. GateOf(it) = gates[it][row.attempt_number] /\ row = items[it]
    BY <2>3, DecidedRow
  <2>5. GateOf(it).status = "approved"
    BY <2>3 DEF StateInv, DecisionPCs
  <2> QED
    BY <2>1, <2>2, <2>3, <2>4, <2>5
<1> QED
  BY <1>2, <1>3

LEMMA LandedKept ==
  ASSUME IInv, StateInv, ReviewInv, TipInv, PassedIsLanded, Next
  PROVE  PassedIsLanded'
<1> SUFFICES ASSUME NEW i \in Items, items'[i].terminal_state = "passed"
             PROVE  /\ items'[i].checkpoint_ref # NoHistory
                    /\ IsPrefix(items'[i].checkpoint_ref, RunTip')
  BY DEF PassedIsLanded
<1>1. /\ RunTip \in Seq(Commits) /\ RunTip' \in Seq(Commits)
      /\ IsPrefix(RunTip, RunTip') /\ items[i].checkpoint_ref \in Seq(Commits)
  BY TipGrows, Histories
<1>2. CASE items[i].terminal_state = "passed"
  <2>1. items'[i].checkpoint_ref = items[i].checkpoint_ref
    BY <1>2, PassedRowStays
  <2> QED
    BY <1>1, <1>2, <2>1, PrefixTrans DEF PassedIsLanded
<1>3. CASE items[i].terminal_state # "passed"
  <2>1. i = it /\ (FinishPass \/ RecordApproval)
    BY <1>3, NewOutcome
  <2>2. RunTip = items[i].checkpoint_ref /\ RunTip # NoHistory
    <3>1. CASE FinishPass
      <4>1. pc = "passing" /\ pc \in AttemptPCs
        BY <3>1, Starts DEF AttemptPCs
      <4> QED
        BY <2>1, <4>1, AttemptFacts DEF TipInv
    <3>2. CASE RecordApproval
      <4>1. pc = "gate_landed" /\ pc \in DecisionPCs
        BY <3>2, Starts DEF DecisionPCs
      <4> QED
        BY <2>1, <4>1, DecidedRow DEF TipInv
    <3> QED
      BY <2>1, <3>1, <3>2
  <2>3. items'[i].checkpoint_ref = items[i].checkpoint_ref
    BY <2>1, RowFrame, Starts
  <2> QED
    BY <1>1, <2>2, <2>3
<1> QED
  BY <1>2, <1>3

LEMMA BuildKept ==
  ASSUME IInv, StateInv, ReviewInv, TipInv, PassedIsLanded, BuildInv, Next
  PROVE  BuildInv'
<1>1. /\ item_branches \in [Items -> [1..MaxAttempts -> Seq(Commits)]]
      /\ DOMAIN items = Items /\ DOMAIN items' = Items
  BY NextInv DEF IInv, TypeOK
<1>2. \A j \in Items : items[j].terminal_state = "passed" => items'[j] = items[j]
  BY PassedRowStays
<1>3. ASSUME pc' = "selected"
      PROVE  PrerequisitesSatisfied(Prerequisites[it], items)'
  <2>1. SelectItem
    BY <1>3, Places
  <2>2. call.queue # <<>> /\ call \in Call
    BY <2>1 DEF SelectItem, IInv, TypeOK
  <2>3. Head(call.queue) \in Items
    BY <2>2 DEF Call
  <2>4. call' = [call EXCEPT !.item = Head(call.queue), !.queue = Tail(@),
                  !.evidence = IF call.processed = 0 THEN @ ELSE "none"]
    BY <1>3, <2>1 DEF SelectItem, Return
  <2>5. it' = Head(call.queue)
    BY <2>2, <2>4 DEF it, Call
  <2>6. PrerequisitesSatisfied(Prerequisites[Head(call.queue)], items)
    BY <2>1 DEF SelectItem
  <2> QED
    BY <1>1, <1>2, <2>3, <2>5, <2>6 DEF PrerequisitesSatisfied
<1>4. ASSUME NEW i \in Items, NEW a \in 1..MaxAttempts, item_branches'[i][a] # NoHistory,
             NEW j \in Prerequisites[i]
      PROVE  /\ j \in Items /\ items'[j].terminal_state = "passed"
             /\ IsPrefix(items'[j].checkpoint_ref, item_branches'[i][a])
  <2>1. /\ \A k \in Items : items[k].checkpoint_ref \in Seq(Commits)
        /\ item_branches[i][a] \in Seq(Commits)
    BY <1>4, Histories
  <2>2. CASE item_branches'[i][a] = item_branches[i][a]
    BY <1>2, <1>4, <2>1, <2>2 DEF BuildInv
  <2>3. CASE item_branches'[i][a] # item_branches[i][a]
    <3>1. AddWorktree \/ CommitCheckpoint
      BY <2>3, GitFrame
    <3>2. pc \in AttemptPCs
      BY <3>1, Starts DEF AttemptPCs, StagePCs
    <3>3. i = it /\ a = row.attempt_number /\ row = items[it]
      BY <2>3, <3>1, <3>2, AttemptTouches, AttemptFacts DEF PrepareStep, MutateStep, IInv
    <3>4. CASE AddWorktree
      <4>1. item_branches'[i][a] = RunTip
        BY <1>1, <3>3, <3>4 DEF AddWorktree, WorktreeBase
      <4>2. j \in Items /\ items[j].terminal_state = "passed"
        BY <1>1, <1>4, <3>3, <3>4, Starts DEF BuildInv, PrerequisitesSatisfied
      <4>3. IsPrefix(items[j].checkpoint_ref, RunTip)
        BY <2>1, <4>2 DEF PassedIsLanded
      <4> QED
        BY <1>2, <2>1, <4>1, <4>2, <4>3
    <3>5. CASE CommitCheckpoint
      <4> DEFINE c == <<it, row.attempt_number, Round(it)>>
      <4>1. item_branches' = [item_branches EXCEPT ![it][row.attempt_number] = Append(@, c)]
        BY <2>3, <3>5 DEF CommitCheckpoint
      <4>2. item_branches'[i][a] = Append(item_branches[i][a], c)
        BY <1>1, <3>3, <4>1
      <4>3. c \in Commits
        <5>1. it \in Items /\ row.attempt_number \in 1..MaxAttempts /\ Round(it) \in Nat
          BY <3>2, AttemptFacts
        <5>2. it \in Nat /\ row.attempt_number \in Nat
          BY <5>1 DEF Items
        <5> QED
          BY <5>1, <5>2 DEF Commits
      <4> HIDE DEF c
      <4>4. IsPrefix(item_branches[i][a], Append(item_branches[i][a], c))
            /\ Append(item_branches[i][a], c) \in Seq(Commits)
        BY <2>1, <4>3, PrefixAppend
      <4>5. item_branches[i][a] # NoHistory
        <5>1. IsPrefix(RunTip, Branch(it)) /\ RunTip # NoHistory
          BY <3>5, Starts DEF TipInv, BranchPCs, StagePCs
        <5>2. Branch(it) = item_branches[i][a] /\ RunTip \in Seq(Commits)
          BY <3>3, Histories DEF Branch
        <5> QED
          BY <2>1, <5>1, <5>2, PrefixMembers DEF NoHistory
      <4>6. /\ j \in Items /\ items[j].terminal_state = "passed"
            /\ IsPrefix(items[j].checkpoint_ref, item_branches[i][a])
        BY <1>4, <4>5 DEF BuildInv
      <4> QED
        BY <1>2, <2>1, <4>2, <4>4, <4>6, PrefixTrans
    <3> QED
      BY <3>1, <3>4, <3>5
  <2> QED
    BY <2>2, <2>3
<1> QED
  BY <1>3, <1>4 DEF BuildInv

-----------------------------------------------------------------------------
(* Landing once *)

\* What a process does next where only one thing is left to do.
LEMMA Leaves ==
  ASSUME Next
  PROVE  /\ pc = "landing" => RecordPass \/ Interrupt
         /\ pc = "passing" => FinishPass \/ Interrupt
         /\ pc = "gate_landed" => RecordApproval \/ Interrupt
BY DEF Next, Work, QueueStep, FinishQueue, RefuseItem, SelectItem, AdvanceQueue,
       PrepareStep, BlockWithoutEvidence, AddWorktree, RecordWorktree, EvidenceMissing,
       PrepareContext, MutateStep, StartMutation, RecordReport, CommitCheckpoint,
       RecordCheckpoint, Verify, AuditStep, BuildAuditPacket, StartCodexAudit,
       StartClaudeAudit, StartTriage, Triage, StageFails, OutcomeStep, Land,
       RecordPass, FinishPass, RequestGate, WriteGate, BlockOnTriage, FinishBlocked,
       Escalate, FinishEscalated, StartFix, StartRemediation, DecisionStep,
       LandApproved, RecordApproval, RecordRejection, RecordRefresh, Command,
       Resume, CreateRefreshBranch, MarkGate, Goto, StagePCs

\* What a pass records, and for whom.
LEMMA Recorded ==
  ASSUME IInv, StateInv, ReviewInv, FinishPass \/ RecordApproval
  PROVE  it \in Items /\ items'[it].terminal_state = "passed"
<1>1. items \in [Items -> ItemRow]
  BY DEF IInv, TypeOK
<1>2. CASE FinishPass
  <2>1. pc \in AttemptPCs
    BY <1>2, Starts DEF AttemptPCs
  <2>2. it \in Items /\ items[it] \in ItemRow
    BY <1>1, <2>1, AttemptFacts
  <2> QED
    BY <1>1, <1>2, <2>2 DEF FinishPass, ItemRow
<1>3. CASE RecordApproval
  <2>1. pc \in DecisionPCs
    BY <1>3, Starts DEF DecisionPCs
  <2>2. it \in Items /\ items[it] \in ItemRow
    BY <1>1, <2>1, DecidedRow
  <2>3. items' = [items EXCEPT ![it] =
          [@ EXCEPT !.terminal_state = "passed", !.manual_gate_status = "approved"]]
    BY <1>3 DEF RecordApproval
  <2> QED
    BY <1>1, <2>2, <2>3 DEF ItemRow
<1> QED
  BY <1>2, <1>3

\* It stays so, unless the process dies at the one point in between.
LEMMA WayKept ==
  ASSUME IInv, StateInv, ReviewInv, BehindInv, Next, "passing" \notin mishaps',
         NEW j \in Items, OnItsWay(j)
  PROVE  OnItsWay(j)'
<1>1. CASE items[j].terminal_state = "passed"
  BY <1>1, PassedRowStays DEF OnItsWay
<1>2. CASE pc = "passing" /\ it = j
  <2>1. FinishPass
    BY <1>2, Leaves DEF Interrupt
  <2> QED
    BY <1>2, <2>1, Recorded DEF OnItsWay
<1>3. CASE /\ current_item_id = j /\ current_state = "ST70"
           /\ pc \notin EarlyPCs /\ items[j].terminal_state = "none"
  <2>1. pc \notin DecisionPCs
    BY <1>3 DEF StateInv
  <2>2. ~RecordApproval /\ ~RecordRejection
    BY <2>1, Starts DEF DecisionPCs
  <2>3. ~CanMove(current_state, "ST10")
    BY <1>3 DEF CanMove, TRANSITIONS, StateIds
  <2>4. pc' \notin EarlyPCs
    <3>1. SUFFICES ASSUME pc' \in EarlyPCs PROVE FALSE
      OBVIOUS
    <3>2. ~SelectItem
      BY <2>3, <3>1 DEF SelectItem, SetState, Return, EarlyPCs, AttemptPCs, StagePCs
    <3> QED
      BY <1>3, <3>1, <3>2, GoesOn, EarlyStays DEF EarlyPCs
  <2>5. items'[j].terminal_state \in {"none", "passed"}
    BY <1>3, <2>2, NewOutcome, Starts DEF EarlyPCs, AttemptPCs
  <2>6. CASE UNCHANGED <<current_state, current_item_id>>
    BY <1>3, <2>4, <2>5, <2>6 DEF OnItsWay
  <2>7. ~(Resume /\ current_state' = "ST05" /\ current_item_id' = None)
    <3>1. SUFFICES ASSUME Resume, current_state' = "ST05" PROVE FALSE
      OBVIOUS
    <3>2. PICK i \in Items : ResumeTarget(i) /\ items[i].terminal_state \in Resettable
      BY <1>3, <3>1 DEF Resume
    <3>3. FirstUnfinished(i, items)
      BY <1>3, <3>2 DEF ResumeTarget
    <3>4. j <= i
      BY <1>3, <3>2 DEF BehindInv
    <3>5. ~(j < i)
      BY <1>3, <3>3 DEF FirstUnfinished, IInv, TypeOK
    <3>6. i = j
      BY <3>4, <3>5 DEF Items
    <3> QED
      BY <1>3, <3>2, <3>6 DEF Resettable
  <2>8. CASE pc \in AttemptPCs /\ current_item_id = it
    <3>1. pc = "landing"
      BY <1>3, <2>8 DEF EarlyPCs, IInv, AttemptInv
    <3>2. CASE RecordPass
      <4>1. pc' = "passing" /\ ~SelectItem /\ pc' \in AttemptPCs
        BY <3>2, Starts DEF AttemptPCs
      <4> QED
        BY <1>3, <2>8, <4>1, GoesOn DEF OnItsWay
    <3>3. CASE Interrupt
      BY <2>6, <3>3 DEF Interrupt, saved
    <3> QED
      BY <3>1, <3>2, <3>3, Leaves
  <2> QED
    BY <2>2, <2>3, <2>6, <2>7, <2>8, CurrentFrame
<1>4. CASE /\ current_item_id = j /\ current_state = "ST110"
           /\ items[j].terminal_state = "awaiting_human_gate"
           /\ GateOf(j).status = "approved" /\ pc # "gate_approved"
  <2>1. pc \notin AttemptPCs
    BY <1>4, AttemptFacts
  <2>2. ~SelectItem /\ ~Resume
    BY <1>4, Starts DEF StateInv, Resume, ResumeAllowed
  <2>3. ~RecordRejection
    BY <1>4, Starts DEF StateInv, DecisionPCs
  <2>4. CASE RecordApproval
    <3>1. it = j
      BY <1>4, <2>4, Starts DEF StateInv, DecisionPCs
    <3> QED
      BY <2>4, <3>1, Recorded DEF OnItsWay
  <2>5. CASE ~RecordApproval
    <3>1. UNCHANGED <<current_state, current_item_id>>
      BY <2>1, <2>2, <2>3, <2>5, CurrentFrame
    <3>2. ~WriteGate /\ ~FinishPass /\ ~FinishBlocked /\ ~FinishEscalated
      BY <2>1, Starts DEF AttemptPCs
    <3>3. items'[j].terminal_state = items[j].terminal_state
          /\ items'[j].manual_gate = items[j].manual_gate
      BY <2>2, <2>3, <2>5, <3>2, NewOutcome, RowFrame
    <3>4. ~\E i \in Items, outcome \in {"approved", "rejected"} : MarkGate(i, outcome)
      BY <1>4 DEF MarkGate, GatePending, IInv, PendingGateHolds
    <3>5. gates' = gates /\ pc' # "gate_approved"
      BY <3>2, <3>4, GitFrame, Places
    <3> QED
      BY <1>4, <3>1, <3>3, <3>5 DEF OnItsWay, GateOf
  <2> QED
    BY <2>4, <2>5
<1> QED
  BY <1>1, <1>2, <1>3, <1>4 DEF OnItsWay

LEMMA OnceKept ==
  ASSUME IInv, StateInv, ReviewInv, BehindInv, TipInv, OnceInv, Next
  PROVE  OnceInv'
<1> SUFFICES ASSUME "passing" \notin mishaps'
             PROVE  /\ \A c, d \in ToSet(RunTip') \ adopted' :
                         c[1] \in Items /\ c[1] = d[1] => c[2] = d[2]
                    /\ \A c \in ToSet(RunTip') \ adopted' : c[1] \in Items => OnItsWay(c[1])'
  BY DEF OnceInv
<1>1. /\ \A c, d \in ToSet(RunTip) \ adopted :
           c[1] \in Items /\ c[1] = d[1] => c[2] = d[2]
      /\ \A c \in ToSet(RunTip) \ adopted : c[1] \in Items => OnItsWay(c[1])
  <2>1. "passing" \notin mishaps
    BY GitFrame
  <2> QED
    BY <2>1 DEF OnceInv
<1>2. IInv' /\ StateInv'
  BY NextInv, StateKept
<1>3. ASSUME Land \/ LandApproved, NEW c \in ToSet(RunTip) \ adopted, c[1] \in Items
      PROVE  c[1] # it
  <2>1. OnItsWay(c[1])
    BY <1>1, <1>3
  <2>2. CASE Land
    <3>1. pc = "decide" /\ pc \in AttemptPCs /\ pc \in EarlyPCs
      BY <2>2, Starts DEF AttemptPCs, EarlyPCs
    <3>2. items[it].terminal_state = "none"
      BY <3>1, AttemptFacts
    <3> QED
      BY <2>1, <3>1, <3>2 DEF OnItsWay
  <2>3. CASE LandApproved
    <3>1. pc = "gate_approved" /\ pc \in DecisionPCs
      BY <2>3, Starts DEF DecisionPCs
    <3>2. items[it].terminal_state = "awaiting_human_gate"
      BY <3>1, DecidedRow
    <3> QED
      BY <2>1, <3>1, <3>2 DEF OnItsWay
  <2> QED
    BY <1>3, <2>2, <2>3
<1>4. ASSUME NEW c \in ToSet(RunTip') \ adopted', c \notin ToSet(RunTip), c[1] \in Items
      PROVE  /\ Land \/ (LandApproved /\ pc' = "gate_landed")
             /\ it \in Items /\ c[1] = it /\ c[2] = items[it].attempt_number
  BY <1>4, NewCommits
<1>5. ASSUME NEW c \in ToSet(RunTip') \ adopted', NEW d \in ToSet(RunTip') \ adopted',
             c[1] \in Items, c[1] = d[1]
      PROVE  c[2] = d[2]
  <2>1. CASE c \in ToSet(RunTip) /\ d \in ToSet(RunTip)
    BY <1>1, <1>5, <2>1, GitFrame
  <2>2. CASE c \notin ToSet(RunTip) /\ d \notin ToSet(RunTip)
    BY <1>4, <1>5, <2>2
  <2>3. CASE c \in ToSet(RunTip) /\ d \notin ToSet(RunTip)
    BY <1>3, <1>4, <1>5, <2>3, GitFrame
  <2>4. CASE c \notin ToSet(RunTip) /\ d \in ToSet(RunTip)
    BY <1>3, <1>4, <1>5, <2>4, GitFrame
  <2> QED
    BY <2>1, <2>2, <2>3, <2>4
<1>6. ASSUME NEW c \in ToSet(RunTip') \ adopted', c[1] \in Items PROVE OnItsWay(c[1])'
  <2>1. CASE c \in ToSet(RunTip)
    BY <1>1, <1>6, <2>1, WayKept, GitFrame
  <2>2. CASE c \notin ToSet(RunTip)
    <3>1. CASE Land
      <4>1. pc' = "landing" /\ ~SelectItem /\ pc' \in AttemptPCs
        BY <3>1, Starts DEF AttemptPCs
      <4>2. c[1] = it /\ it' = it /\ current_item_id' = it
        BY <1>4, <1>6, <2>2, <4>1, GoesOn
      <4>3. current_state' = "ST70" /\ items'[it].terminal_state = "none"
        BY <1>2, <4>1, <4>2, AttemptFacts DEF StateInv, IInv, AttemptInv, row
      <4> QED
        BY <4>1, <4>2, <4>3 DEF OnItsWay, EarlyPCs
    <3>2. CASE LandApproved /\ pc' = "gate_landed"
      <4>1. pc \in DecisionPCs /\ UNCHANGED <<saved, gates, call>>
        BY <3>2, Starts DEF LandApproved, Return, DecisionPCs
      <4>2. c[1] = it /\ current_state = "ST110" /\ current_item_id = it
            /\ items[it].terminal_state = "awaiting_human_gate"
            /\ GateOf(it).status = "approved"
        BY <1>4, <1>6, <2>2, <3>2, <4>1, DecidedRow, Starts DEF StateInv
      <4> QED
        BY <3>2, <4>1, <4>2 DEF OnItsWay, GateOf, saved
    <3> QED
      BY <1>4, <1>6, <2>2, <3>1, <3>2
  <2> QED
    BY <2>1, <2>2
<1> QED
  BY <1>5, <1>6

-----------------------------------------------------------------------------
(* Moving on *)

\* Where the process of a call ends up idle.
LEMMA Ends ==
  ASSUME Next, pc' = "idle"
  PROVE  \/ FinishQueue \/ RefuseItem \/ SelectItem \/ AdvanceQueue
         \/ EvidenceMissing \/ WriteGate \/ FinishBlocked \/ FinishEscalated
         \/ LandApproved \/ RecordApproval \/ RecordRejection
         \/ RecordRefresh \/ Interrupt
BY DEF Next, Work, QueueStep, PrepareStep, BlockWithoutEvidence, AddWorktree, RecordWorktree,
       PrepareContext, MutateStep, StartMutation, RecordReport, CommitCheckpoint,
       RecordCheckpoint, Verify, AuditStep, BuildAuditPacket, StartCodexAudit,
       StartClaudeAudit, StartTriage, Triage, StageFails, OutcomeStep, Land,
       RecordPass, FinishPass, RequestGate, BlockOnTriage, Escalate, StartFix,
       StartRemediation, DecisionStep, Command, Resume, CreateRefreshBranch, MarkGate, Goto

\* What makes a run stranded is never undone.
LEMMA StrandedStays == ASSUME Next, Stranded PROVE Stranded'
BY GitFrame DEF Stranded

\* A gate that was written is pending.
LEMMA WrittenPends ==
  ASSUME IInv, ReviewInv, WriteGate, it \in GateRequired
  PROVE  \E i \in Items : GatePending(i)'
<1> DEFINE waiting == [row EXCEPT !.terminal_state = "awaiting_human_gate",
                                  !.manual_gate_status = "pending"]
           recorded == [waiting EXCEPT !.manual_gate = row.attempt_number]
           record == [status |-> "pending", ref |-> row.checkpoint_ref]
<1>1. pc \in AttemptPCs
  BY Starts DEF AttemptPCs
<1>2. /\ it \in Items /\ row \in ItemRow /\ items \in [Items -> ItemRow]
      /\ row.attempt_number \in 1..MaxAttempts
      /\ gates \in [Items -> [1..MaxAttempts -> GateRecord]]
  BY <1>1, AttemptFacts DEF IInv, TypeOK
<1>3. /\ items' = [items EXCEPT ![it] = recorded]
      /\ gates' = [gates EXCEPT ![it][row.attempt_number] = record]
  BY DEF WriteGate
<1>4. recorded.manual_gate = row.attempt_number /\ record.status = "pending"
  BY <1>2 DEF ItemRow
<1> HIDE DEF waiting, recorded, record
<1>5. items'[it].manual_gate = row.attempt_number
  BY <1>2, <1>3, <1>4
<1>6. gates'[it][row.attempt_number].status = "pending"
  BY <1>2, <1>3, <1>4
<1>7. row.attempt_number # None
  BY <1>2 DEF None
<1> QED
  BY <1>2, <1>5, <1>6, <1>7, Zenon DEF GatePending, GateOf

\* The run stops on the item that was blocked or escalated, by the stages or by
\* a human, and resume takes it back.
LEMMA StopsResettable ==
  ASSUME IInv, StateInv, ReviewInv, FinishBlocked \/ FinishEscalated \/ RecordRejection
  PROVE  /\ current_state' \in {"ST120", "ST140"} /\ current_item_id' # None
         /\ items'[current_item_id'].terminal_state \in {"blocked_external", "escalated"}
<1>1. items \in [Items -> ItemRow]
  BY DEF IInv, TypeOK
<1>2. CASE FinishBlocked \/ FinishEscalated
  <2>1. pc \in AttemptPCs /\ pc \in {"blocking", "escalating"}
    BY <1>2, Starts DEF AttemptPCs
  <2>2. it \in Items /\ items[it] \in ItemRow /\ current_item_id' = it
    BY <1>2, <2>1, AttemptFacts DEF FinishBlocked, FinishEscalated
  <2>3. current_state' \in {"ST120", "ST140"}
    BY <1>2, <2>1 DEF StateInv, FinishBlocked, FinishEscalated
  <2>4. FinishBlocked => items'[it].terminal_state = "blocked_external"
    BY <1>1, <2>2 DEF FinishBlocked, ItemRow
  <2>5. FinishEscalated => items'[it].terminal_state = "escalated"
    BY <1>1, <2>2 DEF FinishEscalated, ItemRow
  <2> QED
    BY <1>2, <2>2, <2>3, <2>4, <2>5 DEF None, Items
<1>3. CASE RecordRejection
  <2>1. pc \in DecisionPCs
    BY <1>3, Starts DEF DecisionPCs
  <2>2. it \in Items /\ items[it] \in ItemRow
    BY <1>1, <2>1, DecidedRow
  <2>3. items' = [items EXCEPT ![it] =
          [@ EXCEPT !.terminal_state = "escalated", !.manual_gate_status = "rejected"]]
    BY <1>3 DEF RecordRejection
  <2>4. items'[it].terminal_state = "escalated"
    BY <1>1, <2>2, <2>3 DEF ItemRow
  <2>5. current_state' = "ST140" /\ current_item_id' = it
    BY <1>3 DEF RecordRejection, SetState
  <2> QED
    BY <2>2, <2>4, <2>5 DEF None, Items
<1> QED
  BY <1>2, <1>3

LEMMA ProceedKept ==
  ASSUME IInv, StateInv, ReviewInv, ProceedInv, Next
  PROVE  ProceedInv'
<1>1. ASSUME pc' = "refreshing" PROVE CanProceed' \/ Stranded'
  <2>1. CreateRefreshBranch
    BY <1>1, Places
  <2>2. pc = "idle" /\ UNCHANGED <<saved, gates>>
    BY <2>1 DEF CreateRefreshBranch, Goto
  <2> QED
    BY <2>2, StrandedStays DEF ProceedInv, CanProceed, GatePending, GateOf, saved
<1>2. ASSUME pc' = "queue" PROVE current_state' \in {"ST05", "ST130"} \/ Stranded'
  <2>1. CASE AdvanceQueue
    BY <2>1 DEF AdvanceQueue, StateInv, saved
  <2>2. CASE Resume
    <3>1. PICK i \in Items :
            /\ ResumeTarget(i)
            /\ IF items[i].terminal_state \in Resettable
               THEN current_state' = "ST05"
               ELSE UNCHANGED <<current_state, current_item_id>>
      BY <2>2 DEF Resume
    <3>2. pc = "idle" /\ current_state # "ST110"
      BY <2>2, Starts DEF Resume, ResumeAllowed
    <3>3. CASE Stranded
      BY <3>3, StrandedStays
    <3>4. CASE current_state \in {"ST05", "ST130"}
      BY <3>1, <3>4
    <3>5. CASE \A j \in Items : items[j].terminal_state = "passed"
      <4>1. current_item_id = None \/ current_state \notin {"ST120", "ST140"}
        BY <3>5 DEF IInv, StoppedInv, TypeOK, None, Items
      <4> QED
        BY <3>1, <3>5, <4>1 DEF ResumeTarget, FirstUnfinished
    <3>6. CASE /\ current_state \in {"ST120", "ST140"} /\ current_item_id # None
               /\ items[current_item_id].terminal_state \in {"blocked_external", "escalated"}
      BY <3>1, <3>6 DEF ResumeTarget, Resettable
    <3>7. CASE \E j \in Items : GatePending(j)
      BY <3>2, <3>7 DEF IInv, PendingGateHolds
    <3> QED
      BY <3>2, <3>3, <3>4, <3>5, <3>6, <3>7 DEF ProceedInv, CanProceed
  <2> QED
    BY <1>2, <2>1, <2>2, Places
<1>3. ASSUME pc' = "idle" PROVE CanProceed' \/ Stranded'
  <2>1. CASE pc = "queue" /\ UNCHANGED current_state
    BY <2>1, StrandedStays DEF ProceedInv, CanProceed
  <2>2. CASE FinishQueue \/ RefuseItem
    BY <2>1, <2>2 DEF FinishQueue, RefuseItem, saved
  <2>3. CASE SelectItem
    <3>1. pc = "queue" /\ UNCHANGED current_state
      BY <1>3, <2>3 DEF SelectItem
    <3> QED
      BY <2>1, <3>1
  <2>4. CASE AdvanceQueue
    BY <2>4 DEF AdvanceQueue, StateInv, saved, CanProceed
  <2>5. CASE EvidenceMissing
    BY <2>5 DEF EvidenceMissing, Stranded
  <2>6. CASE WriteGate
    <3>1. CASE it \in GateRequired
      BY <2>6, <3>1, WrittenPends DEF CanProceed
    <3>2. CASE it \notin GateRequired
      BY <2>6, <3>2 DEF WriteGate, Stranded
    <3> QED
      BY <3>1, <3>2
  <2>7. CASE FinishBlocked \/ FinishEscalated \/ RecordRejection
    BY <2>7, StopsResettable DEF CanProceed
  <2>8. CASE LandApproved
    BY <1>3, <2>8 DEF LandApproved, Stranded
  <2>9. CASE RecordApproval
    BY <2>9 DEF RecordApproval, SetState, CanProceed
  <2>10. CASE RecordRefresh
    BY <2>10, StrandedStays, Starts
    DEF RecordRefresh, ProceedInv, CanProceed, GatePending, GateOf
  <2>11. CASE Interrupt
    <3>1. mishaps' = mishaps \cup {pc} /\ UNCHANGED <<saved, gates>>
      BY <2>11 DEF Interrupt
    <3>2. CASE pc \in StrandingPCs
      BY <3>1, <3>2 DEF Stranded
    <3>3. CASE pc = "queue"
      BY <2>1, <3>1, <3>3 DEF saved
    <3>4. CASE pc \in {"passing", "advance"}
      BY <3>1, <3>4 DEF StateInv, IInv, AttemptInv, AttemptPCs, CanProceed, saved
    <3>5. CASE pc = "refreshing"
      BY <3>1, <3>5, StrandedStays
      DEF ProceedInv, CanProceed, GatePending, GateOf, saved
    <3> QED
      BY <2>11, <3>2, <3>3, <3>4, <3>5 DEF Interrupt, StrandingPCs, IInv, TypeOK
  <2> QED
    BY <1>3, <2>2, <2>3, <2>4, <2>5, <2>6, <2>7, <2>8, <2>9, <2>10, <2>11, Ends
<1> QED
  BY <1>1, <1>2, <1>3 DEF ProceedInv

-----------------------------------------------------------------------------
(* The invariant *)

LEMMA InitHistory == Init => HInv
<1> SUFFICES ASSUME Init PROVE HInv
  OBVIOUS
<1>1. /\ pc = "queue" /\ current_state = "ST05" /\ current_item_id = None /\ mishaps = {}
      /\ RunTip = <<Base>> /\ run_branches = <<(<<Base>>)>>
      /\ \A i \in Items, a \in 1..MaxAttempts : /\ item_branches[i][a] = NoHistory
                                                /\ gates[i][a].status = "absent"
      /\ \A i \in Items : /\ items[i].terminal_state = "none"
                          /\ items[i].manual_gate = None
  BY DEF Init, RunTip, NewItem
<1>2. \A c \in ToSet(RunTip) : c[1] = None
  BY <1>1 DEF ToSet, Base
<1>3. \A c \in ToSet(RunTip) : c[1] \notin Items
  BY <1>2 DEF None, Items
<1>4. StateInv /\ ReviewInv /\ BehindInv /\ PassedIsLanded /\ ProceedInv
  BY <1>1
  DEF StateInv, ReviewInv, BehindInv, PassedIsLanded, ProceedInv, DecisionPCs, Resettable
<1>5. FreshInv /\ BuildInv
  BY <1>1 DEF FreshInv, BuildInv, BranchPCs, StagePCs
<1>6. TipInv
  BY <1>1 DEF TipInv, BranchPCs, StagePCs, NoHistory
<1>7. CommitInv
  <2>1. \A h \in Branches : h = <<Base>> \/ h = <<>>
    BY <1>1 DEF Branches, NoHistory, ToSet
  <2>2. \A h \in Branches : \A c \in ToSet(h) : c[1] \notin Items
    BY <1>1, <1>3, <2>1 DEF ToSet
  <2> QED
    BY <1>3, <2>2 DEF CommitInv
<1>9. OnceInv
  BY <1>3 DEF OnceInv
<1>8. GateGuardsLanding
  BY <1>3, PlanAssumption DEF GateGuardsLanding
<1> QED
  BY <1>4, <1>5, <1>6, <1>7, <1>8, <1>9 DEF HInv

LEMMA NextHistory ==
  ASSUME IInv, HInv, [Next]_vars
  PROVE  HInv'
<1>1. CASE Next
  <2>1. /\ StateInv /\ ReviewInv /\ FreshInv /\ BehindInv /\ TipInv /\ CommitInv
        /\ GateGuardsLanding /\ PassedIsLanded /\ BuildInv /\ OnceInv /\ ProceedInv
    BY DEF HInv
  <2>2. StateInv' /\ ReviewInv' /\ FreshInv' /\ BehindInv'
    BY <1>1, <2>1, StateKept, ReviewKept, FreshKept, BehindKept
  <2>3. TipInv' /\ CommitInv' /\ GateGuardsLanding' /\ PassedIsLanded' /\ BuildInv'
    BY <1>1, <2>1, TipKept, CommitKept, GuardKept, LandedKept, BuildKept
  <2>4. OnceInv' /\ ProceedInv'
    BY <1>1, <2>1, OnceKept, ProceedKept
  <2> QED
    BY <2>2, <2>3, <2>4 DEF HInv
<1>2. CASE UNCHANGED vars
  <2>1. UNCHANGED <<current_state, current_item_id, items, run_branch, adopted, gates,
                    run_branches, item_branches, pc, call, mishaps>>
    BY <1>2 DEF vars, saved, git, process
  <2>2. StateInv' /\ ReviewInv' /\ FreshInv' /\ BehindInv'
    BY <2>1
    DEF HInv, StateInv, ReviewInv, FreshInv, BehindInv, Reviewed, GateOf, Branch, Cycle,
        it, row
  <2>3. TipInv' /\ CommitInv' /\ GateGuardsLanding' /\ PassedIsLanded' /\ BuildInv'
    BY <2>1
    DEF HInv, TipInv, CommitInv, GateGuardsLanding, PassedIsLanded, BuildInv, Own, RunTip,
        Branches, Branch, PrerequisitesSatisfied, it, row
  <2>4. OnceInv' /\ ProceedInv'
    BY <2>1
    DEF HInv, OnceInv, OnItsWay, ProceedInv, CanProceed, Stranded, GatePending, GateOf,
        RunTip, it
  <2> QED
    BY <2>2, <2>3, <2>4 DEF HInv
<1> QED
  BY <1>1, <1>2

\* The invariants behind the theorems below hold in every run.
THEOREM HistoryInductive == Spec => []HInv
<1>1. Spec => []IInv
  BY Inductive
<1> QED
  BY <1>1, InitHistory, NextHistory, PTL DEF Spec

-----------------------------------------------------------------------------
(* The theorems *)

\* An item called passed is on the run branch, whoever died when, and whatever
\* the run was refreshed onto: _finalize_pass and mark_manual_gate move the
\* branch before they record the pass.
THEOREM PassedLanded == Spec => []PassedIsLanded
<1>1. HInv => PassedIsLanded
  BY DEF HInv
<1> QED
  BY <1>1, HistoryInductive, PTL

\* No commit of a gated item reaches the run branch but through the approval of
\* the attempt that made it, at a checkpoint that holds it, or by a refresh onto a
\* branch that has it.
THEOREM GateGuards == Spec => []GateGuardsLanding
<1>1. HInv => GateGuardsLanding
  BY DEF HInv
<1> QED
  BY <1>1, HistoryInductive, PTL

\* What passed is what the last cycle of its attempt verified, audited twice
\* and triaged.
THEOREM PassedReviewed == Spec => []PassedWasReviewed
<1>1. HInv => PassedWasReviewed
  BY DEF HInv, ReviewInv, PassedWasReviewed
<1> QED
  BY <1>1, HistoryInductive, PTL

\* The worktree of an attempt starts from a run branch that holds what its
\* prerequisites landed.
THEOREM Builds == Spec => []BuildsOnPrerequisites
<1>1. IInv /\ HInv => BuildsOnPrerequisites
  <2> SUFFICES ASSUME IInv, HInv, NEW i \in Items, NEW a \in 1..MaxAttempts,
                      item_branches[i][a] # NoHistory, NEW j \in Prerequisites[i]
               PROVE  /\ j \in Items /\ items[j].checkpoint_ref # NoHistory
                      /\ IsPrefix(items[j].checkpoint_ref, item_branches[i][a])
    BY DEF BuildsOnPrerequisites
  <2>1. j \in Items
    BY DEF HInv, BuildInv
  <2>2. /\ items[j].terminal_state = "passed"
        /\ IsPrefix(items[j].checkpoint_ref, item_branches[i][a])
    BY DEF HInv, BuildInv
  <2> QED
    BY <2>1, <2>2 DEF HInv, PassedIsLanded
<1> QED
  BY <1>1, Inductive, HistoryInductive, PTL

\* The commits of an item that land come from one attempt, unless a process died
\* between the save of ST130 and that of the item's outcome.
THEOREM LandedOnce == Spec => []LandsOnce
<1>1. IInv /\ HInv => LandsOnce
  <2> SUFFICES ASSUME IInv, HInv, NEW i \in Items, "passing" \notin mishaps
               PROVE  Cardinality({c[2] : c \in {d \in ToSet(RunTip) \ adopted : d[1] = i}})
                        <= 1
    BY DEF LandsOnce
  <2> DEFINE own == {d \in ToSet(RunTip) \ adopted : d[1] = i}
             attempts == {c[2] : c \in own}
  <2>1. \A c, d \in own : c[2] = d[2]
    BY DEF HInv, OnceInv
  <2>2. attempts = {} \/ \E a : attempts = {a}
    <3>1. CASE own = {}
      BY <3>1
    <3>2. CASE own # {}
      <4>1. PICK c \in own : TRUE
        BY <3>2
      <4>2. attempts = {c[2]}
        BY <2>1, <4>1
      <4> QED
        BY <4>2
    <3> QED
      BY <3>1, <3>2
  <2> HIDE DEF attempts
  <2>3. Cardinality(attempts) <= 1
    BY <2>2, FS_EmptySet, FS_Singleton
  <2> QED
    BY <2>3 DEF attempts
<1> QED
  BY <1>1, Inductive, HistoryInductive, PTL

\* Between calls some command moves the run on, unless a process died in the
\* middle of an item or a decision, or one of three operator mistakes was made.
THEOREM Proceeds == Spec => []StrandedOnlyByMishap
<1>1. HInv => StrandedOnlyByMishap
  BY DEF HInv, ProceedInv, Stranded, StrandedOnlyByMishap
<1> QED
  BY <1>1, HistoryInductive, PTL

-----------------------------------------------------------------------------
(* The ledger *)

Passed   == {i \in Items : items[i].terminal_state = "passed"}
Approved == {p \in Items \X (1..MaxAttempts) : gates[p[1]][p[2]].status = "approved"}

\* What a step adds to a history it extends is the end of the new one.
LEMMA AddedCommits ==
  ASSUME NEW S, NEW s \in Seq(S), NEW t \in Seq(S), IsPrefix(s, t),
         NEW c \in ToSet(SubSeq(t, Len(s) + 1, Len(t)))
  PROVE  \E n \in 1..Len(t) : n > Len(s) /\ t[n] = c
<1> DEFINE u == SubSeq(t, Len(s) + 1, Len(t))
<1>1. Len(s) \in Nat /\ Len(t) \in Nat /\ Len(s) <= Len(t)
  BY PrefixPlaces
<1>2. /\ Len(u) = Len(t) - Len(s) /\ DOMAIN u = 1..(Len(t) - Len(s))
      /\ \A n \in 1..(Len(t) - Len(s)) : u[n] = t[Len(s) + n]
  BY <1>1
<1>3. PICK m \in DOMAIN u : u[m] = c
  BY DEF ToSet
<1>4. m \in 1..(Len(t) - Len(s)) /\ t[Len(s) + m] = c
  BY <1>2, <1>3
<1>5. Len(s) + m \in 1..Len(t) /\ Len(s) + m > Len(s)
  BY <1>1, <1>4
<1> QED
  BY <1>4, <1>5

LEMMA LedgerInit == Init => Ledger!Init
<1> SUFFICES ASSUME Init PROVE Ledger!Init
  OBVIOUS
<1>1. RunTip = <<(<<0, 0, 0>>)>> /\ Unrecorded = 0
  BY DEF Init, RunTip, Base, None, Unrecorded
<1>2. Passed = {}
  BY DEF Init, NewItem, Passed
<1>3. Approved = {}
  BY DEF Init, Approved
<1>4. adopted = {}
  BY DEF Init
<1> QED
  BY <1>1, <1>2, <1>3, <1>4 DEF Ledger!Init, Passed, Approved

\* What lands extends the run branch by commits of one attempt of an item whose
\* prerequisites passed.
LEMMA LedgerLand ==
  ASSUME IInv, HInv, Next, Unrecorded = None,
         Land \/ (LandApproved /\ pc' = "gate_landed")
  PROVE  it \in Items /\ Ledger!Land(it)
<1>1. StateInv /\ ReviewInv /\ TipInv /\ BuildInv /\ IInv'
  BY NextInv DEF HInv
<1>2. /\ RunTip \in Seq(Commits) /\ RunTip' \in Seq(Commits) /\ IsPrefix(RunTip, RunTip')
      /\ RunTip # NoHistory
  BY <1>1, TipGrows DEF TipInv
<1>3. /\ it \in Items /\ items[it].terminal_state # "passed" /\ it' = it
      /\ RunTip' = Branch(it) /\ Own(Branch(it), it, items[it].attempt_number)
      /\ items[it].attempt_number \in 1..MaxAttempts
      /\ UNCHANGED <<items, gates, adopted>>
      /\ it \in GateRequired =>
           gates[it][items[it].attempt_number].status = "approved"
  <2>1. CASE Land
    <3>1. pc = "decide" /\ pc \in AttemptPCs /\ pc' = "landing" /\ pc' \in AttemptPCs
          /\ ~SelectItem
      BY <2>1, Starts DEF AttemptPCs
    <3>2. it \in Items /\ row = items[it] /\ items[it].terminal_state = "none" /\ it' = it
          /\ items[it].attempt_number \in 1..MaxAttempts
      BY <3>1, AttemptFacts, GoesOn
    <3>3. UNCHANGED <<items, gates, adopted>> /\ it \notin GateRequired
          /\ run_branches' = [run_branches EXCEPT ![run_branch] = Branch(it)]
          /\ run_branch' = run_branch
      BY <2>1 DEF Land, saved
    <3>4. RunTip' = Branch(it)
      BY <3>3, Histories DEF RunTip
    <3>5. Own(Branch(it), it, items[it].attempt_number)
      BY <1>1, <3>1, <3>2 DEF TipInv, BranchPCs
    <3> QED
      BY <3>2, <3>3, <3>4, <3>5
  <2>2. CASE LandApproved /\ pc' = "gate_landed"
    <3>1. pc = "gate_approved" /\ pc \in DecisionPCs
      BY <2>2, Starts DEF DecisionPCs
    <3>2. /\ it \in Items /\ row = items[it]
          /\ items[it].terminal_state = "awaiting_human_gate"
          /\ GateOf(it).ref = items[it].checkpoint_ref
          /\ items[it].checkpoint_ref = Branch(it)
          /\ GateOf(it) = gates[it][items[it].attempt_number]
      BY <1>1, <3>1, DecidedRow
    <3>3. /\ UNCHANGED <<items, gates, adopted, call>> /\ run_branch' = run_branch
          /\ run_branches' = [run_branches EXCEPT ![run_branch] = GateOf(it).ref]
      BY <2>2 DEF LandApproved, saved, Return
    <3>4. RunTip' = Branch(it)
      BY <3>2, <3>3, Histories DEF RunTip
    <3>5. Own(Branch(it), it, items[it].attempt_number)
      BY <1>1, <3>2 DEF TipInv
    <3>6. GateOf(it).status = "approved"
      BY <1>1, <3>1 DEF StateInv
    <3> QED
      BY <3>2, <3>3, <3>4, <3>5, <3>6, Histories DEF it
  <2> QED
    BY <2>1, <2>2
<1>4. Unrecorded' = it
  <2>1. pc' \in {"landing", "gate_landed"}
    BY Starts
  <2> QED
    BY <1>3, <2>1 DEF Unrecorded
<1>5. \A c \in ToSet(SubSeq(RunTip', Len(RunTip) + 1, Len(RunTip'))) :
        c[1] = it /\ c[2] = items[it].attempt_number
  <2> SUFFICES ASSUME NEW c \in ToSet(SubSeq(RunTip', Len(RunTip) + 1, Len(RunTip')))
               PROVE  c[1] = it /\ c[2] = items[it].attempt_number
    OBVIOUS
  <2>1. PICK n \in 1..Len(RunTip') : n > Len(RunTip) /\ RunTip'[n] = c
    BY <1>2, AddedCommits
  <2> QED
    BY <1>3, <2>1 DEF Own
<1>6. Prerequisites[it] \subseteq Passed
  <2>1. Branch(it) # NoHistory
    BY <1>2, <1>3, PrefixMembers DEF NoHistory
  <2>2. \A j \in Prerequisites[it] : j \in Items /\ items[j].terminal_state = "passed"
    BY <1>1, <1>3, <2>1 DEF BuildInv, Branch
  <2> QED
    BY <2>2 DEF Passed
<1>7. it \in GateRequired => <<it, items[it].attempt_number>> \in Approved
  BY <1>3 DEF Approved
<1>8. it \notin Passed /\ UNCHANGED <<Passed, Approved>>
  BY <1>3 DEF Passed, Approved
<1>9. it \in GateRequired =>
        \E p \in Approved :
          /\ p[1] = it
          /\ \A c \in ToSet(SubSeq(RunTip', Len(RunTip) + 1, Len(RunTip'))) : c[2] = p[2]
  BY <1>5, <1>7
<1>10. \A c, d \in ToSet(SubSeq(RunTip', Len(RunTip) + 1, Len(RunTip'))) :
         c[1] = it /\ c[2] = d[2]
  BY <1>5
<1>11. /\ Ledger!IsPrefix(RunTip, RunTip')
       /\ Ledger!ToSet(Ledger!Added) = ToSet(SubSeq(RunTip', Len(RunTip) + 1, Len(RunTip')))
  BY <1>2 DEF Ledger!IsPrefix, IsPrefix, Ledger!ToSet, ToSet, Ledger!Added
<1>12. Unrecorded = 0
  BY DEF None
<1>13. /\ \A c, d \in Ledger!ToSet(Ledger!Added) : c[1] = it /\ c[2] = d[2]
       /\ it \in GateRequired =>
            \E p \in Approved : /\ p[1] = it
                               /\ \A c \in Ledger!ToSet(Ledger!Added) : c[2] = p[2]
  BY <1>9, <1>10, <1>11
<1>14. /\ it \notin Passed /\ Prerequisites[it] \subseteq Passed
       /\ Passed' = Passed /\ Approved' = Approved /\ adopted' = adopted
  BY <1>3, <1>6, <1>8
<1> HIDE DEF Ledger!Added
<1>15. Unrecorded = 0 /\ Unrecorded' = it
  BY <1>4, <1>12
<1>16. Ledger!Land(it)
  BY <1>11, <1>13, <1>14, <1>15 DEF Ledger!Land, Passed, Approved
<1> QED
  BY <1>3, <1>16

\* Nobody but a pass that is recorded adds to what passed.
LEMMA PassedMoves ==
  ASSUME IInv, Next
  PROVE  Passed' = Passed \/ FinishPass \/ RecordApproval
<1>1. \A i \in Items : items[i].terminal_state = "passed" => items'[i].terminal_state = "passed"
  BY PassedRowStays
<1>2. ASSUME NEW i \in Items, items[i].terminal_state # "passed",
             items'[i].terminal_state = "passed"
      PROVE  FinishPass \/ RecordApproval
  BY <1>2, NewOutcome
<1> QED
  BY <1>1, <1>2 DEF Passed

\* Nobody but a human who approves adds to what is approved.
LEMMA ApprovedMoves ==
  ASSUME IInv, HInv, Next
  PROVE  \/ Approved' = Approved
         \/ \E i \in Items : /\ MarkGate(i, "approved") /\ i \in GateRequired
                             /\ \E p \in Approved' : p[1] = i /\ Approved' = Approved \cup {p}
<1>1. gates \in [Items -> [1..MaxAttempts -> GateRecord]] /\ items \in [Items -> ItemRow]
  BY DEF IInv, TypeOK
<1>2. CASE gates' = gates
  BY <1>2 DEF Approved
<1>3. CASE WriteGate
  <2>1. pc \in AttemptPCs
    BY <1>3, Starts DEF AttemptPCs
  <2>2. /\ it \in Items /\ row = items[it] /\ row.terminal_state = "none"
        /\ row.attempt_number \in 1..MaxAttempts
    BY <2>1, AttemptFacts
  <2>3. gates[it][row.attempt_number].status = "absent"
    BY <2>2 DEF HInv, FreshInv, ItemRow
  <2>4. CASE gates' = [gates EXCEPT ![it][row.attempt_number] =
                         [status |-> "pending", ref |-> row.checkpoint_ref]]
    <3>1. gates'[it][row.attempt_number].status = "pending"
      BY <1>1, <2>2, <2>4
    <3>2. \A i \in Items, a \in 1..MaxAttempts :
            i # it \/ a # row.attempt_number => gates'[i][a] = gates[i][a]
      BY <1>1, <2>2, <2>4
    <3>3. \A i \in Items, a \in 1..MaxAttempts :
            gates'[i][a].status = "approved" <=> gates[i][a].status = "approved"
      BY <2>2, <2>3, <3>1, <3>2
    <3> QED
      BY <3>3 DEF Approved
  <2> QED
    BY <1>2, <1>3, <2>4 DEF WriteGate
<1>4. ASSUME NEW j \in Items, NEW outcome \in {"approved", "rejected"}, MarkGate(j, outcome)
      PROVE  \/ Approved' = Approved
             \/ /\ MarkGate(j, "approved") /\ j \in GateRequired
                /\ \E p \in Approved' : p[1] = j /\ Approved' = Approved \cup {p}
  <2> DEFINE m == items[j].manual_gate
  <2>1. items[j] \in ItemRow /\ m # None /\ gates[j][m].status = "pending"
        /\ gates' = [gates EXCEPT ![j][m].status = outcome]
    BY <1>1, <1>4 DEF MarkGate, GatePending, GateOf
  <2>2. m \in 1..MaxAttempts
    BY <2>1 DEF ItemRow, None
  <2>3. j \in GateRequired
    BY <2>1 DEF HInv, ReviewInv
  <2> HIDE DEF m
  <2>4. gates'[j][m].status = outcome
    <3>1. gates[j][m] \in GateRecord
      BY <1>1, <2>2
    <3>2. gates'[j][m] = [gates[j][m] EXCEPT !.status = outcome]
      BY <1>1, <2>1, <2>2
    <3> QED
      BY <3>1, <3>2 DEF GateRecord
  <2>5. \A i \in Items, a \in 1..MaxAttempts :
          i # j \/ a # m => gates'[i][a] = gates[i][a]
    BY <1>1, <2>1, <2>2
  <2>6. CASE outcome = "rejected"
    <3>1. \A i \in Items, a \in 1..MaxAttempts :
            gates'[i][a].status = "approved" <=> gates[i][a].status = "approved"
      BY <2>1, <2>2, <2>4, <2>5, <2>6
    <3> QED
      BY <3>1 DEF Approved
  <2>7. CASE outcome = "approved"
    <3> DEFINE q == <<j, m>>
    <3>1. q \in Items \X (1..MaxAttempts) /\ q[1] = j /\ q[2] = m
      BY <2>2
    <3>2. \A p \in Items \X (1..MaxAttempts) :
            gates'[p[1]][p[2]].status = "approved"
              <=> gates[p[1]][p[2]].status = "approved" \/ p = q
      <4>1. \A i \in Items, a \in 1..MaxAttempts :
              gates'[i][a].status = "approved"
                <=> gates[i][a].status = "approved" \/ (i = j /\ a = m)
        BY <2>4, <2>5, <2>7
      <4>2. \A p \in Items \X (1..MaxAttempts) :
              /\ p[1] \in Items /\ p[2] \in 1..MaxAttempts
              /\ p = q <=> p[1] = j /\ p[2] = m
        OBVIOUS
      <4> QED
        BY <4>1, <4>2
    <3> HIDE DEF q
    <3>3. q \in Approved' /\ Approved' = Approved \cup {q}
      BY <3>1, <3>2 DEF Approved
    <3> QED
      BY <1>4, <2>3, <2>7, <3>1, <3>3
  <2> QED
    BY <2>6, <2>7
<1> QED
  BY <1>2, <1>3, <1>4, GitFrame

\* Every step of the kernel is a step of the ledger, or none.
LEMMA LedgerNext ==
  ASSUME IInv, HInv, [Next]_vars
  PROVE  Ledger!Next \/ UNCHANGED Ledger!vars
<1>1. CASE UNCHANGED vars
  BY <1>1 DEF Ledger!vars, vars, saved, git, process, RunTip, Unrecorded, it
<1>2. CASE Next
  <2>1. StateInv /\ ReviewInv /\ TipInv
    BY DEF HInv
  <2>2. CASE Land \/ (LandApproved /\ pc' = "gate_landed")
    <3>1. Unrecorded = None
      BY <2>2, Starts DEF Unrecorded
    <3> QED
      BY <1>2, <2>2, <3>1, LedgerLand DEF Ledger!Next, Ledger!Items, Items
  <2>3. CASE RecordRefresh
    <3>1. Unrecorded = 0 /\ Unrecorded' = 0
      BY <2>3, Starts DEF Unrecorded, None
    <3>2. Passed' = Passed /\ Approved' = Approved
      BY <2>3 DEF RecordRefresh, Passed, Approved
    <3>3. /\ RunTip \in Seq(Commits) /\ RunTip' \in Seq(Commits)
          /\ IsPrefix(RunTip, RunTip')
      BY <1>2, <2>1, TipGrows
    <3>4. adopted' = adopted \cup ToSet(SubSeq(RunTip', Len(RunTip) + 1, Len(RunTip')))
      BY <2>3, RefreshAdopts
    <3>5. /\ Ledger!IsPrefix(RunTip, RunTip')
          /\ Ledger!ToSet(Ledger!Added) = ToSet(SubSeq(RunTip', Len(RunTip) + 1, Len(RunTip')))
      BY <3>3 DEF Ledger!IsPrefix, IsPrefix, Ledger!ToSet, ToSet, Ledger!Added
    <3>6. adopted' = adopted \cup Ledger!ToSet(Ledger!Added)
      BY <3>4, <3>5
    <3> HIDE DEF Ledger!Added
    <3>7. Ledger!Refresh
      BY <3>1, <3>2, <3>5, <3>6 DEF Ledger!Refresh, Passed, Approved
    <3> QED
      BY <3>7 DEF Ledger!Next
  <2>4. ASSUME NEW i \in Items, MarkGate(i, "approved"), i \in GateRequired,
               \E p \in Approved' : p[1] = i /\ Approved' = Approved \cup {p}
        PROVE  Ledger!Next
    <3>1. RunTip' = RunTip /\ Passed' = Passed /\ adopted' = adopted
      BY <2>4 DEF MarkGate, saved, git, RunTip, Passed
    <3>2. Unrecorded' = Unrecorded
      BY <2>4 DEF MarkGate, Goto, Unrecorded
    <3>3. Ledger!Approve(i)
      BY <2>4, <3>1, <3>2 DEF Ledger!Approve, Passed, Approved
    <3> QED
      BY <3>3 DEF Ledger!Next, Ledger!Items, Items
  <2>5. CASE FinishPass \/ RecordApproval
    <3>1. it \in Items /\ items'[it].terminal_state = "passed"
      BY <2>1, <2>5, Recorded
    <3>2. Unrecorded = it /\ Unrecorded' = 0 /\ it # 0
      BY <2>5, <3>1, Starts DEF Unrecorded, None, Items
    <3>3. Passed' = Passed \cup {it}
      <4>1. \A i \in Items : i # it =>
              (items'[i].terminal_state = "passed" <=> items[i].terminal_state = "passed")
        BY <1>2, NewOutcome, PassedRowStays
      <4> QED
        BY <3>1, <4>1 DEF Passed
    <3>4. RunTip' = RunTip /\ Approved' = Approved /\ adopted' = adopted
      BY <2>5 DEF FinishPass, RecordApproval, git, RunTip, Approved
    <3>5. Ledger!Record
      BY <3>2, <3>3, <3>4 DEF Ledger!Record, Passed, Approved
    <3> QED
      BY <3>5 DEF Ledger!Next
  <2>6. CASE Interrupt /\ pc \in {"landing", "passing", "gate_landed"}
    <3>1. it \in Items
      BY <2>1, <2>6, AttemptFacts, DecidedRow DEF AttemptPCs, DecisionPCs
    <3>2. Unrecorded # 0 /\ Unrecorded' = 0
      BY <2>6, <3>1 DEF Interrupt, Return, Unrecorded, None, Items
    <3>3. /\ RunTip' = RunTip /\ Passed' = Passed /\ Approved' = Approved
          /\ adopted' = adopted
      BY <2>6 DEF Interrupt, saved, git, RunTip, Passed, Approved
    <3>4. Ledger!Forget
      BY <3>2, <3>3 DEF Ledger!Forget, Passed, Approved
    <3> QED
      BY <3>4 DEF Ledger!Next
  <2>7. CASE /\ ~Land /\ ~(LandApproved /\ pc' = "gate_landed") /\ ~RecordRefresh
             /\ ~FinishPass /\ ~RecordApproval /\ Approved' = Approved
             /\ ~(Interrupt /\ pc \in {"landing", "passing", "gate_landed"})
    <3>1. RunTip' = RunTip
      BY <1>2, <2>1, <2>7, TipMoves
    <3>2. Passed' = Passed
      BY <1>2, <2>7, PassedMoves
    <3>3. Unrecorded' = Unrecorded
      <4>1. CASE RecordPass
        <5>1. pc = "landing" /\ pc' = "passing" /\ pc' \in AttemptPCs /\ ~SelectItem
          BY <4>1, Starts DEF AttemptPCs
        <5> QED
          BY <1>2, <5>1, GoesOn DEF Unrecorded
      <4>2. CASE ~RecordPass
        <5>1. pc \notin {"landing", "passing", "gate_landed"}
          BY <1>2, <2>7, <4>2, Leaves
        <5>2. pc' \notin {"landing", "passing", "gate_landed"}
          BY <1>2, <2>7, <4>2, Places
        <5> QED
          BY <5>1, <5>2 DEF Unrecorded
      <4> QED
        BY <4>1, <4>2
    <3>4. adopted' = adopted
      BY <1>2, <2>7, GitFrame
    <3> QED
      BY <2>7, <3>1, <3>2, <3>3, <3>4 DEF Ledger!vars, Passed, Approved
  <2> QED
    BY <1>2, <2>2, <2>3, <2>4, <2>5, <2>6, <2>7, ApprovedMoves
<1> QED
  BY <1>1, <1>2

\* The kernel implements the ledger: work gets onto the run branch one item at a
\* time, after the items it depends on and with the approval it needs, and an
\* item is called passed only once its work is there.
THEOREM ImplementsLedger == Spec => LedgerRefined
<1>1. IInv /\ HInv /\ [Next]_vars => [Ledger!Next]_(Ledger!vars)
  BY LedgerNext
<1> QED
  BY <1>1, LedgerInit, Inductive, HistoryInductive, PTL
  DEF Spec, LedgerRefined, Ledger!Spec

-----------------------------------------------------------------------------
(* Moves of the state table *)

\* The state between the selection of an item and its triage, and how many
\* rounds its attempt has had.
MoveInv ==
  /\ pc \in {"selected", "worktree", "prepared"} => Round(it) = 0
  /\ pc = "prepared" => current_state = "ST15"
  /\ pc = "context" => \/ current_state = "ST20" /\ Round(it) = 0
                       \/ current_state \in {"ST80", "ST95"} /\ Round(it) > 0
  /\ pc \in {"running", "reported", "committed"} =>
       current_state \in {"ST30", "ST80", "ST95"}
  /\ pc \in {"verifying", "verified"} => current_state = "ST40"
  /\ pc = "packet" => current_state = "ST50"
  /\ pc = "audit_codex" => current_state = "ST60"
  /\ pc = "audit_claude" => current_state = "ST61"

LEMMA MoveKept == ASSUME IInv, StateInv, MoveInv, Next PROVE MoveInv'
<1> USE DEF Goto, SetState
<1>1. items \in [Items -> ItemRow]
  BY DEF IInv, TypeOK
<1>2. pc' = "selected" => Round(it)' = 0
  <2> SUFFICES ASSUME pc' = "selected" PROVE Round(it)' = 0
    OBVIOUS
  <2>1. SelectItem
    BY Places
  <2>2. call.queue # <<>> /\ call \in Call
    BY <2>1 DEF SelectItem, IInv, TypeOK
  <2>3. Head(call.queue) \in Items
    BY <2>2 DEF Call
  <2>4. call' = [call EXCEPT !.item = Head(call.queue), !.queue = Tail(@),
                  !.evidence = IF call.processed = 0 THEN @ ELSE "none"]
    BY <2>1 DEF SelectItem, Return
  <2>5. it' = Head(call.queue)
    BY <2>2, <2>4 DEF it, Call
  <2>6. /\ items'[it'].fix_rounds_completed = 0
        /\ items'[it'].remediation_rounds_completed = 0
    BY <1>1, <2>1, <2>3, <2>5 DEF SelectItem, ItemRow
  <2> QED
    BY <2>6 DEF Round
<1>3. pc' \in {"worktree", "prepared"} => Round(it)' = 0
  <2> SUFFICES ASSUME pc' \in {"worktree", "prepared"} PROVE Round(it)' = 0
    OBVIOUS
  <2>1. AddWorktree \/ RecordWorktree
    BY Places
  <2>2. ~SelectItem /\ ~StartFix /\ ~StartRemediation /\ pc \in {"selected", "worktree"}
    BY <2>1, Starts
  <2>3. it' = it /\ it \in Items
    BY <2>2, GoesOn DEF AttemptPCs
  <2> QED
    BY <2>2, <2>3, CountersStay DEF Round, MoveInv
<1>4. pc' = "prepared" => current_state' = "ST15"
  BY Places DEF RecordWorktree
<1>5. ASSUME pc' = "context"
      PROVE  \/ current_state' = "ST20" /\ Round(it)' = 0
             \/ current_state' \in {"ST80", "ST95"} /\ Round(it)' > 0
  <2>1. ~SelectItem /\ pc' \in AttemptPCs
    BY <1>5, Starts, Places DEF SelectItem, Return, AttemptPCs, StagePCs
  <2>2. it' = it /\ it \in Items /\ row = items[it]
    BY <2>1, GoesOn
  <2>3. CASE PrepareContext
    <3>1. ~StartFix /\ ~StartRemediation /\ pc = "prepared"
      BY <2>3, Starts DEF PrepareContext
    <3> QED
      BY <2>1, <2>2, <2>3, <3>1, CountersStay DEF Round, MoveInv, PrepareContext
  <2>4. CASE StartFix \/ StartRemediation
    <3>1. /\ row.fix_rounds_completed \in Nat
          /\ row.remediation_rounds_completed \in Nat
      BY <1>1, <2>2 DEF ItemRow
    <3>2. CASE StartFix
      <4>1. /\ items'[it].fix_rounds_completed = row.fix_rounds_completed + 1
            /\ items'[it].remediation_rounds_completed = row.remediation_rounds_completed
        BY <1>1, <2>2, <3>2 DEF StartFix, ItemRow
      <4> QED
        BY <2>2, <3>1, <3>2, <4>1 DEF StartFix, Round
    <3>3. CASE StartRemediation
      <4>1. /\ items'[it].fix_rounds_completed = row.fix_rounds_completed
            /\ items'[it].remediation_rounds_completed = row.remediation_rounds_completed + 1
        BY <1>1, <2>2, <3>3 DEF StartRemediation, ItemRow
      <4> QED
        BY <2>2, <3>1, <3>3, <4>1 DEF StartRemediation, Round
    <3> QED
      BY <2>4, <3>2, <3>3
  <2> QED
    BY <1>5, <2>3, <2>4, Places
<1>6. pc' \in {"running", "reported", "committed"} =>
        current_state' \in {"ST30", "ST80", "ST95"}
  BY Places DEF MoveInv, StartMutation, RecordReport, CommitCheckpoint, saved
<1>7. pc' \in {"verifying", "verified"} => current_state' = "ST40"
  BY Places DEF MoveInv, RecordCheckpoint, Verify
<1>8. /\ pc' = "packet" => current_state' = "ST50"
      /\ pc' = "audit_codex" => current_state' = "ST60"
      /\ pc' = "audit_claude" => current_state' = "ST61"
  BY Places DEF BuildAuditPacket, StartCodexAudit, StartClaudeAudit
<1> QED
  BY <1>2, <1>3, <1>4, <1>5, <1>6, <1>7, <1>8 DEF MoveInv

LEMMA MoveInductive == Spec => []MoveInv
<1>1. Init => MoveInv
  BY DEF Init, MoveInv
<1>2. IInv /\ HInv /\ MoveInv /\ [Next]_vars => MoveInv'
  <2>1. CASE UNCHANGED vars
    BY <2>1 DEF vars, saved, process, MoveInv, Round, it
  <2> QED
    BY <2>1, MoveKept DEF HInv
<1> QED
  BY <1>1, <1>2, Inductive, HistoryInductive, PTL DEF Spec

\* No call dies of a refused move once it has selected its item: the state is
\* always one from which the table lets the process go where it goes.
THEOREM MovesGoThrough == Spec => []NoMoveRefused
<1>1. ASSUME IInv, HInv, MoveInv PROVE NoMoveRefused
  <2> USE DEF CanMove, TRANSITIONS, StateIds
  <2>1. IInv /\ StateInv /\ MoveInv
    BY <1>1 DEF HInv
  <2>2. ASSUME NEW target \in MovesAsked, target # "ST140" PROVE CanMove(current_state, target)
    <3>1. CASE pc \in {"selected", "worktree", "prepared", "context"}
      BY <2>1, <2>2, <3>1 DEF MovesAsked, MoveInv, StateInv
    <3>2. CASE pc \in {"running", "reported", "committed", "verifying", "verified"}
      BY <2>1, <2>2, <3>2 DEF MovesAsked, MoveInv
    <3>3. CASE pc \in {"packet", "audit_codex", "audit_claude", "triaging"}
      BY <2>1, <2>2, <3>3 DEF MovesAsked, MoveInv
    <3>4. CASE pc \in {"decide", "landing"}
      BY <2>1, <2>2, <3>4 DEF MovesAsked, StateInv
    <3>5. CASE pc \in DecisionPCs
      BY <2>1, <2>2, <3>5 DEF MovesAsked, StateInv, DecisionPCs
    <3>6. CASE pc \in {"idle", "queue", "passing", "advance", "gating", "blocking",
                       "escalating", "refreshing"}
      BY <2>2, <3>6 DEF MovesAsked, StagePCs
    <3> QED
      BY <2>1, <3>1, <3>2, <3>3, <3>4, <3>5, <3>6
      DEF IInv, TypeOK, PCs, StagePCs, DecisionPCs
  <2>3. ASSUME "ST140" \in MovesAsked PROVE CanMove(current_state, "ST140")
    <3>1. pc \in StagePCs \cup {"decide", "gate_rejected"}
      BY <2>3 DEF MovesAsked
    <3>2. CASE pc \in {"context", "running", "reported", "committed", "verifying",
                       "verified", "packet", "audit_codex", "audit_claude"}
      BY <2>1, <3>2 DEF MoveInv
    <3>3. CASE pc \in {"triaging", "decide", "gate_rejected"}
      BY <2>1, <3>3 DEF StateInv, DecisionPCs
    <3> QED
      BY <3>1, <3>2, <3>3 DEF StagePCs
  <2>4. pc = "context" /\ Round(it) > 0 => current_state \in {"ST80", "ST95"}
    BY <2>1 DEF MoveInv
  <2> QED
    BY <2>2, <2>3, <2>4 DEF NoMoveRefused
<1> QED
  BY <1>1, Inductive, HistoryInductive, MoveInductive, PTL

-----------------------------------------------------------------------------
(* Every call comes to its end *)

\* While a call goes on, only a pass that is recorded changes who has passed.
LEMMA UnfinishedStays ==
  ASSUME IInv, Next, pc # "idle", pc' # "idle", ~FinishPass
  PROVE  Unfinished' = Unfinished
<1>1. ASSUME NEW i \in Items
      PROVE  items'[i].terminal_state # "passed" <=> items[i].terminal_state # "passed"
  <2>1. CASE items[i].terminal_state = "passed"
    BY <2>1, PassedRowStays
  <2>2. CASE items[i].terminal_state # "passed"
    BY <2>2, NewOutcome, Starts
  <2> QED
    BY <2>1, <2>2
<1>2. {i \in Items : items'[i].terminal_state # "passed"}
        = {i \in Items : items[i].terminal_state # "passed"}
  BY <1>1
<1> QED
  BY <1>2 DEF Unfinished

LEMMA UnfinishedDrops == ASSUME IInv, Next, FinishPass PROVE Unfinished' < Unfinished
<1> DEFINE before == {i \in Items : items[i].terminal_state # "passed"}
           after == {i \in Items : items'[i].terminal_state # "passed"}
<1>1. pc \in AttemptPCs
  BY Starts DEF AttemptPCs
<1>2. it \in Items /\ items[it].terminal_state = "none" /\ items \in [Items -> ItemRow]
  BY <1>1, AttemptFacts
<1>3. items'[it].terminal_state = "passed"
  BY <1>2 DEF FinishPass, ItemRow
<1>4. after \subseteq before /\ it \in before /\ it \notin after
  BY <1>2, <1>3, PassedRowStays
<1>5. IsFiniteSet(before)
  <2>1. IsFiniteSet(Items)
    BY FS_Interval, PlanAssumption DEF Items
  <2> QED
    BY <2>1, FS_Subset
<1>6. Cardinality(after) <= Cardinality(before) /\ Cardinality(after) # Cardinality(before)
  BY <1>4, <1>5, FS_Subset
<1>7. Cardinality(after) \in Nat /\ Cardinality(before) \in Nat
  BY <1>4, <1>5, FS_Subset, FS_CardinalityType
<1>8. Cardinality(after) < Cardinality(before)
  BY <1>6, <1>7
<1> QED
  BY <1>8 DEF Unfinished

\* The steps of an attempt that neither open a round nor end it lead on.
LEMMA PlacesLead ==
  ASSUME IInv, Next, pc \in AttemptPCs, pc' \in AttemptPCs, ~StartFix, ~StartRemediation
  PROVE  PlacesLeft[pc'] < PlacesLeft[pc]
<1> USE DEF Goto, PlacesLeft
<1>1. CASE PrepareStep
  BY <1>1
  DEF PrepareStep, BlockWithoutEvidence, AddWorktree, RecordWorktree, EvidenceMissing,
      PrepareContext, Return, AttemptPCs, StagePCs
<1>2. CASE MutateStep
  BY <1>2
  DEF MutateStep, StartMutation, RecordReport, CommitCheckpoint, RecordCheckpoint, Verify
<1>3. CASE AuditStep
  <2>1. CASE StageFails
    BY <2>1 DEF StageFails, StagePCs
  <2>2. CASE ~StageFails
    BY <1>3, <2>2
    DEF AuditStep, BuildAuditPacket, StartCodexAudit, StartClaudeAudit, StartTriage, Triage
  <2> QED
    BY <2>1, <2>2
<1>4. CASE OutcomeStep
  BY <1>4
  DEF OutcomeStep, Land, RecordPass, FinishPass, RequestGate, WriteGate, BlockOnTriage,
      FinishBlocked, Escalate, FinishEscalated, Return, AttemptPCs, StagePCs
<1>5. CASE QueueStep \/ DecisionStep \/ RecordRefresh \/ Command \/ Interrupt
  BY <1>5
  DEF QueueStep, FinishQueue, RefuseItem, SelectItem, AdvanceQueue, DecisionStep,
      LandApproved, RecordApproval, RecordRejection, RecordRefresh, Command, Resume,
      CreateRefreshBranch, MarkGate, Interrupt, Return, AttemptPCs, StagePCs
<1> QED
  BY <1>1, <1>2, <1>3, <1>4, <1>5 DEF Next, Work

\* A step of an attempt leaves the queue alone, and opens a round or leads on.
LEMMA AttemptAdvances ==
  ASSUME IInv, Next, pc \in AttemptPCs, pc' \in AttemptPCs
  PROVE  /\ Queued' = Queued
         /\ \/ RoundsLeft' < RoundsLeft
            \/ RoundsLeft' = RoundsLeft /\ PlacesLeft[pc'] < PlacesLeft[pc]
<1>1. ~SelectItem /\ pc # "advance" /\ pc' # "advance"
  BY Starts DEF AttemptPCs, StagePCs
<1>2. /\ it' = it /\ it \in Items /\ row' = items'[it] /\ row = items[it]
      /\ items \in [Items -> ItemRow]
  BY <1>1, GoesOn DEF IInv, TypeOK
<1>3. Queued' = Queued
  <2>1. call'.queue = call.queue
    <3>1. call \in Call
      BY DEF IInv, TypeOK
    <3>2. PrepareStep \/ MutateStep \/ AuditStep \/ OutcomeStep
      <4>1. ~RecordRefresh /\ ~DecisionStep /\ ~Command /\ ~Interrupt
        BY DEF RecordRefresh, DecisionStep, LandApproved, RecordApproval, RecordRejection,
               Command, Resume, CreateRefreshBranch, MarkGate, Interrupt, Goto, Return,
               AttemptPCs, StagePCs
      <4>2. ~QueueStep
        BY DEF QueueStep, FinishQueue, RefuseItem, SelectItem, AdvanceQueue, AttemptPCs,
               StagePCs
      <4> QED
        BY <4>1, <4>2 DEF Next, Work
    <3>3. ~Return
      BY DEF Return, AttemptPCs, StagePCs
    <3>4. CASE PrepareStep \/ MutateStep \/ AuditStep
      BY <3>1, <3>3, <3>4
      DEF PrepareStep, BlockWithoutEvidence, AddWorktree, RecordWorktree, EvidenceMissing,
          PrepareContext, MutateStep, StartMutation, RecordReport, CommitCheckpoint,
          RecordCheckpoint, Verify, AuditStep, BuildAuditPacket, StartCodexAudit,
          StartClaudeAudit, StartTriage, Triage, StageFails, Call
    <3>5. CASE OutcomeStep
      BY <3>1, <3>3, <3>5
      DEF OutcomeStep, Land, RecordPass, FinishPass, RequestGate, WriteGate, BlockOnTriage,
          FinishBlocked, Escalate, FinishEscalated, StartFix, StartRemediation, Call
    <3> QED
      BY <3>2, <3>4, <3>5
  <2> QED
    BY <1>1, <2>1 DEF Queued
<1>4. /\ row.fix_rounds_completed \in Nat /\ row.remediation_rounds_completed \in Nat
      /\ MaxFixRounds \in Nat /\ MaxRemediationRounds \in Nat
  BY <1>2, BudgetAssumption DEF ItemRow
<1>5. CASE StartFix
  <2>1. /\ row'.fix_rounds_completed = row.fix_rounds_completed + 1
        /\ row'.remediation_rounds_completed = row.remediation_rounds_completed
    BY <1>2, <1>5 DEF StartFix, ItemRow
  <2> QED
    BY <1>3, <1>4, <2>1 DEF RoundsLeft
<1>6. CASE StartRemediation
  <2>1. /\ row'.fix_rounds_completed = row.fix_rounds_completed
        /\ row'.remediation_rounds_completed = row.remediation_rounds_completed + 1
    BY <1>2, <1>6 DEF StartRemediation, ItemRow
  <2> QED
    BY <1>3, <1>4, <2>1 DEF RoundsLeft
<1>7. CASE ~StartFix /\ ~StartRemediation
  <2>1. RoundsLeft' = RoundsLeft
    BY <1>1, <1>2, <1>7, CountersStay DEF RoundsLeft
  <2> QED
    BY <1>3, <1>7, <2>1, PlacesLead
<1> QED
  BY <1>5, <1>6, <1>7

\* Each step of a call that goes on comes down in the order of CallsAdvance.
THEOREM CallsComeDown == Spec => CallsAdvance
<1> DEFINE Down ==
       \/ Unfinished' < Unfinished
       \/ /\ Unfinished' = Unfinished
          /\ \/ Queued' < Queued
             \/ /\ Queued' = Queued
                /\ \/ RoundsLeft' < RoundsLeft
                   \/ RoundsLeft' = RoundsLeft /\ PlacesLeft[pc'] < PlacesLeft[pc]
<1>1. ASSUME IInv, Next, pc # "idle", pc' # "idle" PROVE Down
  <2>1. call \in Call /\ call'.queue \in Seq(Items) /\ call.queue \in Seq(Items)
    <3>1. call \in Call /\ call' \in Call
      BY <1>1, NextInv DEF IInv, TypeOK
    <3> QED
      BY <3>1 DEF Call
  <2>2. CASE FinishPass
    BY <1>1, <2>2, UnfinishedDrops
  <2>3. CASE SelectItem
    <3>1. Unfinished' = Unfinished
      BY <1>1, <2>3, Starts, UnfinishedStays
    <3>2. pc = "queue" /\ pc' = "selected" /\ call.queue # <<>>
          /\ call' = [call EXCEPT !.item = Head(call.queue), !.queue = Tail(@),
                        !.evidence = IF call.processed = 0 THEN @ ELSE "none"]
      BY <1>1, <2>3 DEF SelectItem, Return
    <3>3. call'.queue = Tail(call.queue)
      BY <2>1, <3>2 DEF Call
    <3>4. Len(call'.queue) < Len(call.queue) /\ Len(call.queue) \in Nat
      BY <2>1, <3>2, <3>3
    <3> QED
      BY <3>1, <3>2, <3>4 DEF Queued
  <2>4. CASE AdvanceQueue
    <3>1. pc = "advance" /\ pc' = "queue"
      BY <1>1, <2>4 DEF AdvanceQueue, Return
    <3>2. Unfinished' = Unfinished
      BY <1>1, <3>1, Starts, UnfinishedStays
    <3>3. CASE UNCHANGED call
      <4>1. Queued' < Queued
        BY <2>1, <3>1, <3>3 DEF Queued
      <4> QED
        BY <3>2, <4>1
    <3>4. ASSUME NEW i \in Items, call.queue = <<>>, call' = [call EXCEPT !.queue = <<i>>]
          PROVE  Down
      <4>1. call'.queue = <<i>>
        BY <2>1, <3>4 DEF Call
      <4>2. Len(call'.queue) = 1 /\ Len(call.queue) = 0
        BY <3>4, <4>1
      <4>3. Queued' = Queued
        BY <3>1, <4>2 DEF Queued
      <4>4. RoundsLeft' = RoundsLeft /\ PlacesLeft[pc'] < PlacesLeft[pc]
        BY <3>1 DEF RoundsLeft, AttemptPCs, StagePCs, PlacesLeft
      <4> QED
        BY <3>2, <4>3, <4>4
    <3> QED
      BY <1>1, <2>4, <3>3, <3>4 DEF AdvanceQueue, Return
  <2>5. CASE LandApproved
    <3>1. pc = "gate_approved" /\ pc' = "gate_landed" /\ UNCHANGED call
      BY <1>1, <2>5 DEF LandApproved, Return
    <3>2. Unfinished' = Unfinished
      BY <1>1, <3>1, Starts, UnfinishedStays
    <3>3. Queued' = Queued /\ RoundsLeft' = RoundsLeft /\ PlacesLeft[pc'] < PlacesLeft[pc]
      BY <3>1 DEF Queued, RoundsLeft, AttemptPCs, StagePCs, PlacesLeft
    <3> QED
      BY <3>2, <3>3
  <2>6. CASE ~FinishPass /\ ~SelectItem /\ ~AdvanceQueue /\ ~LandApproved
    <3>1. pc' \in AttemptPCs
      <4>1. ~Resume /\ ~CreateRefreshBranch
            /\ \A i \in Items, outcome \in {"approved", "rejected"} : ~MarkGate(i, outcome)
        BY <1>1 DEF Resume, CreateRefreshBranch, MarkGate, Goto
      <4>2. pc' \in PCs
        BY <1>1, NextInv DEF IInv, TypeOK
      <4>3. pc' \notin {"idle", "queue", "advance", "gate_approved", "gate_rejected",
                        "gate_landed", "refreshing"}
        BY <1>1, <2>6, <4>1, Places
      <4> QED
        BY <4>2, <4>3 DEF PCs, AttemptPCs
    <3>2. pc \in AttemptPCs
      BY <1>1, <2>6, <3>1, GoesOn
    <3>3. Unfinished' = Unfinished
      BY <1>1, <2>6, UnfinishedStays
    <3> QED
      BY <1>1, <3>1, <3>2, <3>3, AttemptAdvances
  <2> QED
    BY <2>2, <2>3, <2>4, <2>5, <2>6
<1>2. IInv /\ [Next]_vars => [pc # "idle" /\ pc' # "idle" => Down]_vars
  BY <1>1
<1> QED
  BY <1>2, Inductive, PTL DEF Spec, CallsAdvance

\* What comes down are natural numbers, so that no call goes on for ever.
THEOREM CallsAreFinite ==
  Spec => [](Unfinished \in Nat /\ Queued \in Nat /\ RoundsLeft \in Nat
             /\ PlacesLeft[pc] \in Nat)
<1>1. ASSUME IInv, RoundBudget
      PROVE  Unfinished \in Nat /\ Queued \in Nat /\ RoundsLeft \in Nat
             /\ PlacesLeft[pc] \in Nat
  <2>1. Unfinished \in Nat
    <3>1. IsFiniteSet(Items)
      BY FS_Interval, PlanAssumption DEF Items
    <3> QED
      BY <3>1, FS_Subset, FS_CardinalityType DEF Unfinished
  <2>2. Queued \in Nat
    <3>1. call.queue \in Seq(Items)
      BY <1>1 DEF IInv, TypeOK, Call
    <3>2. Len(call.queue) \in Nat
      BY <3>1
    <3>3. CASE pc = "advance"
      BY <3>2, <3>3 DEF Queued
    <3>4. CASE pc # "advance"
      BY <3>2, <3>4 DEF Queued
    <3> QED
      BY <3>3, <3>4
  <2>3. RoundsLeft \in Nat
    <3>1. CASE pc \in AttemptPCs
      <4>1. it \in Items /\ row = items[it] /\ row \in ItemRow
        BY <1>1, <3>1, AttemptFacts
      <4>2. /\ row.fix_rounds_completed \in Nat
            /\ row.remediation_rounds_completed \in Nat
            /\ row.fix_rounds_completed <= MaxFixRounds
            /\ row.remediation_rounds_completed <= MaxRemediationRounds
        BY <1>1, <4>1 DEF RoundBudget, ItemRow
      <4> QED
        BY <4>2, BudgetAssumption DEF RoundsLeft
    <3>2. CASE pc \notin AttemptPCs
      BY <3>2 DEF RoundsLeft
    <3> QED
      BY <3>1, <3>2
  <2>4. PlacesLeft[pc] \in Nat
    <3>1. pc \in PCs
      BY <1>1 DEF IInv, TypeOK
    <3>2. CASE pc \in StagePCs
      BY <3>2 DEF StagePCs, PlacesLeft
    <3>3. CASE pc \in {"idle", "queue", "selected", "worktree", "prepared", "decide",
                      "landing", "passing", "advance"}
      BY <3>3 DEF PlacesLeft
    <3>4. CASE pc \in {"gating", "blocking", "escalating", "gate_approved", "gate_landed",
                      "gate_rejected", "refreshing"}
      BY <3>4 DEF PlacesLeft
    <3> QED
      BY <3>1, <3>2, <3>3, <3>4 DEF PCs
  <2> QED
    BY <2>1, <2>2, <2>3, <2>4
<1> QED
  BY <1>1, Inductive, BudgetKept, PTL

-----------------------------------------------------------------------------
(* The outline *)

\* A gate that is waited for holds the run, and an item in the queue of a run no
\* selection can leave has no outcome that a refused selection would erase.
WaitInv ==
  \A i \in Items :
    items[i].terminal_state = "awaiting_human_gate" =>
      current_state = "ST110" /\ current_item_id = i /\ pc \notin AttemptPCs
AnewInv ==
  pc = "queue" /\ current_state \notin {"ST05", "ST130"} =>
    \A m \in 1..Len(call.queue) : items[call.queue[m]].terminal_state = "none"

OutlineInv == WaitInv /\ AnewInv

LEMMA WaitKept == ASSUME IInv, StateInv, WaitInv, Next PROVE WaitInv'
<1> SUFFICES ASSUME NEW i \in Items, items'[i].terminal_state = "awaiting_human_gate"
             PROVE  current_state' = "ST110" /\ current_item_id' = i /\ pc' \notin AttemptPCs
  BY DEF WaitInv
<1>1. CASE items[i].terminal_state # "awaiting_human_gate"
  <2>1. WriteGate /\ i = it
    BY <1>1, NewOutcome
  <2>2. pc = "gating" /\ pc' = "idle"
    BY <2>1, Starts
  <2>3. current_state = "ST110" /\ current_item_id = i
    BY <2>1, <2>2 DEF IInv, AttemptInv, AttemptPCs
  <2> QED
    BY <2>1, <2>2, <2>3 DEF WriteGate, AttemptPCs, StagePCs
<1>2. CASE items[i].terminal_state = "awaiting_human_gate"
  <2>1. current_state = "ST110" /\ current_item_id = i /\ pc \notin AttemptPCs
    BY <1>2 DEF WaitInv
  <2>2. ~SelectItem /\ ~Resume
    BY <2>1, Starts DEF StateInv, Resume, ResumeAllowed
  <2>3. ~((RecordApproval \/ RecordRejection) /\ i = it)
    <3>1. items \in [Items -> ItemRow] /\ items[i] \in ItemRow
      BY DEF IInv, TypeOK
    <3>2. RecordApproval => items' = [items EXCEPT
            ![it] = [@ EXCEPT !.terminal_state = "passed", !.manual_gate_status = "approved"]]
      BY DEF RecordApproval
    <3>3. RecordRejection => items' = [items EXCEPT
            ![it] = [@ EXCEPT !.terminal_state = "escalated", !.manual_gate_status = "rejected"]]
      BY DEF RecordRejection
    <3> QED
      BY <3>1, <3>2, <3>3 DEF ItemRow
  <2>4. UNCHANGED <<current_state, current_item_id>>
    BY <2>1, <2>2, <2>3, CurrentFrame
  <2>5. pc' \notin AttemptPCs
    BY <2>1, <2>2, GoesOn
  <2> QED
    BY <2>1, <2>4, <2>5
<1> QED
  BY <1>1, <1>2

LEMMA AnewKept == ASSUME IInv, StateInv, WaitInv, Next PROVE AnewInv'
<1> SUFFICES ASSUME pc' = "queue", current_state' \notin {"ST05", "ST130"}
             PROVE  \A m \in 1..Len(call'.queue) :
                      items'[call'.queue[m]].terminal_state = "none"
  BY DEF AnewInv
<1>1. ~AdvanceQueue
  BY DEF AdvanceQueue, StateInv, saved
<1>2. Resume
  BY <1>1, Places
<1>3. PICK i \in Items, auto \in BOOLEAN, evidence \in Evidence :
        /\ ResumeTarget(i)
        /\ IF items[i].terminal_state \in Resettable
           THEN current_state' = "ST05" /\ current_item_id' = None
           ELSE UNCHANGED <<current_state, current_item_id>>
        /\ call' = [NoCall EXCEPT !.queue = <<i>>, !.continue = auto,
                      !.limit = IF auto THEN MaxItems ELSE 0, !.evidence = evidence]
  BY <1>2 DEF Resume
<1>4. call'.queue = <<i>> /\ items' = items
  BY <1>2, <1>3, NoCallType DEF Call, Resume
<1>5. items[i].terminal_state \notin {"blocked_external", "escalated"}
  BY <1>3 DEF Resettable
<1>6. items[i].terminal_state # "awaiting_human_gate"
  BY <1>2 DEF WaitInv, Resume, ResumeAllowed
<1>7. items[i].terminal_state # "passed"
  BY <1>3 DEF ResumeTarget, FirstUnfinished, IInv, StoppedInv
<1>8. items[i].terminal_state = "none"
  <2>1. items[i].terminal_state \in TerminalNames
    BY DEF IInv, TypeOK, ItemRow
  <2> QED
    BY <1>5, <1>6, <1>7, <2>1 DEF TerminalNames
<1> QED
  BY <1>4, <1>8

LEMMA OutlineInductive == Spec => []OutlineInv
<1>1. Init => OutlineInv
  BY DEF Init, OutlineInv, WaitInv, AnewInv, NewItem
<1>2. IInv /\ HInv /\ OutlineInv /\ [Next]_vars => OutlineInv'
  <2>1. CASE UNCHANGED vars
    BY <2>1 DEF vars, saved, process, OutlineInv, WaitInv, AnewInv
  <2> QED
    BY <2>1, WaitKept, AnewKept DEF HInv, OutlineInv
<1> QED
  BY <1>1, <1>2, Inductive, HistoryInductive, PTL DEF Spec

\* Outcomes stay but for the steps that write one, what gates say but for the
\* record that is written and for decisions.
LEMMA OutcomesShown ==
  ASSUME IInv, Next, ~OutcomeSteps
  PROVE  [i \in Items |-> items'[i].terminal_state] = [i \in Items |-> items[i].terminal_state]
BY RowFrame

LEMMA OutcomeShown ==
  ASSUME IInv, Next, NEW i \in Items, NEW o, items'[i].terminal_state = o,
         \A j \in Items : j # i => items'[j].terminal_state = items[j].terminal_state
  PROVE  [j \in Items |-> items'[j].terminal_state]
           = [[j \in Items |-> items[j].terminal_state] EXCEPT ![i] = o]
OBVIOUS

LEMMA GatesShown ==
  ASSUME IInv, Next, ~WriteGate, pc \notin DecisionPCs, pc' \notin DecisionPCs
  PROVE  [i \in Items |-> GateShown(i)'] = [i \in Items |-> GateShown(i)]
<1>1. \A i \in Items, outcome \in {"approved", "rejected"} : ~MarkGate(i, outcome)
  BY DEF MarkGate, Goto, DecisionPCs
<1>2. gates' = gates
  BY <1>1, GitFrame
<1>3. \A i \in Items : items'[i].manual_gate = items[i].manual_gate
  BY RowFrame
<1>4. \A i \in Items : GateShown(i)' = GateShown(i)
  BY <1>2, <1>3 DEF GateShown, GateOf
<1> QED
  BY <1>4

\* An attempt is never where a run starts.
LEMMA AttemptsMoved ==
  ASSUME IInv, StateInv, MoveInv, pc \in AttemptPCs
  PROVE  current_state # "ST05"
BY DEF IInv, AttemptInv, StateInv, MoveInv, AttemptPCs, StagePCs

\* A selection is the outline's, or is refused and shows nothing.
LEMMA OutlineSelect ==
  ASSUME IInv, HInv, OutlineInv, Next, SelectItem
  PROVE  Outline!Next \/ UNCHANGED Outline!vars
<1> DEFINE outcomes == [j \in Items |-> items[j].terminal_state]
<1>1. pc = "queue" /\ call.queue # <<>> /\ call.queue \in Seq(Items)
  BY DEF SelectItem, IInv, TypeOK, Call
<1>2. PICK i \in Items : /\ i = Head(call.queue)
                        /\ i = call.queue[1] /\ 1 \in 1..Len(call.queue)
  BY <1>1
<1>3. items[i].terminal_state # "passed"
  BY <1>2 DEF IInv, QueueInv
<1>4. /\ items'[i].terminal_state = "none"
      /\ \A j \in Items : j # i => items'[j].terminal_state = items[j].terminal_state
  <2>1. items \in [Items -> ItemRow]
    BY DEF IInv, TypeOK
  <2> QED
    BY <1>2, <2>1 DEF SelectItem, ItemRow
<1>5. outcomes' = [outcomes EXCEPT ![i] = "none"]
  BY <1>2, <1>4, OutcomeShown
<1>6. pc \notin AttemptPCs /\ pc \notin DecisionPCs /\ pc' \in {"selected", "idle"}
  BY <1>1 DEF SelectItem, Return, AttemptPCs, StagePCs, DecisionPCs
<1>7. [j \in Items |-> GateShown(j)'] = [j \in Items |-> GateShown(j)]
  BY <1>1, <1>6, GatesShown, Starts DEF DecisionPCs
<1>8. CASE pc' = "selected"
  <2>1. /\ CanMove(current_state, "ST10") /\ current_item_id' = i
        /\ current_state \in StateIds
    BY <1>2, <1>8 DEF SelectItem, SetState, Return, IInv, TypeOK
  <2>2. current_state \in {"ST05", "ST130"}
    BY <2>1 DEF CanMove, TRANSITIONS, StateIds
  <2>3. Shown(current_state) = current_state
    BY <2>2 DEF Shown
  <2>4. Outline!Select(i)
    BY <1>3, <1>5, <1>6, <1>7, <1>8, <1>2, <2>1, <2>2, <2>3
    DEF Outline!Select, AttemptPCs
  <2> QED
    BY <1>2, <2>4 DEF Outline!Next, Outline!Items, Items
<1>9. CASE pc' = "idle"
  <2>1. UNCHANGED <<current_state, current_item_id>> /\ ~CanMove(current_state, "ST10")
    BY <1>9 DEF SelectItem, SetState
  <2>2. current_state \notin {"ST05", "ST130"}
    BY <2>1 DEF CanMove, TRANSITIONS, StateIds
  <2>3. items[i].terminal_state = "none"
    BY <1>1, <1>2, <2>2 DEF OutlineInv, AnewInv
  <2>4. outcomes' = outcomes
    BY <1>4, <2>3
  <2> QED
    BY <1>6, <1>7, <1>9, <2>1, <2>4 DEF Outline!vars, AttemptPCs, StagePCs
<1> QED
  BY <1>6, <1>8, <1>9

\* The end of an attempt is the outline's Conclude.
LEMMA OutlineConclude ==
  ASSUME IInv, HInv, Next, FinishPass \/ WriteGate \/ FinishBlocked \/ FinishEscalated
  PROVE  Outline!Next
<1> DEFINE outcomes == [j \in Items |-> items[j].terminal_state]
           gatesShown == [j \in Items |-> GateShown(j)]
<1>1. pc \in AttemptPCs /\ pc \notin DecisionPCs /\ pc' \in {"advance", "idle"}
  BY Starts DEF AttemptPCs, StagePCs, DecisionPCs
<1>2. pc' \notin AttemptPCs /\ pc' \notin DecisionPCs
  BY <1>1 DEF AttemptPCs, StagePCs, DecisionPCs
<1>3. it \in Items /\ current_item_id = it /\ items \in [Items -> ItemRow] /\ row = items[it]
  BY <1>1, AttemptFacts
<1>4. UNCHANGED <<current_state, current_item_id>>
  BY DEF FinishPass, WriteGate, FinishBlocked, FinishEscalated
<1>5. \A j \in Items : j # it => items'[j] = items[j]
  BY AttemptTouches DEF OutcomeStep, IInv
<1>6. ~WriteGate => gatesShown' = gatesShown
  BY <1>1, <1>2, GatesShown
<1>7. ASSUME NEW o \in TerminalNames \ {"none"}, items'[it].terminal_state = o,
             current_state = Outline!StateOf(o),
             Shown(current_state) = current_state,
             \/ o # "awaiting_human_gate" /\ gatesShown' = gatesShown
             \/ o = "awaiting_human_gate" /\ gatesShown' = [gatesShown EXCEPT ![it] = "pending"]
             \/ /\ o = "awaiting_human_gate" /\ gatesShown[it] = "none"
                /\ gatesShown' = gatesShown
      PROVE  Outline!Next
  <2>1. outcomes' = [outcomes EXCEPT ![it] = o]
    BY <1>3, <1>5, <1>7, OutcomeShown
  <2> HIDE DEF outcomes
  <2>2. Outline!Conclude(o)
    BY <1>1, <1>2, <1>3, <1>4, <1>7, <2>1 DEF Outline!Conclude, outcomes
  <2> QED
    BY <2>2 DEF Outline!Next, Outline!TerminalNames, TerminalNames
<1>8. CASE FinishPass
  <2>1. items'[it].terminal_state = "passed"
    BY <1>3, <1>8 DEF FinishPass, ItemRow
  <2>2. current_state = "ST130" /\ ~WriteGate
    BY <1>8, Starts DEF IInv, AttemptInv, AttemptPCs
  <2> QED
    BY <1>6, <1>7, <2>1, <2>2 DEF Outline!StateOf, Shown, TerminalNames
<1>9. CASE FinishBlocked
  <2>1. items'[it].terminal_state = "blocked_external"
    BY <1>3, <1>9 DEF FinishBlocked, ItemRow
  <2>2. current_state = "ST120" /\ ~WriteGate
    BY <1>9, Starts DEF HInv, StateInv
  <2> QED
    BY <1>6, <1>7, <2>1, <2>2 DEF Outline!StateOf, Shown, TerminalNames
<1>10. CASE FinishEscalated
  <2>1. items'[it].terminal_state = "escalated"
    BY <1>3, <1>10 DEF FinishEscalated, ItemRow
  <2>2. current_state = "ST140" /\ ~WriteGate
    BY <1>10, Starts DEF HInv, StateInv
  <2> QED
    BY <1>6, <1>7, <2>1, <2>2 DEF Outline!StateOf, Shown, TerminalNames
<1>11. CASE WriteGate
  <2>1. items'[it].terminal_state = "awaiting_human_gate"
    <3>1. items'[it].terminal_state # items[it].terminal_state
      <4> DEFINE waiting == [row EXCEPT !.terminal_state = "awaiting_human_gate",
                                        !.manual_gate_status = "pending"]
                 recorded == [waiting EXCEPT !.manual_gate = row.attempt_number]
      <4>1. \/ items' = [items EXCEPT ![it] = waiting]
            \/ items' = [items EXCEPT ![it] = recorded]
        BY <1>11 DEF WriteGate
      <4>2. /\ row \in ItemRow /\ row.terminal_state = "none"
            /\ \A r \in {waiting, recorded} : r.terminal_state = "awaiting_human_gate"
        BY <1>1, <1>3, AttemptFacts DEF ItemRow
      <4> HIDE DEF waiting, recorded
      <4> QED
        BY <1>3, <4>1, <4>2
    <3> QED
      BY <1>3, <1>11, <3>1, NewOutcome, Starts
  <2>2. current_state = "ST110"
    BY <1>11, Starts DEF IInv, AttemptInv, AttemptPCs
  <2>3. \A j \in Items : j # it => GateShown(j)' = GateShown(j)
    <3>1. SUFFICES ASSUME NEW j \in Items, j # it PROVE GateShown(j)' = GateShown(j)
      OBVIOUS
    <3>2. items'[j] = items[j] /\ items[j] \in ItemRow
      BY <1>3, <1>5, <3>1
    <3>3. \A a \in 1..MaxAttempts : gates'[j][a] = gates[j][a]
      BY <1>11, <3>1, AttemptTouches DEF OutcomeStep, IInv
    <3>4. items[j].manual_gate \in 0..MaxAttempts
      BY <3>2 DEF ItemRow
    <3> QED
      BY <1>1, <1>2, <3>2, <3>3, <3>4 DEF GateShown, GateOf, None
  <2>4. CASE it \in GateRequired
    <3>1. \A j \in Items : j = it => GateShown(j)' = "pending"
      <4>1. PICK i \in Items : GatePending(i)'
        BY <1>11, <2>4, WrittenPends DEF HInv
      <4>2. i = it
        <5>1. ~GatePending(i)
          BY <1>1, NoPendingWhileWorking DEF AttemptPCs, StagePCs
        <5>2. GateShown(i)' = "pending" /\ GateShown(i) # "pending"
          BY <1>1, <1>2, <4>1, <5>1 DEF GatePending, GateShown
        <5> QED
          BY <2>3, <5>2
      <4> QED
        BY <1>2, <4>1, <4>2 DEF GatePending, GateShown
    <3>2. gatesShown' = [gatesShown EXCEPT ![it] = "pending"]
      BY <1>3, <2>3, <3>1
    <3> HIDE DEF gatesShown
    <3> QED
      BY <1>7, <2>1, <2>2, <3>2 DEF Outline!StateOf, Shown, TerminalNames
  <2>5. CASE it \notin GateRequired
    <3>1. items[it].manual_gate = None
      BY <1>3, <2>5 DEF HInv, ReviewInv
    <3>2. items'[it].manual_gate = None
      <4> DEFINE waiting == [row EXCEPT !.terminal_state = "awaiting_human_gate",
                                        !.manual_gate_status = "pending"]
      <4>1. items' = [items EXCEPT ![it] = waiting]
        BY <1>11, <2>5 DEF WriteGate
      <4>2. waiting.manual_gate = row.manual_gate
        BY <1>1, AttemptFacts DEF ItemRow
      <4> HIDE DEF waiting
      <4> QED
        BY <1>3, <3>1, <4>1, <4>2
    <3>3. \A j \in Items : j = it => GateShown(j) = "none" /\ GateShown(j)' = "none"
      BY <1>1, <1>2, <3>1, <3>2 DEF GateShown
    <3>4. gatesShown' = gatesShown /\ gatesShown[it] = "none"
      BY <1>3, <2>3, <3>3
    <3> HIDE DEF gatesShown
    <3> QED
      BY <1>7, <2>1, <2>2, <3>4 DEF Outline!StateOf, Shown, TerminalNames
  <2> QED
    BY <2>4, <2>5
<1> QED
  BY <1>8, <1>9, <1>10, <1>11

\* The other steps of an attempt show nothing, unless it breaks off.
LEMMA OutlineWork ==
  ASSUME IInv, HInv, MoveInv, Next, pc \in AttemptPCs,
         ~FinishPass, ~WriteGate, ~FinishBlocked, ~FinishEscalated
  PROVE  Outline!Next \/ UNCHANGED Outline!vars
<1> DEFINE outcomes == [j \in Items |-> items[j].terminal_state]
           gatesShown == [j \in Items |-> GateShown(j)]
<1>1. pc \notin DecisionPCs /\ pc \notin {"idle", "queue", "advance", "refreshing"}
  BY DEF AttemptPCs, StagePCs, DecisionPCs
<1>2. ~SelectItem /\ ~RecordApproval /\ ~RecordRejection /\ ~LandApproved
      /\ ~CreateRefreshBranch /\ ~Resume /\ ~AdvanceQueue /\ ~FinishQueue /\ ~RefuseItem
      /\ ~RecordRefresh
  BY <1>1, Starts DEF DecisionPCs, AdvanceQueue, FinishQueue, RefuseItem
<1>3. \A i \in Items, outcome \in {"approved", "rejected"} : ~MarkGate(i, outcome)
  BY <1>1 DEF MarkGate, Goto
<1>4. pc' \notin DecisionPCs
  BY <1>2, <1>3, Places DEF DecisionPCs
<1>5. outcomes' = outcomes
  BY <1>2, OutcomesShown DEF OutcomeSteps
<1>6. gatesShown' = gatesShown
  BY <1>1, <1>4, GatesShown
<1>7. current_item_id' = current_item_id
  BY <1>2, CurrentFrame DEF HInv
<1> HIDE DEF outcomes, gatesShown
<1>8. CASE pc' \in AttemptPCs
  BY <1>5, <1>6, <1>7, <1>8 DEF Outline!vars, outcomes, gatesShown
<1>9. CASE pc' \notin AttemptPCs
  <2>1. pc' = "idle"
    <3>1. pc' \in PCs
      BY NextInv DEF IInv, TypeOK
    <3>2. pc' \notin {"queue", "advance", "refreshing"}
      BY <1>2, Places
    <3> QED
      BY <1>4, <1>9, <3>1, <3>2 DEF PCs, AttemptPCs, DecisionPCs
  <2>2. EvidenceMissing \/ Interrupt
    BY <1>2, <2>1, Ends
  <2>3. current_state' = current_state
    BY <2>2 DEF EvidenceMissing, Interrupt, saved
  <2>4. Shown(current_state) \in {"inside", "ST110", "ST120", "ST130", "ST140"}
    BY AttemptsMoved DEF HInv, Shown
  <2>5. Outline!Break
    BY <1>5, <1>6, <1>7, <1>9, <2>3, <2>4 DEF Outline!Break, outcomes, gatesShown
  <2> QED
    BY <2>5 DEF Outline!Next
<1> QED
  BY <1>8, <1>9

\* A decision is one step of the outline, when it is saved or is given up.
LEMMA OutlineDecide ==
  ASSUME IInv, HInv, Next, pc \in DecisionPCs
  PROVE  Outline!Next \/ UNCHANGED Outline!vars
<1> DEFINE outcomes == [j \in Items |-> items[j].terminal_state]
           gatesShown == [j \in Items |-> GateShown(j)]
<1>1. PICK i \in Items, verdict \in {"approved", "rejected"} :
        /\ i = it /\ verdict = IF pc = "gate_rejected" THEN "rejected" ELSE "approved"
        /\ row = items[i] /\ items[i].terminal_state = "awaiting_human_gate"
        /\ items[i].manual_gate = items[i].attempt_number
        /\ current_state = "ST110" /\ current_item_id = i
        /\ GateOf(i).status = verdict
        /\ items \in [Items -> ItemRow]
  BY DecidedRow DEF HInv, StateInv, IInv, TypeOK
<1>2. items[i].manual_gate # None
  BY <1>1 DEF ItemRow, None
<1>3. pc \notin AttemptPCs /\ pc \notin {"idle", "queue", "advance", "refreshing"}
  BY DEF AttemptPCs, StagePCs, DecisionPCs
<1>4. LandApproved \/ RecordApproval \/ RecordRejection \/ Interrupt
  <2>1. CASE PrepareStep \/ MutateStep \/ AuditStep \/ OutcomeStep
    BY <1>3, <2>1, AttemptTouches DEF IInv
  <2>2. CASE QueueStep
    BY <1>3, <2>2 DEF QueueStep, FinishQueue, RefuseItem, SelectItem, AdvanceQueue
  <2>3. CASE RecordRefresh \/ Command
    BY <1>3, <2>3 DEF RecordRefresh, Command, Resume, CreateRefreshBranch, MarkGate, Goto
  <2> QED
    BY <2>1, <2>2, <2>3 DEF Next, Work, DecisionStep
<1>5. gates' = gates /\ \A j \in Items : items'[j].manual_gate = items[j].manual_gate
  <2>1. ~WriteGate
    BY <1>3, Starts DEF AttemptPCs
  <2>2. \A j \in Items, outcome \in {"approved", "rejected"} : ~MarkGate(j, outcome)
    BY <1>3 DEF MarkGate, Goto
  <2> QED
    BY <2>1, <2>2, GitFrame, RowFrame
<1>6. CASE pc' = "gate_landed"
  <2>1. LandApproved /\ UNCHANGED call /\ UNCHANGED saved
    BY <1>6, Places DEF LandApproved, Return
  <2>2. pc' \in DecisionPCs /\ pc' \notin AttemptPCs /\ it' = it /\ items' = items
    BY <1>6, <2>1 DEF DecisionPCs, AttemptPCs, StagePCs, it, saved
  <2>3. gatesShown' = gatesShown
    BY <1>5, <2>2 DEF GateShown, GateOf
  <2> QED
    BY <1>3, <2>1, <2>2, <2>3 DEF Outline!vars, saved
<1>7. CASE pc' # "gate_landed"
  <2>1. pc' = "idle"
    BY <1>4, <1>7, Starts DEF Interrupt, Return
  <2>2. pc' \notin AttemptPCs /\ pc' \notin DecisionPCs
    BY <2>1 DEF DecisionPCs, AttemptPCs, StagePCs
  <2>3. /\ gatesShown[i] = "pending"
        /\ gatesShown' = [gatesShown EXCEPT ![i] = verdict]
    <3>1. \A j \in Items : GateShown(j)' = IF j = i THEN verdict ELSE GateShown(j)
      BY <1>1, <1>2, <1>5, <2>2 DEF GateShown, GateOf
    <3>2. gatesShown[i] = "pending"
      BY <1>1 DEF GateShown
    <3> QED
      BY <3>1, <3>2
  <2>4. outcomes[i] = "awaiting_human_gate"
    BY <1>1
  <2>5. current_item_id' = i
    BY <1>1, <1>4 DEF LandApproved, RecordApproval, RecordRejection, Interrupt, SetState, saved
  <2>6. CASE LandApproved \/ Interrupt
    <3>1. UNCHANGED <<current_state, items>>
      BY <2>6 DEF LandApproved, Interrupt, saved
    <3>2. outcomes' = outcomes
      BY <3>1
    <3> HIDE DEF outcomes, gatesShown
    <3>3. Outline!Decide(i, verdict)
      BY <1>1, <1>3, <2>2, <2>3, <2>4, <2>5, <3>1, <3>2
      DEF Outline!Decide, Shown, outcomes, gatesShown
    <3> QED
      BY <1>1, <3>3 DEF Outline!Next, Outline!Items, Items
  <2>7. CASE RecordApproval \/ RecordRejection
    <3> DEFINE o == IF verdict = "approved" THEN "passed" ELSE "escalated"
    <3>1. /\ RecordApproval => verdict = "approved" /\ current_state' = "ST130"
          /\ RecordRejection => verdict = "rejected" /\ current_state' = "ST140"
      BY <1>1, Starts DEF RecordApproval, RecordRejection, SetState
    <3>2. items'[i].terminal_state = o
      <4>1. RecordApproval => items' = [items EXCEPT
              ![it] = [@ EXCEPT !.terminal_state = "passed",
                                !.manual_gate_status = "approved"]]
        BY DEF RecordApproval
      <4>2. RecordRejection => items' = [items EXCEPT
              ![it] = [@ EXCEPT !.terminal_state = "escalated",
                                !.manual_gate_status = "rejected"]]
        BY DEF RecordRejection
      <4> QED
        BY <1>1, <2>7, <3>1, <4>1, <4>2 DEF ItemRow
    <3>3. \A j \in Items : j # i => items'[j].terminal_state = items[j].terminal_state
      BY <1>1, <2>7, NewOutcome, Starts
    <3>4. outcomes' = [outcomes EXCEPT ![i] = o]
      BY <1>1, <3>2, <3>3, OutcomeShown
    <3>5. current_state' = Outline!StateOf(o) /\ Shown(current_state)' = current_state'
      BY <2>7, <3>1 DEF Outline!StateOf, Shown
    <3> HIDE DEF outcomes, gatesShown
    <3>6. Outline!Decide(i, verdict)
      BY <1>1, <1>3, <2>2, <2>3, <2>4, <2>5, <3>4, <3>5
      DEF Outline!Decide, Shown, outcomes, gatesShown
    <3> QED
      BY <1>1, <3>6 DEF Outline!Next, Outline!Items, Items
  <2> QED
    BY <1>4, <2>6, <2>7
<1> QED
  BY <1>6, <1>7

\* Between attempts and decisions only a resume shows, when it sets an item back.
LEMMA OutlineRest ==
  ASSUME IInv, HInv, Next, pc \notin AttemptPCs, pc \notin DecisionPCs, ~SelectItem
  PROVE  Outline!Next \/ UNCHANGED Outline!vars
<1> DEFINE outcomes == [j \in Items |-> items[j].terminal_state]
           gatesShown == [j \in Items |-> GateShown(j)]
<1>1. pc' \notin AttemptPCs
  BY GoesOn
<1>2. outcomes' = outcomes
  BY OutcomesShown, Starts DEF OutcomeSteps, AttemptPCs, DecisionPCs
<1>3. CASE pc' \in DecisionPCs
  <2>1. PICK i \in Items, outcome \in {"approved", "rejected"} : MarkGate(i, outcome)
    BY <1>3, Places, Starts DEF DecisionPCs
  <2>2. /\ GatePending(i) /\ UNCHANGED saved
        /\ gates' = [gates EXCEPT ![i][items[i].manual_gate].status = outcome]
        /\ call' = [NoCall EXCEPT !.item = i]
    BY <2>1 DEF MarkGate
  <2>3. it' = i
    BY <2>2, NoCallType DEF it, Call
  <2>4. gates \in [Items -> [1..MaxAttempts -> GateRecord]] /\ items \in [Items -> ItemRow]
    BY DEF IInv, TypeOK
  <2>5. \A j \in Items : GateShown(j)' = GateShown(j)
    BY <1>3, <2>2, <2>3, <2>4 DEF GateShown, GateOf, GatePending, saved
  <2>6. gatesShown' = gatesShown
    BY <2>5
  <2> QED
    BY <1>1, <1>2, <2>2, <2>6 DEF Outline!vars, saved
<1>4. CASE pc' \notin DecisionPCs
  <2>1. gatesShown' = gatesShown
    BY <1>4, GatesShown, Starts DEF AttemptPCs
  <2>2. CASE UNCHANGED <<current_state, current_item_id>>
    BY <1>1, <1>2, <2>1, <2>2 DEF Outline!vars, Shown
  <2>3. CASE ~UNCHANGED <<current_state, current_item_id>>
    <3>1. Resume /\ current_state' = "ST05" /\ current_item_id' = None
      BY <2>3, CurrentFrame, Starts DEF HInv, DecisionPCs
    <3>2. PICK i \in Items : /\ ResumeTarget(i)
                             /\ items[i].terminal_state \in Resettable
      BY <2>3, <3>1 DEF Resume
    <3>3. Shown(current_state) \notin {"none", "ST110"}
          /\ (Shown(current_state) \in {"ST120", "ST140"}
                <=> current_state \in {"ST120", "ST140"})
          /\ Shown(current_state)' = "ST05"
      BY <3>1 DEF Shown, Resume, ResumeAllowed
    <3>4. Outline!Target(i)
      <4>1. DOMAIN items = Items
        BY DEF IInv, TypeOK
      <4> QED
        BY <3>2, <3>3, <4>1
        DEF Outline!Target, Outline!Items, ResumeTarget, FirstUnfinished, None, Items
    <3> HIDE DEF outcomes, gatesShown
    <3>5. Outline!Reset
      BY <1>1, <1>2, <2>1, <3>1, <3>2, <3>3, <3>4
      DEF Outline!Reset, Outline!Items, Items, Resettable, None, outcomes, gatesShown
    <3> QED
      BY <3>5 DEF Outline!Next
  <2> QED
    BY <2>2, <2>3
<1> QED
  BY <1>3, <1>4

\* The kernel implements the outline: however its calls interleave, fail and
\* die, what it shows are the outline's steps, so that who watches a run may
\* count on them.
THEOREM ImplementsOutline == Spec => OutlineRefined
<1>1. Init => Outline!Init
  <2> SUFFICES ASSUME Init PROVE Outline!Init
    OBVIOUS
  <2>1. pc = "queue" /\ current_state = "ST05" /\ current_item_id = 0
    BY DEF Init, None
  <2>2. pc \notin AttemptPCs /\ pc \notin DecisionPCs
    BY <2>1 DEF AttemptPCs, StagePCs, DecisionPCs
  <2>3. [i \in Items |-> items[i].terminal_state] = [i \in Items |-> "none"]
    BY DEF Init, NewItem
  <2>4. [i \in Items |-> GateShown(i)] = [i \in Items |-> "none"]
    BY <2>2 DEF Init, NewItem, GateShown
  <2> QED
    BY <2>1, <2>2, <2>3, <2>4 DEF Outline!Init, Outline!Items, Items, Shown
<1>2. IInv /\ HInv /\ MoveInv /\ OutlineInv /\ [Next]_vars => [Outline!Next]_(Outline!vars)
  <2> SUFFICES ASSUME IInv, HInv, MoveInv, OutlineInv, [Next]_vars
               PROVE  Outline!Next \/ UNCHANGED Outline!vars
    OBVIOUS
  <2>1. CASE UNCHANGED vars
    BY <2>1
    DEF vars, saved, process, Outline!vars, GateShown, GateOf, it, AttemptPCs, DecisionPCs,
        Shown
  <2>2. CASE Next
    <3>1. CASE FinishPass \/ WriteGate \/ FinishBlocked \/ FinishEscalated
      BY <2>2, <3>1, OutlineConclude
    <3>2. CASE ~(FinishPass \/ WriteGate \/ FinishBlocked \/ FinishEscalated)
      BY <2>2, <3>2, OutlineSelect, OutlineWork, OutlineDecide, OutlineRest
    <3> QED
      BY <3>1, <3>2
  <2> QED
    BY <2>1, <2>2
<1> QED
  BY <1>1, <1>2, Inductive, HistoryInductive, MoveInductive, OutlineInductive, PTL
  DEF Spec, OutlineRefined, Outline!Spec

-----------------------------------------------------------------------------
(* Decisions take effect *)

\* The decision of an item's gate is under way, or one was left half way.
HalfWay(i) == (pc \in DecisionPCs /\ it = i) \/ mishaps \cap HalfDecided # {}

\* DecisionTakesEffect, said of the record a row names whatever it says, and of
\* a row that waits for no record.
DecidedInv ==
  \A i \in Items :
    /\ items[i].manual_gate # None =>
         /\ GateOf(i).status # "absent"
         /\ items[i].manual_gate <= items[i].attempt_number
         /\ GateOf(i).status = "approved" =>
              HalfWay(i) \/ items[i].terminal_state = "passed"
         /\ GateOf(i).status = "rejected" =>
              \/ HalfWay(i) \/ items[i].terminal_state = "escalated"
              \/ items[i].attempt_number > items[i].manual_gate
    /\ items[i].terminal_state = "awaiting_human_gate" /\ i \notin GateRequired =>
         "gate_invalid" \in mishaps

\* The record a row names stays, is written with the row, or is decided.
LEMMA GateMoves ==
  ASSUME IInv, Next, NEW i \in Items
  PROVE  \/ /\ items'[i].manual_gate = items[i].manual_gate
            /\ items[i].manual_gate # None => GateOf(i)' = GateOf(i)
         \/ /\ WriteGate /\ items'[i].manual_gate = items[i].attempt_number
            /\ items'[i].attempt_number = items[i].attempt_number
            /\ GateOf(i)'.status = "pending"
         \/ /\ items'[i].manual_gate = items[i].manual_gate
            /\ GateOf(i)'.status \in {"approved", "rejected"}
            /\ GateOf(i)'.ref = GateOf(i).ref
            /\ pc' \in DecisionPCs /\ it' = i
<1>1. /\ items \in [Items -> ItemRow]
      /\ gates \in [Items -> [1..MaxAttempts -> GateRecord]]
      /\ items[i].manual_gate \in 0..MaxAttempts
      /\ items[i].attempt_number \in 1..MaxAttempts
  BY DEF IInv, TypeOK, ItemRow
<1>2. CASE WriteGate
  <2>1. pc \in AttemptPCs
    BY <1>2, Starts DEF AttemptPCs
  <2>2. it \in Items /\ row = items[it] /\ row \in ItemRow
    BY <2>1, AttemptFacts
  <2> DEFINE waiting == [row EXCEPT !.terminal_state = "awaiting_human_gate",
                                    !.manual_gate_status = "pending"]
             recorded == [waiting EXCEPT !.manual_gate = row.attempt_number]
             record == [status |-> "pending", ref |-> row.checkpoint_ref]
  <2>3. /\ waiting.manual_gate = row.manual_gate
        /\ recorded.manual_gate = row.attempt_number
        /\ recorded.attempt_number = row.attempt_number
        /\ record.status = "pending"
    BY <2>2 DEF ItemRow
  <2>4. \/ /\ items' = [items EXCEPT ![it] = recorded]
           /\ gates' = [gates EXCEPT ![it][row.attempt_number] = record]
        \/ /\ items' = [items EXCEPT ![it] = waiting]
           /\ gates' = gates
    BY <1>2 DEF WriteGate
  <2> HIDE DEF waiting, recorded, record
  <2>5. CASE i # it
    <3>1. items'[i] = items[i] /\ gates'[i] = gates[i]
      BY <1>1, <2>2, <2>4, <2>5
    <3> QED
      BY <3>1 DEF GateOf
  <2>6. CASE i = it /\ gates' = gates /\ items' = [items EXCEPT ![it] = waiting]
    BY <1>1, <2>2, <2>3, <2>6 DEF GateOf
  <2>7. CASE /\ i = it /\ items' = [items EXCEPT ![it] = recorded]
             /\ gates' = [gates EXCEPT ![it][row.attempt_number] = record]
    <3>1. /\ items'[i].manual_gate = items[i].attempt_number
          /\ items'[i].attempt_number = items[i].attempt_number
      BY <1>1, <2>2, <2>3, <2>7
    <3>2. gates'[i][items[i].attempt_number] = record
      BY <1>1, <2>2, <2>7
    <3>3. GateOf(i)'.status = "pending"
      BY <2>3, <3>1, <3>2 DEF GateOf
    <3> QED
      BY <1>2, <3>1, <3>3
  <2> QED
    BY <2>4, <2>5, <2>6, <2>7
<1>3. CASE \E j \in Items, outcome \in {"approved", "rejected"} : MarkGate(j, outcome)
  <2>1. PICK j \in Items, outcome \in {"approved", "rejected"} : MarkGate(j, outcome)
    BY <1>3
  <2>2. /\ gates' = [gates EXCEPT ![j][items[j].manual_gate].status = outcome]
        /\ items' = items /\ call' = [NoCall EXCEPT !.item = j]
        /\ pc' \in {"gate_approved", "gate_rejected"}
        /\ items[j].manual_gate # None
    BY <2>1 DEF MarkGate, saved, Goto, GatePending
  <2>3. CASE i # j
    <3>1. gates'[i] = gates[i]
      BY <1>1, <2>2, <2>3
    <3> QED
      BY <2>2, <3>1 DEF GateOf
  <2>4. CASE i = j
    <3>1. items[i].manual_gate \in 1..MaxAttempts
      BY <1>1, <2>2, <2>4 DEF None
    <3>2. gates[i] \in [1..MaxAttempts -> GateRecord]
          /\ gates[i][items[i].manual_gate] \in GateRecord
      BY <1>1, <3>1
    <3>3. gates'[i][items[i].manual_gate] =
            [gates[i][items[i].manual_gate] EXCEPT !.status = outcome]
      BY <1>1, <2>2, <2>4, <3>1, <3>2
    <3> DEFINE record == gates[i][items[i].manual_gate]
    <3>4. /\ [record EXCEPT !.status = outcome].status = outcome
          /\ [record EXCEPT !.status = outcome].ref = record.ref
      BY <3>2 DEF GateRecord
    <3>5. GateOf(i) = record /\ GateOf(i)' = [record EXCEPT !.status = outcome]
      BY <2>2, <3>3 DEF GateOf
    <3> HIDE DEF record
    <3>6. it' = i
      BY <2>2, <2>4, NoCallType DEF it, Call
    <3> QED
      BY <2>2, <3>4, <3>5, <3>6 DEF DecisionPCs
  <2> QED
    BY <2>3, <2>4
<1>4. CASE gates' = gates /\ ~WriteGate
  BY <1>4, RowFrame DEF GateOf
<1> QED
  BY <1>2, <1>3, <1>4, GitFrame

\* A decision under way goes on, is recorded, or is left half way.
LEMMA HalfWayEnds ==
  ASSUME IInv, StateInv, Next, NEW i \in Items, HalfWay(i)
  PROVE  \/ HalfWay(i)'
         \/ /\ GateOf(i).status = "approved" /\ items'[i].terminal_state = "passed"
         \/ /\ GateOf(i).status = "rejected" /\ items'[i].terminal_state = "escalated"
<1>1. CASE mishaps \cap HalfDecided # {}
  BY <1>1, GitFrame DEF HalfWay
<1>2. CASE pc \in DecisionPCs /\ it = i
  <2>1. /\ items \in [Items -> ItemRow] /\ items[it] \in ItemRow
        /\ GateOf(it).status = IF pc = "gate_rejected" THEN "rejected" ELSE "approved"
    BY <1>2 DEF IInv, TypeOK, StateInv
  <2>2. LandApproved \/ RecordApproval \/ RecordRejection \/ Interrupt
    BY <1>2
    DEF Next, Work, QueueStep, FinishQueue, RefuseItem, SelectItem, AdvanceQueue,
        PrepareStep, BlockWithoutEvidence, AddWorktree, RecordWorktree, EvidenceMissing,
        PrepareContext, MutateStep, StartMutation, RecordReport, CommitCheckpoint,
        RecordCheckpoint, Verify, AuditStep, BuildAuditPacket, StartCodexAudit,
        StartClaudeAudit, StartTriage, Triage, StageFails, OutcomeStep, Land, RecordPass,
        FinishPass, RequestGate, WriteGate, BlockOnTriage, FinishBlocked, Escalate,
        FinishEscalated, StartFix, StartRemediation, DecisionStep, RecordRefresh, Command,
        Resume, CreateRefreshBranch, MarkGate, Goto, DecisionPCs, StagePCs
  <2>3. CASE LandApproved
    BY <1>2, <2>3 DEF LandApproved, HalfWay, HalfDecided, DecisionPCs, it
  <2>4. CASE RecordApproval
    <3>1. items' = [items EXCEPT
            ![it] = [@ EXCEPT !.terminal_state = "passed", !.manual_gate_status = "approved"]]
      BY <2>4 DEF RecordApproval
    <3>2. items'[it].terminal_state = "passed"
      BY <1>2, <2>1, <3>1 DEF ItemRow
    <3> QED
      BY <1>2, <2>1, <2>4, <3>2, Starts
  <2>5. CASE RecordRejection
    <3>1. items' = [items EXCEPT
            ![it] = [@ EXCEPT !.terminal_state = "escalated", !.manual_gate_status = "rejected"]]
      BY <2>5 DEF RecordRejection
    <3>2. items'[it].terminal_state = "escalated"
      BY <1>2, <2>1, <3>1 DEF ItemRow
    <3> QED
      BY <1>2, <2>1, <2>5, <3>2, Starts
  <2>6. CASE Interrupt
    BY <1>2, <2>6 DEF Interrupt, HalfWay, HalfDecided
  <2> QED
    BY <2>2, <2>3, <2>4, <2>5, <2>6
<1> QED
  BY <1>1, <1>2 DEF HalfWay

LEMMA DecidedKept == ASSUME IInv, StateInv, DecidedInv, Next PROVE DecidedInv'
<1> SUFFICES ASSUME NEW i \in Items
             PROVE  /\ items'[i].manual_gate # None =>
                         /\ GateOf(i)'.status # "absent"
                         /\ items'[i].manual_gate <= items'[i].attempt_number
                         /\ GateOf(i)'.status = "approved" =>
                              HalfWay(i)' \/ items'[i].terminal_state = "passed"
                         /\ GateOf(i)'.status = "rejected" =>
                              \/ HalfWay(i)' \/ items'[i].terminal_state = "escalated"
                              \/ items'[i].attempt_number > items'[i].manual_gate
                    /\ items'[i].terminal_state = "awaiting_human_gate" /\ i \notin GateRequired =>
                         "gate_invalid" \in mishaps'
  BY DEF DecidedInv
<1>1. /\ items[i].manual_gate \in Nat /\ items[i].attempt_number \in Nat
      /\ items \in [Items -> ItemRow]
  <2>1. items \in [Items -> ItemRow] /\ items[i] \in ItemRow
    BY DEF IInv, TypeOK
  <2>2. items[i].manual_gate \in 0..MaxAttempts /\ items[i].attempt_number \in 1..MaxAttempts
    BY <2>1 DEF ItemRow
  <2> QED
    BY <2>1, <2>2, BudgetAssumption
<1>2. /\ items'[i].attempt_number >= items[i].attempt_number
      /\ items'[i].attempt_number \in Nat
      /\ SelectItem /\ i = Head(call.queue) /\ items[i].terminal_state # "none" =>
           items'[i].attempt_number > items[i].attempt_number
  <2>1. CASE ~(SelectItem /\ i = Head(call.queue))
    BY <1>1, <2>1, RowMoves
  <2>2. CASE SelectItem /\ i = Head(call.queue)
    <3>1. items'[i].attempt_number = NextAttemptNumber(items[i])
      BY <1>1, <2>2 DEF SelectItem, ItemRow
    <3>2. CASE items[i].terminal_state # "none"
      BY <1>1, <3>1, <3>2 DEF NextAttemptNumber
    <3>3. CASE items[i].terminal_state = "none"
      BY <1>1, <3>1, <3>3 DEF NextAttemptNumber
    <3> QED
      BY <3>2, <3>3
  <2> QED
    BY <2>1, <2>2
<1>3. ASSUME items'[i].terminal_state = "awaiting_human_gate", i \notin GateRequired
      PROVE  "gate_invalid" \in mishaps'
  <2>1. CASE items[i].terminal_state = "awaiting_human_gate"
    BY <1>3, <2>1, GitFrame DEF DecidedInv
  <2>2. CASE items[i].terminal_state # "awaiting_human_gate"
    <3>1. WriteGate /\ i = it
      BY <1>3, <2>2, NewOutcome
    <3> QED
      BY <1>3, <3>1 DEF WriteGate
  <2> QED
    BY <2>1, <2>2
<1>4. CASE /\ items'[i].manual_gate = items[i].manual_gate
           /\ items[i].manual_gate # None => GateOf(i)' = GateOf(i)
  <2> SUFFICES ASSUME items[i].manual_gate # None
               PROVE  /\ GateOf(i)'.status # "absent"
                      /\ items'[i].manual_gate <= items'[i].attempt_number
                      /\ GateOf(i)'.status = "approved" =>
                           HalfWay(i)' \/ items'[i].terminal_state = "passed"
                      /\ GateOf(i)'.status = "rejected" =>
                           \/ HalfWay(i)' \/ items'[i].terminal_state = "escalated"
                           \/ items'[i].attempt_number > items'[i].manual_gate
    BY <1>4, <1>3
  <2>1. /\ GateOf(i)'.status # "absent"
        /\ items'[i].manual_gate <= items'[i].attempt_number
    BY <1>1, <1>2, <1>4 DEF DecidedInv
  <2>2. CASE HalfWay(i)
    BY <1>4, <2>1, <2>2, HalfWayEnds
  <2>3. CASE ~HalfWay(i) /\ GateOf(i).status = "approved"
    <3>1. items[i].terminal_state = "passed"
      BY <2>3 DEF DecidedInv
    <3>2. items'[i].terminal_state = "passed"
      BY <3>1, PassedRowStays
    <3> QED
      BY <1>4, <2>1, <2>3, <3>2
  <2>4. CASE ~HalfWay(i) /\ GateOf(i).status = "rejected"
    <3>1. CASE items[i].attempt_number > items[i].manual_gate
      BY <1>1, <1>2, <1>4, <2>1, <2>4, <3>1
    <3>2. CASE items[i].terminal_state = "escalated"
      <4>1. CASE items'[i].terminal_state = "escalated"
        BY <1>4, <2>1, <2>4, <4>1
      <4>2. CASE items'[i].terminal_state # "escalated"
        <5>1. ~(i = it /\ (FinishPass \/ WriteGate \/ FinishBlocked \/ FinishEscalated))
          BY <3>2, Starts, AttemptFacts DEF AttemptPCs
        <5>2. ~(i = it /\ (RecordApproval \/ RecordRejection))
          BY <3>2, Starts DEF IInv, DecisionInv, DecisionPCs, row
        <5>3. SelectItem /\ i = Head(call.queue)
          BY <3>2, <4>2, <5>1, <5>2, NewOutcome
        <5>4. items'[i].attempt_number > items[i].attempt_number
          BY <1>2, <3>2, <5>3
        <5> QED
          BY <1>1, <1>2, <1>4, <2>1, <2>4, <5>4 DEF DecidedInv
      <4> QED
        BY <4>1, <4>2
    <3> QED
      BY <2>4, <3>1, <3>2 DEF DecidedInv
  <2> QED
    BY <1>4, <2>1, <2>2, <2>3, <2>4
<1>5. CASE /\ items'[i].manual_gate = items[i].attempt_number
           /\ items'[i].attempt_number = items[i].attempt_number
           /\ GateOf(i)'.status = "pending"
  BY <1>1, <1>5, <1>3
<1>6. CASE /\ items'[i].manual_gate = items[i].manual_gate
           /\ GateOf(i)'.status \in {"approved", "rejected"}
           /\ pc' \in DecisionPCs /\ it' = i
  <2>1. HalfWay(i)'
    BY <1>6 DEF HalfWay
  <2>2. items'[i].manual_gate # None =>
          items'[i].manual_gate <= items'[i].attempt_number
    BY <1>1, <1>2, <1>6 DEF DecidedInv
  <2> QED
    BY <1>6, <1>3, <2>1, <2>2
<1> QED
  BY <1>4, <1>5, <1>6, GateMoves

\* A decision a human took takes effect: of an approved gate the item passed, of
\* a rejected one it is escalated or was taken up anew, and a row that waits has
\* a record to decide; unless a process died between a decision's record and its
\* row, or another named mishap left one half way (mark_manual_gate,
\* runtime.py:334-441).
THEOREM DecisionsTakeEffect == Spec => []DecisionTakesEffect
<1>1. Init => DecidedInv
  BY DEF Init, DecidedInv, NewItem, None
<1>2. IInv /\ HInv /\ DecidedInv /\ [Next]_vars => DecidedInv'
  <2>1. CASE UNCHANGED vars
    BY <2>1 DEF vars, saved, process, DecidedInv, HalfWay, GateOf, it
  <2> QED
    BY <2>1, DecidedKept DEF HInv
<1>3. IInv /\ HInv /\ DecidedInv => DecisionTakesEffect
  <2> SUFFICES ASSUME IInv, ReviewInv, DecidedInv, NEW i \in Items, ~HalfWay(i)
               PROVE  /\ items[i].terminal_state = "awaiting_human_gate" => GatePending(i)
                      /\ items[i].manual_gate # None =>
                           CASE GateOf(i).status = "pending" ->
                                  items[i].terminal_state = "awaiting_human_gate"
                             [] GateOf(i).status = "approved" ->
                                  items[i].terminal_state = "passed"
                             [] GateOf(i).status = "rejected" ->
                                  \/ items[i].terminal_state = "escalated"
                                  \/ items[i].attempt_number > items[i].manual_gate
                             [] OTHER -> FALSE
    BY DEF HInv, DecisionTakesEffect, HalfWay
  <2>1. /\ items[i] \in ItemRow /\ items[i].attempt_number \in 1..MaxAttempts
        /\ items[i].manual_gate \in 0..MaxAttempts
        /\ gates \in [Items -> [1..MaxAttempts -> GateRecord]]
    BY DEF IInv, TypeOK, ItemRow
  <2>2. ASSUME items[i].manual_gate # None
        PROVE  GateOf(i).status \in {"pending", "approved", "rejected"}
    <3>1. items[i].manual_gate \in 1..MaxAttempts
      BY <2>1, <2>2 DEF None
    <3>2. GateOf(i) \in GateRecord
      BY <2>1, <3>1 DEF GateOf
    <3>3. GateOf(i).status # "absent"
      BY <2>2 DEF DecidedInv
    <3> QED
      BY <3>2, <3>3 DEF GateRecord
  <2>3. ASSUME items[i].manual_gate # None, GateOf(i).status = "pending"
        PROVE  items[i].terminal_state = "awaiting_human_gate"
    BY <2>3 DEF IInv, PendingGateHolds, GatePending
  <2>4. ASSUME items[i].terminal_state = "awaiting_human_gate"
        PROVE  GatePending(i)
    <3>1. i \in GateRequired
      BY <2>4 DEF DecidedInv, HalfWay, HalfDecided
    <3>2. items[i].manual_gate = items[i].attempt_number
      BY <2>4, <3>1 DEF ReviewInv, Reviewed
    <3>3. items[i].manual_gate # None
      BY <2>1, <3>2 DEF None
    <3>4. GateOf(i).status # "approved"
      BY <2>4, <3>3 DEF DecidedInv
    <3>5. GateOf(i).status # "rejected"
      <4>1. ~(items[i].attempt_number > items[i].manual_gate)
        BY <2>1, <3>2
      <4> QED
        BY <2>4, <3>3, <4>1 DEF DecidedInv
    <3> QED
      BY <2>2, <3>3, <3>4, <3>5 DEF GatePending
  <2> QED
    BY <2>2, <2>3, <2>4 DEF DecidedInv
<1> QED
  BY <1>1, <1>2, <1>3, Inductive, HistoryInductive, PTL DEF Spec

-----------------------------------------------------------------------------
(* Git refuses nothing *)

\* What can still be fast-forwarded onto t, or leaves it at a commit of A.
LeavesAt(s, t, A) ==
  \E n \in 2..Len(s) : /\ \A m \in 1..(n - 1) : m <= Len(t) /\ s[m] = t[m]
                       /\ n > Len(t) \/ s[n] # t[n]
                       /\ s[n] \in A
Lands(s, t, A) == IsPrefix(s, t) \/ LeavesAt(s, t, A)

\* A gate that waits, or is about to land, names such a commit.
LandableInv ==
  \A i \in Items :
    GatePending(i) \/ (pc = "gate_approved" /\ it = i) =>
      Lands(RunTip, GateOf(i).ref, adopted)

\* A set of numbers has a least one.
LEMMA LeastPlace ==
  ASSUME NEW D \in SUBSET Nat, D # {}
  PROVE  \E n \in D : \A m \in D : ~(m < n)
<1>1. PICK n \in D : \A m \in D : ~(<<m, n>> \in OpToRel(<, Nat))
  BY NatLessThanWellFounded, WFMin
<1>2. \A m \in D : m < n => <<m, n>> \in OpToRel(<, Nat)
  BY DEF OpToRel
<1> QED
  BY <1>1, <1>2

\* What a refresh puts on top changes nothing of that.
LEMMA RefreshOnTop ==
  ASSUME NEW s \in Seq(Commits), NEW u \in Seq(Commits), NEW t \in Seq(Commits),
         s # <<>>, IsPrefix(s, u), NEW A, NEW B, A \subseteq B,
         ToSet(SubSeq(u, Len(s) + 1, Len(u))) \subseteq B, Lands(s, t, A)
  PROVE  Lands(u, t, B)
<1>1. /\ Len(s) <= Len(u) /\ \A n \in 1..Len(s) : s[n] = u[n]
      /\ Len(s) \in Nat /\ Len(s) >= 1 /\ Len(t) \in Nat /\ Len(u) \in Nat
  BY PrefixPlaces
<1>2. CASE IsPrefix(s, t)
  <2> DEFINE D == {n \in 1..Len(u) : n > Len(t) \/ u[n] # t[n]}
  <2>1. Len(s) <= Len(t) /\ \A n \in 1..Len(s) : s[n] = t[n]
    BY <1>2, PrefixPlaces
  <2>2. CASE D = {}
    <3>1. \A n \in 1..Len(u) : n <= Len(t) /\ u[n] = t[n]
      BY <1>1, <2>2
    <3>2. Len(u) <= Len(t)
      BY <1>1, <3>1
    <3> QED
      BY <3>1, <3>2, PrefixPlaces DEF Lands
  <2>3. CASE D # {}
    <3>1. D \in SUBSET Nat
      BY <1>1
    <3>2. PICK n \in D : \A m \in D : ~(m < n)
      BY <2>3, <3>1, LeastPlace
    <3>3. n \in 1..Len(u) /\ (n > Len(t) \/ u[n] # t[n])
      BY <3>2
    <3>4. n > Len(s)
      BY <1>1, <2>1, <3>3
    <3>5. \A m \in 1..(n - 1) : m <= Len(t) /\ u[m] = t[m]
      BY <1>1, <3>2, <3>3
    <3>6. u[n] \in B
      BY <3>3, <3>4, BeyondAdded
    <3>7. n \in 2..Len(u)
      BY <1>1, <3>3, <3>4
    <3> HIDE DEF D
    <3> QED
      BY <3>3, <3>5, <3>6, <3>7 DEF Lands, LeavesAt
  <2> QED
    BY <2>2, <2>3
<1>3. CASE LeavesAt(s, t, A)
  <2>1. PICK n \in 2..Len(s) : /\ \A m \in 1..(n - 1) : m <= Len(t) /\ s[m] = t[m]
                               /\ n > Len(t) \/ s[n] # t[n]
                               /\ s[n] \in A
    BY <1>3 DEF LeavesAt
  <2>2. n \in 2..Len(u) /\ u[n] = s[n] /\ \A m \in 1..(n - 1) : u[m] = s[m]
    BY <1>1
  <2> QED
    BY <2>1, <2>2 DEF Lands, LeavesAt
<1> QED
  BY <1>2, <1>3 DEF Lands

LEMMA LandableKept == ASSUME IInv, HInv, LandableInv, Next PROVE LandableInv'
<1> SUFFICES ASSUME NEW i \in Items,
                    GatePending(i)' \/ (pc' = "gate_approved" /\ it' = i)
             PROVE  Lands(RunTip', GateOf(i)'.ref, adopted')
  BY DEF LandableInv
<1>1. IInv' /\ StateInv /\ ReviewInv /\ TipInv
  BY NextInv DEF HInv
<1>2. CASE /\ WriteGate /\ items'[i].attempt_number = items[i].attempt_number
           /\ GatePending(i)'
  <2>1. pc = "gating" /\ it \in Items /\ current_item_id = it
    BY <1>2, Starts, AttemptFacts DEF AttemptPCs
  <2>2. /\ current_item_id' = current_item_id /\ item_branches' = item_branches
        /\ RunTip' = RunTip
    BY <1>2 DEF WriteGate, git, RunTip
  <2>3. current_item_id' = i /\ GateOf(i)'.ref = Branch(i)'
    BY <1>1, <1>2 DEF IInv, PendingGateHolds
  <2>4. i = it /\ Branch(i)' = Branch(it)
    BY <1>2, <2>1, <2>2, <2>3 DEF Branch
  <2>5. IsPrefix(RunTip, Branch(it))
    BY <1>1, <2>1 DEF TipInv, BranchPCs
  <2> QED
    BY <2>2, <2>3, <2>4, <2>5 DEF Lands
<1>3. CASE GatePending(i) /\ GateOf(i)'.ref = GateOf(i).ref
  <2>1. pc \in {"idle", "refreshing"}
    BY <1>3 DEF IInv, PendingGateHolds
  <2>2. Lands(RunTip, GateOf(i).ref, adopted)
    BY <1>3 DEF LandableInv
  <2>3. CASE ~RecordRefresh
    <3>1. RunTip' = RunTip /\ adopted' = adopted
      BY <1>1, <2>1, <2>3, TipMoves, GitFrame, Starts
    <3> QED
      BY <1>3, <2>2, <3>1
  <2>4. CASE RecordRefresh
    <3>1. /\ RunTip \in Seq(Commits) /\ RunTip' \in Seq(Commits)
          /\ IsPrefix(RunTip, RunTip') /\ RunTip # <<>>
      BY <1>1, TipGrows DEF TipInv, NoHistory
    <3>2. adopted' = adopted \cup ToSet(SubSeq(RunTip', Len(RunTip) + 1, Len(RunTip')))
      BY <1>1, <2>4, RefreshAdopts
    <3>3. GateOf(i).ref \in Seq(Commits)
      <4>1. GateOf(i).ref = Branch(i)
        BY <1>3 DEF IInv, PendingGateHolds
      <4> QED
        BY <4>1, Histories
    <3> QED
      BY <1>3, <2>2, <3>1, <3>2, <3>3, RefreshOnTop
  <2> QED
    BY <2>3, <2>4
<1>4. CASE pc' = "gate_approved" /\ it' = i
  <2>1. PICK j \in Items, outcome \in {"approved", "rejected"} : MarkGate(j, outcome)
    BY <1>4, Places
  <2>2. /\ GatePending(j) /\ call' = [NoCall EXCEPT !.item = j]
        /\ pc = "idle" /\ items' = items
        /\ gates' = [gates EXCEPT ![j][items[j].manual_gate].status = outcome]
    BY <2>1 DEF MarkGate, Goto, saved
  <2>3. i = j
    BY <1>4, <2>2, NoCallType DEF it, Call
  <2>4. GateOf(i)'.ref = GateOf(i).ref
    <3>1. GateOf(i)' = GateOf(i) \/ GateOf(i)'.ref = GateOf(i).ref
      BY <2>2, <2>3, Starts, GateMoves DEF GatePending
    <3> QED
      BY <3>1
  <2> QED
    BY <1>3, <2>2, <2>3, <2>4
<1>5. CASE GatePending(i)'
  <2>1. CASE /\ items'[i].manual_gate = items[i].manual_gate
             /\ items[i].manual_gate # None => GateOf(i)' = GateOf(i)
    BY <1>3, <1>5, <2>1 DEF GatePending
  <2>2. CASE WriteGate /\ items'[i].attempt_number = items[i].attempt_number
    BY <1>2, <1>5, <2>2
  <2>3. GateOf(i)'.status = "pending"
    BY <1>5 DEF GatePending
  <2> QED
    BY <2>1, <2>2, <2>3, GateMoves
<1> QED
  BY <1>4, <1>5

\* Git refuses nothing that no refresh stands in the way of: the name of a new
\* attempt's branch is free, the run branch is an ancestor of what is about to
\* land, and an approved commit can be overtaken by a refresh only
\* (worktree_manager.py:99-102, fast_forward_run_branch_to_ref,
\* worktree_manager.py:118-135).
THEOREM GitNeverRefuses == Spec => []GitAgrees
<1>1. Init => LandableInv
  BY DEF Init, LandableInv, NewItem, GatePending, None
<1>2. IInv /\ HInv /\ LandableInv /\ [Next]_vars => LandableInv'
  <2>1. CASE UNCHANGED vars
    BY <2>1 DEF vars, saved, git, process, LandableInv, GatePending, GateOf, RunTip, it
  <2> QED
    BY <2>1, LandableKept
<1>3. IInv /\ HInv /\ LandableInv => GitAgrees
  <2> SUFFICES ASSUME IInv, HInv, LandableInv PROVE GitAgrees
    OBVIOUS
  <2>1. pc = "gate_approved" => it \in Items
    BY DecidedRow DEF HInv, DecisionPCs
  <2> QED
    BY <2>1 DEF HInv, FreshInv, TipInv, LandableInv, Lands, LeavesAt, LeftByRefresh,
                   GitAgrees, BranchPCs
<1> QED
  BY <1>1, <1>2, <1>3, Inductive, HistoryInductive, PTL DEF Spec
=============================================================================
