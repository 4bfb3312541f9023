----------------------------- MODULE KernelProofs -----------------------------
(***************************************************************************)
(* Theorems about the kernel, for every plan, request, budget and bound:    *)
(* IInv of KernelProperties is inductive, one lemma per group of actions,   *)
(* and what follows from it.                                                *)
(***************************************************************************)
EXTENDS KernelProperties, TLAPS

-----------------------------------------------------------------------------
(* Data *)

\* The values the actions write are of the types TypeOK gives them.
LEMMA NoCallType == NoCall \in Call
BY PlanAssumption DEF NoCall, Call, None, Evidence, NoCycle, Cycles, Items

LEMMA NewItemType == ASSUME NEW i \in Items PROVE NewItem(i) \in ItemRow
BY BudgetAssumption DEF NewItem, ItemRow, TerminalNames, None, NoHistory, NoCycle, Cycles, Commits

LEMMA CycleType ==
  ASSUME TypeOK, NEW i \in Items
  PROVE  Cycle(i) \in Cycles /\ Round(i) \in Nat
<1>1. items[i] \in ItemRow
  BY DEF TypeOK
<1>2. /\ items[i].attempt_number \in Nat
      /\ items[i].fix_rounds_completed \in Nat
      /\ items[i].remediation_rounds_completed \in Nat
  BY <1>1, BudgetAssumption DEF ItemRow
<1> QED
  BY <1>2 DEF Cycle, Cycles, Round

LEMMA NextAttemptType ==
  ASSUME NEW r \in ItemRow, NextAttemptNumber(r) <= MaxAttempts
  PROVE  NextAttemptNumber(r) \in 1..MaxAttempts
BY DEF NextAttemptNumber, ItemRow

\* SetState leaves a state of the machine and names the item.
LEMMA SetStateType ==
  ASSUME TypeOK, NEW i, NEW s, SetState(i, s)
  PROVE  current_state' \in StateIds /\ current_state' = s /\ current_item_id' = i
<1>1. s \in TRANSITIONS[current_state] /\ current_state \in StateIds
  BY DEF SetState, CanMove, TypeOK
<1>2. \A c \in StateIds : TRANSITIONS[c] \subseteq StateIds
  BY DEF TRANSITIONS, StateIds
<1> QED
  BY <1>1, <1>2 DEF SetState

-----------------------------------------------------------------------------
(* The start *)

LEMMA InitInv == Init => IInv
<1> SUFFICES ASSUME Init PROVE IInv
  OBVIOUS
<1> PICK r \in Requests, auto \in BOOLEAN, evidence \in Evidence :
      call = [NoCall EXCEPT !.queue = r.items, !.continue = auto,
                            !.limit = MaxItems, !.evidence = evidence]
  BY DEF Init
<1>1. call \in Call /\ call.queue = r.items
  BY NoCallType, RequestsAssumption, BudgetAssumption DEF Call
<1>2. run_branches \in Seq(Seq(Commits))
  BY DEF Init, Commits, Base, None
<1>3. TypeOK
  BY <1>1, <1>2, NewItemType, PlanAssumption
  DEF Init, TypeOK, StateIds, None, GateRecord, NoHistory, PCs, Items
<1>4. AttemptInv /\ DecisionInv /\ StoppedInv
  BY DEF Init, AttemptInv, DecisionInv, StoppedInv, AttemptPCs, DecisionPCs, StagePCs
<1>5. QueueInv
  <2>1. \A m \in 1..Len(r.items) : r.items[m] \in Items
    BY RequestsAssumption
  <2>2. \A i \in Items : items[i].terminal_state # "passed"
    BY DEF Init, NewItem
  <2> QED
    BY <1>1, <2>1, <2>2, RequestsAssumption
    DEF Init, QueueInv, AttemptPCs, StagePCs
<1>6. PendingGateHolds
  BY DEF Init, PendingGateHolds, GatePending, NewItem, None
<1> QED
  BY <1>3, <1>4, <1>5, <1>6 DEF IInv

-----------------------------------------------------------------------------
(* Steps within an attempt *)

\* While a process works on an attempt no gate is pending.
LEMMA NoPendingWhileWorking ==
  ASSUME IInv, pc \notin {"idle", "refreshing"}
  PROVE  \A i \in Items : ~GatePending(i)
BY DEF IInv, PendingGateHolds

\* What an attempt under way can count on.
LEMMA AttemptFacts ==
  ASSUME IInv, pc \in AttemptPCs
  PROVE  /\ it \in Items /\ current_item_id = it /\ row = items[it]
         /\ items \in [Items -> ItemRow] /\ row \in ItemRow
         /\ row.terminal_state = "none"
         /\ row.attempt_number \in 1..MaxAttempts
         /\ call \in Call /\ current_state \in StateIds
         /\ run_branch \in 1..Len(run_branches)
         /\ run_branches \in Seq(Seq(Commits))
         /\ item_branches \in [Items -> [1..MaxAttempts -> Seq(Commits)]]
         /\ Branch(it) \in Seq(Commits)
         /\ Cycle(it) \in Cycles /\ Round(it) \in Nat
<1>1. /\ it \in Items /\ current_item_id = it /\ row = items[it]
      /\ row.terminal_state = "none"
  BY DEF IInv, AttemptInv, row
<1>2. /\ items \in [Items -> ItemRow] /\ call \in Call /\ current_state \in StateIds
      /\ run_branches \in Seq(Seq(Commits)) /\ run_branch \in 1..Len(run_branches)
      /\ item_branches \in [Items -> [1..MaxAttempts -> Seq(Commits)]]
  BY DEF IInv, TypeOK
<1>3. row \in ItemRow
  BY <1>1, <1>2
<1>4. row.attempt_number \in 1..MaxAttempts
  BY <1>3 DEF ItemRow
<1>5. Branch(it) \in Seq(Commits)
  BY <1>1, <1>2, <1>4 DEF Branch
<1>6. Cycle(it) \in Cycles /\ Round(it) \in Nat
  BY <1>1, CycleType DEF IInv
<1> QED
  BY <1>1, <1>2, <1>3, <1>4, <1>5, <1>6

\* Most steps rewrite the row of the item under way, at most, and go on.
LEMMA AttemptStep ==
  ASSUME IInv, pc \in AttemptPCs, pc' \in AttemptPCs,
         items' \in [Items -> ItemRow],
         \A i \in Items : i # it => items'[i] = items[i],
         items'[it].terminal_state = "none",
         items'[it].attempt_number = row.attempt_number,
         items'[it].manual_gate = row.manual_gate,
         pc' \in ReviewedPCs => /\ items'[it].checkpoint_ref = Branch(it)
                                /\ item_branches' = item_branches,
         pc' = "gating" => current_state' = "ST110",
         pc' = "passing" => current_state' = "ST130",
         current_state' \in StateIds, current_item_id' = it,
         call' \in Call, call'.item = it, call'.queue = call.queue,
         run_branches' \in Seq(Seq(Commits)), Len(run_branches') = Len(run_branches),
         item_branches' \in [Items -> [1..MaxAttempts -> Seq(Commits)]],
         UNCHANGED <<run_branch, adopted, gates, mishaps>>
  PROVE  IInv'
<1>1. it \in Items /\ items \in [Items -> ItemRow] /\ call \in Call
      /\ row = items[it] /\ row.attempt_number \in 1..MaxAttempts
  BY AttemptFacts
<1>2. it' = it
  BY DEF it
<1>3. TypeOK'
  BY <1>1 DEF IInv, TypeOK, AttemptPCs, StagePCs, PCs, Items
<1>4. AttemptInv'
  BY <1>1, <1>2 DEF AttemptInv, Branch, row
<1>5. DecisionInv' /\ StoppedInv'
  BY DEF DecisionInv, StoppedInv, AttemptPCs, StagePCs, DecisionPCs
<1>6. QueueInv'
  <2>1. \A m \in 1..Len(call.queue) : call.queue[m] \in Items
    BY <1>1 DEF Call
  <2> QED
    BY <1>1, <1>2, <2>1 DEF IInv, QueueInv
<1>7. PendingGateHolds'
  <2>1. \A i \in Items : items'[i].manual_gate = items[i].manual_gate
    BY <1>1
  <2>2. \A i \in Items : ~GatePending(i)
    BY NoPendingWhileWorking DEF AttemptPCs, StagePCs
  <2> QED
    BY <2>1, <2>2 DEF PendingGateHolds, GatePending, GateOf
<1> QED
  BY <1>3, <1>4, <1>5, <1>6, <1>7 DEF IInv

\* The steps that prepare a worktree keep the invariant.
LEMMA PrepareInv ==
  ASSUME IInv,
         BlockWithoutEvidence \/ AddWorktree \/ RecordWorktree \/ PrepareContext
  PROVE  IInv'
<1>1. CASE BlockWithoutEvidence
  <2>1. pc \in AttemptPCs /\ pc' \in AttemptPCs \ (ReviewedPCs \cup {"gating", "passing"})
    BY <1>1 DEF BlockWithoutEvidence, Goto, AttemptPCs, StagePCs, ReviewedPCs
  <2>2. current_state' \in StateIds /\ current_item_id' = it
    BY <1>1, SetStateType DEF BlockWithoutEvidence, IInv
  <2> QED
    BY <1>1, <2>1, <2>2, AttemptFacts, AttemptStep
    DEF BlockWithoutEvidence, git, it
<1>2. CASE AddWorktree
  <2>1. pc \in AttemptPCs /\ pc' \in AttemptPCs \ (ReviewedPCs \cup {"gating", "passing"})
    BY <1>2 DEF AddWorktree, Goto, AttemptPCs, StagePCs, ReviewedPCs
  <2>2. WorktreeBase \in Seq(Commits)
    BY <2>1, AttemptFacts DEF WorktreeBase, RunTip
  <2>3. item_branches' \in [Items -> [1..MaxAttempts -> Seq(Commits)]]
    BY <1>2, <2>1, <2>2, AttemptFacts DEF AddWorktree
  <2> QED
    BY <1>2, <2>1, <2>3, AttemptFacts, AttemptStep DEF AddWorktree, saved, it
<1>3. CASE RecordWorktree
  <2>1. pc \in AttemptPCs /\ pc' \in AttemptPCs \ (ReviewedPCs \cup {"gating", "passing"})
    BY <1>3 DEF RecordWorktree, Goto, AttemptPCs, StagePCs, ReviewedPCs
  <2>2. current_state' \in StateIds /\ current_item_id' = it
    BY <1>3, SetStateType DEF RecordWorktree, IInv
  <2>3. [row EXCEPT !.branch = row.attempt_number] \in ItemRow
    <3>1. row.attempt_number \in 0..MaxAttempts
      BY <2>1, AttemptFacts
    <3> QED
      BY <2>1, <3>1, AttemptFacts DEF ItemRow
  <2> QED
    BY <1>3, <2>1, <2>2, <2>3, AttemptFacts, AttemptStep
    DEF RecordWorktree, git, it, row
<1>4. CASE PrepareContext
  <2>1. pc \in AttemptPCs /\ pc' \in AttemptPCs \ (ReviewedPCs \cup {"gating", "passing"})
    BY <1>4 DEF PrepareContext, Goto, AttemptPCs, StagePCs, ReviewedPCs
  <2>2. current_state' \in StateIds /\ current_item_id' = it
    BY <1>4, SetStateType DEF PrepareContext, IInv
  <2>3. call' \in Call /\ call'.item = it /\ call'.queue = call.queue
    BY <1>4, <2>1, AttemptFacts DEF PrepareContext, Call, Evidence, it
  <2> DEFINE v == IF call.evidence = "present" THEN "resolved"
                  ELSE row.external_check_status
  <2>4. [row EXCEPT !.external_check_status = v] \in ItemRow
    BY <2>1, AttemptFacts DEF ItemRow
  <2>5. items' = [items EXCEPT ![it] = [row EXCEPT !.external_check_status = v]]
    BY <1>4, <2>1, AttemptFacts DEF PrepareContext, row
  <2> HIDE DEF v
  <2> QED
    BY <1>4, <2>1, <2>2, <2>3, <2>4, <2>5, AttemptFacts, AttemptStep
    DEF PrepareContext, git, it
<1> QED
  BY <1>1, <1>2, <1>3, <1>4

\* Those of a mutation stage do.
LEMMA MutateInv ==
  ASSUME IInv, MutateStep PROVE IInv'
<1>1. CASE StartMutation
  <2>1. pc \in AttemptPCs /\ pc' \in AttemptPCs \ (ReviewedPCs \cup {"gating", "passing"})
    BY <1>1 DEF StartMutation, Goto, AttemptPCs, StagePCs, ReviewedPCs
  <2>2. current_state' \in StateIds /\ current_item_id' = it
    BY <1>1, <2>1, AttemptFacts, SetStateType DEF StartMutation, IInv
  <2> QED
    BY <1>1, <2>1, <2>2, AttemptFacts, AttemptStep DEF StartMutation, git, it
<1>2. CASE RecordReport
  <2>1. pc \in AttemptPCs /\ pc' \in AttemptPCs \ (ReviewedPCs \cup {"gating", "passing"})
    BY <1>2 DEF RecordReport, Goto, AttemptPCs, StagePCs, ReviewedPCs
  <2> DEFINE executed == [row EXCEPT !.execution_report = Cycle(it)]
             fixed == [row EXCEPT !.fix_report = Cycle(it)]
  <2>2. executed \in ItemRow /\ fixed \in ItemRow
    BY <2>1, AttemptFacts DEF ItemRow
  <2>3. \/ items' = [items EXCEPT ![it] = executed]
        \/ items' = [items EXCEPT ![it] = fixed]
    BY <1>2, <2>1, AttemptFacts DEF RecordReport
  <2>4. \A r \in {executed, fixed} : /\ r.terminal_state = row.terminal_state
                                     /\ r.attempt_number = row.attempt_number
                                     /\ r.manual_gate = row.manual_gate
    BY <2>1, AttemptFacts DEF ItemRow
  <2> HIDE DEF executed, fixed
  <2>5. PICK r \in {executed, fixed} : items' = [items EXCEPT ![it] = r]
    BY <2>3
  <2> QED
    BY <1>2, <2>1, <2>2, <2>4, <2>5, AttemptFacts, AttemptStep
    DEF RecordReport, git, it
<1>3. CASE CommitCheckpoint
  <2>1. pc \in AttemptPCs /\ pc' \in AttemptPCs \ (ReviewedPCs \cup {"gating", "passing"})
    BY <1>3 DEF CommitCheckpoint, Goto, AttemptPCs, StagePCs, ReviewedPCs
  <2> DEFINE a == row.attempt_number
             longer == Append(Branch(it), <<it, a, Round(it)>>)
  <2>2. longer \in Seq(Commits)
    BY <2>1, AttemptFacts, PlanAssumption DEF Commits, Items
  <2>3. \/ item_branches' = [item_branches EXCEPT ![it][a] = longer]
        \/ item_branches' = item_branches
    BY <1>3, <2>1, AttemptFacts DEF CommitCheckpoint, Branch
  <2> HIDE DEF longer
  <2>4. item_branches' \in [Items -> [1..MaxAttempts -> Seq(Commits)]]
    <3>1. /\ item_branches \in [Items -> [1..MaxAttempts -> Seq(Commits)]]
          /\ it \in Items /\ a \in 1..MaxAttempts
      BY <2>1, AttemptFacts
    <3> HIDE DEF a
    <3>2. CASE item_branches' = [item_branches EXCEPT ![it][a] = longer]
      BY <2>2, <3>1, <3>2
    <3> QED
      BY <2>3, <3>1, <3>2
  <2> QED
    BY <1>3, <2>1, <2>4, AttemptFacts, AttemptStep DEF CommitCheckpoint, saved, it
<1>4. CASE RecordCheckpoint
  <2>1. pc \in AttemptPCs /\ pc' \in AttemptPCs \ {"gating", "passing"}
    BY <1>4 DEF RecordCheckpoint, Goto, AttemptPCs, StagePCs, ReviewedPCs
  <2>2. current_state' \in StateIds /\ current_item_id' = it
    BY <1>4, SetStateType DEF RecordCheckpoint, IInv
  <2>3. [row EXCEPT !.checkpoint_ref = Branch(it)] \in ItemRow
    BY <2>1, AttemptFacts DEF ItemRow
  <2>4. items' = [items EXCEPT ![it] = [row EXCEPT !.checkpoint_ref = Branch(it)]]
    BY <1>4, <2>1, AttemptFacts DEF RecordCheckpoint
  <2> QED
    BY <1>4, <2>1, <2>2, <2>3, <2>4, AttemptFacts, AttemptStep
    DEF RecordCheckpoint, git, it
<1>5. CASE Verify
  <2>1. pc \in AttemptPCs /\ pc' \in AttemptPCs \ {"gating", "passing"} /\ pc \in ReviewedPCs
    BY <1>5 DEF Verify, Goto, AttemptPCs, StagePCs, ReviewedPCs
  <2>2. [row EXCEPT !.verification_report = Cycle(it)] \in ItemRow
    BY <2>1, AttemptFacts DEF ItemRow
  <2>3. items' = [items EXCEPT ![it] = [row EXCEPT !.verification_report = Cycle(it)]]
    BY <1>5, <2>1, AttemptFacts DEF Verify
  <2>4. row.checkpoint_ref = Branch(it)
    BY <2>1 DEF IInv, AttemptInv
  <2> QED
    BY <1>5, <2>1, <2>2, <2>3, <2>4, AttemptFacts, AttemptStep DEF Verify, git, it
<1> QED
  BY <1>1, <1>2, <1>3, <1>4, <1>5 DEF MutateStep

\* Those of the audits and of triage do.
LEMMA AuditInv ==
  ASSUME IInv, AuditStep PROVE IInv'
<1>1. CASE BuildAuditPacket
  <2>1. pc \in ReviewedPCs \cap AttemptPCs /\ pc' \in AttemptPCs \ {"gating", "passing"}
    BY <1>1 DEF BuildAuditPacket, Goto, AttemptPCs, StagePCs, ReviewedPCs
  <2>2. current_state' \in StateIds /\ current_item_id' = it
    BY <1>1, SetStateType DEF BuildAuditPacket, IInv
  <2>3. row.execution_report \in Cycles /\ row.fix_report \in Cycles
    BY <2>1, AttemptFacts DEF ItemRow
  <2>4. call' \in Call /\ call'.item = it /\ call'.queue = call.queue
    BY <1>1, <2>1, <2>3, AttemptFacts DEF BuildAuditPacket, Call, it
  <2>5. row.checkpoint_ref = Branch(it)
    BY <2>1 DEF IInv, AttemptInv
  <2> QED
    BY <1>1, <2>1, <2>2, <2>4, <2>5, AttemptFacts, AttemptStep
    DEF BuildAuditPacket, git
<1>2. CASE StartCodexAudit
  <2>1. pc \in ReviewedPCs \cap AttemptPCs /\ pc' \in AttemptPCs \ {"gating", "passing"}
    BY <1>2 DEF StartCodexAudit, Goto, AttemptPCs, StagePCs, ReviewedPCs
  <2>2. current_state' \in StateIds /\ current_item_id' = it
    BY <1>2, SetStateType DEF StartCodexAudit, IInv
  <2>3. row.checkpoint_ref = Branch(it)
    BY <2>1 DEF IInv, AttemptInv
  <2> QED
    BY <1>2, <2>1, <2>2, <2>3, AttemptFacts, AttemptStep DEF StartCodexAudit, git, it
<1>3. CASE StartClaudeAudit
  <2>1. pc \in ReviewedPCs \cap AttemptPCs /\ pc' \in AttemptPCs \ {"gating", "passing"}
    BY <1>3 DEF StartClaudeAudit, Goto, AttemptPCs, StagePCs, ReviewedPCs
  <2>2. current_state' \in StateIds /\ current_item_id' = it
    BY <1>3, SetStateType DEF StartClaudeAudit, IInv
  <2>3. [row EXCEPT !.codex_audit_report = Cycle(it)] \in ItemRow
    BY <2>1, AttemptFacts DEF ItemRow
  <2>4. items' = [items EXCEPT ![it] = [row EXCEPT !.codex_audit_report = Cycle(it)]]
    BY <1>3, <2>1, AttemptFacts DEF StartClaudeAudit
  <2>5. row.checkpoint_ref = Branch(it)
    BY <2>1 DEF IInv, AttemptInv
  <2> QED
    BY <1>3, <2>1, <2>2, <2>3, <2>4, <2>5, AttemptFacts, AttemptStep
    DEF StartClaudeAudit, git, it
<1>4. CASE StartTriage
  <2>1. pc \in ReviewedPCs \cap AttemptPCs /\ pc' \in AttemptPCs \ {"gating", "passing"}
    BY <1>4 DEF StartTriage, Goto, AttemptPCs, StagePCs, ReviewedPCs
  <2>2. current_state' \in StateIds /\ current_item_id' = it
    BY <1>4, SetStateType DEF StartTriage, IInv
  <2>3. [row EXCEPT !.claude_audit_report = Cycle(it)] \in ItemRow
    BY <2>1, AttemptFacts DEF ItemRow
  <2>4. items' = [items EXCEPT ![it] = [row EXCEPT !.claude_audit_report = Cycle(it)]]
    BY <1>4, <2>1, AttemptFacts DEF StartTriage
  <2>5. row.checkpoint_ref = Branch(it)
    BY <2>1 DEF IInv, AttemptInv
  <2> QED
    BY <1>4, <2>1, <2>2, <2>3, <2>4, <2>5, AttemptFacts, AttemptStep
    DEF StartTriage, git, it
<1>5. CASE Triage
  <2>1. pc \in ReviewedPCs \cap AttemptPCs /\ pc' \in AttemptPCs \ {"gating", "passing"}
    BY <1>5 DEF Triage, Goto, AttemptPCs, StagePCs, ReviewedPCs
  <2>2. call' \in Call /\ call'.item = it /\ call'.queue = call.queue
    BY <1>5, <2>1, AttemptFacts DEF Triage, Call, it
  <2>3. [row EXCEPT !.triage_report = Cycle(it)] \in ItemRow
    BY <2>1, AttemptFacts DEF ItemRow
  <2>4. items' = [items EXCEPT ![it] = [row EXCEPT !.triage_report = Cycle(it)]]
    BY <1>5, <2>1, AttemptFacts DEF Triage
  <2>5. row.checkpoint_ref = Branch(it)
    BY <2>1 DEF IInv, AttemptInv
  <2> QED
    BY <1>5, <2>1, <2>2, <2>3, <2>4, <2>5, AttemptFacts, AttemptStep DEF Triage, git
<1>6. CASE StageFails
  <2>1. pc \in AttemptPCs /\ pc' \in AttemptPCs \ (ReviewedPCs \cup {"gating", "passing"})
    BY <1>6 DEF StageFails, AttemptPCs, ReviewedPCs, StagePCs
  <2>2. current_state' \in StateIds /\ current_item_id' = it
    BY <1>6, SetStateType DEF StageFails, IInv
  <2> QED
    BY <1>6, <2>1, <2>2, AttemptFacts, AttemptStep DEF StageFails, git, it
<1> QED
  BY <1>1, <1>2, <1>3, <1>4, <1>5, <1>6 DEF AuditStep

\* So do the steps after triage that leave the attempt under way.
LEMMA DecideInv ==
  ASSUME IInv,
         \/ Land \/ RecordPass \/ RequestGate \/ BlockOnTriage \/ Escalate
         \/ StartFix \/ StartRemediation
  PROVE  IInv'
<1>1. CASE Land
  <2>1. pc \in AttemptPCs /\ pc' \in AttemptPCs \ (ReviewedPCs \cup {"gating", "passing"})
    BY <1>1 DEF Land, Goto, AttemptPCs, StagePCs, ReviewedPCs
  <2>2. run_branches' \in Seq(Seq(Commits)) /\ Len(run_branches') = Len(run_branches)
    BY <1>1, <2>1, AttemptFacts DEF Land
  <2> QED
    BY <1>1, <2>1, <2>2, AttemptFacts, AttemptStep DEF Land, saved, it
<1>2. CASE RecordPass
  <2>1. pc \in AttemptPCs /\ pc' \in AttemptPCs \ (ReviewedPCs \cup {"gating"})
    BY <1>2 DEF RecordPass, Goto, AttemptPCs, StagePCs, ReviewedPCs
  <2>2. /\ current_state' \in StateIds /\ current_state' = "ST130"
        /\ current_item_id' = it
    BY <1>2, SetStateType DEF RecordPass, IInv
  <2> QED
    BY <1>2, <2>1, <2>2, AttemptFacts, AttemptStep DEF RecordPass, git, it
<1>3. CASE RequestGate
  <2>1. pc \in ReviewedPCs \cap AttemptPCs /\ pc' \in AttemptPCs \ {"passing"}
    BY <1>3 DEF RequestGate, Goto, AttemptPCs, StagePCs, ReviewedPCs
  <2>2. /\ current_state' \in StateIds /\ current_state' = "ST110"
        /\ current_item_id' = it
    BY <1>3, SetStateType DEF RequestGate, IInv
  <2>3. row.checkpoint_ref = Branch(it)
    BY <2>1 DEF IInv, AttemptInv
  <2> QED
    BY <1>3, <2>1, <2>2, <2>3, AttemptFacts, AttemptStep DEF RequestGate, git, it
<1>4. CASE BlockOnTriage
  <2>1. pc \in AttemptPCs /\ pc' \in AttemptPCs \ (ReviewedPCs \cup {"gating", "passing"})
    BY <1>4 DEF BlockOnTriage, Goto, AttemptPCs, StagePCs, ReviewedPCs
  <2>2. current_state' \in StateIds /\ current_item_id' = it
    BY <1>4, SetStateType DEF BlockOnTriage, IInv
  <2> QED
    BY <1>4, <2>1, <2>2, AttemptFacts, AttemptStep DEF BlockOnTriage, git, it
<1>5. CASE Escalate
  <2>1. pc \in AttemptPCs /\ pc' \in AttemptPCs \ (ReviewedPCs \cup {"gating", "passing"})
    BY <1>5 DEF Escalate, Goto, AttemptPCs, StagePCs, ReviewedPCs
  <2>2. current_state' \in StateIds /\ current_item_id' = it
    BY <1>5, SetStateType DEF Escalate, IInv
  <2> QED
    BY <1>5, <2>1, <2>2, AttemptFacts, AttemptStep DEF Escalate, git, it
<1>6. CASE StartFix
  <2>1. pc \in AttemptPCs /\ pc' \in AttemptPCs \ (ReviewedPCs \cup {"gating", "passing"})
    BY <1>6 DEF StartFix, Goto, AttemptPCs, StagePCs, ReviewedPCs
  <2>2. current_state' \in StateIds /\ current_item_id' = it
    BY <1>6, SetStateType DEF StartFix, IInv
  <2>3. [row EXCEPT !.fix_rounds_completed = @ + 1] \in ItemRow
    <3>1. row.fix_rounds_completed + 1 \in Nat
      BY <2>1, AttemptFacts DEF ItemRow
    <3> QED
      BY <2>1, <3>1, AttemptFacts DEF ItemRow
  <2>4. items' = [items EXCEPT ![it] = [row EXCEPT !.fix_rounds_completed = @ + 1]]
    BY <1>6, <2>1, AttemptFacts DEF StartFix
  <2>5. call' \in Call /\ call'.item = it /\ call'.queue = call.queue
    BY <1>6, <2>1, AttemptFacts DEF StartFix, Call, NoCycle, Cycles, it
  <2> QED
    BY <1>6, <2>1, <2>2, <2>3, <2>4, <2>5, AttemptFacts, AttemptStep DEF StartFix, git
<1>7. CASE StartRemediation
  <2>1. pc \in AttemptPCs /\ pc' \in AttemptPCs \ (ReviewedPCs \cup {"gating", "passing"})
    BY <1>7 DEF StartRemediation, Goto, AttemptPCs, StagePCs, ReviewedPCs
  <2>2. current_state' \in StateIds /\ current_item_id' = it
    BY <1>7, SetStateType DEF StartRemediation, IInv
  <2>3. [row EXCEPT !.remediation_rounds_completed = @ + 1] \in ItemRow
    <3>1. row.remediation_rounds_completed + 1 \in Nat
      BY <2>1, AttemptFacts DEF ItemRow
    <3> QED
      BY <2>1, <3>1, AttemptFacts DEF ItemRow
  <2>4. items' =
          [items EXCEPT ![it] = [row EXCEPT !.remediation_rounds_completed = @ + 1]]
    BY <1>7, <2>1, AttemptFacts DEF StartRemediation
  <2>5. call' \in Call /\ call'.item = it /\ call'.queue = call.queue
    BY <1>7, <2>1, AttemptFacts DEF StartRemediation, Call, NoCycle, Cycles, it
  <2> QED
    BY <1>7, <2>1, <2>2, <2>3, <2>4, <2>5, AttemptFacts, AttemptStep
    DEF StartRemediation, git
<1> QED
  BY <1>1, <1>2, <1>3, <1>4, <1>5, <1>6, <1>7

-----------------------------------------------------------------------------
(* Ends of a call *)

\* Without a new record, what was not pending is not.
LEMMA NoneBecomesPending ==
  ASSUME \A i \in Items : ~GatePending(i), UNCHANGED gates,
         \A i \in Items : items'[i].manual_gate = items[i].manual_gate
  PROVE  PendingGateHolds'
BY DEF PendingGateHolds, GatePending, GateOf

\* A call that returns forgets everything but the files and git.
LEMMA ReturnStep ==
  ASSUME IInv, Return,
         current_state' \in StateIds, current_item_id' \in 0..NumItems,
         items' \in [Items -> ItemRow],
         gates' \in [Items -> [1..MaxAttempts -> GateRecord]],
         run_branches' = run_branches, item_branches' = item_branches,
         run_branch' \in 1..Len(run_branches),
         adopted' \in SUBSET Commits, mishaps' \in SUBSET Mishaps,
         StoppedInv', PendingGateHolds'
  PROVE  IInv'
<1>1. TypeOK'
  BY NoCallType DEF IInv, TypeOK, Return, PCs
<1>2. AttemptInv' /\ DecisionInv'
  BY DEF Return, AttemptInv, DecisionInv, AttemptPCs, StagePCs, DecisionPCs
<1>3. QueueInv'
  <2>1. call'.queue = <<>>
    BY DEF Return, NoCall
  <2> QED
    BY <2>1 DEF QueueInv
<1> QED
  BY <1>1, <1>2, <1>3 DEF IInv

\* An attempt that ends without a gate keeps the invariant.
LEMMA EndInv ==
  ASSUME IInv, EvidenceMissing \/ FinishBlocked \/ FinishEscalated
  PROVE  IInv'
<1>1. pc \in AttemptPCs /\ Return
  BY DEF EvidenceMissing, FinishBlocked, FinishEscalated, AttemptPCs
<1>2. UNCHANGED <<current_state, current_item_id, run_branch, adopted, gates,
                  run_branches, item_branches>>
  BY DEF EvidenceMissing, FinishBlocked, FinishEscalated, saved, git
<1>3. PICK r \in ItemRow : /\ items' = [items EXCEPT ![it] = r]
                           /\ r.manual_gate = row.manual_gate
                           /\ r.terminal_state # "passed"
  <2>1. CASE EvidenceMissing
    BY <1>1, <2>1, AttemptFacts DEF EvidenceMissing, saved
  <2>2. CASE FinishBlocked
    <3> DEFINE r == [row EXCEPT !.terminal_state = "blocked_external",
                                !.external_check_status = "pending_evidence"]
    <3>1. r \in ItemRow /\ r.manual_gate = row.manual_gate
          /\ r.terminal_state # "passed"
      BY <1>1, AttemptFacts DEF ItemRow, TerminalNames
    <3>2. items' = [items EXCEPT ![it] = r]
      BY <1>1, <2>2, AttemptFacts DEF FinishBlocked
    <3> QED
      BY <3>1, <3>2
  <2>3. CASE FinishEscalated
    <3> DEFINE r == [row EXCEPT !.terminal_state = "escalated"]
    <3>1. r \in ItemRow /\ r.manual_gate = row.manual_gate
          /\ r.terminal_state # "passed"
      BY <1>1, AttemptFacts DEF ItemRow, TerminalNames
    <3>2. items' = [items EXCEPT ![it] = r]
      BY <1>1, <2>3, AttemptFacts DEF FinishEscalated
    <3> QED
      BY <3>1, <3>2
  <2> QED
    BY <2>1, <2>2, <2>3
<1>4. /\ items' \in [Items -> ItemRow]
      /\ \A i \in Items : items'[i].manual_gate = items[i].manual_gate
      /\ items'[it].terminal_state # "passed" /\ current_item_id' = it
  BY <1>1, <1>2, <1>3, AttemptFacts
<1>5. StoppedInv'
  BY <1>4 DEF StoppedInv
<1>6. PendingGateHolds'
  BY <1>1, <1>2, <1>4, NoPendingWhileWorking, NoneBecomesPending DEF AttemptPCs, StagePCs
<1>7. mishaps' \in SUBSET Mishaps
  BY DEF IInv, TypeOK, EvidenceMissing, FinishBlocked, FinishEscalated, Mishaps
<1> QED
  BY <1>1, <1>2, <1>4, <1>5, <1>6, <1>7, ReturnStep DEF IInv, TypeOK

\* The record of a gate names the tip of the attempt that waits for it.
LEMMA WriteGateInv ==
  ASSUME IInv, WriteGate PROVE IInv'
<1> DEFINE a == row.attempt_number
           waiting == [row EXCEPT !.terminal_state = "awaiting_human_gate",
                                  !.manual_gate_status = "pending"]
           recorded == [waiting EXCEPT !.manual_gate = a]
           record == [status |-> "pending", ref |-> row.checkpoint_ref]
<1>1. /\ pc \in AttemptPCs /\ Return
      /\ UNCHANGED <<current_state, current_item_id, run_branch, adopted, run_branches,
                     item_branches>>
  BY DEF WriteGate, AttemptPCs, git
<1>2. /\ current_state = "ST110" /\ current_item_id = it
      /\ row.checkpoint_ref = Branch(it)
  BY DEF WriteGate, IInv, AttemptInv, AttemptPCs, ReviewedPCs
<1>3. /\ it \in Items /\ items \in [Items -> ItemRow] /\ row \in ItemRow
      /\ row = items[it] /\ a \in 1..MaxAttempts /\ Branch(it) \in Seq(Commits)
  BY <1>1, AttemptFacts
<1>4. \A i \in Items : ~GatePending(i)
  BY <1>1, NoPendingWhileWorking DEF AttemptPCs, StagePCs
<1>5. gates \in [Items -> [1..MaxAttempts -> GateRecord]]
  BY DEF IInv, TypeOK
<1>6. waiting \in ItemRow /\ waiting.manual_gate = row.manual_gate
  BY <1>3 DEF ItemRow, TerminalNames
<1>7. /\ recorded \in ItemRow /\ recorded.manual_gate = a
      /\ recorded.attempt_number = a
      /\ recorded.terminal_state = "awaiting_human_gate"
  <2>1. a \in 0..MaxAttempts
    BY <1>3
  <2> QED
    BY <1>3, <2>1 DEF ItemRow, TerminalNames
<1>8. record \in GateRecord
  BY <1>2, <1>3 DEF GateRecord
<1>9. current_state' \notin {"ST120", "ST140"} /\ StoppedInv'
  BY <1>1, <1>2 DEF StoppedInv
<1>10. CASE it \in GateRequired
  <2>1. gates' = [gates EXCEPT ![it][a] = record]
    BY <1>10 DEF WriteGate
  <2>2. items' = [items EXCEPT ![it] = recorded] /\ UNCHANGED mishaps
    BY <1>10 DEF WriteGate
  <2> HIDE DEF a, waiting, recorded
  <2>3. gates' \in [Items -> [1..MaxAttempts -> GateRecord]]
    BY <1>3, <1>5, <1>8, <2>1
  <2>4. gates'[it][a] = record /\ \A i \in Items : i # it => gates'[i] = gates[i]
    BY <1>3, <1>5, <2>1
  <2>5. /\ items' \in [Items -> ItemRow] /\ items'[it] = recorded
        /\ \A i \in Items : i # it => items'[i] = items[i]
    BY <1>3, <1>7, <2>2
  <2>6. \A i \in Items : i # it => ~GatePending(i)'
    BY <1>4, <2>4, <2>5 DEF GatePending, GateOf
  <2>7. \A i \in Items : i = it => GateOf(i)'.ref = Branch(i)'
    BY <1>1, <1>2, <1>3, <1>7, <2>4, <2>5 DEF GateOf, Branch, a
  <2>8. PendingGateHolds'
    BY <1>1, <1>2, <1>7, <2>5, <2>6, <2>7 DEF PendingGateHolds, Return
  <2> QED
    BY <1>1, <1>9, <2>2, <2>3, <2>5, <2>8, ReturnStep DEF IInv, TypeOK
<1>11. CASE it \notin GateRequired
  <2>1. items' = [items EXCEPT ![it] = waiting] /\ UNCHANGED gates
        /\ mishaps' = mishaps \cup {"gate_invalid"}
    BY <1>11 DEF WriteGate
  <2> HIDE DEF a, waiting, recorded
  <2>2. /\ items' \in [Items -> ItemRow]
        /\ \A i \in Items : items'[i].manual_gate = items[i].manual_gate
    BY <1>3, <1>6, <2>1
  <2>3. PendingGateHolds'
    BY <1>4, <2>1, <2>2, NoneBecomesPending
  <2> QED
    BY <1>1, <1>9, <2>1, <2>2, <2>3, ReturnStep DEF IInv, TypeOK, Mishaps
<1> QED
  BY <1>10, <1>11

\* A pass hands the item over and the queue goes on without it.
LEMMA FinishPassInv ==
  ASSUME IInv, FinishPass PROVE IInv'
<1> DEFINE r == [row EXCEPT !.terminal_state = "passed"]
<1>1. pc \in AttemptPCs /\ pc = "passing" /\ pc' = "advance"
  BY DEF FinishPass, Goto, AttemptPCs
<1>2. /\ it \in Items /\ items \in [Items -> ItemRow] /\ row \in ItemRow
      /\ row = items[it] /\ call \in Call /\ current_state = "ST130"
  BY <1>1, AttemptFacts DEF IInv, AttemptInv
<1>3. r \in ItemRow /\ r.manual_gate = row.manual_gate
  BY <1>2 DEF ItemRow, TerminalNames
<1>4. items' = [items EXCEPT ![it] = r]
  BY <1>2 DEF FinishPass
<1> HIDE DEF r
<1>5. /\ items' \in [Items -> ItemRow]
      /\ \A i \in Items : i # it => items'[i] = items[i]
      /\ \A i \in Items : items'[i].manual_gate = items[i].manual_gate
  BY <1>2, <1>3, <1>4
<1>6. call' \in Call /\ call'.queue = call.queue
  <2>1. call.processed + 1 \in Nat /\ None \in 0..NumItems /\ NoCycle \in Cycles
    BY <1>2, PlanAssumption DEF Call, None, NoCycle, Cycles
  <2> QED
    BY <1>2, <2>1 DEF FinishPass, Call
<1>7. TypeOK'
  BY <1>1, <1>5, <1>6 DEF IInv, TypeOK, FinishPass, git, PCs
<1>8. AttemptInv' /\ DecisionInv' /\ StoppedInv'
  BY <1>1, <1>2
  DEF FinishPass, AttemptInv, DecisionInv, StoppedInv, AttemptPCs, StagePCs, DecisionPCs
<1>9. QueueInv'
  <2>1. \A m \in 1..Len(call.queue) : call.queue[m] \in Items
    BY <1>2 DEF Call
  <2>2. \A m \in 1..Len(call.queue) : items'[call.queue[m]] = items[call.queue[m]]
    BY <1>1, <1>5, <2>1 DEF IInv, QueueInv
  <2>3. pc' \notin AttemptPCs
    BY <1>1 DEF AttemptPCs, StagePCs
  <2> QED
    BY <1>6, <2>2, <2>3 DEF IInv, QueueInv
<1>10. PendingGateHolds'
  BY <1>1, <1>5, NoPendingWhileWorking, NoneBecomesPending DEF FinishPass
<1> QED
  BY <1>7, <1>8, <1>9, <1>10 DEF IInv

-----------------------------------------------------------------------------
(* The queue *)

\* The queue's steps keep the invariant.
LEMMA QueueStepInv ==
  ASSUME IInv, QueueStep PROVE IInv'
<1>1. \A i \in Items : ~GatePending(i)
  BY NoPendingWhileWorking
  DEF QueueStep, FinishQueue, RefuseItem, SelectItem, AdvanceQueue
<1>2. CASE FinishQueue \/ RefuseItem
  <2>1. Return /\ UNCHANGED <<saved, gates, git, mishaps>>
    BY <1>2 DEF FinishQueue, RefuseItem
  <2>2. StoppedInv' /\ PendingGateHolds'
    BY <1>1, <2>1, NoneBecomesPending DEF IInv, StoppedInv, saved
  <2> QED
    BY <2>1, <2>2, ReturnStep DEF IInv, TypeOK, saved, git
<1>3. CASE SelectItem
  <2> DEFINE i == Head(call.queue)
             r == [items[i] EXCEPT !.attempt_number = NextAttemptNumber(items[i]),
                                   !.fix_rounds_completed = 0,
                                   !.remediation_rounds_completed = 0,
                                   !.terminal_state = "none"]
  <2>1. /\ call \in Call /\ call.queue \in Seq(Items) /\ call.queue # <<>>
        /\ items \in [Items -> ItemRow]
    BY <1>3 DEF SelectItem, IInv, TypeOK, Call
  <2>2. /\ i \in Items /\ i = call.queue[1] /\ Tail(call.queue) \in Seq(Items)
        /\ Len(Tail(call.queue)) = Len(call.queue) - 1
        /\ \A m \in 1..Len(Tail(call.queue)) :
             m + 1 \in 1..Len(call.queue) /\ Tail(call.queue)[m] = call.queue[m + 1]
    BY <2>1
  <2>3. items[i] \in ItemRow /\ NextAttemptNumber(items[i]) \in 1..MaxAttempts
    BY <1>3, <2>1, <2>2, NextAttemptType DEF SelectItem
  <2>4. /\ r \in ItemRow /\ r.terminal_state = "none"
        /\ r.manual_gate = items[i].manual_gate
    BY <2>3 DEF ItemRow, TerminalNames
  <2>5. items' = [items EXCEPT ![i] = r]
    BY <1>3 DEF SelectItem
  <2> HIDE DEF r
  <2>6. /\ items' \in [Items -> ItemRow] /\ items'[i] = r
        /\ \A j \in Items : j # i => items'[j] = items[j]
        /\ \A j \in Items : items'[j].manual_gate = items[j].manual_gate
    BY <2>1, <2>2, <2>4, <2>5
  <2>7. PendingGateHolds'
    BY <1>1, <1>3, <2>6, NoneBecomesPending DEF SelectItem
  <2>8. CASE ~CanMove(current_state, "ST10") /\ Return
    <3>1. StoppedInv'
      BY <1>3, <2>4, <2>6, <2>8 DEF SelectItem, SetState, IInv, TypeOK, StoppedInv, Items, None
    <3> QED
      BY <1>3, <2>6, <2>7, <2>8, <3>1, ReturnStep
      DEF SelectItem, SetState, IInv, TypeOK, git, Mishaps
  <2>9. CASE SetState(i, "ST10") /\ pc' = "selected"
    <3>1. /\ call' = [call EXCEPT !.item = i, !.queue = Tail(@),
                        !.evidence = IF call.processed = 0 THEN @ ELSE "none"]
          /\ UNCHANGED mishaps
      BY <1>3, <2>9 DEF SelectItem, SetState, Return
    <3>2. call' \in Call /\ call'.item = i /\ call'.queue = Tail(call.queue)
      <4> DEFINE e == IF call.processed = 0 THEN call.evidence ELSE "none"
      <4>1. e \in Evidence /\ i \in 0..NumItems
        BY <2>1, <2>2 DEF Call, Evidence, Items
      <4>2. call' = [call EXCEPT !.item = i, !.queue = Tail(@), !.evidence = e]
        BY <2>1, <3>1
      <4> HIDE DEF i, e
      <4> QED
        BY <2>1, <2>2, <4>1, <4>2 DEF Call
    <3>3. current_state' \in StateIds /\ current_state' = "ST10" /\ current_item_id' = i
      BY <2>9, SetStateType DEF IInv
    <3>4. TypeOK'
      BY <1>3, <2>2, <2>6, <2>9, <3>1, <3>2, <3>3
      DEF SelectItem, IInv, TypeOK, git, Items, PCs
    <3>5. AttemptInv' /\ DecisionInv' /\ StoppedInv'
      BY <2>2, <2>4, <2>6, <2>9, <3>2, <3>3
      DEF AttemptInv, DecisionInv, StoppedInv, DecisionPCs, ReviewedPCs, it, row
    <3>6. QueueInv'
      <4>1. \A m \in 1..Len(Tail(call.queue)) :
              Tail(call.queue)[m] # i /\ Tail(call.queue)[m] \in Items
        BY <2>1, <2>2 DEF IInv, QueueInv
      <4>2. \A m \in 1..Len(Tail(call.queue)) :
              items[Tail(call.queue)[m]].terminal_state # "passed"
        BY <2>1, <2>2 DEF IInv, QueueInv
      <4>3. \A m, n \in 1..Len(Tail(call.queue)) :
              m # n => Tail(call.queue)[m] # Tail(call.queue)[n]
        BY <2>1, <2>2 DEF IInv, QueueInv
      <4> QED
        BY <2>6, <3>2, <4>1, <4>2, <4>3 DEF QueueInv, it
    <3> QED
      BY <2>7, <3>4, <3>5, <3>6 DEF IInv
  <2> QED
    BY <1>3, <2>8, <2>9 DEF SelectItem
<1>4. CASE AdvanceQueue
  <2>1. UNCHANGED <<saved, gates, git, mishaps>>
    BY <1>4 DEF AdvanceQueue
  <2>2. StoppedInv' /\ PendingGateHolds'
    BY <1>1, <2>1, NoneBecomesPending DEF IInv, StoppedInv, saved
  <2>3. CASE Return
    BY <2>1, <2>2, <2>3, ReturnStep DEF IInv, TypeOK, saved, git
  <2>4. CASE pc' = "queue"
    <3>1. /\ call' \in Call
          /\ \A m \in 1..Len(call'.queue) :
               items[call'.queue[m]].terminal_state # "passed"
          /\ \A m, n \in 1..Len(call'.queue) : m # n => call'.queue[m] # call'.queue[n]
      <4>1. CASE UNCHANGED call
        BY <4>1 DEF IInv, TypeOK, QueueInv
      <4>2. CASE ~UNCHANGED call
        <5>1. PICK i \in Items : /\ call' = [call EXCEPT !.queue = <<i>>]
                                 /\ FirstUnfinished(i, items)
          BY <1>4, <2>4, <4>2 DEF AdvanceQueue, Return
        <5>2. call \in Call
          BY DEF IInv, TypeOK
        <5>3. <<i>> \in Seq(Items)
          OBVIOUS
        <5>4. call' \in Call /\ call'.queue = <<i>>
          BY <5>1, <5>2, <5>3 DEF Call
        <5> QED
          BY <5>1, <5>4 DEF FirstUnfinished
      <4> QED
        BY <4>1, <4>2
    <3>2. TypeOK'
      BY <2>1, <2>4, <3>1 DEF IInv, TypeOK, saved, git, PCs
    <3>3. AttemptInv' /\ DecisionInv'
      BY <2>4 DEF AttemptInv, DecisionInv, AttemptPCs, StagePCs, DecisionPCs
    <3>4. QueueInv'
      BY <2>1, <2>4, <3>1 DEF QueueInv, saved, AttemptPCs, StagePCs
    <3> QED
      BY <2>2, <3>2, <3>3, <3>4 DEF IInv
  <2> QED
    BY <1>4, <2>3, <2>4 DEF AdvanceQueue
<1> QED
  BY <1>2, <1>3, <1>4 DEF QueueStep

-----------------------------------------------------------------------------
(* The other commands, and the death of a process *)

\* A resumed call works on an item that has not passed.
LEMMA ResumeInv ==
  ASSUME IInv, Resume PROVE IInv'
<1>1. PICK i \in Items, auto \in BOOLEAN, evidence \in Evidence :
        /\ ResumeTarget(i)
        /\ IF items[i].terminal_state \in Resettable
           THEN current_state' = "ST05" /\ current_item_id' = None
           ELSE UNCHANGED <<current_state, current_item_id>>
        /\ call' = [NoCall EXCEPT !.queue = <<i>>, !.continue = auto,
                      !.limit = IF auto THEN MaxItems ELSE 0, !.evidence = evidence]
  BY DEF Resume
<1>2. /\ pc' = "queue" /\ UNCHANGED <<items, run_branch, adopted, gates, git, mishaps>>
      /\ current_state # "ST110"
  BY DEF Resume, Goto, ResumeAllowed
<1>3. items[i].terminal_state # "passed"
  BY <1>1 DEF ResumeTarget, FirstUnfinished, IInv, StoppedInv
<1>4. call' \in Call /\ call'.queue = <<i>>
  <2> DEFINE limit == IF auto THEN MaxItems ELSE 0
  <2>1. limit \in Nat /\ <<i>> \in Seq(Items)
    BY BudgetAssumption
  <2>2. call' = [NoCall EXCEPT !.queue = <<i>>, !.continue = auto,
                               !.limit = limit, !.evidence = evidence]
    BY <1>1
  <2> HIDE DEF limit
  <2> QED
    BY <2>1, <2>2, NoCallType DEF Call
<1>5. TypeOK'
  BY <1>1, <1>2, <1>4, PlanAssumption DEF IInv, TypeOK, git, StateIds, None, PCs
<1>6. AttemptInv' /\ DecisionInv' /\ StoppedInv'
  BY <1>1, <1>2
  DEF IInv, AttemptInv, DecisionInv, StoppedInv, AttemptPCs, StagePCs, DecisionPCs
<1>7. QueueInv'
  BY <1>2, <1>3, <1>4 DEF QueueInv, AttemptPCs, StagePCs
<1>8. PendingGateHolds'
  BY <1>2, NoneBecomesPending DEF IInv, PendingGateHolds
<1> QED
  BY <1>5, <1>6, <1>7, <1>8 DEF IInv

\* A decision takes the one pending record there is.
LEMMA MarkGateInv ==
  ASSUME IInv, NEW i \in Items, NEW outcome \in {"approved", "rejected"},
         MarkGate(i, outcome)
  PROVE  IInv'
<1> DEFINE m == items[i].manual_gate
<1>1. /\ GatePending(i) /\ UNCHANGED <<saved, git, mishaps>>
      /\ pc' \in DecisionPCs \ {"gate_landed"}
  BY DEF MarkGate, Goto, DecisionPCs
<1>2. /\ items[i].terminal_state = "awaiting_human_gate" /\ m # None
      /\ current_state = "ST110" /\ current_item_id = i
  BY <1>1 DEF IInv, PendingGateHolds, GatePending
<1>3. items[i] \in ItemRow /\ m \in 1..MaxAttempts
  <2>1. items[i] \in ItemRow
    BY DEF IInv, TypeOK
  <2>2. m \in 0..MaxAttempts
    BY <2>1 DEF ItemRow
  <2> QED
    BY <1>2, <2>1, <2>2, BudgetAssumption DEF None
<1>4. gates \in [Items -> [1..MaxAttempts -> GateRecord]]
  BY DEF IInv, TypeOK
<1>5. call' \in Call /\ call'.item = i /\ call'.queue = <<>>
  <2>1. call' = [NoCall EXCEPT !.item = i]
    BY DEF MarkGate
  <2>2. i \in 0..NumItems
    BY DEF Items
  <2> QED
    BY <2>1, <2>2, NoCallType DEF Call, NoCall
<1>6. /\ gates' \in [Items -> [1..MaxAttempts -> GateRecord]]
      /\ gates'[i][m].status = outcome
      /\ \A j \in Items : j # i => gates'[j] = gates[j]
  <2> DEFINE decided == [gates[i][m] EXCEPT !.status = outcome]
  <2>1. decided \in GateRecord /\ decided.status = outcome
    <3>1. gates[i][m] \in GateRecord
      BY <1>3, <1>4
    <3> QED
      BY <3>1 DEF GateRecord
  <2>2. gates' = [gates EXCEPT ![i][m] = decided]
    BY DEF MarkGate
  <2> HIDE DEF decided, m
  <2> QED
    BY <1>3, <1>4, <2>1, <2>2
<1>7. \A j \in Items : ~GatePending(j)'
  <2>1. ~GatePending(i)'
    BY <1>1, <1>6 DEF GatePending, GateOf, saved
  <2>2. ASSUME NEW j \in Items, j # i PROVE ~GatePending(j)'
    <3>1. ~GatePending(j)
      BY <1>2, <2>2 DEF IInv, PendingGateHolds
    <3> QED
      BY <1>1, <1>6, <2>2, <3>1 DEF GatePending, GateOf, saved
  <2> QED
    BY <2>1, <2>2
<1>8. TypeOK'
  BY <1>1, <1>5, <1>6 DEF IInv, TypeOK, saved, git, DecisionPCs, PCs
<1>9. AttemptInv' /\ DecisionInv' /\ StoppedInv'
  BY <1>1, <1>2, <1>5
  DEF AttemptInv, DecisionInv, StoppedInv, saved, AttemptPCs, StagePCs, DecisionPCs, it, row
<1>10. QueueInv'
  BY <1>5 DEF QueueInv
<1>11. PendingGateHolds'
  BY <1>7 DEF PendingGateHolds
<1> QED
  BY <1>8, <1>9, <1>10, <1>11 DEF IInv

\* What follows a decision keeps the invariant.
LEMMA DecisionStepInv ==
  ASSUME IInv, DecisionStep PROVE IInv'
<1>1. pc \in DecisionPCs /\ \A i \in Items : ~GatePending(i)
  BY NoPendingWhileWorking
  DEF DecisionStep, LandApproved, RecordApproval, RecordRejection, DecisionPCs
<1>2. /\ it \in Items /\ items \in [Items -> ItemRow] /\ row = items[it]
      /\ row \in ItemRow /\ row.terminal_state = "awaiting_human_gate"
  BY <1>1 DEF IInv, TypeOK, DecisionInv, row
<1>3. GateOf(it).ref \in Seq(Commits)
  <2>1. gates \in [Items -> [1..MaxAttempts -> GateRecord]]
    BY DEF IInv, TypeOK
  <2>2. row.manual_gate \in 0..MaxAttempts /\ row.manual_gate # None
    BY <1>1, <1>2 DEF ItemRow, IInv, DecisionInv
  <2>3. row.manual_gate \in 1..MaxAttempts
    BY <2>2, BudgetAssumption DEF None
  <2> QED
    BY <1>2, <2>1, <2>3 DEF GateOf, GateRecord
<1>4. CASE LandApproved
  <2>1. UNCHANGED <<saved, gates, item_branches>>
    BY <1>4 DEF LandApproved
  <2>2. PendingGateHolds' /\ StoppedInv'
    BY <1>1, <2>1, NoneBecomesPending DEF IInv, StoppedInv, saved
  <2>3. CASE Return
    <3>1. mishaps' = mishaps \cup {"gate_unlandable"} /\ UNCHANGED run_branches
      BY <1>4, <2>3 DEF LandApproved, Return
    <3> QED
      BY <2>1, <2>2, <2>3, <3>1, ReturnStep DEF IInv, TypeOK, saved, Mishaps
  <2>4. CASE ~Return
    <3>1. /\ run_branches' = [run_branches EXCEPT ![run_branch] = GateOf(it).ref]
          /\ pc' = "gate_landed" /\ UNCHANGED <<call, mishaps>>
      BY <1>4, <2>4 DEF LandApproved
    <3>2. run_branches' \in Seq(Seq(Commits)) /\ Len(run_branches') = Len(run_branches)
      BY <1>3, <3>1 DEF IInv, TypeOK
    <3>3. TypeOK'
      BY <2>1, <3>1, <3>2 DEF IInv, TypeOK, saved, PCs
    <3>4. AttemptInv' /\ DecisionInv' /\ QueueInv'
      BY <1>1, <2>1, <3>1
      DEF IInv, AttemptInv, DecisionInv, QueueInv, saved, AttemptPCs, StagePCs,
          DecisionPCs, it, row
    <3> QED
      BY <2>2, <3>3, <3>4 DEF IInv
  <2> QED
    BY <2>3, <2>4
<1>5. CASE RecordApproval \/ RecordRejection
  <2>1. Return /\ UNCHANGED <<run_branch, adopted, gates, git, mishaps>>
    BY <1>5 DEF RecordApproval, RecordRejection
  <2>2. PICK r \in ItemRow :
          /\ items' = [items EXCEPT ![it] = r] /\ r.manual_gate = row.manual_gate
          /\ \/ current_state' = "ST130"
             \/ current_state' = "ST140" /\ r.terminal_state # "passed"
    <3>1. CASE RecordApproval
      <4> DEFINE r == [row EXCEPT !.terminal_state = "passed",
                                  !.manual_gate_status = "approved"]
      <4>1. r \in ItemRow /\ r.manual_gate = row.manual_gate
        BY <1>2 DEF ItemRow, TerminalNames
      <4>2. items' = [items EXCEPT ![it] = r] /\ current_state' = "ST130"
        BY <1>2, <3>1 DEF RecordApproval, SetState
      <4> QED
        BY <4>1, <4>2
    <3>2. CASE RecordRejection
      <4> DEFINE r == [row EXCEPT !.terminal_state = "escalated",
                                  !.manual_gate_status = "rejected"]
      <4>1. r \in ItemRow /\ r.manual_gate = row.manual_gate
            /\ r.terminal_state # "passed"
        BY <1>2 DEF ItemRow, TerminalNames
      <4>2. items' = [items EXCEPT ![it] = r] /\ current_state' = "ST140"
        BY <1>2, <3>2 DEF RecordRejection, SetState
      <4> QED
        BY <4>1, <4>2
    <3> QED
      BY <1>5, <3>1, <3>2
  <2>3. current_item_id' = it /\ current_state' \in StateIds
    BY <1>5, <2>2 DEF RecordApproval, RecordRejection, SetState, StateIds
  <2>4. /\ items' \in [Items -> ItemRow] /\ items'[it] = r
        /\ \A i \in Items : items'[i].manual_gate = items[i].manual_gate
    BY <1>2, <2>2
  <2>5. StoppedInv' /\ PendingGateHolds'
    BY <1>1, <2>1, <2>2, <2>3, <2>4, NoneBecomesPending DEF StoppedInv
  <2>6. it \in 0..NumItems
    BY <1>2 DEF Items
  <2> QED
    BY <2>1, <2>3, <2>4, <2>5, <2>6, ReturnStep DEF IInv, TypeOK, git
<1> QED
  BY <1>4, <1>5 DEF DecisionStep

\* What a ref may name is a history.
LEMMA RefTypes ==
  ASSUME TypeOK, NEW h \in Refs
  PROVE  h \in Seq(Commits)
<1>1. Branches \subseteq Seq(Commits)
  <2>1. ToSet(run_branches) \subseteq Seq(Commits)
    BY DEF TypeOK, ToSet
  <2>2. \A i \in Items, a \in 1..MaxAttempts : item_branches[i][a] \in Seq(Commits)
    BY DEF TypeOK
  <2> QED
    BY <2>1, <2>2 DEF Branches
<1>2. \A b \in Branches : \A n \in 1..Len(b) : SubSeq(b, 1, n) \in Seq(Commits)
  <2> SUFFICES ASSUME NEW b \in Seq(Commits), NEW n \in 1..Len(b)
               PROVE  SubSeq(b, 1, n) \in Seq(Commits)
    BY <1>1
  <2> QED
    OBVIOUS
<1>3. External(Len(run_branches)) \in Commits
  BY DEF TypeOK, External, Commits, None
<1>4. PICK b \in Branches : \E n \in 1..Len(b) :
        \/ h = SubSeq(b, 1, n)
        \/ h = Append(SubSeq(b, 1, n), External(Len(run_branches)))
  BY DEF Refs
<1> QED
  BY <1>2, <1>3, <1>4

\* A refresh adds a branch and then makes it the run's.
LEMMA RefreshInv ==
  ASSUME IInv, CreateRefreshBranch \/ RecordRefresh PROVE IInv'
<1>1. run_branches \in Seq(Seq(Commits)) /\ run_branch \in 1..Len(run_branches)
  BY DEF IInv, TypeOK
<1>2. CASE CreateRefreshBranch
  <2>1. /\ pc = "idle" /\ pc' = "refreshing"
        /\ UNCHANGED <<saved, gates, item_branches, call, mishaps>>
    BY <1>2 DEF CreateRefreshBranch, Goto
  <2>2. PICK target \in RefreshTargets : run_branches' = Append(run_branches, target)
    BY <1>2 DEF CreateRefreshBranch
  <2>3. target \in Seq(Commits)
    BY <2>2, RefTypes DEF IInv, RefreshTargets
  <2>4. /\ run_branches' \in Seq(Seq(Commits))
        /\ run_branch' \in 1..Len(run_branches')
    BY <1>1, <2>1, <2>2, <2>3 DEF saved
  <2>5. TypeOK'
    BY <2>1, <2>4 DEF IInv, TypeOK, saved, PCs
  <2>6. AttemptInv' /\ DecisionInv' /\ StoppedInv' /\ QueueInv'
    BY <2>1 DEF IInv, AttemptInv, DecisionInv, StoppedInv, QueueInv, saved, AttemptPCs,
                StagePCs, DecisionPCs
  <2>7. PendingGateHolds'
    BY <2>1 DEF IInv, PendingGateHolds, GatePending, GateOf, Branch, saved
  <2> QED
    BY <2>5, <2>6, <2>7 DEF IInv
<1>3. CASE RecordRefresh
  <2>1. /\ Return /\ run_branch' = Len(run_branches)
        /\ UNCHANGED <<current_state, current_item_id, items, gates, git, mishaps>>
    BY <1>3 DEF RecordRefresh
  <2>2. StoppedInv' /\ PendingGateHolds'
    BY <2>1
    DEF Return, IInv, StoppedInv, PendingGateHolds, GatePending, GateOf, Branch, git
  <2>3. adopted' \in SUBSET Commits
    <3>1. Len(run_branches) \in 1..Len(run_branches)
      BY <1>1
    <3>2. Last(run_branches) \in Seq(Commits)
      BY <1>1, <3>1 DEF Last
    <3>3. RunTip \in Seq(Commits)
      BY <1>1 DEF IInv, TypeOK, RunTip
    <3>4. SubSeq(Last(run_branches), Len(RunTip) + 1, Len(Last(run_branches)))
            \in Seq(Commits)
      BY <3>2, <3>3
    <3>5. \A s \in Seq(Commits) : ToSet(s) \subseteq Commits
      BY DEF ToSet
    <3> QED
      BY <1>3, <3>4, <3>5 DEF RecordRefresh, IInv, TypeOK
  <2> QED
    BY <1>1, <2>1, <2>2, <2>3, ReturnStep DEF IInv, TypeOK, git
<1> QED
  BY <1>2, <1>3

\* A dead process leaves what was saved.
LEMMA InterruptInv ==
  ASSUME IInv, Interrupt PROVE IInv'
<1>1. /\ Return /\ UNCHANGED <<saved, gates, git>>
      /\ mishaps' = mishaps \cup {pc} /\ pc \in PCs
  BY DEF Interrupt, IInv, TypeOK
<1>2. StoppedInv' /\ PendingGateHolds'
  BY <1>1
  DEF Return, IInv, StoppedInv, PendingGateHolds, GatePending, GateOf, Branch, saved, git
<1> QED
  BY <1>1, <1>2, ReturnStep DEF IInv, TypeOK, saved, git, Mishaps

-----------------------------------------------------------------------------
(* The theorems *)

\* Every step of the kernel keeps the invariant.
LEMMA NextInv ==
  ASSUME IInv, [Next]_vars PROVE IInv'
<1>1. CASE QueueStep
  BY <1>1, QueueStepInv
<1>2. CASE PrepareStep
  BY <1>2, PrepareInv, EndInv DEF PrepareStep
<1>3. CASE MutateStep
  BY <1>3, MutateInv
<1>4. CASE AuditStep
  BY <1>4, AuditInv
<1>5. CASE OutcomeStep
  BY <1>5, DecideInv, EndInv, WriteGateInv, FinishPassInv DEF OutcomeStep
<1>6. CASE DecisionStep
  BY <1>6, DecisionStepInv
<1>7. CASE RecordRefresh
  BY <1>7, RefreshInv
<1>8. CASE Command
  BY <1>8, ResumeInv, RefreshInv, MarkGateInv DEF Command
<1>9. CASE Interrupt
  BY <1>9, InterruptInv
<1>10. CASE UNCHANGED vars
  BY <1>10
  DEF vars, saved, git, process, IInv, TypeOK, AttemptInv, DecisionInv, StoppedInv,
      QueueInv, PendingGateHolds, GatePending, GateOf, Branch, it, row
<1> QED
  BY <1>1, <1>2, <1>3, <1>4, <1>5, <1>6, <1>7, <1>8, <1>9, <1>10 DEF Next, Work

\* The invariant of KernelProperties holds of every behaviour of the kernel.
THEOREM Inductive == Spec => []IInv
BY InitInv, NextInv, PTL DEF Spec

\* run_state.json, the gate records, the branches and the process have the
\* shapes the schemas and signatures give them, whatever dies when.
THEOREM TypeCorrect == Spec => []TypeOK
<1>1. IInv => TypeOK
  BY DEF IInv
<1> QED
  BY <1>1, Inductive, PTL

\* An undecided gate record is the current item's, names the reviewed tip, and
\* holds the run: resume() is refused and no attempt is under way.
THEOREM PendingGateSafe == Spec => []PendingGateHolds
<1>1. IInv => PendingGateHolds
  BY DEF IInv
<1> QED
  BY <1>1, Inductive, PTL

-----------------------------------------------------------------------------
(* What a step may never do *)

\* An attempt's steps touch the row, the branch and the record of that attempt.
LEMMA AttemptTouches ==
  ASSUME TypeOK, PrepareStep \/ MutateStep \/ AuditStep \/ OutcomeStep
  PROVE  /\ pc \in AttemptPCs
         /\ \A i \in Items : i # it => items'[i] = items[i]
         /\ \A i \in Items, a \in 1..MaxAttempts :
              i # it \/ a # row.attempt_number =>
                /\ item_branches'[i][a] = item_branches[i][a]
                /\ gates'[i][a] = gates[i][a]
<1> USE DEF Goto, AttemptPCs, StagePCs, saved, git
<1>1. /\ items \in [Items -> ItemRow]
      /\ item_branches \in [Items -> [1..MaxAttempts -> Seq(Commits)]]
      /\ gates \in [Items -> [1..MaxAttempts -> GateRecord]]
  BY DEF TypeOK
<1>2. CASE PrepareStep
  <2>1. CASE AddWorktree
    BY <1>1, <2>1 DEF AddWorktree
  <2>2. CASE ~AddWorktree
    BY <1>1, <1>2, <2>2
    DEF PrepareStep, BlockWithoutEvidence, RecordWorktree, EvidenceMissing, PrepareContext
  <2> QED
    BY <2>1, <2>2
<1>3. CASE MutateStep
  <2>1. CASE CommitCheckpoint
    <3>1. \/ UNCHANGED item_branches
          \/ \E longer : item_branches' =
               [item_branches EXCEPT ![it][row.attempt_number] = longer]
      BY <2>1 DEF CommitCheckpoint
    <3>2. /\ pc \in AttemptPCs /\ UNCHANGED <<items, gates>>
      BY <2>1 DEF CommitCheckpoint
    <3>3. CASE UNCHANGED item_branches
      BY <3>2, <3>3
    <3>4. CASE ~UNCHANGED item_branches
      <4>1. PICK longer : item_branches' =
               [item_branches EXCEPT ![it][row.attempt_number] = longer]
        BY <3>1, <3>4
      <4> QED
        BY <1>1, <3>2, <4>1
    <3> QED
      BY <3>3, <3>4
  <2>2. CASE ~CommitCheckpoint
    BY <1>1, <1>3, <2>2
    DEF MutateStep, StartMutation, RecordReport, RecordCheckpoint, Verify
  <2> QED
    BY <2>1, <2>2
<1>4. CASE AuditStep
  BY <1>1, <1>4
  DEF AuditStep, BuildAuditPacket, StartCodexAudit, StartClaudeAudit, StartTriage,
      Triage, StageFails
<1>5. CASE OutcomeStep
  <2>1. CASE WriteGate
    <3>1. pc \in AttemptPCs /\ UNCHANGED item_branches
      BY <2>1 DEF WriteGate
    <3>2. \E r : items' = [items EXCEPT ![it] = r]
      BY <2>1 DEF WriteGate
    <3>3. \/ UNCHANGED gates
          \/ \E record : gates' = [gates EXCEPT ![it][row.attempt_number] = record]
      BY <2>1 DEF WriteGate
    <3>4. \A i \in Items : i # it => items'[i] = items[i]
      BY <1>1, <3>2
    <3>5. \A i \in Items, a \in 1..MaxAttempts :
            i # it \/ a # row.attempt_number => gates'[i][a] = gates[i][a]
      <4>1. CASE UNCHANGED gates
        BY <4>1
      <4>2. CASE ~UNCHANGED gates
        <5>1. PICK record : gates' =
                 [gates EXCEPT ![it][row.attempt_number] = record]
          BY <3>3, <4>2
        <5> QED
          BY <1>1, <5>1
      <4> QED
        BY <4>1, <4>2
    <3> QED
      BY <3>1, <3>4, <3>5
  <2>2. CASE ~WriteGate
    BY <1>1, <1>5, <2>2
    DEF OutcomeStep, Land, RecordPass, FinishPass, RequestGate, BlockOnTriage,
        FinishBlocked, Escalate, FinishEscalated, StartFix, StartRemediation
  <2> QED
    BY <2>1, <2>2
<1> QED
  BY <1>2, <1>3, <1>4, <1>5

\* The other steps touch the row of the head of the queue or of a decided gate,
\* and the record of the gate that is being decided.
LEMMA OtherTouches ==
  ASSUME TypeOK,
         \/ QueueStep \/ DecisionStep \/ RecordRefresh \/ Command \/ Interrupt
  PROVE  /\ UNCHANGED item_branches
         /\ \A i \in Items :
              \/ items'[i] = items[i]
              \/ SelectItem /\ i = Head(call.queue)
              \/ DecisionStep /\ pc \in DecisionPCs /\ i = it
         /\ \/ UNCHANGED gates
            \/ \E i \in Items, outcome \in {"approved", "rejected"} : MarkGate(i, outcome)
<1> USE DEF saved, git
<1>1. items \in [Items -> ItemRow]
  BY DEF TypeOK
<1>2. CASE QueueStep
  BY <1>1, <1>2 DEF QueueStep, FinishQueue, RefuseItem, SelectItem, AdvanceQueue
<1>3. CASE DecisionStep
  BY <1>1, <1>3 DEF DecisionStep, LandApproved, RecordApproval, RecordRejection, DecisionPCs
<1>4. CASE RecordRefresh \/ Interrupt
  BY <1>4 DEF RecordRefresh, Interrupt
<1>5. CASE Command
  BY <1>5 DEF Command, Resume, CreateRefreshBranch, MarkGate
<1> QED
  BY <1>2, <1>3, <1>4, <1>5

\* A step that writes the row of an item finds it without a pass.
LEMMA PassedRowStays ==
  ASSUME IInv, Next, NEW i \in Items, items[i].terminal_state = "passed"
  PROVE  items'[i] = items[i]
<1>1. CASE PrepareStep \/ MutateStep \/ AuditStep \/ OutcomeStep
  <2>1. pc \in AttemptPCs
    BY <1>1, AttemptTouches DEF IInv
  <2>2. it # i
    BY <2>1, AttemptFacts
  <2> QED
    BY <1>1, <2>2, AttemptTouches DEF IInv
<1>2. CASE \/ QueueStep \/ DecisionStep \/ RecordRefresh \/ Command \/ Interrupt
  <2>1. ~(SelectItem /\ i = Head(call.queue))
    <3>1. SUFFICES ASSUME SelectItem PROVE Head(call.queue) # i
      OBVIOUS
    <3>2. call.queue \in Seq(Items) /\ call.queue # <<>>
      BY <3>1 DEF SelectItem, IInv, TypeOK, Call
    <3>3. 1 \in 1..Len(call.queue) /\ Head(call.queue) = call.queue[1]
      BY <3>2
    <3> QED
      BY <3>3 DEF IInv, QueueInv
  <2>2. ~(pc \in DecisionPCs /\ i = it)
    BY DEF IInv, DecisionInv, row
  <2> QED
    BY <1>2, <2>1, <2>2, OtherTouches DEF IInv
<1> QED
  BY <1>1, <1>2 DEF Next, Work

\* A pass is final: no later attempt, outcome, command or death of a process
\* touches the row of an item that passed.
THEOREM PassedFinal == Spec => PassedIsFinal
<1>1. IInv /\ [Next]_vars =>
        [\A i \in Items : items[i].terminal_state = "passed" => items'[i] = items[i]]_vars
  BY PassedRowStays
<1> QED
  BY <1>1, Inductive, PTL DEF Spec, PassedIsFinal

\* What earlier attempts of an item left, their branches and gate records, is
\* never rewritten: a decision marks the record of the item's last attempt.
THEOREM EarlierAttemptsStay == Spec => EarlierAttemptsPreserved
<1> DEFINE Kept == \A i \in Items, a \in 1..MaxAttempts :
                     a < items[i].attempt_number =>
                       /\ item_branches'[i][a] = item_branches[i][a]
                       /\ gates'[i][a] = gates[i][a]
<1>1. ASSUME IInv, Next, NEW i \in Items, NEW a \in 1..MaxAttempts,
             a < items[i].attempt_number
      PROVE  item_branches'[i][a] = item_branches[i][a] /\ gates'[i][a] = gates[i][a]
  <2>1. items[i].attempt_number \in 1..MaxAttempts
    BY <1>1 DEF IInv, TypeOK, ItemRow
  <2>2. a # items[i].attempt_number
    BY <1>1, <2>1
  <2>3. CASE PrepareStep \/ MutateStep \/ AuditStep \/ OutcomeStep
    BY <1>1, <2>2, <2>3, AttemptTouches DEF IInv, row
  <2>4. CASE \/ QueueStep \/ DecisionStep \/ RecordRefresh \/ Command \/ Interrupt
    <3>1. CASE UNCHANGED gates
      BY <1>1, <2>4, <3>1, OtherTouches DEF IInv
    <3>2. CASE ~UNCHANGED gates
      <4>1. PICK j \in Items, outcome \in {"approved", "rejected"} : MarkGate(j, outcome)
        BY <1>1, <2>4, <3>2, OtherTouches DEF IInv
      <4>2. items[j].manual_gate = items[j].attempt_number
        BY <1>1, <4>1 DEF MarkGate, IInv, PendingGateHolds
      <4>3. gates \in [Items -> [1..MaxAttempts -> GateRecord]]
        BY <1>1 DEF IInv, TypeOK
      <4>4. gates'[i][a] = gates[i][a]
        BY <1>1, <2>2, <4>1, <4>2, <4>3 DEF MarkGate
      <4> QED
        BY <1>1, <2>4, <4>4, OtherTouches DEF IInv
    <3> QED
      BY <3>1, <3>2
  <2> QED
    BY <1>1, <2>3, <2>4 DEF Next, Work
<1>2. IInv /\ [Next]_vars => [Kept]_vars
  BY <1>1
<1> QED
  BY <1>2, Inductive, PTL DEF Spec, EarlierAttemptsPreserved

-----------------------------------------------------------------------------
(* The budget of rounds *)

\* Only a new round counts; a fresh attempt starts the count again.
LEMMA CountersStay ==
  ASSUME IInv, Next, ~SelectItem, ~StartFix, ~StartRemediation, NEW i \in Items
  PROVE  /\ items'[i].fix_rounds_completed = items[i].fix_rounds_completed
         /\ items'[i].remediation_rounds_completed
              = items[i].remediation_rounds_completed
<1> USE DEF saved
<1>1. items \in [Items -> ItemRow]
  BY DEF IInv, TypeOK
<1>2. CASE PrepareStep \/ MutateStep \/ AuditStep \/ OutcomeStep
  <2>1. pc \in AttemptPCs /\ (i # it => items'[i] = items[i])
    BY <1>2, AttemptTouches DEF IInv
  <2>2. it \in Items /\ row = items[it] /\ row \in ItemRow
    BY <2>1, AttemptFacts
  <2>3. CASE PrepareStep
    BY <1>1, <2>1, <2>2, <2>3
    DEF ItemRow, PrepareStep, BlockWithoutEvidence, AddWorktree, RecordWorktree,
        EvidenceMissing, PrepareContext
  <2>4. CASE MutateStep
    BY <1>1, <2>1, <2>2, <2>4
    DEF ItemRow, MutateStep, StartMutation, RecordReport, CommitCheckpoint,
        RecordCheckpoint, Verify
  <2>5. CASE AuditStep
    BY <1>1, <2>1, <2>2, <2>5
    DEF ItemRow, AuditStep, BuildAuditPacket, StartCodexAudit, StartClaudeAudit,
        StartTriage, Triage, StageFails
  <2>6. CASE OutcomeStep
    <3>1. CASE WriteGate
      <4> DEFINE waiting == [row EXCEPT !.terminal_state = "awaiting_human_gate",
                                        !.manual_gate_status = "pending"]
                 recorded == [waiting EXCEPT !.manual_gate = row.attempt_number]
      <4>1. \/ items' = [items EXCEPT ![it] = waiting]
            \/ items' = [items EXCEPT ![it] = recorded]
        BY <3>1 DEF WriteGate
      <4>2. \A r \in {waiting, recorded} :
              /\ r.fix_rounds_completed = row.fix_rounds_completed
              /\ r.remediation_rounds_completed = row.remediation_rounds_completed
        BY <2>2 DEF ItemRow
      <4> HIDE DEF waiting, recorded
      <4> QED
        BY <1>1, <2>1, <2>2, <4>1, <4>2
    <3>2. CASE FinishBlocked
      BY <1>1, <2>1, <2>2, <3>2 DEF ItemRow, FinishBlocked
    <3>3. CASE FinishPass \/ FinishEscalated
      BY <1>1, <2>1, <2>2, <3>3 DEF ItemRow, FinishPass, FinishEscalated
    <3>4. CASE Land \/ RecordPass \/ RequestGate \/ BlockOnTriage \/ Escalate
      BY <3>4 DEF Land, RecordPass, RequestGate, BlockOnTriage, Escalate
    <3> QED
      BY <2>6, <3>1, <3>2, <3>3, <3>4 DEF OutcomeStep
  <2> QED
    BY <1>2, <2>3, <2>4, <2>5, <2>6
<1>3. CASE DecisionStep
  <2>1. it \in Items
    BY <1>3 DEF DecisionStep, LandApproved, RecordApproval, RecordRejection, IInv,
                DecisionInv, DecisionPCs
  <2>2. items[it] \in ItemRow
    BY <1>1, <2>1
  <2>3. CASE LandApproved
    BY <2>3 DEF LandApproved
  <2>4. CASE RecordApproval
    BY <1>1, <2>1, <2>2, <2>4 DEF ItemRow, RecordApproval
  <2>5. CASE RecordRejection
    BY <1>1, <2>1, <2>2, <2>5 DEF ItemRow, RecordRejection
  <2> QED
    BY <1>3, <2>3, <2>4, <2>5 DEF DecisionStep
<1>4. CASE QueueStep \/ RecordRefresh \/ Command \/ Interrupt
  BY <1>4
  DEF QueueStep, FinishQueue, RefuseItem, AdvanceQueue, RecordRefresh, Command, Resume,
      CreateRefreshBranch, MarkGate, Interrupt
<1> QED
  BY <1>2, <1>3, <1>4 DEF Next, Work

\* No attempt gets more fix or remediation rounds than its run allows, and
\* remediation starts only when the fixes are used up.
THEOREM BudgetKept == Spec => []RoundBudget
<1>1. Init => RoundBudget
  BY BudgetAssumption DEF Init, RoundBudget, NewItem
<1>2. ASSUME IInv, RoundBudget, Next PROVE RoundBudget'
  <2>1. items \in [Items -> ItemRow]
    BY <1>2 DEF IInv, TypeOK
  <2>2. CASE SelectItem
    <3>1. Head(call.queue) \in Items
      BY <1>2, <2>2 DEF SelectItem, IInv, TypeOK, Call
    <3> QED
      BY <1>2, <2>1, <2>2, <3>1, BudgetAssumption DEF SelectItem, RoundBudget
  <2>3. CASE StartFix \/ StartRemediation
    <3>1. it \in Items /\ row = items[it] /\ row \in ItemRow
      BY <1>2, <2>3, AttemptFacts
      DEF StartFix, StartRemediation, Goto, AttemptPCs
    <3>2. /\ row.fix_rounds_completed \in Nat
          /\ row.remediation_rounds_completed \in Nat
      BY <3>1 DEF ItemRow
    <3>3. CASE StartFix
      BY <1>2, <2>1, <3>1, <3>2, <3>3, BudgetAssumption DEF StartFix, RoundBudget
    <3>4. CASE StartRemediation
      BY <1>2, <2>1, <3>1, <3>2, <3>4, BudgetAssumption DEF StartRemediation, RoundBudget
    <3> QED
      BY <2>3, <3>3, <3>4
  <2>4. CASE ~SelectItem /\ ~StartFix /\ ~StartRemediation
    BY <1>2, <2>4, CountersStay DEF RoundBudget
  <2> QED
    BY <2>2, <2>3, <2>4
<1>3. RoundBudget /\ UNCHANGED vars => RoundBudget'
  BY DEF RoundBudget, vars, saved
<1>4. IInv /\ RoundBudget /\ [Next]_vars => RoundBudget'
  BY <1>2, <1>3
<1> QED
  BY <1>1, <1>4, Inductive, PTL DEF Spec
=============================================================================
