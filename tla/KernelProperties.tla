--------------------------- MODULE KernelProperties ---------------------------
(***************************************************************************)
(* What the kernel owes: invariants, what a step may never do, what must    *)
(* happen, and the ledger it implements.                                    *)
(***************************************************************************)
EXTENDS Kernel

\* Where a process died, and the other ways a call went wrong.
Mishaps == PCs \cup {"illegal_move", "evidence_missing", "gate_invalid",
                     "gate_unlandable"}

\* The shape of run_state.json, of the gate records, of the branches and of
\* the process, as the schemas and the code's signatures have them.
TypeOK ==
  /\ current_state \in StateIds
  /\ current_item_id \in 0..NumItems
  /\ items \in [Items -> ItemRow]
  /\ run_branch \in 1..Len(run_branches)
  /\ gates \in [Items -> [1..MaxAttempts -> GateRecord]]
  /\ run_branches \in Seq(Seq(Commits))
  /\ item_branches \in [Items -> [1..MaxAttempts -> Seq(Commits)]]
  /\ pc \in PCs
  /\ call \in Call
  /\ adopted \in SUBSET Commits
  /\ mishaps \in SUBSET Mishaps

-----------------------------------------------------------------------------
(* Invariants *)

\* The worktree of an attempt holds the reviewed work of every prerequisite:
\* prerequisites_satisfied() looks at a status, prepare_item_worktree() at the
\* run branch, and the two must not disagree.
BuildsOnPrerequisites ==
  \A i \in Items, a \in 1..MaxAttempts :
    item_branches[i][a] # NoHistory =>
      \A j \in Prerequisites[i] :
        /\ j \in Items
        /\ items[j].checkpoint_ref # NoHistory
        /\ IsPrefix(items[j].checkpoint_ref, item_branches[i][a])

\* An item called passed is on the run branch, the refreshed one included.
PassedIsLanded ==
  \A i \in Items :
    items[i].terminal_state = "passed" =>
      /\ items[i].checkpoint_ref # NoHistory
      /\ IsPrefix(items[i].checkpoint_ref, RunTip)

\* The row rests on the last cycle of its attempt.
Reviewed(i) ==
  /\ items[i].verification_report = Cycle(i)
  /\ items[i].codex_audit_report = Cycle(i)
  /\ items[i].claude_audit_report = Cycle(i)
  /\ items[i].triage_report = Cycle(i)
  /\ items[i].checkpoint_ref = Branch(i)
  /\ i \in GateRequired => /\ items[i].manual_gate = items[i].attempt_number
                           /\ GateOf(i).ref = items[i].checkpoint_ref

\* What passed is what the last cycle of this attempt verified, audited twice
\* and triaged: not an earlier round's checkpoint, not an earlier attempt's
\* report.
PassedWasReviewed ==
  \A i \in Items : items[i].terminal_state = "passed" => Reviewed(i)

\* No commit of a gated item is on the run branch unless a human approved the
\* attempt that made it, at a checkpoint that holds it, or whoever refreshed the
\* run put it there: create_run_refresh_branch() asks nothing of a descendant.
GateGuardsLanding ==
  \A c \in ToSet(RunTip) \ adopted :
    c[1] \in GateRequired =>
      /\ gates[c[1]][c[2]].status = "approved"
      /\ c \in ToSet(gates[c[1]][c[2]].ref)

\* The commits of one item that land on the run branch come from one attempt, with
\* those a refresh brought left aside.  A process that dies between the save of ST130
\* and that of the item's outcome leaves an item that landed and does not look so;
\* resume lands a second attempt on it.
LandsOnce ==
  \A i \in Items :
    \/ LET landed == {c \in ToSet(RunTip) \ adopted : c[1] = i}
       IN  Cardinality({c[2] : c \in landed}) <= 1
    \/ "passing" \in mishaps

\* An undecided gate record stops the run: it is the current item's, it names
\* the tip that was reviewed, and nothing runs until it is decided.
PendingGateHolds ==
  \A i \in Items :
    GatePending(i) =>
      /\ current_state = "ST110" /\ current_item_id = i
      /\ items[i].terminal_state = "awaiting_human_gate"
      /\ items[i].manual_gate = items[i].attempt_number
      /\ GateOf(i).ref = Branch(i)
      /\ pc \in {"idle", "refreshing"}

DecisionPCs == {"gate_approved", "gate_landed", "gate_rejected"}
\* A human's decision takes effect: record and row tell the same once the call is
\* over.  It may not when the process died between the two, when the run branch
\* had been refreshed under the gate, or when there was no gate to ask for.
HalfDecided == DecisionPCs \cup {"gate_unlandable", "gate_invalid"}
DecisionTakesEffect ==
  \A i \in Items :
    \/ pc \in DecisionPCs /\ it = i
    \/ mishaps \cap HalfDecided # {}
    \/ /\ items[i].terminal_state = "awaiting_human_gate" => GatePending(i)
       /\ items[i].manual_gate # None =>
            CASE GateOf(i).status = "pending"  -> items[i].terminal_state = "awaiting_human_gate"
              [] GateOf(i).status = "approved" -> items[i].terminal_state = "passed"
              [] GateOf(i).status = "rejected" ->
                   \/ items[i].terminal_state = "escalated"
                   \/ items[i].attempt_number > items[i].manual_gate
              [] OTHER -> FALSE

\* The history s leaves t at its n-th commit, and that one came with a refresh.
LeftByRefresh(s, t) ==
  \E n \in 2..Len(s) :
    /\ \A m \in 1..(n - 1) : m <= Len(t) /\ s[m] = t[m]
    /\ n > Len(t) \/ s[n] # t[n]
    /\ s[n] \in adopted

\* Git refuses nothing the kernel asks of it, but for what a refresh brought: a
\* new attempt finds no branch of its name (attempt numbers are never reused), the
\* run branch is still an ancestor of a branch about to land, and of a commit just
\* approved too unless the run was refreshed onto another commit meanwhile.
GitAgrees ==
  /\ pc = "selected" => Branch(it) = NoHistory
  /\ pc = "decide" => IsPrefix(RunTip, Branch(it))
  /\ pc = "gate_approved" =>
       IsPrefix(RunTip, GateOf(it).ref) \/ LeftByRefresh(RunTip, GateOf(it).ref)

\* Fix rounds come first, remediation rounds when they are used up, and an
\* attempt commits at most once per stage it was allowed.
RoundBudget ==
  \A i \in Items :
    /\ items[i].fix_rounds_completed <= MaxFixRounds
    /\ items[i].remediation_rounds_completed <= MaxRemediationRounds
    /\ items[i].remediation_rounds_completed > 0 =>
         items[i].fix_rounds_completed = MaxFixRounds

\* The run can still be moved on by one of its commands.
CanProceed ==
  \/ \A i \in Items : items[i].terminal_state = "passed"
  \/ current_state \in {"ST05", "ST130"}
  \/ /\ current_state \in {"ST120", "ST140"} /\ current_item_id # None
     /\ items[current_item_id].terminal_state \in {"blocked_external", "escalated"}
  \/ \E i \in Items : GatePending(i)

\* A process that dies here leaves a state from which every resume fails.
StrandingPCs ==
  PCs \ {"idle", "queue", "passing", "advance", "refreshing"}

\* Between calls the run can be moved on, unless a process died in the middle of
\* an item or of a decision, or one of three operator mistakes was made: an
\* evidence directory that is not there, a gate asked for an item that has none,
\* a run branch refreshed under a pending gate.
StrandedOnlyByMishap ==
  pc = "idle" =>
    \/ CanProceed
    \/ mishaps \cap (StrandingPCs \cup
         {"evidence_missing", "gate_invalid", "gate_unlandable"}) # {}

\* The moves _set_state() may be asked for where the process is; a mutation
\* stage asks for ST30 in its first round only.
MovesAsked ==
  (IF pc \in StagePCs THEN {"ST140"} ELSE {}) \cup
  CASE pc = "selected"      -> {"ST120"}
    [] pc = "worktree"      -> {"ST15"}
    [] pc = "prepared"      -> {"ST20"}
    [] pc = "context"       -> IF Round(it) = 0 THEN {"ST30"} ELSE {}
    [] pc = "committed"     -> {"ST40"}
    [] pc = "verified"      -> {"ST50"}
    [] pc = "packet"        -> {"ST60"}
    [] pc = "audit_codex"   -> {"ST61"}
    [] pc = "audit_claude"  -> {"ST70"}
    [] pc = "decide"        -> {"ST80", "ST95", "ST110", "ST120", "ST140"}
    [] pc \in {"landing", "gate_landed"} -> {"ST130"}
    [] pc = "gate_rejected" -> {"ST140"}
    [] OTHER                -> {}

\* assert_transition() refuses nothing once an item is selected: a call that
\* found a refusal would end in the middle, with git moved and the row not.
NoMoveRefused ==
  /\ \A target \in MovesAsked : CanMove(current_state, target)
  /\ pc = "context" /\ Round(it) > 0 => current_state \in {"ST80", "ST95"}

-----------------------------------------------------------------------------
(* The inductive invariant behind the theorems of KernelProofs *)

\* An attempt is under way; a decision about a gate is.
AttemptPCs == StagePCs \cup
  {"selected", "worktree", "prepared", "decide", "landing", "passing", "gating",
   "blocking", "escalating"}

\* The attempt's checkpoint is the tip of its branch.
ReviewedPCs ==
  {"verifying", "verified", "packet", "audit_codex", "audit_claude", "triaging",
   "decide", "gating"}

\* The item under way is the run's current one and has no outcome yet.
AttemptInv ==
  pc \in AttemptPCs =>
    /\ it \in Items /\ current_item_id = it
    /\ row.terminal_state = "none"
    /\ pc \in ReviewedPCs => row.checkpoint_ref = Branch(it)
    /\ pc = "gating" => current_state = "ST110"
    /\ pc = "passing" => current_state = "ST130"

DecisionInv ==
  pc \in DecisionPCs =>
    /\ it \in Items
    /\ row.terminal_state = "awaiting_human_gate"
    /\ row.manual_gate # None

\* A run that stopped on an item stopped because the item did not pass.
StoppedInv ==
  current_state \in {"ST120", "ST140"} /\ current_item_id # None =>
    items[current_item_id].terminal_state # "passed"

\* What is queued has not passed and will come up once.
QueueInv ==
  /\ \A m \in 1..Len(call.queue) :
       /\ items[call.queue[m]].terminal_state # "passed"
       /\ pc \in AttemptPCs => call.queue[m] # it
  /\ \A m, n \in 1..Len(call.queue) : m # n => call.queue[m] # call.queue[n]

IInv == /\ TypeOK /\ AttemptInv /\ DecisionInv /\ StoppedInv /\ QueueInv
        /\ PendingGateHolds

-----------------------------------------------------------------------------
(* Action properties *)

\* A pass is final: no later attempt, outcome or call touches the row.
PassedIsFinal ==
  [][\A i \in Items : items[i].terminal_state = "passed" => items'[i] = items[i]]_vars

\* What earlier attempts left for inspection stays as it was.
EarlierAttemptsPreserved ==
  [][\A i \in Items, a \in 1..MaxAttempts :
       a < items[i].attempt_number =>
         /\ item_branches'[i][a] = item_branches[i][a]
         /\ gates'[i][a] = gates[i][a]]_vars

\* What is left of a call, the most weighty first: items that have not passed,
\* items in the queue or about to be put there, rounds of the attempt, places.
Unfinished == Cardinality({i \in Items : items[i].terminal_state # "passed"})
Queued     == Len(call.queue) + (IF pc = "advance" THEN 1 ELSE 0)
RoundsLeft ==
  IF pc \in AttemptPCs
  THEN (MaxFixRounds - row.fix_rounds_completed)
       + (MaxRemediationRounds - row.remediation_rounds_completed)
  ELSE 0
PlacesLeft ==
  [idle |-> 0, refreshing |-> 1, gate_rejected |-> 1, gate_landed |-> 1,
   gate_approved |-> 2, queue |-> 1, advance |-> 2, gating |-> 1, blocking |-> 1,
   escalating |-> 1, passing |-> 3, landing |-> 4, decide |-> 5, triaging |-> 6,
   audit_claude |-> 7, audit_codex |-> 8, packet |-> 9, verified |-> 10,
   verifying |-> 11, committed |-> 12, reported |-> 13, running |-> 14,
   context |-> 15, prepared |-> 16, worktree |-> 17, selected |-> 18]

\* A call comes nearer its end with every step it takes, whatever the models
\* answer: auto-advance, which refills the queue, feeds on items that passed,
\* and a round back to the mutation stage on the budgets.
CallsAdvance ==
  [][pc # "idle" /\ pc' # "idle" =>
       \/ Unfinished' < Unfinished
       \/ /\ Unfinished' = Unfinished
          /\ \/ Queued' < Queued
             \/ /\ Queued' = Queued
                /\ \/ RoundsLeft' < RoundsLeft
                   \/ /\ RoundsLeft' = RoundsLeft
                      /\ PlacesLeft[pc'] < PlacesLeft[pc]]_vars

-----------------------------------------------------------------------------
(* Liveness *)

\* Every call returns: the rounds are bounded and so is the queue.
CallEnds == pc # "idle" ~> pc = "idle"

\* An approval takes effect.
ApprovedItemPasses ==
  \A i \in Items :
    (items[i].manual_gate # None /\ GateOf(i).status = "approved")
      ~> items[i].terminal_state = "passed"

-----------------------------------------------------------------------------
(* What the repository says and the code does not keep *)

\* "Latest mutation-stage report." is how _run_audit_and_triage describes the
\* report it puts in the audit packet.
PacketHoldsLatestReport ==
  pc \in {"packet", "audit_codex", "audit_claude", "triaging", "decide"} =>
    call.packet = Cycle(it)

-----------------------------------------------------------------------------
(* The ledger *)

\* The item whose work is on the run branch and whose row does not say so yet.
Unrecorded == IF pc \in {"landing", "passing", "gate_landed"} THEN it ELSE None

Ledger == INSTANCE RunLedger WITH
  history    <- RunTip,
  passed     <- {i \in Items : items[i].terminal_state = "passed"},
  adopted    <- adopted,
  approved   <- {p \in Items \X (1..MaxAttempts) : gates[p[1]][p[2]].status = "approved"},
  unrecorded <- Unrecorded

\* The kernel implements the ledger.
LedgerRefined == Ledger!Spec
-----------------------------------------------------------------------------
(* The outline *)

\* What a reader of the run sees once no process is in the middle of an attempt
\* or of a decision, and until then what it saw before.
Shown(state) ==
  IF state \in {"ST05", "ST110", "ST120", "ST130", "ST140"} THEN state ELSE "inside"
GateShown(i) ==
  IF pc \in DecisionPCs /\ i = it THEN "pending"
  ELSE IF items[i].manual_gate = None THEN "none" ELSE GateOf(i).status

Outline == INSTANCE RunOutline WITH
  current_state <- IF pc \in AttemptPCs THEN "inside" ELSE Shown(current_state),
  outcome       <- [i \in Items |-> items[i].terminal_state],
  gate          <- [i \in Items |-> GateShown(i)],
  busy          <- pc \in AttemptPCs

\* The kernel implements the outline: an outcome is taken back by an attempt
\* only, also when the selection is refused; what a gate says and where the run
\* is go together; a call that dies shows one of the named states.
OutlineRefined == Outline!Spec
=============================================================================
