-------------------------- MODULE SupervisionProofs --------------------------
(***************************************************************************)
(* Proofs about Supervision, for every plan, budget and bound: its types,   *)
(* the budget of an escalated item, which kernels can overlap, and that a   *)
(* rejected item is left alone.                                             *)
(***************************************************************************)
EXTENDS Supervision, FiniteSetTheorems, WellFoundedInduction, TLAPS

-----------------------------------------------------------------------------
(* Lemmas about the operators *)

\* Every nonempty set of naturals has a least element: the intervals up to its
\* elements are finite sets, and one of them includes no other.
LEMMA LeastElement ==
  ASSUME NEW T \in SUBSET Nat, T # {}
  PROVE  \E x \in T : \A y \in T : x <= y
<1> DEFINE Segments == {0..x : x \in T}
<1>1. Segments \subseteq FiniteSubsetsOf(Nat)
  <2> SUFFICES ASSUME NEW x \in T PROVE 0..x \in FiniteSubsetsOf(Nat)
    OBVIOUS
  <2>1. IsFiniteSet(0..x)
    BY FS_Interval
  <2> QED
    BY <2>1 DEF FiniteSubsetsOf
<1>2. Segments # {}
  OBVIOUS
<1>3. PICK A \in Segments : \A B \in Segments : <<B, A>> \notin StrictSubsetOrdering(Nat)
  <2> HIDE DEF Segments
  <2> QED
    BY <1>1, <1>2, FS_StrictSubsetOrderingWellFounded, WFMin
<1>4. PICK x \in T : A = 0..x
  OBVIOUS
<1>5. ASSUME NEW y \in T PROVE x <= y
  <2>1. CASE y < x
    <3>1. 0..y \subseteq 0..x /\ 0..y # 0..x
      BY <2>1
    <3>2. 0..y \in SUBSET Nat /\ 0..x \in SUBSET Nat
      OBVIOUS
    <3>3. <<0..y, 0..x>> \in StrictSubsetOrdering(Nat)
      BY <3>1, <3>2 DEF StrictSubsetOrdering
    <3>4. 0..y \in Segments
      BY <1>5
    <3> QED
      BY <3>3, <3>4, <1>3, <1>4
  <2> QED
    BY <2>1
<1> QED
  BY <1>4, <1>5

\* The item a decision is about exists.
LEMMA FocusType == TypeOK => Focus \in Items \cup {None}
<1> SUFFICES ASSUME TypeOK PROVE Focus \in Items \cup {None}
  OBVIOUS
<1>1. CASE current_item_id # None
  BY <1>1 DEF Focus, TypeOK
<1>2. CASE current_item_id = None /\ Unfinished
  <2> DEFINE T == {i \in Items : rows[i].terminal_state # "passed"}
  <2>1. T \in SUBSET Nat
    BY SupervisionAssumption DEF Items
  <2>2. T # {}
    BY <1>2 DEF Unfinished
  <2>3. PICK i \in T : \A j \in T : i <= j
    BY <2>1, <2>2, LeastElement
  <2>4. DOMAIN rows = Items
    BY DEF TypeOK
  <2>5. FirstUnfinished(i, rows)
    BY <2>1, <2>3, <2>4 DEF FirstUnfinished
  <2> QED
    BY <1>2, <2>5 DEF Focus
<1>3. CASE current_item_id = None /\ ~Unfinished
  BY <1>3 DEF Focus
<1> QED
  BY <1>1, <1>2, <1>3

LEMMA EvidenceType == TypeOK => ReadyEvidence \in Packages
BY SupervisionAssumption DEF TypeOK, ReadyEvidence, Packages, Explicit

\* Every state has a decision, and it is one of the named actions.
LEMMA DecisionType ==
  ASSUME TypeOK, current_state # "none"
  PROVE  /\ RecoveryDecision \in Decision
         /\ RecoveryDecision.action # "none"
         /\ RecoveryDecision.action = "resume_escalated" => RecoveryDecision.item \in Items
<1>1. RecoveryAction \in Actions \ {"none"}
  <2>1. /\ DoctorAction \in Actions \ {"none"} /\ BlockedAction \in Actions \ {"none"}
        /\ PassedAction \in Actions \ {"none"}
    BY DEF DoctorAction, BlockedAction, PassedAction, Actions, Waits, Resumes
  <2>2. EscalatedAction \in Actions \ {"none"}
    BY <2>1 DEF EscalatedAction, Actions, Waits, Resumes
  <2> QED
    BY <2>1, <2>2 DEF RecoveryAction, Actions, Waits, Resumes
<1>2. CASE Focus = None
  <2>1. NoFingerprint \in Fingerprint
    BY SupervisionAssumption DEF NoFingerprint, Fingerprint, RunStates, TerminalNames,
       Packages, Explicit
  <2>2. RecoveryDecision = [action |-> "terminal_passed", item |-> None,
                            fingerprint |-> NoFingerprint, package |-> 0]
    BY <1>2 DEF RecoveryDecision, NoDecision
  <2>3. 0 \in Packages
    BY SupervisionAssumption DEF Packages, Explicit
  <2> QED
    BY <2>1, <2>2, <2>3 DEF Decision, Actions
<1>3. CASE Focus # None
  <2>1. Focus \in Items
    BY <1>3, FocusType
  <2>2. item_state \in Row
    BY <2>1 DEF item_state, TypeOK
  <2>3. \A p \in Packages : FingerprintWith(p) \in Fingerprint
    BY <2>1, <2>2 DEF FingerprintWith, Fingerprint, Row, TypeOK
  <2>4. ReadyEvidence \in Packages /\ 0 \in Packages
    BY EvidenceType, SupervisionAssumption DEF Packages, Explicit
  <2> DEFINE used == IF In("ST120", "blocked_external") THEN ReadyEvidence ELSE 0
             given == IF RecoveryAction = "resume_blocked_external"
                      THEN ReadyEvidence ELSE 0
  <2>5. used \in Packages /\ given \in Packages
    BY <2>4
  <2>6. RecoveryDecision = [action |-> RecoveryAction, item |-> Focus,
                            fingerprint |-> FingerprintWith(used), package |-> given]
    BY <1>3 DEF RecoveryDecision
  <2>7. FingerprintWith(used) \in Fingerprint
    BY <2>3, <2>5
  <2> QED
    BY <1>1, <2>1, <2>5, <2>6, <2>7 DEF Decision
<1> QED
  BY <1>2, <1>3

LEMMA NoKernelType ==
  /\ NoKernel \in KernelProcess /\ ~NoKernel.registered /\ NoKernel.phase = "none"
  /\ \A e \in Packages : [NoKernel EXCEPT !.phase = "starting", !.supervised = TRUE,
                                         !.evidence = e] \in KernelProcess
  /\ \A e \in Packages : [NoKernel EXCEPT !.phase = "ready", !.evidence = e]
                           \in KernelProcess
<1>1. 0 \in Packages
  BY SupervisionAssumption DEF Packages, Explicit
<1> QED
  BY <1>1 DEF NoKernel, KernelProcess

LEMMA NoDecisionType == NoDecision \in Decision /\ NoDecision.action = "none"
<1>1. NoFingerprint \in Fingerprint
  BY SupervisionAssumption DEF NoFingerprint, Fingerprint, RunStates, TerminalNames,
     Packages, Explicit
<1>2. 0 \in Packages
  BY SupervisionAssumption DEF Packages, Explicit
<1> QED
  BY <1>1, <1>2 DEF NoDecision, Decision, Actions

LEMMA ExplicitType == {0, Explicit} \subseteq Packages
BY SupervisionAssumption DEF Packages, Explicit

-----------------------------------------------------------------------------
(* Types *)

\* A decision is one about to be acted on, or none.
DecisionInv == pc \in {"act", "record"} <=> decision.action # "none"

LEMMA InitType == Init => TypeOK /\ DecisionInv
<1> SUFFICES ASSUME Init PROVE TypeOK /\ DecisionInv
  OBVIOUS
<1>1. rows \in [Items -> Row]
  BY SupervisionAssumption DEF Init, Row, TerminalNames
<1>2. interventions \in Seq(Intervention) /\ mishaps \subseteq Observations
  BY DEF Init
<1>3. /\ inbox \in 0..MaxPackages /\ attempts \in 0..MaxAttempts
      /\ damage \subseteq Damages /\ current_state \in RunStates
      /\ resumes \in [Items -> Nat] /\ uncounted \in [Items -> Nat]
  BY SupervisionAssumption DEF Init, RunStates
<1>4. kernel \in KernelProcess /\ decision \in Decision /\ decision.action = "none"
  BY NoKernelType, NoDecisionType DEF Init
<1> QED
  BY <1>1, <1>2, <1>3, <1>4 DEF Init, TypeOK, DecisionInv

LEMMA IncrementType ==
  ASSUME NEW S, NEW f \in [S -> Nat], NEW x
  PROVE  [f EXCEPT ![x] = @ + 1] \in [S -> Nat]
<1> DEFINE g == [f EXCEPT ![x] = @ + 1]
<1>1. DOMAIN g = S /\ g = [y \in S |-> g[y]]
  OBVIOUS
<1>2. ASSUME NEW y \in S PROVE g[y] \in Nat
  <2>1. f[y] \in Nat
    OBVIOUS
  <2>2. g[y] = IF y = x THEN f[y] + 1 ELSE f[y]
    OBVIOUS
  <2> QED
    BY <2>1, <2>2
<1> HIDE DEF g
<1>3. g \in [S -> Nat]
  BY <1>1, <1>2
<1> QED
  BY <1>3 DEF g

LEMMA SupervisorType ==
  ASSUME TypeOK, DecisionInv,
         SuperviseRun \/ SuperviseResume \/ Supervise \/ Die
  PROVE  TypeOK' /\ DecisionInv'
<1> USE DEF TypeOK, DecisionInv, run, supervisor, history, KernelFiles, Goto, Begin
<1>1. CASE SuperviseRun
  <2>1. kernel' \in KernelProcess /\ mishaps' \subseteq Observations
    BY <1>1, NoKernelType, ExplicitType DEF SuperviseRun, SpawnKernel, Observations
  <2> QED
    BY <1>1, <2>1 DEF SuperviseRun
<1>2. CASE SuperviseResume
  BY <1>2 DEF SuperviseResume
<1>3. CASE Classify
  <2>1. CASE current_state = "none"
    BY <1>3, <2>1 DEF Classify
  <2>2. CASE current_state # "none"
    <3> HIDE DEF TypeOK
    <3>1. RecoveryDecision \in Decision /\ RecoveryDecision.action # "none"
      BY <2>2, DecisionType
    <3> QED
      BY <1>3, <2>2, <3>1 DEF Classify, TypeOK
  <2> QED
    BY <2>1, <2>2
<1>4. CASE Finish \/ Park
  BY <1>4, NoDecisionType DEF Finish, Park
<1>5. CASE Wait
  BY <1>5, NoDecisionType DEF Wait, Waits
<1>6. CASE Poll
  BY <1>6 DEF Poll
<1>7. CASE Repair
  <2>1. /\ interventions' \in Seq(Intervention)
    <3>1. [action |-> decision.action, item |-> decision.item,
           fingerprint |-> decision.fingerprint] \in Intervention
      BY <1>7 DEF Repair, Decision, Intervention, Counted
    <3> QED
      BY <1>7, <3>1 DEF Repair, Record
  <2> QED
    BY <1>7, <2>1, NoDecisionType DEF Repair, Repaired
<1>8. CASE SpawnResume
  <2>1. kernel' \in KernelProcess /\ mishaps' \subseteq Observations
    <3>1. decision.package \in Packages
      BY DEF Decision
    <3> QED
      BY <1>8, <3>1, NoKernelType DEF SpawnResume, SpawnKernel, Observations
  <2>2. resumes' \in [Items -> Nat]
    <3> HIDE DEF TypeOK, DecisionInv
    <3>1. resumes \in [Items -> Nat]
      BY DEF TypeOK
    <3> QED
      BY <1>8, <3>1, IncrementType DEF SpawnResume
  <2> QED
    BY <1>8, <2>1, <2>2 DEF SpawnResume, Resumes
<1>9. CASE RecordResume
  <2>1. interventions' \in Seq(Intervention)
    <3>1. decision.action \in Counted =>
            [action |-> decision.action, item |-> decision.item,
             fingerprint |-> decision.fingerprint] \in Intervention
      BY DEF Decision, Intervention
    <3> QED
      BY <1>9, <3>1 DEF RecordResume, Record
  <2> QED
    BY <1>9, <2>1, NoDecisionType, ExplicitType DEF RecordResume
<1>10. CASE MonitorEnds
  BY <1>10 DEF MonitorEnds
<1>11. CASE Die
  <2>1. mishaps' \subseteq Observations
    BY <1>11 DEF Die, Observations
  <2>2. uncounted' \in [Items -> Nat]
    <3> HIDE DEF TypeOK, DecisionInv
    <3>1. uncounted \in [Items -> Nat]
      BY DEF TypeOK
    <3> QED
      BY <1>11, <3>1, IncrementType DEF Die
  <2> QED
    BY <1>11, <2>1, <2>2, NoDecisionType DEF Die
<1> QED
  BY <1>1, <1>2, <1>3, <1>4, <1>5, <1>6, <1>7, <1>8, <1>9, <1>10, <1>11 DEF Supervise

LEMMA KernelPhaseType ==
  ASSUME kernel \in KernelProcess,
         NEW phase \in {"none", "starting", "ready", "reset", "next", "busy"}
  PROVE  /\ [kernel EXCEPT !.phase = phase] \in KernelProcess
         /\ \A registered \in BOOLEAN :
              [kernel EXCEPT !.phase = phase, !.registered = registered] \in KernelProcess
         /\ \A i \in Items : [kernel EXCEPT !.phase = phase, !.item = i] \in KernelProcess
         /\ [kernel EXCEPT !.phase = phase, !.evidence = 0] \in KernelProcess
<1>1. 0 \in Packages
  BY SupervisionAssumption DEF Packages, Explicit
<1> QED
  BY <1>1 DEF KernelProcess

\* What the kernel changes, with its types.
LEMMA KernelWorkType ==
  ASSUME TypeOK, KernelWork
  PROVE  /\ current_state' \in RunStates /\ current_item_id' \in Items \cup {None}
         /\ rows' \in [Items -> Row] /\ kernel' \in KernelProcess
         /\ attempts' \in 0..MaxAttempts
         /\ UNCHANGED <<Elsewhere, resumes, uncounted, mishaps>>
<1>0. /\ current_state \in RunStates /\ current_item_id \in Items \cup {None}
      /\ rows \in [Items -> Row] /\ kernel \in KernelProcess
      /\ attempts \in 0..MaxAttempts
  BY DEF TypeOK
<1> USE DEF run, history, KernelOnly
<1>1. CASE KernelBegins
  BY <1>0, <1>1, KernelPhaseType DEF KernelBegins
<1>2. CASE KernelCreatesRun
  BY <1>0, <1>2, KernelPhaseType DEF KernelCreatesRun, RunStates
<1>3. CASE KernelEnds
  BY <1>0, <1>3, NoKernelType DEF KernelEnds
<1>4. CASE KernelResets
  BY <1>0, <1>4, KernelPhaseType DEF KernelResets, RunStates
<1>5. CASE KernelSelects
  <2>1. PICK i \in Items :
          /\ kernel' = [kernel EXCEPT !.phase = "busy", !.item = i]
          /\ current_item_id' = i
          /\ rows' = [rows EXCEPT ![i].terminal_state = "none"]
    BY <1>5 DEF KernelSelects
  <2>2. kernel' \in KernelProcess
    BY <1>0, <2>1, KernelPhaseType
  <2>3. rows' \in [Items -> Row]
    BY <1>0, <2>1 DEF Row, TerminalNames
  <2>5. attempts' \in 0..MaxAttempts
    BY <1>0, <1>5, SupervisionAssumption DEF KernelSelects
  <2> QED
    BY <1>5, <2>1, <2>2, <2>3, <2>5 DEF KernelSelects, RunStates
<1>6. CASE KernelAttemptEnds
  <2>1. PICK outcome \in TerminalNames \ {"none"},
             reported, scope_failed, refused \in BOOLEAN :
          /\ current_state' = StateOf(outcome)
          /\ rows' = [rows EXCEPT ![kernel.item] =
               [terminal_state |-> outcome,
                gate |-> IF outcome = "awaiting_human_gate" /\ ~refused
                         THEN "pending" ELSE @.gate,
                reports |-> IF reported THEN attempts ELSE @.reports,
                scope_failed |-> scope_failed]]
          /\ \/ kernel' = NoKernel
             \/ kernel' = [kernel EXCEPT !.phase = "next", !.evidence = 0]
    BY <1>6 DEF KernelAttemptEnds
  <2>2. current_state' \in RunStates
    BY <2>1 DEF StateOf, TerminalNames, RunStates
  <2>3. rows' \in [Items -> Row]
    <3>1. \A r \in Row : [terminal_state |-> outcome,
            gate |-> IF outcome = "awaiting_human_gate" /\ ~refused
                     THEN "pending" ELSE r.gate,
            reports |-> IF reported THEN attempts ELSE r.reports,
            scope_failed |-> scope_failed] \in Row
      BY <1>0 DEF Row
    <3> QED
      BY <1>0, <2>1, <3>1
  <2>4. kernel' \in KernelProcess
    BY <1>0, <2>1, NoKernelType, KernelPhaseType
  <2> QED
    BY <1>0, <1>6, <2>2, <2>3, <2>4 DEF KernelAttemptEnds
<1>7. CASE KernelDies
  <2>1. PICK state \in RunStates \ {"none", "ST05"}, reported, scope_failed \in BOOLEAN :
          /\ current_state' = state
          /\ rows' = [rows EXCEPT
               ![kernel.item].reports = IF reported THEN attempts ELSE @,
               ![kernel.item].scope_failed = scope_failed]
    BY <1>7 DEF KernelDies
  <2>2. rows' \in [Items -> Row]
    <3> DEFINE written == IF reported THEN attempts ELSE rows[kernel.item].reports
               new == [rows[kernel.item] EXCEPT !.reports = written,
                                                !.scope_failed = scope_failed]
    <3>1. \A i \in Items : rows'[i] = IF i = kernel.item THEN new ELSE rows[i]
      BY <1>0, <2>1
    <3>2. DOMAIN rows' = Items /\ rows' = [i \in Items |-> rows'[i]]
      BY <1>0, <2>1
    <3>3. kernel.item \in Items => written \in 0..MaxAttempts
      BY <1>0 DEF Row
    <3>4. kernel.item \in Items => new \in Row
      <4> HIDE DEF written
      <4> QED
        BY <1>0, <3>3 DEF Row
    <3> HIDE DEF new
    <3> QED
      BY <1>0, <3>1, <3>2, <3>4
  <2> QED
    BY <1>0, <1>7, <2>1, <2>2, NoKernelType DEF KernelDies
<1> QED
  BY <1>1, <1>2, <1>3, <1>4, <1>5, <1>6, <1>7 DEF KernelWork

LEMMA KernelType ==
  ASSUME TypeOK, DecisionInv, KernelWork
  PROVE  TypeOK' /\ DecisionInv'
BY KernelWorkType DEF TypeOK, DecisionInv, Elsewhere, supervisor

LEMMA EnvironmentType ==
  ASSUME TypeOK, DecisionInv, Environment
  PROVE  TypeOK' /\ DecisionInv'
<1> USE DEF run, supervisor, Outside
<1>1. CASE DecideGate
  <2>1. PICK i \in Items, approve, saved \in BOOLEAN :
          /\ rows' = [rows EXCEPT
               ![i].gate = IF approve THEN "approved" ELSE "rejected",
               ![i].terminal_state =
                 IF saved THEN IF approve THEN "passed" ELSE "escalated" ELSE @]
          /\ current_item_id' \in {i, current_item_id}
          /\ current_state' \in {"ST130", "ST140", current_state}
    BY <1>1 DEF DecideGate, StateOf
  <2>2. rows' \in [Items -> Row]
    <3> DEFINE status == IF saved THEN IF approve THEN "passed" ELSE "escalated"
                         ELSE rows[i].terminal_state
               verdict == IF approve THEN "approved" ELSE "rejected"
               new == [rows[i] EXCEPT !.gate = verdict, !.terminal_state = status]
    <3>1. rows \in [Items -> Row]
      BY DEF TypeOK
    <3>2. status \in TerminalNames
      BY <3>1 DEF Row, TerminalNames
    <3>3. new \in Row
      <4> HIDE DEF status
      <4> QED
        BY <3>1, <3>2 DEF Row
    <3>4. rows' = [rows EXCEPT ![i] = new]
      BY <2>1, <3>1
    <3> HIDE DEF new
    <3> QED
      BY <3>1, <3>3, <3>4
  <2> QED
    BY <1>1, <2>1, <2>2 DEF DecideGate, TypeOK, DecisionInv, RunStates
<1>2. CASE SupplyEvidence
  BY <1>2, SupervisionAssumption DEF SupplyEvidence, TypeOK, DecisionInv
<1>3. CASE HumanResumes
  <2>1. kernel' \in KernelProcess /\ mishaps' \subseteq Observations
    <3>1. PICK e \in {0, Explicit} :
            kernel' = [NoKernel EXCEPT !.phase = "ready", !.evidence = e]
      BY <1>3 DEF HumanResumes
    <3>2. kernel' \in KernelProcess
      BY <3>1, NoKernelType, ExplicitType
    <3>3. mishaps' \subseteq Observations
      BY <1>3 DEF HumanResumes, TypeOK, Observations
    <3> QED
      BY <3>2, <3>3
  <2> QED
    BY <1>3, <2>1 DEF HumanResumes, TypeOK, DecisionInv
<1>4. CASE FilesDamaged
  BY <1>4 DEF FilesDamaged, TypeOK, DecisionInv
<1> QED
  BY <1>1, <1>2, <1>3, <1>4 DEF Environment

LEMMA NextType == TypeOK /\ DecisionInv /\ [Next]_vars => (TypeOK /\ DecisionInv)'
<1> SUFFICES ASSUME TypeOK, DecisionInv, [Next]_vars PROVE (TypeOK /\ DecisionInv)'
  OBVIOUS
<1>1. CASE UNCHANGED vars
  BY <1>1 DEF TypeOK, DecisionInv, vars, run, supervisor, history
<1>2. CASE Next
  BY <1>2, SupervisorType, KernelType, EnvironmentType DEF Next
<1> QED
  BY <1>1, <1>2

\* Files, processes and interventions keep their shapes, and a supervisor that
\* acts has forgotten its wait.
THEOREM SupervisionTypes == Spec => []TypeOK
<1>1. Init => TypeOK /\ DecisionInv
  BY InitType
<1> QED
  BY <1>1, NextType, PTL DEF Spec

-----------------------------------------------------------------------------
(* The budget of an escalated item *)

\* The files that count for an item, in a sequence of interventions.
Files(files, i) ==
  {n \in 1..Len(files) : files[n].action = "resume_escalated" /\ files[n].item = i}
Spent(i) == Cardinality(Files(interventions, i))

LEMMA SpentIsCounted == \A i : CountPriorForItem("resume_escalated", i) = Spent(i)
BY DEF CountPriorForItem, Spent, Files

LEMMA FilesFinite ==
  ASSUME NEW files \in Seq(Intervention), NEW i
  PROVE  IsFiniteSet(Files(files, i)) /\ Cardinality(Files(files, i)) \in Nat
<1>1. IsFiniteSet(1..Len(files))
  BY FS_Interval
<1>2. IsFiniteSet(Files(files, i))
  BY <1>1, FS_Subset DEF Files
<1> QED
  BY <1>2, FS_CardinalityType

\* A new file counts for its own item only.
LEMMA FilesAppend ==
  ASSUME NEW files \in Seq(Intervention), NEW e \in Intervention, NEW i
  PROVE  Cardinality(Files(Append(files, e), i)) =
           Cardinality(Files(files, i))
             + IF e.action = "resume_escalated" /\ e.item = i THEN 1 ELSE 0
<1> DEFINE new == Append(files, e)
           last == Len(files) + 1
<1>1. /\ Len(new) = last /\ last \in Nat /\ new[last] = e
      /\ \A n \in 1..Len(files) : new[n] = files[n]
  OBVIOUS
<1>2. IsFiniteSet(Files(files, i)) /\ Cardinality(Files(files, i)) \in Nat
  BY FilesFinite
<1> HIDE DEF new
<1>3. CASE e.action = "resume_escalated" /\ e.item = i
  <2>1. Files(new, i) = Files(files, i) \cup {last}
    BY <1>1, <1>3 DEF Files
  <2>2. last \notin Files(files, i)
    BY DEF Files
  <2>3. Cardinality(Files(new, i)) = Cardinality(Files(files, i)) + 1
    BY <1>2, <2>1, <2>2, FS_AddElement
  <2> QED
    BY <1>3, <2>3 DEF new
<1>4. CASE ~(e.action = "resume_escalated" /\ e.item = i)
  <2>1. Files(new, i) = Files(files, i)
    BY <1>1, <1>4 DEF Files
  <2> QED
    BY <1>2, <1>4, <2>1 DEF new
<1> QED
  BY <1>3, <1>4

\* A resume whose file is still to be written counts as well.
Unwritten(i) ==
  IF pc = "record" /\ decision.action = "resume_escalated" /\ decision.item = i
  THEN 1 ELSE 0

BudgetInv ==
  /\ \A i \in Items : resumes[i] <= Spent(i) + uncounted[i] + Unwritten(i)
  /\ \A i \in Items : Spent(i) + Unwritten(i) <= Budget
  /\ pc = "act" /\ decision.action = "resume_escalated" =>
       decision.item \in Items /\ Spent(decision.item) < Budget

BInv == TypeOK /\ DecisionInv /\ BudgetInv

\* The numbers BudgetInv speaks of.
LEMMA BudgetNumbers ==
  ASSUME TypeOK
  PROVE  /\ Budget \in Nat
         /\ \A i \in Items : /\ Spent(i) \in Nat /\ Unwritten(i) \in {0, 1}
                             /\ resumes[i] \in Nat /\ uncounted[i] \in Nat
<1>1. \A i \in Items : Spent(i) \in Nat
  BY FilesFinite DEF TypeOK, Spent
<1> QED
  BY <1>1, SupervisionAssumption DEF TypeOK, Unwritten

LEMMA BudgetInit == Init => BInv
<1> SUFFICES ASSUME Init PROVE BInv
  OBVIOUS
<1>1. TypeOK /\ DecisionInv
  BY InitType
<1>2. \A i \in Items : Spent(i) = 0
  <2>1. \A i : Files(interventions, i) = {}
    BY DEF Init, Files
  <2> QED
    BY <2>1, FS_EmptySet DEF Spent
<1>3. \A i \in Items : Unwritten(i) = 0 /\ resumes[i] = 0 /\ uncounted[i] = 0
  BY DEF Init, Unwritten
<1> QED
  BY <1>1, <1>2, <1>3, SupervisionAssumption DEF BInv, BudgetInv, Init

\* Most steps leave the files and the counters alone and do not bring the
\* supervisor nearer to a resume.
LEMMA BudgetIdle ==
  ASSUME BInv, UNCHANGED <<interventions, resumes, uncounted>>,
         \/ UNCHANGED <<pc, decision>>
         \/ pc' \notin {"act", "record"} /\ pc # "record"
  PROVE  BudgetInv'
<1>1. \A i \in Items : Spent(i)' = Spent(i)
  BY DEF Spent
<1>2. \A i \in Items : Unwritten(i)' <= Unwritten(i) /\ Unwritten(i)' \in {0, 1}
  BY DEF Unwritten
<1>3. TypeOK /\ BudgetInv
  BY DEF BInv
<1>4. \A i \in Items : pc # "record" => Unwritten(i) = 0
  BY DEF Unwritten
<1>5. \A i \in Items : Unwritten(i)' = Unwritten(i)
  BY <1>2, <1>4 DEF Unwritten
<1>6. pc' = "act" /\ decision'.action = "resume_escalated" =>
        pc = "act" /\ decision' = decision
  OBVIOUS
<1> QED
  BY <1>1, <1>3, <1>5, <1>6 DEF BudgetInv

LEMMA BudgetStep == BInv /\ [Next]_vars => BudgetInv'
<1> SUFFICES ASSUME BInv, [Next]_vars PROVE BudgetInv'
  OBVIOUS
<1> USE DEF run, supervisor, history, KernelFiles, Goto, Begin
<1>1. TypeOK /\ DecisionInv /\ BudgetInv
  BY DEF BInv
<1>2. CASE UNCHANGED vars
  BY <1>2, BudgetIdle DEF vars
<1>3. CASE SuperviseRun \/ SuperviseResume \/ Finish \/ Park \/ Wait \/ Poll \/ MonitorEnds
  BY <1>3, BudgetIdle
     DEF SuperviseRun, SuperviseResume, Finish, Park, Wait, Poll, MonitorEnds
<1>4. CASE KernelWork
  <2>1. UNCHANGED <<Elsewhere, resumes, uncounted>>
    BY <1>1, <1>4, KernelWorkType
  <2> QED
    BY <2>1, BudgetIdle DEF Elsewhere
<1>5. CASE Environment
  BY <1>5, BudgetIdle DEF Environment, Outside, DecideGate, SupplyEvidence,
     HumanResumes, FilesDamaged
<1>6. CASE Classify
  <2>1. CASE current_state = "none"
    BY <1>6, <2>1, BudgetIdle DEF Classify
  <2>2. CASE current_state # "none"
    <3>1. pc = "classify" /\ pc' = "act" /\ decision' = RecoveryDecision
          /\ UNCHANGED <<interventions, resumes, uncounted>>
      BY <1>6, <2>2 DEF Classify
    <3>2. \A i \in Items : Spent(i)' = Spent(i) /\ Unwritten(i) = 0 /\ Unwritten(i)' = 0
      BY <3>1 DEF Spent, Unwritten
    <3>3. RecoveryDecision.action = "resume_escalated" =>
            RecoveryDecision.item \in Items /\ Spent(RecoveryDecision.item) < Budget
      <4> SUFFICES ASSUME RecoveryDecision.action = "resume_escalated"
                   PROVE  RecoveryDecision.item \in Items
                          /\ Spent(RecoveryDecision.item) < Budget
        OBVIOUS
      <4>1. RecoveryDecision.item \in Items
        BY <1>1, <2>2, DecisionType
      <4>2. Focus # None
        BY DEF RecoveryDecision, NoDecision
      <4>3. RecoveryDecision.item = Focus /\ RecoveryAction = "resume_escalated"
        BY <4>2 DEF RecoveryDecision
      <4>4. EscalatedAction = "resume_escalated"
        BY <4>3 DEF RecoveryAction, BlockedAction, DoctorAction, PassedAction
      <4>5. ~(CountPriorForItem("resume_escalated", Focus) >= Budget)
        BY <4>4 DEF EscalatedAction, DoctorAction
      <4>6. ~(Spent(Focus) >= Budget)
        BY <4>5, SpentIsCounted
      <4>7. Spent(Focus) \in Nat /\ Budget \in Nat
        BY <1>1, <4>1, <4>3, BudgetNumbers
      <4> QED
        BY <4>1, <4>3, <4>6, <4>7
    <3>4. (decision.action = "resume_escalated" =>
             decision.item \in Items /\ Spent(decision.item) < Budget)'
      BY <3>1, <3>3 DEF Spent
    <3> QED
      BY <1>1, <3>1, <3>2, <3>4 DEF BudgetInv
  <2> QED
    BY <2>1, <2>2
<1>7. CASE Repair
  <2>1. /\ interventions' = Append(interventions, [action |-> "doctor_fix_safe",
             item |-> decision.item, fingerprint |-> decision.fingerprint])
        /\ pc = "act" /\ pc' = "classify" /\ UNCHANGED <<resumes, uncounted>>
    BY <1>7 DEF Repair, Record, Counted
  <2>2. [action |-> "doctor_fix_safe", item |-> decision.item,
         fingerprint |-> decision.fingerprint] \in Intervention
    BY <1>1 DEF TypeOK, Decision, Intervention, Counted
  <2>3. \A i \in Items : Spent(i)' = Spent(i)
    <3>1. interventions \in Seq(Intervention)
      BY <1>1 DEF TypeOK
    <3>2. \A i \in Items : Spent(i)' = Spent(i) + 0
      BY <2>1, <2>2, <3>1, FilesAppend DEF Spent
    <3> QED
      BY <1>1, <3>2, BudgetNumbers
  <2>4. \A i \in Items : Unwritten(i)' = 0 /\ Unwritten(i) = 0
    BY <2>1 DEF Unwritten
  <2> QED
    BY <1>1, <2>1, <2>3, <2>4 DEF BudgetInv
<1>8. CASE SpawnResume
  <2>1. /\ pc = "act" /\ pc' = "record" /\ UNCHANGED <<interventions, uncounted, decision>>
        /\ resumes' = IF decision.action = "resume_escalated"
                      THEN [resumes EXCEPT ![decision.item] = @ + 1] ELSE resumes
    BY <1>8 DEF SpawnResume
  <2>2. \A i \in Items : Spent(i)' = Spent(i) /\ Unwritten(i) = 0
    BY <2>1 DEF Spent, Unwritten
  <2>3. resumes \in [Items -> Nat]
    BY <1>1 DEF TypeOK
  <2>4. \A i \in Items : resumes'[i] = resumes[i] + Unwritten(i)'
    BY <1>1, <2>1, <2>3, BudgetNumbers DEF Unwritten
  <2>5. \A i \in Items : Unwritten(i)' = 1 => Spent(i) < Budget
    BY <1>1, <2>1 DEF BudgetInv, Unwritten
  <2>6. \A i \in Items : Unwritten(i)' \in {0, 1}
    BY DEF Unwritten
  <2> QED
    BY <1>1, <2>1, <2>2, <2>4, <2>5, <2>6, BudgetNumbers DEF BudgetInv
<1>9. CASE RecordResume
  <2>1. pc = "record" /\ pc' = "monitor" /\ UNCHANGED <<resumes, uncounted>>
        /\ Record(decision)
    BY <1>9 DEF RecordResume
  <2>2. interventions \in Seq(Intervention)
    BY <1>1 DEF TypeOK
  <2>3. \A i \in Items : Spent(i)' = Spent(i) + Unwritten(i)
    <3>1. CASE decision.action \in Counted
      <4> DEFINE e == [action |-> decision.action, item |-> decision.item,
                       fingerprint |-> decision.fingerprint]
      <4>1. e \in Intervention
        BY <1>1, <3>1 DEF TypeOK, Decision, Intervention
      <4>2. interventions' = Append(interventions, e)
        BY <2>1, <3>1 DEF Record
      <4> HIDE DEF e
      <4>3. \A i \in Items : Spent(i)' = Spent(i)
              + IF e.action = "resume_escalated" /\ e.item = i THEN 1 ELSE 0
        BY <2>2, <4>1, <4>2, FilesAppend DEF Spent
      <4> QED
        BY <2>1, <4>3 DEF e, Unwritten
    <3>2. CASE decision.action \notin Counted
      <4>1. interventions' = interventions
        BY <2>1, <3>2 DEF Record
      <4> QED
        BY <1>1, <3>2, <4>1, BudgetNumbers DEF Spent, Unwritten, Counted
    <3> QED
      BY <3>1, <3>2
  <2>4. \A i \in Items : Unwritten(i)' = 0
    BY <2>1 DEF Unwritten
  <2> QED
    BY <1>1, <2>1, <2>3, <2>4, BudgetNumbers DEF BudgetInv
<1>10. CASE Die
  <2>1. /\ pc' = "off" /\ UNCHANGED <<interventions, resumes>>
        /\ uncounted' = IF pc = "record" /\ decision.action = "resume_escalated"
                        THEN [uncounted EXCEPT ![decision.item] = @ + 1] ELSE uncounted
    BY <1>10 DEF Die
  <2>2. uncounted \in [Items -> Nat]
    BY <1>1 DEF TypeOK
  <2>3. \A i \in Items : uncounted'[i] = uncounted[i] + Unwritten(i)
    BY <1>1, <2>1, <2>2, BudgetNumbers DEF Unwritten
  <2>4. \A i \in Items : Spent(i)' = Spent(i) /\ Unwritten(i)' = 0
    BY <2>1 DEF Spent, Unwritten
  <2> QED
    BY <1>1, <2>1, <2>3, <2>4, BudgetNumbers DEF BudgetInv
<1> QED
  BY <1>2, <1>3, <1>4, <1>5, <1>6, <1>7, <1>8, <1>9, <1>10 DEF Next, Supervise

\* Whatever an item's attempts write, and however many supervisors come and
\* go, it is resumed Budget times, and once more for each of them that died
\* between a resume and its file.
THEOREM EscalationBudgetKept == Spec => []EscalationBudget
<1>1. Init => BInv
  BY BudgetInit
<1>2. BInv /\ [Next]_vars => BInv'
  BY BudgetStep, NextType DEF BInv
<1>3. BInv => EscalationBudget
  BY BudgetNumbers DEF BInv, BudgetInv, EscalationBudget
<1> QED
  BY <1>1, <1>2, <1>3, PTL DEF Spec

-----------------------------------------------------------------------------
(* Kernels side by side *)

\* A kernel nobody fails to see belongs to the supervisor that waits for it,
\* or can be attached to.
SeenInv ==
  /\ kernel.phase = "starting" => ~kernel.registered
  /\ mishaps \cap Unseen = {} =>
       /\ "two_kernels" \notin mishaps
       /\ KernelRuns => /\ kernel.supervised
                        /\ \/ pc \in {"record", "monitor"}
                           \/ pc = "off" /\ kernel.registered

SInv == TypeOK /\ DecisionInv /\ SeenInv

LEMMA SeenStep == SInv /\ [Next]_vars => SeenInv'
<1> SUFFICES ASSUME SInv, [Next]_vars PROVE SeenInv'
  OBVIOUS
<1> USE DEF run, supervisor, history, KernelFiles, Goto, Begin
<1>1. /\ SeenInv /\ kernel \in KernelProcess /\ pc \in {"off", "monitor", "classify",
          "act", "wait", "record"}
  BY DEF SInv, TypeOK
<1>2. CASE UNCHANGED vars
  BY <1>1, <1>2 DEF vars, SeenInv, KernelRuns
<1>3. CASE SuperviseRun \/ SpawnResume
  <2>1. (pc = "off" /\ ~KernelRuns) \/ pc = "act"
    BY <1>3 DEF SuperviseRun, SpawnResume
  <2>2. pc' \in {"monitor", "record"}
    BY <1>3 DEF SuperviseRun, SpawnResume
  <2>3. PICK e : SpawnKernel(e)
    BY <1>3 DEF SuperviseRun, SpawnResume
  <2>4. CASE KernelRuns
    <3>1. mishaps \cap Unseen # {}
      BY <1>1, <2>1, <2>4 DEF SeenInv
    <3> QED
      BY <1>1, <2>3, <2>4, <3>1 DEF SpawnKernel, SeenInv
  <2>5. CASE ~KernelRuns
    <3>1. UNCHANGED mishaps /\ kernel'.supervised /\ ~kernel'.registered
      BY <2>3, <2>5, NoKernelType DEF SpawnKernel, NoKernel
    <3> QED
      BY <1>1, <2>2, <3>1 DEF SeenInv, KernelRuns
  <2> QED
    BY <2>4, <2>5
<1>4. CASE SuperviseResume
  BY <1>1, <1>4 DEF SuperviseResume, SeenInv, KernelRuns
<1>5. CASE Classify \/ Finish \/ Park \/ Wait \/ Poll \/ Repair \/ RecordResume \/ MonitorEnds
  <2>1. UNCHANGED <<kernel, mishaps>> /\ (pc = "record" => pc' = "monitor")
        /\ (pc = "monitor" => ~kernel.supervised) /\ pc # "off"
    BY <1>5 DEF Classify, Finish, Park, Wait, Poll, Repair, RecordResume, MonitorEnds
  <2> QED
    BY <1>1, <2>1 DEF SeenInv, KernelRuns
<1>6. CASE Die
  <2>1. /\ UNCHANGED kernel /\ pc' = "off" /\ pc # "off" /\ mishaps \subseteq mishaps'
        /\ KernelRuns /\ ~kernel.registered => "unattached" \in mishaps'
        /\ "two_kernels" \in mishaps' => "two_kernels" \in mishaps
    BY <1>6 DEF Die
  <2> QED
    BY <1>1, <2>1 DEF SeenInv, KernelRuns, Unseen
<1>7. CASE KernelBegins
  <2>1. /\ kernel.phase = "starting" /\ kernel'.phase = "ready" /\ UNCHANGED <<pc, mishaps>>
        /\ kernel'.supervised = kernel.supervised
    BY <1>1, <1>7 DEF KernelBegins, KernelOnly, Elsewhere, KernelProcess
  <2> QED
    BY <1>1, <2>1 DEF SeenInv, KernelRuns
<1>8. CASE KernelCreatesRun \/ KernelResets \/ KernelSelects \/ KernelAttemptEnds
           \/ KernelEnds \/ KernelDies
  <2>1. UNCHANGED <<pc, mishaps>>
    BY <1>8 DEF KernelCreatesRun, KernelResets, KernelSelects, KernelAttemptEnds,
       KernelEnds, KernelDies, KernelOnly, Elsewhere
  <2>2. \/ kernel' = NoKernel
        \/ /\ KernelRuns /\ kernel'.phase \in {"next", "reset", "busy"}
           /\ kernel'.supervised = kernel.supervised
           /\ kernel'.registered = kernel.registered
    BY <1>1, <1>8 DEF KernelCreatesRun, KernelResets, KernelSelects, KernelAttemptEnds,
       KernelEnds, KernelDies, KernelRuns, KernelProcess
  <2> QED
    BY <1>1, <2>1, <2>2, NoKernelType DEF SeenInv, KernelRuns
<1>9. CASE DecideGate \/ SupplyEvidence \/ FilesDamaged
  <2>1. UNCHANGED <<pc, kernel, mishaps>>
    BY <1>9 DEF DecideGate, SupplyEvidence, FilesDamaged, Outside
  <2> QED
    BY <1>1, <2>1 DEF SeenInv, KernelRuns
<1>10. CASE HumanResumes
  <2>1. mishaps' \cap Unseen # {} /\ kernel'.phase = "ready"
    BY <1>10 DEF HumanResumes, Unseen, NoKernel
  <2> QED
    BY <2>1 DEF SeenInv
<1> QED
  BY <1>2, <1>3, <1>4, <1>5, <1>6, <1>7, <1>8, <1>9, <1>10
     DEF Next, Supervise, KernelWork, Environment

\* A supervisor starts a kernel beside another one only if a human, or an
\* earlier supervisor that died too soon, left one it could not see.
THEOREM KernelsSeen == Spec => []KernelsOverlapOnlyUnseen
<1>1. Init => SInv
  BY InitType, NoKernelType DEF Init, SInv, SeenInv, KernelRuns
<1>2. SInv /\ [Next]_vars => SInv'
  BY SeenStep, NextType DEF SInv
<1>3. SInv => KernelsOverlapOnlyUnseen
  BY DEF SInv, SeenInv, KernelsOverlapOnlyUnseen
<1> QED
  BY <1>1, <1>2, <1>3, PTL DEF Spec

-----------------------------------------------------------------------------
(* Rejected gates *)

\* Where a gate that waits or was rejected keeps the run: waiting, also when the
\* rejection got no further than its record, or escalated.
Held(i) ==
  /\ current_item_id = i
  /\ \/ current_state = "ST110" /\ rows[i].terminal_state = "awaiting_human_gate"
     \/ /\ rows[i].gate = "rejected"
        /\ current_state = "ST140" /\ rows[i].terminal_state = "escalated"

\* Such a gate holds the run: no kernel is about, and what the supervisor
\* decided before it knew is not a resume.
GateInv ==
  mishaps \cap Unseen = {} =>
    /\ kernel.phase = "busy" => current_item_id = kernel.item
    /\ \A i \in Items :
         rows[i].gate \in {"pending", "rejected"} =>
           /\ ~KernelRuns /\ Held(i)
           /\ pc = "act" => decision.action \notin Resumes

\* classify_recovery waits for a gate and parks a rejection.
LEMMA HeldDecision ==
  ASSUME TypeOK, NEW i \in Items, Held(i)
  PROVE  RecoveryDecision.action \notin Resumes
<1>1. Focus = i /\ item_state = rows[i] /\ i # None
  BY SupervisionAssumption DEF Held, Focus, item_state, None, Items
<1>2. RecoveryDecision.action = RecoveryAction
  BY <1>1 DEF RecoveryDecision
<1>3. ~AfterManualGate
  BY DEF Held, AfterManualGate
<1>4. CASE current_state = "ST110"
  <2>1. RecoveryAction = "wait_manual_gate"
    BY <1>1, <1>3, <1>4 DEF RecoveryAction, In
  <2> QED
    BY <1>2, <2>1 DEF Resumes
<1>5. CASE rows[i].gate = "rejected" /\ current_state = "ST140"
           /\ rows[i].terminal_state = "escalated"
  <2>1. ~In("ST110", "awaiting_human_gate") /\ ~In("ST120", "blocked_external")
        /\ ~PendingRepair
    BY <1>1, <1>5 DEF Held, In, PendingRepair, Stopped, Unfinished
  <2>2. RecoveryAction = EscalatedAction
    BY <1>1, <1>3, <1>5, <2>1 DEF RecoveryAction, In
  <2>3. EscalatedAction = "park"
    BY <1>1, <1>5 DEF EscalatedAction
  <2> QED
    BY <1>2, <2>2, <2>3 DEF Resumes
<1> QED
  BY <1>4, <1>5 DEF Held

LEMMA GateStep == SInv /\ GateInv /\ [Next]_vars => GateInv'
<1> SUFFICES ASSUME SInv, GateInv, [Next]_vars, mishaps' \cap Unseen = {}
             PROVE  /\ kernel'.phase = "busy" => current_item_id' = kernel'.item
                    /\ \A i \in Items :
                         rows'[i].gate \in {"pending", "rejected"} =>
                           /\ kernel'.phase = "none" /\ Held(i)'
                           /\ pc' = "act" => decision'.action \notin Resumes
  BY DEF GateInv, KernelRuns
<1> USE DEF run, supervisor, history, KernelFiles, Goto, Begin
<1>1. /\ TypeOK /\ SeenInv /\ kernel \in KernelProcess /\ rows \in [Items -> Row]
  BY DEF SInv, TypeOK
<1>2. mishaps \cap Unseen = {}
  <2>1. mishaps \subseteq mishaps'
    BY DEF Next, SuperviseRun, SuperviseResume, Supervise, Classify, Finish, Park, Wait,
       Poll, Repair, SpawnResume, SpawnKernel, RecordResume, MonitorEnds, Die, KernelWork,
       KernelBegins, KernelCreatesRun, KernelEnds, KernelResets, KernelSelects,
       KernelAttemptEnds, KernelDies, Environment, DecideGate, SupplyEvidence,
       HumanResumes, FilesDamaged, vars
  <2> QED
    BY <2>1
<1>3. /\ kernel.phase = "busy" => current_item_id = kernel.item
      /\ \A i \in Items :
           rows[i].gate \in {"pending", "rejected"} =>
             /\ kernel.phase = "none" /\ Held(i)
             /\ pc = "act" => decision.action \notin Resumes
  BY <1>2 DEF GateInv, KernelRuns
<1>4. kernel.phase # "none" => pc \in {"record", "monitor", "off"}
  BY <1>1, <1>2 DEF SeenInv, KernelRuns
<1>5. CASE UNCHANGED vars
  BY <1>3, <1>5 DEF vars, Held
<1>6. CASE SuperviseRun \/ SpawnResume
  <2>1. UNCHANGED run /\ \A i \in Items : rows[i].gate \notin {"pending", "rejected"}
    BY <1>3, <1>6 DEF SuperviseRun, SpawnResume, Held
  <2>2. PICK e : SpawnKernel(e)
    BY <1>6 DEF SuperviseRun, SpawnResume
  <2>3. kernel' = kernel \/ kernel'.phase = "starting"
    BY <2>2 DEF SpawnKernel, NoKernel
  <2> QED
    BY <1>3, <2>1, <2>3 DEF Held
<1>7. CASE \/ SuperviseResume \/ Finish \/ Park \/ Wait \/ Poll \/ Repair
           \/ RecordResume \/ MonitorEnds \/ Die
  <2>1. UNCHANGED <<run, kernel>> /\ pc' # "act"
    BY <1>7 DEF SuperviseResume, Finish, Park, Wait, Poll, Repair, RecordResume,
       MonitorEnds, Die
  <2> QED
    BY <1>3, <2>1 DEF Held
<1>8. CASE Classify
  <2>1. UNCHANGED <<run, kernel>> /\ (pc' = "act" => decision' = RecoveryDecision)
    BY <1>8 DEF Classify
  <2> QED
    BY <1>1, <1>3, <2>1, HeldDecision DEF Held
<1>9. CASE KernelBegins \/ KernelCreatesRun \/ KernelEnds \/ KernelResets \/ KernelDies
  <2>1. kernel.phase # "none" /\ \A j \in Items : rows'[j].gate = rows[j].gate
    <3>1. CASE KernelDies
      <4>1. PICK state \in RunStates \ {"none", "ST05"},
                 reported, scope_failed \in BOOLEAN :
              rows' = [rows EXCEPT
                ![kernel.item].reports = IF reported THEN attempts ELSE @,
                ![kernel.item].scope_failed = scope_failed]
        BY <3>1 DEF KernelDies
      <4> QED
        BY <1>1, <3>1, <4>1 DEF KernelDies, Row
    <3> QED
      BY <1>9, <3>1 DEF KernelBegins, KernelCreatesRun, KernelEnds, KernelResets
  <2>2. kernel'.phase # "busy"
    <3>1. CASE KernelEnds \/ KernelDies
      BY <3>1, NoKernelType DEF KernelEnds, KernelDies
    <3>2. CASE KernelBegins
      BY <1>1, <3>2 DEF KernelBegins, KernelProcess
    <3>3. CASE KernelCreatesRun
      BY <1>1, <3>3 DEF KernelCreatesRun, KernelProcess
    <3>4. CASE KernelResets
      <4>1. PICK i \in Items : kernel' = [kernel EXCEPT !.phase = "reset", !.item = i]
        BY <3>4 DEF KernelResets
      <4> QED
        BY <1>1, <4>1 DEF KernelProcess
    <3> QED
      BY <1>9, <3>1, <3>2, <3>3, <3>4
  <2> QED
    BY <1>3, <2>1, <2>2
<1>10. CASE KernelSelects
  <2>1. PICK i \in Items :
          /\ kernel' = [kernel EXCEPT !.phase = "busy", !.item = i]
          /\ current_item_id' = i
          /\ rows' = [rows EXCEPT ![i].terminal_state = "none"]
          /\ kernel.phase # "none"
    BY <1>10 DEF KernelSelects
  <2>2. kernel'.item = i
    BY <1>1, <2>1 DEF KernelProcess
  <2>3. \A j \in Items : rows'[j].gate = rows[j].gate
    BY <1>1, <2>1 DEF Row
  <2> QED
    BY <1>3, <2>1, <2>2, <2>3
<1>11. CASE KernelAttemptEnds
  <2>1. PICK outcome \in TerminalNames \ {"none"},
             reported, scope_failed, refused \in BOOLEAN :
          /\ current_state' = StateOf(outcome)
          /\ rows' = [rows EXCEPT ![kernel.item] =
               [terminal_state |-> outcome,
                gate |-> IF outcome = "awaiting_human_gate" /\ ~refused
                         THEN "pending" ELSE @.gate,
                reports |-> IF reported THEN attempts ELSE @.reports,
                scope_failed |-> scope_failed]]
          /\ \/ kernel' = NoKernel
             \/ /\ outcome = "passed"
                /\ kernel' = [kernel EXCEPT !.phase = "next", !.evidence = 0]
    BY <1>11 DEF KernelAttemptEnds
  <2>2. kernel.phase = "busy" /\ UNCHANGED <<current_item_id, pc>>
    BY <1>11 DEF KernelAttemptEnds, KernelOnly, Elsewhere
  <2>3. \A j \in Items : rows[j].gate \notin {"pending", "rejected"}
    BY <1>3, <2>2
  <2>4. kernel'.phase # "busy" /\ (outcome # "passed" => kernel'.phase = "none")
    <3>1. CASE kernel' = NoKernel
      BY <3>1, NoKernelType
    <3>2. CASE /\ outcome = "passed"
               /\ kernel' = [kernel EXCEPT !.phase = "next", !.evidence = 0]
      BY <1>1, <3>2 DEF KernelProcess
    <3> QED
      BY <2>1, <3>1, <3>2
  <2>5. ASSUME NEW j \in Items, rows'[j].gate \in {"pending", "rejected"}
        PROVE  /\ j = kernel.item /\ outcome = "awaiting_human_gate"
               /\ rows'[j].gate = "pending" /\ rows'[j].terminal_state = outcome
    <3>1. j # kernel.item => rows'[j] = rows[j]
      BY <1>1, <2>1
    <3>2. j = kernel.item =>
            /\ rows'[j].terminal_state = outcome
            /\ rows'[j].gate = IF outcome = "awaiting_human_gate" /\ ~refused
                               THEN "pending" ELSE rows[j].gate
      BY <1>1, <2>1
    <3> QED
      BY <2>3, <2>5, <3>1, <3>2
  <2>6. outcome = "awaiting_human_gate" => current_state' = "ST110"
    BY <2>1 DEF StateOf
  <2>7. pc' # "act"
    BY <1>4, <2>2
  <2> QED
    BY <1>3, <2>2, <2>4, <2>5, <2>6, <2>7 DEF Held
<1>12. CASE DecideGate
  <2>1. PICK i \in Items, approve, saved \in BOOLEAN :
          /\ rows[i].gate = "pending"
          /\ rows' = [rows EXCEPT
               ![i].gate = IF approve THEN "approved" ELSE "rejected",
               ![i].terminal_state =
                 IF saved THEN IF approve THEN "passed" ELSE "escalated" ELSE @]
          /\ current_item_id' = IF saved THEN i ELSE current_item_id
          /\ current_state' = IF saved THEN IF approve THEN "ST130" ELSE "ST140"
                              ELSE current_state
    BY <1>12 DEF DecideGate, StateOf
  <2>2. UNCHANGED <<kernel, pc, decision>>
    BY <1>12 DEF DecideGate, Outside
  <2>3. /\ rows'[i].terminal_state = IF saved THEN IF approve THEN "passed" ELSE "escalated"
                                     ELSE rows[i].terminal_state
        /\ rows'[i].gate = IF approve THEN "approved" ELSE "rejected"
        /\ \A j \in Items : j # i => rows'[j] = rows[j]
    BY <1>1, <2>1 DEF Row
  <2>4. /\ kernel.phase = "none" /\ (pc = "act" => decision.action \notin Resumes)
        /\ Held(i)
    BY <1>3, <2>1
  <2>5. \A j \in Items : j # i => rows[j].gate \notin {"pending", "rejected"}
    BY <1>3, <2>1 DEF Held
  <2>6. \A j \in Items : rows'[j].gate \in {"pending", "rejected"} => j = i /\ ~approve
    BY <2>3, <2>5
  <2>7. ~approve => Held(i)'
    BY <2>1, <2>3, <2>4 DEF Held
  <2> QED
    BY <2>2, <2>4, <2>6, <2>7
<1>13. CASE SupplyEvidence \/ FilesDamaged
  <2>1. UNCHANGED <<run, kernel, pc, decision>>
    BY <1>13 DEF SupplyEvidence, FilesDamaged, Outside
  <2> QED
    BY <1>3, <2>1 DEF Held
<1>14. CASE HumanResumes
  <2>1. mishaps' \cap Unseen # {}
    BY <1>14 DEF HumanResumes, Unseen
  <2> QED
    BY <2>1
<1> QED
  BY <1>5, <1>6, <1>7, <1>8, <1>9, <1>10, <1>11, <1>12, <1>13, <1>14
     DEF Next, Supervise, KernelWork, Environment

\* A rejection stands: an item whose gate was rejected is not attempted again,
\* unless a human, or a kernel no supervisor could see, does it.
THEOREM RejectionKept == Spec => RejectionHolds
<1>1. Init => SInv /\ GateInv
  <2>1. Init => GateInv
    BY DEF Init, GateInv, NoKernel
  <2> QED
    BY <2>1, InitType, NoKernelType DEF Init, SInv, SeenInv, KernelRuns
<1>2. SInv /\ GateInv /\ [Next]_vars => (SInv /\ GateInv)'
  BY SeenStep, GateStep, NextType DEF SInv
<1>3. SInv /\ GateInv /\ [Next]_vars =>
        [\A i \in Items : rows[i].gate = "rejected" /\ Attempted(i)
                            => mishaps \cap Unseen # {}]_vars
  <2> SUFFICES ASSUME GateInv, Next, NEW i \in Items, rows[i].gate = "rejected",
                      Attempted(i), mishaps \cap Unseen = {}
               PROVE  FALSE
    OBVIOUS
  <2>1. kernel.phase = "none"
    BY DEF GateInv, KernelRuns
  <2>2. kernel'.phase = "busy" /\ kernel.phase # "busy"
    BY DEF Attempted
  <2>3. ~KernelWork
    BY <2>1 DEF KernelWork, KernelBegins, KernelCreatesRun, KernelEnds, KernelResets,
       KernelSelects, KernelAttemptEnds, KernelDies
  <2>4. ~SuperviseRun /\ ~SpawnResume /\ ~HumanResumes
    BY <2>1, <2>2 DEF SuperviseRun, SpawnResume, SpawnKernel, HumanResumes, NoKernel
  <2> QED
    BY <2>2, <2>3, <2>4
    DEF Next, SuperviseResume, Supervise, Classify, Finish, Park, Wait, Poll, Repair,
        RecordResume, MonitorEnds, Die, Environment, DecideGate, SupplyEvidence,
        FilesDamaged
<1> QED
  BY <1>1, <1>2, <1>3, PTL DEF Spec, RejectionHolds

-----------------------------------------------------------------------------
(* The outline *)

\* An attempt is about the current item; a gate that waits is the current item's
\* and no kernel has got beyond looking at the run; a reset is for an item that
\* did not pass.
OutlineInv ==
  /\ kernel.phase = "busy" => kernel.item \in Items /\ current_item_id = kernel.item
  /\ kernel.phase = "reset" =>
       kernel.item \in Items /\ rows[kernel.item].terminal_state # "passed"
  /\ \A i \in Items :
       rows[i].gate = "pending" =>
         /\ kernel.phase \notin {"reset", "next", "busy"}
         /\ current_state = "ST110" /\ current_item_id = i
         /\ rows[i].terminal_state = "awaiting_human_gate"

\* The steps of supervisors, and of a kernel that only begins or ends, are not
\* seen in the outline.
LEMMA Unseeing ==
  ASSUME TypeOK, OutlineInv, UNCHANGED run,
         \/ UNCHANGED kernel
         \/ /\ kernel.phase # "busy"
            /\ kernel'.phase \in {"none", "starting", "ready"}
  PROVE  OutlineInv' /\ UNCHANGED Outline!vars
BY DEF OutlineInv, Outline!vars, run

LEMMA SupervisorOutline ==
  ASSUME TypeOK, OutlineInv, SuperviseRun \/ SuperviseResume \/ Supervise \/ Die
  PROVE  OutlineInv' /\ UNCHANGED Outline!vars
<1> USE DEF KernelFiles, Goto, Begin
<1>1. CASE SuperviseRun \/ SpawnResume
  <2>1. UNCHANGED run /\ \E e : SpawnKernel(e)
    BY <1>1 DEF SuperviseRun, SpawnResume
  <2>2. UNCHANGED kernel \/ (~KernelRuns /\ kernel'.phase = "starting")
    BY <2>1 DEF SpawnKernel, NoKernel
  <2> QED
    BY <2>1, <2>2, Unseeing DEF KernelRuns
<1>2. CASE \/ SuperviseResume \/ Classify \/ Finish \/ Park \/ Wait \/ Poll \/ Repair
           \/ RecordResume \/ MonitorEnds \/ Die
  <2>1. UNCHANGED run /\ UNCHANGED kernel
    BY <1>2 DEF SuperviseResume, Classify, Finish, Park, Wait, Poll, Repair, RecordResume,
       MonitorEnds, Die
  <2> QED
    BY <2>1, Unseeing
<1> QED
  BY <1>1, <1>2 DEF Supervise

LEMMA KernelOutline ==
  ASSUME TypeOK, OutlineInv, KernelWork
  PROVE  OutlineInv' /\ [Outline!Next]_(Outline!vars)
<1>1. /\ kernel \in KernelProcess /\ rows \in [Items -> Row]
      /\ current_item_id \in Items \cup {None}
  BY DEF TypeOK
<1>2. CASE KernelBegins \/ KernelEnds
  <2>1. UNCHANGED run /\ kernel.phase # "busy" /\ kernel'.phase \in {"none", "ready"}
    BY <1>1, <1>2, NoKernelType DEF KernelBegins, KernelEnds, KernelProcess
  <2> QED
    BY <2>1, Unseeing
<1>3. CASE KernelCreatesRun
  <2>1. /\ kernel.phase = "ready" /\ kernel'.phase = "next"
        /\ current_state = "none" /\ current_state' = "ST05"
        /\ UNCHANGED <<current_item_id, rows>>
    BY <1>1, <1>3 DEF KernelCreatesRun, KernelProcess
  <2>2. OutlineInv'
    BY <2>1 DEF OutlineInv
  <2>3. Outline!Create
    BY <2>1 DEF Outline!Create
  <2> QED
    BY <2>2, <2>3 DEF Outline!Next
<1>4. CASE KernelResets
  <2>1. PICK i \in Items :
          /\ ResumeTarget(i)
          /\ rows[i].terminal_state \in {"escalated", "blocked_external"}
          /\ kernel' = [kernel EXCEPT !.phase = "reset", !.item = i]
    BY <1>4 DEF KernelResets
  <2>2. /\ kernel.phase = "ready" /\ current_state \notin {"none", "ST110"}
        /\ current_state' = "ST05" /\ current_item_id' = None /\ UNCHANGED rows
    BY <1>4 DEF KernelResets
  <2>3. kernel'.phase = "reset" /\ kernel'.item = i
    BY <1>1, <2>1 DEF KernelProcess
  <2>4. OutlineInv'
    BY <2>1, <2>2, <2>3 DEF OutlineInv
  <2>5. Outline!Target(i)
    BY <1>1, <2>1 DEF Outline!Target, ResumeTarget, FirstUnfinished, None, Items, Outline!Items
  <2>6. Outline!Reset
    BY <2>1, <2>2, <2>3, <2>5 DEF Outline!Reset, None, Items, Outline!Items
  <2> QED
    BY <2>4, <2>6 DEF Outline!Next
<1>5. CASE KernelSelects
  <2>1. PICK i \in Items :
          /\ \/ kernel.phase = "reset" /\ i = kernel.item
             \/ kernel.phase = "next" /\ rows[i].terminal_state # "passed"
             \/ kernel.phase = "ready" /\ ResumeTarget(i)
          /\ kernel' = [kernel EXCEPT !.phase = "busy", !.item = i]
          /\ current_item_id' = i
          /\ rows' = [rows EXCEPT ![i].terminal_state = "none"]
    BY <1>5 DEF KernelSelects
  <2>2. current_state \in {"ST05", "ST130"} /\ current_state' = "inside"
    BY <1>5 DEF KernelSelects
  <2>3. kernel'.phase = "busy" /\ kernel'.item = i
    BY <1>1, <2>1 DEF KernelProcess
  <2>4. /\ \A j \in Items : rows'[j].gate = rows[j].gate
        /\ \A j \in Items : rows'[j].terminal_state =
                              IF j = i THEN "none" ELSE rows[j].terminal_state
    BY <1>1, <2>1 DEF Row
  <2>5. rows[i].terminal_state # "passed"
    BY <2>1, <2>2 DEF OutlineInv, ResumeTarget, FirstUnfinished
  <2>6. OutlineInv'
    BY <2>1, <2>2, <2>3, <2>4 DEF OutlineInv
  <2>7. Outline!Select(i)
    BY <2>1, <2>2, <2>3, <2>4, <2>5 DEF Outline!Select
  <2> QED
    BY <2>6, <2>7 DEF Outline!Next, Items, Outline!Items
<1>6. CASE KernelAttemptEnds
  <2>1. PICK outcome \in TerminalNames \ {"none"},
             reported, scope_failed, refused \in BOOLEAN :
          /\ refused => outcome = "awaiting_human_gate" /\ rows[kernel.item].gate = "none"
          /\ current_state' = StateOf(outcome)
          /\ rows' = [rows EXCEPT ![kernel.item] =
               [terminal_state |-> outcome,
                gate |-> IF outcome = "awaiting_human_gate" /\ ~refused
                         THEN "pending" ELSE @.gate,
                reports |-> IF reported THEN attempts ELSE @.reports,
                scope_failed |-> scope_failed]]
          /\ \/ kernel' = NoKernel
             \/ /\ outcome = "passed"
                /\ kernel' = [kernel EXCEPT !.phase = "next", !.evidence = 0]
    BY <1>6 DEF KernelAttemptEnds
  <2>2. kernel.phase = "busy" /\ UNCHANGED current_item_id
    BY <1>6 DEF KernelAttemptEnds
  <2>3. kernel.item \in Items /\ current_item_id = kernel.item
    BY <2>2 DEF OutlineInv
  <2>4. kernel'.phase \in {"none", "next"} /\ (outcome # "passed" => kernel'.phase = "none")
    <3>1. CASE kernel' = NoKernel
      BY <3>1, NoKernelType
    <3>2. CASE /\ outcome = "passed"
               /\ kernel' = [kernel EXCEPT !.phase = "next", !.evidence = 0]
      BY <1>1, <3>2 DEF KernelProcess
    <3> QED
      BY <2>1, <3>1, <3>2
  <2>5. /\ rows'[kernel.item].terminal_state = outcome
        /\ rows'[kernel.item].gate = IF outcome = "awaiting_human_gate" /\ ~refused
                                     THEN "pending" ELSE rows[kernel.item].gate
        /\ \A j \in Items : j # kernel.item => rows'[j] = rows[j]
    BY <1>1, <2>1, <2>3
  <2>6. \A j \in Items : rows[j].gate # "pending"
    BY <2>2 DEF OutlineInv
  <2>7. OutlineInv'
    <3>1. ASSUME NEW j \in Items, rows'[j].gate = "pending"
          PROVE  j = kernel.item /\ outcome = "awaiting_human_gate"
      BY <2>5, <2>6, <3>1
    <3>2. outcome = "awaiting_human_gate" => current_state' = "ST110"
      BY <2>1 DEF StateOf
    <3> QED
      BY <2>2, <2>3, <2>4, <2>5, <3>1, <3>2 DEF OutlineInv
  <2>8. Outline!Conclude(outcome)
    <3>1. current_state' = Outline!StateOf(outcome)
      BY <2>1 DEF StateOf, Outline!StateOf
    <3> DEFINE gates == [i \in Items |-> rows[i].gate]
               outcomes == [i \in Items |-> rows[i].terminal_state]
    <3>2. outcomes' = [outcomes EXCEPT ![current_item_id] = outcome]
      BY <2>3, <2>5
    <3>3. \/ outcome = "awaiting_human_gate" /\ gates' = [gates EXCEPT ![current_item_id] = "pending"]
          \/ /\ outcome = "awaiting_human_gate" /\ gates[current_item_id] = "none"
             /\ UNCHANGED gates
          \/ outcome # "awaiting_human_gate" /\ UNCHANGED gates
      <4>1. CASE outcome = "awaiting_human_gate" /\ ~refused
        BY <2>3, <2>5, <4>1
      <4>2. CASE refused
        <5>1. \A i \in Items : rows'[i].gate = rows[i].gate
          BY <2>3, <2>5, <4>2
        <5> QED
          BY <2>1, <2>3, <4>2, <5>1
      <4>3. CASE outcome # "awaiting_human_gate"
        <5>1. \A i \in Items : rows'[i].gate = rows[i].gate
          BY <2>3, <2>5, <4>3
        <5> QED
          BY <4>3, <5>1
      <4> QED
        BY <4>1, <4>2, <4>3
    <3> QED
      BY <2>2, <2>4, <3>1, <3>2, <3>3 DEF Outline!Conclude
  <2> QED
    BY <2>7, <2>8 DEF Outline!Next, TerminalNames, Outline!TerminalNames
<1>7. CASE KernelDies
  <2>1. PICK state \in RunStates \ {"none", "ST05"}, reported, scope_failed \in BOOLEAN :
          /\ current_state' = state
          /\ rows' = [rows EXCEPT
               ![kernel.item].reports = IF reported THEN attempts ELSE @,
               ![kernel.item].scope_failed = scope_failed]
    BY <1>7 DEF KernelDies
  <2>2. /\ kernel.phase = "busy" /\ kernel'.phase = "none" /\ UNCHANGED current_item_id
    BY <1>7, NoKernelType DEF KernelDies
  <2>3. \A j \in Items : /\ rows'[j].gate = rows[j].gate
                         /\ rows'[j].terminal_state = rows[j].terminal_state
    BY <1>1, <2>1 DEF Row
  <2>4. OutlineInv'
    BY <2>2, <2>3 DEF OutlineInv
  <2>5. Outline!Break
    BY <2>1, <2>2, <2>3 DEF Outline!Break, RunStates
  <2> QED
    BY <2>4, <2>5 DEF Outline!Next
<1> QED
  BY <1>2, <1>3, <1>4, <1>5, <1>6, <1>7 DEF KernelWork

LEMMA EnvironmentOutline ==
  ASSUME TypeOK, OutlineInv, Environment
  PROVE  OutlineInv' /\ [Outline!Next]_(Outline!vars)
<1>1. rows \in [Items -> Row]
  BY DEF TypeOK
<1>2. CASE SupplyEvidence \/ FilesDamaged
  <2>1. UNCHANGED run /\ UNCHANGED kernel
    BY <1>2 DEF SupplyEvidence, FilesDamaged
  <2> QED
    BY <2>1, Unseeing
<1>3. CASE HumanResumes
  <2>1. UNCHANGED run /\ kernel.phase # "busy" /\ kernel'.phase = "ready"
    BY <1>3 DEF HumanResumes, KernelRuns, NoKernel
  <2> QED
    BY <2>1, Unseeing
<1>4. CASE DecideGate
  <2>1. PICK i \in Items, approve, saved \in BOOLEAN :
          /\ rows[i].gate = "pending"
          /\ rows' = [rows EXCEPT
               ![i].gate = IF approve THEN "approved" ELSE "rejected",
               ![i].terminal_state =
                 IF saved THEN IF approve THEN "passed" ELSE "escalated" ELSE @]
          /\ current_item_id' = IF saved THEN i ELSE current_item_id
          /\ current_state' = IF saved THEN IF approve THEN "ST130" ELSE "ST140"
                              ELSE current_state
    BY <1>4 DEF DecideGate, StateOf
  <2> DEFINE verdict == IF approve THEN "approved" ELSE "rejected"
             o == IF approve THEN "passed" ELSE "escalated"
             gates == [j \in Items |-> rows[j].gate]
             outcomes == [j \in Items |-> rows[j].terminal_state]
  <2>2. /\ kernel.phase \notin {"reset", "next", "busy"} /\ UNCHANGED kernel
        /\ current_state = "ST110" /\ current_item_id = i /\ current_item_id' = i
        /\ rows[i].terminal_state = "awaiting_human_gate"
    BY <1>4, <2>1 DEF DecideGate, OutlineInv
  <2>3. /\ rows'[i].terminal_state = IF saved THEN o ELSE rows[i].terminal_state
        /\ rows'[i].gate = verdict
        /\ \A j \in Items : j # i => rows'[j] = rows[j]
    BY <1>1, <2>1 DEF Row
  <2>4. OutlineInv'
    <3>1. \A j \in Items : rows'[j].gate # "pending"
      <4>1. \A j \in Items : j # i => rows[j].gate # "pending"
        BY <2>2 DEF OutlineInv
      <4> QED
        BY <2>3, <4>1
    <3> QED
      BY <2>2, <3>1 DEF OutlineInv
  <2>5. gates' = [gates EXCEPT ![i] = verdict]
    <3> HIDE DEF verdict
    <3> QED
      BY <2>3
  <2>6. CASE saved
    <3>1. outcomes' = [outcomes EXCEPT ![i] = o]
      <4> HIDE DEF o
      <4> QED
        BY <2>3, <2>6
    <3>2. current_state' = Outline!StateOf(o)
      BY <2>1, <2>6 DEF Outline!StateOf
    <3>3. o = IF verdict = "approved" THEN "passed" ELSE "escalated"
      OBVIOUS
    <3>4. Outline!Decide(i, verdict)
      <4> HIDE DEF o, verdict
      <4> QED
        BY <2>1, <2>2, <2>5, <3>1, <3>2, <3>3 DEF Outline!Decide
    <3> QED
      BY <2>4, <3>4 DEF Outline!Next, Items, Outline!Items
  <2>7. CASE ~saved
    <3>1. UNCHANGED outcomes
      <4>1. \A j \in Items : rows'[j].terminal_state = rows[j].terminal_state
        BY <2>3, <2>7
      <4> QED
        BY <4>1
    <3>2. Outline!Decide(i, verdict)
      <4> HIDE DEF verdict
      <4> QED
        BY <2>1, <2>2, <2>5, <2>7, <3>1 DEF Outline!Decide
    <3> QED
      BY <2>4, <3>2 DEF Outline!Next, Items, Outline!Items
  <2> QED
    BY <2>6, <2>7
<1> QED
  BY <1>2, <1>3, <1>4 DEF Environment

\* What supervisors see of a run they share with kernels and humans is a
\* behaviour of the outline, of which Kernel proves the same from the inside.
THEOREM SupervisionKeepsOutline == Spec => OutlineRefined
<1>1. Init => TypeOK /\ DecisionInv /\ OutlineInv
  <2>1. Init => OutlineInv
    BY DEF Init, OutlineInv, NoKernel
  <2> QED
    BY <2>1, InitType
<1>2. Init => Outline!Init
  BY DEF Init, Outline!Init, NoKernel, None, Items, Outline!Items
<1>3. /\ TypeOK /\ DecisionInv /\ OutlineInv /\ [Next]_vars
      => OutlineInv' /\ [Outline!Next]_(Outline!vars)
  <2> SUFFICES ASSUME TypeOK, OutlineInv, [Next]_vars
               PROVE  OutlineInv' /\ [Outline!Next]_(Outline!vars)
    OBVIOUS
  <2>1. CASE UNCHANGED vars
    BY <2>1, Unseeing DEF vars
  <2>2. CASE Next
    BY <2>2, SupervisorOutline, KernelOutline, EnvironmentOutline DEF Next
  <2> QED
    BY <2>1, <2>2
<1>4. TypeOK /\ DecisionInv /\ [Next]_vars => (TypeOK /\ DecisionInv)'
  BY NextType
<1> QED
  BY <1>1, <1>2, <1>3, <1>4, PTL DEF Spec, OutlineRefined, Outline!Spec

=============================================================================
