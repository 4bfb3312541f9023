----------------------------- MODULE ReviewProofs -----------------------------
(***************************************************************************)
(* Proofs about Review, for any findings, commands and artifact checks, any *)
(* round budgets, with or without a gate.  The invariant ties what the       *)
(* packet says of the mutation report to its findings, and the report that   *)
(* is acted on to the packet and to triage's answer.                          *)
(***************************************************************************)
EXTENDS Review, TLAPS

\* The attempt has ended without being escalated.
Ended == {"passed", "awaiting_human_gate", "blocked_external"}

\* Each stop of the mutation report is a finding of the packet, and its findings
\* are these.
PacketInv ==
  /\ \A s \in packet.control : \E f \in packet.merged_findings :
       f.id = <<"mutation", s>> /\ "mutation_report" \in f.sources
  /\ \A f \in packet.merged_findings :
       "mutation_report" \in f.sources =>
         \E s \in packet.control : f.id = <<"mutation", s>>

\* What is acted on is what the hand-off made of the answer, and the phase tells
\* the decision.
DecisionInv ==
  /\ phase = "handoff" => answer.overall_decision \in Decisions
  /\ phase \in {"decide"} \cup Ended => report = Handoff(packet, answer)
  /\ phase = "passed" => report.overall_decision = "pass"
  /\ phase = "awaiting_human_gate" =>
       report.overall_decision \in {"pass", "awaiting_human_gate"}

MergeInv ==
  phase = "triage" =>
    packet.merged_findings = Merged(Candidates(mutation, verification, codex, claude))

IInv == TypeOK /\ PacketInv /\ DecisionInv /\ MergeInv

-----------------------------------------------------------------------------
(* merge_findings and _preserve_mutation_control_handoff *)

\* Every candidate is in the merged findings, with its source and its blocking.
LEMMA MergedKeeps ==
  ASSUME NEW candidates, NEW c \in candidates
  PROVE  \E f \in Merged(candidates) :
           /\ f.id = c.id /\ c.source \in f.sources
           /\ c.is_blocking => f.is_blocking
<1> DEFINE f == [id |-> c.id,
                 sources |-> {d.source : d \in {e \in candidates : e.id = c.id}},
                 is_blocking |-> \E d \in candidates : d.id = c.id /\ d.is_blocking]
<1>1. f \in Merged(candidates)
  BY DEF Merged
<1>2. f.id = c.id /\ c.source \in f.sources /\ (c.is_blocking => f.is_blocking)
  OBVIOUS
<1> QED
  BY <1>1, <1>2

\* A merged finding has only the sources of the candidates of its id.
LEMMA MergedFrom ==
  ASSUME NEW candidates, NEW f \in Merged(candidates)
  PROVE  /\ \E c \in candidates : c.id = f.id
         /\ \A s \in f.sources : \E c \in candidates : c.id = f.id /\ c.source = s
         /\ f = [id |-> f.id, sources |-> f.sources, is_blocking |-> f.is_blocking]
         /\ f.is_blocking \in BOOLEAN
<1>1. PICK i \in {c.id : c \in candidates} :
        f = [id |-> i,
             sources |-> {c.source : c \in {d \in candidates : d.id = i}},
             is_blocking |-> \E c \in candidates : c.id = i /\ c.is_blocking]
  BY DEF Merged
<1> QED
  BY <1>1

\* The candidates of a round are of the packet's types, and those of the mutation
\* report are its signals.
LEMMA CandidateTypes ==
  ASSUME NEW m, NEW v, NEW a1 \in SUBSET AuditFinding, NEW a2 \in SUBSET AuditFinding,
         v \in VerificationReport,
         NEW c \in Candidates(m, v, a1, a2)
  PROVE  /\ c.id \in Ids /\ c.source \in SourceTypes
         /\ c.source = "mutation_report" => \E s \in SignalsOf(m) : c.id = <<"mutation", s>>
<1>1. CASE c \in AuditCandidates("codex_audit", a1)
  BY <1>1 DEF AuditCandidates, AuditFinding, Ids, SourceTypes, Lanes
<1>2. CASE c \in AuditCandidates("claude_audit", a2)
  BY <1>2 DEF AuditCandidates, AuditFinding, Ids, SourceTypes, Lanes
<1>3. CASE c \in MutationCandidates(m)
  BY <1>3 DEF MutationCandidates, SignalsOf, Ids, SourceTypes
<1>4. CASE c \in VerificationCandidates(v)
  BY <1>4 DEF VerificationCandidates, VerificationReport, Ids, SourceTypes
<1> QED
  BY <1>1, <1>2, <1>3, <1>4 DEF Candidates

\* A signal that the packet names and triage does not suppress counts.
LEMMA RaisedIsActive ==
  ASSUME PacketInv, NEW s, Raised(s)
  PROVE  s \in ActiveSignals(packet, answer)
<1>1. PICK f \in packet.merged_findings :
        f.id = <<"mutation", s>> /\ "mutation_report" \in f.sources
  BY DEF PacketInv, Raised
<1>2. f.id[2] = s
  BY <1>1
<1> QED
  BY <1>1, <1>2 DEF Raised, ActiveSignals, ActiveFindings

\* What the hand-off puts back is an active finding that triage did not report.
LEMMA InjectedFrom ==
  ASSUME NEW p, NEW a, NEW i \in ActionableIds(Injected(p, a))
  PROVE  \E f \in ActiveFindings(p.merged_findings, a) :
           f.id = i /\ i \notin IdsOf(a.merged_findings) /\ Disposition(f) = "actionable"
<1>1. PICK g \in Injected(p, a) : g.actionable /\ g.id = i
  BY DEF ActionableIds, IdsOf
<1>2. PICK f \in ActiveFindings(p.merged_findings, a) :
        /\ f.id \notin IdsOf(a.merged_findings)
        /\ g = [id |-> f.id, actionable |-> Disposition(f) = "actionable",
                repairs |-> FALSE]
  BY DEF Injected
<1> QED
  BY <1>1, <1>2

\* The hand-off keeps the types of the answer, and its decision is one of the
\* schema if the answer's is.
LEMMA HandoffTypes ==
  ASSUME TypeOK
  PROVE  /\ Handoff(packet, answer) \in TriageReport
         /\ answer.overall_decision \in Decisions =>
              Handoff(packet, answer).overall_decision \in Decisions
<1>1. answer \in TriageReport /\ packet.merged_findings \subseteq MergedFinding
  BY DEF TypeOK
<1> DEFINE desired == DesiredDecision(ActiveSignals(packet, answer), answer.overall_decision)
<1>2. /\ desired \in Decisions \cup {"none"}
      /\ answer.overall_decision \in Decisions => desired \in Decisions
  BY <1>1 DEF DesiredDecision, Decisions, TriageReport
<1>3. Injected(packet, answer) \subseteq TriageFinding
  <2> SUFFICES ASSUME NEW f \in ActiveFindings(packet.merged_findings, answer)
               PROVE  [id |-> f.id, actionable |-> Disposition(f) = "actionable",
                       repairs |-> FALSE] \in TriageFinding
    BY DEF Injected
  <2>1. f.id \in Ids
    BY <1>1 DEF ActiveFindings, MergedFinding
  <2>2. (Disposition(f) = "actionable") \in BOOLEAN
    OBVIOUS
  <2> QED
    BY <2>1, <2>2 DEF TriageFinding
<1> HIDE DEF desired
<1>4. /\ Preserved(packet, answer) \in TriageReport
      /\ answer.overall_decision \in Decisions =>
           Preserved(packet, answer).overall_decision \in Decisions
  BY <1>1, <1>2, <1>3 DEF Preserved, TriageReport, Decisions, desired
<1> QED
  BY <1>1, <1>4 DEF Handoff

-----------------------------------------------------------------------------
LEMMA InitInv == Init => IInv
<1> SUFFICES ASSUME Init PROVE IInv
  OBVIOUS
<1>1. mutation \in MutationReport /\ verification \in VerificationReport
  BY DEF Init, NoMutation, NoVerification, MutationReport, VerificationReport, Verdicts,
         NextStates, Results
<1>2. /\ packet \in [control : SUBSET Signals, merged_findings : SUBSET MergedFinding]
      /\ answer \in TriageReport /\ report \in TriageReport
  BY DEF Init, NoPacket, NoAnswer, TriageReport
<1>3. TypeOK
  BY <1>1, <1>2, FindingAssumption DEF Init, TypeOK, Phases
<1> QED
  BY <1>3 DEF Init, IInv, PacketInv, DecisionInv, MergeInv, NoPacket, Ended

\* The stages of a round, up to the packet, leave packet and answer alone.
LEMMA StageStep ==
  IInv /\ (\/ MutationStage \/ Verification \/ AuditCodex \/ RetryClaude \/ AuditClaude
           \/ StageFails) => IInv'
<1> SUFFICES ASSUME IInv, \/ MutationStage \/ Verification \/ AuditCodex \/ RetryClaude
                          \/ AuditClaude \/ StageFails
             PROVE  IInv'
  OBVIOUS
<1>1. TypeOK
  BY DEF IInv
<1>2. /\ UNCHANGED <<fix_rounds_completed, remediation_rounds_completed, packet, answer, report>>
      /\ phase' \in {"verification", "audit_codex", "audit_claude", "merging", "escalated"}
  BY DEF MutationStage, Verification, AuditCodex, RetryClaude, AuditClaude, StageFails,
         Goto, rounds, reports
<1>3. source_finding_ids' \subseteq Ids /\ mutation' \in MutationReport
  BY <1>1, ReportAssumption DEF TypeOK, MutationStage, Verification, AuditCodex, RetryClaude, AuditClaude,
              StageFails, rounds, reports
<1>4. verification' \in VerificationReport
  <2>1. CASE Verification
    <3>1. PICK status \in [Commands -> Statuses], failed_artifacts \in SUBSET Artifacts :
            verification' =
              [failed_commands |-> {c \in Commands : status[c] \in {"fail", "timeout"}},
               failed_artifacts |-> failed_artifacts,
               overall_result |-> OverallResult(status, failed_artifacts)]
      BY <2>1 DEF Verification
    <3>2. OverallResult(status, failed_artifacts) \in Results
      BY DEF OverallResult, Results
    <3> QED
      BY <3>1, <3>2 DEF VerificationReport
  <2>2. CASE ~Verification
    BY <1>1, <2>2 DEF TypeOK, MutationStage, AuditCodex, RetryClaude, AuditClaude,
                      StageFails, reports
  <2> QED
    BY <2>1, <2>2
<1>5. codex' \subseteq AuditFinding /\ claude' \subseteq AuditFinding
  BY <1>1 DEF TypeOK, MutationStage, Verification, AuditCodex, RetryClaude, AuditClaude,
              StageFails, reports
<1>6. effort' \in {"max", "high"}
  BY <1>1, FindingAssumption
     DEF TypeOK, MutationStage, Verification, AuditCodex, RetryClaude, AuditClaude,
         StageFails, reports
<1>7. TypeOK'
  BY <1>1, <1>2, <1>3, <1>4, <1>5, <1>6 DEF TypeOK, Phases
<1>8. PacketInv' /\ DecisionInv' /\ MergeInv'
  BY <1>2 DEF IInv, PacketInv, DecisionInv, MergeInv, Ended
<1> QED
  BY <1>7, <1>8 DEF IInv

\* The packet is what merge_findings makes of the round's reports.
LEMMA WritePacketStep == IInv /\ WritePacket => IInv'
<1> SUFFICES ASSUME IInv, WritePacket PROVE IInv'
  OBVIOUS
<1> DEFINE candidates == Candidates(mutation, verification, codex, claude)
<1>1. TypeOK
  BY DEF IInv
<1>2. /\ UNCHANGED <<rounds, mutation, verification, codex, claude, effort, answer, report>>
      /\ phase' = "triage"
      /\ packet' = [control |-> SignalsOf(mutation), merged_findings |-> Merged(candidates)]
  BY DEF WritePacket, Goto
<1>3. \A c \in candidates :
        /\ c.id \in Ids /\ c.source \in SourceTypes
        /\ c.source = "mutation_report" => \E s \in SignalsOf(mutation) : c.id = <<"mutation", s>>
  BY <1>1, CandidateTypes DEF TypeOK
<1>4. \A s \in SignalsOf(mutation) : \E c \in candidates :
        c.id = <<"mutation", s>> /\ c.source = "mutation_report"
  <2> SUFFICES ASSUME NEW s \in SignalsOf(mutation)
               PROVE  \E c \in candidates :
                        c.id = <<"mutation", s>> /\ c.source = "mutation_report"
    OBVIOUS
  <2> DEFINE c == [id |-> <<"mutation", s>>, source |-> "mutation_report",
                   is_blocking |-> TRUE]
  <2>1. c \in candidates
    BY DEF Candidates, MutationCandidates
  <2> QED
    BY <2>1
<1> HIDE DEF candidates
<1>5. Merged(candidates) \subseteq MergedFinding
  <2> SUFFICES ASSUME NEW f \in Merged(candidates) PROVE f \in MergedFinding
    OBVIOUS
  <2>1. /\ f = [id |-> f.id, sources |-> f.sources, is_blocking |-> f.is_blocking]
        /\ f.is_blocking \in BOOLEAN
        /\ f.id \in Ids /\ f.sources \subseteq SourceTypes
    BY <1>3, MergedFrom
  <2> QED
    BY <2>1 DEF MergedFinding
<1>6. TypeOK'
  <2>1. packet' \in [control : SUBSET Signals, merged_findings : SUBSET MergedFinding]
    BY <1>2, <1>5 DEF SignalsOf
  <2> QED
    BY <1>1, <1>2, <2>1 DEF TypeOK, rounds, Phases
<1>7. PacketInv'
  <2>1. ASSUME NEW s \in SignalsOf(mutation)
        PROVE  \E f \in Merged(candidates) :
                 f.id = <<"mutation", s>> /\ "mutation_report" \in f.sources
    <3>1. PICK c \in candidates : c.id = <<"mutation", s>> /\ c.source = "mutation_report"
      BY <1>4
    <3> QED
      BY <3>1, MergedKeeps
  <2>2. ASSUME NEW f \in Merged(candidates), "mutation_report" \in f.sources
        PROVE  \E s \in SignalsOf(mutation) : f.id = <<"mutation", s>>
    <3>1. PICK c \in candidates : c.id = f.id /\ c.source = "mutation_report"
      BY <2>2, MergedFrom
    <3> QED
      BY <1>3, <3>1
  <2> QED
    BY <1>2, <2>1, <2>2 DEF PacketInv
<1>8. DecisionInv' /\ MergeInv'
  BY <1>2 DEF DecisionInv, MergeInv, Ended, candidates
<1> QED
  BY <1>6, <1>7, <1>8 DEF IInv

LEMMA TriageStep == IInv /\ Triage => IInv'
<1> SUFFICES ASSUME IInv, Triage PROVE IInv'
  OBVIOUS
<1>1. TypeOK
  BY DEF IInv
<1>2. /\ phase' = "handoff" /\ mutation' = NoMutation /\ codex' = {} /\ claude' = {}
      /\ UNCHANGED <<rounds, verification, effort, packet, report>>
  BY DEF Triage, Goto
<1>3. PICK decision \in Decisions, suppressed \in SUBSET packet.control,
        kept \in SUBSET (IdsOf(packet.merged_findings) \cup ({"audit"} \X AuditIds)) :
        \E actionable \in SUBSET kept, repairs \in SUBSET kept :
          answer' = [overall_decision |-> decision,
                     merged_findings |->
                       {[id |-> i, actionable |-> i \in actionable,
                         repairs |-> i \in repairs] : i \in kept},
                     suppressed |-> suppressed]
  BY DEF Triage
<1>4. PICK actionable \in SUBSET kept, repairs \in SUBSET kept :
        answer' = [overall_decision |-> decision,
                   merged_findings |->
                     {[id |-> i, actionable |-> i \in actionable,
                       repairs |-> i \in repairs] : i \in kept},
                   suppressed |-> suppressed]
  BY <1>3
<1>5. kept \subseteq Ids /\ suppressed \subseteq Signals
  <2>1. IdsOf(packet.merged_findings) \subseteq Ids /\ packet.control \subseteq Signals
    BY <1>1 DEF TypeOK, IdsOf, MergedFinding
  <2> QED
    BY <2>1 DEF Ids
<1>6. {[id |-> i, actionable |-> i \in actionable, repairs |-> i \in repairs] : i \in kept}
        \subseteq TriageFinding
  <2> SUFFICES ASSUME NEW i \in kept
               PROVE  [id |-> i, actionable |-> i \in actionable, repairs |-> i \in repairs]
                        \in TriageFinding
    OBVIOUS
  <2>1. (i \in actionable) \in BOOLEAN /\ (i \in repairs) \in BOOLEAN /\ i \in Ids
    BY <1>5
  <2> QED
    BY <2>1 DEF TriageFinding
<1>7. answer' \in TriageReport /\ answer'.overall_decision \in Decisions
  BY <1>4, <1>5, <1>6 DEF TriageReport
<1>8. mutation' \in MutationReport
  BY <1>2 DEF NoMutation, MutationReport, Verdicts, NextStates
<1>9. TypeOK'
  BY <1>1, <1>2, <1>7, <1>8 DEF TypeOK, rounds, Phases
<1>10. PacketInv' /\ DecisionInv' /\ MergeInv'
  BY <1>2, <1>7 DEF IInv, PacketInv, DecisionInv, MergeInv, Ended
<1> QED
  BY <1>9, <1>10 DEF IInv

LEMMA PreserveHandoffStep == IInv /\ PreserveHandoff => IInv'
<1> SUFFICES ASSUME IInv, PreserveHandoff PROVE IInv'
  OBVIOUS
<1>1. TypeOK /\ answer.overall_decision \in Decisions
  BY DEF IInv, DecisionInv, PreserveHandoff, Goto
<1>2. /\ phase' = "decide" /\ report' = Handoff(packet, answer)
      /\ UNCHANGED <<rounds, mutation, verification, codex, claude, effort, packet, answer>>
  BY DEF PreserveHandoff, Goto
<1>3. report' \in TriageReport /\ report'.overall_decision \in Decisions
  BY <1>1, <1>2, HandoffTypes
<1>4. TypeOK'
  BY <1>1, <1>2, <1>3 DEF TypeOK, rounds, Phases
<1>5. Handoff(packet, answer)' = Handoff(packet, answer)
  BY <1>2
<1>6. PacketInv' /\ DecisionInv' /\ MergeInv'
  BY <1>2, <1>5 DEF IInv, PacketInv, DecisionInv, MergeInv, Ended
<1> QED
  BY <1>4, <1>6 DEF IInv

\* EndAttempt: the phase is the decision's.
LEMMA EndAttemptStep == IInv /\ EndAttempt => IInv'
<1> SUFFICES ASSUME IInv, EndAttempt PROVE IInv'
  OBVIOUS
<1>1. TypeOK /\ DecisionInv /\ phase = "decide"
  BY DEF IInv, EndAttempt
<1>2. /\ UNCHANGED <<rounds, reports>> /\ report.overall_decision # "fix_required"
      /\ phase' = Outcome(report.overall_decision)
  BY DEF EndAttempt
<1>3. /\ report.overall_decision \in Decisions
      /\ report = Handoff(packet, answer)
  BY <1>1 DEF TypeOK, DecisionInv
<1>4. /\ phase' \in Ended \cup {"escalated"}
      /\ phase' = "passed" => report.overall_decision = "pass"
      /\ phase' = "awaiting_human_gate" =>
           report.overall_decision \in {"pass", "awaiting_human_gate"}
  BY <1>2, <1>3 DEF Outcome, Decisions, Ended
<1>5. TypeOK'
  BY <1>1, <1>2, <1>4 DEF TypeOK, rounds, reports, Phases, Ended
<1>6. Handoff(packet, answer)' = Handoff(packet, answer)
  BY <1>2 DEF reports
<1>7. PacketInv' /\ DecisionInv' /\ MergeInv'
  BY <1>2, <1>3, <1>4, <1>6 DEF IInv, PacketInv, DecisionInv, MergeInv, reports, Ended
<1> QED
  BY <1>5, <1>7 DEF IInv

\* The next round, and the end of the budget.
LEMMA RoundStep == IInv /\ (StartFix \/ StartRemediation \/ BudgetExhausted) => IInv'
<1> SUFFICES ASSUME IInv, StartFix \/ StartRemediation \/ BudgetExhausted PROVE IInv'
  OBVIOUS
<1>1. TypeOK
  BY DEF IInv
<1>2. ActionableIds(report.merged_findings) \subseteq Ids
  BY <1>1 DEF ActionableIds, IdsOf, TypeOK, TriageReport, TriageFinding
<1>3. CASE StartFix \/ StartRemediation
  <2>1. /\ phase' = "mutation" /\ packet' = NoPacket /\ answer' = NoAnswer
        /\ report' = NoAnswer /\ verification' = NoVerification
        /\ UNCHANGED <<mutation, codex, claude, effort>>
        /\ source_finding_ids' = ActionableIds(report.merged_findings)
    BY <1>3 DEF StartFix, StartRemediation, Goto, ForgetRound
  <2>2. /\ fix_rounds_completed' \in 0..MaxFixRounds
        /\ remediation_rounds_completed' \in 0..MaxRemediationRounds
    BY <1>1, <1>3, FindingAssumption DEF StartFix, StartRemediation, TypeOK
  <2>3. /\ packet' \in [control : SUBSET Signals, merged_findings : SUBSET MergedFinding]
        /\ answer' \in TriageReport /\ report' \in TriageReport
    BY <2>1 DEF NoPacket, NoAnswer, TriageReport
  <2>4. verification' \in VerificationReport
    BY <2>1 DEF NoVerification, VerificationReport, Results
  <2>5. TypeOK'
    BY <1>1, <1>2, <2>1, <2>2, <2>3, <2>4 DEF TypeOK, Phases
  <2>6. PacketInv' /\ DecisionInv' /\ MergeInv'
    BY <2>1 DEF PacketInv, DecisionInv, MergeInv, NoPacket, Ended
  <2> QED
    BY <2>5, <2>6 DEF IInv
<1>4. CASE BudgetExhausted
  <2>1. phase' = "escalated" /\ UNCHANGED <<rounds, reports>>
    BY <1>4 DEF BudgetExhausted, Goto
  <2>2. TypeOK'
    BY <1>1, <2>1 DEF TypeOK, rounds, reports, Phases
  <2>3. PacketInv' /\ DecisionInv' /\ MergeInv'
    BY <2>1 DEF IInv, PacketInv, DecisionInv, MergeInv, reports, Ended
  <2> QED
    BY <2>2, <2>3 DEF IInv
<1> QED
  BY <1>3, <1>4

LEMMA StutterStep == IInv /\ UNCHANGED vars => IInv'
<1> SUFFICES ASSUME IInv, UNCHANGED vars PROVE IInv'
  OBVIOUS
<1>1. TypeOK' /\ PacketInv' /\ MergeInv'
  BY DEF IInv, TypeOK, PacketInv, MergeInv, vars, rounds, reports
<1>2. Handoff(packet, answer)' = Handoff(packet, answer)
  BY DEF vars, reports
<1>3. DecisionInv'
  BY <1>2 DEF IInv, DecisionInv, vars, reports
<1> QED
  BY <1>1, <1>3 DEF IInv

LEMMA NextStep == IInv /\ [Next]_vars => IInv'
  BY StageStep, WritePacketStep, TriageStep, PreserveHandoffStep, EndAttemptStep,
     RoundStep, StutterStep DEF Next

-----------------------------------------------------------------------------
THEOREM Invariance == Spec => []IInv
<1> QED
  BY InitInv, NextStep, PTL DEF Spec

\* The reports keep their shapes and what is acted on is a decision of triage's
\* schema.
THEOREM TypeCorrect == Spec => []TypeOK
<1>1. IInv => TypeOK
  BY DEF IInv
<1> QED
  BY <1>1, Invariance, PTL

\* A finding that any lane calls blocking is blocking in the packet, and every lane
\* that named it is named (merge_findings).
THEOREM BlockingMerged == Spec => []BlockingSurvivesMerge
<1>1. IInv => BlockingSurvivesMerge
  <2> SUFFICES ASSUME IInv, phase = "triage",
                      NEW c \in Candidates(mutation, verification, codex, claude)
               PROVE  \E f \in packet.merged_findings :
                        /\ f.id = c.id /\ c.source \in f.sources
                        /\ c.is_blocking => f.is_blocking
    BY DEF BlockingSurvivesMerge
  <2>1. packet.merged_findings = Merged(Candidates(mutation, verification, codex, claude))
    BY DEF IInv, MergeInv
  <2> QED
    BY <2>1, MergedKeeps
<1> QED
  BY <1>1, Invariance, PTL

\* What a signal that counts does to the decision.
LEMMA StopsDecide ==
  ASSUME IInv, phase \in {"decide"} \cup Ended
  PROVE  LET decision == report.overall_decision
         IN  /\ Raised("blocked_external") => decision = "blocked_external"
             /\ Raised("escalate") => decision \in {"escalate", "blocked_external"}
             /\ Raised("needs_human_input") =>
                  \/ decision \in {"escalate", "blocked_external"}
                  \/ GateRequired
                     /\ decision \in {"awaiting_human_gate", "fix_required"}
             /\ Raised("unresolved_items") => decision # "pass"
<1> DEFINE signals == ActiveSignals(packet, answer)
           desired == DesiredDecision(signals, answer.overall_decision)
<1>1. PacketInv /\ answer \in TriageReport
  BY DEF IInv, TypeOK
<1>2. \A s : Raised(s) => s \in signals
  BY <1>1, RaisedIsActive
<1>3. CASE packet.control = {}
  BY <1>3 DEF Raised
<1>4. CASE packet.control # {}
  <2>1. report = Preserved(packet, answer)
    BY <1>4 DEF IInv, DecisionInv, Handoff
  <2>2. \/ report.overall_decision = desired
        \/ /\ desired \in {"pass", "awaiting_human_gate"}
           /\ report.overall_decision = "fix_required"
    BY <1>1, <2>1 DEF Preserved, TriageReport
  <2>3. /\ "blocked_external" \in signals => desired = "blocked_external"
        /\ "escalate" \in signals => desired \in {"escalate", "blocked_external"}
        /\ "needs_human_input" \in signals =>
             \/ desired \in {"escalate", "blocked_external"}
             \/ GateRequired /\ desired = "awaiting_human_gate"
        /\ "unresolved_items" \in signals => desired # "pass"
    BY DEF DesiredDecision
  <2> HIDE DEF desired, signals
  <2> QED
    BY <1>2, <2>2, <2>3
<1> QED
  BY <1>3, <1>4

\* What triage leaves out or decides otherwise does not undo a stop that it did not
\* suppress by name (_preserve_mutation_control_handoff).
THEOREM StopsStand == Spec => []StopsAreHonoured
<1>1. IInv => StopsAreHonoured
  BY StopsDecide DEF StopsAreHonoured, Ended
<1> QED
  BY <1>1, Invariance, PTL

\* An item whose mutation stage raised anything reaches neither a pass nor its gate
\* over a finding about the repository that triage calls blocking.
THEOREM RepairsFirst == Spec => []RepairsBeforeGate
<1>1. IInv => RepairsBeforeGate
  <2> SUFFICES ASSUME IInv, packet.control # {}, phase \in {"passed", "awaiting_human_gate"}
               PROVE  BlockingRepoContent(answer.merged_findings) = {}
    BY DEF RepairsBeforeGate
  <2>1. report = Preserved(packet, answer) /\ answer \in TriageReport
    BY DEF IInv, TypeOK, DecisionInv, Handoff, Ended
  <2>2. report.overall_decision \in {"pass", "awaiting_human_gate"}
    BY DEF IInv, DecisionInv
  <2>3. BlockingRepoContent(answer.merged_findings \cup Injected(packet, answer)) = {}
    BY <2>1, <2>2 DEF Preserved, TriageReport
  <2> QED
    BY <2>3 DEF BlockingRepoContent
<1> QED
  BY <1>1, Invariance, PTL

\* A fix is told of every finding that triage calls actionable, of open items that
\* triage left out, and of nothing that waits for others.
THEOREM FixCarries == Spec => FixCarriesFindings
<1> DEFINE open_items == <<"mutation", "unresolved_items">>
           Told ==
             source_finding_ids' =
               ActionableIds(answer.merged_findings) \cup
               {i \in {open_items} :
                  Raised("unresolved_items") /\ i \notin IdsOf(answer.merged_findings)}
<1>1. ASSUME IInv, StartFix \/ StartRemediation
      PROVE  Told
  <2>1. /\ source_finding_ids' = ActionableIds(report.merged_findings)
        /\ report.overall_decision = "fix_required" /\ phase = "decide"
    BY <1>1 DEF StartFix, StartRemediation, Goto
  <2>2. report = Handoff(packet, answer) /\ answer \in TriageReport
    BY <1>1, <2>1 DEF IInv, DecisionInv, TypeOK
  <2>3. CASE packet.control = {}
    BY <2>1, <2>2, <2>3 DEF Handoff, Raised
  <2>4. CASE packet.control # {}
    <3>1. report.merged_findings = answer.merged_findings \cup Injected(packet, answer)
      BY <2>2, <2>4 DEF Handoff, Preserved, TriageReport
    <3>2. ActionableIds(report.merged_findings) =
            ActionableIds(answer.merged_findings) \cup ActionableIds(Injected(packet, answer))
      BY <3>1 DEF ActionableIds, IdsOf
    <3>3. ~Raised("escalate")
      BY <1>1, <2>1, StopsDecide
    <3>4. ASSUME NEW i \in ActionableIds(Injected(packet, answer))
          PROVE  /\ i = open_items /\ Raised("unresolved_items")
                 /\ i \notin IdsOf(answer.merged_findings)
      <4>1. PICK f \in packet.merged_findings :
              /\ f \in ActiveFindings(packet.merged_findings, answer)
              /\ f.id = i /\ i \notin IdsOf(answer.merged_findings)
              /\ Disposition(f) = "actionable"
        BY <3>4, InjectedFrom DEF ActiveFindings
      <4>2. PICK s \in packet.control : f.id = <<"mutation", s>>
        BY <1>1, <4>1 DEF IInv, PacketInv, ActiveFindings
      <4>3. f.id[2] = s /\ Raised(s)
        BY <4>1, <4>2 DEF ActiveFindings, Raised
      <4>4. s \in Signals
        BY <1>1, <4>2 DEF IInv, TypeOK
      <4>5. s = "unresolved_items"
        BY <3>3, <4>1, <4>3, <4>4 DEF Disposition, Signals
      <4> QED
        BY <4>1, <4>2, <4>3, <4>5
    <3>5. ASSUME Raised("unresolved_items"), open_items \notin IdsOf(answer.merged_findings)
          PROVE  open_items \in ActionableIds(Injected(packet, answer))
      <4>1. PICK f \in packet.merged_findings :
              f.id = open_items /\ "mutation_report" \in f.sources
        BY <1>1, <3>5 DEF IInv, PacketInv, Raised
      <4>2. f.id[2] = "unresolved_items"
        BY <4>1
      <4>3. f \in ActiveFindings(packet.merged_findings, answer)
        BY <3>5, <4>1, <4>2 DEF ActiveFindings, Raised
      <4>4. Disposition(f) = "actionable"
        BY <4>2 DEF Disposition
      <4> DEFINE g == [id |-> f.id, actionable |-> Disposition(f) = "actionable",
                       repairs |-> FALSE]
      <4>5. g \in Injected(packet, answer)
        BY <3>5, <4>1, <4>3 DEF Injected
      <4>6. g.id = open_items /\ g.actionable
        BY <4>1, <4>4
      <4> QED
        BY <4>5, <4>6 DEF ActionableIds, IdsOf
    <3> QED
      BY <2>1, <3>2, <3>4, <3>5
  <2> QED
    BY <2>3, <2>4
<1>2. IInv /\ [Next]_vars => [StartFix \/ StartRemediation => Told]_vars
  BY <1>1
<1> QED
  BY <1>2, Invariance, PTL DEF Spec, FixCarriesFindings
=============================================================================
