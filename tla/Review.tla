-------------------------------- MODULE Review --------------------------------
(***************************************************************************)
(* What becomes of the reports of one round: the mutation stage's report,   *)
(* the verification, two audits, their findings merged into a packet        *)
(* (findings.py), triage's answer to it, the rules runtime.py applies to    *)
(* that answer (_preserve_mutation_control_handoff), and the decision that  *)
(* _run_item_attempt acts on, round after round.                             *)
(*                                                                         *)
(* A finding of the packet is known by its canonical id, which stands for    *)
(* its title, category, paths and evidence, by the lanes that named it and   *)
(* by whether it blocks.  Severities only order the packet and are left out. *)
(* Triage is a model and writes its findings anew: of a finding it reports   *)
(* the model keeps the id and what the orchestrator reads of what triage     *)
(* wrote, whatever the packet said of it.                                    *)
(***************************************************************************)
EXTENDS Naturals, FiniteSets

CONSTANTS
  AuditIds,             \* canonical ids the audits' findings may have
  Commands,             \* verification commands
  RequiredCommands,     \* those of a required group
  Artifacts,            \* artifact checks
  MutationReports,      \* what a mutation stage may report
  GateRequired,         \* item.manual_gate.required
  ClaudeEffort,         \* options.claude_effort
  MaxFixRounds,         \* options.max_fix_rounds
  MaxRemediationRounds  \* options.max_remediation_rounds

ASSUME FindingAssumption ==
  /\ RequiredCommands \subseteq Commands
  /\ GateRequired \in BOOLEAN
  /\ ClaudeEffort \in {"max", "high"}
  /\ MaxFixRounds \in Nat /\ MaxRemediationRounds \in Nat

VARIABLES
  phase,        \* the step of the round
  fix_rounds_completed, remediation_rounds_completed,
  source_finding_ids, \* what the mutation stage of the round is to fix
  mutation,     \* the mutation stage's report
  verification, \* the verification report
  codex, claude,\* findings of the two audits
  effort,       \* effort claude is called with
  packet,       \* merged findings packet: the mutation report's control, findings
  answer,       \* triage's report as the model wrote it
  report        \* triage's report as the orchestrator keeps it

rounds  == <<fix_rounds_completed, remediation_rounds_completed, source_finding_ids>>
reports == <<mutation, verification, codex, claude, effort, packet, answer, report>>
vars    == <<phase, rounds, reports>>

-----------------------------------------------------------------------------
(* Reports *)

Verdicts   == {"implemented", "blocked", "needs_human_input", "blocked_external"}
NextStates == {"verify", "awaiting_human_gate", "blocked_external", "escalate"}

\* open_items: some unresolved dependency or residual open item is named.
MutationReport ==
  [verdict : Verdicts, next_recommended_state : NextStates, open_items : BOOLEAN]

ASSUME ReportAssumption == MutationReports \subseteq MutationReport

Statuses == {"pass", "fail", "timeout", "skipped"}
Results  == {"pass", "partial", "fail"}

VerificationReport ==
  [failed_commands : SUBSET Commands, failed_artifacts : SUBSET Artifacts,
   overall_result : Results]

\* One lane may name a finding twice and disagree with itself.
AuditFinding == [id : AuditIds, is_blocking : BOOLEAN]

Signals == {"blocked_external", "needs_human_input", "escalate", "unresolved_items"}
Lanes   == {"codex_audit", "claude_audit"}

\* canonical_finding_id: the kind of a finding tells its title and category.
Ids ==
  ({"audit"} \X AuditIds) \cup ({"command"} \X Commands) \cup
  ({"artifact"} \X Artifacts) \cup ({"mutation"} \X Signals)
SourceTypes == Lanes \cup {"mutation_report", "verification"}

Decisions == {"pass", "fix_required", "awaiting_human_gate", "blocked_external",
              "escalate"}

NoMutation     == [verdict |-> "implemented", next_recommended_state |-> "verify",
                   open_items |-> FALSE]
NoVerification == [failed_commands |-> {}, failed_artifacts |-> {},
                   overall_result |-> "pass"]
NoPacket       == [control |-> {}, merged_findings |-> {}]
NoAnswer       == [overall_decision |-> "none", merged_findings |-> {},
                   suppressed |-> {}]

-----------------------------------------------------------------------------
(* findings.py *)

\* _mutation_report_control: what the report asks for beside going on.
SignalsOf(m) ==
  {s \in Signals :
     \/ /\ s = "blocked_external"
        /\ m.verdict = s \/ m.next_recommended_state = s
     \/ /\ s = "needs_human_input"
        /\ m.verdict = s \/ m.next_recommended_state = "awaiting_human_gate"
     \/ /\ s = "escalate"
        /\ m.verdict = "blocked" \/ m.next_recommended_state = s
     \/ s = "unresolved_items" /\ m.open_items}

AuditCandidates(lane, findings) ==
  {[id |-> <<"audit", f.id>>, source |-> lane, is_blocking |-> f.is_blocking] :
     f \in findings}

MutationCandidates(m) ==
  {[id |-> <<"mutation", s>>, source |-> "mutation_report", is_blocking |-> TRUE] :
     s \in SignalsOf(m)}

\* Failed required commands and failed artifact checks; a failed scope check
\* has ended the attempt before.
VerificationCandidates(v) ==
  {[id |-> i, source |-> "verification", is_blocking |-> TRUE] :
     i \in ({"command"} \X (v.failed_commands \cap RequiredCommands))
           \cup ({"artifact"} \X v.failed_artifacts)}

Candidates(m, v, findings1, findings2) ==
  AuditCandidates("codex_audit", findings1) \cup
  AuditCandidates("claude_audit", findings2) \cup
  MutationCandidates(m) \cup VerificationCandidates(v)

\* The first one met decides.
Merged_slip(candidates) ==
  {[id |-> i,
    sources |-> {c.source : c \in {d \in candidates : d.id = i}},
    is_blocking |-> \A c \in candidates : c.id = i => c.is_blocking] :
     i \in {c.id : c \in candidates}}

\* merge_findings: equal ids become one finding with every source; it blocks
\* if any of them does.
Merged(candidates) ==
  {[id |-> i,
    sources |-> {c.source : c \in {d \in candidates : d.id = i}},
    is_blocking |-> \E c \in candidates : c.id = i /\ c.is_blocking] :
     i \in {c.id : c \in candidates}}

-----------------------------------------------------------------------------
(* _preserve_mutation_control_handoff *)

IdsOf(findings) == {f.id : f \in findings}

\* Findings of the mutation report that triage did not suppress by source.
ActiveFindings(findings, a) ==
  {f \in findings : /\ "mutation_report" \in f.sources
                    /\ f.id[2] \notin a.suppressed}

ActiveSignals(p, a) ==
  {s \in p.control : \E f \in ActiveFindings(p.merged_findings, a) : f.id[2] = s}

DesiredDecision_slip(signals, decision) ==
  CASE "needs_human_input" \in signals ->
         IF GateRequired THEN "awaiting_human_gate" ELSE "escalate"
    [] "blocked_external" \in signals -> "blocked_external"
    [] "escalate" \in signals -> "escalate"
    [] "unresolved_items" \in signals /\ decision = "pass" -> "fix_required"
    [] OTHER -> decision

\* _desired_decision_for_mutation_control, or the decision as it is.
DesiredDecision(signals, decision) ==
  IF "blocked_external" \in signals THEN "blocked_external"
  ELSE IF "escalate" \in signals THEN "escalate"
  ELSE IF "needs_human_input" \in signals
       THEN IF GateRequired THEN "awaiting_human_gate" ELSE "escalate"
  ELSE IF "unresolved_items" \in signals /\ decision = "pass" THEN "fix_required"
  ELSE decision

\* _blocking_repo_content_findings.
BlockingRepoContent(findings) == {f \in findings : f.repairs}

\* Who acts on a finding of the mutation report (_mutation_report_findings).
Disposition(f) ==
  CASE f.id[2] = "blocked_external" -> "blocked_external"
    [] f.id[2] = "needs_human_input" -> "requires_human_judgment"
    [] OTHER -> "actionable"

\* The active findings that triage did not report, as the packet has them: none
\* of them is an audit's or the verification's.
Injected(p, a) ==
  {[id |-> f.id, actionable |-> Disposition(f) = "actionable", repairs |-> FALSE] :
     f \in {g \in ActiveFindings(p.merged_findings, a) :
             g.id \notin IdsOf(a.merged_findings)}}

Preserved_slip(p, a) ==
  LET merged  == a.merged_findings \cup Injected(p, a)
      desired == DesiredDecision(ActiveSignals(p, a), a.overall_decision)
  IN  [a EXCEPT !.merged_findings = merged,
                !.overall_decision =
                  IF desired = "pass" /\ BlockingRepoContent(merged) # {}
                  THEN "fix_required" ELSE desired]

\* What triage left out comes back before anything is decided on it.
Preserved(p, a) ==
  LET merged  == a.merged_findings \cup Injected(p, a)
      desired == DesiredDecision(ActiveSignals(p, a), a.overall_decision)
  IN  [a EXCEPT !.merged_findings = merged,
                !.overall_decision =
                  IF desired \in {"pass", "awaiting_human_gate"}
                     /\ BlockingRepoContent(merged) # {}
                  THEN "fix_required" ELSE desired]

Handoff_slip(p, a) ==
  IF p.control = {} THEN a
  ELSE [Preserved(p, a) EXCEPT !.merged_findings = a.merged_findings]

Handoff(p, a) ==
  IF p.control = {} THEN a ELSE Preserved(p, a)

-----------------------------------------------------------------------------
(* A round *)

Goto(from, to) == phase = from /\ phase' = to

Init ==
  /\ phase = "mutation"
  /\ fix_rounds_completed = 0 /\ remediation_rounds_completed = 0
  /\ source_finding_ids = {}
  /\ mutation = NoMutation /\ verification = NoVerification
  /\ codex = {} /\ claude = {} /\ effort = ClaudeEffort
  /\ packet = NoPacket /\ answer = NoAnswer /\ report = NoAnswer

\* The stage is told the findings it is to fix, and reports.
MutationStage ==
  /\ Goto("mutation", "verification")
  /\ mutation' \in MutationReports
  /\ source_finding_ids' = {}
  /\ UNCHANGED <<fix_rounds_completed, remediation_rounds_completed, verification,
                 codex, claude, effort, packet, answer, report>>

\* run_verification; a command that runs out of time has failed.
OverallResult(status, failed_artifacts) ==
  LET failed == {c \in Commands : status[c] \in {"fail", "timeout"}}
  IN  IF failed \cap RequiredCommands # {} \/ failed_artifacts # {} THEN "fail"
      ELSE IF failed # {} \/ \E c \in Commands : status[c] = "skipped" THEN "partial"
      ELSE "pass"

Verification ==
  /\ Goto("verification", "audit_codex")
  /\ \E status \in [Commands -> Statuses], failed_artifacts \in SUBSET Artifacts :
       verification' =
         [failed_commands |-> {c \in Commands : status[c] \in {"fail", "timeout"}},
          failed_artifacts |-> failed_artifacts,
          overall_result |-> OverallResult(status, failed_artifacts)]
  /\ UNCHANGED <<rounds, mutation, codex, claude, effort, packet, answer, report>>

AuditCodex ==
  /\ Goto("audit_codex", "audit_claude")
  /\ codex' \in SUBSET AuditFinding
  /\ UNCHANGED <<rounds, mutation, verification, claude, effort, packet, answer,
                 report>>

\* claude refuses the effort it was asked for: once more with less.
RetryClaude ==
  /\ phase = "audit_claude" /\ effort = "max"
  /\ effort' = "high"
  /\ UNCHANGED <<phase, rounds, mutation, verification, codex, claude, packet, answer,
                 report>>

\* A report of the schema, or one of another shape that is made into one; an
\* envelope without a result counts as an audit without findings.
AuditClaude ==
  /\ Goto("audit_claude", "merging")
  /\ claude' \in SUBSET AuditFinding
  /\ effort' = ClaudeEffort
  /\ UNCHANGED <<rounds, mutation, verification, codex, packet, answer, report>>

WritePacket ==
  /\ Goto("merging", "triage")
  /\ packet' =
       [control |-> SignalsOf(mutation),
        merged_findings |-> Merged(Candidates(mutation, verification, codex, claude))]
  /\ UNCHANGED <<rounds, mutation, verification, codex, claude, effort, answer,
                 report>>

\* Triage decides, reports findings of the packet or of its own, says of each what
\* it likes, and suppresses some of the mutation report's.  What the stages said is
\* in the packet now; nothing reads their reports any more.
Triage ==
  /\ Goto("triage", "handoff")
  /\ \E decision \in Decisions, suppressed \in SUBSET packet.control,
        kept \in SUBSET (IdsOf(packet.merged_findings) \cup ({"audit"} \X AuditIds)) :
       \E actionable \in SUBSET kept, repairs \in SUBSET kept :
         answer' = [overall_decision |-> decision,
                    merged_findings |->
                      {[id |-> i, actionable |-> i \in actionable,
                        repairs |-> i \in repairs] : i \in kept},
                    suppressed |-> suppressed]
  /\ mutation' = NoMutation /\ codex' = {} /\ claude' = {}
  /\ UNCHANGED <<rounds, verification, effort, packet, report>>

PreserveHandoff ==
  /\ Goto("handoff", "decide")
  /\ report' = Handoff(packet, answer)
  /\ UNCHANGED <<rounds, mutation, verification, codex, claude, effort, packet, answer>>

\* Nothing but fix_required goes on: a required gate turns a pass into a wait.
Outcome(decision) ==
  IF decision = "pass" /\ GateRequired THEN "awaiting_human_gate"
  ELSE IF decision = "pass" THEN "passed"
  ELSE IF decision = "escalate" THEN "escalated"
  ELSE decision

EndAttempt ==
  /\ phase = "decide"
  /\ report.overall_decision # "fix_required"
  /\ phase' = Outcome(report.overall_decision)
  /\ UNCHANGED <<rounds, reports>>

ActionableIds(findings) == IdsOf({f \in findings : f.actionable})

\* The next round starts without the reports of this one.
ForgetRound ==
  /\ verification' = NoVerification
  /\ packet' = NoPacket /\ answer' = NoAnswer /\ report' = NoAnswer
  /\ UNCHANGED <<mutation, codex, claude, effort>>

StartFix ==
  /\ Goto("decide", "mutation")
  /\ report.overall_decision = "fix_required"
  /\ fix_rounds_completed < MaxFixRounds
  /\ fix_rounds_completed' = fix_rounds_completed + 1
  /\ source_finding_ids' = ActionableIds(report.merged_findings)
  /\ ForgetRound
  /\ UNCHANGED remediation_rounds_completed

StartRemediation ==
  /\ Goto("decide", "mutation")
  /\ report.overall_decision = "fix_required"
  /\ fix_rounds_completed >= MaxFixRounds
  /\ remediation_rounds_completed < MaxRemediationRounds
  /\ remediation_rounds_completed' = remediation_rounds_completed + 1
  /\ source_finding_ids' = ActionableIds(report.merged_findings)
  /\ ForgetRound
  /\ UNCHANGED fix_rounds_completed

BudgetExhausted ==
  /\ Goto("decide", "escalated")
  /\ report.overall_decision = "fix_required"
  /\ fix_rounds_completed >= MaxFixRounds
  /\ remediation_rounds_completed >= MaxRemediationRounds
  /\ UNCHANGED <<rounds, reports>>

\* A stage that exits badly, runs out of time or answers against its schema.
StageFails ==
  /\ phase \in {"mutation", "verification", "audit_codex", "audit_claude", "triage"}
  /\ phase' = "escalated"
  /\ UNCHANGED <<rounds, reports>>

Next ==
  \/ MutationStage \/ Verification \/ AuditCodex \/ RetryClaude \/ AuditClaude
  \/ WritePacket \/ Triage \/ PreserveHandoff \/ EndAttempt \/ StartFix
  \/ StartRemediation \/ BudgetExhausted \/ StageFails

Spec == Init /\ [][Next]_vars

-----------------------------------------------------------------------------
(* Properties *)

MergedFinding == [id : Ids, sources : SUBSET SourceTypes, is_blocking : BOOLEAN]

\* actionable: the disposition triage wrote.  repairs: triage wrote that it blocks,
\* that an audit or the verification named it, and a path outside .local/.
TriageFinding == [id : Ids, actionable : BOOLEAN, repairs : BOOLEAN]
TriageReport ==
  [overall_decision : Decisions \cup {"none"}, merged_findings : SUBSET TriageFinding,
   suppressed : SUBSET Signals]

Phases ==
  {"mutation", "verification", "audit_codex", "audit_claude", "merging", "triage",
   "handoff", "decide", "passed", "awaiting_human_gate", "blocked_external",
   "escalated"}

\* Reports keep their shapes, and nothing but what triage may answer is acted on.
TypeOK ==
  /\ phase \in Phases
  /\ fix_rounds_completed \in 0..MaxFixRounds
  /\ remediation_rounds_completed \in 0..MaxRemediationRounds
  /\ source_finding_ids \subseteq Ids
  /\ mutation \in MutationReport /\ verification \in VerificationReport
  /\ codex \subseteq AuditFinding /\ claude \subseteq AuditFinding
  /\ effort \in {"max", "high"}
  /\ packet \in [control : SUBSET Signals, merged_findings : SUBSET MergedFinding]
  /\ answer \in TriageReport /\ report \in TriageReport
  /\ phase = "decide" => report.overall_decision \in Decisions

\* What one audit or check calls blocking blocks in the packet, under the name of
\* whoever said so, whatever the others say of the same finding
\* (merge_findings).
BlockingSurvivesMerge ==
  phase = "triage" =>
    \A c \in Candidates(mutation, verification, codex, claude) :
      \E f \in packet.merged_findings :
                        /\ f.id = c.id /\ c.source \in f.sources
                        /\ c.is_blocking => f.is_blocking

Raised(s) == s \in packet.control /\ s \notin answer.suppressed

\* A stop that the mutation stage asked for is not talked away: unless triage
\* suppresses it by name, leaving it out or deciding otherwise has no effect
\* (_preserve_mutation_control_handoff, prompts/triage_codex.md rules 3 and 6
\* to 8).
StopsAreHonoured ==
  phase \in {"decide", "passed", "awaiting_human_gate", "blocked_external"} =>
    LET decision == report.overall_decision
    IN  /\ Raised("blocked_external") => decision = "blocked_external"
        /\ Raised("escalate") => decision \in {"escalate", "blocked_external"}
        /\ Raised("needs_human_input") =>
             \/ decision \in {"escalate", "blocked_external"}
             \/ GateRequired /\ decision \in {"awaiting_human_gate", "fix_required"}
        /\ Raised("unresolved_items") => decision # "pass"

\* An item whose mutation stage raised anything, suppressed or not, neither passes
\* nor reaches its gate while triage still calls a finding about repository
\* content blocking.
RepairsBeforeGate ==
  packet.control # {} /\ phase \in {"passed", "awaiting_human_gate"} =>
    BlockingRepoContent(answer.merged_findings) = {}

\* A fix, whether triage or the orchestrator ordered it, is told of every finding
\* that triage calls actionable, of the open items of the mutation stage when
\* triage left them out without suppressing them, and of nothing else: what waits
\* for a human, for the outside or for an escalation is not given to the worker
\* (_run_item_attempt, _preserve_mutation_control_handoff).
FixCarriesFindings ==
  [][StartFix \/ StartRemediation =>
       source_finding_ids' =
         ActionableIds(answer.merged_findings) \cup
         {i \in {<<"mutation", "unresolved_items">>} :
            Raised("unresolved_items") /\ i \notin IdsOf(answer.merged_findings)}]_vars

\* docs/playbook-contract.md:106: "those commands become the required
\* verification gate".  An item does not pass, or wait for its approval, when its
\* last verification failed.
VerificationGates ==
  phase \in {"passed", "awaiting_human_gate"} => verification.overall_result # "fail"
=============================================================================
