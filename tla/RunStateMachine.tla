--------------------------- MODULE RunStateMachine ---------------------------
(***************************************************************************)
(* The state names of a run and the table of its legal moves, translated   *)
(* from automation/plan_orchestrator/state_machine.py, with the two         *)
(* predicates over item rows that file exports.  States are abbreviated to  *)
(* the numbers of the source's StateId members.                             *)
(***************************************************************************)
EXTENDS Naturals

\* Where an attempt is handed over: nothing of it runs beyond these.
TerminalNames ==
  {"none", "passed", "awaiting_human_gate", "blocked_external", "escalated"}

StateIds == {"ST00", "ST05", "ST10", "ST15", "ST20", "ST30", "ST40", "ST50",
             "ST60", "ST61", "ST70", "ST80", "ST95", "ST110", "ST120",
             "ST130", "ST140"}

\* The legal moves of a run.  ST120 and ST140 have none: only the reset that
\* resume() makes outside the table leaves them.
TRANSITIONS ==
  [s \in StateIds |->
    CASE s = "ST00"  -> {"ST05", "ST140"}
      [] s = "ST05"  -> {"ST10", "ST140"}
      [] s = "ST10"  -> {"ST15", "ST120"}
      [] s = "ST15"  -> {"ST20", "ST140"}
      [] s = "ST20"  -> {"ST30", "ST120", "ST140"}
      [] s = "ST30"  -> {"ST40", "ST120", "ST140"}
      [] s = "ST40"  -> {"ST50", "ST140"}
      [] s = "ST50"  -> {"ST60", "ST61", "ST140"}
      [] s = "ST60"  -> {"ST61", "ST70", "ST140"}
      [] s = "ST61"  -> {"ST70", "ST140"}
      [] s = "ST70"  -> {"ST80", "ST95", "ST110", "ST120", "ST130", "ST140"}
      [] s = "ST80"  -> {"ST40", "ST120", "ST140"}
      [] s = "ST95"  -> {"ST40", "ST120", "ST140"}
      [] s = "ST110" -> {"ST130", "ST140"}
      [] s = "ST120" -> {}
      [] s = "ST130" -> {"ST10", "ST140"}
      [] s = "ST140" -> {}]

\* assert_transition() lets the move through.
CanMove(current, target) == target \in TRANSITIONS[current]

\* i is the item first_unfinished_item() returns.  Items are numbered in the
\* order of the plan; rows is the run's list of item states.
FirstUnfinished(i, rows) ==
  /\ rows[i].terminal_state # "passed"
  /\ \A j \in DOMAIN rows : j < i => rows[j].terminal_state = "passed"

\* Wrong on purpose: the definition after it with one plausible mistake, kept
\* to test that the properties would notice.
PrerequisitesSatisfied_slip(prerequisites, rows) ==
  \A j \in prerequisites : j \in DOMAIN rows

\* A prerequisite no item of the plan answers to is never satisfied.
PrerequisitesSatisfied(prerequisites, rows) ==
  \A j \in prerequisites : j \in DOMAIN rows /\ rows[j].terminal_state = "passed"
=============================================================================
