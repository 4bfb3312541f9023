------------------------------ MODULE RunOutline ------------------------------
(***************************************************************************)
(* A run as those see it who do not work on it: where run_state.json says   *)
(* it is, what became of its items and of their gates, from one outcome to  *)
(* the next.  Kernel implements this (KernelProperties!OutlineRefined), and *)
(* the kernel and the human of Supervision keep to it                       *)
(* (Supervision!OutlineRefined): it is what the one owes and the other      *)
(* relies on.                                                               *)
(***************************************************************************)
EXTENDS Naturals, RunStateMachine

CONSTANT NumItems

VARIABLES
  current_state,    \* "none" before there is a run, "inside" in an attempt
  current_item_id,  \* the item it is about, 0 for none
  outcome,          \* item -> terminal_state
  gate,             \* item -> what the gate record its row names says
  busy              \* an attempt is under way

vars == <<current_state, current_item_id, outcome, gate, busy>>

Items == 1..NumItems

StateOf(o) ==
  CASE o = "passed" -> "ST130" [] o = "awaiting_human_gate" -> "ST110"
    [] o = "blocked_external" -> "ST120" [] o = "escalated" -> "ST140"

Init ==
  /\ current_state \in {"none", "ST05"} /\ current_item_id = 0
  /\ outcome = [i \in Items |-> "none"] /\ gate = [i \in Items |-> "none"]
  /\ busy = FALSE

Create ==
  /\ current_state = "none" /\ current_state' = "ST05"
  /\ UNCHANGED <<current_item_id, outcome, gate, busy>>

\* The item a resume is about: the one the run stopped on, else the first that
\* has not passed.
Target(i) ==
  IF current_item_id # 0 /\ current_state \in {"ST120", "ST140"}
  THEN i = current_item_id
  ELSE /\ outcome[i] # "passed"
       /\ \A j \in Items : j < i => outcome[j] = "passed"

\* A resume takes the run back to its start for an item that was blocked or
\* escalated, and leaves the outcome to be overwritten by a selection.
Reset ==
  /\ ~busy /\ current_state \notin {"none", "ST110"}
  /\ \E i \in Items : Target(i) /\ outcome[i] \in {"blocked_external", "escalated"}
  /\ current_state' = "ST05" /\ current_item_id' = 0
  /\ UNCHANGED <<outcome, gate, busy>>

\* Nothing but an attempt takes an outcome back, and it starts from two states
\* only, never on an item that passed.
Select(i) ==
  /\ ~busy /\ busy' = TRUE
  /\ current_state \in {"ST05", "ST130"} /\ outcome[i] # "passed"
  /\ current_state' = "inside" /\ current_item_id' = i
  /\ outcome' = [outcome EXCEPT ![i] = "none"]
  /\ UNCHANGED gate

\* State, outcome and gate record tell the same, but for an item without a gate
\* whose record was refused.
Conclude(o) ==
  /\ busy /\ busy' = FALSE
  /\ current_state' = StateOf(o)
  /\ outcome' = [outcome EXCEPT ![current_item_id] = o]
  /\ \/ o = "awaiting_human_gate" /\ gate' = [gate EXCEPT ![current_item_id] = "pending"]
     \/ o = "awaiting_human_gate" /\ gate[current_item_id] = "none" /\ UNCHANGED gate
     \/ o # "awaiting_human_gate" /\ UNCHANGED gate
  /\ UNCHANGED current_item_id

\* An attempt that ends without an outcome, its process dead or its evidence
\* missing, may have got as far as the state that belongs to one.
Break ==
  /\ busy /\ busy' = FALSE
  /\ current_state' \in {"inside", "ST110", "ST120", "ST130", "ST140"}
  /\ UNCHANGED <<current_item_id, outcome, gate>>

\* A human decides a pending gate, which holds the run.  The decision may get no
\* further than its record.
Decide(i, verdict) ==
  /\ ~busy /\ current_item_id = i /\ current_state = "ST110"
  /\ gate[i] = "pending" /\ outcome[i] = "awaiting_human_gate"
  /\ gate' = [gate EXCEPT ![i] = verdict]
  /\ \/ UNCHANGED <<current_state, outcome>>
     \/ LET o == IF verdict = "approved" THEN "passed" ELSE "escalated"
        IN  current_state' = StateOf(o) /\ outcome' = [outcome EXCEPT ![i] = o]
  /\ UNCHANGED <<current_item_id, busy>>

Next ==
  \/ Create \/ Reset \/ Break
  \/ \E o \in TerminalNames \ {"none"} : Conclude(o)
  \/ \E i \in Items : Select(i)
  \/ \E i \in Items, verdict \in {"approved", "rejected"} : Decide(i, verdict)

Spec == Init /\ [][Next]_vars
=============================================================================
