------------------------------- MODULE RunLedger -------------------------------
(***************************************************************************)
(* What a run promises about its run branch, without saying how: work gets  *)
(* onto it one item at a time, after the items it depends on, with the      *)
(* approval it needs, unless a refresh brings it, and an item is called     *)
(* passed only once its work is there.  Kernel implements this              *)
(* (KernelProperties!LedgerRefined).                                        *)
(***************************************************************************)
EXTENDS Naturals, Sequences, SequencesExt

CONSTANTS NumItems, Prerequisites, GateRequired

VARIABLES
  history,    \* the commits on the run branch: <<item, attempt, round>>
  adopted,    \* those that came with a refresh
  passed,     \* items recorded as passed
  approved,   \* <<item, attempt>> whose review a human approved
  unrecorded  \* the item that landed last, until it is recorded; 0 for none

vars == <<history, adopted, passed, approved, unrecorded>>

Items == 1..NumItems

Init ==
  /\ history = <<(<<0, 0, 0>>)>>
  /\ adopted = {} /\ passed = {} /\ approved = {} /\ unrecorded = 0

Added == SubSeq(history', Len(history) + 1, Len(history'))

\* Zero or more commits of a single attempt, and nothing else.
Land(i) ==
  /\ unrecorded = 0 /\ unrecorded' = i
  /\ i \notin passed /\ Prerequisites[i] \subseteq passed
  /\ IsPrefix(history, history')
  /\ \A c, d \in ToSet(Added) : c[1] = i /\ c[2] = d[2]
  /\ i \in GateRequired =>
       \E p \in approved : p[1] = i /\ \A c \in ToSet(Added) : c[2] = p[2]
  /\ UNCHANGED <<adopted, passed, approved>>

Record ==
  /\ unrecorded # 0 /\ unrecorded' = 0
  /\ passed' = passed \cup {unrecorded}
  /\ UNCHANGED <<history, adopted, approved>>

\* A process that died after it moved the branch.
Forget ==
  /\ unrecorded # 0 /\ unrecorded' = 0
  /\ UNCHANGED <<history, adopted, passed, approved>>

Approve(i) ==
  /\ i \in GateRequired
  /\ \E p \in approved' : p[1] = i /\ approved' = approved \cup {p}
  /\ UNCHANGED <<history, adopted, passed, unrecorded>>

\* Between items the run is refreshed onto a descendant, which nobody looks into:
\* what it brings is remembered as brought.
Refresh ==
  /\ unrecorded = 0
  /\ IsPrefix(history, history')
  /\ adopted' = adopted \cup ToSet(Added)
  /\ UNCHANGED <<passed, approved, unrecorded>>

Next == Record \/ Forget \/ Refresh \/ \E i \in Items : Land(i) \/ Approve(i)

Spec == Init /\ [][Next]_vars
=============================================================================
