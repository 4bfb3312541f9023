---------------------------- MODULE CommandsProofs ----------------------------
(***************************************************************************)
(* Proofs about Commands, for any number of overlapping commands, items,    *)
(* attempts and refreshes.                                                   *)
(*                                                                         *)
(* A command's copy is a run state of the past, so that the invariant says   *)
(* of every run state, in the file or in a copy, the same things (StateOK,    *)
(* LandedOK), and of every command what its place in its procedure implies    *)
(* about git and the gates (CallOK).  A step of one command changes the rest  *)
(* only by making git and the gates go on (Onward), which these facts         *)
(* outlive.                                                                   *)
(***************************************************************************)
EXTENDS Commands, TLAPS

-----------------------------------------------------------------------------
(* Sequences *)

\* A prefix agrees in every place it has.
LEMMA PrefixPlaces ==
  ASSUME NEW S, NEW s \in Seq(S), NEW t \in Seq(S)
  PROVE  IsPrefix(s, t) <=> Len(s) <= Len(t) /\ \A n \in 1..Len(s) : s[n] = t[n]
<1>1. ASSUME IsPrefix(s, t) PROVE Len(s) <= Len(t) /\ \A n \in 1..Len(s) : s[n] = t[n]
  <2>1. Len(s) <= Len(t) /\ SubSeq(s, 1, Len(s)) = SubSeq(t, 1, Len(s))
    BY <1>1 DEF IsPrefix
  <2>2. \A n \in 1..Len(s) : SubSeq(s, 1, Len(s))[n] = s[n]
    OBVIOUS
  <2>3. \A n \in 1..Len(s) : SubSeq(t, 1, Len(s))[n] = t[n]
    BY <2>1
  <2> QED
    BY <2>1, <2>2, <2>3
<1>2. ASSUME Len(s) <= Len(t), \A n \in 1..Len(s) : s[n] = t[n] PROVE IsPrefix(s, t)
  <2>1. SubSeq(s, 1, Len(s)) = s
    OBVIOUS
  <2>2. SubSeq(t, 1, Len(s)) = s
    BY <1>2
  <2> QED
    BY <1>2, <2>1, <2>2 DEF IsPrefix
<1> QED
  BY <1>1, <1>2

LEMMA PrefixSelf == ASSUME NEW S, NEW s \in Seq(S) PROVE IsPrefix(s, s)
  BY PrefixPlaces

LEMMA EmptyHasNoPlace == Len(<<>>) = 0
  OBVIOUS

LEMMA PrefixAppend ==
  ASSUME NEW S, NEW s \in Seq(S), NEW c \in S
  PROVE  IsPrefix(s, Append(s, c)) /\ Append(s, c) # <<>> /\ c \in ToSet(Append(s, c))
<1>1. /\ Append(s, c) \in Seq(S) /\ Len(Append(s, c)) = Len(s) + 1
      /\ \A n \in 1..Len(s) : Append(s, c)[n] = s[n]
      /\ Append(s, c)[Len(s) + 1] = c
  OBVIOUS
<1>2. Len(s) \in Nat
  OBVIOUS
<1>3. IsPrefix(s, Append(s, c))
  <2>1. Len(s) <= Len(Append(s, c)) /\ \A n \in 1..Len(s) : s[n] = Append(s, c)[n]
    BY <1>1, <1>2
  <2> QED
    BY <1>1, <2>1, PrefixPlaces
<1>4. c \in ToSet(Append(s, c))
  <2>1. Len(s) + 1 \in DOMAIN Append(s, c)
    BY <1>1, <1>2
  <2>2. \E n \in DOMAIN Append(s, c) : Append(s, c)[n] = c
    BY <1>1, <2>1
  <2> QED
    BY <2>2 DEF ToSet
<1>5. Append(s, c) # <<>>
  <2>1. Len(Append(s, c)) # 0
    BY <1>1, <1>2
  <2>2. Append(s, c) = <<>> => Len(Append(s, c)) = 0
    BY Zenon, EmptyHasNoPlace
  <2> QED
    BY <2>1, <2>2
<1> QED
  BY <1>3, <1>4, <1>5

LEMMA PrefixTrans ==
  ASSUME NEW S, NEW s \in Seq(S), NEW t \in Seq(S), NEW u \in Seq(S),
         IsPrefix(s, t), IsPrefix(t, u)
  PROVE  IsPrefix(s, u)
<1>1. /\ Len(s) <= Len(t) /\ \A n \in 1..Len(s) : s[n] = t[n]
      /\ Len(t) <= Len(u) /\ \A n \in 1..Len(t) : t[n] = u[n]
  BY PrefixPlaces
<1>2. Len(s) \in Nat /\ Len(t) \in Nat /\ Len(u) \in Nat
  OBVIOUS
<1>3. Len(s) <= Len(u) /\ \A n \in 1..Len(s) : s[n] = u[n]
  BY <1>1, <1>2
<1> QED
  BY <1>3, PrefixPlaces

\* What grows keeps what it had.
LEMMA PrefixMembers ==
  ASSUME NEW S, NEW s \in Seq(S), NEW t \in Seq(S), IsPrefix(s, t)
  PROVE  ToSet(s) \subseteq ToSet(t) /\ (s # <<>> => t # <<>>)
<1>1. Len(s) <= Len(t) /\ \A n \in 1..Len(s) : s[n] = t[n]
  BY PrefixPlaces
<1>2. DOMAIN s = 1..Len(s) /\ DOMAIN t = 1..Len(t) /\ Len(s) \in Nat /\ Len(t) \in Nat
  OBVIOUS
<1> QED
  BY <1>1, <1>2 DEF ToSet

LEMMA PrefixOfEmpty ==
  ASSUME NEW S, NEW s \in Seq(S) PROVE IsPrefix(<<>>, s)
<1> DEFINE e == <<>>
<1>1. e \in Seq(S) /\ Len(e) = 0 /\ Len(s) \in Nat
  OBVIOUS
<1> HIDE DEF e
<1>2. Len(e) <= Len(s) /\ \A n \in 1..Len(e) : e[n] = s[n]
  BY <1>1
<1>3. IsPrefix(e, s)
  BY <1>1, <1>2, PrefixPlaces
<1> QED
  BY <1>3 DEF e

-----------------------------------------------------------------------------
(* The invariant *)

\* The command is at the item it works on, up to the gate.
Running == {"reset", "select", "selected", "prepare", "working", "reviewed", "landing",
            "landed", "blocked", "escalated"}
Decided == {"approved", "approving", "accepted", "rejected"}
Marked  == {"marked"} \cup Decided
Marking == {"marking"} \cup Marked

RowIn(c) == c.copy.items[c.item]

\* Of any run state: it names only gates that exist, and one that is pending is the
\* current item's, of its last attempt, not passed, and holds the run; a stopped run is not
\* stopped at an item that passed.
StateOK(s, gts) ==
  /\ s \in RunState
  /\ \A i \in Items :
       LET a == s.items[i].manual_gate
       IN  a # None =>
             /\ gts[i][a] # "absent"
             /\ gts[i][a] = "pending" =>
                  /\ s.current_state = "ST110" /\ s.current_item_id = i
                  /\ s.items[i].attempt_number = a
                  /\ s.items[i].terminal_state # "passed"
  /\ s.current_state \in {"ST120", "ST140"} =>
       \A i \in Passed(s) : i # s.current_item_id

LandedOn(s, history) ==
  \A i \in Passed(s) : <<i, s.items[i].attempt_number>> \in ToSet(history)

LandedOK(s, rbs) == s.run_branch <= Len(rbs) /\ LandedOn(s, rbs[s.run_branch])

\* Of a command: what its copy knows, and, by its place, what it has seen, made or
\* is about to land.
PlaceOK(c, gts, rbs, ibs) ==
  /\ c.pc \in Running =>
       /\ c.item \in Items /\ c.copy.current_state # "ST110"
       /\ RowIn(c).terminal_state # "passed"
  /\ c.pc = "gated" =>
       /\ c.item \in Items /\ c.copy.current_state = "ST110"
       /\ c.copy.current_item_id = c.item /\ RowIn(c).terminal_state # "passed"
  /\ c.pc \in InAttempt =>
       /\ ibs[c.item][RowIn(c).attempt_number] # <<>>
       /\ gts[c.item][RowIn(c).attempt_number] = "absent"
  /\ c.pc \in {"reviewed", "landing", "landed", "gated"} =>
       <<c.item, RowIn(c).attempt_number>> \in ToSet(ibs[c.item][RowIn(c).attempt_number])
  /\ c.pc = "landing" =>
       c.tip # <<>> /\ IsPrefix(c.tip, ibs[c.item][RowIn(c).attempt_number])
  /\ c.pc = "landed" =>
       <<c.item, RowIn(c).attempt_number>> \in ToSet(rbs[c.copy.run_branch])

GateOK(c, gts, rbs, ibs) ==
  /\ c.pc \in Marking => c.item \in Items /\ RowIn(c).manual_gate # None
  /\ c.pc \in Marked =>
       /\ RowIn(c).manual_gate = RowIn(c).attempt_number
       /\ c.copy.current_item_id = c.item /\ RowIn(c).terminal_state # "passed"
  /\ c.pc \in Decided => gts[c.item][RowIn(c).manual_gate] # "pending"
  /\ c.pc = "approving" =>
       c.tip # <<>> /\ IsPrefix(c.tip, ibs[c.item][RowIn(c).manual_gate])
  /\ c.pc = "accepted" =>
       <<c.item, RowIn(c).manual_gate>> \in ToSet(rbs[c.copy.run_branch])

CallOK(c, gts, rbs, ibs) ==
  /\ c \in Call /\ StateOK(c.copy, gts)
  /\ c.knew \subseteq Passed(c.copy)
  /\ c.pc \in {"naming", "branching"} => c.target # <<>> /\ LandedOn(c.copy, c.target)
  /\ c.pc # "branching" => LandedOK(c.copy, rbs)
  /\ PlaceOK(c, gts, rbs, ibs)
  /\ GateOK(c, gts, rbs, ibs)

\* Branches have commits; a gate is of an attempt that committed.
GitOK(gts, rbs, ibs) ==
  /\ rbs \in Seq(Seq(Commits)) /\ rbs # <<>>
  /\ \A b \in 1..Len(rbs) : rbs[b] # <<>>
  /\ ibs \in [Items -> [Attempts -> Seq(Commits)]]
  /\ gts \in [Items -> [Attempts -> {"absent", "pending", "approved", "rejected"}]]
  /\ \A i \in Items, a \in Attempts :
       gts[i][a] # "absent" => <<i, a>> \in ToSet(ibs[i][a])

\* Two commands in one attempt's worktree.
Clash(c, d) ==
  /\ c.pc \in InAttempt /\ d.pc \in InAttempt
  /\ c.item = d.item /\ RowIn(c).attempt_number = RowIn(d).attempt_number

IInv ==
  /\ GitOK(gates, run_branches, item_branches)
  /\ StateOK(disk, gates) /\ LandedOK(disk, run_branches)
  /\ calls \in [Callers -> Call]
  /\ \A p \in Callers : CallOK(calls[p], gates, run_branches, item_branches)
  /\ \A p, q \in Callers : p # q => ~Clash(calls[p], calls[q])

\* Branches grow, and a gate goes from absent over pending to its decision.
Onward(gts, rbs, ibs, gts2, rbs2, ibs2) ==
  /\ Len(rbs) <= Len(rbs2) /\ \A b \in 1..Len(rbs) : IsPrefix(rbs[b], rbs2[b])
  /\ \A i \in Items, a \in Attempts :
       /\ IsPrefix(ibs[i][a], ibs2[i][a])
       /\ gts2[i][a] = "absent" => gts[i][a] = "absent"
       /\ gts2[i][a] = "pending" => gts[i][a] \in {"absent", "pending"}

-----------------------------------------------------------------------------
(* What a step of one command leaves of the others *)

LEMMA RowType ==
  ASSUME NEW s \in RunState, NEW i \in Items
  PROVE  /\ s.items[i] \in Row /\ s.items[i].attempt_number \in Attempts
         /\ s.items[i].manual_gate \in 0..MaxAttempts
         /\ s.items[i].manual_gate # None => s.items[i].manual_gate \in Attempts
  BY CommandsAssumption DEF RunState, Row, Attempts, None

\* Nothing moved is onward, too.
LEMMA OnwardSelf ==
  ASSUME NEW gts, NEW rbs, NEW ibs, GitOK(gts, rbs, ibs)
  PROVE  Onward(gts, rbs, ibs, gts, rbs, ibs)
<1>1. \A b \in 1..Len(rbs) : IsPrefix(rbs[b], rbs[b])
  BY PrefixSelf DEF GitOK
<1>2. \A i \in Items, a \in Attempts : IsPrefix(ibs[i][a], ibs[i][a])
  BY PrefixSelf DEF GitOK
<1>3. Len(rbs) \in Nat
  BY DEF GitOK
<1> QED
  BY <1>1, <1>2, <1>3 DEF Onward

LEMMA StateKeeps ==
  ASSUME NEW gts, NEW rbs, NEW ibs, NEW gts2, NEW rbs2, NEW ibs2,
         Onward(gts, rbs, ibs, gts2, rbs2, ibs2), NEW s, StateOK(s, gts)
  PROVE  StateOK(s, gts2)
<1>1. s \in RunState
  BY DEF StateOK
<1>2. ASSUME NEW i \in Items, s.items[i].manual_gate # None
      PROVE  /\ gts2[i][s.items[i].manual_gate] # "absent"
             /\ gts2[i][s.items[i].manual_gate] = "pending" =>
                  gts[i][s.items[i].manual_gate] = "pending"
  <2>1. s.items[i].manual_gate \in Attempts
    BY <1>1, <1>2, RowType
  <2>2. gts[i][s.items[i].manual_gate] # "absent"
    BY <1>2 DEF StateOK
  <2> QED
    BY <2>1, <2>2 DEF Onward
<1> QED
  BY <1>2 DEF StateOK

LEMMA LandedKeeps ==
  ASSUME NEW gts, NEW rbs, NEW ibs, NEW gts2, NEW rbs2, NEW ibs2,
         GitOK(gts, rbs, ibs), GitOK(gts2, rbs2, ibs2),
         Onward(gts, rbs, ibs, gts2, rbs2, ibs2),
         NEW s \in RunState, s.run_branch <= Len(rbs)
  PROVE  /\ ToSet(rbs[s.run_branch]) \subseteq ToSet(rbs2[s.run_branch])
         /\ s.run_branch <= Len(rbs2)
         /\ LandedOK(s, rbs) => LandedOK(s, rbs2)
<1>1. s.run_branch \in 1..Len(rbs) /\ Len(rbs) \in Nat /\ Len(rbs2) \in Nat
      /\ Len(rbs) <= Len(rbs2)
  <2>1. s.run_branch \in Nat /\ 1 <= s.run_branch
    BY CommandsAssumption DEF RunState
  <2>2. Len(rbs) \in Nat /\ Len(rbs2) \in Nat
    BY DEF GitOK
  <2>3. Len(rbs) <= Len(rbs2)
    BY DEF Onward
  <2> QED
    BY <2>1, <2>2, <2>3
<1>2. rbs[s.run_branch] \in Seq(Commits) /\ rbs2[s.run_branch] \in Seq(Commits)
  BY <1>1 DEF GitOK
<1>3. IsPrefix(rbs[s.run_branch], rbs2[s.run_branch])
  BY <1>1 DEF Onward
<1>4. ToSet(rbs[s.run_branch]) \subseteq ToSet(rbs2[s.run_branch])
  BY <1>2, <1>3, PrefixMembers
<1> QED
  BY <1>1, <1>4 DEF LandedOK, LandedOn

\* The same of an attempt's branch.
LEMMA BranchKeeps ==
  ASSUME NEW gts, NEW rbs, NEW ibs, NEW gts2, NEW rbs2, NEW ibs2,
         GitOK(gts, rbs, ibs), GitOK(gts2, rbs2, ibs2),
         Onward(gts, rbs, ibs, gts2, rbs2, ibs2),
         NEW i \in Items, NEW a \in Attempts
  PROVE  /\ ToSet(ibs[i][a]) \subseteq ToSet(ibs2[i][a])
         /\ ibs[i][a] # <<>> => ibs2[i][a] # <<>>
         /\ \A tip \in Seq(Commits) : IsPrefix(tip, ibs[i][a]) => IsPrefix(tip, ibs2[i][a])
<1>1. ibs[i][a] \in Seq(Commits) /\ ibs2[i][a] \in Seq(Commits)
  BY DEF GitOK
<1>2. IsPrefix(ibs[i][a], ibs2[i][a])
  BY DEF Onward
<1> QED
  BY <1>1, <1>2, PrefixMembers, PrefixTrans

LEMMA OtherKeeps ==
  ASSUME NEW gts, NEW rbs, NEW ibs, NEW gts2, NEW rbs2, NEW ibs2,
         GitOK(gts, rbs, ibs), GitOK(gts2, rbs2, ibs2),
         Onward(gts, rbs, ibs, gts2, rbs2, ibs2),
         NEW c, CallOK(c, gts, rbs, ibs),
         c.pc \in InAttempt => gts2[c.item][RowIn(c).attempt_number] = "absent"
  PROVE  CallOK(c, gts2, rbs2, ibs2)
<1>1. c \in Call /\ c.copy \in RunState /\ c.tip \in Seq(Commits)
  BY DEF CallOK, Call
<1>2. StateOK(c.copy, gts2)
  BY StateKeeps DEF CallOK
<1>3. c.pc # "branching" =>
        /\ LandedOK(c.copy, rbs2)
        /\ ToSet(rbs[c.copy.run_branch]) \subseteq ToSet(rbs2[c.copy.run_branch])
  BY <1>1, LandedKeeps DEF CallOK, LandedOK
<1>4. PlaceOK(c, gts2, rbs2, ibs2)
  <2>1. CASE c.pc \in Running \cup {"gated"}
    <3>1. PlaceOK(c, gts, rbs, ibs) /\ c.item \in Items
      BY <2>1 DEF CallOK, PlaceOK
    <3>2. RowIn(c).attempt_number \in Attempts
      BY <1>1, <3>1, RowType DEF RowIn
    <3> DEFINE mine == ibs[c.item][RowIn(c).attempt_number]
               mine2 == ibs2[c.item][RowIn(c).attempt_number]
    <3>3. /\ ToSet(mine) \subseteq ToSet(mine2)
          /\ mine # <<>> => mine2 # <<>>
          /\ IsPrefix(c.tip, mine) => IsPrefix(c.tip, mine2)
      <4> DEFINE i == c.item
                 a == RowIn(c).attempt_number
      <4>1. i \in Items /\ a \in Attempts
        BY <3>1, <3>2
      <4> HIDE DEF i, a
      <4>2. /\ ToSet(ibs[i][a]) \subseteq ToSet(ibs2[i][a])
            /\ ibs[i][a] # <<>> => ibs2[i][a] # <<>>
            /\ \A tip \in Seq(Commits) :
                 IsPrefix(tip, ibs[i][a]) => IsPrefix(tip, ibs2[i][a])
        BY <4>1, BranchKeeps
      <4> QED
        BY <1>1, <4>2 DEF i, a
    <3>4. c.pc # "branching"
      BY <2>1 DEF Running
    <3> HIDE DEF mine, mine2
    <3>5. c.pc \in InAttempt => mine2 # <<>>
      BY <3>1, <3>3 DEF PlaceOK, mine
    <3>6. c.pc \in {"reviewed", "landing", "landed", "gated"} =>
            <<c.item, RowIn(c).attempt_number>> \in ToSet(mine2)
      BY <3>1, <3>3 DEF PlaceOK, mine
    <3>7. c.pc = "landing" => c.tip # <<>> /\ IsPrefix(c.tip, mine2)
      BY <3>1, <3>3 DEF PlaceOK, mine
    <3>8. c.pc = "landed" =>
            <<c.item, RowIn(c).attempt_number>> \in ToSet(rbs2[c.copy.run_branch])
      BY <1>3, <3>1, <3>4 DEF PlaceOK
    <3> QED
      BY <3>1, <3>5, <3>6, <3>7, <3>8 DEF PlaceOK, mine2
  <2>2. CASE c.pc \notin Running \cup {"gated"}
    BY <2>2 DEF PlaceOK, Running, InAttempt
  <2> QED
    BY <2>1, <2>2
<1>5. GateOK(c, gts2, rbs2, ibs2)
  <2>1. CASE c.pc \in Marking
    <3>1. GateOK(c, gts, rbs, ibs) /\ c.item \in Items /\ RowIn(c).manual_gate # None
      BY <2>1 DEF CallOK, GateOK
    <3>2. RowIn(c).manual_gate \in Attempts
      BY <1>1, <3>1, RowType DEF RowIn
    <3>3. gts[c.item][RowIn(c).manual_gate] # "absent"
      BY <3>1 DEF CallOK, StateOK, RowIn
    <3>4. gts2[c.item][RowIn(c).manual_gate] = "pending" =>
            gts[c.item][RowIn(c).manual_gate] = "pending"
      BY <3>1, <3>2, <3>3 DEF Onward
    <3>5. IsPrefix(c.tip, ibs[c.item][RowIn(c).manual_gate]) =>
            IsPrefix(c.tip, ibs2[c.item][RowIn(c).manual_gate])
      BY <1>1, <3>1, <3>2, BranchKeeps
    <3>6. c.pc # "branching"
      BY <2>1 DEF Marking, Marked, Decided
    <3>7. c.pc = "accepted" =>
            <<c.item, RowIn(c).manual_gate>> \in ToSet(rbs2[c.copy.run_branch])
      BY <1>3, <3>1, <3>6 DEF GateOK
    <3> QED
      BY <3>1, <3>4, <3>5, <3>7 DEF GateOK
  <2>2. CASE c.pc \notin Marking
    BY <2>2 DEF GateOK, Marking, Marked, Decided
  <2> QED
    BY <2>1, <2>2
<1>6. /\ c.knew \subseteq Passed(c.copy)
      /\ c.pc \in {"naming", "branching"} =>
           c.target # <<>> /\ LandedOn(c.copy, c.target)
  BY DEF CallOK
<1> QED
  BY <1>1, <1>2, <1>3, <1>4, <1>5, <1>6 DEF CallOK

\* A step of command p keeps the invariant if it leaves p and the file right, moves
\* git and the gates onward, and takes no place that another works at.
LEMMA CallStep ==
  ASSUME IInv, NEW p \in Callers,
         calls' = [calls EXCEPT ![p] = calls'[p]],
         GitOK(gates', run_branches', item_branches'),
         Onward(gates, run_branches, item_branches, gates', run_branches', item_branches'),
         CallOK(calls'[p], gates', run_branches', item_branches'),
         \/ disk' = disk
         \/ StateOK(disk', gates') /\ LandedOK(disk', run_branches'),
         \A q \in Callers \ {p} :
           /\ calls[q].pc \in InAttempt =>
                gates'[calls[q].item][RowIn(calls[q]).attempt_number] = "absent"
           /\ ~Clash(calls'[p], calls[q])
  PROVE  IInv'
<1>1. /\ GitOK(gates, run_branches, item_branches) /\ calls \in [Callers -> Call]
      /\ StateOK(disk, gates) /\ LandedOK(disk, run_branches)
      /\ \A q \in Callers : CallOK(calls[q], gates, run_branches, item_branches)
      /\ \A q, r \in Callers : q # r => ~Clash(calls[q], calls[r])
  BY DEF IInv
<1>2. calls'[p] \in Call
  BY DEF CallOK
<1>3. calls' \in [Callers -> Call] /\ \A q \in Callers \ {p} : calls'[q] = calls[q]
  BY <1>1, <1>2
<1>4. StateOK(disk', gates') /\ LandedOK(disk', run_branches')
  <2>1. CASE disk' = disk
    <3>1. disk \in RunState /\ disk.run_branch <= Len(run_branches)
      BY <1>1 DEF StateOK, LandedOK
    <3>2. StateOK(disk, gates')
      BY <1>1, StateKeeps
    <3>3. LandedOK(disk, run_branches')
      BY <1>1, <3>1, LandedKeeps
    <3> QED
      BY <2>1, <3>2, <3>3
  <2> QED
    BY <2>1
<1>5. \A q \in Callers : CallOK(calls'[q], gates', run_branches', item_branches')
  <2> SUFFICES ASSUME NEW q \in Callers \ {p}
               PROVE  CallOK(calls[q], gates', run_branches', item_branches')
    BY <1>3
  <2>1. CallOK(calls[q], gates, run_branches, item_branches)
    BY <1>1
  <2> QED
    BY <1>1, <2>1, OtherKeeps
<1>6. \A q, r \in Callers : q # r => ~Clash(calls'[q], calls'[r])
  <2>1. \A q \in Callers \ {p} : ~Clash(calls'[p], calls[q]) /\ ~Clash(calls[q], calls'[p])
    BY DEF Clash
  <2> QED
    BY <1>1, <1>3, <2>1
<1> QED
  BY <1>3, <1>4, <1>5, <1>6 DEF IInv

\* A step that leaves git and the gates alone and takes no new place.
LEMMA QuietStep ==
  ASSUME IInv, NEW p \in Callers,
         calls' = [calls EXCEPT ![p] = calls'[p]], UNCHANGED <<gates, git>>,
         CallOK(calls'[p], gates, run_branches, item_branches),
         \/ disk' = disk
         \/ StateOK(disk', gates) /\ LandedOK(disk', run_branches),
         calls'[p].pc \in InAttempt =>
           /\ calls[p].pc \in InAttempt /\ calls'[p].item = calls[p].item
           /\ RowIn(calls'[p]).attempt_number = RowIn(calls[p]).attempt_number
  PROVE  /\ IInv'
         /\ Onward(gates, run_branches, item_branches, gates', run_branches', item_branches')
<1>1. /\ GitOK(gates, run_branches, item_branches)
      /\ \A q \in Callers : CallOK(calls[q], gates, run_branches, item_branches)
      /\ \A q, r \in Callers : q # r => ~Clash(calls[q], calls[r])
  BY DEF IInv
<1>2. gates' = gates /\ run_branches' = run_branches /\ item_branches' = item_branches
  BY DEF git
<1>3. /\ GitOK(gates', run_branches', item_branches')
      /\ Onward(gates, run_branches, item_branches, gates', run_branches', item_branches')
  BY <1>1, <1>2, OnwardSelf
<1>4. \A q \in Callers \ {p} :
        /\ calls[q].pc \in InAttempt =>
             gates'[calls[q].item][RowIn(calls[q]).attempt_number] = "absent"
        /\ ~Clash(calls'[p], calls[q])
  BY <1>1, <1>2 DEF CallOK, PlaceOK, Clash
<1> QED
  BY <1>2, <1>3, <1>4, CallStep

LEMMA NewRunOK ==
  ASSUME NEW gts, NEW rbs, NEW ibs, GitOK(gts, rbs, ibs)
  PROVE  /\ NewRun \in RunState /\ StateOK(NewRun, gts) /\ LandedOK(NewRun, rbs)
         /\ Passed(NewRun) = {}
<1>1. NewRow \in Row
  BY CommandsAssumption DEF NewRow, Row, TerminalNames, Attempts, None
<1>2. NewRun \in RunState
  BY <1>1, CommandsAssumption DEF NewRun, RunState, StateIds, None
<1>3. /\ NewRun.run_branch = 1 /\ NewRun.current_state = "ST05"
      /\ \A i \in Items : NewRun.items[i] = NewRow
  BY DEF NewRun
<1>4. Passed(NewRun) = {}
  BY <1>3 DEF Passed, NewRow
<1>5. \A i \in Items : NewRun.items[i].manual_gate = None
  BY <1>3 DEF NewRow
<1>6. 1 <= Len(rbs)
  BY DEF GitOK
<1> QED
  BY <1>2, <1>3, <1>4, <1>5, <1>6 DEF StateOK, LandedOK, LandedOn

\* A command that has not begun or is over claims nothing.
LEMMA RestOK ==
  ASSUME NEW gts, NEW rbs, NEW ibs, GitOK(gts, rbs, ibs)
  PROVE  /\ CallOK(NoCall, gts, rbs, ibs) /\ CallOK(Done, gts, rbs, ibs)
         /\ Done.pc = "done" /\ NoCall.pc = "idle"
<1>1. NewRun \in RunState /\ StateOK(NewRun, gts) /\ LandedOK(NewRun, rbs)
  BY NewRunOK
<1>2. NoHistory \in Seq(Commits) /\ None \in 0..NumItems /\ {} \in SUBSET Items
  BY CommandsAssumption DEF NoHistory, None
<1>3. {"idle", "done"} \subseteq PCs
  BY DEF PCs
<1>4. NoCall \in Call
  BY <1>1, <1>2, <1>3 DEF NoCall, Call
<1>5. Done = [NoCall EXCEPT !.pc = "done"] /\ Done \in Call
  BY <1>3, <1>4 DEF Done, Call
<1>6. /\ NoCall.copy = NewRun /\ NoCall.pc = "idle" /\ NoCall.knew = {}
      /\ Done.copy = NewRun /\ Done.pc = "done" /\ Done.knew = {}
  BY <1>4, <1>5 DEF NoCall, Call
<1> QED
  BY <1>1, <1>4, <1>5, <1>6
     DEF CallOK, PlaceOK, GateOK, Running, InAttempt, Marking, Marked, Decided

-----------------------------------------------------------------------------
(* Saves *)

\* What every step of a command does: it keeps the invariant, git and the gates go
\* on, and the file forgets no pass that the command knew of.
Advances(p) ==
  /\ IInv'
  /\ Onward(gates, run_branches, item_branches, gates', run_branches', item_branches')
  /\ \/ disk' = disk
     \/ calls'[p] # calls[p] /\ calls[p].knew \subseteq Passed(disk')

\* A command that ends with its copy saved.
LEMMA SaveAndEnd ==
  ASSUME IInv, NEW p \in Callers, NEW copy,
         disk' = copy, calls' = [calls EXCEPT ![p] = Done], calls[p].pc # "done",
         UNCHANGED <<gates, git>>,
         StateOK(copy, gates), LandedOK(copy, run_branches),
         calls[p].knew \subseteq Passed(copy)
  PROVE  Advances(p)
<1>1. GitOK(gates, run_branches, item_branches) /\ calls \in [Callers -> Call]
  BY DEF IInv
<1>2. calls'[p] = Done
  BY <1>1
<1>3. CallOK(calls'[p], gates, run_branches, item_branches) /\ calls'[p].pc = "done"
  BY <1>1, <1>2, RestOK
<1>4. calls'[p].pc \notin InAttempt
  BY <1>3 DEF InAttempt
<1>5. calls' = [calls EXCEPT ![p] = calls'[p]]
  BY <1>2
<1>6. /\ IInv'
      /\ Onward(gates, run_branches, item_branches, gates', run_branches', item_branches')
  BY <1>3, <1>4, <1>5, QuietStep
<1> QED
  BY <1>3, <1>6 DEF Advances

\* A step that changes nothing but its own command.
LEMMA OwnStep ==
  ASSUME IInv, NEW p \in Callers, NEW c,
         calls' = [calls EXCEPT ![p] = c], UNCHANGED <<disk, gates, git>>,
         CallOK(c, gates, run_branches, item_branches),
         c.pc \in InAttempt =>
           /\ calls[p].pc \in InAttempt /\ c.item = calls[p].item
           /\ RowIn(c).attempt_number = RowIn(calls[p]).attempt_number
  PROVE  Advances(p)
<1>1. calls \in [Callers -> Call]
  BY DEF IInv
<1>2. calls'[p] = c
  BY <1>1
<1>3. calls' = [calls EXCEPT ![p] = calls'[p]]
  BY <1>2
<1>4. UNCHANGED <<gates, git>> /\ disk' = disk
  OBVIOUS
<1>5. /\ IInv'
      /\ Onward(gates, run_branches, item_branches, gates', run_branches', item_branches')
  BY <1>2, <1>3, <1>4, QuietStep
<1> QED
  BY <1>5, <1>4 DEF Advances

LEMMA ReturnStep ==
  ASSUME IInv, NEW p \in Callers, Return(p), UNCHANGED <<disk, gates, git>>
  PROVE  Advances(p)
<1>1. GitOK(gates, run_branches, item_branches)
  BY DEF IInv
<1>2. CallOK(Done, gates, run_branches, item_branches) /\ Done.pc = "done"
  BY <1>1, RestOK
<1>3. calls' = [calls EXCEPT ![p] = Done]
  BY DEF Return, Continue
<1>4. Done.pc \notin InAttempt
  BY <1>2 DEF InAttempt
<1> QED
  BY <1>2, <1>3, <1>4, OwnStep

\* Moved changes the state, the current item and the item's row.
LEMMA MovedFields ==
  ASSUME IInv, NEW p \in Callers, calls[p].item \in Items,
         NEW s \in StateIds, NEW row \in Row
  PROVE  /\ Moved(p, s, row) \in RunState
         /\ Moved(p, s, row).current_state = s
         /\ Moved(p, s, row).current_item_id = calls[p].item
         /\ Moved(p, s, row).run_branch = calls[p].copy.run_branch
         /\ Moved(p, s, row).items[calls[p].item] = row
         /\ \A i \in Items \ {calls[p].item} :
              Moved(p, s, row).items[i] = calls[p].copy.items[i]
<1>1. calls[p].copy \in RunState
  BY DEF IInv, CallOK, Call
<1>2. calls[p].item \in 0..NumItems
  BY CommandsAssumption DEF Items
<1> QED
  BY <1>1, <1>2 DEF Moved, RunState

\* A command in its attempt may move on: it knows of no pending gate and its item
\* has not passed.
LEMMA MovedOK ==
  ASSUME IInv, NEW p \in Callers, calls[p].pc \in Running,
         NEW s \in StateIds, NEW row \in Row,
         row.manual_gate = RowIn(calls[p]).manual_gate, row.terminal_state # "passed"
  PROVE  /\ StateOK(Moved(p, s, row), gates) /\ LandedOK(Moved(p, s, row), run_branches)
         /\ calls[p].knew \subseteq Passed(Moved(p, s, row))
<1> DEFINE c == calls[p]
           copy == Moved(p, s, row)
<1>1. CallOK(c, gates, run_branches, item_branches)
  BY DEF IInv
<1>2. /\ c.item \in Items /\ c.copy.current_state # "ST110"
      /\ RowIn(c).terminal_state # "passed"
  BY <1>1 DEF CallOK, PlaceOK
<1>3. /\ copy \in RunState /\ copy.current_state = s /\ copy.current_item_id = c.item
      /\ copy.run_branch = c.copy.run_branch /\ copy.items[c.item] = row
      /\ \A i \in Items \ {c.item} : copy.items[i] = c.copy.items[i]
  BY <1>2, MovedFields
<1>4. /\ StateOK(c.copy, gates) /\ c.knew \subseteq Passed(c.copy)
      /\ LandedOK(c.copy, run_branches)
  BY <1>1 DEF CallOK, Running
<1> HIDE DEF copy, c
<1>5. Passed(copy) = Passed(c.copy)
  BY <1>2, <1>3 DEF Passed, RowIn, c
<1>6. c.item \notin Passed(copy)
  BY <1>3 DEF Passed
<1>7. \A i \in Items : copy.items[i].manual_gate = c.copy.items[i].manual_gate
  BY <1>3 DEF RowIn, c
<1>8. StateOK(copy, gates)
  BY <1>2, <1>3, <1>4, <1>6, <1>7 DEF StateOK
<1>9. LandedOK(copy, run_branches)
  BY <1>3, <1>4, <1>5, <1>6 DEF LandedOK, LandedOn, Passed
<1> QED
  BY <1>4, <1>5, <1>8, <1>9 DEF copy, c

\* A save by a command in its attempt, which thereby goes on within its attempt.
LEMMA MovedStep ==
  ASSUME IInv, NEW p \in Callers, calls[p].pc \in Running,
         NEW s \in StateIds, NEW row \in Row,
         row.manual_gate = RowIn(calls[p]).manual_gate, row.terminal_state # "passed",
         NEW pc \in PCs, pc \notin Marking \cup {"done", "naming", "branching", "landing"},
         Save(p, Moved(p, s, row), pc), UNCHANGED <<gates, git>>,
         pc # calls[p].pc \/ s # calls[p].copy.current_state,
         pc \in Running => s # "ST110",
         pc = "gated" => s = "ST110",
         pc \in InAttempt =>
           calls[p].pc \in InAttempt /\ row.attempt_number = RowIn(calls[p]).attempt_number,
         pc \in {"reviewed", "landed", "gated"} =>
           calls[p].pc \in {"reviewed", "landing", "landed"},
         pc = "landed" => calls[p].pc = "landed"
  PROVE  Advances(p)
<1> DEFINE c == calls[p]
           copy == Moved(p, s, row)
           d == [c EXCEPT !.copy = copy, !.pc = pc]
<1>1. CallOK(c, gates, run_branches, item_branches) /\ c \in Call
  BY DEF IInv, CallOK
<1>2. c.item \in Items /\ PlaceOK(c, gates, run_branches, item_branches)
  BY <1>1 DEF CallOK, PlaceOK
<1>3. /\ copy \in RunState /\ copy.current_state = s /\ copy.current_item_id = c.item
      /\ copy.run_branch = c.copy.run_branch /\ copy.items[c.item] = row
  BY <1>2, MovedFields
<1>4. /\ StateOK(copy, gates) /\ LandedOK(copy, run_branches)
      /\ c.knew \subseteq Passed(copy)
  BY MovedOK
<1>5. disk' = copy /\ calls' = [calls EXCEPT ![p] = d] /\ calls'[p] = d
  BY DEF Save, Continue, IInv
<1> HIDE DEF copy
<1>6. /\ d \in Call /\ d.copy = copy /\ d.pc = pc /\ d.item = c.item /\ d.tip = c.tip
      /\ d.knew = c.knew
  BY <1>1, <1>3 DEF Call
<1> HIDE DEF d, c
<1>7. RowIn(d) = row
  BY <1>3, <1>6 DEF RowIn
<1>8. PlaceOK(d, gates, run_branches, item_branches)
  BY <1>2, <1>3, <1>6, <1>7 DEF PlaceOK, c, Running, InAttempt
<1>9. GateOK(d, gates, run_branches, item_branches)
  BY <1>6 DEF GateOK, Marking, Marked, Decided
<1>10. CallOK(d, gates, run_branches, item_branches)
  BY <1>4, <1>6, <1>8, <1>9 DEF CallOK
<1>11. calls' = [calls EXCEPT ![p] = calls'[p]]
  BY <1>5
<1>12. /\ IInv'
       /\ Onward(gates, run_branches, item_branches, gates', run_branches', item_branches')
  BY <1>4, <1>5, <1>6, <1>7, <1>10, <1>11, QuietStep DEF c
<1>13. d # c
  <2>1. CASE pc # c.pc
    BY <1>6, <2>1
  <2>2. CASE s # c.copy.current_state
    BY <1>3, <1>6, <2>2
  <2> QED
    BY <2>1, <2>2 DEF c
<1> QED
  BY <1>4, <1>5, <1>12, <1>13 DEF Advances, c

-----------------------------------------------------------------------------
(* resume *)

\* Resume starts at an item that has not passed, of a run that waits for no gate.
LEMMA ResumeStep ==
  ASSUME IInv, NEW p \in Callers, NEW evidence \in BOOLEAN, NEW auto \in BOOLEAN,
         Resume(p, evidence, auto)
  PROVE  Advances(p)
<1>1. PICK i \in Items :
        /\ Target(disk, i)
        /\ calls' = [calls EXCEPT ![p] = [Load(NoCall) EXCEPT
             !.pc = IF disk.items[i].terminal_state \in {"blocked_external", "escalated"}
                    THEN "reset" ELSE "select",
             !.item = i, !.evidence = evidence, !.auto = auto]]
  BY DEF Resume, Continue
<1> DEFINE pc == IF disk.items[i].terminal_state \in {"blocked_external", "escalated"}
                 THEN "reset" ELSE "select"
           c == [Load(NoCall) EXCEPT !.pc = pc, !.item = i, !.evidence = evidence,
                                     !.auto = auto]
<1>2. /\ GitOK(gates, run_branches, item_branches)
      /\ StateOK(disk, gates) /\ LandedOK(disk, run_branches) /\ disk \in RunState
  BY DEF IInv, StateOK
<1>3. CallOK(NoCall, gates, run_branches, item_branches) /\ NoCall \in Call
  BY <1>2, RestOK DEF CallOK
<1>4. pc \in {"reset", "select"} /\ {"reset", "select"} \subseteq PCs
  BY DEF PCs
<1> HIDE DEF pc
<1>5. i \in 0..NumItems /\ Passed(disk) \in SUBSET Items
  BY DEF Items, Passed
<1>6. /\ c \in Call /\ c.pc = pc /\ c.item = i /\ c.copy = disk /\ c.knew = Passed(disk)
  BY <1>2, <1>3, <1>4, <1>5 DEF Load, Call
<1>7. disk.current_state # "ST110"
  BY DEF Resume
<1>8. disk.items[i].terminal_state # "passed"
  <2>1. CASE /\ disk.current_item_id # None /\ disk.current_state \in {"ST120", "ST140"}
             /\ i = disk.current_item_id
    BY <1>2, <2>1 DEF StateOK, Passed
  <2>2. CASE FirstUnfinished(i, disk.items)
    BY <2>2 DEF FirstUnfinished
  <2> QED
    BY <1>1, <2>1, <2>2 DEF Target
<1> HIDE DEF c
<1>9. PlaceOK(c, gates, run_branches, item_branches)
  BY <1>4, <1>6, <1>7, <1>8 DEF PlaceOK, RowIn, InAttempt
<1>10. GateOK(c, gates, run_branches, item_branches)
  BY <1>4, <1>6 DEF GateOK, Marking, Marked, Decided
<1>11. CallOK(c, gates, run_branches, item_branches)
  BY <1>2, <1>4, <1>6, <1>9, <1>10 DEF CallOK
<1>12. calls' = [calls EXCEPT ![p] = c] /\ UNCHANGED <<disk, gates, git>>
  BY <1>1 DEF c, pc, Resume
<1>13. c.pc \notin InAttempt
  BY <1>4, <1>6 DEF InAttempt
<1> QED
  BY <1>11, <1>12, <1>13, OwnStep

LEMMA ResetStep ==
  ASSUME IInv, NEW p \in Callers, Reset(p)
  PROVE  Advances(p)
<1> DEFINE c == calls[p]
           copy == [c.copy EXCEPT !.current_state = "ST05", !.current_item_id = None]
           d == [c EXCEPT !.copy = copy, !.pc = "select"]
<1>1. CallOK(c, gates, run_branches, item_branches) /\ c \in Call /\ c.pc = "reset"
  BY DEF IInv, CallOK, Reset, At
<1>2. /\ c.item \in Items /\ c.copy.current_state # "ST110"
      /\ RowIn(c).terminal_state # "passed" /\ StateOK(c.copy, gates)
      /\ LandedOK(c.copy, run_branches) /\ c.knew \subseteq Passed(c.copy)
      /\ c.copy \in RunState
  BY <1>1 DEF CallOK, PlaceOK, Running, Call
<1>3. /\ copy \in RunState /\ copy.current_state = "ST05" /\ copy.items = c.copy.items
      /\ copy.run_branch = c.copy.run_branch
  <2>1. "ST05" \in StateIds /\ None \in 0..NumItems
    BY CommandsAssumption DEF StateIds, None
  <2> QED
    BY <1>2, <2>1 DEF RunState
<1>4. disk' = copy /\ calls' = [calls EXCEPT ![p] = d] /\ calls'[p] = d
      /\ UNCHANGED <<gates, git>>
  BY DEF Reset, Save, Continue, IInv
<1> HIDE DEF copy
<1>5. StateOK(copy, gates) /\ LandedOK(copy, run_branches) /\ Passed(copy) = Passed(c.copy)
  BY <1>2, <1>3 DEF StateOK, LandedOK, LandedOn, Passed
<1>6. /\ d \in Call /\ d.copy = copy /\ d.pc = "select" /\ d.item = c.item
      /\ d.knew = c.knew
  BY <1>1, <1>3 DEF Call, PCs
<1> HIDE DEF d
<1>7. CallOK(d, gates, run_branches, item_branches)
  BY <1>2, <1>3, <1>5, <1>6
     DEF CallOK, PlaceOK, GateOK, RowIn, InAttempt, Marking, Marked, Decided
<1>8. calls' = [calls EXCEPT ![p] = calls'[p]]
  BY <1>4
<1>9. /\ IInv'
      /\ Onward(gates, run_branches, item_branches, gates', run_branches', item_branches')
  BY <1>4, <1>5, <1>6, <1>7, <1>8, QuietStep DEF InAttempt
<1> QED
  BY <1>1, <1>2, <1>4, <1>5, <1>6, <1>9 DEF Advances

\* Selection: the row is rewritten whether the move is legal or not.
LEMMA SelectStep ==
  ASSUME IInv, NEW p \in Callers, Select(p)
  PROVE  Advances(p)
<1> DEFINE c == calls[p]
           fresh == [RowOf(p) EXCEPT !.attempt_number = NextAttemptNumber(RowOf(p)),
                                     !.terminal_state = "none"]
<1>1. CallOK(c, gates, run_branches, item_branches) /\ c \in Call /\ c.pc = "select"
      /\ calls \in [Callers -> Call]
  BY DEF IInv, CallOK, Select, At
<1>2. /\ c.item \in Items /\ c.copy.current_state # "ST110" /\ c.copy \in RunState
      /\ RowIn(c).terminal_state # "passed"
  BY <1>1 DEF CallOK, PlaceOK, Running, Call
<1>3. /\ fresh \in Row /\ fresh.terminal_state = "none"
      /\ fresh.manual_gate = RowIn(c).manual_gate
  <2>1. RowOf(p) \in Row
    BY <1>2, RowType DEF RowOf
  <2>2. NextAttemptNumber(RowOf(p)) \in Attempts
    BY DEF Select
  <2> QED
    BY <2>1, <2>2 DEF Row, RowOf, RowIn, TerminalNames
<1>4. UNCHANGED <<gates, git>>
  BY DEF Select
<1> HIDE DEF fresh
<1>5. CASE MayMove(p, "ST10")
  <2>1. Save(p, Moved(p, "ST10", fresh), "selected")
    BY <1>5 DEF Select, fresh
  <2>2. "ST10" \in StateIds /\ "selected" \in PCs
    BY DEF StateIds, PCs
  <2> QED
    BY <1>1, <1>3, <1>4, <2>1, <2>2, MovedStep
       DEF Running, InAttempt, Marking, Marked, Decided
<1>6. CASE ~MayMove(p, "ST10")
  <2> DEFINE copy == [c.copy EXCEPT !.items[c.item] = fresh]
  <2>1. disk' = copy /\ calls' = [calls EXCEPT ![p] = Done]
    BY <1>6 DEF Select, Save, Continue, fresh
  <2>2. /\ copy \in RunState /\ copy.current_state = c.copy.current_state
        /\ copy.current_item_id = c.copy.current_item_id
        /\ copy.run_branch = c.copy.run_branch /\ copy.items[c.item] = fresh
        /\ \A i \in Items \ {c.item} : copy.items[i] = c.copy.items[i]
    BY <1>2, <1>3 DEF RunState
  <2> HIDE DEF copy
  <2>3. Passed(copy) = Passed(c.copy) /\ c.item \notin Passed(copy)
    BY <1>2, <1>3, <2>2 DEF Passed, RowIn
  <2>4. /\ StateOK(c.copy, gates) /\ LandedOK(c.copy, run_branches)
        /\ c.knew \subseteq Passed(c.copy)
    BY <1>1 DEF CallOK
  <2>5. \A i \in Items : copy.items[i].manual_gate = c.copy.items[i].manual_gate
    BY <1>3, <2>2 DEF RowIn
  <2>6. StateOK(copy, gates)
    BY <1>2, <2>2, <2>3, <2>4, <2>5 DEF StateOK
  <2>7. LandedOK(copy, run_branches)
    BY <2>2, <2>3, <2>4 DEF LandedOK, LandedOn, Passed
  <2> QED
    BY <1>1, <1>4, <2>1, <2>3, <2>4, <2>6, <2>7, SaveAndEnd
<1> QED
  BY <1>5, <1>6

\* The item's row as it is, of the right type, in an attempt.
LEMMA OwnRow ==
  ASSUME IInv, NEW p \in Callers, calls[p].pc \in Running \cup {"gated"} \cup Marking
  PROVE  /\ calls[p] \in Call /\ calls[p].copy \in RunState /\ calls[p].item \in Items
         /\ RowOf(p) = RowIn(calls[p]) /\ RowOf(p) \in Row
         /\ RowOf(p).attempt_number \in Attempts
         /\ RowOf(p).manual_gate # None => RowOf(p).manual_gate \in Attempts
         /\ StateOK(calls[p].copy, gates) /\ LandedOK(calls[p].copy, run_branches)
         /\ calls[p].knew \subseteq Passed(calls[p].copy)
         /\ calls[p].pc \in Running => RowOf(p).terminal_state # "passed"
         /\ PlaceOK(calls[p], gates, run_branches, item_branches)
         /\ GateOK(calls[p], gates, run_branches, item_branches)
<1>1. CallOK(calls[p], gates, run_branches, item_branches)
  BY DEF IInv
<1>2. calls[p] \in Call /\ calls[p].copy \in RunState
  BY <1>1 DEF CallOK, Call
<1>3. /\ calls[p].item \in Items
      /\ calls[p].pc \in Running => RowIn(calls[p]).terminal_state # "passed"
  BY <1>1 DEF CallOK, PlaceOK, GateOK
<1>4. RowOf(p) = RowIn(calls[p])
  BY DEF RowOf, RowIn
<1>5. calls[p].pc # "branching"
  BY DEF Running, Marking, Marked, Decided
<1> QED
  BY <1>1, <1>2, <1>3, <1>4, <1>5, RowType DEF CallOK, RowIn

\* The moves within an attempt that only write the file.
LEMMA AttemptMoves ==
  ASSUME IInv, NEW p \in Callers,
         \/ BlockWithoutEvidence(p) \/ RecordWorktree(p) \/ StopShort(p) \/ RecordStop(p)
         \/ EnterPassed(p) \/ EnterGate(p)
  PROVE  Advances(p)
<1>1. /\ calls[p].pc \in {"selected", "prepare", "working", "reviewed", "escalated",
                          "blocked", "landed"}
      /\ UNCHANGED <<gates, git>>
  BY DEF BlockWithoutEvidence, RecordWorktree, StopShort, RecordStop, EnterPassed,
         EnterGate, At
<1>2. calls[p].pc \in Running
  BY <1>1 DEF Running
<1>3. /\ RowOf(p) = RowIn(calls[p]) /\ RowOf(p) \in Row
      /\ RowOf(p).terminal_state # "passed" /\ RowOf(p).attempt_number \in Attempts
  BY <1>2, OwnRow
<1>4. {"ST15", "ST110", "ST120", "ST130", "ST140"} \subseteq StateIds
  BY DEF StateIds
<1>5. {"working", "escalated", "blocked", "landed", "gated"} \subseteq PCs
  BY DEF PCs
<1>6. CASE BlockWithoutEvidence(p)
  <2>1. calls[p].pc = "selected" /\ Save(p, Moved(p, "ST120", RowOf(p)), "blocked")
    BY <1>6 DEF BlockWithoutEvidence, At
  <2> QED
    BY <1>1, <1>2, <1>3, <1>4, <1>5, <2>1, MovedStep
       DEF Running, InAttempt, Marking, Marked, Decided
<1>7. CASE RecordWorktree(p)
  <2> DEFINE row == [RowOf(p) EXCEPT !.branch = RowOf(p).attempt_number]
  <2>1. calls[p].pc = "prepare" /\ Save(p, Moved(p, "ST15", row), "working")
    BY <1>7 DEF RecordWorktree, At
  <2>2. /\ row \in Row /\ row.terminal_state # "passed"
        /\ row.manual_gate = RowIn(calls[p]).manual_gate
        /\ row.attempt_number = RowIn(calls[p]).attempt_number
    BY <1>3, CommandsAssumption DEF Row, Attempts
  <2> HIDE DEF row
  <2> QED
    BY <1>1, <1>2, <1>4, <1>5, <2>1, <2>2, MovedStep
       DEF Running, InAttempt, Marking, Marked, Decided
<1>8. CASE StopShort(p)
  <2>1. PICK s \in {"ST120", "ST140"}, pc \in {"escalated", "blocked"} :
          /\ calls[p].pc \in {"working", "reviewed"}
          /\ Save(p, Moved(p, s, RowOf(p)), pc)
    BY <1>8 DEF StopShort, At
  <2> QED
    BY <1>1, <1>2, <1>3, <1>4, <1>5, <2>1, MovedStep
       DEF Running, InAttempt, Marking, Marked, Decided
<1>9. CASE RecordStop(p)
  <2>1. PICK s \in {"ST120", "ST140"}, t \in {"escalated", "blocked_external"} :
          Save(p, Moved(p, s, [RowOf(p) EXCEPT !.terminal_state = t]), "done")
    BY <1>9 DEF RecordStop
  <2> DEFINE row == [RowOf(p) EXCEPT !.terminal_state = t]
  <2>2. /\ row \in Row /\ row.terminal_state # "passed"
        /\ row.manual_gate = RowIn(calls[p]).manual_gate
    BY <1>3 DEF Row, TerminalNames
  <2>3. disk' = Moved(p, s, row) /\ calls' = [calls EXCEPT ![p] = Done]
    BY <2>1 DEF Save, Continue
  <2> HIDE DEF row
  <2>4. /\ StateOK(Moved(p, s, row), gates) /\ LandedOK(Moved(p, s, row), run_branches)
        /\ calls[p].knew \subseteq Passed(Moved(p, s, row))
    BY <1>2, <1>4, <2>2, MovedOK
  <2> QED
    BY <1>1, <2>3, <2>4, SaveAndEnd
<1>10. CASE EnterPassed(p)
  <2>1. /\ calls[p].pc = "landed" /\ calls[p].copy.current_state # "ST130"
        /\ Save(p, Moved(p, "ST130", RowOf(p)), "landed")
    BY <1>10 DEF EnterPassed, At
  <2> QED
    BY <1>1, <1>2, <1>3, <1>4, <1>5, <2>1, MovedStep
       DEF Running, InAttempt, Marking, Marked, Decided
<1>11. CASE EnterGate(p)
  <2>1. calls[p].pc = "reviewed" /\ Save(p, Moved(p, "ST110", RowOf(p)), "gated")
    BY <1>11 DEF EnterGate, At
  <2> QED
    BY <1>1, <1>2, <1>3, <1>4, <1>5, <2>1, MovedStep
       DEF Running, InAttempt, Marking, Marked, Decided
<1> QED
  BY <1>6, <1>7, <1>8, <1>9, <1>10, <1>11

-----------------------------------------------------------------------------
(* Steps that change git or a gate *)

\* An attempt's branch that grows, from nothing or by a commit.
LEMMA BranchGrows ==
  ASSUME IInv, NEW i \in Items, NEW a \in Attempts, NEW history \in Seq(Commits),
         item_branches' = [item_branches EXCEPT ![i][a] = history],
         IsPrefix(item_branches[i][a], history), UNCHANGED <<run_branches, gates>>
  PROVE  /\ GitOK(gates', run_branches', item_branches')
         /\ Onward(gates, run_branches, item_branches, gates', run_branches', item_branches')
         /\ item_branches'[i][a] = history
<1>1. GitOK(gates, run_branches, item_branches)
  BY DEF IInv
<1>2. Onward(gates, run_branches, item_branches, gates, run_branches, item_branches)
  BY <1>1, OnwardSelf
<1>3. /\ item_branches' \in [Items -> [Attempts -> Seq(Commits)]]
      /\ item_branches'[i][a] = history
      /\ \A j \in Items, b \in Attempts :
           i # j \/ a # b => item_branches'[j][b] = item_branches[j][b]
  BY <1>1 DEF GitOK
<1>4. item_branches[i][a] \in Seq(Commits)
  BY <1>1 DEF GitOK
<1>5. ToSet(item_branches[i][a]) \subseteq ToSet(history)
  BY <1>4, PrefixMembers
<1>6. \A j \in Items, b \in Attempts :
        /\ IsPrefix(item_branches[j][b], item_branches'[j][b])
        /\ ToSet(item_branches[j][b]) \subseteq ToSet(item_branches'[j][b])
  BY <1>2, <1>3, <1>5 DEF Onward
<1>7. GitOK(gates', run_branches', item_branches')
  BY <1>1, <1>3, <1>6 DEF GitOK
<1>8. Onward(gates, run_branches, item_branches, gates', run_branches', item_branches')
  BY <1>2, <1>6 DEF Onward
<1> QED
  BY <1>3, <1>7, <1>8

\* The run branch of a copy that moves forward.
LEMMA RunBranchGrows ==
  ASSUME IInv, NEW b \in 1..Len(run_branches), NEW history \in Seq(Commits),
         run_branches' = [run_branches EXCEPT ![b] = history],
         IsPrefix(run_branches[b], history), UNCHANGED <<item_branches, gates>>
  PROVE  /\ GitOK(gates', run_branches', item_branches')
         /\ Onward(gates, run_branches, item_branches, gates', run_branches', item_branches')
         /\ run_branches'[b] = history
<1>1. GitOK(gates, run_branches, item_branches)
  BY DEF IInv
<1>2. Onward(gates, run_branches, item_branches, gates, run_branches, item_branches)
  BY <1>1, OnwardSelf
<1>3. run_branches \in Seq(Seq(Commits)) /\ Len(run_branches) \in Nat
  BY <1>1 DEF GitOK
<1>4. /\ run_branches' \in Seq(Seq(Commits)) /\ Len(run_branches') = Len(run_branches)
      /\ run_branches'[b] = history
      /\ \A n \in 1..Len(run_branches) : n # b => run_branches'[n] = run_branches[n]
  BY <1>3
<1>5. \A n \in 1..Len(run_branches) : IsPrefix(run_branches[n], run_branches'[n])
  BY <1>2, <1>4 DEF Onward
<1>6. run_branches[b] \in Seq(Commits) /\ run_branches[b] # <<>>
  BY <1>1, <1>3 DEF GitOK
<1>7. history # <<>>
  BY <1>6, PrefixMembers
<1>8. \A n \in 1..Len(run_branches') : run_branches'[n] # <<>>
  BY <1>1, <1>4, <1>7 DEF GitOK
<1>9. run_branches' # <<>>
  <2>1. Len(run_branches) # 0
    BY <1>3
  <2>2. Len(run_branches') # 0
    BY <1>4, <2>1
  <2> QED
    BY <2>2, EmptyHasNoPlace
<1>10. GitOK(gates', run_branches', item_branches')
  BY <1>1, <1>4, <1>8, <1>9 DEF GitOK
<1>11. Onward(gates, run_branches, item_branches, gates', run_branches', item_branches')
  BY <1>2, <1>3, <1>4, <1>5 DEF Onward
<1> QED
  BY <1>4, <1>10, <1>11

\* The tip a command sees of its run branch.
LEMMA OwnTip ==
  ASSUME IInv, NEW p \in Callers, LandedOK(calls[p].copy, run_branches),
         calls[p].copy \in RunState
  PROVE  /\ calls[p].copy.run_branch \in 1..Len(run_branches)
         /\ RunTipOf(p) = run_branches[calls[p].copy.run_branch]
         /\ RunTipOf(p) \in Seq(Commits) /\ RunTipOf(p) # <<>>
<1>1. GitOK(gates, run_branches, item_branches)
  BY DEF IInv
<1>2. Len(run_branches) \in Nat /\ calls[p].copy.run_branch \in Nat
      /\ 1 <= calls[p].copy.run_branch /\ calls[p].copy.run_branch <= Len(run_branches)
  BY <1>1, CommandsAssumption DEF GitOK, LandedOK, RunState
<1>3. calls[p].copy.run_branch \in 1..Len(run_branches)
  BY <1>2
<1> QED
  BY <1>1, <1>3 DEF GitOK, RunTipOf

\* The place of a command that works at an attempt is nobody else's; others' gates
\* stay absent when the gates do not change.
LEMMA OthersStay ==
  ASSUME IInv, NEW p \in Callers, UNCHANGED gates, NEW d,
         d.pc \in InAttempt =>
           /\ calls[p].pc \in InAttempt /\ d.item = calls[p].item
           /\ RowIn(d).attempt_number = RowIn(calls[p]).attempt_number
  PROVE  \A q \in Callers \ {p} :
           /\ calls[q].pc \in InAttempt =>
                gates'[calls[q].item][RowIn(calls[q]).attempt_number] = "absent"
           /\ ~Clash(d, calls[q])
  BY DEF IInv, CallOK, PlaceOK, Clash

\* git worktree add, once per attempt.
LEMMA AddWorktreeStep ==
  ASSUME IInv, NEW p \in Callers, AddWorktree(p)
  PROVE  Advances(p)
<1> DEFINE c == calls[p]
           i == c.item
           a == RowOf(p).attempt_number
           d == [c EXCEPT !.pc = "prepare"]
<1>1. c.pc = "selected"
  BY DEF AddWorktree, At
<1>2. /\ c \in Call /\ c.copy \in RunState /\ i \in Items /\ RowOf(p) = RowIn(c)
      /\ a \in Attempts /\ StateOK(c.copy, gates) /\ LandedOK(c.copy, run_branches)
      /\ c.knew \subseteq Passed(c.copy)
  BY <1>1, OwnRow DEF Running
<1>3. /\ GitOK(gates, run_branches, item_branches) /\ calls \in [Callers -> Call]
      /\ CallOK(c, gates, run_branches, item_branches)
  BY DEF IInv
<1>4. UNCHANGED <<run_branches, gates, adopted>> /\ BranchOf(p) = item_branches[i][a]
  BY DEF AddWorktree, BranchOf
<1>5. CASE /\ BranchOf(p) # NoHistory
           /\ Save(p, c.copy, "done") /\ UNCHANGED item_branches
  <2>1. disk' = c.copy /\ calls' = [calls EXCEPT ![p] = Done] /\ UNCHANGED <<gates, git>>
    BY <1>4, <1>5 DEF Save, Continue, git
  <2> QED
    BY <1>1, <1>2, <2>1, SaveAndEnd
<1>6. CASE /\ BranchOf(p) = NoHistory
           /\ item_branches' = [item_branches EXCEPT ![i][a] = RunTipOf(p)]
           /\ calls' = [calls EXCEPT ![p] = d] /\ UNCHANGED disk
  <2>1. RunTipOf(p) \in Seq(Commits) /\ RunTipOf(p) # <<>>
    BY <1>2, OwnTip
  <2>2. item_branches[i][a] = <<>>
    BY <1>4, <1>6 DEF NoHistory
  <2>3. IsPrefix(item_branches[i][a], RunTipOf(p))
    BY <2>1, <2>2, PrefixOfEmpty
  <2> HIDE DEF i, a
  <2>4. /\ GitOK(gates', run_branches', item_branches')
        /\ Onward(gates, run_branches, item_branches, gates', run_branches', item_branches')
        /\ item_branches'[i][a] = RunTipOf(p)
    BY <1>2, <1>4, <1>6, <2>1, <2>3, BranchGrows
  <2>5. /\ d \in Call /\ d.pc = "prepare" /\ d.item = c.item /\ d.copy = c.copy
        /\ d.knew = c.knew
    BY <1>2 DEF Call, PCs
  <2>6. calls'[p] = d /\ calls' = [calls EXCEPT ![p] = calls'[p]]
    BY <1>3, <1>6
  <2>7. CallOK(c, gates', run_branches', item_branches')
    BY <1>1, <1>3, <2>4, OtherKeeps DEF InAttempt
  <2>8. gates[i][a] = "absent"
    <3>1. ToSet(<<>>) = {}
      BY EmptyHasNoPlace DEF ToSet
    <3> QED
      BY <1>2, <1>3, <2>2, <3>1 DEF GitOK
  <2> HIDE DEF d, c
  <2>9. RowIn(d) = RowIn(c)
    BY <2>5 DEF RowIn
  <2>10. PlaceOK(d, gates', run_branches', item_branches')
    BY <1>1, <1>2, <1>4, <2>1, <2>4, <2>5, <2>7, <2>8, <2>9
       DEF CallOK, PlaceOK, Running, i, a
  <2>11. CallOK(d, gates', run_branches', item_branches')
    BY <1>1, <2>5, <2>7, <2>10 DEF CallOK, GateOK, Marking, Marked, Decided
  <2>12. ASSUME NEW q \in Callers \ {p}
         PROVE  /\ calls[q].pc \in InAttempt =>
                     gates'[calls[q].item][RowIn(calls[q]).attempt_number] = "absent"
                /\ ~Clash(calls'[p], calls[q])
    <3>1. PlaceOK(calls[q], gates, run_branches, item_branches)
      BY DEF IInv, CallOK
    <3>2. calls[q].pc \in InAttempt /\ calls[q].item = i =>
            RowIn(calls[q]).attempt_number # a
      BY <2>2, <3>1 DEF PlaceOK
    <3> QED
      BY <1>2, <1>4, <2>5, <2>6, <2>9, <3>1, <3>2 DEF PlaceOK, Clash, i, a
  <2>13. IInv'
    BY <1>6, <2>4, <2>6, <2>11, <2>12, CallStep
  <2> QED
    BY <1>6, <2>4, <2>13 DEF Advances
<1> QED
  BY <1>5, <1>6 DEF AddWorktree, Continue

\* The attempt's commit is on its branch before the file tells of the review.
LEMMA WorkStep ==
  ASSUME IInv, NEW p \in Callers, Work(p)
  PROVE  Advances(p)
<1> DEFINE c == calls[p]
           i == c.item
           a == RowOf(p).attempt_number
           history == Append(item_branches[i][a], <<i, a>>)
           copy == Moved(p, "ST70", RowOf(p))
           d == [c EXCEPT !.copy = copy, !.pc = "reviewed"]
<1>1. c.pc = "working"
  BY DEF Work, At
<1>2. /\ c \in Call /\ c.copy \in RunState /\ i \in Items /\ RowOf(p) = RowIn(c)
      /\ a \in Attempts /\ RowOf(p) \in Row /\ RowOf(p).terminal_state # "passed"
      /\ PlaceOK(c, gates, run_branches, item_branches)
  BY <1>1, OwnRow DEF Running
<1>3. GitOK(gates, run_branches, item_branches) /\ calls \in [Callers -> Call]
  BY DEF IInv
<1>4. /\ item_branches' = [item_branches EXCEPT ![i][a] = history]
      /\ disk' = copy /\ calls' = [calls EXCEPT ![p] = d]
      /\ UNCHANGED <<run_branches, gates>>
  BY DEF Work, Save, Continue
<1>5. "ST70" \in StateIds /\ "reviewed" \in PCs /\ c.pc \in Running
  BY <1>1 DEF StateIds, PCs, Running
<1>6. /\ copy \in RunState /\ copy.current_state = "ST70" /\ copy.items[i] = RowOf(p)
      /\ copy.run_branch = c.copy.run_branch
  BY <1>2, <1>5, MovedFields
<1>7. /\ StateOK(copy, gates) /\ LandedOK(copy, run_branches)
      /\ c.knew \subseteq Passed(copy)
  BY <1>2, <1>5, MovedOK
<1> HIDE DEF copy
<1>8. /\ d \in Call /\ d.copy = copy /\ d.pc = "reviewed" /\ d.item = i /\ d.knew = c.knew
  BY <1>2, <1>5, <1>6 DEF Call
<1>9. calls'[p] = d /\ calls' = [calls EXCEPT ![p] = calls'[p]]
  BY <1>3, <1>4
<1> HIDE DEF d, i, a
<1>10. <<i, a>> \in Commits /\ item_branches[i][a] \in Seq(Commits)
  BY <1>2, <1>3, CommandsAssumption DEF GitOK, Commits, Items, Attempts
<1>11. /\ history \in Seq(Commits) /\ IsPrefix(item_branches[i][a], history)
       /\ history # <<>> /\ <<i, a>> \in ToSet(history)
  BY <1>10, PrefixAppend
<1> HIDE DEF history
<1>12. /\ GitOK(gates', run_branches', item_branches')
       /\ Onward(gates, run_branches, item_branches, gates', run_branches', item_branches')
       /\ item_branches'[i][a] = history
  BY <1>2, <1>4, <1>11, BranchGrows
<1>13. RowIn(d) = RowIn(c)
  BY <1>2, <1>6, <1>8 DEF RowIn, i
<1>14. gates[i][a] = "absent"
  BY <1>1, <1>2 DEF PlaceOK, InAttempt, i, a
<1>15. PlaceOK(d, gates', run_branches', item_branches')
  BY <1>2, <1>4, <1>6, <1>8, <1>11, <1>12, <1>13, <1>14 DEF PlaceOK, a
<1>16. CallOK(d, gates', run_branches', item_branches')
  BY <1>4, <1>7, <1>8, <1>15 DEF CallOK, GateOK, Marking, Marked, Decided
<1>17. d.pc \in InAttempt =>
         /\ calls[p].pc \in InAttempt /\ d.item = calls[p].item
         /\ RowIn(d).attempt_number = RowIn(calls[p]).attempt_number
  BY <1>1, <1>8, <1>13 DEF InAttempt, i
<1>18. \A q \in Callers \ {p} :
         /\ calls[q].pc \in InAttempt =>
              gates'[calls[q].item][RowIn(calls[q]).attempt_number] = "absent"
         /\ ~Clash(calls'[p], calls[q])
  BY <1>4, <1>9, <1>17, OthersStay
<1>19. IInv'
  BY <1>4, <1>7, <1>9, <1>12, <1>16, <1>18, CallStep
<1> QED
  BY <1>1, <1>4, <1>7, <1>8, <1>9, <1>12, <1>19 DEF Advances

\* The check before update-ref: what is to land continues the run branch as seen.
LEMMA StartLandingStep ==
  ASSUME IInv, NEW p \in Callers, StartLanding(p)
  PROVE  Advances(p)
<1> DEFINE c == calls[p]
           d == [c EXCEPT !.tip = RunTipOf(p), !.pc = "landing"]
<1>1. c.pc = "reviewed" /\ UNCHANGED <<gates, git>>
  BY DEF StartLanding, At
<1>2. /\ c \in Call /\ c.copy \in RunState /\ c.item \in Items /\ RowOf(p) = RowIn(c)
      /\ StateOK(c.copy, gates) /\ LandedOK(c.copy, run_branches)
      /\ c.knew \subseteq Passed(c.copy)
      /\ PlaceOK(c, gates, run_branches, item_branches)
  BY <1>1, OwnRow DEF Running
<1>3. CASE IsPrefix(RunTipOf(p), BranchOf(p)) /\ calls' = [calls EXCEPT ![p] = d]
           /\ UNCHANGED disk
  <2>1. RunTipOf(p) \in Seq(Commits) /\ RunTipOf(p) # <<>>
    BY <1>2, OwnTip
  <2>2. /\ d \in Call /\ d.pc = "landing" /\ d.item = c.item /\ d.copy = c.copy
        /\ d.knew = c.knew /\ d.tip = RunTipOf(p)
    BY <1>2, <2>1 DEF Call, PCs
  <2>3. BranchOf(p) = item_branches[c.item][RowIn(c).attempt_number]
    BY <1>2 DEF BranchOf
  <2> HIDE DEF d, c
  <2>4. RowIn(d) = RowIn(c)
    BY <2>2 DEF RowIn
  <2>5. PlaceOK(d, gates, run_branches, item_branches)
    BY <1>1, <1>2, <1>3, <2>1, <2>2, <2>3, <2>4 DEF PlaceOK, Running, InAttempt
  <2>6. CallOK(d, gates, run_branches, item_branches)
    BY <1>2, <2>2, <2>5 DEF CallOK, GateOK, Marking, Marked, Decided
  <2> QED
    BY <1>1, <1>3, <2>2, <2>4, <2>6, OwnStep DEF c, InAttempt
<1>4. CASE disk' = c.copy /\ calls' = [calls EXCEPT ![p] = Done]
  BY <1>1, <1>2, <1>4, SaveAndEnd
<1> QED
  BY <1>3, <1>4 DEF StartLanding, ReadRunTip, Continue, Save

\* update-ref itself.
LEMMA LandStep ==
  ASSUME IInv, NEW p \in Callers, Land(p)
  PROVE  Advances(p)
<1> DEFINE c == calls[p]
           b == c.copy.run_branch
           d == [c EXCEPT !.pc = "landed"]
<1>1. c.pc = "landing" /\ UNCHANGED <<gates, item_branches, adopted>>
  BY DEF Land, At
<1>2. /\ c \in Call /\ c.copy \in RunState /\ c.item \in Items /\ RowOf(p) = RowIn(c)
      /\ RowOf(p).attempt_number \in Attempts
      /\ StateOK(c.copy, gates) /\ LandedOK(c.copy, run_branches)
      /\ c.knew \subseteq Passed(c.copy)
      /\ PlaceOK(c, gates, run_branches, item_branches)
  BY <1>1, OwnRow DEF Running
<1>3. /\ GitOK(gates, run_branches, item_branches) /\ calls \in [Callers -> Call]
      /\ CallOK(c, gates, run_branches, item_branches)
  BY DEF IInv
<1>4. /\ b \in 1..Len(run_branches) /\ RunTipOf(p) = run_branches[b]
  BY <1>2, OwnTip
<1>5. BranchOf(p) = item_branches[c.item][RowIn(c).attempt_number]
      /\ BranchOf(p) \in Seq(Commits)
  BY <1>2, <1>3 DEF BranchOf, GitOK
<1>6. CASE /\ RunTipOf(p) = c.tip /\ run_branches' = [run_branches EXCEPT ![b] = BranchOf(p)]
           /\ calls' = [calls EXCEPT ![p] = d] /\ UNCHANGED disk
  <2>1. IsPrefix(run_branches[b], BranchOf(p))
    BY <1>1, <1>2, <1>4, <1>5, <1>6 DEF PlaceOK
  <2> HIDE DEF b
  <2>2. /\ GitOK(gates', run_branches', item_branches')
        /\ Onward(gates, run_branches, item_branches, gates', run_branches', item_branches')
        /\ run_branches'[b] = BranchOf(p)
    BY <1>1, <1>4, <1>5, <1>6, <2>1, RunBranchGrows
  <2>3. /\ d \in Call /\ d.pc = "landed" /\ d.item = c.item /\ d.copy = c.copy
        /\ d.knew = c.knew
    BY <1>2 DEF Call, PCs
  <2>4. calls'[p] = d /\ calls' = [calls EXCEPT ![p] = calls'[p]]
    BY <1>3, <1>6
  <2>5. c.pc \in InAttempt => gates'[c.item][RowIn(c).attempt_number] = "absent"
    BY <1>1, <1>2 DEF PlaceOK
  <2> HIDE DEF d, c
  <2>6. CallOK(c, gates', run_branches', item_branches')
    BY <1>3, <2>2, <2>5, OtherKeeps
  <2>7. RowIn(d) = RowIn(c)
    BY <2>3 DEF RowIn
  <2>8. PlaceOK(d, gates', run_branches', item_branches')
    BY <1>1, <1>5, <2>2, <2>3, <2>6, <2>7
       DEF CallOK, PlaceOK, Running, InAttempt, b
  <2>9. CallOK(d, gates', run_branches', item_branches')
    BY <1>1, <2>3, <2>6, <2>8 DEF CallOK, GateOK, Marking, Marked, Decided
  <2>10. \A q \in Callers \ {p} :
           /\ calls[q].pc \in InAttempt =>
                gates'[calls[q].item][RowIn(calls[q]).attempt_number] = "absent"
           /\ ~Clash(calls'[p], calls[q])
    BY <1>1, <2>3, <2>4, <2>7, OthersStay DEF c, InAttempt
  <2>11. IInv'
    BY <1>6, <2>2, <2>4, <2>9, <2>10, CallStep
  <2> QED
    BY <1>6, <2>2, <2>11 DEF Advances
<1>7. CASE disk' = c.copy /\ calls' = [calls EXCEPT ![p] = Done] /\ UNCHANGED run_branches
  BY <1>1, <1>2, <1>7, SaveAndEnd DEF git
<1> QED
  BY <1>6, <1>7 DEF Land, UpdateRef, Continue, Save

-----------------------------------------------------------------------------
(* A pass, or the decision at a gate, is recorded *)

\* The run state that settles the item: passed, with the attempt on the run branch,
\* or not, and then it was not passed before.
LEMMA SettledOK ==
  ASSUME IInv, NEW p \in Callers, calls[p].item \in Items,
         calls[p].pc # "branching",
         NEW s \in {"ST130", "ST140"}, NEW row \in Row,
         row.manual_gate = RowIn(calls[p]).manual_gate,
         row.terminal_state = "passed" =>
           /\ s = "ST130"
           /\ <<calls[p].item, row.attempt_number>>
                \in ToSet(run_branches[calls[p].copy.run_branch]),
         row.terminal_state # "passed" => RowIn(calls[p]).terminal_state # "passed",
         \A i \in Items :
           calls[p].copy.items[i].manual_gate # None =>
             gates[i][calls[p].copy.items[i].manual_gate] # "pending"
  PROVE  /\ StateOK(Moved(p, s, row), gates) /\ LandedOK(Moved(p, s, row), run_branches)
         /\ calls[p].knew \subseteq Passed(Moved(p, s, row))
<1> DEFINE c == calls[p]
           copy == Moved(p, s, row)
<1>1. CallOK(c, gates, run_branches, item_branches)
  BY DEF IInv
<1>2. /\ StateOK(c.copy, gates) /\ c.knew \subseteq Passed(c.copy)
      /\ LandedOK(c.copy, run_branches)
  BY <1>1 DEF CallOK
<1>3. s \in StateIds
  BY DEF StateIds
<1>4. /\ copy \in RunState /\ copy.current_state = s /\ copy.current_item_id = c.item
      /\ copy.run_branch = c.copy.run_branch /\ copy.items[c.item] = row
      /\ \A i \in Items \ {c.item} : copy.items[i] = c.copy.items[i]
  BY <1>3, MovedFields
<1> HIDE DEF copy
<1>5. \A i \in Items : copy.items[i].manual_gate = c.copy.items[i].manual_gate
  BY <1>4 DEF RowIn
<1>6. \A i \in Passed(copy) : i = c.item => s = "ST130"
  BY <1>4 DEF Passed
<1>7. StateOK(copy, gates)
  BY <1>2, <1>4, <1>5, <1>6 DEF StateOK
<1>8. Passed(c.copy) \subseteq Passed(copy)
  BY <1>4 DEF Passed, RowIn
<1>9. LandedOK(copy, run_branches)
  BY <1>2, <1>4 DEF LandedOK, LandedOn, Passed
<1> QED
  BY <1>2, <1>7, <1>8, <1>9 DEF copy

\* An attempt's pass, with the next item or the end after it.
LEMMA RecordPassStep ==
  ASSUME IInv, NEW p \in Callers, RecordPass(p)
  PROVE  Advances(p)
<1> DEFINE c == calls[p]
           row == [RowOf(p) EXCEPT !.terminal_state = "passed"]
           done == Moved(p, "ST130", row)
<1>1. c.pc = "landed" /\ UNCHANGED <<gates, git>>
  BY DEF RecordPass, At
<1>2. /\ c \in Call /\ c.item \in Items /\ RowOf(p) = RowIn(c) /\ RowOf(p) \in Row
      /\ StateOK(c.copy, gates) /\ PlaceOK(c, gates, run_branches, item_branches)
  BY <1>1, OwnRow DEF Running
<1>3. /\ row \in Row /\ row.terminal_state = "passed"
      /\ row.manual_gate = RowIn(c).manual_gate
      /\ row.attempt_number = RowIn(c).attempt_number
  BY <1>2 DEF Row, TerminalNames
<1>4. <<c.item, RowIn(c).attempt_number>> \in ToSet(run_branches[c.copy.run_branch])
      /\ c.copy.current_state # "ST110"
  BY <1>1, <1>2 DEF PlaceOK, Running
<1>5. \A i \in Items : c.copy.items[i].manual_gate # None =>
        gates[i][c.copy.items[i].manual_gate] # "pending"
  BY <1>2, <1>4 DEF StateOK
<1> HIDE DEF row
<1>6. /\ StateOK(done, gates) /\ LandedOK(done, run_branches)
      /\ c.knew \subseteq Passed(done)
  BY <1>1, <1>2, <1>3, <1>4, <1>5, SettledOK
<1>7. done \in RunState /\ done.current_state = "ST130"
  <2>1. "ST130" \in StateIds
    BY DEF StateIds
  <2> QED
    BY <1>2, <1>3, <2>1, MovedFields
<1>8. CASE disk' = done /\ calls' = [calls EXCEPT ![p] = Done]
  BY <1>1, <1>6, <1>8, SaveAndEnd
<1>9. ASSUME disk' = done, NEW i \in Items, FirstUnfinished(i, done.items),
             calls' = [calls EXCEPT ![p] = [c EXCEPT !.copy = done, !.item = i,
                         !.evidence = FALSE, !.tip = NoHistory, !.pc = "select"]]
      PROVE  Advances(p)
  <2> DEFINE d == [c EXCEPT !.copy = done, !.item = i, !.evidence = FALSE,
                            !.tip = NoHistory, !.pc = "select"]
  <2> HIDE DEF done
  <2>1. NoHistory \in Seq(Commits) /\ i \in 0..NumItems /\ "select" \in PCs
    BY DEF NoHistory, Items, PCs
  <2>2. d \in Call /\ d.pc = "select" /\ d.item = i /\ d.copy = done /\ d.knew = c.knew
    BY <1>2, <1>7, <2>1 DEF Call
  <2>3. calls'[p] = d /\ calls' = [calls EXCEPT ![p] = calls'[p]]
    BY <1>9 DEF IInv
  <2> HIDE DEF d, c
  <2>4. RowIn(d).terminal_state # "passed"
    BY <1>9, <2>2 DEF RowIn, FirstUnfinished
  <2>5. CallOK(d, gates, run_branches, item_branches)
    BY <1>6, <1>7, <2>2, <2>4
       DEF CallOK, PlaceOK, GateOK, InAttempt, Marking, Marked, Decided
  <2>6. d.pc \notin InAttempt
    BY <2>2 DEF InAttempt
  <2>7. /\ IInv'
        /\ Onward(gates, run_branches, item_branches, gates', run_branches', item_branches')
    BY <1>1, <1>6, <1>9, <2>3, <2>5, <2>6, QuietStep
  <2> QED
    BY <1>1, <1>6, <1>9, <2>2, <2>3, <2>7 DEF Advances, c
<1>10. RecordPass(p)
  OBVIOUS
<1> QED
  BY <1>8, <1>9, <1>10 DEF RecordPass, Save, Continue, row

\* A gate's file that is written.
LEMMA GateGrows ==
  ASSUME IInv, NEW i \in Items, NEW a \in Attempts,
         NEW status \in {"pending", "approved", "rejected"},
         gates' = [gates EXCEPT ![i][a] = status], UNCHANGED git,
         status = "pending" => gates[i][a] = "absent",
         <<i, a>> \in ToSet(item_branches[i][a])
  PROVE  /\ GitOK(gates', run_branches', item_branches')
         /\ Onward(gates, run_branches, item_branches, gates', run_branches', item_branches')
         /\ gates'[i][a] = status
         /\ \A j \in Items, b \in Attempts :
              i # j \/ a # b => gates'[j][b] = gates[j][b]
<1>1. GitOK(gates, run_branches, item_branches)
  BY DEF IInv
<1>2. Onward(gates, run_branches, item_branches, gates, run_branches, item_branches)
  BY <1>1, OnwardSelf
<1>3. run_branches' = run_branches /\ item_branches' = item_branches
  BY DEF git
<1>4. gates \in [Items -> [Attempts -> {"absent", "pending", "approved", "rejected"}]]
  BY <1>1 DEF GitOK
<1>5. /\ gates' \in [Items -> [Attempts -> {"absent", "pending", "approved", "rejected"}]]
      /\ gates'[i][a] = status
      /\ \A j \in Items, b \in Attempts :
           i # j \/ a # b => gates'[j][b] = gates[j][b]
  BY <1>4
<1>6. GitOK(gates', run_branches', item_branches')
  BY <1>1, <1>3, <1>5 DEF GitOK
<1>7. \A j \in Items, b \in Attempts :
        /\ gates'[j][b] = "absent" => gates[j][b] = "absent"
        /\ gates'[j][b] = "pending" => gates[j][b] \in {"absent", "pending"}
  BY <1>5
<1>8. Onward(gates, run_branches, item_branches, gates', run_branches', item_branches')
  BY <1>2, <1>3, <1>7 DEF Onward
<1> QED
  BY <1>5, <1>6, <1>8

\* The gate's file is written while the command still holds the attempt, and the
\* file that names it with it.
LEMMA WriteGateStep ==
  ASSUME IInv, NEW p \in Callers, WriteGate(p)
  PROVE  Advances(p)
<1> DEFINE c == calls[p]
           i == c.item
           a == RowOf(p).attempt_number
           row == [RowOf(p) EXCEPT !.terminal_state = "awaiting_human_gate",
                                   !.manual_gate = a]
           copy == Moved(p, "ST110", row)
<1>1. c.pc = "gated" /\ UNCHANGED git
  BY DEF WriteGate, At
<1>2. /\ c \in Call /\ c.copy \in RunState /\ i \in Items /\ RowOf(p) = RowIn(c)
      /\ RowOf(p) \in Row /\ a \in Attempts
      /\ StateOK(c.copy, gates) /\ LandedOK(c.copy, run_branches)
      /\ c.knew \subseteq Passed(c.copy)
      /\ PlaceOK(c, gates, run_branches, item_branches)
  BY <1>1, OwnRow
<1>3. /\ calls \in [Callers -> Call] /\ CallOK(c, gates, run_branches, item_branches)
      /\ \A q \in Callers \ {p} : ~Clash(c, calls[q])
      /\ \A q \in Callers : CallOK(calls[q], gates, run_branches, item_branches)
      /\ GitOK(gates, run_branches, item_branches)
  BY DEF IInv
<1>4. /\ gates' = [gates EXCEPT ![i][a] = "pending"]
      /\ disk' = copy /\ calls' = [calls EXCEPT ![p] = Done]
  BY DEF WriteGate, Save, Continue
<1>5. /\ gates[i][a] = "absent" /\ <<i, a>> \in ToSet(item_branches[i][a])
      /\ c.copy.current_item_id = i /\ RowIn(c).terminal_state # "passed"
  BY <1>1, <1>2 DEF PlaceOK, InAttempt
<1>6. /\ row \in Row /\ row.terminal_state = "awaiting_human_gate"
      /\ row.manual_gate = a /\ row.attempt_number = a
  <2> DEFINE old == RowOf(p)
  <2>1. old \in Row /\ old.attempt_number \in 0..MaxAttempts
    BY <1>2, CommandsAssumption DEF Attempts
  <2>2. "awaiting_human_gate" \in TerminalNames
    BY DEF TerminalNames
  <2> HIDE DEF old
  <2>3. row = [old EXCEPT !.terminal_state = "awaiting_human_gate",
                          !.manual_gate = old.attempt_number]
    BY DEF old
  <2>4. a = old.attempt_number
    BY DEF old
  <2> HIDE DEF row, a
  <2> QED
    BY <2>1, <2>2, <2>3, <2>4 DEF Row
<1> HIDE DEF row
<1>7. /\ copy \in RunState /\ copy.current_state = "ST110" /\ copy.current_item_id = i
      /\ copy.run_branch = c.copy.run_branch /\ copy.items[i] = row
      /\ \A j \in Items \ {i} : copy.items[j] = c.copy.items[j]
  <2>1. "ST110" \in StateIds
    BY DEF StateIds
  <2> QED
    BY <1>2, <1>6, <2>1, MovedFields
<1> HIDE DEF copy, a, i
<1>8. /\ GitOK(gates', run_branches', item_branches')
      /\ Onward(gates, run_branches, item_branches, gates', run_branches', item_branches')
      /\ gates'[i][a] = "pending"
      /\ \A j \in Items, b \in Attempts :
           i # j \/ a # b => gates'[j][b] = gates[j][b]
  BY <1>1, <1>2, <1>4, <1>5, GateGrows
<1>9. StateOK(copy, gates')
  <2>1. ASSUME NEW j \in Items \ {i}, copy.items[j].manual_gate # None
        PROVE  /\ gates'[j][copy.items[j].manual_gate] # "absent"
               /\ gates'[j][copy.items[j].manual_gate] # "pending"
    <3>1. copy.items[j].manual_gate \in Attempts
      BY <1>7, <2>1, RowType
    <3>2. gates'[j][copy.items[j].manual_gate] = gates[j][copy.items[j].manual_gate]
      BY <1>8, <3>1
    <3> QED
      BY <1>2, <1>5, <1>7, <2>1, <3>2 DEF StateOK
  <2> QED
    BY <1>6, <1>7, <1>8, <2>1 DEF StateOK
<1>10. Passed(copy) = Passed(c.copy)
  BY <1>5, <1>6, <1>7 DEF Passed, RowIn, i
<1>11. LandedOK(copy, run_branches')
  BY <1>1, <1>2, <1>6, <1>7, <1>10 DEF LandedOK, LandedOn, Passed, git
<1>12. calls'[p] = Done /\ calls' = [calls EXCEPT ![p] = calls'[p]]
  BY <1>3, <1>4
<1>13. CallOK(Done, gates', run_branches', item_branches') /\ Done.pc = "done"
  BY <1>8, RestOK
<1>14. ASSUME NEW q \in Callers \ {p}
       PROVE  /\ calls[q].pc \in InAttempt =>
                   gates'[calls[q].item][RowIn(calls[q]).attempt_number] = "absent"
              /\ ~Clash(calls'[p], calls[q])
  <2>1. ~Clash(calls'[p], calls[q])
    BY <1>12, <1>13 DEF Clash, InAttempt
  <2>2. CASE calls[q].pc \in InAttempt
    <3>1. calls[q].item # i \/ RowIn(calls[q]).attempt_number # a
      BY <1>1, <1>2, <1>3, <2>2 DEF Clash, InAttempt, i, a
    <3>2. calls[q].pc \in Running \cup {"gated"}
      BY <2>2 DEF InAttempt, Running
    <3>3. calls[q].item \in Items /\ RowIn(calls[q]).attempt_number \in Attempts
      BY <3>2, OwnRow
    <3>4. gates[calls[q].item][RowIn(calls[q]).attempt_number] = "absent"
      BY <1>3, <2>2 DEF CallOK, PlaceOK
    <3> QED
      BY <1>8, <2>1, <3>1, <3>3, <3>4
  <2> QED
    BY <2>1, <2>2
<1>15. IInv'
  BY <1>4, <1>8, <1>9, <1>11, <1>12, <1>13, <1>14, CallStep
<1> QED
  BY <1>1, <1>2, <1>4, <1>8, <1>10, <1>12, <1>13, <1>15 DEF Advances

-----------------------------------------------------------------------------
(* mark_manual_gate *)

LEMMA MarkGateStep ==
  ASSUME IInv, NEW p \in Callers, NEW i \in Items,
         NEW outcome \in {"approved", "rejected"}, MarkGate(p, i, outcome)
  PROVE  Advances(p)
<1> DEFINE c == [Load(NoCall) EXCEPT !.pc = "marking", !.item = i, !.outcome = outcome]
<1>1. /\ disk.items[i].manual_gate # None /\ calls' = [calls EXCEPT ![p] = c]
      /\ UNCHANGED <<disk, gates, git>>
  BY DEF MarkGate, Continue
<1>2. /\ GitOK(gates, run_branches, item_branches)
      /\ StateOK(disk, gates) /\ LandedOK(disk, run_branches) /\ disk \in RunState
  BY DEF IInv, StateOK
<1>3. NoCall \in Call
  BY <1>2, RestOK DEF CallOK
<1>4. i \in 0..NumItems /\ Passed(disk) \in SUBSET Items /\ "marking" \in PCs
  BY DEF Items, Passed, PCs
<1>5. /\ c \in Call /\ c.pc = "marking" /\ c.item = i /\ c.copy = disk
      /\ c.knew = Passed(disk)
  BY <1>2, <1>3, <1>4 DEF Load, Call
<1> HIDE DEF c
<1>6. CallOK(c, gates, run_branches, item_branches)
  BY <1>1, <1>2, <1>5
     DEF CallOK, PlaceOK, GateOK, RowIn, Running, InAttempt, Marking, Marked, Decided
<1>7. c.pc \notin InAttempt
  BY <1>5 DEF InAttempt
<1> QED
  BY <1>1, <1>6, <1>7, OwnStep

\* A pending gate is of the copy's current item and its last attempt.
LEMMA CheckPendingStep ==
  ASSUME IInv, NEW p \in Callers, CheckPending(p)
  PROVE  Advances(p)
<1> DEFINE c == calls[p]
           d == [c EXCEPT !.pc = "marked"]
<1>1. c.pc = "marking" /\ UNCHANGED <<disk, gates, git>>
  BY DEF CheckPending, At
<1>2. /\ c \in Call /\ c.item \in Items /\ RowOf(p) = RowIn(c)
      /\ StateOK(c.copy, gates) /\ LandedOK(c.copy, run_branches)
      /\ c.knew \subseteq Passed(c.copy) /\ RowIn(c).manual_gate # None
  BY <1>1, OwnRow DEF Marking, GateOK
<1>3. CASE GateStatus(p) = "pending" /\ calls' = [calls EXCEPT ![p] = d]
  <2>1. /\ c.copy.current_item_id = c.item
        /\ RowIn(c).attempt_number = RowIn(c).manual_gate
        /\ RowIn(c).terminal_state # "passed"
    BY <1>2, <1>3 DEF GateStatus, StateOK, RowIn
  <2>2. /\ d \in Call /\ d.pc = "marked" /\ d.item = c.item /\ d.copy = c.copy
        /\ d.knew = c.knew
    BY <1>2 DEF Call, PCs
  <2> HIDE DEF d, c
  <2>3. RowIn(d) = RowIn(c)
    BY <2>2 DEF RowIn
  <2>4. CallOK(d, gates, run_branches, item_branches)
    BY <1>2, <2>1, <2>2, <2>3
       DEF CallOK, PlaceOK, GateOK, Running, InAttempt, Marking, Marked, Decided
  <2>5. d.pc \notin InAttempt
    BY <2>2 DEF InAttempt
  <2> QED
    BY <1>1, <1>3, <2>4, <2>5, OwnStep
<1>4. CASE Return(p)
  BY <1>1, <1>4, ReturnStep
<1> QED
  BY <1>3, <1>4 DEF CheckPending, Continue

\* The decision reaches the gate's file first.
LEMMA WriteDecisionStep ==
  ASSUME IInv, NEW p \in Callers, WriteDecision(p)
  PROVE  Advances(p)
<1> DEFINE c == calls[p]
           i == c.item
           m == RowOf(p).manual_gate
           d == [c EXCEPT !.pc = c.outcome]
<1>1. c.pc = "marked" /\ UNCHANGED <<disk, git>>
  BY DEF WriteDecision, At
<1>2. /\ c \in Call /\ i \in Items /\ RowOf(p) = RowIn(c) /\ m \in Attempts
      /\ StateOK(c.copy, gates) /\ GateOK(c, gates, run_branches, item_branches)
      /\ m # None
  <2>1. c.pc \in Marking
    BY <1>1 DEF Marking, Marked
  <2> QED
    BY <1>1, <2>1, OwnRow DEF GateOK
<1>3. /\ calls \in [Callers -> Call] /\ CallOK(c, gates, run_branches, item_branches)
      /\ \A q \in Callers : CallOK(calls[q], gates, run_branches, item_branches)
      /\ GitOK(gates, run_branches, item_branches)
  BY DEF IInv
<1>4. /\ gates' = [gates EXCEPT ![i][m] = c.outcome] /\ calls' = [calls EXCEPT ![p] = d]
  BY DEF WriteDecision, Continue
<1>5. gates[i][m] # "absent"
  BY <1>2 DEF StateOK, RowIn
<1>6. <<i, m>> \in ToSet(item_branches[i][m]) /\ c.outcome \in {"approved", "rejected"}
  BY <1>2, <1>3, <1>5 DEF GitOK, Call
<1> HIDE DEF i, m
<1>7. /\ GitOK(gates', run_branches', item_branches')
      /\ Onward(gates, run_branches, item_branches, gates', run_branches', item_branches')
      /\ gates'[i][m] = c.outcome
      /\ \A j \in Items, b \in Attempts :
           i # j \/ m # b => gates'[j][b] = gates[j][b]
  BY <1>1, <1>2, <1>4, <1>6, GateGrows
<1>8. CallOK(c, gates', run_branches', item_branches')
  BY <1>1, <1>3, <1>7, OtherKeeps DEF InAttempt
<1>9. /\ d \in Call /\ d.pc = c.outcome /\ d.item = c.item /\ d.copy = c.copy
      /\ d.knew = c.knew
  BY <1>2, <1>6 DEF Call, PCs
<1>10. calls'[p] = d /\ calls' = [calls EXCEPT ![p] = calls'[p]]
  BY <1>3, <1>4
<1> HIDE DEF d
<1>11. RowIn(d) = RowIn(c)
  BY <1>9 DEF RowIn
<1>12. GateOK(d, gates', run_branches', item_branches')
  <2>1. gates'[d.item][RowIn(d).manual_gate] = d.pc
    BY <1>2, <1>7, <1>9, <1>11 DEF i, m
  <2> QED
    BY <1>1, <1>6, <1>8, <1>9, <1>11, <2>1 DEF CallOK, GateOK, Marking, Marked, Decided
<1>13. CallOK(d, gates', run_branches', item_branches')
  BY <1>1, <1>6, <1>8, <1>9, <1>12 DEF CallOK, PlaceOK, Running, InAttempt
<1>14. ASSUME NEW q \in Callers \ {p}
       PROVE  /\ calls[q].pc \in InAttempt =>
                   gates'[calls[q].item][RowIn(calls[q]).attempt_number] = "absent"
              /\ ~Clash(calls'[p], calls[q])
  <2>1. ~Clash(calls'[p], calls[q])
    BY <1>6, <1>9, <1>10 DEF Clash, InAttempt
  <2>2. CASE calls[q].pc \in InAttempt
    <3>1. calls[q].pc \in Running \cup {"gated"}
      BY <2>2 DEF InAttempt, Running
    <3>2. calls[q].item \in Items /\ RowIn(calls[q]).attempt_number \in Attempts
      BY <3>1, OwnRow
    <3>3. gates[calls[q].item][RowIn(calls[q]).attempt_number] = "absent"
      BY <1>3, <2>2 DEF CallOK, PlaceOK
    <3>4. calls[q].item # i \/ RowIn(calls[q]).attempt_number # m
      BY <1>5, <3>3 DEF i, m
    <3> QED
      BY <1>7, <2>1, <3>2, <3>3, <3>4
  <2> QED
    BY <2>1, <2>2
<1>15. IInv'
  BY <1>1, <1>7, <1>10, <1>13, <1>14, CallStep
<1> QED
  BY <1>1, <1>7, <1>15 DEF Advances

LEMMA StartApprovalStep ==
  ASSUME IInv, NEW p \in Callers, StartApproval(p)
  PROVE  Advances(p)
<1> DEFINE c == calls[p]
           d == [c EXCEPT !.tip = RunTipOf(p), !.pc = "approving"]
<1>1. c.pc = "approved" /\ UNCHANGED <<gates, git>>
  BY DEF StartApproval, At
<1>2. /\ c \in Call /\ c.copy \in RunState /\ c.item \in Items /\ RowOf(p) = RowIn(c)
      /\ StateOK(c.copy, gates) /\ LandedOK(c.copy, run_branches)
      /\ c.knew \subseteq Passed(c.copy)
      /\ GateOK(c, gates, run_branches, item_branches)
  BY <1>1, OwnRow DEF Marking, Marked, Decided
<1>3. CASE IsPrefix(RunTipOf(p), GateCommit(p)) /\ calls' = [calls EXCEPT ![p] = d]
           /\ UNCHANGED disk
  <2>1. RunTipOf(p) \in Seq(Commits) /\ RunTipOf(p) # <<>>
    BY <1>2, OwnTip
  <2>2. /\ d \in Call /\ d.pc = "approving" /\ d.item = c.item /\ d.copy = c.copy
        /\ d.knew = c.knew /\ d.tip = RunTipOf(p)
    BY <1>2, <2>1 DEF Call, PCs
  <2>3. GateCommit(p) = item_branches[c.item][RowIn(c).manual_gate]
    BY <1>2 DEF GateCommit
  <2> HIDE DEF d, c
  <2>4. RowIn(d) = RowIn(c)
    BY <2>2 DEF RowIn
  <2>5. GateOK(d, gates, run_branches, item_branches)
    BY <1>1, <1>2, <1>3, <2>1, <2>2, <2>3, <2>4 DEF GateOK, Marking, Marked, Decided
  <2>6. CallOK(d, gates, run_branches, item_branches)
    BY <1>2, <2>2, <2>5 DEF CallOK, PlaceOK, Running, InAttempt
  <2>7. d.pc \notin InAttempt
    BY <2>2 DEF InAttempt
  <2> QED
    BY <1>1, <1>3, <2>6, <2>7, OwnStep
<1>4. CASE Return(p) /\ UNCHANGED disk
  BY <1>1, <1>4, ReturnStep
<1> QED
  BY <1>3, <1>4 DEF StartApproval, ReadRunTip, Continue

\* What lands is the commit the gate stands for.
LEMMA LandApprovedStep ==
  ASSUME IInv, NEW p \in Callers, LandApproved(p)
  PROVE  Advances(p)
<1> DEFINE c == calls[p]
           b == c.copy.run_branch
           m == RowIn(c).manual_gate
           d == [c EXCEPT !.pc = "accepted"]
<1>1. c.pc = "approving" /\ UNCHANGED <<gates, item_branches, adopted>>
  BY DEF LandApproved, At
<1>2. /\ c \in Call /\ c.copy \in RunState /\ c.item \in Items /\ RowOf(p) = RowIn(c)
      /\ m \in Attempts /\ m # None
      /\ StateOK(c.copy, gates) /\ LandedOK(c.copy, run_branches)
      /\ GateOK(c, gates, run_branches, item_branches)
  <2>1. c.pc \in Marking
    BY <1>1 DEF Marking, Marked, Decided
  <2> QED
    BY <2>1, OwnRow DEF GateOK
<1>3. /\ GitOK(gates, run_branches, item_branches) /\ calls \in [Callers -> Call]
      /\ CallOK(c, gates, run_branches, item_branches)
  BY DEF IInv
<1>4. /\ b \in 1..Len(run_branches) /\ RunTipOf(p) = run_branches[b]
  BY <1>2, OwnTip
<1>5. GateCommit(p) = item_branches[c.item][m] /\ GateCommit(p) \in Seq(Commits)
  BY <1>2, <1>3 DEF GateCommit, GitOK
<1>6. CASE /\ RunTipOf(p) = c.tip
           /\ run_branches' = [run_branches EXCEPT ![b] = GateCommit(p)]
           /\ calls' = [calls EXCEPT ![p] = d] /\ UNCHANGED disk
  <2>1. IsPrefix(run_branches[b], GateCommit(p))
    BY <1>1, <1>2, <1>4, <1>5, <1>6 DEF GateOK
  <2>2. gates[c.item][m] # "absent"
    BY <1>2 DEF StateOK, RowIn
  <2>3. <<c.item, m>> \in ToSet(GateCommit(p))
    BY <1>2, <1>3, <1>5, <2>2 DEF GitOK
  <2> HIDE DEF b
  <2>4. /\ GitOK(gates', run_branches', item_branches')
        /\ Onward(gates, run_branches, item_branches, gates', run_branches', item_branches')
        /\ run_branches'[b] = GateCommit(p)
    BY <1>1, <1>4, <1>5, <1>6, <2>1, RunBranchGrows
  <2>5. /\ d \in Call /\ d.pc = "accepted" /\ d.item = c.item /\ d.copy = c.copy
        /\ d.knew = c.knew
    BY <1>2 DEF Call, PCs
  <2>6. calls'[p] = d /\ calls' = [calls EXCEPT ![p] = calls'[p]]
    BY <1>3, <1>6
  <2> HIDE DEF d, c, m
  <2>7. CallOK(c, gates', run_branches', item_branches')
    BY <1>1, <1>3, <2>4, OtherKeeps DEF InAttempt
  <2>8. RowIn(d) = RowIn(c)
    BY <2>5 DEF RowIn
  <2>9. GateOK(d, gates', run_branches', item_branches')
    BY <1>1, <2>3, <2>4, <2>5, <2>7, <2>8
       DEF CallOK, GateOK, Marking, Marked, Decided, b, m
  <2>10. CallOK(d, gates', run_branches', item_branches')
    BY <1>1, <2>5, <2>7, <2>9 DEF CallOK, PlaceOK, Running, InAttempt
  <2>11. \A q \in Callers \ {p} :
           /\ calls[q].pc \in InAttempt =>
                gates'[calls[q].item][RowIn(calls[q]).attempt_number] = "absent"
           /\ ~Clash(calls'[p], calls[q])
    BY <1>1, <2>5, <2>6, OthersStay DEF InAttempt
  <2>12. IInv'
    BY <1>6, <2>4, <2>6, <2>10, <2>11, CallStep
  <2> QED
    BY <1>6, <2>4, <2>12 DEF Advances
<1>7. CASE Return(p) /\ UNCHANGED <<disk, run_branches>>
  BY <1>1, <1>7, ReturnStep DEF git
<1> QED
  BY <1>6, <1>7 DEF LandApproved, UpdateRef, Continue

\* The decision in the run state, after the gate's file and, for an approval, git.
LEMMA RecordDecisionStep ==
  ASSUME IInv, NEW p \in Callers, RecordApproval(p) \/ RecordRejection(p)
  PROVE  Advances(p)
<1> DEFINE c == calls[p]
<1>1. PICK s \in {"ST130", "ST140"}, t \in {"passed", "escalated"} :
        /\ c.pc \in {"accepted", "rejected"} /\ UNCHANGED <<gates, git>>
        /\ t = "passed" => s = "ST130" /\ c.pc = "accepted"
        /\ disk' = Moved(p, s, [RowOf(p) EXCEPT !.terminal_state = t])
        /\ calls' = [calls EXCEPT ![p] = Done]
  BY DEF RecordApproval, RecordRejection, RecordDecision, At, Save, Continue
<1> DEFINE row == [RowOf(p) EXCEPT !.terminal_state = t]
           copy == Moved(p, s, row)
<1>2. /\ c.item \in Items /\ RowOf(p) = RowIn(c) /\ RowOf(p) \in Row
      /\ StateOK(c.copy, gates) /\ GateOK(c, gates, run_branches, item_branches)
  <2>1. c.pc \in Marking
    BY <1>1 DEF Marking, Marked, Decided
  <2> QED
    BY <2>1, OwnRow
<1>3. /\ row \in Row /\ row.terminal_state = t /\ row.manual_gate = RowIn(c).manual_gate
      /\ row.attempt_number = RowIn(c).attempt_number
  BY <1>2 DEF Row, TerminalNames
<1>4. /\ RowIn(c).manual_gate = RowIn(c).attempt_number
      /\ c.copy.current_item_id = c.item /\ RowIn(c).terminal_state # "passed"
      /\ gates[c.item][RowIn(c).manual_gate] # "pending"
      /\ c.pc = "accepted" =>
           <<c.item, RowIn(c).manual_gate>> \in ToSet(run_branches[c.copy.run_branch])
  BY <1>1, <1>2 DEF GateOK, Marking, Marked, Decided
<1>5. \A i \in Items : c.copy.items[i].manual_gate # None =>
        gates[i][c.copy.items[i].manual_gate] # "pending"
  BY <1>2, <1>4 DEF StateOK, RowIn
<1> HIDE DEF row
<1>6. /\ StateOK(copy, gates) /\ LandedOK(copy, run_branches)
      /\ c.knew \subseteq Passed(copy)
  BY <1>1, <1>2, <1>3, <1>4, <1>5, SettledOK
<1> QED
  BY <1>1, <1>6, SaveAndEnd DEF row

-----------------------------------------------------------------------------
(* refresh_run *)

LEMMA RefreshRunStep ==
  ASSUME IInv, NEW p \in Callers, RefreshRun(p)
  PROVE  Advances(p)
<1> DEFINE c == [Load(NoCall) EXCEPT !.pc = "retargeting"]
<1>1. calls' = [calls EXCEPT ![p] = c] /\ UNCHANGED <<disk, gates, git>>
  BY DEF RefreshRun, Continue
<1>2. /\ GitOK(gates, run_branches, item_branches)
      /\ StateOK(disk, gates) /\ LandedOK(disk, run_branches) /\ disk \in RunState
  BY DEF IInv, StateOK
<1>3. NoCall \in Call
  BY <1>2, RestOK DEF CallOK
<1>4. Passed(disk) \in SUBSET Items /\ "retargeting" \in PCs
  BY DEF Passed, PCs
<1>5. c \in Call /\ c.pc = "retargeting" /\ c.copy = disk /\ c.knew = Passed(disk)
  BY <1>2, <1>3, <1>4 DEF Load, Call
<1> HIDE DEF c
<1>6. CallOK(c, gates, run_branches, item_branches)
  BY <1>2, <1>5
     DEF CallOK, PlaceOK, GateOK, Running, InAttempt, Marking, Marked, Decided
<1>7. c.pc \notin InAttempt
  BY <1>5 DEF InAttempt
<1> QED
  BY <1>1, <1>6, <1>7, OwnStep

\* Whatever a ref names is a history, and not an empty one.
LEMMA RefTypes ==
  ASSUME GitOK(gates, run_branches, item_branches)
  PROVE  \A target \in Refs : target \in Seq(Commits) /\ target # <<>>
<1> DEFINE known == UNION {{SubSeq(h, 1, n) : n \in 1..Len(h)} : h \in Branches}
           commit == <<None, Len(run_branches)>>
<1>1. \A h \in Branches : h \in Seq(Commits)
  BY DEF Branches, GitOK, ToSet
<1>2. ASSUME NEW s \in known PROVE s \in Seq(Commits) /\ s # <<>>
  <2>1. PICK h \in Branches : \E n \in 1..Len(h) : s = SubSeq(h, 1, n)
    OBVIOUS
  <2>2. PICK n \in 1..Len(h) : s = SubSeq(h, 1, n)
    BY <2>1
  <2>3. h \in Seq(Commits)
    BY <1>1
  <2>4. s \in Seq(Commits) /\ Len(s) = n /\ n # 0
    BY <2>2, <2>3
  <2> QED
    BY <2>4, EmptyHasNoPlace
<1>3. commit \in Commits
  <2>1. Len(run_branches) \in Nat
    BY DEF GitOK
  <2> QED
    BY <2>1, CommandsAssumption DEF Commits, None
<1> HIDE DEF known, commit
<1>4. \A s \in known : Append(s, commit) \in Seq(Commits) /\ Append(s, commit) # <<>>
  BY <1>2, <1>3, PrefixAppend
<1>5. Refs = known \cup {Append(s, commit) : s \in known}
  BY DEF Refs, known, commit
<1> QED
  BY <1>2, <1>4, <1>5

\* The target has what the run branch of the copy has, so it has what the copy calls
\* passed.
LEMMA ChooseTargetStep ==
  ASSUME IInv, NEW p \in Callers, ChooseTarget(p)
  PROVE  Advances(p)
<1> DEFINE c == calls[p]
<1>1. PICK target \in Refs :
        /\ IsPrefix(RunTipOf(p), target)
        /\ calls' = [calls EXCEPT ![p] = [c EXCEPT !.target = target, !.tip = RunTipOf(p),
                                                   !.pc = "naming"]]
  BY DEF ChooseTarget, Continue
<1>2. c.pc = "retargeting" /\ UNCHANGED <<disk, gates, git>>
  BY DEF ChooseTarget, At
<1>3. /\ CallOK(c, gates, run_branches, item_branches) /\ c \in Call
      /\ c.copy \in RunState /\ GitOK(gates, run_branches, item_branches)
  BY DEF IInv, CallOK, Call
<1>4. /\ StateOK(c.copy, gates) /\ LandedOK(c.copy, run_branches)
      /\ c.knew \subseteq Passed(c.copy)
  BY <1>2, <1>3 DEF CallOK
<1>5. /\ RunTipOf(p) = run_branches[c.copy.run_branch]
      /\ RunTipOf(p) \in Seq(Commits) /\ RunTipOf(p) # <<>>
  BY <1>3, <1>4, OwnTip
<1>6. target \in Seq(Commits) /\ target # <<>>
  BY <1>3, RefTypes
<1>7. ToSet(RunTipOf(p)) \subseteq ToSet(target)
  BY <1>1, <1>5, <1>6, PrefixMembers
<1> DEFINE d == [c EXCEPT !.target = target, !.tip = RunTipOf(p), !.pc = "naming"]
<1>8. "naming" \in PCs
  BY DEF PCs
<1>9. /\ d \in Call /\ d.pc = "naming" /\ d.target = target /\ d.copy = c.copy
      /\ d.knew = c.knew
  BY <1>3, <1>5, <1>6, <1>8 DEF Call
<1>10. calls' = [calls EXCEPT ![p] = d]
  BY <1>1
<1> HIDE DEF d, c
<1>11. LandedOn(d.copy, d.target)
  BY <1>4, <1>5, <1>7, <1>9 DEF LandedOK, LandedOn
<1>12. CallOK(d, gates, run_branches, item_branches)
  BY <1>4, <1>6, <1>9, <1>11
     DEF CallOK, PlaceOK, GateOK, Running, InAttempt, Marking, Marked, Decided
<1>13. d.pc \notin InAttempt
  BY <1>9 DEF InAttempt
<1> QED
  BY <1>2, <1>10, <1>12, <1>13, OwnStep

\* From here the copy names a branch that is still to be made.
LEMMA FindNameStep ==
  ASSUME IInv, NEW p \in Callers, FindName(p)
  PROVE  Advances(p)
<1> DEFINE c == calls[p]
           n == Len(run_branches) + 1
           copy == [c.copy EXCEPT !.run_branch = n]
           d == [c EXCEPT !.item = None, !.pc = "branching", !.copy.run_branch = n]
<1>1. /\ c.pc = "naming" /\ UNCHANGED <<disk, gates, git>>
      /\ Len(run_branches) <= MaxRefreshes /\ calls' = [calls EXCEPT ![p] = d]
  BY DEF FindName, At, Continue
<1>2. /\ CallOK(c, gates, run_branches, item_branches) /\ c \in Call
      /\ c.copy \in RunState /\ GitOK(gates, run_branches, item_branches)
  BY DEF IInv, CallOK, Call
<1>3. /\ StateOK(c.copy, gates) /\ c.knew \subseteq Passed(c.copy)
      /\ c.target # <<>> /\ LandedOn(c.copy, c.target)
  BY <1>1, <1>2 DEF CallOK
<1>4. Len(run_branches) \in Nat
  BY <1>2 DEF GitOK
<1>5. n \in 1..(MaxRefreshes + 1) /\ None \in 0..NumItems /\ "branching" \in PCs
  BY <1>1, <1>4, CommandsAssumption DEF None, PCs
<1> HIDE DEF n
<1>6. /\ copy \in RunState /\ copy.items = c.copy.items
      /\ copy.current_state = c.copy.current_state
      /\ copy.current_item_id = c.copy.current_item_id
  BY <1>2, <1>5 DEF RunState
<1>7. d = [c EXCEPT !.item = None, !.pc = "branching", !.copy = copy]
  BY <1>2 DEF Call
<1> HIDE DEF copy, d
<1>8. /\ d \in Call /\ d.pc = "branching" /\ d.target = c.target /\ d.copy = copy
      /\ d.knew = c.knew
  BY <1>2, <1>5, <1>6, <1>7 DEF Call
<1>9. StateOK(copy, gates) /\ Passed(copy) = Passed(c.copy)
  BY <1>3, <1>6 DEF StateOK, Passed
<1>10. LandedOn(copy, c.target)
  BY <1>3, <1>6, <1>9 DEF LandedOn
<1>11. CallOK(d, gates, run_branches, item_branches)
  BY <1>3, <1>8, <1>9, <1>10
     DEF CallOK, PlaceOK, GateOK, Running, InAttempt, Marking, Marked, Decided
<1>12. calls' = [calls EXCEPT ![p] = d]
  BY <1>1 DEF d
<1>13. d.pc \notin InAttempt
  BY <1>8 DEF InAttempt
<1> QED
  BY <1>1, <1>11, <1>12, <1>13, OwnStep

LEMMA CreateBranchStep ==
  ASSUME IInv, NEW p \in Callers, CreateBranch(p)
  PROVE  Advances(p)
<1> DEFINE c == calls[p]
           d == [c EXCEPT !.pc = "refreshed"]
<1>1. c.pc = "branching" /\ UNCHANGED <<disk, item_branches, gates>>
  BY DEF CreateBranch, At
<1>2. /\ GitOK(gates, run_branches, item_branches) /\ calls \in [Callers -> Call]
      /\ CallOK(c, gates, run_branches, item_branches) /\ c \in Call
  BY DEF IInv, CallOK
<1>3. /\ StateOK(c.copy, gates) /\ c.knew \subseteq Passed(c.copy)
      /\ c.target # <<>> /\ LandedOn(c.copy, c.target) /\ c.target \in Seq(Commits)
  BY <1>1, <1>2 DEF CallOK, Call
<1>4. CASE /\ c.copy.run_branch = Len(run_branches) + 1
           /\ run_branches' = Append(run_branches, c.target)
           /\ calls' = [calls EXCEPT ![p] = d]
  <2>1. run_branches \in Seq(Seq(Commits)) /\ Len(run_branches) \in Nat
    BY <1>2 DEF GitOK
  <2>2. /\ run_branches' \in Seq(Seq(Commits))
        /\ Len(run_branches') = Len(run_branches) + 1
        /\ run_branches'[Len(run_branches) + 1] = c.target
        /\ \A b \in 1..Len(run_branches) : run_branches'[b] = run_branches[b]
    BY <1>3, <1>4, <2>1
  <2>3. run_branches' # <<>>
    <3>1. Len(run_branches') # 0
      BY <2>1, <2>2
    <3> QED
      BY <3>1, EmptyHasNoPlace
  <2>4. \A b \in 1..Len(run_branches') : run_branches'[b] # <<>>
    <3> DEFINE e == <<>>
    <3>1. c.target # e /\ \A b \in 1..Len(run_branches) : run_branches[b] # e
      BY <1>2, <1>3 DEF GitOK
    <3> HIDE DEF e
    <3>2. \A b \in 1..Len(run_branches') :
            b \in 1..Len(run_branches) \/ b = Len(run_branches) + 1
      BY <2>1, <2>2
    <3>3. ASSUME NEW b \in 1..Len(run_branches') PROVE run_branches'[b] # e
      <4>1. CASE b \in 1..Len(run_branches)
        BY <2>2, <3>1, <4>1
      <4>2. CASE b = Len(run_branches) + 1
        BY <2>2, <3>1, <4>2
      <4> QED
        BY <3>2, <4>1, <4>2
    <3> QED
      BY <3>3 DEF e
  <2>5. GitOK(gates', run_branches', item_branches')
    BY <1>1, <1>2, <2>2, <2>3, <2>4 DEF GitOK
  <2>6. Onward(gates, run_branches, item_branches, gates, run_branches, item_branches)
    BY <1>2, OnwardSelf
  <2>7. Onward(gates, run_branches, item_branches, gates', run_branches', item_branches')
    BY <1>1, <2>1, <2>2, <2>6 DEF Onward
  <2>8. /\ d \in Call /\ d.pc = "refreshed" /\ d.copy = c.copy /\ d.knew = c.knew
    BY <1>2 DEF Call, PCs
  <2>9. calls'[p] = d /\ calls' = [calls EXCEPT ![p] = calls'[p]]
    BY <1>2, <1>4
  <2> HIDE DEF d, c
  <2>10. LandedOK(c.copy, run_branches')
    BY <1>3, <1>4, <2>1, <2>2 DEF LandedOK
  <2>11. StateOK(c.copy, gates')
    BY <1>1, <1>3
  <2>12. CallOK(d, gates', run_branches', item_branches')
    BY <1>3, <2>8, <2>10, <2>11
       DEF CallOK, PlaceOK, GateOK, Running, InAttempt, Marking, Marked, Decided
  <2>13. \A q \in Callers \ {p} :
           /\ calls[q].pc \in InAttempt =>
                gates'[calls[q].item][RowIn(calls[q]).attempt_number] = "absent"
           /\ ~Clash(calls'[p], calls[q])
    BY <1>1, <2>8, <2>9, OthersStay DEF InAttempt
  <2>14. IInv'
    BY <1>1, <2>5, <2>7, <2>9, <2>12, <2>13, CallStep
  <2> QED
    BY <1>1, <2>7, <2>14 DEF Advances
<1>5. CASE Return(p) /\ UNCHANGED <<run_branches, adopted>>
  BY <1>1, <1>5, ReturnStep DEF git
<1> QED
  BY <1>4, <1>5 DEF CreateBranch, Continue

LEMMA RecordRefreshStep ==
  ASSUME IInv, NEW p \in Callers, RecordRefresh(p)
  PROVE  Advances(p)
<1>1. /\ calls[p].pc = "refreshed" /\ UNCHANGED <<gates, git>>
      /\ disk' = calls[p].copy /\ calls' = [calls EXCEPT ![p] = Done]
  BY DEF RecordRefresh, At, Save, Continue
<1>2. /\ StateOK(calls[p].copy, gates) /\ LandedOK(calls[p].copy, run_branches)
      /\ calls[p].knew \subseteq Passed(calls[p].copy)
  BY <1>1 DEF IInv, CallOK
<1> QED
  BY <1>1, <1>2, SaveAndEnd

-----------------------------------------------------------------------------
(* The theorems *)

LEMMA InitInv == Init => IInv
<1> SUFFICES ASSUME Init PROVE IInv
  OBVIOUS
<1>1. /\ disk = NewRun
      /\ gates = [i \in Items |-> [a \in Attempts |-> "absent"]]
      /\ run_branches = <<(<<Base>>)>>
      /\ item_branches = [i \in Items |-> [a \in Attempts |-> NoHistory]]
      /\ calls = [p \in Callers |-> NoCall]
  BY DEF Init
<1>2. GitOK(gates, run_branches, item_branches)
  <2> DEFINE trunk == <<Base>>
  <2>1. Base \in Commits
    BY CommandsAssumption DEF Base, Commits, None
  <2> HIDE DEF trunk
  <2>2. trunk \in Seq(Commits) /\ trunk # <<>>
    BY <2>1 DEF trunk
  <2>3. /\ run_branches \in Seq(Seq(Commits)) /\ Len(run_branches) = 1
        /\ run_branches[1] = trunk
    BY <1>1, <2>2 DEF trunk
  <2>4. run_branches # <<>>
    BY <2>3, EmptyHasNoPlace
  <2>5. \A b \in 1..Len(run_branches) : run_branches[b] # <<>>
    BY <2>2, <2>3
  <2>6. NoHistory \in Seq(Commits)
    BY DEF NoHistory
  <2>7. /\ item_branches \in [Items -> [Attempts -> Seq(Commits)]]
        /\ gates \in [Items -> [Attempts -> {"absent", "pending", "approved", "rejected"}]]
        /\ \A i \in Items, a \in Attempts : gates[i][a] = "absent"
    BY <1>1, <2>6
  <2> QED
    BY <2>3, <2>4, <2>5, <2>7 DEF GitOK
<1>3. StateOK(disk, gates) /\ LandedOK(disk, run_branches)
  BY <1>1, <1>2, NewRunOK
<1>4. /\ NoCall.pc = "idle" /\ NoCall \in Call
      /\ CallOK(NoCall, gates, run_branches, item_branches)
  BY <1>2, RestOK DEF CallOK
<1>5. calls \in [Callers -> Call] /\ \A p \in Callers : calls[p] = NoCall
  BY <1>1, <1>4
<1>6. \A p, q \in Callers : ~Clash(calls[p], calls[q])
  BY <1>4, <1>5 DEF Clash, InAttempt
<1> QED
  BY <1>2, <1>3, <1>4, <1>5, <1>6 DEF IInv

LEMMA NextAdvances ==
  ASSUME IInv, Next
  PROVE  \E p \in Callers : Advances(p)
<1>1. PICK p \in Callers :
        \/ \E evidence, auto \in BOOLEAN : Resume(p, evidence, auto)
        \/ \E i \in Items, outcome \in {"approved", "rejected"} : MarkGate(p, i, outcome)
        \/ Attempt(p) \/ Decision(p) \/ Refresh(p)
  BY DEF Next
<1>2. CASE \E evidence, auto \in BOOLEAN : Resume(p, evidence, auto)
  BY <1>2, ResumeStep
<1>3. CASE \E i \in Items, outcome \in {"approved", "rejected"} : MarkGate(p, i, outcome)
  BY <1>3, MarkGateStep
<1>4. CASE Attempt(p)
  BY <1>4, ResetStep, SelectStep, AttemptMoves, AddWorktreeStep, WorkStep,
     StartLandingStep, LandStep, RecordPassStep, WriteGateStep DEF Attempt
<1>5. CASE Decision(p)
  BY <1>5, CheckPendingStep, WriteDecisionStep, StartApprovalStep, LandApprovedStep,
     RecordDecisionStep DEF Decision
<1>6. CASE Refresh(p)
  BY <1>6, RefreshRunStep, ChooseTargetStep, FindNameStep, CreateBranchStep,
     RecordRefreshStep DEF Refresh
<1> QED
  BY <1>1, <1>2, <1>3, <1>4, <1>5, <1>6

\* The invariant holds whatever the commands do (Spec).
THEOREM Invariance == Spec => []IInv
<1>1. Init => IInv
  BY InitInv
<1>2. IInv /\ [Next]_vars => IInv'
  <2> SUFFICES ASSUME IInv, [Next]_vars PROVE IInv'
    OBVIOUS
  <2>1. CASE Next
    BY <2>1, NextAdvances DEF Advances
  <2>2. CASE UNCHANGED vars
    <3>1. UNCHANGED <<disk, gates, run_branches, item_branches, calls>>
      BY <2>2 DEF vars, git
    <3> QED
      BY <3>1 DEF IInv
  <2> QED
    BY <2>1, <2>2
<1> QED
  BY <1>1, <1>2, PTL DEF Spec

\* Only the creation of a branch brings commits onto it that were made elsewhere.
LEMMA WhoAdopts ==
  ASSUME Next
  PROVE  \E p \in Callers :
           \/ UNCHANGED adopted
           \/ adopted' = adopted \cup
                ToSet(SubSeq(calls[p].target, Len(calls[p].tip) + 1, Len(calls[p].target)))
<1>1. PICK p \in Callers :
        \/ \E evidence, auto \in BOOLEAN : Resume(p, evidence, auto)
        \/ \E i \in Items, outcome \in {"approved", "rejected"} : MarkGate(p, i, outcome)
        \/ Attempt(p) \/ Decision(p) \/ Refresh(p)
  BY DEF Next
<1>2. CASE \/ \E evidence, auto \in BOOLEAN : Resume(p, evidence, auto)
           \/ \E i \in Items, outcome \in {"approved", "rejected"} : MarkGate(p, i, outcome)
  BY <1>2 DEF Resume, MarkGate, git
<1>3. CASE Attempt(p)
  <2>1. Land(p) \/ AddWorktree(p) \/ Work(p) => UNCHANGED adopted
    BY DEF Land, AddWorktree, Work
  <2>2. \/ Reset(p) \/ Select(p) \/ BlockWithoutEvidence(p) \/ RecordWorktree(p)
        \/ StopShort(p) \/ RecordStop(p) \/ StartLanding(p) \/ EnterPassed(p)
        \/ RecordPass(p) \/ EnterGate(p) \/ WriteGate(p)
        => UNCHANGED git
    BY DEF Reset, Select, BlockWithoutEvidence, RecordWorktree, StopShort, RecordStop,
       StartLanding, EnterPassed, RecordPass, EnterGate, WriteGate
  <2> QED
    BY <1>3, <2>1, <2>2 DEF Attempt, git
<1>4. CASE Decision(p)
  BY <1>4 DEF Decision, CheckPending, WriteDecision, StartApproval, LandApproved,
     RecordApproval, RecordRejection, RecordDecision, git
<1>5. CASE Refresh(p)
  BY <1>5 DEF Refresh, RefreshRun, ChooseTarget, FindName, CreateBranch, RecordRefresh, git
<1> QED
  BY <1>1, <1>2, <1>3, <1>4, <1>5

\* The file, git, the gates and the commands keep their types, and a copy names a
\* branch that exists unless the command is just creating it.
THEOREM TypeCorrect == Spec => []TypeOK
<1> DEFINE Adopted == adopted \in SUBSET Commits
<1>1. Init => Adopted
  BY DEF Init
<1>2. IInv /\ Adopted /\ [Next]_vars => Adopted'
  <2> SUFFICES ASSUME IInv, Adopted, [Next]_vars PROVE Adopted'
    OBVIOUS
  <2>1. CASE Next
    <3>1. PICK p \in Callers :
            \/ UNCHANGED adopted
            \/ adopted' = adopted \cup
                 ToSet(SubSeq(calls[p].target, Len(calls[p].tip) + 1, Len(calls[p].target)))
      BY <2>1, WhoAdopts
    <3> DEFINE target == calls[p].target
               beyond == SubSeq(target, Len(calls[p].tip) + 1, Len(target))
    <3>2. target \in Seq(Commits) /\ calls[p].tip \in Seq(Commits)
      BY DEF IInv, Call
    <3>3. Len(calls[p].tip) \in Nat /\ Len(target) \in Nat
      BY <3>2
    <3> HIDE DEF target
    <3>4. beyond \in Seq(Commits)
      BY <3>2, <3>3
    <3> HIDE DEF beyond
    <3>5. ToSet(beyond) \subseteq Commits
      BY <3>4 DEF ToSet
    <3> QED
      BY <3>1, <3>5 DEF beyond, target
  <2>2. CASE UNCHANGED vars
    BY <2>2 DEF vars, git
  <2> QED
    BY <2>1, <2>2
<1>3. IInv /\ Adopted => TypeOK
  <2> SUFFICES ASSUME IInv, Adopted PROVE TypeOK
    OBVIOUS
  <2>1. /\ disk \in RunState /\ disk.run_branch <= Len(run_branches)
        /\ gates \in [Items -> [Attempts -> {"absent", "pending", "approved", "rejected"}]]
        /\ item_branches \in [Items -> [Attempts -> Seq(Commits)]]
    BY DEF IInv, StateOK, LandedOK, GitOK
  <2>2. \A b \in 1..Len(run_branches) : run_branches[b] \in Seq(Commits)
    BY DEF IInv, GitOK
  <2>3. ASSUME NEW p \in Callers
        PROVE  /\ calls[p].pc \in PCs /\ calls[p].copy \in RunState
               /\ calls[p].item \in 0..NumItems
               /\ calls[p].pc # "branching" =>
                    calls[p].copy.run_branch <= Len(run_branches)
    BY DEF IInv, CallOK, LandedOK, Call
  <2> QED
    BY <2>1, <2>2, <2>3 DEF TypeOK
<1> QED
  BY <1>1, <1>2, <1>3, Invariance, PTL DEF Spec

\* No attempt is ever worked at by two commands (prepare_item_worktree).
THEOREM OneWorker == Spec => []OneWorkerPerAttempt
<1>1. IInv => OneWorkerPerAttempt
  BY DEF IInv, Clash, OneWorkerPerAttempt, RowOf, RowIn
<1> QED
  BY <1>1, Invariance, PTL

\* What the file or any command's copy calls passed is on the run branch it names,
\* whichever command saved last (save_run_state).
THEOREM PassedLanded == Spec => []PassedIsLanded
<1>1. IInv => PassedIsLanded
  <2> SUFFICES ASSUME IInv PROVE PassedIsLanded
    OBVIOUS
  <2>1. LandedOK(disk, run_branches)
    BY DEF IInv
  <2>2. \A p \in Callers : ~At(p, "branching") => LandedOK(calls[p].copy, run_branches)
    BY DEF IInv, CallOK, At
  <2> QED
    BY <2>1, <2>2 DEF PassedIsLanded, LandedOK, LandedOn
<1> QED
  BY <1>1, Invariance, PTL

\* No command moves a run branch back or sideways (fast_forward_run_branch_to_ref).
THEOREM BranchesGrow == Spec => RunBranchesOnlyGrow
<1> DEFINE Grow == \A b \in 1..Len(run_branches) : IsPrefix(run_branches[b], run_branches'[b])
<1>1. IInv /\ [Next]_vars => [Grow]_vars
  BY NextAdvances DEF Advances, Onward
<1> QED
  BY <1>1, Invariance, PTL DEF Spec, RunBranchesOnlyGrow

\* A pass is lost from the file only to a command that loaded it before (load and
\* save without a lock, state_store.py).
THEOREM PassErased == Spec => PassErasedOnlyByStaleCopy
<1> DEFINE Erasure == \A i \in Passed(disk) \ Passed(disk') :
                        \E p \in Callers : calls'[p] # calls[p] /\ i \notin calls[p].knew
<1>1. IInv /\ [Next]_vars => [Erasure]_vars
  BY NextAdvances DEF Advances
<1> QED
  BY <1>1, Invariance, PTL DEF Spec, PassErasedOnlyByStaleCopy

-----------------------------------------------------------------------------
(* Gates and what lies beneath: the invariant of the two gate properties *)

\* Of a commit: a refresh put it there (taken), or its gate is not wanted or decided.
SettledIn(commit, gts, taken) ==
  \/ commit \in taken
  \/ commit[1] \in GateRequired =>
       commit[2] \in Attempts /\ gts[commit[1]][commit[2]] \in {"approved", "rejected"}

ClearedIn(history, gts, taken) ==
  \A commit \in ToSet(history) : SettledIn(commit, gts, taken)

\* Beneath an attempt's own work is only what was decided.
OwnOrCleared(i, a, history, gts, taken) ==
  \A commit \in ToSet(history) : commit = <<i, a>> \/ SettledIn(commit, gts, taken)

\* What the refresh that a command is at adds to the run branch.
Beyond(c) == ToSet(SubSeq(c.target, Len(c.tip) + 1, Len(c.target)))

\* Of a command: what a refresh is to point at is cleared but for what it adds, and an
\* item that lands without a decision needs none.
MayLand(c, gts, taken) ==
  /\ c.pc \in {"naming", "branching"} => ClearedIn(c.target, gts, taken \cup Beyond(c))
  /\ c.pc = "landing" => c.item \notin GateRequired

GuardInv ==
  /\ \A b \in 1..Len(run_branches) : ClearedIn(run_branches[b], gates, adopted)
  /\ \A i \in Items, a \in Attempts :
       OwnOrCleared(i, a, item_branches[i][a], gates, adopted)
  /\ \A p \in Callers : MayLand(calls[p], gates, adopted)

\* What a step does to each history and each command: it leaves it, or makes one that
\* the gates allow.
KeepsGuard ==
  /\ adopted \subseteq adopted'
  /\ \A b \in 1..Len(run_branches') :
       \/ b <= Len(run_branches) /\ run_branches'[b] = run_branches[b]
       \/ ClearedIn(run_branches'[b], gates, adopted')
  /\ \A i \in Items, a \in Attempts :
       \/ item_branches'[i][a] = item_branches[i][a]
       \/ OwnOrCleared(i, a, item_branches'[i][a], gates, adopted')
  /\ \A p \in Callers : calls'[p] = calls[p] \/ MayLand(calls'[p], gates, adopted')

\* A decision is final, and so is what a refresh did.
LEMMA SettledStays ==
  ASSUME NEW gts, NEW rbs, NEW ibs, NEW gts2, NEW rbs2, NEW ibs2,
         GitOK(gts2, rbs2, ibs2), Onward(gts, rbs, ibs, gts2, rbs2, ibs2),
         NEW taken, NEW taken2, taken \subseteq taken2,
         NEW commit, SettledIn(commit, gts, taken)
  PROVE  SettledIn(commit, gts2, taken2)
<1> SUFFICES ASSUME commit \notin taken2, commit[1] \in GateRequired
             PROVE  /\ commit[2] \in Attempts
                    /\ gts2[commit[1]][commit[2]] \in {"approved", "rejected"}
  BY DEF SettledIn
<1> DEFINE i == commit[1]
           a == commit[2]
<1>1. i \in Items /\ a \in Attempts /\ gts[i][a] \in {"approved", "rejected"}
  BY CommandsAssumption DEF SettledIn
<1> HIDE DEF i, a
<1>2. gts2[i][a] \in {"absent", "pending", "approved", "rejected"}
  BY <1>1 DEF GitOK
<1>3. gts2[i][a] # "absent" /\ gts2[i][a] # "pending"
  BY <1>1 DEF Onward
<1> QED
  BY <1>1, <1>2, <1>3 DEF i, a

\* What a refresh put there only grows with the gates as they are.
LEMMA ClearedGrows ==
  ASSUME NEW gts, NEW taken, NEW taken2, taken \subseteq taken2
  PROVE  /\ \A commit : SettledIn(commit, gts, taken) => SettledIn(commit, gts, taken2)
         /\ \A history : ClearedIn(history, gts, taken) => ClearedIn(history, gts, taken2)
  BY DEF ClearedIn, SettledIn

LEMMA GuardKept ==
  ASSUME IInv, GuardInv, KeepsGuard, NEW p \in Callers, Advances(p)
  PROVE  GuardInv'
<1>1. /\ GitOK(gates', run_branches', item_branches')
      /\ Onward(gates, run_branches, item_branches, gates', run_branches', item_branches')
      /\ adopted \subseteq adopted'
  BY DEF Advances, IInv, KeepsGuard
<1>2. \A commit, taken, taken2 :
        taken \subseteq taken2 /\ SettledIn(commit, gates, taken)
          => SettledIn(commit, gates', taken2)
  BY <1>1, SettledStays
<1>3. \A history, taken, taken2 :
        taken \subseteq taken2 /\ ClearedIn(history, gates, taken)
          => ClearedIn(history, gates', taken2)
  BY <1>2 DEF ClearedIn
<1>4. \A i, a, history, taken, taken2 :
        taken \subseteq taken2 /\ OwnOrCleared(i, a, history, gates, taken)
          => OwnOrCleared(i, a, history, gates', taken2)
  BY <1>2 DEF OwnOrCleared
<1>5. \A c, taken, taken2 :
        taken \subseteq taken2 /\ MayLand(c, gates, taken) => MayLand(c, gates', taken2)
  <2> SUFFICES ASSUME NEW c, NEW taken, NEW taken2, taken \subseteq taken2,
                      MayLand(c, gates, taken)
               PROVE  MayLand(c, gates', taken2)
    OBVIOUS
  <2>1. taken \cup Beyond(c) \subseteq taken2 \cup Beyond(c)
    OBVIOUS
  <2> QED
    BY <1>3, <2>1 DEF MayLand
<1>6. ASSUME NEW b \in 1..Len(run_branches')
      PROVE  ClearedIn(run_branches'[b], gates', adopted')
  <2>1. run_branches \in Seq(Seq(Commits)) /\ run_branches' \in Seq(Seq(Commits))
    BY <1>1 DEF GitOK, IInv
  <2>2. CASE b <= Len(run_branches) /\ run_branches'[b] = run_branches[b]
    <3>1. b \in 1..Len(run_branches)
      BY <2>1, <2>2
    <3> QED
      BY <1>1, <1>3, <2>2, <3>1 DEF GuardInv
  <2>3. CASE ClearedIn(run_branches'[b], gates, adopted')
    BY <1>3, <2>3
  <2> QED
    BY <2>2, <2>3 DEF KeepsGuard
<1>7. \A i \in Items, a \in Attempts :
        OwnOrCleared(i, a, item_branches'[i][a], gates', adopted')
  BY <1>1, <1>4 DEF KeepsGuard, GuardInv
<1>8. \A q \in Callers : MayLand(calls'[q], gates', adopted')
  BY <1>1, <1>5 DEF KeepsGuard, GuardInv
<1> QED
  BY <1>6, <1>7, <1>8 DEF GuardInv

\* Most steps leave git alone and do not begin to land or to branch.
LEMMA QuietGuard ==
  ASSUME IInv, NEW p \in Callers, NEW d, calls' = [calls EXCEPT ![p] = d],
         MayLand(d, gates, adopted), UNCHANGED git
  PROVE  KeepsGuard
<1>1. run_branches' = run_branches /\ item_branches' = item_branches /\ adopted' = adopted
  BY DEF git
<1>2. run_branches \in Seq(Seq(Commits)) /\ calls \in [Callers -> Call]
  BY DEF IInv, GitOK
<1>3. \A b \in 1..Len(run_branches') : b <= Len(run_branches)
  BY <1>1, <1>2
<1>4. \A q \in Callers : calls'[q] = IF q = p THEN d ELSE calls[q]
  BY <1>2
<1> QED
  BY <1>1, <1>3, <1>4 DEF KeepsGuard

LEMMA DoneMayLand == MayLand(Done, gates, adopted)
<1>1. Done.pc = "done"
  BY DEF Done, NoCall
<1> QED
  BY <1>1 DEF MayLand

\* So does a save.
LEMMA SaveGuard ==
  ASSUME IInv, NEW p \in Callers, NEW copy, NEW pc, Save(p, copy, pc),
         pc \notin {"naming", "branching", "landing"}, UNCHANGED git
  PROVE  KeepsGuard
<1> DEFINE d == [calls[p] EXCEPT !.copy = copy, !.pc = pc]
<1>1. calls[p] \in Call
  BY DEF IInv
<1>2. d.pc = pc
  BY <1>1 DEF Call
<1>3. MayLand(d, gates, adopted)
  BY <1>2 DEF MayLand
<1>4. calls' = [calls EXCEPT ![p] = Done] \/ calls' = [calls EXCEPT ![p] = d]
  BY DEF Save, Continue
<1> HIDE DEF d
<1> QED
  BY <1>3, <1>4, DoneMayLand, QuietGuard

LEMMA ReturnGuard ==
  ASSUME IInv, NEW p \in Callers, Return(p), UNCHANGED git
  PROVE  KeepsGuard
<1>1. calls' = [calls EXCEPT ![p] = Done]
  BY DEF Return, Continue
<1> QED
  BY <1>1, DoneMayLand, QuietGuard

\* So do the commands' first steps.
LEMMA LoadGuard ==
  ASSUME IInv, NEW p \in Callers,
         \/ \E evidence, auto \in BOOLEAN : Resume(p, evidence, auto)
         \/ \E i \in Items, outcome \in {"approved", "rejected"} : MarkGate(p, i, outcome)
         \/ RefreshRun(p)
  PROVE  KeepsGuard
<1>1. CASE \E evidence, auto \in BOOLEAN : Resume(p, evidence, auto)
  <2>1. PICK evidence \in BOOLEAN, auto \in BOOLEAN, i \in Items,
             pc \in {"reset", "select"} :
          /\ calls' = [calls EXCEPT ![p] = [Load(NoCall) EXCEPT
               !.pc = pc, !.item = i, !.evidence = evidence, !.auto = auto]]
          /\ UNCHANGED git
    BY <1>1 DEF Resume, Continue
  <2> DEFINE d == [Load(NoCall) EXCEPT
               !.pc = pc, !.item = i, !.evidence = evidence, !.auto = auto]
  <2>2. d.pc = pc
    BY DEF Load, NoCall
  <2> HIDE DEF d
  <2>3. MayLand(d, gates, adopted)
    BY <2>2 DEF MayLand
  <2> QED
    BY <2>1, <2>3, QuietGuard DEF d
<1>2. CASE \E i \in Items, outcome \in {"approved", "rejected"} : MarkGate(p, i, outcome)
  <2>1. PICK i \in Items, outcome \in {"approved", "rejected"} :
          /\ calls' = [calls EXCEPT ![p] = [Load(NoCall) EXCEPT
               !.pc = "marking", !.item = i, !.outcome = outcome]]
          /\ UNCHANGED git
    BY <1>2 DEF MarkGate, Continue
  <2> DEFINE d == [Load(NoCall) EXCEPT
               !.pc = "marking", !.item = i, !.outcome = outcome]
  <2>2. d.pc = "marking"
    BY DEF Load, NoCall
  <2> HIDE DEF d
  <2>3. MayLand(d, gates, adopted)
    BY <2>2 DEF MayLand
  <2> QED
    BY <2>1, <2>3, QuietGuard DEF d
<1>3. CASE RefreshRun(p)
  <2> DEFINE d == [Load(NoCall) EXCEPT !.pc = "retargeting"]
  <2>1. calls' = [calls EXCEPT ![p] = d] /\ UNCHANGED git
    BY <1>3 DEF RefreshRun, Continue
  <2>2. d.pc = "retargeting"
    BY DEF Load, NoCall
  <2> HIDE DEF d
  <2>3. MayLand(d, gates, adopted)
    BY <2>2 DEF MayLand
  <2> QED
    BY <2>1, <2>3, QuietGuard
<1> QED
  BY <1>1, <1>2, <1>3

\* The saves of an attempt and of a decision, and a command moved along in place.
LEMMA SavesGuard ==
  ASSUME IInv, NEW p \in Callers,
         \/ Reset(p) \/ Select(p) \/ BlockWithoutEvidence(p) \/ RecordWorktree(p)
         \/ StopShort(p) \/ RecordStop(p) \/ EnterPassed(p) \/ EnterGate(p)
         \/ WriteGate(p) \/ RecordApproval(p) \/ RecordRejection(p) \/ RecordRefresh(p)
  PROVE  KeepsGuard
<1>1. \A copy : \A pc \in {"select", "selected", "done", "blocked", "working", "escalated",
                         "landed", "gated"} :
        Save(p, copy, pc) /\ UNCHANGED git => KeepsGuard
  BY SaveGuard
<1>2. CASE Reset(p)
  BY <1>1, <1>2, Zenon DEF Reset
<1>3. CASE Select(p)
  BY <1>1, <1>3, Zenon DEF Select
<1>4. CASE BlockWithoutEvidence(p)
  BY <1>1, <1>4, Zenon DEF BlockWithoutEvidence
<1>5. CASE RecordWorktree(p)
  BY <1>1, <1>5, Zenon DEF RecordWorktree
<1>6. CASE StopShort(p)
  BY <1>1, <1>6, Zenon DEF StopShort
<1>7. CASE RecordStop(p)
  BY <1>1, <1>7, Zenon DEF RecordStop
<1>8. CASE EnterPassed(p)
  BY <1>1, <1>8, Zenon DEF EnterPassed
<1>9. CASE EnterGate(p)
  BY <1>1, <1>9, Zenon DEF EnterGate
<1>10. CASE WriteGate(p)
  BY <1>1, <1>10, Zenon DEF WriteGate
<1>11. CASE RecordApproval(p) \/ RecordRejection(p)
  BY <1>1, <1>11, Zenon DEF RecordApproval, RecordRejection, RecordDecision
<1>12. CASE RecordRefresh(p)
  BY <1>1, <1>12, Zenon DEF RecordRefresh
<1> QED
  BY <1>2, <1>3, <1>4, <1>5, <1>6, <1>7, <1>8, <1>9, <1>10, <1>11, <1>12

LEMMA MovesGuard ==
  ASSUME IInv, NEW p \in Callers,
         CheckPending(p) \/ WriteDecision(p) \/ StartApproval(p) \/ RecordPass(p)
  PROVE  KeepsGuard
<1> DEFINE c == calls[p]
<1>1. c \in Call
  BY DEF IInv
<1>2. \A d : /\ d.pc \notin {"naming", "branching", "landing"} /\ UNCHANGED git
             /\ calls' = [calls EXCEPT ![p] = d]
             => KeepsGuard
  BY QuietGuard DEF MayLand
<1>3. CASE CheckPending(p)
  <2> DEFINE d == [c EXCEPT !.pc = "marked"]
  <2>1. UNCHANGED git /\ (Return(p) \/ calls' = [calls EXCEPT ![p] = d])
    BY <1>3 DEF CheckPending, Continue
  <2>2. d.pc = "marked"
    BY <1>1 DEF Call
  <2> HIDE DEF d
  <2> QED
    BY <1>2, <2>1, <2>2, ReturnGuard
<1>4. CASE WriteDecision(p)
  <2> DEFINE d == [c EXCEPT !.pc = c.outcome]
  <2>1. UNCHANGED git /\ calls' = [calls EXCEPT ![p] = d]
    BY <1>4 DEF WriteDecision, Continue
  <2>2. d.pc \in {"approved", "rejected"}
    BY <1>1 DEF Call
  <2> HIDE DEF d
  <2> QED
    BY <1>2, <2>1, <2>2
<1>5. CASE StartApproval(p)
  <2> DEFINE d == [c EXCEPT !.tip = RunTipOf(p), !.pc = "approving"]
  <2>1. UNCHANGED git /\ (Return(p) \/ calls' = [calls EXCEPT ![p] = d])
    BY <1>5 DEF StartApproval, ReadRunTip, Continue
  <2>2. d.pc = "approving"
    BY <1>1 DEF Call
  <2> HIDE DEF d
  <2> QED
    BY <1>2, <2>1, <2>2, ReturnGuard
<1>6. CASE RecordPass(p)
  <2> DEFINE done == Moved(p, "ST130", [RowOf(p) EXCEPT !.terminal_state = "passed"])
             d(i) == [c EXCEPT !.copy = done, !.item = i, !.evidence = FALSE,
                               !.tip = NoHistory, !.pc = "select"]
  <2>1. /\ UNCHANGED git
        /\ Save(p, done, "done") \/ \E i \in Items : calls' = [calls EXCEPT ![p] = d(i)]
    BY <1>6 DEF RecordPass, Continue
  <2> HIDE DEF done
  <2>2. \A i : d(i).pc = "select"
    BY <1>1 DEF Call
  <2> HIDE DEF d
  <2> QED
    BY <1>2, <2>1, <2>2, SaveGuard
<1> QED
  BY <1>3, <1>4, <1>5, <1>6

\* An attempt begins on the run branch.
LEMMA AddWorktreeGuard ==
  ASSUME IInv, GuardInv, NEW p \in Callers, AddWorktree(p)
  PROVE  KeepsGuard
<1> DEFINE c == calls[p]
           i == c.item
           a == RowOf(p).attempt_number
           d == [c EXCEPT !.pc = "prepare"]
<1>1. c.pc = "selected" /\ UNCHANGED <<run_branches, adopted>>
  BY DEF AddWorktree, At
<1>2. /\ c \in Call /\ c.copy \in RunState /\ i \in Items /\ a \in Attempts
      /\ LandedOK(c.copy, run_branches)
  BY <1>1, OwnRow DEF Running
<1>3. /\ GitOK(gates, run_branches, item_branches) /\ calls \in [Callers -> Call]
  BY DEF IInv
<1>4. CASE Save(p, c.copy, "done") /\ UNCHANGED item_branches
  BY <1>1, <1>4, SaveGuard DEF git
<1>5. CASE /\ item_branches' = [item_branches EXCEPT ![i][a] = RunTipOf(p)]
           /\ calls' = [calls EXCEPT ![p] = d]
  <2>1. ClearedIn(RunTipOf(p), gates, adopted)
    BY <1>2, OwnTip DEF GuardInv
  <2>2. OwnOrCleared(i, a, RunTipOf(p), gates, adopted)
    BY <2>1 DEF OwnOrCleared, ClearedIn
  <2>3. d.pc = "prepare"
    BY <1>2 DEF Call
  <2> HIDE DEF i, a, d
  <2>4. \A j \in Items, b \in Attempts :
          item_branches'[j][b] =
            IF j = i /\ b = a THEN RunTipOf(p) ELSE item_branches[j][b]
    BY <1>2, <1>3, <1>5 DEF GitOK
  <2>5. \A q \in Callers : calls'[q] = calls[q] \/ MayLand(calls'[q], gates, adopted)
    BY <1>3, <1>5, <2>3 DEF MayLand
  <2>6. \A b \in 1..Len(run_branches') :
          b <= Len(run_branches) /\ run_branches'[b] = run_branches[b]
    BY <1>1, <1>3 DEF GitOK
  <2> QED
    BY <1>1, <2>2, <2>4, <2>5, <2>6 DEF KeepsGuard
<1> QED
  BY <1>4, <1>5 DEF AddWorktree, Continue

\* It adds its own commit and nothing else.
LEMMA WorkGuard ==
  ASSUME IInv, GuardInv, NEW p \in Callers, Work(p)
  PROVE  KeepsGuard
<1> DEFINE c == calls[p]
           i == c.item
           a == RowOf(p).attempt_number
           copy == Moved(p, "ST70", RowOf(p))
           d == [c EXCEPT !.copy = copy, !.pc = "reviewed"]
           history == Append(item_branches[i][a], <<i, a>>)
<1>1. c.pc = "working" /\ UNCHANGED <<run_branches, adopted>>
  BY DEF Work, At
<1>2. c \in Call /\ i \in Items /\ a \in Attempts
  BY <1>1, OwnRow DEF Running
<1>3. /\ GitOK(gates, run_branches, item_branches) /\ calls \in [Callers -> Call]
  BY DEF IInv
<1>4. /\ item_branches' = [item_branches EXCEPT ![i][a] = history]
      /\ calls' = [calls EXCEPT ![p] = d]
  BY DEF Work, Save, Continue
<1> HIDE DEF copy
<1>5. d.pc = "reviewed"
  BY <1>2 DEF Call
<1> HIDE DEF i, a, d
<1>6. <<i, a>> \in Commits /\ item_branches[i][a] \in Seq(Commits)
  BY <1>2, <1>3, CommandsAssumption DEF GitOK, Commits, Items, Attempts
<1>7. ToSet(history) \subseteq ToSet(item_branches[i][a]) \cup {<<i, a>>}
  BY <1>6 DEF ToSet
<1> HIDE DEF history
<1>8. OwnOrCleared(i, a, history, gates, adopted)
  BY <1>2, <1>7 DEF GuardInv, OwnOrCleared
<1>9. \A j \in Items, b \in Attempts :
        item_branches'[j][b] = IF j = i /\ b = a THEN history ELSE item_branches[j][b]
  BY <1>2, <1>3, <1>4 DEF GitOK
<1>10. \A q \in Callers : calls'[q] = calls[q] \/ MayLand(calls'[q], gates, adopted)
  BY <1>3, <1>4, <1>5 DEF MayLand
<1>11. \A b \in 1..Len(run_branches') :
         b <= Len(run_branches) /\ run_branches'[b] = run_branches[b]
  BY <1>1, <1>3 DEF GitOK
<1> QED
  BY <1>1, <1>8, <1>9, <1>10, <1>11 DEF KeepsGuard

\* Only an item without a gate lands from its attempt.
LEMMA StartLandingGuard ==
  ASSUME IInv, NEW p \in Callers, StartLanding(p)
  PROVE  KeepsGuard
<1> DEFINE c == calls[p]
           d == [c EXCEPT !.tip = RunTipOf(p), !.pc = "landing"]
<1>1. c \in Call /\ c.item \notin GateRequired /\ UNCHANGED git
  BY DEF StartLanding, IInv
<1>2. calls' = [calls EXCEPT ![p] = d] \/ Save(p, c.copy, "done")
  BY DEF StartLanding, ReadRunTip, Continue
<1>3. d.pc = "landing" /\ d.item = c.item
  BY <1>1 DEF Call
<1> HIDE DEF d
<1>4. MayLand(d, gates, adopted)
  BY <1>1, <1>3 DEF MayLand
<1> QED
  BY <1>1, <1>2, <1>4, QuietGuard, SaveGuard

\* A run branch moved to a history the gates allow.
LEMMA RunBranchGuard ==
  ASSUME IInv, NEW p \in Callers, NEW pc \in {"landed", "accepted"}, NEW b, NEW history,
         ClearedIn(history, gates, adopted),
         run_branches' = [run_branches EXCEPT ![b] = history],
         calls' = [calls EXCEPT ![p] = [calls[p] EXCEPT !.pc = pc]],
         UNCHANGED <<item_branches, adopted>>
  PROVE  KeepsGuard
<1> DEFINE d == [calls[p] EXCEPT !.pc = pc]
<1>1. run_branches \in Seq(Seq(Commits)) /\ calls \in [Callers -> Call]
  BY DEF IInv, GitOK
<1>2. d.pc = pc
  BY <1>1 DEF Call
<1> HIDE DEF d
<1>3. \A q \in Callers : calls'[q] = calls[q] \/ MayLand(calls'[q], gates, adopted)
  BY <1>1, <1>2 DEF MayLand, d
<1>4. DOMAIN run_branches' = 1..Len(run_branches) /\ Len(run_branches) \in Nat
  BY <1>1
<1>5. Len(run_branches') = Len(run_branches)
  BY <1>1
<1>6. \A n \in 1..Len(run_branches) :
        run_branches'[n] = run_branches[n] \/ run_branches'[n] = history
  BY <1>1
<1> QED
  BY <1>3, <1>4, <1>5, <1>6 DEF KeepsGuard

\* What lands is the attempt's own commits on what was cleared before; the own ones
\* need no gate, or it was decided.
LEMMA OwnCleared ==
  ASSUME GuardInv, NEW i \in Items, NEW a \in Attempts,
         i \in GateRequired => gates[i][a] \in {"approved", "rejected"}
  PROVE  ClearedIn(item_branches[i][a], gates, adopted)
<1>1. OwnOrCleared(i, a, item_branches[i][a], gates, adopted)
  BY DEF GuardInv
<1>2. SettledIn(<<i, a>>, gates, adopted)
  BY DEF SettledIn
<1> QED
  BY <1>1, <1>2 DEF OwnOrCleared, ClearedIn

LEMMA LandGuard ==
  ASSUME IInv, GuardInv, NEW p \in Callers, Land(p)
  PROVE  KeepsGuard
<1> DEFINE c == calls[p]
<1>1. c.pc = "landing" /\ UNCHANGED <<item_branches, adopted>>
  BY DEF Land, At
<1>2. c.item \in Items /\ RowOf(p).attempt_number \in Attempts
  BY <1>1, OwnRow DEF Running
<1>3. c.item \notin GateRequired
  BY <1>1 DEF GuardInv, MayLand
<1>4. ClearedIn(BranchOf(p), gates, adopted)
  BY <1>2, <1>3, OwnCleared DEF BranchOf
<1>5. CASE /\ run_branches' = [run_branches EXCEPT ![c.copy.run_branch] = BranchOf(p)]
           /\ calls' = [calls EXCEPT ![p] = [c EXCEPT !.pc = "landed"]]
  BY <1>1, <1>4, <1>5, RunBranchGuard
<1>6. CASE Save(p, c.copy, "done") /\ UNCHANGED run_branches
  BY <1>1, <1>6, SaveGuard DEF git
<1> QED
  BY <1>5, <1>6 DEF Land, UpdateRef, Continue

LEMMA LandApprovedGuard ==
  ASSUME IInv, GuardInv, NEW p \in Callers, LandApproved(p)
  PROVE  KeepsGuard
<1> DEFINE c == calls[p]
           m == RowIn(c).manual_gate
<1>1. c.pc = "approving" /\ UNCHANGED <<item_branches, adopted>>
  BY DEF LandApproved, At
<1>2. /\ c.item \in Items /\ RowOf(p) = RowIn(c) /\ m # None /\ m \in Attempts
      /\ StateOK(c.copy, gates) /\ gates[c.item][m] # "pending"
  <2>1. c.pc \in Marking /\ c.pc \in Decided
    BY <1>1 DEF Marking, Marked, Decided
  <2> QED
    BY <2>1, OwnRow DEF GateOK
<1>3. gates[c.item][m] # "absent"
  BY <1>2 DEF StateOK, RowIn
<1>4. gates[c.item][m] \in {"absent", "pending", "approved", "rejected"}
  BY <1>2 DEF IInv, GitOK
<1>5. ClearedIn(GateCommit(p), gates, adopted)
  BY <1>2, <1>3, <1>4, OwnCleared DEF GateCommit
<1>6. CASE /\ run_branches' = [run_branches EXCEPT ![c.copy.run_branch] = GateCommit(p)]
           /\ calls' = [calls EXCEPT ![p] = [c EXCEPT !.pc = "accepted"]]
  BY <1>1, <1>5, <1>6, RunBranchGuard
<1>7. CASE Return(p) /\ UNCHANGED run_branches
  BY <1>1, <1>7, ReturnGuard DEF git
<1> QED
  BY <1>6, <1>7 DEF LandApproved, UpdateRef, Continue

\* What a refresh points at continues the run branch, so that all it has is cleared
\* but for what it adds.
LEMMA ChooseTargetGuard ==
  ASSUME IInv, GuardInv, NEW p \in Callers, ChooseTarget(p)
  PROVE  KeepsGuard
<1> DEFINE c == calls[p]
           d(target) == [c EXCEPT !.target = target, !.tip = RunTipOf(p), !.pc = "naming"]
<1>1. PICK target \in Refs :
        IsPrefix(RunTipOf(p), target) /\ calls' = [calls EXCEPT ![p] = d(target)]
  BY DEF ChooseTarget, Continue
<1>2. c.pc = "retargeting" /\ UNCHANGED git
  BY DEF ChooseTarget, At
<1>3. /\ CallOK(c, gates, run_branches, item_branches) /\ c \in Call
      /\ c.copy \in RunState /\ GitOK(gates, run_branches, item_branches)
  BY DEF IInv, CallOK, Call
<1>4. LandedOK(c.copy, run_branches)
  BY <1>2, <1>3 DEF CallOK
<1> DEFINE tip == RunTipOf(p)
           beyond == SubSeq(target, Len(tip) + 1, Len(target))
<1>5. ClearedIn(tip, gates, adopted) /\ tip \in Seq(Commits)
  BY <1>3, <1>4, OwnTip DEF GuardInv
<1>6. target \in Seq(Commits)
  BY <1>3, RefTypes
<1>7. /\ d(target).pc = "naming" /\ d(target).target = target /\ d(target).tip = tip
  BY <1>3 DEF Call
<1>8. Beyond(d(target)) = ToSet(beyond)
  BY <1>7 DEF Beyond
<1> HIDE DEF d
<1>9. ASSUME NEW commit \in ToSet(target)
      PROVE  SettledIn(commit, gates, adopted \cup ToSet(beyond))
  <2> HIDE DEF tip
  <2>1. PICK n \in 1..Len(target) : commit = target[n]
    BY <1>6 DEF ToSet
  <2>2. Len(tip) \in Nat /\ Len(target) \in Nat
    BY <1>5, <1>6
  <2>3. CASE n <= Len(tip)
    <3>1. n \in 1..Len(tip) /\ tip[n] = target[n]
      BY <1>1, <1>5, <1>6, <2>2, <2>3, PrefixPlaces DEF tip
    <3>2. commit \in ToSet(tip)
      BY <1>5, <2>1, <3>1 DEF ToSet
    <3> QED
      BY <1>5, <3>2 DEF ClearedIn, SettledIn
  <2>4. CASE n > Len(tip)
    <3>1. /\ n - Len(tip) \in 1..Len(beyond)
          /\ beyond[n - Len(tip)] = target[n]
      BY <1>6, <2>2, <2>4
    <3>2. DOMAIN beyond = 1..Len(beyond)
      BY <1>6, <2>2
    <3> HIDE DEF beyond
    <3>3. commit \in ToSet(beyond)
      BY <2>1, <3>1, <3>2 DEF ToSet
    <3> QED
      BY <3>3 DEF SettledIn
  <2> QED
    BY <2>2, <2>3, <2>4
<1> HIDE DEF tip, beyond
<1>10. MayLand(d(target), gates, adopted)
  BY <1>7, <1>8, <1>9 DEF MayLand, ClearedIn
<1> QED
  BY <1>1, <1>2, <1>10, QuietGuard

LEMMA FindNameGuard ==
  ASSUME IInv, GuardInv, NEW p \in Callers, FindName(p)
  PROVE  KeepsGuard
<1> DEFINE c == calls[p]
           n == Len(run_branches) + 1
           d == [c EXCEPT !.item = None, !.pc = "branching", !.copy.run_branch = n]
<1>1. c.pc = "naming" /\ UNCHANGED git /\ calls' = [calls EXCEPT ![p] = d]
  BY DEF FindName, At, Continue
<1>2. c \in Call /\ MayLand(c, gates, adopted)
  BY DEF IInv, GuardInv
<1> HIDE DEF n
<1>3. d.pc = "branching" /\ d.target = c.target /\ d.tip = c.tip
  BY <1>2 DEF Call
<1> HIDE DEF d
<1>4. MayLand(d, gates, adopted)
  BY <1>1, <1>2, <1>3 DEF MayLand, Beyond
<1> QED
  BY <1>1, <1>4, QuietGuard

\* The new branch is cleared with what it brought along.
LEMMA CreateBranchGuard ==
  ASSUME IInv, GuardInv, NEW p \in Callers, CreateBranch(p)
  PROVE  KeepsGuard
<1> DEFINE c == calls[p]
           d == [c EXCEPT !.pc = "refreshed"]
<1>1. c.pc = "branching" /\ UNCHANGED item_branches
  BY DEF CreateBranch, At
<1>2. /\ c \in Call /\ c.target \in Seq(Commits) /\ calls \in [Callers -> Call]
      /\ run_branches \in Seq(Seq(Commits))
  BY DEF IInv, GitOK, Call
<1>3. ClearedIn(c.target, gates, adopted \cup Beyond(c))
  BY <1>1 DEF GuardInv, MayLand
<1>4. CASE /\ run_branches' = Append(run_branches, c.target)
           /\ adopted' = adopted \cup Beyond(c)
           /\ calls' = [calls EXCEPT ![p] = d]
  <2>1. d.pc = "refreshed"
    BY <1>2 DEF Call
  <2> HIDE DEF d
  <2>2. \A q \in Callers : calls'[q] = calls[q] \/ MayLand(calls'[q], gates, adopted')
    BY <1>2, <1>4, <2>1 DEF MayLand
  <2> HIDE DEF c
  <2>3. \A b \in 1..Len(run_branches') :
          \/ b <= Len(run_branches) /\ run_branches'[b] = run_branches[b]
          \/ run_branches'[b] = c.target
    BY <1>2, <1>4
  <2>4. ClearedIn(c.target, gates, adopted')
    BY <1>3, <1>4
  <2> QED
    BY <1>1, <1>4, <2>2, <2>3, <2>4 DEF KeepsGuard
<1>5. CASE Return(p) /\ UNCHANGED <<run_branches, adopted>>
  BY <1>1, <1>5, ReturnGuard DEF git
<1> QED
  BY <1>4, <1>5 DEF CreateBranch, Continue, Beyond

LEMMA NextGuard ==
  ASSUME IInv, GuardInv, Next
  PROVE  KeepsGuard
<1>1. PICK p \in Callers :
        \/ \E evidence, auto \in BOOLEAN : Resume(p, evidence, auto)
        \/ \E i \in Items, outcome \in {"approved", "rejected"} : MarkGate(p, i, outcome)
        \/ Attempt(p) \/ Decision(p) \/ Refresh(p)
  BY DEF Next
<1>2. CASE \/ \E evidence, auto \in BOOLEAN : Resume(p, evidence, auto)
           \/ \E i \in Items, outcome \in {"approved", "rejected"} : MarkGate(p, i, outcome)
  BY <1>2, LoadGuard
<1>3. CASE Attempt(p)
  BY <1>3, SavesGuard, MovesGuard, AddWorktreeGuard, WorkGuard, StartLandingGuard,
     LandGuard DEF Attempt
<1>4. CASE Decision(p)
  BY <1>4, SavesGuard, MovesGuard, LandApprovedGuard DEF Decision
<1>5. CASE Refresh(p)
  BY <1>5, LoadGuard, SavesGuard, ChooseTargetGuard, FindNameGuard, CreateBranchGuard
     DEF Refresh
<1> QED
  BY <1>1, <1>2, <1>3, <1>4, <1>5

LEMMA InitGuard == Init => GuardInv
<1> SUFFICES ASSUME Init PROVE GuardInv
  OBVIOUS
<1>1. \A p \in Callers : MayLand(calls[p], gates, adopted)
  BY DEF Init, NoCall, MayLand
<1>2. \A i \in Items, a \in Attempts : OwnOrCleared(i, a, item_branches[i][a], gates, adopted)
  <2>1. \A i \in Items, a \in Attempts : item_branches[i][a] = NoHistory
    BY DEF Init
  <2>2. ToSet(NoHistory) = {}
    BY EmptyHasNoPlace DEF ToSet, NoHistory
  <2> QED
    BY <2>1, <2>2 DEF OwnOrCleared
<1>3. \A b \in 1..Len(run_branches) : ClearedIn(run_branches[b], gates, adopted)
  <2>1. None \notin GateRequired
    BY CommandsAssumption DEF Items, None
  <2>2. SettledIn(Base, gates, adopted)
    BY <2>1 DEF SettledIn, Base
  <2>3. run_branches = <<(<<Base>>)>>
    BY DEF Init
  <2>4. ToSet(<<Base>>) = {Base}
    BY DEF ToSet
  <2>5. Len(run_branches) = 1 /\ run_branches[1] = <<Base>>
    BY <2>3
  <2> QED
    BY <2>2, <2>4, <2>5 DEF ClearedIn
<1> QED
  BY <1>1, <1>2, <1>3 DEF GuardInv

\* No commit of a gated item reaches a run branch or another attempt's branch before
\* its own gate was decided, whatever the commands do (fast_forward_run_branch_to_ref,
\* prepare_item_worktree), unless a refresh was pointed at it (refresh_run).
THEOREM GateGuards == Spec => []GateGuardsLanding
<1>1. Init => GuardInv
  BY InitGuard
<1>2. IInv /\ GuardInv /\ [Next]_vars => GuardInv'
  <2> SUFFICES ASSUME IInv, GuardInv, [Next]_vars PROVE GuardInv'
    OBVIOUS
  <2>1. CASE Next
    BY <2>1, NextAdvances, NextGuard, GuardKept
  <2>2. CASE UNCHANGED vars
    <3>1. UNCHANGED <<disk, gates, run_branches, item_branches, adopted, calls>>
      BY <2>2 DEF vars, git
    <3> QED
      BY <3>1 DEF GuardInv
  <2> QED
    BY <2>1, <2>2
<1>3. GuardInv => GateGuardsLanding
  BY DEF GuardInv, GateGuardsLanding, ClearedIn, OwnOrCleared, SettledIn
<1> QED
  BY <1>1, <1>2, <1>3, Invariance, PTL DEF Spec

\* Only a new worktree and the work in it change an attempt's branch.
LEMMA WhoWorks ==
  ASSUME Next
  PROVE  \E p \in Callers : UNCHANGED item_branches \/ AddWorktree(p) \/ Work(p)
<1>1. PICK p \in Callers :
        \/ \E evidence, auto \in BOOLEAN : Resume(p, evidence, auto)
        \/ \E i \in Items, outcome \in {"approved", "rejected"} : MarkGate(p, i, outcome)
        \/ Attempt(p) \/ Decision(p) \/ Refresh(p)
  BY DEF Next
<1>2. CASE \/ \E evidence, auto \in BOOLEAN : Resume(p, evidence, auto)
           \/ \E i \in Items, outcome \in {"approved", "rejected"} : MarkGate(p, i, outcome)
  BY <1>2 DEF Resume, MarkGate, git
<1>3. CASE Attempt(p)
  <2>1. Land(p) => UNCHANGED item_branches
    BY DEF Land
  <2>2. \/ Reset(p) \/ Select(p) \/ BlockWithoutEvidence(p) \/ RecordWorktree(p)
        \/ StopShort(p) \/ RecordStop(p) \/ StartLanding(p) \/ EnterPassed(p)
        \/ RecordPass(p) \/ EnterGate(p) \/ WriteGate(p)
        => UNCHANGED git
    BY DEF Reset, Select, BlockWithoutEvidence, RecordWorktree, StopShort, RecordStop,
       StartLanding, EnterPassed, RecordPass, EnterGate, WriteGate
  <2> QED
    BY <1>3, <2>1, <2>2 DEF Attempt, git
<1>4. CASE Decision(p)
  BY <1>4 DEF Decision, CheckPending, WriteDecision, StartApproval, LandApproved,
     RecordApproval, RecordRejection, RecordDecision, git
<1>5. CASE Refresh(p)
  BY <1>5 DEF Refresh, RefreshRun, ChooseTarget, FindName, CreateBranch, RecordRefresh,
     git
<1> QED
  BY <1>1, <1>2, <1>3, <1>4, <1>5

\* Whoever does works at an attempt that has no gate record yet.
LEMMA NextStays ==
  ASSUME IInv, Next, NEW j \in Items, NEW b \in Attempts, gates[j][b] # "absent"
  PROVE  item_branches'[j][b] = item_branches[j][b]
<1>1. PICK p \in Callers : UNCHANGED item_branches \/ AddWorktree(p) \/ Work(p)
  BY WhoWorks
<1> DEFINE c == calls[p]
           i == c.item
           a == RowOf(p).attempt_number
<1>2. GitOK(gates, run_branches, item_branches)
  BY DEF IInv
<1>3. CASE UNCHANGED item_branches
  BY <1>3
<1>4. CASE /\ i \in Items /\ a \in Attempts /\ gates[i][a] = "absent"
           /\ \E history : item_branches' = [item_branches EXCEPT ![i][a] = history]
  <2> HIDE DEF i, a
  <2> QED
    BY <1>2, <1>4 DEF GitOK
<1>5. CASE AddWorktree(p) /\ ~UNCHANGED item_branches
  <2>1. c.pc = "selected" /\ BranchOf(p) = NoHistory
        /\ item_branches' = [item_branches EXCEPT ![i][a] = RunTipOf(p)]
    BY <1>5 DEF AddWorktree, At
  <2>2. i \in Items /\ a \in Attempts
    BY <2>1, OwnRow DEF Running
  <2>3. ToSet(NoHistory) = {}
    BY EmptyHasNoPlace DEF ToSet, NoHistory
  <2>4. gates[i][a] = "absent"
    BY <1>2, <2>1, <2>2, <2>3 DEF GitOK, BranchOf
  <2> QED
    BY <1>4, <2>1, <2>2, <2>4
<1>6. CASE Work(p)
  <2>1. c.pc = "working" /\ \E history :
           item_branches' = [item_branches EXCEPT ![i][a] = history]
    BY <1>6 DEF Work, At
  <2>2. /\ i \in Items /\ a \in Attempts /\ RowOf(p) = RowIn(c)
        /\ PlaceOK(c, gates, run_branches, item_branches)
    BY <2>1, OwnRow DEF Running
  <2>3. gates[i][a] = "absent"
    BY <2>1, <2>2 DEF PlaceOK, InAttempt
  <2> QED
    BY <1>4, <2>1, <2>2, <2>3
<1> QED
  BY <1>1, <1>3, <1>5, <1>6

\* An attempt's branch stands still from the moment its gate record is there
\* (manual_gate.py): nobody adds to what the human looks at.
THEOREM ReviewedBranchesStay == Spec => ReviewedStays
<1> DEFINE Stay == \A i \in Items, a \in Attempts :
                     gates[i][a] # "absent" => item_branches'[i][a] = item_branches[i][a]
<1>1. IInv /\ [Next]_vars => [Stay]_vars
  BY NextStays
<1> QED
  BY <1>1, Invariance, PTL DEF Spec, ReviewedStays
=============================================================================
