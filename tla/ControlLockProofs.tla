--------------------------- MODULE ControlLockProofs ---------------------------
(***************************************************************************)
(* Proofs about ControlLock, for any number of supervisors.  The invariant  *)
(* says who may be named by the file and who may be writing it while no     *)
(* step hit a lock it had not judged.                                       *)
(***************************************************************************)
EXTENDS ControlLock, TLAPS

Writes(p) == pc[p] = "write"

\* A process that was read or that is judged gone has been started, and what
\* is gone stays gone.
SeenInv ==
  /\ \A p \in Supervisors : lock = p => pc[p] # "idle"
  /\ \A p \in Supervisors : pc[p] \in {"judge", "overwrite"} =>
       seen[p] \in Supervisors /\ pc[seen[p]] # "idle"
  /\ \A p \in Supervisors : pc[p] = "overwrite" => pc[seen[p]] = "gone"

\* The holder is the one the file names; the only writer has it open and empty.
OwnerInv ==
  ~raced =>
    /\ \A p \in Supervisors : Holds(p) => lock = p
    /\ \A p \in Supervisors : Writes(p) => lock = Torn /\ p \in attached
    /\ \A p, q \in Supervisors : Writes(p) /\ Writes(q) => p = q

\* What the file holds is somebody's, or was left by a dead process.
LeftInv ==
  ~raced =>
    /\ lock = Torn => (\E p \in Supervisors : Writes(p)) \/ "write" \in died
    /\ lock \in Supervisors => Holds(lock) \/ died # {}

IInv == TypeOK /\ SeenInv /\ OwnerInv /\ LeftInv

LEMMA InitInv == Init => IInv
<1> SUFFICES ASSUME Init PROVE IInv
  OBVIOUS
<1> USE FileAssumption DEF Init
<1>1. TypeOK
  BY DEF TypeOK, PCs, Starting, Holding
<1>2. SeenInv
  BY DEF SeenInv
<1>3. OwnerInv /\ LeftInv
  BY DEF OwnerInv, LeftInv, Holds, Holding, Writes
<1> QED
  BY <1>1, <1>2, <1>3 DEF IInv

\* Types, one action at a time.
LEMMA TypeStep ==
  ASSUME TypeOK, NEW p \in Supervisors, Step(p) \/ Die(p)
  PROVE  TypeOK'
<1> USE FileAssumption DEF TypeOK, PCs, Starting, Holding, Goto
<1>1. CASE Start(p)
  BY <1>1 DEF Start
<1>2. CASE CreateLock(p)
  BY <1>2 DEF CreateLock, OpenExclusive
<1>3. CASE WriteLock(p)
  BY <1>3 DEF WriteLock
<1>4. CASE ReadLock(p)
  BY <1>4 DEF ReadLock
<1>5. CASE JudgeOwner(p)
  BY <1>5 DEF JudgeOwner
<1>6. CASE Overwrite(p)
  BY <1>6 DEF Overwrite, Expects
<1>7. CASE UnlinkMissing(p)
  BY <1>7 DEF UnlinkMissing, Expects
<1>8. CASE RecreateLock(p)
  BY <1>8 DEF RecreateLock, OpenExclusive
<1>9. CASE EndManage(p)
  BY <1>9 DEF EndManage
<1>10. CASE ReadOwnLock(p)
  BY <1>10 DEF ReadOwnLock
<1>11. CASE RemoveLock(p)
  BY <1>11 DEF RemoveLock, Expects
<1>12. CASE Die(p)
  <2>1. pc[p] \in PCs
    OBVIOUS
  <2> QED
    BY <1>12, <2>1 DEF Die
<1> QED
  BY <1>1, <1>2, <1>3, <1>4, <1>5, <1>6, <1>7, <1>8, <1>9, <1>10, <1>11, <1>12
  DEF Step

\* A step moves one process, which is neither idle afterwards nor gone before.
LEMMA OneMoves ==
  ASSUME TypeOK, NEW p \in Supervisors, Step(p) \/ Die(p)
  PROVE  /\ \A q \in Supervisors : q # p => pc'[q] = pc[q]
         /\ pc'[p] # "idle"
         /\ pc[p] # "gone"
<1> USE DEF TypeOK, Goto
<1>1. CASE Step(p)
  BY <1>1
  DEF Step, Start, CreateLock, WriteLock, ReadLock, JudgeOwner, Overwrite,
      UnlinkMissing, RecreateLock, EndManage, ReadOwnLock, RemoveLock
<1>2. CASE Die(p)
  BY <1>2 DEF Die, Running
<1> QED
  BY <1>1, <1>2

LEMMA SeenStep ==
  ASSUME TypeOK, SeenInv, NEW p \in Supervisors, Step(p) \/ Die(p)
  PROVE  SeenInv'
<1> USE FileAssumption DEF TypeOK, Goto
<1>1. /\ \A q \in Supervisors : q # p => pc'[q] = pc[q]
      /\ pc'[p] # "idle"
      /\ pc[p] # "gone"
  BY OneMoves
<1>2. \A q \in Supervisors :
        /\ pc[q] # "idle" => pc'[q] # "idle"
        /\ pc[q] = "gone" => pc'[q] = "gone"
  BY <1>1
<1>3. lock' \in {lock, p, Torn, Absent}
  BY DEF Step, Start, CreateLock, OpenExclusive, WriteLock, ReadLock, JudgeOwner,
         Overwrite, UnlinkMissing, RecreateLock, EndManage, ReadOwnLock, RemoveLock,
         Die
<1>4. \A q \in Supervisors : lock' = q => pc'[q] # "idle"
  BY <1>1, <1>2, <1>3 DEF SeenInv
<1>5. CASE ReadLock(p)
  <2>1. \A q \in Supervisors : q # p => seen'[q] = seen[q]
    BY <1>5 DEF ReadLock
  <2>2. pc'[p] = "judge" => seen'[p] \in Supervisors /\ pc[seen'[p]] # "idle"
    BY <1>5 DEF ReadLock, SeenInv
  <2>3. pc'[p] # "overwrite"
    BY <1>5 DEF ReadLock
  <2> QED
    BY <1>1, <1>2, <1>4, <2>1, <2>2, <2>3 DEF SeenInv
<1>6. CASE JudgeOwner(p)
  <2>1. seen' = seen /\ pc[p] = "judge"
    BY <1>6 DEF JudgeOwner
  <2>2. pc'[p] = "overwrite" => pc[seen[p]] = "gone"
    BY <1>6, <2>1 DEF JudgeOwner, PidIsRunning, Running, SeenInv
  <2> QED
    BY <1>1, <1>2, <1>4, <2>1, <2>2 DEF SeenInv
<1>7. CASE ~ReadLock(p) /\ ~JudgeOwner(p)
  <2>1. seen' = seen /\ pc'[p] \notin {"judge", "overwrite"}
    BY <1>7
    DEF Step, Start, CreateLock, OpenExclusive, WriteLock, Overwrite, UnlinkMissing,
        RecreateLock, EndManage, ReadOwnLock, RemoveLock, Die
  <2> QED
    BY <1>1, <1>2, <1>4, <2>1 DEF SeenInv
<1> QED
  BY <1>5, <1>6, <1>7

-----------------------------------------------------------------------------
\* Who holds and who writes, and whose the file is.
LEMMA OwnerStep ==
  ASSUME IInv, NEW p \in Supervisors, Step(p) \/ Die(p)
  PROVE  OwnerInv' /\ LeftInv'
<1> SUFFICES ASSUME ~raced'
             PROVE  /\ \A q \in Supervisors : Holds(q)' => lock' = q
                    /\ \A q \in Supervisors : Writes(q)' => lock' = Torn /\ q \in attached'
                    /\ \A q, r \in Supervisors : Writes(q)' /\ Writes(r)' => q = r
                    /\ lock' = Torn =>
                         (\E q \in Supervisors : Writes(q)') \/ "write" \in died'
                    /\ lock' \in Supervisors => pc'[lock'] \in Holding \/ died' # {}
  BY DEF OwnerInv, LeftInv, Holds
<1> USE FileAssumption DEF Goto, Holds, Holding, Writes
<1>1. /\ pc \in [Supervisors -> PCs]
      /\ lock \in Supervisors \cup {Absent, Torn}
      /\ \A q \in Supervisors : q # p => pc'[q] = pc[q]
  BY OneMoves DEF IInv, TypeOK
<1>2. ~raced
  BY DEF Step, Start, CreateLock, OpenExclusive, WriteLock, ReadLock, JudgeOwner,
         Overwrite, UnlinkMissing, RecreateLock, EndManage, ReadOwnLock, RemoveLock,
         Die, Expects
<1>3. /\ \A q \in Supervisors : Holds(q) => lock = q
      /\ \A q \in Supervisors : Writes(q) => lock = Torn /\ q \in attached
      /\ \A q, r \in Supervisors : Writes(q) /\ Writes(r) => q = r
  BY <1>2 DEF IInv, OwnerInv
<1>4. /\ lock = Torn => (\E q \in Supervisors : Writes(q)) \/ "write" \in died
      /\ lock \in Supervisors => Holds(lock) \/ died # {}
  BY <1>2 DEF IInv, LeftInv
<1>5. CASE /\ pc'[p] = "write" /\ lock' = Torn /\ attached' = attached \cup {p}
           /\ \A q \in Supervisors : ~Holds(q) /\ ~Writes(q)
  BY <1>1, <1>5
<1>6. CASE /\ lock' = lock /\ attached' = attached /\ died' = died
           /\ (Holds(p)' <=> Holds(p)) /\ ~Writes(p) /\ ~Writes(p)'
  BY <1>1, <1>3, <1>4, <1>6
<1>7. CASE CreateLock(p) \/ RecreateLock(p)
  <2>1. CASE OpenExclusive(p)
    <3>1. pc'[p] = "write"
      BY <1>1, <1>7, <2>1 DEF CreateLock, RecreateLock, OpenExclusive
    <3> QED
      BY <1>3, <1>5, <2>1, <3>1 DEF OpenExclusive
  <2>2. CASE ~OpenExclusive(p)
    BY <1>1, <1>6, <1>7, <2>2 DEF CreateLock, RecreateLock
  <2> QED
    BY <2>1, <2>2
<1>8. CASE WriteLock(p)
  <2>1. Writes(p) /\ pc' = [pc EXCEPT ![p] = "hold"]
    BY <1>8 DEF WriteLock
  <2>2. lock' = p /\ attached' = attached \ {p} /\ died' = died
    BY <1>3, <1>8, <2>1 DEF WriteLock
  <2>3. \A q \in Supervisors : ~Holds(q) /\ (Writes(q) => q = p)
    BY <1>3, <2>1
  <2> QED
    BY <1>1, <2>1, <2>2, <2>3
<1>9. CASE Overwrite(p)
  <2>1. lock = seen[p] /\ pc[p] = "overwrite"
    BY <1>9 DEF Overwrite, Expects
  <2>2. seen[p] \in Supervisors /\ pc[seen[p]] = "gone"
    BY <2>1 DEF IInv, SeenInv
  <2>3. \A q \in Supervisors : ~Holds(q) /\ ~Writes(q)
    BY <1>3, <2>1, <2>2
  <2>4. pc'[p] = "write"
    BY <1>1, <1>9 DEF Overwrite
  <2> QED
    BY <1>5, <1>9, <2>3, <2>4 DEF Overwrite
<1>10. CASE UnlinkMissing(p)
  <2>1. /\ lock = Absent /\ lock' = Absent
        /\ pc' = [pc EXCEPT ![p] = "recreate"]
    BY <1>10 DEF UnlinkMissing, Expects
  <2> QED
    BY <1>1, <1>3, <2>1
<1>11. CASE RemoveLock(p)
  <2>1. /\ lock = p /\ lock' = Absent /\ pc[p] = "remove"
        /\ pc' = [pc EXCEPT ![p] = "gone"]
    BY <1>11 DEF RemoveLock, Expects
  <2> QED
    BY <1>1, <1>3, <2>1
<1>12. CASE Die(p)
  <2>1. /\ lock' = lock /\ attached' = attached \ {p} /\ died' = died \cup {pc[p]}
        /\ pc' = [pc EXCEPT ![p] = "gone"]
    BY <1>12 DEF Die
  <2>2. \A q \in Supervisors :
          /\ Holds(q)' => Holds(q) /\ q # p
          /\ Writes(q)' => Writes(q) /\ q # p
    BY <1>1, <2>1
  <2>3. lock' = Torn => (\E q \in Supervisors : Writes(q)') \/ "write" \in died'
    <3> SUFFICES ASSUME lock = Torn, "write" \notin died
                 PROVE  (\E q \in Supervisors : Writes(q)') \/ "write" \in died'
      BY <2>1
    <3>1. PICK q \in Supervisors : Writes(q)
      BY <1>4
    <3>2. CASE q = p
      BY <2>1, <3>1, <3>2
    <3>3. CASE q # p
      BY <1>1, <3>1, <3>3
    <3> QED
      BY <3>2, <3>3
  <2> QED
    BY <1>3, <2>1, <2>2, <2>3
<1>13. CASE Start(p) \/ ReadLock(p) \/ JudgeOwner(p) \/ EndManage(p)
  BY <1>1, <1>6, <1>13 DEF Start, ReadLock, JudgeOwner, EndManage
<1>14. CASE ReadOwnLock(p)
  <2>1. lock = p
    BY <1>3, <1>14 DEF ReadOwnLock
  <2> QED
    BY <1>1, <1>6, <1>14, <2>1 DEF ReadOwnLock
<1> QED
  BY <1>7, <1>8, <1>9, <1>10, <1>11, <1>12, <1>13, <1>14 DEF Step

LEMMA NextInv == IInv /\ [Next]_vars => IInv'
<1> SUFFICES ASSUME IInv, [Next]_vars PROVE IInv'
  OBVIOUS
<1>1. CASE UNCHANGED vars
  BY <1>1 DEF IInv, TypeOK, SeenInv, OwnerInv, LeftInv, Holds, Writes, vars
<1>2. CASE Next
  <2>1. PICK p \in Supervisors : Step(p) \/ Die(p)
    BY <1>2 DEF Next
  <2>2. TypeOK'
    BY <2>1, TypeStep DEF IInv
  <2>3. SeenInv'
    BY <2>1, SeenStep DEF IInv
  <2>4. OwnerInv' /\ LeftInv'
    BY <2>1, OwnerStep
  <2> QED
    BY <2>2, <2>3, <2>4 DEF IInv
<1> QED
  BY <1>1, <1>2

\* The invariant holds throughout, of any number of supervisors.
THEOREM LockInductive == Spec => []IInv
BY InitInv, NextInv, PTL DEF Spec

\* The file, the processes and what they read keep their types.
THEOREM TypesKept == Spec => []TypeOK
<1>1. IInv => TypeOK
  BY DEF IInv
<1> QED
  BY <1>1, LockInductive, PTL

\* Two supervisors hold the lock at once only after a step that changed
\* another lock than the one it had judged.
THEOREM OneHolderKept == Spec => []OneHolderUnlessRaced
<1>1. IInv => OneHolderUnlessRaced
  BY DEF IInv, OwnerInv, OneHolderUnlessRaced
<1> QED
  BY <1>1, LockInductive, PTL

\* Calls that all ended, with no death among them, leave no lock.
THEOREM CleanEnd == Spec => []CleanEndLeavesNoLock
<1>1. IInv => CleanEndLeavesNoLock
  BY DEF IInv, TypeOK, LeftInv, CleanEndLeavesNoLock, Running, Holds, Holding, Writes
<1> QED
  BY <1>1, LockInductive, PTL

\* A lock nobody can read past was left by a process that died while writing.
THEOREM UnreadableByDeath == Spec => []UnreadableOnlyByDeath
<1>1. IInv => UnreadableOnlyByDeath
  BY DEF IInv, LeftInv, UnreadableOnlyByDeath, Running, Writes
<1> QED
  BY <1>1, LockInductive, PTL

=============================================================================
