------------------------------ MODULE ControlLock ------------------------------
(***************************************************************************)
(* supervision/control.lock: how the supervisors of one run keep each other *)
(* out (RunSupervisor.acquire_control_lock and release_control_lock of      *)
(* automation/plan_orchestrator/supervisor.py).                             *)
(*                                                                         *)
(* The lock is a file that names its owner's process.  Nothing is atomic    *)
(* but a single operation on that file, so an action is one of those:       *)
(* create or truncate it, write into it, read it, look the owner up, unlink *)
(* it.  A process that opened the file writes into the file it opened, even *)
(* if that file was unlinked in between: attached says whether the two are  *)
(* still the same.  Supervisors may die at any point, and a pid outlives    *)
(* its process if another program gets it (Recycled).                       *)
(*                                                                         *)
(* Session ids are left out: the branches of lines 239 to 252 that ask for  *)
(* them overwrite or refuse exactly as the ones that do not, but for a      *)
(* process that finds its own pid, which none does that acquires once.      *)
(***************************************************************************)
EXTENDS FiniteSets

CONSTANTS
  Supervisors,  \* the processes, named by their pids; each calls once
  Absent,       \* no file
  Torn,         \* a file that is no JSON document: empty, or of two writers
  Recycled      \* pids that belong to some other program once theirs is gone

ASSUME FileAssumption ==
  Absent \notin Supervisors /\ Torn \notin Supervisors /\ Absent # Torn

ASSUME RecycledAssumption == Recycled \subseteq Supervisors

VARIABLES
  lock,      \* the file: Absent, Torn or the owner it names
  pc,        \* where each supervisor is
  seen,      \* the owner each one read
  attached,  \* those whose open file is the one at the lock's path
  died,      \* observation: where processes died
  raced      \* observation: did a step hit another lock than the one it judged

vars == <<lock, pc, seen, attached, died, raced>>

Starting == {"create", "write", "read", "judge", "overwrite", "unlink", "recreate"}
Holding  == {"hold", "release", "remove"}
PCs      == Starting \cup Holding \cup {"idle", "gone"}

Running(p) == pc[p] \notin {"idle", "gone"}
Holds(p)   == pc[p] \in Holding

Init ==
  /\ lock = Absent
  /\ pc = [p \in Supervisors |-> "idle"]
  /\ seen = [p \in Supervisors |-> Absent]
  /\ attached = {}
  /\ died = {}
  /\ raced = FALSE

Goto(p, from, to) == pc[p] = from /\ pc' = [pc EXCEPT ![p] = to]

\* A step of p that changes the file at the lock's path expects to find
\* there what p last knew of it.
Expects(expected) == raced' = (raced \/ lock # expected)

-----------------------------------------------------------------------------
(* acquire_control_lock.  A definition whose name ends in _slip is wrong on
   purpose: the one after it with a plausible mistake, kept to test that the
   properties would notice. *)

Start(p) ==
  /\ Goto(p, "idle", "create")
  /\ UNCHANGED <<lock, seen, attached, died, raced>>

\* open(path, "x"): fails if there is a file.
OpenExclusive(p) ==
  /\ lock = Absent
  /\ lock' = Torn
  /\ attached' = attached \cup {p}
  /\ UNCHANGED <<seen, died, raced>>

CreateLock(p) ==
  \/ Goto(p, "create", "write") /\ OpenExclusive(p)
  \/ /\ Goto(p, "create", "read")
     /\ lock # Absent
     /\ UNCHANGED <<lock, seen, attached, died, raced>>

\* The payload reaches the file that was opened.  Into a file that another
\* process wrote since, it may leave the end of a longer payload behind it.
WriteLock(p) ==
  /\ Goto(p, "write", "hold")
  /\ lock' \in IF p \notin attached THEN {lock}
               ELSE IF lock = Torn THEN {p} ELSE {p, Torn}
  /\ attached' = attached \ {p}
  /\ UNCHANGED <<seen, died, raced>>

\* load_control_lock: no file is None; a file that is no document raises, and
\* so does one that goes away between the test and the reading.
ReadLock(p) ==
  /\ pc[p] = "read"
  /\ UNCHANGED <<lock, attached, died, raced>>
  /\ \/ lock = Absent /\ pc' = [pc EXCEPT ![p] = "unlink"] /\ UNCHANGED seen
     \/ lock \in {Absent, Torn} /\ pc' = [pc EXCEPT ![p] = "gone"] /\ UNCHANGED seen
     \/ /\ lock \in Supervisors
        /\ seen' = [seen EXCEPT ![p] = lock]
        /\ pc' = [pc EXCEPT ![p] = "judge"]

PidIsRunning(q) == Running(q) \/ (q \in Recycled /\ pc[q] = "gone")

JudgeOwner_slip(p) ==
  /\ pc[p] = "judge"
  /\ pc' = [pc EXCEPT ![p] = "overwrite"]
  /\ UNCHANGED <<lock, seen, attached, died, raced>>

\* A running owner refuses the call; anything else is a lock left behind.
JudgeOwner(p) ==
  /\ pc[p] = "judge"
  /\ pc' = [pc EXCEPT ![p] = IF PidIsRunning(seen[p]) THEN "gone" ELSE "overwrite"]
  /\ UNCHANGED <<lock, seen, attached, died, raced>>

\* write_text: open(path, "w") empties the file, or makes one.
Overwrite(p) ==
  /\ Goto(p, "overwrite", "write")
  /\ Expects(seen[p])
  /\ lock' = Torn
  /\ attached' = attached \cup {p}
  /\ UNCHANGED <<seen, died>>

UnlinkMissing(p) ==
  /\ Goto(p, "unlink", "recreate")
  /\ Expects(Absent)
  /\ lock' = Absent
  /\ attached' = {}
  /\ UNCHANGED <<seen, died>>

\* A second FileExistsError is not caught.
RecreateLock(p) ==
  \/ Goto(p, "recreate", "write") /\ OpenExclusive(p)
  \/ /\ Goto(p, "recreate", "gone")
     /\ lock # Absent
     /\ UNCHANGED <<lock, seen, attached, died, raced>>

-----------------------------------------------------------------------------
(* release_control_lock, in the finally clause of manage *)

EndManage(p) ==
  /\ Goto(p, "hold", "release")
  /\ UNCHANGED <<lock, seen, attached, died, raced>>

ReadOwnLock_slip(p) ==
  /\ pc[p] = "release"
  /\ pc' = [pc EXCEPT ![p] = "gone"]
  /\ UNCHANGED <<lock, seen, attached, died, raced>>

\* Only a lock that names this process is removed.
ReadOwnLock(p) ==
  /\ pc[p] = "release"
  /\ pc' = [pc EXCEPT ![p] = IF lock = p THEN "remove" ELSE "gone"]
  /\ UNCHANGED <<lock, seen, attached, died, raced>>

RemoveLock_slip(p) ==
  /\ Goto(p, "remove", "gone")
  /\ Expects(p)
  /\ lock' = Torn
  /\ UNCHANGED <<seen, attached, died>>

RemoveLock(p) ==
  /\ Goto(p, "remove", "gone")
  /\ Expects(p)
  /\ lock' = Absent
  /\ attached' = {}
  /\ UNCHANGED <<seen, died>>

-----------------------------------------------------------------------------
\* A process killed, or a call that fails before manage is entered: the file
\* stays as it is.
Die(p) ==
  /\ Running(p)
  /\ pc' = [pc EXCEPT ![p] = "gone"]
  /\ attached' = attached \ {p}
  /\ died' = died \cup {pc[p]}
  /\ UNCHANGED <<lock, seen, raced>>

Step(p) == \/ Start(p) \/ CreateLock(p) \/ WriteLock(p) \/ ReadLock(p)
           \/ JudgeOwner(p) \/ Overwrite(p) \/ UnlinkMissing(p) \/ RecreateLock(p)
           \/ EndManage(p) \/ ReadOwnLock(p) \/ RemoveLock(p)

Next == \E p \in Supervisors : Step(p) \/ Die(p)

Spec == Init /\ [][Next]_vars

-----------------------------------------------------------------------------
TypeOK ==
  /\ lock \in Supervisors \cup {Absent, Torn}
  /\ pc \in [Supervisors -> PCs]
  /\ seen \in [Supervisors -> Supervisors \cup {Absent}]
  /\ attached \subseteq Supervisors
  /\ died \subseteq PCs
  /\ raced \in BOOLEAN

\* Two supervisors hold the lock only after a step that changed another lock
\* than the one it had judged: reading, judging and changing are separate
\* operations in acquire_control_lock (230 to 252) and release_control_lock
\* (255 to 260), and everything else about them is right.
OneHolderUnlessRaced ==
  raced \/ \A p, q \in Supervisors : Holds(p) /\ Holds(q) => p = q

\* When every call has ended and none of them died, the lock is gone: manage
\* releases in a finally clause, however it returns (line 791).
CleanEndLeavesNoLock ==
  (\A p \in Supervisors : ~Running(p)) /\ died = {} /\ ~raced => lock = Absent

\* A lock that no later call can read past (load_control_lock raises, line 230)
\* is left behind only by a process that died between the creation of the file
\* and the writing of its payload (lines 81 and 82).
UnreadableOnlyByDeath ==
  (\A p \in Supervisors : ~Running(p)) /\ lock = Torn /\ ~raced => "write" \in died

=============================================================================
