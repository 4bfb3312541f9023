\* Four calls, one of whose pids goes to another program afterwards.
CONSTANTS
  Supervisors = {s1, s2, s3, s4}
  Recycled = {s4}
  Absent = Absent
  Torn = Torn
SYMMETRY Symmetry
SPECIFICATION Spec
INVARIANTS
  OneHolderUnlessRaced
  CleanEndLeavesNoLock
  UnreadableOnlyByDeath
CHECK_DEADLOCK FALSE
