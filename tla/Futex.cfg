\* Deadlock is not checked: every client may be waiting on the condition.
SPECIFICATION FairFSpec
CONSTANTS
  p1 = p1
  p2 = p2
  p3 = p3
  Procs <- MCProcs
  SeqMod = 2
INVARIANTS FTypeOK MutualExclusion NoLostWakeup
PROPERTIES LockProgress
CHECK_DEADLOCK FALSE
