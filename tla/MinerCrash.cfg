\* Deadlock is not checked: without a connection that reports, and without
\* solvers, the miner waits for an event for ever.
SPECIFICATION Spec
CONSTANTS
  NSlots = 2
  MaxChal = 2
  MaxDown = 1
  NSolvers = 1
INVARIANTS NoCrash
CHECK_DEADLOCK FALSE
