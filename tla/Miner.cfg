\* Deadlock is not checked: without a connection that reports, and without
\* solvers, the miner waits for an event for ever.
SPECIFICATION FairSpec
CONSTANTS
  NSlots = 2
  MaxChal = 2
  MaxDown = 1
  NSolvers = 1
INVARIANTS NoTornChallenge SolversAreHeard SubmitsCurrent QueryFirst ReadIsThere OnlyOwnSocket LiveConnIsValid
PROPERTIES DropIsNoticed QueryGoesOut
CHECK_DEADLOCK FALSE
