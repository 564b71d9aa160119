SPECIFICATION Spec
CONSTANTS
  NSolvers = 2
  SP_EXPSIZE = 2
  Sizes = {1, 3, 4}
  NONCEMIN = 3
  NONCEMAX = 9
  CHAL_NONCEINC = 4
  MaxDraws = 3
  NThreads = 3
INVARIANTS MiningIsReady FitsTheChallenge NonceOnce
PROPERTIES Ends
