SPECIFICATION Spec
CONSTANTS
  j1 = j1
  j2 = j2
  N = 3
  Maxes <- OneTwoThree
  Jobs <- OneJob
  MaxOpen = 4
INVARIANTS IdleMeansFree WorkConserving
PROPERTIES ThreadsAreCells
