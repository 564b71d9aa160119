SPECIFICATION Spec
CONSTANTS
  Size = 5
  MaxBlks = 7
  Nums = {0, 7, 10}
  MaxElems = 6
  U64STRLEN = 2
INVARIANTS ParentIsFirst SolutionIsShortest SortsTheNumbers ParsesAnyOrder HashesTheNumbers
PROPERTIES ReachedIsSettled
