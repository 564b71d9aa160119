SPECIFICATION FairCellSpec
CONSTANTS
  SeqMod = 4
INVARIANTS UnlockedReadIsTrue
PROPERTIES ImplementsHandshake ImplementsCell CallsReturn
