SPECIFICATION Spec
CONSTANTS
  s1 = s1
  s2 = s2
  Slots <- TwoSlots
  NBufs = 3
  MaxLen = 3
  Texts <- SomeTexts
  Cmds <- SomeCmds
  Nul = "nul"
SYMMETRY AnySlot
INVARIANTS TypeOK OnlyCommandsAreLost
PROPERTIES ImplementsMailbox
