SPECIFICATION Spec
CONSTANTS
  NSlots = 3
  MaxChal = 1
  MaxDown = 1
  MaxFails = 2
PROPERTIES GivesUpOnAnswer
