SPECIFICATION LoopSpec
CONSTANTS
  MaxQued = 2
  MaxHead = 5
  MaxOsQueue = 3
  MaxPosted = 5
  Events <- InputEvents
  NoEvent <- NoInput
INVARIANTS
  InputInOrder
  LossIsExact
PROPERTIES
  ImplementsFifo
  LoopGoesOn
