SPECIFICATION Spec
CONSTANTS
  SlotCount = 1
  Settle = 2
  MaxChars = 2
  Commands = {"ask"}
  MaxQueue = 1
INVARIANTS IInv
PROPERTIES RestoresCome
