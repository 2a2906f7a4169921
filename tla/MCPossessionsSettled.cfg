SPECIFICATION Spec
CONSTANTS
  SlotCount = 1
  Settle = 2
  MaxChars = 2
  Commands = {}
  MaxQueue = 1

PROPERTIES RestoresAreSettled
