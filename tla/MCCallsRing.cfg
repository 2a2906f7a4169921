SPECIFICATION Spec
CONSTANTS
  ann = ann
  bob = bob
  cat = cat
  ana = ana
  ben = ben
  cyd = cyd
  NoChar = NoChar
  Accounts = {ann, bob}
  Chars = {ana, ben}
  Owner <- MCOwner
  StartSlot <- MCStartSlot
  SlotCount <- MCSlotCount
  Blockable <- MCBlockable
  RingSeconds = 2
  HistoryCap = 1
  MaxCalls = 2
  Mortal = {ana, ben}
  MaxNotices = 1
  MaxPressed = 1
CHECK_DEADLOCK FALSE
PROPERTY RingingEnds
