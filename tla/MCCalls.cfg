SPECIFICATION Spec
CONSTANTS
  ann = ann
  bob = bob
  cat = cat
  ana = ana
  ben = ben
  cyd = cyd
  NoChar = NoChar
  Accounts = {ann, bob, cat}
  Chars = {ana, ben, cyd}
  Owner <- MCOwner
  StartSlot <- MCStartSlot
  SlotCount <- MCSlotCount
  Blockable = {}
  RingSeconds = 2
  HistoryCap = 1
  MaxCalls = 2
  Mortal = {}
  MaxNotices = 1
  MaxPressed = 1
INVARIANTS IInv
PROPERTIES BothSidesRecorded ButtonsMeanTheirCall ImplementsTelephone
CHECK_DEADLOCK FALSE
SYMMETRY MCSymmetry
