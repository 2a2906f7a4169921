SPECIFICATION Spec
CONSTANTS
  ann = ann
  bob = bob
  ana = ana
  ben = ben
  bea = bea
  Accounts = {ann, bob}
  Chars = {ana, ben, bea}
  Owner <- MCOwner
  StartSlot <- MCStartSlot
  Blocks <- MCBlocks
  Asked <- MCAsked
  Requests = {r1}
  NoRequest = NoRequest
  ThreadCap = 1
  PageSize = 1
  FlushSeconds = 1
  LedgerSeconds = 1
  PerOwnerLimit = 1
  GlobalLimit = 2
  MaxTexts = 3
INVARIANTS IInv
PROPERTIES RetriesAreOneText ImplementsMailbox TextsReachTheDisk
CHECK_DEADLOCK FALSE
