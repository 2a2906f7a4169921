SPECIFICATION Spec
CONSTANTS
  ann = ann
  bob = bob
  ana = ana
  abe = abe
  ben = ben
  chip = chip
  NoChar = NoChar
  Nowhere = Nowhere
  Accounts = {ann, bob}
  Chars = {ana, abe, ben}
  Items = {chip}
  Owner <- MCOwner
  SlotCount <- MCSlotCount
  Start <- MCStart
  Places <- MCPlaces
  SaveClaims <- MCNoSaves
  ItemLimit = 2
  MaxMoney = 2
  MaxQuantity = 1
  MaxRevision = 2
  TradeReach = 1
  RequestLimit = 2
  OpenLimit = 1
INVARIANT IInv
PROPERTIES PromisesKept RevisionPerMovement ImplementsExchange InvitationsEnd
