SPECIFICATION SaleSpec
CONSTANTS
  ann = ann
  bob = bob
  ana = ana
  ben = ben
  chip = chip
  car1 = car1
  car2 = car2
  t1 = t1
  t2 = t2
  NoChar = NoChar
  NoCar = NoCar
  Nowhere = Nowhere
  Nobody = Nobody
  NoToken = NoToken
  Accounts = {ann, bob}
  Chars = {ana, ben}
  Items = {chip}
  Owner <- MCOwner
  SlotCount <- MCSlotCount
  Start <- MCStart
  Places <- MCPlaces
  SaveClaims <- MCSaves
  ItemLimit = 0
  MaxMoney = 1
  MaxQuantity = 1
  MaxRevision = 2
  TradeReach = 1
  RequestLimit = 1
  OpenLimit = 1
  Cars = {car1, car2}
  Tokens = {t1, t2}
  Prices = {1}
INVARIANT SaleIInv
PROPERTIES CarsArePaidFor LocksLiveWithTheirOffers ImplementsExchange
SYMMETRY MCSymmetry
