SPECIFICATION Spec
CONSTANTS
  ana = ana
  ben = ben
  wheel = wheel
  side = side
  People = {ana, ben}
  Cars = {car1, car2}
  Seats = {wheel, side}
  Driver = wheel
  Rank <- MCRank
  NoOne = NoOne
  NoCar = NoCar
  NoSeat = NoSeat
  OwnCar = OwnCar
  Unpaired = Unpaired
  MaxRequests = 1
  MaxMail = 0
  MaxMoves = 1
  MaxHandovers = 1
  Others = FALSE
SYMMETRY Symmetry
INVARIANTS SeatsSound LatePacketsAreStale NobodySimulatesInVain
PROPERTIES NoEarlierGrantShown HeirsSitInside ParkedOnlyWhenEmpty
