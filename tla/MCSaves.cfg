SPECIFICATION FairSpec
CONSTANTS
  MaxDeals = 2
  MaxFaults = 2
  MaxCrashes = 2
INVARIANTS IInv NoMoneyFromCrashes
PROPERTIES ReplacedWhole ImplementsBooks WrittenInTheEnd
CHECK_DEADLOCK FALSE
