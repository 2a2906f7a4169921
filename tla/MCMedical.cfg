SPECIFICATION Spec
CONSTANTS
  ana = ana
  ben = ben
  People = {ana, ben}
  Nobody = Nobody
  Nowhere = Nowhere
  Places <- MCPlaces
  Damages <- MCDamages
  TreatReach = 1
  AttackReach = 3
  FullHealth = 2
  RevivedHealth = 1
  BleedoutSeconds = 4
  StabilizeSeconds = 2
  ReviveSeconds = 2
  MaxLate = 1
INVARIANT IInv
PROPERTIES OnlyTheBleedingDie CareTakesTime OneMedicAtATime EveryFallEnds
