SPECIFICATION Spec
CONSTANTS
  ann = ann
  bob = bob
  c1 = c1
  c2 = c2
  c3 = c3
  Accounts = {ann, bob}
  Conns = {c1, c2, c3}
  Owner <- MCOwner
  Staff = {bob}
  Changes <- MCChanges
  MaxPlayer = 2
  SweepMinutes = 1
  CacheMinutes = 2
INVARIANTS IInv
PROPERTIES AdmissionIsEarned EverybodyIsAnswered RevokedLeave
CHECK_DEADLOCK FALSE
