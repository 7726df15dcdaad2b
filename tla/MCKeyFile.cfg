SPECIFICATION Spec
CONSTANTS
  Process = {p1, p2}
  Password = {pw1, pw2}
  NoPassword = NoPassword
  LogN <- MCLogN
  RottenLimits <- MCRottenLimits
  Width = 256
  Bits = 8
  OpsMultiplier = 2
  MemMultiplier = 4
  R = 2
  ProductionLogN = 3
  WeakLogN = 0
  MediumFrom = 16
  MaxWrites = 2
  MaxRot = 1
SYMMETRY Symmetry
INVARIANTS
  KeyFileTypeOK
  OpensWithItsPassword
  NeverAnotherKey
  KdfWithinBudget
  LimitsDecodeExactly
  InspectForetellsUse
CHECK_DEADLOCK FALSE
