SPECIFICATION Spec
CONSTANTS
  a1 = a1
  a2 = a2
  Keys <- MCKeys
  SlotOf <- MCSlotOf
  History = 2
  AckSpan = 2
  StalledAfter = 1
  KeepaliveEvery = 2
  Policies = {"AckRecovery", "Naive"}
  MaxSeq = 4
  MaxAcks = 2
INVARIANTS
  TypeOK
  Agreement
  BaselineReached
  NoFalseDrift
PROPERTIES
  FrontierNeverRetreats
SYMMETRY MCSymmetry
