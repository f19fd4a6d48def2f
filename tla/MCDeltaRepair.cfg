SPECIFICATION RepairSpec
CONSTANTS
  a1 = a1
  a2 = a2
  Keys <- MCKeys
  SlotOf <- MCSlotOf
  History = 3
  AckSpan = 2
  StalledAfter = 2
  KeepaliveEvery = 3
  Policies = {"AckRecovery", "Naive"}
  ChaosUntil = 4
  MaxSeq = 8
  MaxAcks = 1
INVARIANTS
  RepairedInTime
SYMMETRY MCSymmetry
CHECK_DEADLOCK FALSE
