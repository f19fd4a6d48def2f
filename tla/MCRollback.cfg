SPECIFICATION Spec
CONSTANTS
  p1 = p1
  p2 = p2
  still = still
  push = push
  Peers = {p1, p2}
  Inputs = {still, push}
  Neutral <- NeutralInputs
  Worlds <- AppliedWorlds
  Start <- NoneApplied
  Step <- Applied
  Predict <- RepeatLast
  Horizon = 4
  Reach = 2
  Lead = 1
  FirstKnown = TRUE
  MaxFrame = 5
INVARIANTS
  InSync
  OnlyWrongGuesses
SYMMETRY Swaps
CHECK_DEADLOCK FALSE
