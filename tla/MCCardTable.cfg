SPECIFICATION Spec
CONSTANTS
  Players = {p1, p2, p3}
  Nobody = Nobody
  TableSize = 3
  HandSize = 2
  Rounds = 2
  TurnTimeout = 2
  Intermission = 3
INVARIANTS
  TypeOK
  OrderSeated
  TurnIsPlayable
  TurnHasClock
PROPERTIES
  MatchEnds
