SPECIFICATION Spec
CONSTANTS
  p1 = p1
  p2 = p2
  b1 = b1
  b2 = b2
  NoKey = NoKey
  People <- MCPeople
  Bots <- MCBots
  Capacity = 2
  PersonRanks = {0, 1}
  BotRanks = {1, 2}
INVARIANTS
  TypeOK
  SeatsAgree
  OnePlace
  QueueOrdered
PROPERTIES
  ResolveSettles
  OnlyOutranked
  ResolveEnds
