SPECIFICATION Spec
CONSTANTS
  Players = {p1}
  Bots = {b1}
  Rooms = {r1, r2}
  NoRoom = NoRoom
  NoTicket = NoTicket
  Tokens = {t1}
  MaxPlayers = 2
  MatchSize = 2
  Patience = 1
  TicketWindow = 2
  ReservationWindow = 3
INVARIANTS
  TypeOK
  OnePromise
PROPERTIES
  DepartureClears
  SeatsFollowPlacement
  PromiseOutlastsTicket
  PromisesEnd
  QueueServed
