SPECIFICATION MCSpec
CONSTANTS
  Clients = {c1, c2}
  Capacity = 2
  Unseen = Unseen
  MaxEvents = 4
INVARIANTS
  TypeOK
  NothingMissedAfterHandshake
PROPERTIES
  FeedContract
  EveryEventDelivered
  StreamsEnd
CHECK_DEADLOCK FALSE
