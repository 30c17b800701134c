SPECIFICATION Spec
CONSTANTS
  r1 = r1
  r2 = r2
  k1 = k1
  k2 = k2
  e1 = e1
  e2 = e2
  f1 = f1
  f2 = f2
  f3 = f3
  NoKey = NoKey
  NoDoc = NoDoc
  Corrupt = Corrupt
  NoRoom = NoRoom
  Room <- NamedRooms
  KeyOf <- NamedKeyOf
  Key <- NamedKeys
  Edit <- TwoEdits
  EditsOf <- OneEach
  Flusher <- TwoFlushers
  StrayBound = 1
  Resent <- TwoEdits
  Env <- Calm
CHECK_DEADLOCK FALSE
INVARIANT RoomIsolation
