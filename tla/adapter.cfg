SPECIFICATION FairSpec
CONSTANTS
  r1 = r1
  r2 = r2
  k1 = k1
  k2 = k2
  e1 = e1
  e2 = e2
  f1 = f1
  f2 = f2
  f3 = f3
  NoKey = NoKey
  NoDoc = NoDoc
  Corrupt = Corrupt
  NoRoom = NoRoom
  Room <- TwoRooms
  KeyOf <- OwnKeys
  Key <- TwoKeys
  Edit <- TwoEdits
  EditsOf <- TwoInOne
  Flusher <- ThreeFlushers
  StrayBound = 1
  Resent = {}
  Env <- Anything
CHECK_DEADLOCK FALSE
INVARIANTS
  TypeOK
  SettledUnlessOverlapped
  RoomIsolation
  NoOrphanEdit
  OrphanInv
  StopPersistsUnlessRaced
PROPERTIES
  ImplementsDurableRooms
  EditsReachStore
