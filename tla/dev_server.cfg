SPECIFICATION Spec
CONSTANTS
  r1 = r1
  r2 = r2
  r3 = r3
  f1 = f1
  f2 = f2
  e1 = e1
  e2 = e2
  c1 = c1
  c2 = c2
  c3 = c3
  d1 = d1
  d2 = d2
  NoRoom = NoRoom
  NoDoc = NoDoc
  Torn = Torn
  Edit <- TwoEdits
  Room <- ThreeRooms
  EditsOf <- Edits
  File <- TwoFiles
  FileOf <- Alike
  Conn <- Conns3
  Doc <- Docs2
  MaxTotal = 2
  MaxRoom = 2
SYMMETRY Symmetry
INVARIANTS
  TypeOK
  SlotsMatchSockets
  CapsHold
  TimerHasCurrentDoc
  LastCloseSaves
  UnsavedHasTimer
PROPERTY ImplementsDurableRooms
