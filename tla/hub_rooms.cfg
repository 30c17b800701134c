SPECIFICATION FairSpec
CONSTANTS
  r1 = r1
  r2 = r2
  e1 = e1
  e2 = e2
  e3 = e3
  p1 = p1
  p2 = p2
  Absent = Absent
  NoRoom = NoRoom
  Edit <- ThreeEdits
  Room <- TwoRooms
  EditsOf <- TwoAndOne
  Peer <- TwoPeers
  ChanCap = 1
  Failures <- AnyFailure
INVARIANTS
  TypeOK
  OnlyKnownGaps
  ViewersKeepApart
  NoLeakedSubscription
PROPERTY ViewersCatchUp
