SPECIFICATION Spec
CONSTANTS
  r1 = r1
  r2 = r2
  e1 = e1
  e2 = e2
  e3 = e3
  p1 = p1
  p2 = p2
  Absent = Absent
  NoRoom = NoRoom
  Edit <- ThreeEdits
  Room <- OneRoom
  EditsOf <- AllOfOne
  Peer <- OnePeer
  ChanCap = 3
  Failures <- NoFailure
INVARIANT UnflushedUpdatesArrive
