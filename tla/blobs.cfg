SPECIFICATION FairSpec
CONSTANTS
  Client <- TwoClients
  File <- ThreeFiles
  Oversized <- Huge
  Disallowed <- Svg
  Pastes <- EachPastes
  Reloading <- Second
  MaxWrites = 2
INVARIANTS
  PrunedUnlessLoaded
  EditorFollowsDoc
PROPERTIES
  EchoOnlyPruned
  ImagesArrive
