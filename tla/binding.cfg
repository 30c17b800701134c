SPECIFICATION Spec
CONSTANTS
  b1 = b1
  b2 = b2
  x = x
  y = y
  NoElem = NoElem
  Client <- Two
  Board <- Boards
  Shows <- FirstTwo
  Id <- Ids
  MinterOf <- EachOne
  BoardOf <- OneBoard
  MaxVersion <- Changes
  MaxWrites <- Changes
INVARIANTS
  TypeOK
  SceneIsDoc
  EditorsAgree
  OnlyEmptyBoardsLeak
PROPERTY NoEcho
