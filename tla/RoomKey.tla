------------------------------- MODULE RoomKey -------------------------------
(***************************************************************************)
(* From room names to storage keys: safeRoom of server-go/persistence.go.  *)
(* A name is a sequence of characters.                                     *)
(***************************************************************************)
EXTENDS Sequences, Naturals

CONSTANTS
  Char,       \* the characters of room names
  SafeChar,   \* those of the class [a-zA-Z0-9._-]
  NoKey       \* safeRoom's "": the caller stores nothing

ASSUME CharAssumption ==
  /\ SafeChar \subseteq Char
  /\ {".", "_"} \subseteq SafeChar
  /\ "/" \notin SafeChar

(* unsafeRoomChar.ReplaceAllString(room, "_")                              *)
Sanitize(name) ==
  [i \in 1 .. Len(name) |-> IF name[i] \in SafeChar THEN name[i] ELSE "_"]

DotNames == {<<>>, <<".">>, <<".", ".">>}

SafeRoom(name) ==
  IF Sanitize(name) \in DotNames THEN NoKey ELSE Sanitize(name)
=============================================================================
