------------------------------ MODULE RoomFiles ------------------------------
(***************************************************************************)
(* Where the two sync servers keep a room: from the name a client joins,   *)
(* through the URL the browser asks for, to the Go server's key            *)
(* (server-go) and the Node dev server's file (server/index.mjs).  A name  *)
(* is a sequence of characters.                                            *)
(***************************************************************************)
EXTENDS RoomKey, SequencesExt

CONSTANTS
  UrlPlain,   \* characters a browser leaves as they are in a URL's path
  Encoded     \* [the other characters -> Seq(Char)], their "%XX" forms

(* The client appends the room to the server's URL; the URL parser of the  *)
(* browser percent-encodes what may not stand in a path.  Names have no    *)
(* character that ends a path or starts an escape.                         *)
UrlPath(room) ==
  FlattenSeq([i \in 1 .. Len(room) |->
    IF room[i] \in UrlPlain THEN <<room[i]>> ELSE Encoded[room[i]]])

(* The mux matches /ws/{room} with one non-empty segment and decodes it,    *)
(* which gives the name back.                                              *)
Routed(room) == room # <<>> /\ \A i \in 1 .. Len(room) : room[i] # "/"

(* diskSink.path and bucketSink.key: the last segment, without ".bin".     *)
GoKey(room) == SafeRoom(room)

NodeKey(path) == Sanitize(path)
=============================================================================
