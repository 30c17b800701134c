------------------------- MODULE MCExcalidrawBinding -------------------------
(* Two clients with an element each on a board, one of them with another too. *)
EXTENDS ExcalidrawBinding, TLC

CONSTANTS b1, b2, x, y

Two      == {1, 2}
Boards   == {b1, b2}
Ids      == {x, y}
EachOne  == (x :> 1) @@ (y :> 2)
FirstTwo == <<Boards, {b1}>>
OneBoard == (x :> b1) @@ (y :> b1)
Changes  == (x :> 2) @@ (y :> 1)
=============================================================================
