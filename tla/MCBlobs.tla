------------------------------- MODULE MCBlobs -------------------------------
(* Two editors, an image, one that is too large, and an SVG. *)
EXTENDS Blobs

TwoClients == {1, 2}
ThreeFiles == {"png", "huge", "svg"}
Huge       == {"huge"}
Svg        == {"svg"}
EachPastes == <<{"huge", "svg"}, {"png"}>>
Second     == {2}
=============================================================================
