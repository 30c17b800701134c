---------------------------- MODULE MCReadOnlyHub ----------------------------
(* Small instances of ReadOnlyHub for TLC. *)
EXTENDS ReadOnlyHub, TLC

CONSTANTS r1, r2, e1, e2, e3, p1, p2

TwoRooms    == {r1, r2}
OneRoom     == {r1}
ThreeEdits  == {e1, e2, e3}
TwoAndOne   == (r1 :> {e1, e2}) @@ (r2 :> {e3})
AllOfOne    == (r1 :> {e1, e2, e3})
TwoPeers    == {p1, p2}
OnePeer     == {p1}
AnyFailure  == {"load", "send", "write"}
NoFailure   == {}
=============================================================================
