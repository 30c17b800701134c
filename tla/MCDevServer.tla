----------------------------- MODULE MCDevServer -----------------------------
(* A small instance of DevServer for TLC: three sockets want the two slots  *)
(* of a room, whose document lives and dies again and again, beside two     *)
(* rooms whose names roomFile maps to one file.  Nobody draws in those two: *)
(* they open, close and tear their file, and each of their saves is empty,  *)
(* which harms most where it should not be written.                        *)
EXTENDS DevServer, TLC

CONSTANTS r1, r2, r3, f1, f2, e1, e2, c1, c2, c3, d1, d2

ThreeRooms == {r1, r2, r3}
TwoEdits   == {e1, e2}
Edits      == r1 :> {e1, e2} @@ r2 :> {} @@ r3 :> {}
TwoFiles   == {f1, f2}
Alike      == r1 :> f1 @@ r2 :> f2 @@ r3 :> f2
Conns3     == {c1, c2, c3}
Docs2      == {d1, d2}

Symmetry == Permutations(TwoEdits) \cup Permutations(Conns3)
              \cup Permutations(Docs2)
=============================================================================
