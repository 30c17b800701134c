-------------------------- MODULE MCSnapshotAdapter --------------------------
(* Small instances of SnapshotAdapter for TLC. *)
EXTENDS SnapshotAdapter, TLC

CONSTANTS r1, r2, k1, k2, e1, e2, f1, f2, f3

\* A room where edits meet flushes, and one that clients only look at.
TwoRooms    == {r1, r2}
TwoKeys     == {k1, k2}
OwnKeys     == (r1 :> k1) @@ (r2 :> k2)
TwoEdits    == {e1, e2}
TwoInOne    == (r1 :> {e1, e2}) @@ (r2 :> {})

\* One room, for the runs that show what goes wrong.
OneRoom     == {r1}
OneKey      == {k1}
KeyOfRoom   == (r1 :> k1)
TwoOfOne    == (r1 :> {e1, e2})

\* Two rooms by name, "u:d" and "u_d", and the keys safeRoom gives them.
SafeChars   == {"u", "d", ".", "_"}
Names       == INSTANCE RoomKey WITH
                 Char <- SafeChars \cup {":"}, SafeChar <- SafeChars
NamedRooms  == {<<"u", ":", "d">>, <<"u", "_", "d">>}
NamedKeyOf  == [r \in NamedRooms |-> Names!SafeRoom(r)]
NamedKeys   == {Names!SafeRoom(r) : r \in NamedRooms}
OneEach     == [r \in NamedRooms |-> IF r[2] = ":" THEN {e1} ELSE {e2}]

TwoFlushers   == {f1, f2}
ThreeFlushers == {f1, f2, f3}

Calm        == {}
Shutdown    == {"signal"}
Anything    == Events
=============================================================================
