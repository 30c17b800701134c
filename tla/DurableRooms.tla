----------------------------- MODULE DurableRooms -----------------------------
(***************************************************************************)
(* What the board server's storage promises its clients, without timers,   *)
(* goroutines, keys or files: each room has a live document while somebody *)
(* edits it and a durable snapshot; the snapshot only grows, and never     *)
(* holds an edit the live document does not, unless saves of the room have *)
(* come to race each other: then the last one wins, whatever it holds,     *)
(* until the process ends.  A crash loses what was live and not yet        *)
(* durable, and at most one snapshot, if it was being written over.        *)
(***************************************************************************)
CONSTANTS
  Room,     \* the rooms
  Edit,     \* the updates clients may send
  Absent,   \* the live document of a room nobody has opened
  MayTear   \* is a snapshot written over in place?

VARIABLES
  live,     \* live[r]: the edits of r in memory, or Absent
  durable,  \* durable[r]: the edits of r that survive a crash
  racing    \* the rooms whose saves have raced in this life of the process

vars == <<live, durable, racing>>

Init ==
  /\ live = [r \in Room |-> Absent]
  /\ durable = [r \in Room |-> {}]
  /\ racing = {}

(* Saves come to race in some rooms, at any moment.                        *)
MoreRaces == racing \subseteq racing' /\ racing' \subseteq Room

Race ==
  /\ MoreRaces
  /\ UNCHANGED <<live, durable>>

(* The first client of a room finds what was durable.                      *)
Join(r) ==
  /\ live[r] = Absent
  /\ live' = [live EXCEPT ![r] = durable[r]]
  /\ MoreRaces
  /\ UNCHANGED durable

(* A client's edit, seen by every other client at once.                    *)
Write(r, e) ==
  /\ live[r] # Absent
  /\ live' = [live EXCEPT ![r] = @ \cup {e}]
  /\ UNCHANGED <<durable, racing>>

(* Some of the live edits become durable, and no durable edit is lost.     *)
Persist(r) ==
  /\ live[r] # Absent
  /\ \E S \in SUBSET live[r] :
       /\ durable[r] \subseteq S
       /\ durable' = [durable EXCEPT ![r] = S]
  /\ UNCHANGED <<live, racing>>

(* The last of several racing saves leaves what it was given.              *)
Overwrite(r) ==
  /\ r \in racing
  /\ \E S \in SUBSET Edit : durable' = [durable EXCEPT ![r] = S]
  /\ UNCHANGED <<live, racing>>

(* The room's last client leaves: the snapshot is brought up to date.      *)
Close(r) ==
  /\ live[r] # Absent
  /\ durable[r] \subseteq live[r]
  /\ durable' = [durable EXCEPT ![r] = live[r]]
  /\ live' = [live EXCEPT ![r] = Absent]
  /\ UNCHANGED racing

(* Some rooms are dropped from memory; the durable snapshots stay.         *)
Forget ==
  /\ \E gone \in SUBSET Room :
       live' = [r \in Room |-> IF r \in gone THEN Absent ELSE live[r]]
  /\ MoreRaces
  /\ UNCHANGED durable

(* The process goes away, and its saves with it.                           *)
End ==
  /\ live' = [r \in Room |-> Absent]
  /\ racing' = {}
  /\ UNCHANGED durable

(* The process goes away in the middle of writing r's snapshot.            *)
Tear(r) ==
  /\ MayTear
  /\ live' = [q \in Room |-> Absent]
  /\ durable' = [durable EXCEPT ![r] = {}]
  /\ racing' = {}

Next ==
  \/ \E r \in Room : \/ Join(r) \/ Persist(r) \/ Overwrite(r)
                      \/ Close(r) \/ Tear(r)
  \/ \E r \in Room, e \in Edit : Write(r, e)
  \/ Race \/ Forget \/ End

Spec == Init /\ [][Next]_vars
=============================================================================
