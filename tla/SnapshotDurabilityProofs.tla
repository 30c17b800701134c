----------------------- MODULE SnapshotDurabilityProofs -----------------------
(***************************************************************************)
(* Where a room's edits end up: proofs about SnapshotAdapter for any number *)
(* of rooms, keys, edits and goroutines, and any faults.  The code keeps    *)
(* its word for a room no other room shares a key with until two saves of  *)
(* it overlap, whatever happens to the others.                             *)
(***************************************************************************)
EXTENDS SnapshotAdapterProofs

(* No storable room shares its key.                                        *)
KeysApart == \A r \in Room : OwnKey(r)

(* The rooms whose snapshot nobody else writes and whose saves, in this    *)
(* life of the process, have come one after the other.                     *)
SafeRoom == {r \in OwnRoom : r \notin overlap}

(* What makes a room safe.                                                 *)
LEMMA SafeRooms ==
  /\ SafeRoom \subseteq Room /\ NoRoom \notin Room
  /\ \A r \in SafeRoom : OwnKey(r) /\ r \notin overlap
  /\ \A r \in Room : OwnKey(r) /\ r \notin overlap => r \in SafeRoom
BY ConstantsAssumption DEF SafeRoom, OwnRoom

(* A room stays safe only while nothing overlaps.                          *)
LEMMA SafeShrinks ==
  ASSUME overlap \subseteq overlap'
  PROVE  SafeRoom' \subseteq SafeRoom
BY DEF SafeRoom, OwnRoom, OwnKey, Storable

(* A snapshot of a room that is still safe was taken with no other under   *)
(* way.                                                                    *)
LEMMA Noted ==
  ASSUME NEW r \in Room, TypeOK, NoteOverlap(r)
  PROVE  /\ overlap \subseteq overlap' /\ overlap' \subseteq overlap \cup {r}
         /\ SafeRoom' \subseteq SafeRoom
         /\ r \in SafeRoom' => ~SaveInFlight(r)
<1>1. overlap \subseteq overlap'
  BY DEF NoteOverlap
<1> QED
  BY <1>1, SafeShrinks DEF NoteOverlap, SafeRoom

-----------------------------------------------------------------------------
(* A save reaches the snapshot of its own room, and that of another room   *)
(* only if they share a key.                                               *)
LEMMA SaveStores ==
  ASSUME TypeOK, NEW r \in Room, NEW snap \in SUBSET Edit,
         SaveOK(r, snap) \/ SaveFail(r, snap)
  PROVE  /\ \A q \in Room \ {r} : OwnKey(q) => Stored(q)' = Stored(q)
         /\ Stored(r)' \in {Stored(r), snap}
         /\ SaveOK(r, snap) /\ Storable(r) => Stored(r)' = snap
<1>1. Content(snap) = snap
  BY ConstantsAssumption DEF Content
<1>2. Put(r, snap) \/ UNCHANGED store
  BY DEF SaveOK, SaveFail, FailedPut
<1>3. CASE Put(r, snap) /\ Storable(r)
  <2>1. KeyOf[r] \in Key
    BY <1>3, ConstantsAssumption DEF Storable
  <2>2. store' = [store EXCEPT ![KeyOf[r]] = snap]
    BY <1>3 DEF Put
  <2>3. store'[KeyOf[r]] = snap
    BY <2>1, <2>2 DEF TypeOK
  <2>4. Stored(r)' = snap
    BY <1>1, <1>3, <2>3 DEF Stored, Storable, Content
  <2>5. ASSUME NEW q \in Room \ {r}, OwnKey(q) PROVE Stored(q)' = Stored(q)
    <3>1. Storable(q) => KeyOf[q] # KeyOf[r] /\ KeyOf[q] \in Key
      BY <2>5, ConstantsAssumption DEF OwnKey, Storable
    <3>2. Storable(q) => store'[KeyOf[q]] = store[KeyOf[q]]
      BY <2>2, <3>1 DEF TypeOK
    <3> QED
      BY <3>2 DEF Stored, Storable, Content
  <2> QED
    BY <2>4, <2>5
<1>4. CASE UNCHANGED store \/ ~Storable(r)
  <2>1. UNCHANGED store
    BY <1>2, <1>4 DEF Put
  <2>2. \A q \in Room : Stored(q)' = Stored(q)
    BY <2>1 DEF Stored, Storable, Content
  <2>3. SaveOK(r, snap) /\ Storable(r) => Put(r, snap)
    BY DEF SaveOK
  <2>4. SaveOK(r, snap) /\ Storable(r) => Stored(r)' = snap
    BY <1>3, <2>3
  <2> QED
    BY <2>2, <2>4
<1> QED
  BY <1>2, <1>3, <1>4

(* Without a write to the sink no room's snapshot changes.                 *)
LEMMA SinkUnchanged ==
  ASSUME UNCHANGED store
  PROVE  \A r \in Room : Stored(r)' = Stored(r)
BY DEF Stored, Storable, Content

-----------------------------------------------------------------------------
(* Isolation: what is on its way to the sink is of the right room, too.    *)
OwnEdits(s) ==
  s.room \in Room /\ OwnKey(s.room) => s.snap \subseteq EditsOf[s.room]
OwnKeysIsolated == \A r \in Room : OwnKey(r) => Isolated(r)

IsolationInv ==
  /\ OwnKeysIsolated
  /\ \A f \in Flusher : OwnEdits(flush[f])
  /\ OwnEdits(final)

(* A room no other shares its key with holds, loads and stores only its    *)
(* own edits (persistence.go:97-147), whatever overlaps or fails.          *)
THEOREM OwnKeysIsolate == Spec => []OwnKeysIsolated
<1>1. Init => IsolationInv
  BY SlotTypes, ConstantsAssumption
     DEF Init, Found, IsolationInv, OwnKeysIsolated, Isolated, OwnEdits, Stored,
         Storable, Content
<1>2. TypeOK /\ IsolationInv /\ [Next]_vars => IsolationInv'
  <2> SUFFICES ASSUME TypeOK, IsolationInv, [Next]_vars
               PROVE  IsolationInv'
    OBVIOUS
  <2> USE DEF TypeOK, IsolationInv, OwnKeysIsolated, Isolated, OwnEdits,
              adapterVars, stopVars, history, ledger
  <2>own. \A r \in Room : OwnKey(r)' = OwnKey(r)
    BY DEF OwnKey, Storable
  <2>1. ASSUME NEW r \in Room, Open(r) PROVE IsolationInv'
    BY <2>1, SinkUnchanged DEF Open, LoadDoc
  <2>2. ASSUME NEW r \in Room, Unload(r) PROVE IsolationInv'
    BY <2>2, SinkUnchanged DEF Unload
  <2>3. ASSUME NEW r \in Room, StopEncode(r) PROVE IsolationInv'
    BY <2>3, SinkUnchanged, SlotTypes DEF StopEncode
  <2>4. ASSUME NEW r \in Room, NEW e \in Edit, Commit(r, e) PROVE IsolationInv'
    BY <2>4, SinkUnchanged DEF Commit
  <2>5. ASSUME NEW r \in Room, NEW e \in Edit, StoreUpdate(r, e) PROVE IsolationInv'
    BY <2>5, SinkUnchanged DEF StoreUpdate, StoreUpdateArm, StoreUpdateStopped
  <2>6. ASSUME NEW f \in Flusher, NEW r \in Room, Fire(f, r) \/ FireStray(f, r)
        PROVE IsolationInv'
    BY <2>6, SinkUnchanged, SlotTypes DEF Fire, FireStray
  <2>7. ASSUME NEW f \in Flusher, FlushLock(f) PROVE IsolationInv'
    BY <2>7, SinkUnchanged, SlotTypes DEF FlushLock
  <2>8. ASSUME NEW f \in Flusher, FlushEncode(f) PROVE IsolationInv'
    BY <2>8, SinkUnchanged, SlotTypes DEF FlushEncode
  <2>9. ASSUME NEW f \in Flusher, FlushSave(f) PROVE IsolationInv'
    <3>1. flush[f].room \in Room /\ flush[f].snap \in SUBSET Edit
      BY <2>9, SlotTypes DEF FlushSave
    <3>2. \A q \in Room : OwnKey(q) => Stored(q)' \subseteq EditsOf[q]
      BY <2>9, <3>1, SaveStores DEF FlushSave
    <3> QED
      BY <2>9, <3>2, SlotTypes DEF FlushSave
  <2>10. ASSUME StopSave PROVE IsolationInv'
    <3>1. final.room \in Room /\ final.snap \in SUBSET Edit
      BY <2>10, SlotTypes DEF StopSave
    <3>2. \A q \in Room : OwnKey(q) => Stored(q)' \subseteq EditsOf[q]
      BY <2>10, <3>1, SaveStores DEF StopSave
    <3> QED
      BY <2>10, <3>2, SlotTypes, ConstantsAssumption DEF StopSave
  <2>11. ASSUME Signal \/ StopLock \/ StopReturn \/ Start PROVE IsolationInv'
    BY <2>11, SinkUnchanged DEF Signal, StopLock, StopReturn, Start
  <2>12. ASSUME Exit \/ Crash PROVE IsolationInv'
    BY <2>12, SinkUnchanged, SlotTypes, ConstantsAssumption DEF Exit, Crash, Down
  <2>13. ASSUME UNCHANGED vars PROVE IsolationInv'
    BY <2>13, SinkUnchanged DEF vars
  <2> QED
    BY <2>1, <2>2, <2>3, <2>4, <2>5, <2>6, <2>7, <2>8, <2>9, <2>10, <2>11,
       <2>12, <2>13 DEF Next
<1>3. IsolationInv => OwnKeysIsolated
  BY DEF IsolationInv
<1> QED
  BY <1>1, <1>2, <1>3, TypeCorrect, PTL DEF Spec

(* So rooms are isolated if no storable room shares its key.               *)
THEOREM RoomsIsolated ==
  ASSUME KeysApart
  PROVE  Spec => []RoomIsolation
<1>1. OwnKeysIsolated => RoomIsolation
  BY DEF KeysApart, OwnKeysIsolated, RoomIsolation
<1> QED
  BY <1>1, OwnKeysIsolate, PTL

-----------------------------------------------------------------------------
(* Durability of the safe rooms: such a room has one save under way at     *)
(* most, the snapshot it carries holds what is stored already, and the     *)
(* live document holds that snapshot.                                      *)
AloneInv ==
  \A f \in Flusher : flush[f].pc = "save" /\ flush[f].room \in SafeRoom =>
    /\ \A g \in Flusher :
         flush[g].pc = "save" /\ flush[g].room = flush[f].room => f = g
    /\ final.room # flush[f].room

Carries(s) ==
  s.pc = "save" /\ s.room \in SafeRoom =>
    /\ doc[s.room] # NoDoc
    /\ Stored(s.room) \subseteq s.snap
    /\ s.snap \subseteq doc[s.room]

GrowsInv ==
  /\ AloneInv
  /\ \A r \in SafeRoom : doc[r] # NoDoc => Stored(r) \subseteq doc[r]
  /\ \A f \in Flusher : Carries(flush[f])
  /\ Carries(final)

(* Growth is inductive: a save carries what is stored, and what is live    *)
(* carries every save, as no two saves of one room are under way.          *)
LEMMA GrowsInductive ==
  /\ Init => GrowsInv
  /\ TypeOK /\ GrowsInv /\ [Next]_vars => GrowsInv'
<1>1. Init => GrowsInv
  <2>1. Init => \A r \in Room : doc[r] = NoDoc
    BY DEF Init
  <2> QED
    BY <2>1, SlotTypes, SafeRooms DEF Init, GrowsInv, AloneInv, Carries
<1>2. ASSUME TypeOK, GrowsInv, [Next]_vars PROVE GrowsInv'
  <2> USE <1>2 DEF TypeOK, adapterVars, stopVars, history, ledger
  <2>same. ASSUME UNCHANGED <<doc, store>>, SafeRoom' \subseteq SafeRoom,
                  AloneInv', Carries(final)',
                  \A f \in Flusher : Carries(flush[f])'
           PROVE  GrowsInv'
    BY <2>same, SinkUnchanged, SafeRooms DEF GrowsInv
  <2>note. ASSUME UNCHANGED overlap PROVE SafeRoom' = SafeRoom
    BY <2>note DEF SafeRoom, OwnRoom, OwnKey, Storable
  <2>1. ASSUME NEW r \in Room, Open(r) \/ Unload(r) PROVE GrowsInv'
    <3>1. /\ SafeRoom' \subseteq SafeRoom /\ (r \in SafeRoom' => ~SaveInFlight(r))
      BY <2>1, Noted DEF Open, Unload
    <3>2. /\ UNCHANGED <<store, flush, final>>
          /\ \A q \in Room \ {r} : doc'[q] = doc[q]
          /\ doc'[r] \in {NoDoc, Stored(r)}
      BY <2>1 DEF Open, Unload, LoadDoc
    <3>3. \A q \in Room : Stored(q)' = Stored(q)
      BY <3>2, SinkUnchanged
    <3>4. AloneInv'
      BY <3>1, <3>2 DEF GrowsInv, AloneInv
    <3>5. \A q \in SafeRoom' : doc'[q] # NoDoc => Stored(q)' \subseteq doc'[q]
      BY <3>1, <3>2, <3>3, SafeRooms DEF GrowsInv
    <3>6. \A f \in Flusher : Carries(flush[f])'
      BY <3>1, <3>2, <3>3, SafeRooms DEF GrowsInv, Carries, SaveInFlight
    <3>7. Carries(final)'
      BY <3>1, <3>2, <3>3, SafeRooms DEF GrowsInv, Carries, SaveInFlight
    <3> QED
      BY <3>4, <3>5, <3>6, <3>7 DEF GrowsInv
  <2>3. ASSUME NEW r \in Room, StopEncode(r) PROVE GrowsInv'
    <3>1. CASE doc[r] = NoDoc
      BY <2>3, <2>same, <2>note, <3>1, SlotTypes, SafeRooms, SinkUnchanged
         DEF StopEncode, GrowsInv, AloneInv, Carries
    <3>2. CASE doc[r] # NoDoc
      <4>1. /\ SafeRoom' \subseteq SafeRoom /\ (r \in SafeRoom' => ~SaveInFlight(r))
        BY <2>3, <3>2, Noted DEF StopEncode
      <4>2. /\ UNCHANGED <<doc, store, flush>> /\ final' = At("save", r, doc[r])
            /\ doc[r] \in SUBSET Edit
        BY <2>3, <3>2 DEF StopEncode
      <4>3. \A q \in Room : Stored(q)' = Stored(q)
        BY <4>2, SinkUnchanged
      <4>4. AloneInv'
        BY <4>1, <4>2, SlotTypes DEF GrowsInv, AloneInv, SaveInFlight
      <4>5. Carries(final)'
        BY <3>2, <4>1, <4>2, <4>3, SlotTypes DEF GrowsInv, Carries
      <4>6. \A f \in Flusher : Carries(flush[f])'
        BY <4>1, <4>2, <4>3, SafeRooms DEF GrowsInv, Carries
      <4> QED
        BY <2>same, <4>1, <4>2, <4>4, <4>5, <4>6
    <3> QED
      BY <3>1, <3>2
  <2>4. ASSUME NEW r \in Room, NEW e \in Edit, Commit(r, e) PROVE GrowsInv'
    <3>1. doc[r] \cup {e} # NoDoc
      BY <2>4, ConstantsAssumption DEF Commit
    <3>2. \A q \in Room : doc[q] # NoDoc => doc'[q] # NoDoc /\ doc[q] \subseteq doc'[q]
      BY <2>4, <3>1 DEF Commit
    <3>3. \A q \in Room \ {r} : doc'[q] = doc[q]
      BY <2>4 DEF Commit
    <3>4. \A q \in Room : doc'[q] # NoDoc => doc[q] # NoDoc
      BY <2>4, <3>3 DEF Commit
    <3>5. UNCHANGED <<store, flush, final, overlap>>
      BY <2>4 DEF Commit
    <3>6. SafeRoom' = SafeRoom /\ \A q \in Room : Stored(q)' = Stored(q)
      BY <2>note, <3>5, SinkUnchanged
    <3>7. AloneInv'
      BY <3>5, <3>6 DEF GrowsInv, AloneInv
    <3>8. \A s \in FlushState : Carries(s) => Carries(s)'
      BY <3>2, <3>6, SafeRooms DEF Carries
    <3> QED
      BY <3>2, <3>4, <3>5, <3>6, <3>7, <3>8, SafeRooms DEF GrowsInv, Carries
  <2>5. ASSUME NEW r \in Room, NEW e \in Edit, StoreUpdate(r, e) PROVE GrowsInv'
    BY <2>5, <2>same, <2>note, SinkUnchanged, SafeRooms
       DEF StoreUpdate, StoreUpdateArm, StoreUpdateStopped, GrowsInv, AloneInv, Carries
  <2>6. ASSUME NEW f \in Flusher, NEW r \in Room, Fire(f, r) \/ FireStray(f, r)
        PROVE GrowsInv'
    <3>1. /\ UNCHANGED <<doc, store, final, overlap>>
          /\ \A g \in Flusher : flush'[g] = flush[g] \/ flush'[g].pc # "save"
      BY <2>6, SlotTypes DEF Fire, FireStray
    <3> QED
      BY <2>same, <2>note, <3>1, SinkUnchanged, SafeRooms DEF GrowsInv, AloneInv, Carries
  <2>7. ASSUME NEW f \in Flusher, FlushLock(f) PROVE GrowsInv'
    <3>1. /\ UNCHANGED <<doc, store, final, overlap>>
          /\ \A g \in Flusher : flush'[g] = flush[g] \/ flush'[g].pc # "save"
      BY <2>7, SlotTypes DEF FlushLock
    <3> QED
      BY <2>same, <2>note, <3>1, SinkUnchanged, SafeRooms DEF GrowsInv, AloneInv, Carries
  <2>8. ASSUME NEW f \in Flusher, FlushEncode(f) PROVE GrowsInv'
    <3>1. PICK r \in Room : r = flush[f].room
      BY <2>8, SlotTypes DEF FlushEncode
    <3>2. CASE doc[r] = NoDoc
      <4>1. /\ UNCHANGED <<doc, store, final, overlap>>
            /\ \A g \in Flusher : flush'[g] = flush[g] \/ flush'[g].pc # "save"
        BY <2>8, <3>1, <3>2, SlotTypes DEF FlushEncode
      <4> QED
        BY <2>same, <2>note, <4>1, SinkUnchanged, SafeRooms DEF GrowsInv, AloneInv, Carries
    <3>3. CASE doc[r] # NoDoc
      <4>1. /\ SafeRoom' \subseteq SafeRoom /\ (r \in SafeRoom' => ~SaveInFlight(r))
        BY <2>8, <3>1, <3>3, Noted DEF FlushEncode
      <4>2. /\ UNCHANGED <<doc, store, final>> /\ doc[r] \in SUBSET Edit
            /\ flush'[f] = At("save", r, doc[r])
            /\ \A g \in Flusher \ {f} : flush'[g] = flush[g]
        BY <2>8, <3>1, <3>3 DEF FlushEncode
      <4>3. \A q \in Room : Stored(q)' = Stored(q)
        BY <4>2, SinkUnchanged
      <4>4. AloneInv'
        <5> SUFFICES ASSUME NEW g \in Flusher, flush'[g].pc = "save",
                            flush'[g].room \in SafeRoom'
                     PROVE  /\ \A h \in Flusher :
                                 flush'[h].pc = "save" /\ flush'[h].room = flush'[g].room
                                   => g = h
                            /\ final'.room # flush'[g].room
          BY DEF AloneInv
        <5>1. CASE flush'[g].room = r
          BY <4>1, <4>2, <5>1, SlotTypes DEF SaveInFlight
        <5>2. CASE flush'[g].room # r
          BY <4>1, <4>2, <5>2, SlotTypes DEF GrowsInv, AloneInv
        <5> QED
          BY <5>1, <5>2
      <4>5. \A g \in Flusher : Carries(flush[g])'
        BY <3>3, <4>1, <4>2, <4>3, SafeRooms, SlotTypes DEF GrowsInv, Carries
      <4>6. Carries(final)'
        BY <4>1, <4>2, <4>3, SafeRooms DEF GrowsInv, Carries
      <4> QED
        BY <2>same, <4>1, <4>2, <4>4, <4>5, <4>6
    <3> QED
      BY <3>2, <3>3
  <2>9. ASSUME NEW f \in Flusher, FlushSave(f) PROVE GrowsInv'
    <3>1. PICK r \in Room : r = flush[f].room
      BY <2>9, SlotTypes DEF FlushSave
    <3>2. PICK snap \in SUBSET Edit : snap = flush[f].snap
      BY <2>9, SlotTypes DEF FlushSave
    <3>3. /\ \A q \in SafeRoom \ {r} : Stored(q)' = Stored(q)
          /\ Stored(r)' \in {Stored(r), snap}
      BY <2>9, <3>1, <3>2, SaveStores, SafeRooms DEF FlushSave
    <3>4. /\ UNCHANGED <<doc, final, overlap>> /\ flush'[f] = Idle
          /\ \A g \in Flusher \ {f} : flush'[g] = flush[g]
      BY <2>9 DEF FlushSave, SaveOK, SaveFail
    <3>5. SafeRoom' = SafeRoom
      BY <2>note, <3>4
    <3>6. r \in SafeRoom => /\ final.room # r
                            /\ \A g \in Flusher \ {f} :
                                 flush[g].pc = "save" => flush[g].room # r
      BY <2>9, <3>1 DEF FlushSave, GrowsInv, AloneInv
    <3>7. \A q \in SafeRoom : doc[q] # NoDoc => Stored(q)' \subseteq doc[q]
      BY <2>9, <3>1, <3>2, <3>3, SafeRooms DEF FlushSave, GrowsInv, Carries
    <3>8. AloneInv'
      BY <3>4, <3>5, SlotTypes DEF GrowsInv, AloneInv
    <3>9. \A g \in Flusher : Carries(flush[g])'
      BY <3>3, <3>4, <3>5, <3>6, SlotTypes DEF GrowsInv, Carries
    <3>10. Carries(final)'
      BY <3>3, <3>4, <3>5, <3>6 DEF GrowsInv, Carries
    <3> QED
      BY <3>4, <3>5, <3>7, <3>8, <3>9, <3>10 DEF GrowsInv
  <2>10. ASSUME StopSave PROVE GrowsInv'
    <3>1. PICK r \in Room : r = final.room
      BY <2>10, SlotTypes DEF StopSave
    <3>2. PICK snap \in SUBSET Edit : snap = final.snap
      BY <2>10, SlotTypes DEF StopSave
    <3>3. /\ \A q \in SafeRoom \ {r} : Stored(q)' = Stored(q)
          /\ Stored(r)' \in {Stored(r), snap}
      BY <2>10, <3>1, <3>2, SaveStores, SafeRooms DEF StopSave
    <3>4. UNCHANGED <<doc, flush, overlap>> /\ final' = Idle
      BY <2>10 DEF StopSave, SaveOK, SaveFail
    <3>5. SafeRoom' = SafeRoom
      BY <2>note, <3>4
    <3>6. \A g \in Flusher : r \in SafeRoom /\ flush[g].pc = "save" => flush[g].room # r
      BY <3>1 DEF GrowsInv, AloneInv
    <3>7. \A q \in SafeRoom : doc[q] # NoDoc => Stored(q)' \subseteq doc[q]
      BY <2>10, <3>1, <3>2, <3>3, SafeRooms DEF StopSave, GrowsInv, Carries
    <3>8. AloneInv'
      BY <3>4, <3>5, SlotTypes, SafeRooms DEF GrowsInv, AloneInv
    <3>9. \A g \in Flusher : Carries(flush[g])'
      BY <3>3, <3>4, <3>5, <3>6, SafeRooms DEF GrowsInv, Carries
    <3>10. Carries(final)'
      BY <3>4, SlotTypes DEF Carries
    <3> QED
      BY <3>4, <3>5, <3>7, <3>8, <3>9, <3>10 DEF GrowsInv
  <2>11. ASSUME Signal \/ StopLock \/ StopReturn \/ Start PROVE GrowsInv'
    BY <2>11, <2>same, <2>note, SinkUnchanged, SafeRooms
       DEF Signal, StopLock, StopReturn, Start, GrowsInv, AloneInv, Carries
  <2>12. ASSUME Exit \/ Crash PROVE GrowsInv'
    <3>1. /\ final' = Idle /\ (\A f \in Flusher : flush'[f] = Idle)
          /\ \A r \in Room : doc'[r] = NoDoc
      BY <2>12 DEF Exit, Crash, Down
    <3>2. SafeRoom' \subseteq Room
      BY DEF SafeRoom, OwnRoom
    <3> QED
      BY <3>1, <3>2, SlotTypes DEF GrowsInv, AloneInv, Carries
  <2>13. ASSUME UNCHANGED vars PROVE GrowsInv'
    BY <2>13, <2>same, <2>note, SinkUnchanged, SafeRooms
       DEF vars, GrowsInv, AloneInv, Carries
  <2> QED
    BY <2>1, <2>3, <2>4, <2>5, <2>6, <2>7, <2>8, <2>9, <2>10, <2>11,
       <2>12, <2>13 DEF Next
<1> QED
  BY <1>1, <1>2

(* ... and so it holds throughout.                                         *)
LEMMA GrowsAlways == Spec => [](TypeOK /\ GrowsInv)
<1>1. Init => GrowsInv
  BY GrowsInductive
<1>2. TypeOK /\ GrowsInv /\ [Next]_vars => GrowsInv'
  BY GrowsInductive
<1> QED
  BY <1>1, <1>2, TypeCorrect, PTL DEF Spec

-----------------------------------------------------------------------------
(* The adapter implements the abstract rooms (persistence.go:97-175): of a *)
(* room no other shares a key with, snapshots only grow and hold nothing   *)
(* that is not live, until two saves of that room overlap; nothing is      *)
(* assumed of how long a save takes or of what runs beside it.             *)
THEOREM DurableRoomsImplemented == Spec => ImplementsDurableRooms
<1>1. Init => Rooms!Init
  <2> SUFFICES ASSUME Init PROVE Rooms!Init
    OBVIOUS
  <2>1. \A r \in Room : Stored(r) = {} /\ doc[r] = NoDoc
    BY ConstantsAssumption DEF Init, Found, Stored, Storable, Content
  <2>2. overlap \cap OwnRoom = {}
    BY DEF Init
  <2> QED
    BY <2>1, <2>2 DEF Rooms!Init, OwnRoom
<1>2. TypeOK /\ TypeOK' /\ GrowsInv /\ [Next]_vars => [Rooms!Next]_(Rooms!vars)
  <2> SUFFICES ASSUME TypeOK, TypeOK', GrowsInv, [Next]_vars
               PROVE  [Rooms!Next]_(Rooms!vars)
    OBVIOUS
  <2> DEFINE live == [r \in OwnRoom |-> doc[r]]
             durable == [r \in OwnRoom |-> Stored(r)]
             racing == overlap \cap OwnRoom
  <2>own. OwnRoom' = OwnRoom /\ OwnRoom \subseteq Room
    BY DEF OwnRoom, OwnKey, Storable
  <2> USE <2>own DEF TypeOK, adapterVars, stopVars, history, ledger
  <2>1. ASSUME UNCHANGED store PROVE durable' = durable
    BY <2>1, SinkUnchanged
  <2>2. ASSUME UNCHANGED <<doc, store>>, overlap \subseteq overlap' PROVE Rooms!Race
    BY <2>1, <2>2 DEF Rooms!Race, Rooms!MoreRaces
  <2>other. ASSUME NEW r \in Room, r \notin OwnRoom, UNCHANGED store,
                   overlap \subseteq overlap',
                   \A q \in Room \ {r} : doc'[q] = doc[q]
            PROVE  Rooms!Race
    BY <2>1, <2>other DEF Rooms!Race, Rooms!MoreRaces
  <2>3. ASSUME NEW r \in Room, Open(r)
        PROVE  (r \in OwnRoom /\ Rooms!Join(r)) \/ Rooms!Race
    <3>1. /\ UNCHANGED store /\ doc[r] = NoDoc /\ doc'[r] = Stored(r)
          /\ \A q \in Room \ {r} : doc'[q] = doc[q]
          /\ overlap \subseteq overlap'
      BY <2>3, Noted DEF Open, LoadDoc
    <3>2. CASE r \in OwnRoom
      BY <2>1, <3>1, <3>2 DEF Rooms!Join, Rooms!MoreRaces
    <3> QED
      BY <2>other, <3>1, <3>2
  <2>4. ASSUME NEW r \in Room, NEW e \in Edit, Commit(r, e)
        PROVE  (r \in OwnRoom /\ Rooms!Write(r, e)) \/ Rooms!Race
    <3>1. /\ UNCHANGED <<store, overlap>> /\ doc[r] # NoDoc /\ doc'[r] = doc[r] \cup {e}
          /\ \A q \in Room \ {r} : doc'[q] = doc[q]
      BY <2>4 DEF Commit
    <3>2. CASE r \in OwnRoom
      BY <2>1, <3>1, <3>2 DEF Rooms!Write
    <3> QED
      BY <2>other, <3>1, <3>2
  <2>5. ASSUME NEW r \in Room, Unload(r) PROVE Rooms!Forget
    <3> DEFINE gone == {r} \cap OwnRoom
    <3>1. live' = [q \in OwnRoom |-> IF q \in gone THEN NoDoc ELSE live[q]]
      BY <2>5 DEF Unload
    <3>2. gone \in SUBSET OwnRoom /\ UNCHANGED store /\ overlap \subseteq overlap'
      BY <2>5, Noted DEF Unload
    <3> HIDE DEF gone
    <3> QED
      BY <2>1, <3>1, <3>2 DEF Rooms!Forget, Rooms!MoreRaces
  <2>6. ASSUME Exit \/ Crash PROVE Rooms!End
    <3>1. live' = [q \in OwnRoom |-> NoDoc] /\ racing' = {}
      BY <2>6 DEF Exit, Crash, Down
    <3>2. UNCHANGED store
      BY <2>6 DEF Exit, Crash, Down
    <3> QED
      BY <2>1, <3>1, <3>2 DEF Rooms!End
  <2>7. ASSUME NEW r \in Room, NEW snap \in SUBSET Edit, UNCHANGED <<doc, overlap>>,
               r \in SafeRoom => /\ doc[r] # NoDoc
                                 /\ Stored(r) \subseteq snap /\ snap \subseteq doc[r],
               SaveOK(r, snap) \/ SaveFail(r, snap)
        PROVE  \/ r \in OwnRoom /\ (Rooms!Persist(r) \/ Rooms!Overwrite(r))
               \/ Rooms!Race
    <3>1. /\ \A q \in OwnRoom \ {r} : Stored(q)' = Stored(q)
          /\ Stored(r)' \in {Stored(r), snap}
      BY <2>7, SaveStores DEF OwnRoom
    <3>2. live' = live /\ racing' = racing
      BY <2>7
    <3>3. r \in OwnRoom => durable' = [durable EXCEPT ![r] = Stored(r)']
      BY <3>1
    <3>4. CASE r \in SafeRoom
      <4>1. Stored(r)' \in SUBSET live[r] /\ durable[r] \subseteq Stored(r)'
        BY <2>7, <3>1, <3>4 DEF SafeRoom
      <4>2. live[r] # NoDoc /\ r \in OwnRoom
        BY <2>7, <3>4 DEF SafeRoom
      <4> QED
        BY <3>2, <3>3, <4>1, <4>2 DEF Rooms!Persist
    <3>5. CASE r \in OwnRoom /\ r \in overlap
      <4>1. Stored(r)' \in SUBSET Edit
        <5>1. Stored(r) \in SUBSET Edit
          BY ConstantsAssumption DEF Stored, Storable, Content
        <5> QED
          BY <3>1, <5>1
      <4> QED
        BY <3>2, <3>3, <3>5, <4>1 DEF Rooms!Overwrite
    <3>6. CASE r \notin OwnRoom
      BY <3>1, <3>2, <3>6 DEF Rooms!Race, Rooms!MoreRaces
    <3> QED
      BY <3>4, <3>5, <3>6 DEF SafeRoom
  <2>8. ASSUME NEW f \in Flusher, FlushSave(f)
        PROVE  \/ \E r \in OwnRoom : Rooms!Persist(r) \/ Rooms!Overwrite(r)
               \/ Rooms!Race
    <3>1. /\ flush[f].room \in Room /\ flush[f].snap \in SUBSET Edit
          /\ UNCHANGED <<doc, overlap>>
      BY <2>8, SlotTypes DEF FlushSave, SaveOK, SaveFail
    <3> QED
      BY <2>7, <2>8, <3>1 DEF FlushSave, GrowsInv, Carries
  <2>9. ASSUME StopSave
        PROVE  \/ \E r \in OwnRoom : Rooms!Persist(r) \/ Rooms!Overwrite(r)
               \/ Rooms!Race
    <3>1. /\ final.room \in Room /\ final.snap \in SUBSET Edit
          /\ UNCHANGED <<doc, overlap>>
      BY <2>9, SlotTypes DEF StopSave, SaveOK, SaveFail
    <3> QED
      BY <2>7, <2>9, <3>1 DEF StopSave, GrowsInv, Carries
  <2>10. ASSUME NEW r \in Room, StopEncode(r)
         PROVE  UNCHANGED <<doc, store>> /\ overlap \subseteq overlap'
    BY <2>10, Noted DEF StopEncode
  <2>11. ASSUME NEW r \in Room, NEW e \in Edit, StoreUpdate(r, e)
         PROVE  UNCHANGED <<doc, store>> /\ overlap \subseteq overlap'
    BY <2>11 DEF StoreUpdate, StoreUpdateArm, StoreUpdateStopped
  <2>12. ASSUME NEW f \in Flusher, NEW r \in Room, Fire(f, r) \/ FireStray(f, r)
         PROVE  UNCHANGED <<doc, store>> /\ overlap \subseteq overlap'
    BY <2>12 DEF Fire, FireStray
  <2>13. ASSUME NEW f \in Flusher, FlushLock(f)
         PROVE  UNCHANGED <<doc, store>> /\ overlap \subseteq overlap'
    BY <2>13 DEF FlushLock
  <2>14. ASSUME NEW f \in Flusher, FlushEncode(f)
         PROVE  UNCHANGED <<doc, store>> /\ overlap \subseteq overlap'
    <3>1. flush[f].room \in Room
      BY <2>14, SlotTypes DEF FlushEncode
    <3> QED
      BY <2>14, <3>1, Noted DEF FlushEncode
  <2>15. ASSUME Signal \/ StopLock \/ StopReturn \/ Start \/ UNCHANGED vars
         PROVE  UNCHANGED <<doc, store>> /\ overlap \subseteq overlap'
    BY <2>15 DEF Signal, StopLock, StopReturn, Start, vars
  <2> QED
    BY <2>2, <2>3, <2>4, <2>5, <2>6, <2>8, <2>9, <2>10, <2>11, <2>12, <2>13,
       <2>14, <2>15 DEF Next, Rooms!Next
<1> QED
  BY <1>1, <1>2, GrowsAlways, PTL DEF Spec, ImplementsDurableRooms, Rooms!Spec

-----------------------------------------------------------------------------
(* What a save of a safe room has carried is stored.                       *)
SavedInv ==
  \A r \in SafeRoom : Storable(r) => saved[r] \subseteq Stored(r)

(* A later save holds what an earlier one carried, so nothing saved is     *)
(* lost from the sink.                                                     *)
LEMMA SavedInductive ==
  ASSUME TypeOK, GrowsInv, SavedInv, [Next]_vars
  PROVE  SavedInv'
<1> USE SafeRooms DEF TypeOK, SavedInv, adapterVars, stopVars, history, ledger
<1>1. ASSUME UNCHANGED store, overlap \subseteq overlap',
             \A r \in Room : saved'[r] \subseteq saved[r]
      PROVE  SavedInv'
  BY <1>1, SinkUnchanged, SafeShrinks DEF Storable
<1>2. ASSUME NEW r \in Room, NEW snap \in SUBSET Edit,
             r \in SafeRoom => Stored(r) \subseteq snap,
             SaveOK(r, snap) \/ SaveFail(r, snap)
      PROVE  SavedInv'
  <2>1. /\ \A q \in SafeRoom \ {r} : Stored(q)' = Stored(q)
        /\ Stored(r)' \in {Stored(r), snap}
        /\ SaveOK(r, snap) /\ Storable(r) => Stored(r)' = snap
    BY <1>2, SaveStores
  <2>2. \A q \in Room \ {r} : saved'[q] = saved[q]
    BY <1>2 DEF SaveOK, SaveFail
  <2>3. r \in SafeRoom /\ Storable(r) => saved'[r] \subseteq Stored(r)'
    <3>1. CASE SaveOK(r, snap)
      BY <1>2, <2>1, <3>1 DEF SaveOK
    <3>2. CASE SaveFail(r, snap)
      BY <1>2, <2>1, <3>2 DEF SaveFail
    <3> QED
      BY <1>2, <3>1, <3>2
  <2>4. SafeRoom' \subseteq SafeRoom
    BY <1>2, SafeShrinks DEF SaveOK, SaveFail
  <2> QED
    BY <2>1, <2>2, <2>3, <2>4 DEF Storable
<1>3. ASSUME NEW r \in Room, Open(r) \/ Unload(r) \/ StopEncode(r) PROVE SavedInv'
  BY <1>1, <1>3, Noted DEF Open, Unload, StopEncode
<1>4. ASSUME NEW r \in Room, NEW e \in Edit, Commit(r, e) PROVE SavedInv'
  BY <1>1, <1>4 DEF Commit
<1>5. ASSUME NEW r \in Room, NEW e \in Edit, StoreUpdate(r, e) PROVE SavedInv'
  BY <1>1, <1>5 DEF StoreUpdate, StoreUpdateArm, StoreUpdateStopped
<1>6. ASSUME NEW f \in Flusher, NEW r \in Room, Fire(f, r) \/ FireStray(f, r)
      PROVE SavedInv'
  BY <1>1, <1>6 DEF Fire, FireStray
<1>7. ASSUME NEW f \in Flusher, FlushLock(f) \/ FlushEncode(f) PROVE SavedInv'
  <2>1. flush[f].room \in Room
    BY <1>7, SlotTypes DEF FlushLock, FlushEncode
  <2> QED
    BY <1>1, <1>7, <2>1, Noted DEF FlushLock, FlushEncode
<1>8. ASSUME NEW f \in Flusher, FlushSave(f) PROVE SavedInv'
  BY <1>2, <1>8, SlotTypes DEF FlushSave, GrowsInv, Carries
<1>9. ASSUME StopSave PROVE SavedInv'
  BY <1>2, <1>9, SlotTypes DEF StopSave, GrowsInv, Carries
<1>10. ASSUME Signal \/ StopLock \/ StopReturn \/ Start \/ UNCHANGED vars
       PROVE  SavedInv'
  BY <1>1, <1>10 DEF Signal, StopLock, StopReturn, Start, vars
<1>11. ASSUME Exit \/ Crash PROVE SavedInv'
  <2>1. SafeRoom' \subseteq Room
    BY DEF SafeRoom, OwnRoom
  <2> QED
    BY <1>11, <2>1 DEF Exit, Crash, Down
<1> QED
  BY <1>3, <1>4, <1>5, <1>6, <1>7, <1>8, <1>9, <1>10, <1>11 DEF Next

(* ... and so what was saved is stored throughout.                         *)
LEMMA SavedAlways == Spec => []SavedInv
<1>1. Init => SavedInv
  BY SafeRooms DEF Init, SavedInv
<1>2. TypeOK /\ GrowsInv /\ SavedInv /\ [Next]_vars => SavedInv'
  BY SavedInductive
<1> QED
  BY <1>1, <1>2, GrowsAlways, PTL DEF Spec

(* A room with a key of its own that has settled without its saves having  *)
(* overlapped is stored with every edit StoreUpdate accepted               *)
(* (persistence.go:116-175), but for those of saves that failed, however   *)
(* long the saves of it and of other rooms take.                           *)
SafeRoomsSettle == \A r \in SafeRoom : Settled(r) => AllStored(r)

(* In every reachable state, with any faults and any rooms beside it.      *)
THEOREM SafeRoomsStored == Spec => []SafeRoomsSettle
<1>1. TypeOK /\ NoOrphanEdit /\ SavedInv => SafeRoomsSettle
  <2> SUFFICES ASSUME TypeOK, NoOrphanEdit, SavedInv,
                      NEW r \in SafeRoom, Storable(r), Settled(r),
                      NEW e \in reported[r] \ givenUp[r]
               PROVE  e \in Stored(r)
    BY DEF SafeRoomsSettle, AllStored
  <2>1. ~Covered(r, e)
    BY DEF Covered, Settled, Flushing
  <2>2. e \in saved[r]
    BY <2>1, SafeRooms DEF NoOrphanEdit, Owed
  <2> QED
    BY <2>2 DEF SavedInv
<1> QED
  BY <1>1, SavedAlways, NoOrphan, TypeCorrect, PTL

(* If no storable room shares its key, what the run checks holds for any   *)
(* rooms: only an overlap leaves a settled room short of an edit.          *)
THEOREM SettledRoomsStored ==
  ASSUME KeysApart
  PROVE  Spec => []SettledUnlessOverlapped
<1>1. SafeRoomsSettle => SettledUnlessOverlapped
  BY SafeRooms DEF KeysApart, SafeRoomsSettle, SettledUnlessOverlapped
<1> QED
  BY <1>1, SafeRoomsStored, PTL

-----------------------------------------------------------------------------
(* A flush that is past its lock after Stop's critical section was past it *)
(* when Stop began.                                                        *)
RacedInv ==
  stopped => \A f \in Flusher :
    flush[f].pc \in {"encode", "save"} => flush[f].room \in raced

(* Once stopped is set no goroutine passes its critical section but to end. *)
LEMMA RacedInductive ==
  ASSUME TypeOK, RacedInv, [Next]_vars
  PROVE  RacedInv'
<1> USE DEF TypeOK, RacedInv, adapterVars, stopVars, history, ledger
<1>1. ASSUME UNCHANGED <<stopped, flush>>, raced \subseteq raced' PROVE RacedInv'
  BY <1>1
<1>2. ASSUME NEW r \in Room, Open(r) \/ Unload(r) \/ StopEncode(r) PROVE RacedInv'
  BY <1>1, <1>2 DEF Open, Unload, StopEncode
<1>3. ASSUME NEW r \in Room, NEW e \in Edit, Commit(r, e) \/ StoreUpdate(r, e)
      PROVE  RacedInv'
  BY <1>1, <1>3 DEF Commit, StoreUpdate, StoreUpdateArm, StoreUpdateStopped
<1>4. ASSUME NEW f \in Flusher, NEW r \in Room, Fire(f, r) \/ FireStray(f, r)
      PROVE  RacedInv'
  <2>1. \A g \in Flusher : flush'[g] = flush[g] \/ flush'[g].pc = "lock"
    BY <1>4, SlotTypes DEF Fire, FireStray
  <2>2. UNCHANGED <<stopped, raced>>
    BY <1>4 DEF Fire, FireStray
  <2> QED
    BY <2>1, <2>2
<1>5. ASSUME NEW f \in Flusher, FlushLock(f) \/ FlushEncode(f) \/ FlushSave(f)
      PROVE  RacedInv'
  <2>1. UNCHANGED <<stopped, raced>>
    BY <1>5 DEF FlushLock, FlushEncode, FlushSave, SaveOK, SaveFail
  <2>2. \A g \in Flusher \ {f} : flush'[g] = flush[g]
    BY <1>5 DEF FlushLock, FlushEncode, FlushSave
  <2>3. stopped /\ flush'[f].pc \in {"encode", "save"} =>
          flush[f].pc = "encode" /\ flush'[f].room = flush[f].room
    <3>1. CASE FlushLock(f)
      BY <3>1, SlotTypes DEF FlushLock
    <3>2. CASE FlushEncode(f)
      <4>1. flush[f].room \in Room /\ doc[flush[f].room] \in {NoDoc} \cup SUBSET Edit
        BY <3>2, SlotTypes DEF FlushEncode
      <4>2. flush'[f] = Idle \/ flush'[f] = At("save", flush[f].room, doc[flush[f].room])
        BY <3>2 DEF FlushEncode
      <4> QED
        BY <3>2, <4>1, <4>2 DEF FlushEncode, Idle, At
    <3>3. CASE FlushSave(f)
      BY <3>3, SlotTypes DEF FlushSave
    <3> QED
      BY <1>5, <3>1, <3>2, <3>3
  <2> QED
    BY <2>1, <2>2, <2>3
<1>6. ASSUME StopSave PROVE RacedInv'
  BY <1>1, <1>6 DEF StopSave, SaveOK, SaveFail
<1>7. ASSUME StopLock PROVE RacedInv'
  BY <1>7 DEF StopLock, PastLock
<1>8. ASSUME Signal \/ StopReturn \/ Start \/ UNCHANGED vars PROVE RacedInv'
  BY <1>1, <1>8 DEF Signal, StopReturn, Start, vars
<1>9. ASSUME Exit \/ Crash PROVE RacedInv'
  BY <1>9 DEF Exit, Crash, Down
<1> QED
  BY <1>2, <1>3, <1>4, <1>5, <1>6, <1>7, <1>8, <1>9 DEF Next

(* Stop's promise (persistence.go:151-175) to the safe rooms.              *)
StopKeepsSafeRooms ==
  phase = "stopped" => \A r \in SafeRoom \ raced : AllStored(r)

(* When Stop has returned, every accepted edit of a safe room without a    *)
(* flush past its lock is stored, but for those of saves that failed: one  *)
(* of the two is what it takes to lose an edit at shutdown.                *)
THEOREM StopPersistsSafe == Spec => []StopKeepsSafeRooms
<1>1. Init => RacedInv
  BY DEF Init, RacedInv
<1>2. TypeOK /\ RacedInv /\ [Next]_vars => RacedInv'
  BY RacedInductive
<1>3. TypeOK /\ OrphanInv /\ SavedInv /\ RacedInv => StopKeepsSafeRooms
  <2> SUFFICES ASSUME TypeOK, OrphanInv, SavedInv, RacedInv, phase = "stopped",
                      NEW r \in SafeRoom \ raced, Storable(r),
                      NEW e \in reported[r] \ givenUp[r]
               PROVE  e \in Stored(r)
    BY DEF StopKeepsSafeRooms, AllStored
  <2>1. stopped /\ r \in Room /\ timers[r] = "none" /\ stopRooms = {} /\ final = Idle
    BY SafeRooms DEF OrphanInv, StopOK
  <2>2. \A f \in Flusher :
          flush[f].room = r => flush[f].pc # "encode" /\ flush[f].snap = {}
    BY <2>1, SlotTypes DEF RacedInv, OrphanInv, SnapOK, TypeOK
  <2>3. ~Covered(r, e)
    BY <2>1, <2>2, SlotTypes DEF Covered
  <2>4. e \in saved[r]
    BY <2>1, <2>3 DEF OrphanInv, NoOrphanEdit, Owed
  <2> QED
    BY <2>4 DEF SavedInv
<1> QED
  BY <1>1, <1>2, <1>3, SavedAlways, OrphanInvariant, TypeCorrect, PTL DEF Spec

(* So Stop keeps it to every room, if no storable room shares its key.     *)
THEOREM StopPersists ==
  ASSUME KeysApart
  PROVE  Spec => []StopPersistsUnlessRaced
<1>1. StopKeepsSafeRooms => StopPersistsUnlessRaced
  BY SafeRooms DEF KeysApart, StopKeepsSafeRooms, StopPersistsUnlessRaced
<1> QED
  BY <1>1, StopPersistsSafe, PTL
=============================================================================
