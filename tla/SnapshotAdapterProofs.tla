------------------------ MODULE SnapshotAdapterProofs ------------------------
(***************************************************************************)
(* Proofs about SnapshotAdapter, for any rooms, keys, edits, number of     *)
(* goroutines and environment.                                             *)
(***************************************************************************)
EXTENDS SnapshotAdapter, TLAPS

-----------------------------------------------------------------------------
(* Every variable keeps its type.                                          *)

(* What a goroutine's slot holds: a room and edits, unless it is free.     *)
LEMMA SlotTypes ==
  /\ Idle \in FlushState
  /\ Idle.pc = "idle" /\ Idle.room = NoRoom /\ Idle.snap = {}
  /\ \A pc \in {"lock", "encode", "save"}, r \in Room, snap \in SUBSET Edit :
       /\ At(pc, r, snap) \in FlushState
       /\ At(pc, r, snap).pc = pc
       /\ At(pc, r, snap).room = r
       /\ At(pc, r, snap).snap = snap
  /\ \A s \in FlushState :
       /\ s = Idle <=> s.pc = "idle"
       /\ s # Idle => s.room \in Room /\ s.pc \in {"lock", "encode", "save"}
       /\ s.snap \in SUBSET Edit
BY DEF Idle, At, FlushState

(* A snapshot put under a room's key is a snapshot (persistence.go:226-255). *)
LEMMA PutTypeOK ==
  ASSUME NEW r \in Room, NEW snap \in SUBSET Edit, TypeOK, Put(r, snap)
  PROVE  store' \in [Key -> {Corrupt} \cup SUBSET Edit]
BY ConstantsAssumption DEF TypeOK, Put, Storable

(* A save, failed or not, keeps the types of what it writes.               *)
LEMMA SaveTypeOK ==
  ASSUME NEW r \in Room, NEW snap \in SUBSET Edit, TypeOK,
         SaveOK(r, snap) \/ SaveFail(r, snap)
  PROVE  /\ store' \in [Key -> {Corrupt} \cup SUBSET Edit]
         /\ reported' \in [Room -> SUBSET Edit]
         /\ saved' \in [Room -> SUBSET Edit]
         /\ givenUp' \in [Room -> SUBSET Edit]
         /\ raced' \in SUBSET Room /\ overlap' \in SUBSET Room
<1>1. CASE SaveOK(r, snap)
  BY <1>1, PutTypeOK DEF SaveOK, TypeOK
<1>2. CASE SaveFail(r, snap)
  <2>1. store' \in [Key -> {Corrupt} \cup SUBSET Edit]
    BY <1>2, PutTypeOK DEF SaveFail, FailedPut, TypeOK
  <2> QED
    BY <1>2, <2>1 DEF SaveFail, TypeOK
<1> QED
  BY <1>1, <1>2

(* The state of the sink and of every goroutine, timer and history stays   *)
(* within its type, in every environment.                                  *)
THEOREM TypeCorrect == Spec => []TypeOK
<1>1. Init => TypeOK
  <2> SUFFICES ASSUME Init PROVE TypeOK
    OBVIOUS
  <2>1. flush \in [Flusher -> FlushState] /\ final \in FlushState
    BY SlotTypes DEF Init
  <2>2. store \in [Key -> {Corrupt} \cup SUBSET Edit]
    BY DEF Init, Found
  <2> QED
    BY <2>1, <2>2 DEF Init, TypeOK
<1>2. TypeOK /\ [Next]_vars => TypeOK'
  <2> SUFFICES ASSUME TypeOK, [Next]_vars
               PROVE  TypeOK'
    OBVIOUS
  <2> USE DEF TypeOK, adapterVars, stopVars, history, ledger
  <2>1. ASSUME NEW r \in Room, Open(r) PROVE TypeOK'
    BY <2>1, ConstantsAssumption
       DEF Open, LoadDoc, Stored, Content, Storable, NoteOverlap
  <2>2. ASSUME NEW r \in Room, Unload(r) PROVE TypeOK'
    BY <2>2 DEF Unload, NoteOverlap
  <2>3. ASSUME NEW r \in Room, StopEncode(r) PROVE TypeOK'
    <3>1. final' \in FlushState
      BY <2>3, SlotTypes DEF StopEncode
    <3> QED
      BY <2>3, <3>1 DEF StopEncode, NoteOverlap
  <2>4. ASSUME NEW r \in Room, NEW e \in Edit, Commit(r, e) PROVE TypeOK'
    BY <2>4 DEF Commit
  <2>5. ASSUME NEW r \in Room, NEW e \in Edit, StoreUpdate(r, e) PROVE TypeOK'
    BY <2>5 DEF StoreUpdate, Arm, StoreUpdateArm, StoreUpdateStopped
  <2>6. ASSUME NEW f \in Flusher, NEW r \in Room, Fire(f, r) PROVE TypeOK'
    BY <2>6, SlotTypes DEF Fire
  <2>7. ASSUME NEW f \in Flusher, NEW r \in Room, FireStray(f, r) PROVE TypeOK'
    BY <2>7, SlotTypes DEF FireStray, StrayArmed
  <2>8. ASSUME NEW f \in Flusher, FlushLock(f) PROVE TypeOK'
    <3>1. flush' \in [Flusher -> FlushState]
      BY <2>8, SlotTypes DEF FlushLock
    <3>2. flush[f].room \in Room
      BY <2>8, SlotTypes DEF FlushLock
    <3>3. strays[flush[f].room] + 1 \in Nat
      BY <3>2
    <3>4. strays' \in [Room -> Nat]
      BY <2>8, <3>3 DEF FlushLock
    <3> QED
      BY <2>8, <3>1, <3>4 DEF FlushLock
  <2>9. ASSUME NEW f \in Flusher, FlushEncode(f) PROVE TypeOK'
    <3>1. flush[f].room \in Room => doc[flush[f].room] \in {NoDoc} \cup SUBSET Edit
      OBVIOUS
    <3>2. flush' \in [Flusher -> FlushState]
      BY <2>9, <3>1, SlotTypes DEF FlushEncode
    <3> QED
      BY <2>9, <3>1, <3>2, SlotTypes DEF FlushEncode, NoteOverlap
  <2>10. ASSUME NEW f \in Flusher, FlushSave(f) PROVE TypeOK'
    <3>1. flush' \in [Flusher -> FlushState]
      BY <2>10, SlotTypes DEF FlushSave
    <3> QED
      BY <2>10, <3>1, SaveTypeOK, SlotTypes DEF FlushSave
  <2>11. CASE Signal
    BY <2>11 DEF Signal
  <2>12. CASE StopLock
    <3>1. raced' \subseteq Room
      BY <2>12, SlotTypes DEF StopLock, PastLock
    <3> QED
      BY <2>12, <3>1 DEF StopLock, PendingRooms
  <2>13. CASE StopSave
    BY <2>13, SaveTypeOK, SlotTypes DEF StopSave
  <2>14. CASE StopReturn
    BY <2>14 DEF StopReturn, StopBusy
  <2>15. CASE Exit \/ Crash
    <3>1. Down
      BY <2>15 DEF Exit, Crash
    <3>2. flush' \in [Flusher -> FlushState] /\ final' \in FlushState
      BY <3>1, SlotTypes DEF Down
    <3> QED
      BY <3>1, <3>2 DEF Down
  <2>16. CASE Start
    BY <2>16 DEF Start
  <2>17. CASE UNCHANGED vars
    BY <2>17 DEF vars
  <2> QED
    BY <2>1, <2>2, <2>3, <2>4, <2>5, <2>6, <2>7, <2>8, <2>9, <2>10, <2>11,
       <2>12, <2>13, <2>14, <2>15, <2>16, <2>17 DEF Next
<1> QED
  BY <1>1, <1>2, PTL DEF Spec

-----------------------------------------------------------------------------
(* Who is on the way to save an accepted edit, and why nobody drops it     *)
(* (persistence.go:116-175).                                               *)
THEOREM OrphanInvariant == Spec => []OrphanInv
<1>1. Init => OrphanInv
  BY SlotTypes DEF Init, OrphanInv, SnapOK, StopOK, ExpiredHasFlush, PendingIsLive,
     NoOrphanEdit, Owed
<1>2. TypeOK /\ TypeOK' /\ OrphanInv /\ [Next]_vars => OrphanInv'
  <2> SUFFICES ASSUME TypeOK, TypeOK', OrphanInv, [Next]_vars
               PROVE  OrphanInv'
    OBVIOUS
  <2> USE DEF TypeOK, OrphanInv, adapterVars, stopVars, history, ledger
  <2>1. ASSUME NEW r \in Room, Open(r) PROVE OrphanInv'
    <3>1. SnapOK'
      BY <2>1 DEF Open, LoadDoc, Stored, Content, Storable, SnapOK
    <3>2. StopOK'
      BY <2>1 DEF Open, LoadDoc, Stored, Content, Storable, StopOK
    <3>3. ExpiredHasFlush'
      BY <2>1 DEF Open, LoadDoc, Stored, Content, Storable, ExpiredHasFlush
    <3>4. PendingIsLive'
      BY <2>1 DEF Open, LoadDoc, Stored, Content, Storable, PendingIsLive, Owed
    <3>5. NoOrphanEdit'
      BY <2>1 DEF Open, LoadDoc, Stored, Content, Storable, NoOrphanEdit, Covered, Owed
    <3> QED
      BY <3>1, <3>2, <3>3, <3>4, <3>5
  <2>2. ASSUME NEW r \in Room, Unload(r) PROVE OrphanInv'
    <3>1. SnapOK'
      BY <2>2 DEF Unload, SnapOK
    <3>2. StopOK'
      BY <2>2 DEF Unload, StopOK
    <3>3. ExpiredHasFlush'
      BY <2>2 DEF Unload, ExpiredHasFlush
    <3>4. PendingIsLive'
      BY <2>2 DEF Unload, PendingIsLive, Owed
    <3>5. NoOrphanEdit'
      BY <2>2 DEF Unload, NoOrphanEdit, Covered, Owed
    <3> QED
      BY <3>1, <3>2, <3>3, <3>4, <3>5
  <2>3. ASSUME NEW r \in Room, StopEncode(r) PROVE OrphanInv'
    <3>1. SnapOK'
      BY <2>3, SlotTypes DEF StopEncode, SnapOK
    <3>2. StopOK'
      BY <2>3, SlotTypes DEF StopEncode, StopOK
    <3>3. ExpiredHasFlush'
      BY <2>3, SlotTypes DEF StopEncode, ExpiredHasFlush
    <3>4. PendingIsLive'
      BY <2>3, SlotTypes DEF StopEncode, PendingIsLive, Owed
    <3>5. NoOrphanEdit'
      <4> SUFFICES ASSUME NEW q \in Room, NEW e \in Owed(q)' PROVE Covered(q, e)'
        BY DEF NoOrphanEdit
      <4>1. e \in Owed(q) /\ Covered(q, e)
        BY <2>3 DEF StopEncode, NoOrphanEdit, Owed
      <4>2. CASE q = r
        <5>1. doc[r] # NoDoc /\ e \in doc[r]
          BY <4>1, <4>2 DEF PendingIsLive
        <5> QED
          BY <2>3, <4>2, <5>1, SlotTypes DEF StopEncode, Covered
      <4>3. CASE q # r
        BY <2>3, <4>1, <4>3, SlotTypes DEF StopEncode, Covered
      <4> QED
        BY <4>2, <4>3
    <3> QED
      BY <3>1, <3>2, <3>3, <3>4, <3>5
  <2>4. ASSUME NEW r \in Room, NEW e \in Edit, Commit(r, e) PROVE OrphanInv'
    <3>1. SnapOK'
      BY <2>4 DEF Commit, SnapOK
    <3>2. StopOK'
      BY <2>4 DEF Commit, StopOK
    <3>3. ExpiredHasFlush'
      BY <2>4 DEF Commit, ExpiredHasFlush
    <3>4. PendingIsLive'
      <4> SUFFICES ASSUME NEW q \in Room
                   PROVE  /\ doc'[q] = NoDoc => unreported'[q] = {} /\ Owed(q)' = {}
                          /\ doc'[q] # NoDoc =>
                               unreported'[q] \cup Owed(q)' \subseteq doc'[q]
        BY DEF PendingIsLive
      <4>1. Owed(q)' = Owed(q)
        BY <2>4 DEF Commit, Owed
      <4>2. doc[r] \cup {e} \in SUBSET Edit
        BY <2>4 DEF Commit
      <4>3. CASE q = r
        <5>1. doc'[q] = doc[q] \cup {e} /\ unreported'[q] = unreported[q] \cup {e}
          BY <2>4, <4>3 DEF Commit
        <5>2. doc'[q] # NoDoc
          BY <4>2, <4>3, <5>1, ConstantsAssumption
        <5> QED
          BY <2>4, <4>1, <4>3, <5>1, <5>2 DEF Commit, PendingIsLive
      <4>4. CASE q # r
        BY <2>4, <4>1, <4>4 DEF Commit, PendingIsLive
      <4> QED
        BY <4>3, <4>4
    <3>5. NoOrphanEdit'
      BY <2>4 DEF Commit, NoOrphanEdit, Covered, Owed
    <3> QED
      BY <3>1, <3>2, <3>3, <3>4, <3>5
  <2>5. ASSUME NEW r \in Room, NEW e \in Edit, StoreUpdate(r, e) PROVE OrphanInv'
    <3>1. SnapOK'
      BY <2>5 DEF StoreUpdate, Arm, StoreUpdateArm, StoreUpdateStopped, SnapOK
    <3>2. StopOK'
      BY <2>5 DEF StoreUpdate, Arm, StoreUpdateArm, StoreUpdateStopped, StopOK
    <3>3. ExpiredHasFlush'
      BY <2>5 DEF StoreUpdate, Arm, StoreUpdateArm, StoreUpdateStopped, ExpiredHasFlush
    <3>4. PendingIsLive'
      BY <2>5 DEF StoreUpdate, Arm, StoreUpdateArm, StoreUpdateStopped, PendingIsLive, Owed
    <3>5. NoOrphanEdit'
      BY <2>5 DEF StoreUpdate, Arm, StoreUpdateArm, StoreUpdateStopped, NoOrphanEdit, Covered, Owed
    <3> QED
      BY <3>1, <3>2, <3>3, <3>4, <3>5
  <2>6. ASSUME NEW f \in Flusher, NEW r \in Room, Fire(f, r) PROVE OrphanInv'
    <3>1. SnapOK'
      BY <2>6, SlotTypes DEF Fire, MaySpawn, SnapOK
    <3>2. StopOK'
      BY <2>6, SlotTypes DEF Fire, MaySpawn, StopOK
    <3>3. ExpiredHasFlush'
      BY <2>6, SlotTypes DEF Fire, MaySpawn, ExpiredHasFlush
    <3>4. PendingIsLive'
      BY <2>6, SlotTypes DEF Fire, MaySpawn, PendingIsLive, Owed
    <3>5. NoOrphanEdit'
      BY <2>6, SlotTypes DEF Fire, MaySpawn, NoOrphanEdit, Covered, Owed
    <3> QED
      BY <3>1, <3>2, <3>3, <3>4, <3>5
  <2>7. ASSUME NEW f \in Flusher, NEW r \in Room, FireStray(f, r) PROVE OrphanInv'
    <3>1. SnapOK'
      BY <2>7, SlotTypes DEF FireStray, StrayArmed, MaySpawn, SnapOK
    <3>2. StopOK'
      BY <2>7, SlotTypes DEF FireStray, StrayArmed, MaySpawn, StopOK
    <3>3. ExpiredHasFlush'
      BY <2>7, SlotTypes DEF FireStray, StrayArmed, MaySpawn, ExpiredHasFlush
    <3>4. PendingIsLive'
      BY <2>7, SlotTypes DEF FireStray, StrayArmed, MaySpawn, PendingIsLive, Owed
    <3>5. NoOrphanEdit'
      BY <2>7, SlotTypes DEF FireStray, StrayArmed, MaySpawn, NoOrphanEdit, Covered, Owed
    <3> QED
      BY <3>1, <3>2, <3>3, <3>4, <3>5
  <2>8. ASSUME NEW f \in Flusher, FlushLock(f) PROVE OrphanInv'
    <3>1. SnapOK'
      BY <2>8, SlotTypes DEF FlushLock, SnapOK
    <3>2. StopOK'
      BY <2>8, SlotTypes DEF FlushLock, StopOK
    <3>3. ExpiredHasFlush'
      BY <2>8, SlotTypes DEF FlushLock, ExpiredHasFlush
    <3>4. PendingIsLive'
      BY <2>8, SlotTypes DEF FlushLock, PendingIsLive, Owed
    <3>5. NoOrphanEdit'
      <4> SUFFICES ASSUME NEW q \in Room, NEW e \in Owed(q)' PROVE Covered(q, e)'
        BY DEF NoOrphanEdit
      <4>1. Covered(q, e)
        BY <2>8 DEF FlushLock, NoOrphanEdit, Owed
      <4>2. flush[f].room \in Room /\ flush[f].snap = {}
        BY <2>8, SlotTypes DEF FlushLock, SnapOK
      <4>3. CASE q = flush[f].room /\ ~stopped
        BY <2>8, <4>3, SlotTypes DEF FlushLock, Covered
      <4>4. CASE q = flush[f].room /\ stopped
        BY <2>8, <4>1, <4>2, <4>4, SlotTypes DEF FlushLock, Covered, StopOK
      <4>5. CASE q # flush[f].room
        BY <2>8, <4>1, <4>2, <4>5, SlotTypes DEF FlushLock, Covered
      <4> QED
        BY <4>3, <4>4, <4>5
    <3> QED
      BY <3>1, <3>2, <3>3, <3>4, <3>5
  <2>9. ASSUME NEW f \in Flusher, FlushEncode(f) PROVE OrphanInv'
    <3>1. SnapOK'
      BY <2>9, SlotTypes DEF FlushEncode, SnapOK
    <3>2. StopOK'
      BY <2>9, SlotTypes DEF FlushEncode, StopOK
    <3>3. ExpiredHasFlush'
      BY <2>9, SlotTypes DEF FlushEncode, ExpiredHasFlush
    <3>4. PendingIsLive'
      BY <2>9, SlotTypes DEF FlushEncode, PendingIsLive, Owed
    <3>5. NoOrphanEdit'
      <4> SUFFICES ASSUME NEW q \in Room, NEW e \in Owed(q)' PROVE Covered(q, e)'
        BY DEF NoOrphanEdit
      <4>1. e \in Owed(q) /\ Covered(q, e)
        BY <2>9 DEF FlushEncode, NoOrphanEdit, Owed
      <4>2. flush[f].room \in Room /\ flush[f].snap = {}
        BY <2>9, SlotTypes DEF FlushEncode, SnapOK
      <4>3. CASE q = flush[f].room
        <5>1. doc[q] # NoDoc /\ e \in doc[q]
          BY <4>1 DEF PendingIsLive
        <5> QED
          BY <2>9, <4>2, <4>3, <5>1, SlotTypes DEF FlushEncode, Covered
      <4>4. CASE q # flush[f].room
        BY <2>9, <4>1, <4>2, <4>4, SlotTypes DEF FlushEncode, Covered
      <4> QED
        BY <4>3, <4>4
    <3> QED
      BY <3>1, <3>2, <3>3, <3>4, <3>5
  <2>10. ASSUME NEW f \in Flusher, FlushSave(f) PROVE OrphanInv'
    <3>1. SnapOK'
      BY <2>10, SlotTypes DEF FlushSave, SaveOK, SaveFail, SnapOK
    <3>2. StopOK'
      BY <2>10, SlotTypes DEF FlushSave, SaveOK, SaveFail, StopOK
    <3>3. ExpiredHasFlush'
      BY <2>10, SlotTypes DEF FlushSave, SaveOK, SaveFail, ExpiredHasFlush
    <3>4. PendingIsLive'
      BY <2>10, SlotTypes DEF FlushSave, SaveOK, SaveFail, PendingIsLive, Owed
    <3>5. NoOrphanEdit'
      BY <2>10, SlotTypes DEF FlushSave, SaveOK, SaveFail, NoOrphanEdit, Covered, Owed
    <3> QED
      BY <3>1, <3>2, <3>3, <3>4, <3>5
  <2>11. ASSUME Signal PROVE OrphanInv'
    BY <2>11 DEF Signal, SnapOK, StopOK, ExpiredHasFlush, PendingIsLive, Owed,
       NoOrphanEdit, Covered
  <2>12. ASSUME StopLock PROVE OrphanInv'
    <3>1. SnapOK'
      BY <2>12 DEF StopLock, PendingRooms, SnapOK
    <3>2. StopOK'
      BY <2>12 DEF StopLock, PendingRooms, StopOK
    <3>3. ExpiredHasFlush'
      BY <2>12 DEF StopLock, PendingRooms, ExpiredHasFlush
    <3>4. PendingIsLive'
      BY <2>12 DEF StopLock, PendingRooms, PendingIsLive, Owed
    <3>5. NoOrphanEdit'
      <4> SUFFICES ASSUME NEW q \in Room, NEW e \in Owed(q)' PROVE Covered(q, e)'
        BY DEF NoOrphanEdit
      <4>1. Covered(q, e)
        BY <2>12 DEF StopLock, PendingRooms, NoOrphanEdit, Owed
      <4>2. stopRooms = {} /\ final.snap = {}
        BY <2>12, SlotTypes DEF StopLock, PendingRooms, StopOK
      <4> QED
        BY <2>12, <4>1, <4>2 DEF StopLock, PendingRooms, Covered
    <3> QED
      BY <3>1, <3>2, <3>3, <3>4, <3>5
  <2>13. ASSUME StopSave PROVE OrphanInv'
    <3>1. SnapOK'
      BY <2>13, SlotTypes DEF StopSave, SaveOK, SaveFail, SnapOK
    <3>2. StopOK'
      BY <2>13, SlotTypes DEF StopSave, SaveOK, SaveFail, StopOK
    <3>3. ExpiredHasFlush'
      BY <2>13, SlotTypes DEF StopSave, SaveOK, SaveFail, ExpiredHasFlush
    <3>4. PendingIsLive'
      BY <2>13, SlotTypes DEF StopSave, SaveOK, SaveFail, PendingIsLive, Owed
    <3>5. NoOrphanEdit'
      BY <2>13, SlotTypes DEF StopSave, SaveOK, SaveFail, NoOrphanEdit, Covered, Owed
    <3> QED
      BY <3>1, <3>2, <3>3, <3>4, <3>5
  <2>14. ASSUME StopReturn PROVE OrphanInv'
    BY <2>14 DEF StopReturn, StopBusy, SnapOK, StopOK, ExpiredHasFlush, PendingIsLive, Owed,
       NoOrphanEdit, Covered
  <2>15. ASSUME Exit \/ Crash PROVE OrphanInv'
    <3>1. SnapOK'
      BY <2>15, SlotTypes DEF Exit, Crash, Down, SnapOK
    <3>2. StopOK'
      BY <2>15, SlotTypes DEF Exit, Crash, Down, StopOK
    <3>3. ExpiredHasFlush'
      BY <2>15, SlotTypes DEF Exit, Crash, Down, ExpiredHasFlush
    <3>4. PendingIsLive'
      BY <2>15, SlotTypes DEF Exit, Crash, Down, PendingIsLive, Owed
    <3>5. NoOrphanEdit'
      BY <2>15, SlotTypes DEF Exit, Crash, Down, NoOrphanEdit, Covered, Owed
    <3> QED
      BY <3>1, <3>2, <3>3, <3>4, <3>5
  <2>16. ASSUME Start PROVE OrphanInv'
    BY <2>16 DEF Start, SnapOK, StopOK, ExpiredHasFlush, PendingIsLive, Owed,
       NoOrphanEdit, Covered
  <2>17. ASSUME UNCHANGED vars PROVE OrphanInv'
    BY <2>17 DEF vars, SnapOK, StopOK, ExpiredHasFlush, PendingIsLive, Owed,
       NoOrphanEdit, Covered
  <2> QED
    BY <2>1, <2>2, <2>3, <2>4, <2>5, <2>6, <2>7, <2>8, <2>9, <2>10, <2>11, <2>12, <2>13, <2>14, <2>15, <2>16, <2>17 DEF Next
<1> QED
  BY <1>1, <1>2, TypeCorrect, PTL DEF Spec

(* No accepted edit is ever orphaned (persistence.go:116-128).             *)
THEOREM NoOrphan == Spec => []NoOrphanEdit
<1>1. OrphanInv => NoOrphanEdit
  BY DEF OrphanInv
<1> QED
  BY <1>1, OrphanInvariant, PTL
=============================================================================
