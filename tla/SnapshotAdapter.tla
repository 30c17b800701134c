--------------------------- MODULE SnapshotAdapter ---------------------------
(***************************************************************************)
(* The debounced snapshot adapter of the Go board server                   *)
(* (server-go/persistence.go), the ygo provider that calls it, the sink it *)
(* writes to and the shutdown sequence of main (server-go/main.go).        *)
(*                                                                         *)
(* Every committed update arms or re-arms a per-room timer; when the timer *)
(* expires the Go runtime starts a goroutine that runs flush: a critical   *)
(* section, then the encoding of the room's live document, then a PUT (or  *)
(* a temp file and a rename) of the whole snapshot.  None of the three is  *)
(* atomic with the others, nor with a commit and the StoreUpdate call it   *)
(* leads to.                                                               *)
(*                                                                         *)
(* A document is the set of the edits it holds: the CRDT makes applying an *)
(* update a union and encoding a document a copy of the set.               *)
(***************************************************************************)
EXTENDS Naturals

CONSTANTS
  Room,        \* room names the clients use
  Key,         \* storage keys (file names, object names)
  NoKey,       \* safeRoom's "": the room is un-storable
  KeyOf,       \* [Room -> Key \cup {NoKey}], what safeRoom makes of a name
  Edit,        \* the updates clients may send
  EditsOf,     \* [Room -> SUBSET Edit], the edits meant for each room
  Flusher,     \* bound: flush goroutines alive at one time
  StrayBound,  \* bound: no commits while this many strays are armed
  Resent,      \* bound: edits sent again when an unload has lost them
  Env,         \* which faults and outside events happen
  NoDoc,       \* GetDoc's nil
  Corrupt,     \* a stored snapshot that no longer decodes
  NoRoom       \* the room of a goroutine slot that is free

Events == {"crash", "signal", "saveError", "rot", "unload"}

ASSUME ConstantsAssumption ==
  /\ KeyOf \in [Room -> Key \cup {NoKey}]
  /\ EditsOf \in [Room -> SUBSET Edit]
  /\ NoKey \notin Key
  /\ \A S \in SUBSET Edit : NoDoc # S /\ Corrupt # S
  /\ NoRoom \notin Room
  /\ StrayBound \in Nat
  /\ Env \subseteq Events

VARIABLES
  doc,         \* doc[r]: the live document of room r in ygo, or NoDoc
  unreported,  \* unreported[r]: committed, StoreUpdate not called for it yet
  timers,      \* Adapter.timers: no entry, an armed timer, an expired one
  strays,      \* strays[r]: armed timers of r that the map no longer holds
  flush,       \* the goroutines running flush
  stopped,     \* Adapter.stopped
  phase,       \* the life of the process
  stopRooms,   \* Stop's local slice rooms: what it still has to save
  final,       \* the save Stop is in the middle of
  store,       \* the sink: the snapshot under each key, {} when absent
  reported,    \* history: edits StoreUpdate accepted in this life
  saved,       \* history: those of them a save has carried that returned nil
  givenUp,     \* history: those of them whose save failed, or that were unloaded,
               \* and that no save carried before
  raced,       \* history: rooms with a flush past its lock when Stop began, or
               \* when ygo unloaded them
  overlap      \* history: rooms of which two saves were under way at one time,
               \* or that were loaded or unloaded during a save

adapterVars == <<timers, strays, flush, stopped>>
stopVars    == <<phase, stopRooms, final>>
ledger      == <<reported, saved, givenUp>>
history     == <<ledger, raced, overlap>>
vars == <<doc, unreported, adapterVars, stopVars, store, history>>

Idle == [pc |-> "idle", room |-> NoRoom, snap |-> {}]
At(pc, r, snap) == [pc |-> pc, room |-> r, snap |-> snap]

FlushState == {Idle} \cup [pc : {"lock", "encode", "save"},
                            room : Room, snap : SUBSET Edit]

(* Types of every variable.                                                *)
TypeOK ==
  /\ doc \in [Room -> {NoDoc} \cup SUBSET Edit]
  /\ unreported \in [Room -> SUBSET Edit]
  /\ timers \in [Room -> {"none", "armed", "expired"}]
  /\ strays \in [Room -> Nat]
  /\ flush \in [Flusher -> FlushState]
  /\ stopped \in BOOLEAN
  /\ phase \in {"up", "closing", "stopping", "stopped", "down"}
  /\ stopRooms \in SUBSET Room
  /\ final \in FlushState
  /\ store \in [Key -> {Corrupt} \cup SUBSET Edit]
  /\ reported \in [Room -> SUBSET Edit]
  /\ saved \in [Room -> SUBSET Edit]
  /\ givenUp \in [Room -> SUBSET Edit]
  /\ raced \in SUBSET Room
  /\ overlap \in SUBSET Room

-----------------------------------------------------------------------------
(* A new process has nothing in memory.  The sink is empty, or holds        *)
(* snapshots that were damaged before the process came up.                 *)
Found == IF "rot" \in Env THEN {{}, Corrupt} ELSE {{}}

Init ==
  /\ doc = [r \in Room |-> NoDoc]
  /\ unreported = [r \in Room |-> {}]
  /\ timers = [r \in Room |-> "none"]
  /\ strays = [r \in Room |-> 0]
  /\ flush = [f \in Flusher |-> Idle]
  /\ stopped = FALSE
  /\ phase = "up"
  /\ stopRooms = {}
  /\ final = Idle
  /\ store \in [Key -> Found]
  /\ reported = [r \in Room |-> {}]
  /\ saved = [r \in Room |-> {}]
  /\ givenUp = [r \in Room |-> {}]
  /\ raced = {}
  /\ overlap = {}

Running == phase # "down"
Storable(r) == KeyOf[r] # NoKey
Content(v) == IF v = Corrupt THEN {} ELSE v

(* The snapshot under room r's key; an un-storable room has none.          *)
Stored(r) == IF Storable(r) THEN Content(store[KeyOf[r]]) ELSE {}

Flushing(r) == \E f \in Flusher : flush[f].room = r

(* Nothing keeps two saves of a room apart, nor a save and a load: flush   *)
(* and Stop encode and save outside the lock.  overlap records where it    *)
(* happened.                                                               *)
SaveInFlight(r) ==
  \/ \E f \in Flusher : flush[f].pc = "save" /\ flush[f].room = r
  \/ final.room = r

NoteOverlap(r) == overlap' = overlap \cup {q \in {r} : SaveInFlight(q)}

-----------------------------------------------------------------------------
(* The ygo provider.                                                       *)

(* The first peer of a room makes ygo load it: LoadDoc returns what is     *)
(* stored, nothing for a new room, and nothing for a snapshot that does    *)
(* not decode.  When the sink fails the connection is refused and nothing  *)
(* changes.  Connections accepted before the listener closed still open    *)
(* rooms while main is shutting down.                                      *)
LoadAnyRoom(r) == UNION {Content(store[k]) : k \in Key}  \* slip: key ignored
LoadDoc(r) == Stored(r)

Open(r) ==
  /\ phase \in {"up", "closing"}
  /\ doc[r] = NoDoc
  /\ doc' = [doc EXCEPT ![r] = LoadDoc(r)]
  /\ NoteOverlap(r)
  /\ UNCHANGED <<unreported, adapterVars, stopVars, store, ledger, raced>>

(* A peer's update is applied to the live document.  Websockets are        *)
(* hijacked connections: Shutdown does not end them, so edits go on until  *)
(* the process is gone.  After a restart a client resends what the server  *)
(* lost, so an edit can be committed once per life; one of Resent also     *)
(* after an unload that has lost it.                                       *)
Commit(r, e) ==
  /\ Running
  /\ doc[r] # NoDoc
  /\ e \in EditsOf[r] \ (doc[r] \cup (reported[r] \ Resent))
  /\ strays[r] < StrayBound
  /\ doc' = [doc EXCEPT ![r] = @ \cup {e}]
  /\ unreported' = [unreported EXCEPT ![r] = @ \cup {e}]
  /\ UNCHANGED <<adapterVars, stopVars, store, history>>

(* The rooms with a flush between its critical section and its end.        *)
PastLock == {flush[f].room : f \in {g \in Flusher :
                               flush[g].pc \in {"encode", "save"}}}

(* ygo may drop a room nobody is connected to; GetDoc then returns nil.    *)
Unload(r) ==
  /\ "unload" \in Env
  /\ Running
  /\ doc[r] # NoDoc
  /\ unreported[r] = {}
  /\ doc' = [doc EXCEPT ![r] = NoDoc]
  /\ givenUp' = [givenUp EXCEPT ![r] = @ \cup (reported[r] \ saved[r])]
  /\ raced' = raced \cup ({r} \cap PastLock)
  /\ NoteOverlap(r)
  /\ UNCHANGED <<unreported, adapterVars, stopVars, store, reported, saved>>

-----------------------------------------------------------------------------
(* Adapter.StoreUpdate: one critical section.                              *)

(* After Stop the update is dropped without an error.                      *)
StoreUpdateStopped(r, e) ==
  /\ stopped
  /\ UNCHANGED <<adapterVars, history>>

(* No timer in the map: AfterFunc.  A timer in the map, expired or not:    *)
(* Reset arms it again.                                                    *)
ArmUnlessFlushing(r) ==             \* slip: leave it to the flush at work
  timers' = IF Flushing(r) THEN timers ELSE [timers EXCEPT ![r] = "armed"]
Arm(r) == timers' = [timers EXCEPT ![r] = "armed"]

StoreUpdateArm(r, e) ==
  /\ ~stopped
  /\ Arm(r)
  /\ reported' = [reported EXCEPT ![r] = @ \cup {e}]
  /\ saved' = [saved EXCEPT ![r] = @ \ {e}]
  /\ givenUp' = [givenUp EXCEPT ![r] = @ \ {e}]
  /\ UNCHANGED <<strays, flush, stopped, raced, overlap>>

StoreUpdate(r, e) ==
  /\ Running
  /\ e \in unreported[r]
  /\ unreported' = [unreported EXCEPT ![r] = @ \ {e}]
  /\ StoreUpdateArm(r, e) \/ StoreUpdateStopped(r, e)
  /\ UNCHANGED <<doc, stopVars, store>>

-----------------------------------------------------------------------------
(* The debounce timers and flush.                                          *)

(* Time is abstract: an armed timer may expire at any moment.              *)
MaySpawn(f) == Running /\ flush[f] = Idle

(* The timer in the map expires and its goroutine starts; the map keeps    *)
(* the expired timer until the goroutine holds the lock.                   *)
Fire(f, r) ==
  /\ MaySpawn(f)
  /\ timers[r] = "armed"
  /\ timers' = [timers EXCEPT ![r] = "expired"]
  /\ flush' = [flush EXCEPT ![f] = At("lock", r, {})]
  /\ UNCHANGED <<doc, unreported, strays, stopped, stopVars, store, history>>

(* A timer that was re-armed after it had expired is still armed when its  *)
(* first goroutine deletes it from the map: it fires a second time.        *)
AnyTime(r) == timers[r] # "none"   \* slip: a timer fires unarmed
StrayArmed(r) == strays[r] > 0

FireStray(f, r) ==
  /\ MaySpawn(f)
  /\ StrayArmed(r)
  /\ strays' = [strays EXCEPT ![r] = @ - 1]
  /\ flush' = [flush EXCEPT ![f] = At("lock", r, {})]
  /\ UNCHANGED <<doc, unreported, timers, stopped, stopVars, store, history>>

(* flush's critical section: delete the map's entry, which may be a newer  *)
(* timer than the one that fired, and read stopped.                        *)
FlushLock(f) ==
  LET r == flush[f].room IN
  /\ Running
  /\ flush[f].pc = "lock"
  /\ timers' = [timers EXCEPT ![r] = "none"]
  /\ strays' = IF timers[r] = "armed" THEN [strays EXCEPT ![r] = @ + 1]
                                      ELSE strays
  /\ flush' = [flush EXCEPT ![f] = IF stopped THEN Idle ELSE At("encode", r, {})]
  /\ UNCHANGED <<doc, unreported, stopped, stopVars, store, history>>

(* GetDoc and EncodeStateAsUpdateV1, outside the lock.                     *)
FlushEncode(f) ==
  LET r == flush[f].room IN
  /\ Running
  /\ flush[f].pc = "encode"
  /\ flush' = [flush EXCEPT ![f] = IF doc[r] = NoDoc THEN Idle
                                                    ELSE At("save", r, doc[r])]
  /\ IF doc[r] = NoDoc THEN UNCHANGED overlap ELSE NoteOverlap(r)
  /\ UNCHANGED <<doc, unreported, timers, strays, stopped, stopVars, store,
                 ledger, raced>>

(* snapshotSink.save: the snapshot replaces the stored one in one step (a  *)
(* rename, or a PUT); an un-storable room is skipped without an error.     *)
Put(r, snap) ==
  store' = IF Storable(r) THEN [store EXCEPT ![KeyOf[r]] = snap] ELSE store

SaveOK(r, snap) ==
  /\ Put(r, snap)
  /\ saved' = [saved EXCEPT ![r] = @ \cup (snap \cap reported[r])]
  /\ givenUp' = [givenUp EXCEPT ![r] = @ \ snap]
  /\ UNCHANGED <<reported, raced, overlap>>

(* A save that fails may or may not have replaced the snapshot: a PUT that *)
(* times out after the bucket applied it.  The error is logged; nothing    *)
(* arms a timer for another attempt.                                       *)
TornPut(r, snap) == Put(r, {})      \* slip: overwriting in place
FailedPut(r, snap) == Put(r, snap) \/ UNCHANGED store

SaveFail(r, snap) ==
  /\ "saveError" \in Env
  /\ Storable(r)
  /\ FailedPut(r, snap)
  /\ givenUp' = [givenUp EXCEPT ![r] = @ \cup ((snap \cap reported[r]) \ saved[r])]
  /\ UNCHANGED <<reported, saved, raced, overlap>>

FlushSave(f) ==
  LET r == flush[f].room IN
  /\ Running
  /\ flush[f].pc = "save"
  /\ SaveOK(r, flush[f].snap) \/ SaveFail(r, flush[f].snap)
  /\ flush' = [flush EXCEPT ![f] = Idle]
  /\ UNCHANGED <<doc, unreported, timers, strays, stopped, stopVars>>

-----------------------------------------------------------------------------
(* Shutdown: main's signal goroutine and Adapter.Stop.                     *)

(* The goroutine receives the signal and calls server.Shutdown.            *)
Signal ==
  /\ "signal" \in Env
  /\ phase = "up"
  /\ phase' = "closing"
  /\ UNCHANGED <<doc, unreported, adapterVars, stopRooms, final, store, history>>

(* Shutdown has returned; Stop's critical section marks the adapter        *)
(* stopped, stops the timers the map holds, whether or not t.Stop was in   *)
(* time, and keeps their rooms.                                            *)
RoomsInTime == {r \in Room : timers[r] = "armed"}  \* slip: expired left out
PendingRooms == {r \in Room : timers[r] # "none"}

StopLock ==
  /\ phase = "closing"
  /\ phase' = "stopping"
  /\ stopped' = TRUE
  /\ stopRooms' = PendingRooms
  /\ timers' = [r \in Room |-> "none"]
  /\ raced' = raced \cup PastLock
  /\ UNCHANGED <<doc, unreported, strays, flush, final, store, ledger, overlap>>

(* Stop's loop, in any order: GetDoc and encode, then save.                *)
StopEncode(r) ==
  /\ phase = "stopping"
  /\ final = Idle
  /\ r \in stopRooms
  /\ stopRooms' = stopRooms \ {r}
  /\ final' = IF doc[r] = NoDoc THEN Idle ELSE At("save", r, doc[r])
  /\ IF doc[r] = NoDoc THEN UNCHANGED overlap ELSE NoteOverlap(r)
  /\ UNCHANGED <<doc, unreported, adapterVars, phase, store, ledger, raced>>

StopSave ==
  /\ phase = "stopping"
  /\ final.pc = "save"
  /\ SaveOK(final.room, final.snap) \/ SaveFail(final.room, final.snap)
  /\ final' = Idle
  /\ UNCHANGED <<doc, unreported, adapterVars, phase, stopRooms>>

SaveUnderWay == final # Idle        \* slip: only the current save awaited
StopBusy == stopRooms # {} \/ final # Idle

StopReturn ==
  /\ phase = "stopping"
  /\ ~StopBusy
  /\ phase' = "stopped"
  /\ UNCHANGED <<doc, unreported, adapterVars, stopRooms, final, store, history>>

(* The process is gone, and with it everything but the sink.               *)
Down ==
  /\ doc' = [r \in Room |-> NoDoc]
  /\ unreported' = [r \in Room |-> {}]
  /\ timers' = [r \in Room |-> "none"]
  /\ strays' = [r \in Room |-> 0]
  /\ flush' = [f \in Flusher |-> Idle]
  /\ stopped' = FALSE
  /\ phase' = "down"
  /\ stopRooms' = {}
  /\ final' = Idle
  /\ reported' = [r \in Room |-> {}]
  /\ saved' = [r \in Room |-> {}]
  /\ givenUp' = [r \in Room |-> {}]
  /\ raced' = {}
  /\ overlap' = {}
  /\ UNCHANGED store

(* ListenAndServe returns as soon as Shutdown has begun, main returns      *)
(* right after it, and the process exits however far Stop has got.         *)
Exit ==
  /\ phase \in {"closing", "stopping", "stopped"}
  /\ Down

Crash ==
  /\ "crash" \in Env
  /\ Running
  /\ Down

Start ==
  /\ phase = "down"
  /\ phase' = "up"
  /\ UNCHANGED <<doc, unreported, adapterVars, stopRooms, final, store, history>>

-----------------------------------------------------------------------------
Next ==
  \/ \E r \in Room : Open(r) \/ Unload(r) \/ StopEncode(r)
  \/ \E r \in Room, e \in Edit : Commit(r, e) \/ StoreUpdate(r, e)
  \/ \E f \in Flusher, r \in Room : Fire(f, r) \/ FireStray(f, r)
  \/ \E f \in Flusher : FlushLock(f) \/ FlushEncode(f) \/ FlushSave(f)
  \/ Signal \/ StopLock \/ StopSave \/ StopReturn \/ Exit
  \/ Crash \/ Start

Spec == Init /\ [][Next]_vars

(* ygo calls StoreUpdate for what it committed, timers expire and the Go   *)
(* scheduler runs every goroutine that can take a step.                    *)
Fairness ==
  /\ \A r \in Room : \A e \in EditsOf[r] : WF_vars(StoreUpdate(r, e))
  /\ \A r \in Room : WF_vars(\E f \in Flusher : Fire(f, r))
  /\ \A r \in Room : WF_vars(\E f \in Flusher : FireStray(f, r))
  /\ \A f \in Flusher : WF_vars(FlushLock(f) \/ FlushEncode(f) \/ FlushSave(f))

FairSpec == Spec /\ Fairness

-----------------------------------------------------------------------------
(* Properties.                                                             *)

(* Something will still save edit e of room r: an armed timer, a goroutine *)
(* on its way to GetDoc, a save that carries e, or Stop.                   *)
Covered(r, e) ==
  \/ timers[r] = "armed"
  \/ /\ timers[r] = "expired"
     /\ \E f \in Flusher : flush[f].pc = "lock" /\ flush[f].room = r
  \/ \E f \in Flusher : flush[f].pc = "encode" /\ flush[f].room = r
  \/ \E f \in Flusher : flush[f].room = r /\ e \in flush[f].snap
  \/ r \in stopRooms
  \/ final.room = r /\ e \in final.snap

(* The accepted edits of r that no save has carried or lost yet.           *)
Owed(r) == reported[r] \ (saved[r] \cup givenUp[r])

(* However timers, resets, flushes and Stop interleave, an edit StoreUpdate *)
(* accepted (persistence.go:116-128) is never without somebody on the way  *)
(* to save it until a save has carried it: the debounce coalesces edits,   *)
(* it drops none.                                                          *)
NoOrphanEdit == \A r \in Room : \A e \in Owed(r) : Covered(r, e)

(* Nothing is pending or running for room r.                               *)
Settled(r) ==
  /\ timers[r] = "none"
  /\ ~Flushing(r)
  /\ r \notin stopRooms
  /\ final.room # r

(* flush "encodes the room's current full snapshot and persists it"        *)
(* (persistence.go:130): when a room has settled, the sink holds every     *)
(* edit StoreUpdate accepted for it, but for those of a save that failed.  *)
AllStored(r) == Storable(r) => reported[r] \ givenUp[r] \subseteq Stored(r)
SettledRoomStored == \A r \in Room : Settled(r) => AllStored(r)

(* What the adapter (persistence.go:116-175) does keep of that: a settled  *)
(* room can lack an accepted edit only if two saves of it were under way   *)
(* together, or ygo loaded or dropped it during one: whatever else timers, *)
(* strays, flushes, Stop, reloads and failed saves do to it, it is stored. *)
SettledUnlessOverlapped ==
  \A r \in Room \ overlap : Settled(r) => AllStored(r)

(* A room holds, and stores under its key, only edits meant for it: load   *)
(* "returns the stored snapshot for room" (persistence.go:37).             *)
Isolated(r) ==
  /\ doc[r] # NoDoc => doc[r] \subseteq EditsOf[r]
  /\ Stored(r) \subseteq EditsOf[r]
RoomIsolation == \A r \in Room : Isolated(r)

(* Stop "performs a final synchronous flush so the last edits are          *)
(* persisted" (persistence.go:149-150): when it has returned, every        *)
(* accepted edit is stored, except those of saves that failed, those of    *)
(* rooms whose saves overlapped, and those of rooms that had a flush past  *)
(* its critical section when Stop began, or when they were unloaded: such  *)
(* a flush is what Stop (persistence.go:151-175) neither sees nor waits    *)
(* for.                                                                    *)
StopPersistsUnlessRaced ==
  phase = "stopped" => \A r \in Room \ (raced \cup overlap) : AllStored(r)

(* "Graceful shutdown: stop accepting, then flush pending snapshots"       *)
(* (main.go:139): a process that ends by a signal has stored what          *)
(* StoreUpdate had accepted.                                               *)
GracefulExitFlushes ==
  [][Exit => \A r \in Room : AllStored(r)]_vars

(* The rooms no other room shares a key with.                              *)
OwnKey(r) == \A s \in Room : Storable(r) /\ KeyOf[r] = KeyOf[s] => r = s
OwnRoom == {r \in Room : OwnKey(r)}

(* Seen through their clients' eyes the adapter is DurableRooms, racing    *)
(* the rooms whose saves have overlapped: in every other room a snapshot   *)
(* replaces the stored one only by a larger one, of edits that are live.   *)
Rooms == INSTANCE DurableRooms WITH
           Room <- OwnRoom, live <- [r \in OwnRoom |-> doc[r]],
           durable <- [r \in OwnRoom |-> Stored(r)],
           racing <- overlap \cap OwnRoom, Absent <- NoDoc, MayTear <- FALSE

(* The whole of LoadDoc, StoreUpdate, flush, Stop and save                 *)
(* (persistence.go:97-175) implements the abstract rooms, crashes and      *)
(* failed saves included: until two saves of a room overlap its snapshot   *)
(* never shrinks and never holds what is not live, and an overlap costs    *)
(* the room it happens in and no other.                                    *)
ImplementsDurableRooms == Rooms!Spec

(* Every edit committed to a storable room reaches the sink, unless the    *)
(* process crashes or the save that carries it fails (persistence.go:113-  *)
(* 146).  ImplementsDurableRooms says that it then stays there; where      *)
(* saves have overlapped, a save of it has returned without an error.      *)
EditsReachStore ==
  \A r \in Room : \A e \in EditsOf[r] :
    Storable(r) /\ doc[r] # NoDoc /\ e \in doc[r] ~>
      \/ e \in Stored(r) \/ phase # "up" \/ e \in givenUp[r]
      \/ r \in overlap /\ e \in saved[r]

-----------------------------------------------------------------------------
(* What makes NoOrphanEdit inductive.                                      *)

(* A goroutine holds a snapshot only between encoding and saving.          *)
SnapOK == \A f \in Flusher : flush[f].pc # "save" => flush[f].snap = {}

(* Stop works only while it runs, and from its critical section on the map *)
(* stays empty.                                                            *)
StopOK ==
  /\ stopped <=> phase \in {"stopping", "stopped"}
  /\ stopped => \A r \in Room : timers[r] = "none"
  /\ phase # "stopping" => stopRooms = {} /\ final = Idle
  /\ final.pc \in {"idle", "save"}

(* An expired timer stays in the map only while the goroutine it started   *)
(* waits for the lock.                                                     *)
ExpiredHasFlush ==
  \A r \in Room : timers[r] = "expired" =>
    \E f \in Flusher : flush[f].pc = "lock" /\ flush[f].room = r

(* What is still to be reported or saved is in the live document, so that  *)
(* a later GetDoc finds it.                                                *)
PendingIsLive ==
  \A r \in Room :
    /\ doc[r] = NoDoc => unreported[r] = {} /\ Owed(r) = {}
    /\ doc[r] # NoDoc => unreported[r] \cup Owed(r) \subseteq doc[r]

(* The inductive invariant behind NoOrphanEdit (persistence.go:116-175).   *)
OrphanInv ==
  /\ SnapOK
  /\ StopOK
  /\ ExpiredHasFlush
  /\ PendingIsLive
  /\ NoOrphanEdit
=============================================================================
