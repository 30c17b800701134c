----------------------------- MODULE ReadOnlyHub -----------------------------
(***************************************************************************)
(* View-only peers of the Go board server: the hub that fans out every     *)
(* document update and the handler that serves one view-only connection    *)
(* (server-go/security.go).  A view-only peer is no peer of the ygo        *)
(* provider: it is given the stored snapshot, then what the hub sends it.  *)
(*                                                                         *)
(* Rooms are those of DurableRooms, which SnapshotAdapter implements: a    *)
(* live document that editors write, and the snapshot LoadDoc returns.     *)
(***************************************************************************)
EXTENDS Naturals, SequencesExt

CONSTANTS
  Room, Edit, Absent,   \* those of DurableRooms
  EditsOf,              \* [Room -> SUBSET Edit], the edits meant for each room
  Peer,                 \* view-only connections alive at one time
  ChanCap,              \* capacity of a subscriber's channel (256 in the code)
  NoRoom,               \* the room of a connection slot that is free
  Failures              \* which steps may fail: "load", "send", "write"

ASSUME HubAssumption ==
  /\ EditsOf \in [Room -> SUBSET Edit]
  /\ \A S \in SUBSET Edit : Absent # S
  /\ ChanCap \in Nat \ {0}
  /\ NoRoom \notin Room
  /\ Failures \subseteq {"load", "send", "write"}

VARIABLES
  live, durable,  \* those of DurableRooms
  committed,      \* committed[r]: edits whose OnUpdate has not run yet
  subs,           \* ReadOnlyHub.subs; a room with no entry has none
  conn,           \* conn[p]: how far ServeReadOnly has got for p
  chan,           \* chan[p]: p's buffered channel
  got,            \* got[p]: the edits the client of p has received
  dropped,        \* history: edits Broadcast dropped for p
  before          \* history: edits broadcast before p subscribed and, once p
                  \* has loaded, not in the snapshot it was given

roomVars == <<live, durable>>
peerVars == <<conn, chan, got, dropped, before>>
vars == <<roomVars, committed, subs, peerVars>>

Rooms == INSTANCE DurableRooms WITH MayTear <- FALSE, racing <- {}

\* pc: "off"; "subscribed"; "loaded" with the snapshot in initial; "serving",
\* the read loop, while writer tells whether its goroutine still runs.
Off == [pc |-> "off", room |-> NoRoom, initial |-> {}, writer |-> FALSE]

(* Types of every variable.                                                *)
TypeOK ==
  /\ live \in [Room -> {Absent} \cup SUBSET Edit]
  /\ durable \in [Room -> SUBSET Edit]
  /\ committed \in [Room -> SUBSET Edit]
  /\ subs \in [Room -> SUBSET Peer]
  /\ conn \in [Peer -> {Off} \cup [pc : {"subscribed", "loaded", "serving"},
                 room : Room, initial : SUBSET Edit, writer : BOOLEAN]]
  /\ \A p \in Peer : chan[p] \in Seq(Edit) /\ Len(chan[p]) <= ChanCap
  /\ got \in [Peer -> SUBSET Edit]
  /\ dropped \in [Peer -> SUBSET Edit]
  /\ before \in [Peer -> SUBSET Edit]

Init ==
  /\ Rooms!Init
  /\ committed = [r \in Room |-> {}]
  /\ subs = [r \in Room |-> {}]
  /\ conn = [p \in Peer |-> Off]
  /\ chan = [p \in Peer |-> <<>>]
  /\ got = [p \in Peer |-> {}]
  /\ dropped = [p \in Peer |-> {}]
  /\ before = [p \in Peer |-> {}]

-----------------------------------------------------------------------------
(* Editors and storage.                                                    *)

(* ygo loads the room; OnLoadDocument wires the hub's observer to the      *)
(* document before anybody can edit it.                                    *)
Open(r) ==
  /\ Rooms!Join(r)
  /\ UNCHANGED <<committed, subs, peerVars>>

Commit(r, e) ==
  /\ live[r] # Absent
  /\ e \in EditsOf[r] \ live[r]
  /\ Rooms!Write(r, e)
  /\ committed' = [committed EXCEPT ![r] = @ \cup {e}]
  /\ UNCHANGED <<subs, peerVars>>

(* A save of r ends.  Saves of a room may overlap, so what it leaves may    *)
(* be older than what it replaces.                                         *)
Persist(r) ==
  /\ live[r] # Absent
  /\ \E S \in SUBSET live[r] : durable' = [durable EXCEPT ![r] = S]
  /\ UNCHANGED <<live, committed, subs, peerVars>>

-----------------------------------------------------------------------------
(* The hub.                                                                *)

Unbounded(p) == chan[p] \in Seq(Edit)             \* slip: no capacity
HasRoomFor(p) == Len(chan[p]) < ChanCap

EveryPeer(r) == Peer                               \* slip: rooms ignored
Listeners(r) == subs[r]

(* The observer's OnUpdate calls Broadcast: one critical section that      *)
(* offers the frame to every subscriber of the room and never waits.       *)
Broadcast(r, e) ==
  /\ e \in committed[r]
  /\ committed' = [committed EXCEPT ![r] = @ \ {e}]
  /\ chan' = [p \in Peer |-> IF p \in Listeners(r) /\ HasRoomFor(p)
                               THEN Append(chan[p], e) ELSE chan[p]]
  /\ dropped' = [p \in Peer |-> IF p \in Listeners(r) /\ ~HasRoomFor(p)
                                  THEN dropped[p] \cup {e} ELSE dropped[p]]
  /\ UNCHANGED <<roomVars, subs, conn, got, before>>

-----------------------------------------------------------------------------
(* ServeReadOnly, for the connection p.                                    *)

(* Upgrade, then Subscribe with a new channel.                             *)
Connect(p, r) ==
  /\ conn[p] = Off
  /\ subs' = [subs EXCEPT ![r] = @ \cup {p}]
  /\ conn' = [conn EXCEPT ![p] = [Off EXCEPT !.pc = "subscribed", !.room = r]]
  /\ chan' = [chan EXCEPT ![p] = <<>>]
  /\ got' = [got EXCEPT ![p] = {}]
  /\ dropped' = [dropped EXCEPT ![p] = {}]
  /\ before' = [before EXCEPT ![p] =
       (IF live[r] = Absent THEN {} ELSE live[r]) \ committed[r]]
  /\ UNCHANGED <<roomVars, committed>>

(* The handler returns: Unsubscribe, close the socket; the channel is      *)
(* garbage; what the client had is of no interest any more.                *)
KeepSubscribed(p) == UNCHANGED subs                \* slip: no Unsubscribe
Unsubscribe(p) == subs' = [subs EXCEPT ![conn[p].room] = @ \ {p}]

Leave(p) ==
  /\ Unsubscribe(p)
  /\ conn' = [conn EXCEPT ![p] = Off]
  /\ chan' = [chan EXCEPT ![p] = <<>>]
  /\ got' = [got EXCEPT ![p] = {}]
  /\ dropped' = [dropped EXCEPT ![p] = {}]
  /\ before' = [before EXCEPT ![p] = {}]
  /\ UNCHANGED <<roomVars, committed>>

(* LoadDoc, or its error.                                                  *)
Load(p) ==
  /\ conn[p].pc = "subscribed"
  /\ conn' = [conn EXCEPT ![p] = [@ EXCEPT !.pc = "loaded",
                                           !.initial = durable[conn[p].room]]]
  /\ before' = [before EXCEPT ![p] = @ \ durable[conn[p].room]]
  /\ UNCHANGED <<roomVars, committed, subs, chan, got, dropped>>

LoadFails(p) ==
  /\ "load" \in Failures
  /\ conn[p].pc = "subscribed"
  /\ Leave(p)

(* The snapshot, an empty update if there is none, goes out as sync step 2;*)
(* then the writer goroutine starts.                                       *)
EmptyUpdate(p) == {}                    \* slip: sent for a stored room, too
InitialState(p) == conn[p].initial

SendStep2(p) ==
  /\ conn[p].pc = "loaded"
  /\ got' = [got EXCEPT ![p] = InitialState(p)]
  /\ conn' = [conn EXCEPT ![p] = [@ EXCEPT !.pc = "serving", !.initial = {},
                                           !.writer = TRUE]]
  /\ UNCHANGED <<roomVars, committed, subs, chan, dropped, before>>

SendFails(p) ==
  /\ "send" \in Failures
  /\ conn[p].pc = "loaded"
  /\ Leave(p)

(* The writer goroutine passes one frame on.                               *)
WholeBatch(p) == Len(chan[p]) > 1                   \* slip: waits for a batch
Frames(p) == chan[p] # <<>>

Forward(p) ==
  /\ conn[p].writer
  /\ Frames(p)
  /\ got' = [got EXCEPT ![p] = @ \cup {Head(chan[p])}]
  /\ chan' = [chan EXCEPT ![p] = Tail(@)]
  /\ UNCHANGED <<roomVars, committed, subs, conn, dropped, before>>

(* A write fails: the writer cancels the context and ends.  The read loop  *)
(* does not watch the context: the peer stays subscribed until a read      *)
(* fails.                                                                  *)
WriteFails(p) ==
  /\ "write" \in Failures
  /\ conn[p].writer
  /\ Frames(p)
  /\ chan' = [chan EXCEPT ![p] = Tail(@)]
  /\ conn' = [conn EXCEPT ![p].writer = FALSE]
  /\ UNCHANGED <<roomVars, committed, subs, got, dropped, before>>

(* What the client sends is read and thrown away, which changes nothing;   *)
(* when the client is gone the read fails and the handler returns.         *)
Disconnect(p) ==
  /\ conn[p].pc = "serving"
  /\ Leave(p)

-----------------------------------------------------------------------------
Serve(p) == Load(p) \/ LoadFails(p) \/ SendStep2(p) \/ SendFails(p)

Next ==
  \/ \E r \in Room : Open(r) \/ Persist(r)
  \/ \E r \in Room, e \in Edit : Commit(r, e) \/ Broadcast(r, e)
  \/ \E p \in Peer, r \in Room : Connect(p, r)
  \/ \E p \in Peer : Serve(p) \/ Forward(p) \/ WriteFails(p) \/ Disconnect(p)

Spec == Init /\ [][Next]_vars

(* OnUpdate callbacks run to their end, and the goroutines of a connection *)
(* go on; nobody owes a disconnection or a flush.                          *)
Fairness ==
  /\ \A r \in Room, e \in Edit : WF_vars(Broadcast(r, e))
  /\ \A p \in Peer : WF_vars(Serve(p)) /\ WF_vars(Forward(p) \/ WriteFails(p))

FairSpec == Spec /\ Fairness

-----------------------------------------------------------------------------
(* Properties.                                                             *)

Docs(r) == IF live[r] = Absent THEN {} ELSE live[r]
Watching(p) == conn[p].pc = "serving" /\ conn[p].writer

(* What p has, or is sure to be given while it stays connected.            *)
Due(p) == got[p] \cup ToSet(chan[p]) \cup committed[conn[p].room]

(* Subscribing before loading (security.go:180-189) leaves only two ways   *)
(* for a connected viewer to miss an edit of its room: its channel was     *)
(* full, or the edit was broadcast before it subscribed and was not in the *)
(* snapshot it loaded.  Whatever was, it has been sent.                    *)
OnlyKnownGaps ==
  \A p \in Peer : Watching(p) =>
    Docs(conn[p].room) \subseteq Due(p) \cup dropped[p] \cup before[p]

(* "live updates that haven't been flushed yet will arrive via the hub     *)
(* immediately after" (security.go:185-188): nothing of the room is out of *)
(* the viewer's reach, a full channel apart.                               *)
UnflushedUpdatesArrive ==
  \A p \in Peer : Watching(p) =>
    Docs(conn[p].room) \subseteq Due(p) \cup dropped[p]

(* A viewer receives edits of the room it was let into, no others          *)
(* (security.go:107-141).                                                  *)
ViewersKeepApart ==
  \A p \in Peer : conn[p] # Off =>
    got[p] \cup ToSet(chan[p]) \cup conn[p].initial \subseteq EditsOf[conn[p].room]

(* Whichever way a connection ends, the hub holds exactly the connections  *)
(* being served, each under its own room (security.go:107-128, 182-183).   *)
NoLeakedSubscription ==
  \A r \in Room : subs[r] = {p \in Peer : conn[p].room = r}

(* An edit committed while a viewer is watching reaches it, unless the     *)
(* viewer leaves, its socket breaks or its channel overflows               *)
(* (security.go:131-151, 209-224).                                         *)
ViewersCatchUp ==
  \A p \in Peer, e \in Edit :
    Watching(p) /\ e \in committed[conn[p].room] ~>
      ~Watching(p) \/ e \in got[p] \cup dropped[p]
=============================================================================
