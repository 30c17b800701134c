------------------------------ MODULE DevServer ------------------------------
(***************************************************************************)
(* The Node dev server (server/index.mjs): connection slots, and rooms     *)
(* that live as long as somebody is connected.  Every handler below runs   *)
(* to its end before the next one: the order of the events is what varies. *)
(* y-websocket, which keeps the documents and calls bindState and          *)
(* writeState, is modelled from how the server uses it.                    *)
(***************************************************************************)
EXTENDS Naturals, FiniteSets

CONSTANTS
  Room,
  Edit,
  EditsOf,     \* [Room -> SUBSET Edit], the edits meant for each room
  File,        \* the files of DATA_DIR
  FileOf,      \* [Room -> File], roomFile: names that differ in characters
               \* it replaces by "_" have one file
  Conn,        \* bound: sockets alive at one time
  Doc,         \* bound: Y.Doc objects alive at one time
  MaxTotal,    \* MAX_TOTAL_CONNS
  MaxRoom,     \* MAX_ROOM_CONNS
  NoRoom, NoDoc,
  Torn         \* a file whose writing was cut short: it does not decode

ASSUME DevServerAssumption ==
  /\ EditsOf \in [Room -> SUBSET Edit]
  /\ FileOf \in [Room -> File]
  /\ IsFiniteSet(Conn)
  /\ MaxTotal \in Nat \ {0} /\ MaxRoom \in Nat \ {0}
  /\ NoRoom \notin Room /\ NoDoc \notin Doc
  /\ \A S \in SUBSET Edit : Torn # S /\ NoDoc # S

VARIABLES
  up,           \* is the process running?
  sock,         \* the sockets and what their handlers captured
  totalConns,   \* totalConns
  roomConns,    \* roomConns; 0 where the map has no entry
  registry,     \* y-websocket's docs: the room's Y.Doc, or NoDoc
  content,      \* content[d]: the edits in the Y.Doc d
  pending,      \* pending[r]: the ydoc the room's save timer captured
  file,         \* file[f]: the snapshot on disk
  accepted      \* history: edits applied to the room's registered Y.Doc

slotVars == <<totalConns, roomConns>>
docVars  == <<registry, content, pending, file, accepted>>
vars == <<up, sock, slotVars, docVars>>

\* pc: "off"; "handshake", slot reserved, upgrade not complete; "open";
\* "gone", the socket failed and the events in due are still to be emitted.
\* attached: y-websocket counts the connection among doc's peers.
Off == [pc |-> "off", room |-> NoRoom, released |-> FALSE,
        doc |-> NoDoc, attached |-> FALSE, due |-> {}]

CloseEvents == {"socket error", "socket close", "conn close"}

(* Types of every variable.                                                *)
TypeOK ==
  /\ up \in BOOLEAN
  /\ sock \in [Conn -> [pc : {"off", "handshake", "open", "gone"},
       room : Room \cup {NoRoom}, released : BOOLEAN, doc : Doc \cup {NoDoc},
       attached : BOOLEAN, due : SUBSET CloseEvents]]
  /\ totalConns \in 0 .. Cardinality(Conn)
  /\ roomConns \in [Room -> 0 .. Cardinality(Conn)]
  /\ registry \in [Room -> Doc \cup {NoDoc}]
  /\ content \in [Doc -> SUBSET Edit]
  /\ pending \in [Room -> Doc \cup {NoDoc}]
  /\ file \in [File -> {Torn} \cup SUBSET Edit]
  /\ accepted \in [Room -> SUBSET Edit]

Init ==
  /\ up = TRUE
  /\ sock = [c \in Conn |-> Off]
  /\ totalConns = 0
  /\ roomConns = [r \in Room |-> 0]
  /\ registry = [r \in Room |-> NoDoc]
  /\ content = [d \in Doc |-> {}]
  /\ pending = [r \in Room |-> NoDoc]
  /\ file = [f \in File |-> {}]
  /\ accepted = [r \in Room |-> {}]

-----------------------------------------------------------------------------
(* Slots.                                                                  *)

FreeSlotOffByOne(r) ==      \* slip: > for >=
  totalConns <= MaxTotal /\ roomConns[r] <= MaxRoom
FreeSlot(r) == totalConns < MaxTotal /\ roomConns[r] < MaxRoom

(* The upgrade handler of an admitted client: reserveSlot checks both caps *)
(* and counts the connection in one go.  At a cap the upgrade is refused   *)
(* and nothing changes.                                                    *)
Upgrade(c, r) ==
  /\ up
  /\ sock[c] = Off
  /\ FreeSlot(r)
  /\ totalConns' = totalConns + 1
  /\ roomConns' = [roomConns EXCEPT ![r] = @ + 1]
  /\ sock' = [sock EXCEPT ![c] = [@ EXCEPT !.pc = "handshake", !.room = r]]
  /\ UNCHANGED <<up, docVars>>

(* release, which the raw socket's error and close and the connection's    *)
(* close all call: the first call runs releaseSlot.                        *)
EveryTime(c) == TRUE        \* slip: no released flag
FirstTime(c) == ~sock[c].released

Release(c) ==
  LET r == sock[c].room IN
  IF FirstTime(c)
  THEN /\ totalConns' = totalConns - 1
       /\ roomConns' = [roomConns EXCEPT ![r] = IF @ > 0 THEN @ - 1 ELSE 0]
  ELSE UNCHANGED slotVars

-----------------------------------------------------------------------------
(* Rooms.                                                                  *)

Unused(d) ==
  /\ \A r \in Room : d \notin {registry[r], pending[r]}
  /\ \A c \in Conn : sock[c].doc # d

(* What loadSnapshot finds for the room; nothing can be read back from a   *)
(* torn file.                                                              *)
Snapshot(r) == file[FileOf[r]]
OnDisk(r) == IF Snapshot(r) = Torn THEN {} ELSE Snapshot(r)

(* The process ends; the disk stays.                                       *)
ProcessEnds ==
  /\ up' = FALSE
  /\ sock' = [c \in Conn |-> Off]
  /\ totalConns' = 0
  /\ roomConns' = [r \in Room |-> 0]
  /\ registry' = [r \in Room |-> NoDoc]
  /\ content' = [d \in Doc |-> {}]
  /\ pending' = [r \in Room |-> NoDoc]
  /\ accepted' = [r \in Room |-> accepted[r] \cap OnDisk(r)']

Attach(c, d) ==
  sock' = [sock EXCEPT ![c] =
             [@ EXCEPT !.pc = "open", !.doc = d, !.attached = TRUE]]

(* The handshake completes: setupWSConnection joins the room's document.   *)
JoinRoom(c) ==
  LET r == sock[c].room IN
  /\ sock[c].pc = "handshake"
  /\ registry[r] # NoDoc
  /\ Attach(c, registry[r])
  /\ UNCHANGED <<up, slotVars, docVars>>

(* The first to join: y-websocket makes a Y.Doc and calls bindState, which *)
(* loads the file into it and starts listening.                            *)
BindState(c, d) ==
  LET r == sock[c].room IN
  /\ sock[c].pc = "handshake"
  /\ registry[r] = NoDoc
  /\ Snapshot(r) # Torn
  /\ Unused(d)
  /\ registry' = [registry EXCEPT ![r] = d]
  /\ content' = [content EXCEPT ![d] = Snapshot(r)]
  /\ Attach(c, d)
  /\ UNCHANGED <<up, slotVars, pending, file, accepted>>

(* A file that does not decode makes bindState's promise reject, which     *)
(* nobody awaits: Node ends the process.                                   *)
BindStateThrows(c) ==
  /\ sock[c].pc = "handshake"
  /\ registry[sock[c].room] = NoDoc
  /\ Snapshot(sock[c].room) = Torn
  /\ UNCHANGED file
  /\ ProcessEnds

(* A peer's update, also from a peer that y-websocket has given up but     *)
(* whose socket still delivers.  On the room's document it runs            *)
(* scheduleSave, which restarts the 800 ms timer; a document that was      *)
(* destroyed has no listeners left.                                        *)
Update(c, e) ==
  LET r == sock[c].room
      d == sock[c].doc
  IN
  /\ sock[c].pc = "open"
  /\ e \in EditsOf[r] \ content[d]
  /\ content' = [content EXCEPT ![d] = @ \cup {e}]
  /\ IF registry[r] = d
       THEN /\ pending' = [pending EXCEPT ![r] = d]
            /\ accepted' = [accepted EXCEPT ![r] = @ \cup {e}]
       ELSE UNCHANGED <<pending, accepted>>
  /\ UNCHANGED <<up, sock, slotVars, registry, file>>

(* The save timer.                                                         *)
SaveTimerForgets(r) ==      \* slip: the timer runs out and nothing is saved
  /\ pending[r] # NoDoc
  /\ pending' = [pending EXCEPT ![r] = NoDoc]
  /\ UNCHANGED <<up, sock, slotVars, registry, content, file, accepted>>

SaveTimer(r) ==
  /\ pending[r] # NoDoc
  /\ pending' = [pending EXCEPT ![r] = NoDoc]
  /\ file' = [file EXCEPT ![FileOf[r]] = content[pending[r]]]
  /\ UNCHANGED <<up, sock, slotVars, registry, content, accepted>>

(* closeConn, as y-websocket runs it: the last peer's leaving writes the   *)
(* state, forgets the document and destroys it.                            *)
LastPeer(c) == \A o \in Conn \ {c} :
  ~(sock[o].attached /\ sock[o].doc = sock[c].doc)

TimerGoesOn(r) == UNCHANGED pending   \* slip: the save timer not cleared
ClearTimer(r) == pending' = [pending EXCEPT ![r] = NoDoc]

WriteStateLater(r, d) ==    \* slip: the pending save cancelled, none made
  ClearTimer(r) /\ UNCHANGED file
WriteState(r, d) ==
  /\ ClearTimer(r)
  /\ file' = [file EXCEPT ![FileOf[r]] = content[d]]

Detach(c) ==
  LET r == sock[c].room IN
  IF sock[c].attached /\ LastPeer(c)
  THEN /\ WriteState(r, sock[c].doc)
       /\ registry' = [registry EXCEPT ![r] = NoDoc]
       /\ UNCHANGED <<content, accepted>>
  ELSE UNCHANGED docVars

(* No pong for 30 s: y-websocket gives the peer up and starts closing its  *)
(* socket, which is still open.                                            *)
PingTimeout(c) ==
  /\ sock[c].pc = "open"
  /\ sock[c].attached
  /\ Detach(c)
  /\ sock' = [sock EXCEPT ![c].attached = FALSE]
  /\ UNCHANGED <<up, slotVars>>

(* A socket ends, before or after the upgrade, with or without an error;   *)
(* an upgraded one also ends its connection.                               *)
SocketEnds(c) ==
  /\ sock[c].pc \in {"handshake", "open"}
  /\ \E error \in {{}, {"socket error"}} :
       sock' = [sock EXCEPT ![c] = [@ EXCEPT !.pc = "gone", !.due =
         error \cup {"socket close"} \cup
           (IF sock[c].pc = "open" THEN {"conn close"} ELSE {})]]
  /\ UNCHANGED <<up, slotVars, docVars>>

(* The handlers of one of the events of its end.                           *)
CloseEvent(c, event) ==
  /\ event \in sock[c].due
  /\ Release(c)
  /\ IF event = "conn close" THEN Detach(c) ELSE UNCHANGED docVars
  /\ LET rest == sock[c].due \ {event} IN
     sock' = [sock EXCEPT ![c] = IF rest = {} THEN Off ELSE
       [@ EXCEPT !.due = rest, !.released = TRUE,
                 !.attached = sock[c].attached /\ event # "conn close"]]
  /\ UNCHANGED up

-----------------------------------------------------------------------------
(* The process is killed, or stopped: the server handles no signal.        *)
Kill ==
  /\ up
  /\ UNCHANGED file
  /\ ProcessEnds

(* Killed, or out of disk space, in the middle of writeFileSync.           *)
KillInSave(r) ==
  /\ registry[r] # NoDoc
  /\ file' = [file EXCEPT ![FileOf[r]] = Torn]
  /\ ProcessEnds

Start ==
  /\ ~up
  /\ up' = TRUE
  /\ UNCHANGED <<sock, slotVars, docVars>>

Next ==
  \/ \E c \in Conn, r \in Room : Upgrade(c, r)
  \/ \E c \in Conn : JoinRoom(c) \/ BindStateThrows(c) \/ PingTimeout(c)
                       \/ SocketEnds(c)
  \/ \E c \in Conn, d \in Doc : BindState(c, d)
  \/ \E c \in Conn, e \in Edit : Update(c, e)
  \/ \E c \in Conn, event \in CloseEvents : CloseEvent(c, event)
  \/ \E r \in Room : SaveTimer(r) \/ KillInSave(r)
  \/ Kill \/ Start

Spec == Init /\ [][Next]_vars

-----------------------------------------------------------------------------
(* Properties.                                                             *)

(* The rooms with a file of their own.                                     *)
OwnFile == {r \in Room : \A s \in Room : FileOf[s] = FileOf[r] => s = r}

Holding(r) == {c \in Conn : sock[c].room = r /\ ~sock[c].released}
Connected(r) == {c \in Conn : sock[c].room = r /\ sock[c].pc # "gone"}

(* The counters are the slots in use, whatever the order of a socket's     *)
(* error and close events and however often they call release              *)
(* (index.mjs:315-370).                                                    *)
SlotsMatchSockets ==
  /\ \A r \in Room : roomConns[r] = Cardinality(Holding(r))
  /\ totalConns = Cardinality(UNION {Holding(r) : r \in Room})

(* "caps are never exceeded" (index.mjs:348), counted in sockets and not   *)
(* in what the counters say.                                               *)
CapsHold ==
  /\ \A r \in Room : Cardinality(Connected(r)) <= MaxRoom
  /\ Cardinality(UNION {Connected(r) : r \in Room}) <= MaxTotal

(* A save timer holds the document peers are editing, never one that a     *)
(* closed room left behind: it cannot overwrite the file of the room's     *)
(* next life (index.mjs:154-164, 197-203).                                 *)
TimerHasCurrentDoc ==
  \A r \in Room : pending[r] # NoDoc => pending[r] = registry[r]

(* In a room with a file of its own, an accepted edit is in the room's     *)
(* document, and when the last peer has left, on disk (index.mjs:168-203). *)
(* Rooms that roomFile gives one file write over what the other stored.    *)
LastCloseSaves ==
  \A r \in OwnFile :
    accepted[r] \subseteq
      IF registry[r] # NoDoc THEN content[registry[r]] ELSE OnDisk(r)

(* However edits, timers, peers that leave and rooms that open again        *)
(* interleave, in a room with a file of its own an accepted edit that is   *)
(* not on disk is in the document of a timer that is running: the debounce *)
(* coalesces saves, it forgets none (index.mjs:148-203).                   *)
UnsavedHasTimer ==
  \A r \in OwnFile :
    \/ accepted[r] \subseteq OnDisk(r)
    \/ pending[r] # NoDoc /\ accepted[r] \subseteq content[pending[r]]

(* The rooms as their clients see them: the registered document, and what  *)
(* the next process can read back.                                         *)
Live(r) == IF registry[r] = NoDoc THEN NoDoc ELSE content[registry[r]]

Rooms == INSTANCE DurableRooms WITH
           Room <- OwnFile,
           live <- [r \in OwnFile |-> Live(r)],
           durable <- [r \in OwnFile |-> OnDisk(r)],
           racing <- {},
           Absent <- NoDoc, MayTear <- TRUE

(* The rooms with a file of their own (index.mjs:136-203) are those of the *)
(* Go server, but for a write that is cut short: no save, of a timer, of   *)
(* the last peer, of an earlier life of the document or of another room,   *)
(* takes an edit from the room's file or puts one there, and only a save   *)
(* of the room itself can tear it.                                         *)
ImplementsDurableRooms == Rooms!Spec
=============================================================================
