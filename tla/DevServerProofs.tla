--------------------------- MODULE DevServerProofs ---------------------------
(***************************************************************************)
(* The Node dev server, for any rooms, edits, sockets, documents and caps: *)
(* proofs about DevServer.                                                 *)
(***************************************************************************)
EXTENDS DevServer, Integers, FiniteSetTheorems, TLAPS

Sock == [pc : {"off", "handshake", "open", "gone"}, room : Room \cup {NoRoom},
         released : BOOLEAN, doc : Doc \cup {NoDoc}, attached : BOOLEAN,
         due : SUBSET CloseEvents]

(* What a socket's handlers have captured, by how far it has got.          *)
SockOK(s) ==
  /\ s \in Sock
  /\ s.pc = "off" <=> s = Off
  /\ s.pc = "off" <=> s.room = NoRoom
  /\ s.released => s.pc = "gone"
  /\ s.due # {} => s.pc = "gone"
  /\ s.pc = "open" => s.doc \in Doc
  /\ s.attached => s.doc \in Doc /\ s.pc \in {"open", "gone"}

TypeInv ==
  /\ up \in BOOLEAN
  /\ sock \in [Conn -> Sock]
  /\ \A c \in Conn : SockOK(sock[c])
  /\ totalConns \in Int
  /\ roomConns \in [Room -> Nat]
  /\ registry \in [Room -> Doc \cup {NoDoc}]
  /\ content \in [Doc -> SUBSET Edit]
  /\ pending \in [Room -> Doc \cup {NoDoc}]
  /\ file \in [File -> {Torn} \cup SUBSET Edit]
  /\ accepted \in [Room -> SUBSET Edit]

(* One socket moves to another state, the others stay as they are.         *)
Moves(c) ==
  /\ sock' \in [Conn -> Sock]
  /\ \A o \in Conn : SockOK(sock[o])'
  /\ \A o \in Conn \ {c} : sock'[o] = sock[o]

-----------------------------------------------------------------------------
(* A socket that is not in use.                                            *)
LEMMA OffOK == SockOK(Off)
BY DevServerAssumption DEF SockOK, Sock, Off

(* A socket may move to any state that is well-formed.                     *)
LEMMA MovesTo ==
  ASSUME TypeInv, NEW c \in Conn, NEW new, SockOK(new),
         sock' = [sock EXCEPT ![c] = new]
  PROVE  Moves(c) /\ sock'[c] = new
<1>1. new \in Sock
  BY DEF SockOK
<1>2. \A o \in Conn : sock'[o] = IF o = c THEN new ELSE sock[o]
  BY DEF TypeInv
<1>3. sock' \in [Conn -> Sock]
  BY <1>1 DEF TypeInv
<1>4. \A o \in Conn : SockOK(sock'[o])
  BY <1>2 DEF TypeInv
<1>5. \A o \in Conn : SockOK(sock[o])'
  BY <1>4 DEF SockOK, Off, Sock
<1> QED
  BY <1>2, <1>3, <1>5 DEF Moves

(* A new socket holds a slot of its room.                                  *)
LEMMA UpgradeSock ==
  ASSUME TypeInv, NEW c \in Conn, NEW r \in Room, Upgrade(c, r)
  PROVE  /\ Moves(c) /\ sock[c] = Off
         /\ sock'[c].pc = "handshake" /\ sock'[c].room = r
         /\ ~sock'[c].released /\ ~sock'[c].attached
<1> DEFINE new == [Off EXCEPT !.pc = "handshake", !.room = r]
<1>1. SockOK(new)
  BY DevServerAssumption DEF SockOK, Sock, Off
<1>2. sock' = [sock EXCEPT ![c] = new] /\ sock[c] = Off
  BY DEF Upgrade
<1>3. new.pc = "handshake" /\ new.room = r /\ ~new.released /\ ~new.attached
  BY DEF Off
<1> HIDE DEF new
<1> QED
  BY <1>1, <1>2, <1>3, MovesTo

(* A socket whose connection joins a document keeps its slot.              *)
LEMMA AttachSock ==
  ASSUME TypeInv, NEW c \in Conn, NEW d \in Doc, sock[c].pc = "handshake", Attach(c, d)
  PROVE  /\ Moves(c) /\ sock[c].room \in Room
         /\ sock'[c].pc = "open" /\ sock'[c].room = sock[c].room
         /\ ~sock'[c].released /\ ~sock[c].released
         /\ sock'[c].attached /\ sock'[c].doc = d
<1> DEFINE new == [sock[c] EXCEPT !.pc = "open", !.doc = d, !.attached = TRUE]
<1>1. sock[c] \in Sock /\ SockOK(sock[c])
  BY DEF TypeInv
<1>2. /\ new \in Sock /\ new.pc = "open" /\ new.room = sock[c].room
      /\ new.released = sock[c].released /\ new.due = sock[c].due
      /\ new.attached /\ new.doc = d
  BY <1>1 DEF Sock
<1>3. sock[c].room \in Room /\ ~sock[c].released /\ sock[c].due = {}
  BY <1>1 DEF SockOK, Sock
<1>4. sock' = [sock EXCEPT ![c] = new]
  BY DEF Attach
<1> HIDE DEF new
<1>5. SockOK(new)
  BY <1>2, <1>3, DevServerAssumption DEF SockOK, Off
<1> QED
  BY <1>2, <1>3, <1>4, <1>5, MovesTo

(* A peer that is given up keeps its slot and its socket.                  *)
LEMMA PingSock ==
  ASSUME TypeInv, NEW c \in Conn, PingTimeout(c)
  PROVE  /\ Moves(c) /\ sock[c].room \in Room /\ sock[c].attached
         /\ sock'[c].pc = sock[c].pc /\ sock'[c].room = sock[c].room
         /\ sock'[c].released = sock[c].released
         /\ ~sock'[c].attached
<1> DEFINE new == [sock[c] EXCEPT !.attached = FALSE]
<1>1. sock[c] \in Sock /\ SockOK(sock[c]) /\ sock[c].pc = "open" /\ sock[c].attached
  BY DEF TypeInv, PingTimeout
<1>2. /\ new \in Sock /\ new.pc = "open" /\ new.room = sock[c].room
      /\ new.released = sock[c].released /\ new.due = sock[c].due
      /\ ~new.attached /\ new.doc = sock[c].doc
  BY <1>1 DEF Sock
<1>3. sock[c].room \in Room /\ ~sock[c].released /\ sock[c].due = {}
  BY <1>1 DEF SockOK, Sock
<1>4. sock' = [sock EXCEPT ![c] = new]
  BY DEF PingTimeout
<1> HIDE DEF new
<1>5. SockOK(new)
  BY <1>1, <1>2, <1>3, DevServerAssumption DEF SockOK, Off
<1> QED
  BY <1>1, <1>2, <1>3, <1>4, <1>5, MovesTo

(* A socket that ends keeps its slot until one of its handlers has run.    *)
LEMMA EndSock ==
  ASSUME TypeInv, NEW c \in Conn, SocketEnds(c)
  PROVE  /\ Moves(c) /\ sock[c].room \in Room
         /\ sock'[c].pc = "gone" /\ sock'[c].room = sock[c].room
         /\ sock'[c].released = sock[c].released
         /\ sock'[c].attached = sock[c].attached /\ sock'[c].doc = sock[c].doc
<1>1. PICK due \in SUBSET CloseEvents :
        sock' = [sock EXCEPT ![c] = [sock[c] EXCEPT !.pc = "gone", !.due = due]]
  BY DEF SocketEnds, CloseEvents
<1> DEFINE new == [sock[c] EXCEPT !.pc = "gone", !.due = due]
<1>2. /\ sock[c] \in Sock /\ SockOK(sock[c])
      /\ sock[c].pc \in {"handshake", "open"}
  BY DEF TypeInv, SocketEnds
<1>3. /\ new \in Sock /\ new.pc = "gone" /\ new.room = sock[c].room
      /\ new.released = sock[c].released /\ new.due = due
      /\ new.attached = sock[c].attached /\ new.doc = sock[c].doc
  BY <1>2 DEF Sock
<1>4. sock[c].room \in Room
  BY <1>2 DEF SockOK, Sock
<1>5. sock' = [sock EXCEPT ![c] = new]
  BY <1>1
<1> HIDE DEF new
<1>6. SockOK(new)
  BY <1>2, <1>3, <1>4, DevServerAssumption DEF SockOK, Off
<1> QED
  BY <1>3, <1>4, <1>5, <1>6, MovesTo

(* The handlers of a closing event: the slot is released for good, and the *)
(* connection's own event detaches it from the document.                   *)
LEMMA CloseSock ==
  ASSUME TypeInv, NEW c \in Conn, NEW event, CloseEvent(c, event)
  PROVE  /\ Moves(c) /\ sock[c].room \in Room
         /\ sock[c].pc = "gone"
         /\ \/ sock'[c] = Off
            \/ /\ sock'[c].released /\ sock'[c].room = sock[c].room
               /\ sock'[c].pc = "gone" /\ sock'[c].doc = sock[c].doc
               /\ sock'[c].attached <=> sock[c].attached /\ event # "conn close"
<1> DEFINE rest == sock[c].due \ {event}
           new == [sock[c] EXCEPT !.due = rest, !.released = TRUE,
                                  !.attached = sock[c].attached /\ event # "conn close"]
<1>1. /\ sock[c] \in Sock /\ SockOK(sock[c]) /\ event \in sock[c].due
      /\ sock[c].pc = "gone"
  BY DEF TypeInv, CloseEvent, SockOK
<1>2. sock[c].room \in Room
  BY <1>1 DEF SockOK, Sock
<1>3. CASE rest = {}
  <2>1. sock' = [sock EXCEPT ![c] = Off]
    BY <1>3 DEF CloseEvent
  <2> QED
    BY <1>1, <1>2, <2>1, OffOK, MovesTo
<1>4. CASE rest # {}
  <2>1. /\ new \in Sock /\ new.pc = "gone" /\ new.room = sock[c].room
        /\ new.released /\ new.doc = sock[c].doc
        /\ new.attached <=> sock[c].attached /\ event # "conn close"
    BY <1>1 DEF Sock
  <2>2. sock' = [sock EXCEPT ![c] = new]
    BY <1>4 DEF CloseEvent
  <2> HIDE DEF new
  <2>3. new.attached => sock[c].doc \in Doc
    BY <1>1, <2>1 DEF SockOK
  <2>4. new.pc # "off" /\ new # Off /\ new.room # NoRoom
    <3>1. new.pc = "gone" /\ new.room = sock[c].room
      BY <2>1
    <3>2. new.room # NoRoom
      BY <1>2, <3>1, DevServerAssumption
    <3> QED
      BY <3>1, <3>2 DEF Off
  <2>5. SockOK(new)
    BY <2>1, <2>3, <2>4 DEF SockOK
  <2> QED
    BY <1>1, <1>2, <2>1, <2>2, <2>5, MovesTo
<1> QED
  BY <1>3, <1>4

-----------------------------------------------------------------------------
(* A process that ends leaves no sockets, no documents and no timers.      *)
LEMMA EndsTyped ==
  ASSUME TypeInv, ProcessEnds, file' \in [File -> {Torn} \cup SUBSET Edit]
  PROVE  TypeInv' /\ \A c \in Conn : sock'[c] = Off
<1>1. \A c \in Conn : sock'[c] = Off
  BY DEF ProcessEnds
<1>2. \A c \in Conn : SockOK(sock'[c])
  BY <1>1, OffOK
<1>3. \A c \in Conn : SockOK(sock[c])'
  BY <1>2 DEF SockOK, Off, Sock
<1>4. sock' \in [Conn -> Sock]
  BY OffOK DEF ProcessEnds, SockOK
<1>5. /\ up' \in BOOLEAN
      /\ totalConns' \in Int
      /\ roomConns' \in [Room -> Nat]
  <2>1. up' \in BOOLEAN
    BY DEF ProcessEnds
  <2>2. totalConns' \in Int /\ roomConns' \in [Room -> Nat]
    BY DEF ProcessEnds
  <2> QED
    BY <2>1, <2>2
<1>6. /\ registry' \in [Room -> Doc \cup {NoDoc}]
      /\ content' \in [Doc -> SUBSET Edit]
      /\ pending' \in [Room -> Doc \cup {NoDoc}]
  BY DEF ProcessEnds
<1>7. accepted' \in [Room -> SUBSET Edit]
  <2>1. accepted' = [r \in Room |-> accepted[r] \cap OnDisk(r)']
    BY DEF ProcessEnds
  <2> QED
    BY <2>1 DEF TypeInv
<1> QED
  BY <1>1, <1>3, <1>4, <1>5, <1>6, <1>7 DEF TypeInv

(* What a leaving peer does to the room's document, timer and file.        *)
LEMMA DetachTyped ==
  ASSUME TypeInv, NEW c \in Conn, Detach(c)
  PROVE  /\ registry' \in [Room -> Doc \cup {NoDoc}]
         /\ pending' \in [Room -> Doc \cup {NoDoc}]
         /\ file' \in [File -> {Torn} \cup SUBSET Edit]
         /\ content' = content /\ accepted' = accepted
<1>1. CASE sock[c].attached /\ LastPeer(c)
  <2>1. sock[c].doc \in Doc
    BY <1>1 DEF TypeInv, SockOK
  <2> QED
    BY <1>1, <2>1, DevServerAssumption DEF Detach, WriteState, ClearTimer, TypeInv
<1>2. CASE ~(sock[c].attached /\ LastPeer(c))
  BY <1>2 DEF Detach, docVars, TypeInv
<1> QED
  BY <1>1, <1>2

(* TypeInv is inductive.                                                   *)
LEMMA TypeInductive == TypeInv /\ [Next]_vars => TypeInv'
<1> SUFFICES ASSUME TypeInv, [Next]_vars PROVE TypeInv'
  OBVIOUS
<1>1. ASSUME NEW c \in Conn, NEW r \in Room, Upgrade(c, r) PROVE TypeInv'
  <2>1. Moves(c)
    BY <1>1, UpgradeSock
  <2>2. up' = up /\ totalConns' \in Int /\ roomConns' \in [Room -> Nat]
    BY <1>1 DEF TypeInv, Upgrade
  <2> QED
    BY <1>1, <2>1, <2>2 DEF TypeInv, Upgrade, docVars, Moves
<1>2. ASSUME NEW c \in Conn, JoinRoom(c) PROVE TypeInv'
  <2>1. sock[c].room \in Room
    BY <1>2 DEF JoinRoom, TypeInv, SockOK, Sock
  <2>2. registry[sock[c].room] \in Doc
    BY <1>2, <2>1 DEF JoinRoom, TypeInv
  <2>3. Moves(c)
    BY <1>2, <2>2, AttachSock DEF JoinRoom
  <2> QED
    BY <1>2, <2>3 DEF TypeInv, JoinRoom, docVars, slotVars, Moves
<1>3. ASSUME NEW c \in Conn, BindStateThrows(c) PROVE TypeInv'
  BY <1>3, EndsTyped DEF BindStateThrows, TypeInv
<1>4. ASSUME NEW c \in Conn, PingTimeout(c) PROVE TypeInv'
  <2>1. Moves(c)
    BY <1>4, PingSock
  <2>2. Detach(c) /\ up' = up /\ UNCHANGED slotVars
    BY <1>4 DEF PingTimeout
  <2> QED
    BY <2>1, <2>2, DetachTyped DEF TypeInv, slotVars, Moves
<1>5. ASSUME NEW c \in Conn, SocketEnds(c) PROVE TypeInv'
  <2>1. Moves(c)
    BY <1>5, EndSock
  <2> QED
    BY <1>5, <2>1 DEF TypeInv, SocketEnds, docVars, slotVars, Moves
<1>6. ASSUME NEW c \in Conn, NEW d \in Doc, BindState(c, d) PROVE TypeInv'
  <2>1. Moves(c) /\ sock[c].room \in Room
    BY <1>6, AttachSock DEF BindState
  <2>2. Snapshot(sock[c].room) \in SUBSET Edit
    BY <1>6, <2>1, DevServerAssumption DEF BindState, Snapshot, TypeInv
  <2>3. /\ registry' \in [Room -> Doc \cup {NoDoc}]
        /\ content' \in [Doc -> SUBSET Edit]
    BY <1>6, <2>1, <2>2 DEF BindState, TypeInv
  <2> QED
    BY <1>6, <2>1, <2>3 DEF TypeInv, BindState, slotVars, Moves
<1>7. ASSUME NEW c \in Conn, NEW e \in Edit, Update(c, e) PROVE TypeInv'
  <2>1. sock[c].room \in Room /\ sock[c].doc \in Doc
    BY <1>7 DEF Update, TypeInv, SockOK, Sock
  <2>2. content' \in [Doc -> SUBSET Edit]
    BY <1>7, <2>1 DEF Update, TypeInv
  <2>3. /\ pending' \in [Room -> Doc \cup {NoDoc}]
        /\ accepted' \in [Room -> SUBSET Edit]
    BY <1>7, <2>1 DEF Update, TypeInv
  <2>4. \A o \in Conn : SockOK(sock[o])'
    BY <1>7 DEF Update, TypeInv, SockOK
  <2> QED
    BY <1>7, <2>2, <2>3, <2>4 DEF TypeInv, Update, slotVars
<1>8. ASSUME NEW c \in Conn, NEW event \in CloseEvents, CloseEvent(c, event)
      PROVE TypeInv'
  <2>1. Moves(c) /\ sock[c].room \in Room
    BY <1>8, CloseSock
  <2>2. totalConns' \in Int /\ roomConns' \in [Room -> Nat]
    <3>1. Release(c)
      BY <1>8 DEF CloseEvent
    <3> QED
      BY <2>1, <3>1 DEF Release, slotVars, TypeInv
  <2>3. up' = up /\ (Detach(c) \/ UNCHANGED docVars)
    BY <1>8 DEF CloseEvent
  <2>4. CASE Detach(c)
    BY <2>1, <2>2, <2>3, <2>4, DetachTyped DEF TypeInv, Moves
  <2>5. CASE UNCHANGED docVars
    BY <2>1, <2>2, <2>3, <2>5 DEF TypeInv, docVars, Moves
  <2> QED
    BY <2>3, <2>4, <2>5
<1>9. ASSUME NEW r \in Room, SaveTimer(r) PROVE TypeInv'
  <2>1. pending[r] \in Doc
    BY <1>9 DEF SaveTimer, TypeInv
  <2>2. file' \in [File -> {Torn} \cup SUBSET Edit]
    BY <1>9, <2>1 DEF SaveTimer, TypeInv
  <2>3. \A o \in Conn : SockOK(sock[o])'
    BY <1>9 DEF SaveTimer, TypeInv, SockOK
  <2> QED
    BY <1>9, <2>2, <2>3 DEF TypeInv, SaveTimer, slotVars
<1>10. ASSUME NEW r \in Room, KillInSave(r) PROVE TypeInv'
  BY <1>10, EndsTyped DEF KillInSave, TypeInv
<1>11. ASSUME Kill PROVE TypeInv'
  BY <1>11, EndsTyped DEF Kill, TypeInv
<1>12. ASSUME Start PROVE TypeInv'
  BY <1>12 DEF Start, TypeInv, docVars, slotVars, SockOK
<1>13. ASSUME UNCHANGED vars PROVE TypeInv'
  BY <1>13 DEF vars, TypeInv, docVars, slotVars, SockOK
<1> QED
  BY <1>1, <1>2, <1>3, <1>4, <1>5, <1>6, <1>7, <1>8, <1>9, <1>10, <1>11,
     <1>12, <1>13 DEF Next

(* TypeInv holds in every reachable state.                                 *)
LEMMA TypeAlways == Spec => []TypeInv
<1>1. Init => TypeInv
  <2> SUFFICES ASSUME Init PROVE TypeInv
    OBVIOUS
  <2>1. \A c \in Conn : SockOK(sock[c])
    BY OffOK DEF Init
  <2>2. sock \in [Conn -> Sock]
    BY OffOK DEF Init, SockOK
  <2> QED
    BY <2>1, <2>2, DevServerAssumption DEF Init, TypeInv
<1> QED
  BY <1>1, TypeInductive, PTL DEF Spec

-----------------------------------------------------------------------------
(* Slots.                                                                  *)

All == {c \in Conn : sock[c].room \in Room /\ ~sock[c].released}

(* What reserveSlot checks, it keeps.                                      *)
Capped == totalConns <= MaxTotal /\ \A r \in Room : roomConns[r] <= MaxRoom

SlotInv == SlotsMatchSockets /\ Capped

(* The slots of all rooms together.                                        *)
LEMMA AllHolding == UNION {Holding(r) : r \in Room} = All
BY DEF Holding, All

(* Slots are held by sockets, of which there are finitely many.            *)
LEMMA FiniteSlots ==
  /\ IsFiniteSet(All)
  /\ \A r \in Room : IsFiniteSet(Holding(r))
<1>1. IsFiniteSet(Conn)
  BY DevServerAssumption
<1>2. All \subseteq Conn /\ \A r \in Room : Holding(r) \subseteq Conn
  BY DEF All, Holding
<1> QED
  BY <1>1, <1>2, FS_Subset

(* SlotsMatchSockets, with one set for the slots of all rooms.             *)
LEMMA SlotsByAll ==
  SlotsMatchSockets <=> /\ \A r \in Room : roomConns[r] = Cardinality(Holding(r))
                        /\ totalConns = Cardinality(All)
BY AllHolding DEF SlotsMatchSockets

(* The same in the next state.                                             *)
LEMMA SlotsByAllNext ==
  SlotsMatchSockets' <=> /\ \A r \in Room : roomConns'[r] = Cardinality(Holding(r)')
                         /\ totalConns' = Cardinality(All')
<1>1. UNION {Holding(r)' : r \in Room} = All'
  BY DEF Holding, All
<1> QED
  BY <1>1 DEF SlotsMatchSockets

(* The counters stay as they are if the set of slots does.                 *)
LEMMA SlotsKept ==
  ASSUME TypeInv, SlotInv, UNCHANGED slotVars,
         \A c \in Conn : sock'[c].room = sock[c].room
                           /\ sock'[c].released = sock[c].released
  PROVE  SlotInv'
<1>1. All' = All /\ \A r \in Room : Holding(r)' = Holding(r)
  BY DEF All, Holding
<1>2. SlotsMatchSockets'
  BY <1>1, SlotsByAll, SlotsByAllNext DEF SlotInv, slotVars
<1> QED
  BY <1>2 DEF SlotInv, Capped, slotVars

(* A socket that moves without releasing its slot.                         *)
LEMMA MoverKept ==
  ASSUME TypeInv, SlotInv, NEW c \in Conn, Moves(c), UNCHANGED slotVars,
         sock'[c].room = sock[c].room, sock'[c].released = sock[c].released
  PROVE  SlotInv'
BY SlotsKept DEF Moves

(* An upgrade takes one slot.                                              *)
LEMMA UpgradeSlots ==
  ASSUME TypeInv, SlotInv, NEW c \in Conn, NEW r \in Room, Upgrade(c, r)
  PROVE  SlotInv'
<1>1. /\ Moves(c) /\ sock[c].room = NoRoom
      /\ sock'[c].room = r /\ ~sock'[c].released
  BY UpgradeSock DEF Off
<1>2. c \notin All /\ c \notin Holding(r)
  BY <1>1, DevServerAssumption DEF All, Holding
<1>3. All' = All \cup {c} /\ Holding(r)' = Holding(r) \cup {c}
  BY <1>1 DEF All, Holding, Moves
<1>4. \A s \in Room \ {r} : Holding(s)' = Holding(s)
  BY <1>1, DevServerAssumption DEF Holding, Moves
<1>5. /\ Cardinality(All') = Cardinality(All) + 1
      /\ Cardinality(Holding(r)') = Cardinality(Holding(r)) + 1
  BY <1>2, <1>3, FiniteSlots, FS_AddElement
<1>6. /\ totalConns < MaxTotal /\ roomConns[r] < MaxRoom
      /\ totalConns' = totalConns + 1
      /\ roomConns' = [roomConns EXCEPT ![r] = @ + 1]
  BY DEF Upgrade, FreeSlot
<1>7. SlotsMatchSockets'
  BY <1>4, <1>5, <1>6, SlotsByAll, SlotsByAllNext DEF SlotInv, TypeInv
<1>8. Capped'
  <2>1. MaxTotal \in Nat /\ MaxRoom \in Nat
    BY DevServerAssumption
  <2> QED
    BY <1>6, <2>1 DEF SlotInv, Capped, TypeInv
<1> QED
  BY <1>7, <1>8 DEF SlotInv

(* The first of a socket's closing events gives its slot back, the others  *)
(* change nothing.                                                         *)
LEMMA CloseSlots ==
  ASSUME TypeInv, SlotInv, NEW c \in Conn, NEW event, CloseEvent(c, event)
  PROVE  SlotInv'
<1>own. Moves(c) /\ sock[c].room \in Room
  BY CloseSock
<1>room. PICK r \in Room : r = sock[c].room
  BY <1>own
<1>1. /\ Moves(c) /\ r \in Room
      /\ sock'[c].room \notin Room \/ sock'[c].released
  <2>1. sock'[c] = Off \/ sock'[c].released
    BY CloseSock
  <2>2. Off.room \notin Room
    BY DevServerAssumption DEF Off
  <2> QED
    BY <1>own, <2>1, <2>2
<1>2. \A s \in Room : Holding(s)' = Holding(s) \ {c}
  BY <1>1 DEF Holding, Moves
<1>3. All' = All \ {c}
  BY <1>1 DEF All, Moves
<1>4. \A s \in Room \ {r} : c \notin Holding(s)
  BY <1>room DEF Holding
<1>5. Release(c)
  BY DEF CloseEvent
<1>6. /\ totalConns = Cardinality(All)
      /\ \A s \in Room : roomConns[s] = Cardinality(Holding(s))
  BY SlotsByAll DEF SlotInv
<1>7. CASE sock[c].released
  <2>1. c \notin All /\ c \notin Holding(r)
    BY <1>room, <1>7 DEF All, Holding
  <2>2. All' = All /\ \A s \in Room : Holding(s)' = Holding(s)
    BY <1>2, <1>3, <1>4, <2>1
  <2>3. UNCHANGED slotVars
    BY <1>5, <1>7 DEF Release, FirstTime
  <2> QED
    BY <1>6, <2>2, <2>3, SlotsByAllNext DEF SlotInv, Capped, slotVars
<1>8. CASE ~sock[c].released
  <2>1. c \in All /\ c \in Holding(r)
    BY <1>room, <1>1, <1>8 DEF All, Holding
  <2>2. /\ Cardinality(All') = Cardinality(All) - 1
        /\ Cardinality(Holding(r)') = Cardinality(Holding(r)) - 1
    BY <1>1, <1>2, <1>3, <2>1, FiniteSlots, FS_RemoveElement
  <2>3. IsFiniteSet(Holding(r)') /\ Cardinality(Holding(r)') \in Nat
    BY <1>1, <1>2, FiniteSlots, FS_RemoveElement, FS_CardinalityType
  <2>4. roomConns[r] \in Nat /\ roomConns[r] > 0
    BY <1>1, <1>6, <2>2, <2>3 DEF TypeInv
  <2>5. /\ totalConns' = totalConns - 1
        /\ roomConns' = [roomConns EXCEPT ![r] = @ - 1]
    BY <1>room, <1>1, <1>5, <1>8, <2>4 DEF Release, FirstTime, TypeInv
  <2>6. \A s \in Room \ {r} : Holding(s)' = Holding(s)
    BY <1>2, <1>4
  <2>7. \A s \in Room : roomConns'[s] = Cardinality(Holding(s)')
    BY <1>6, <2>2, <2>5, <2>6 DEF TypeInv
  <2>8. SlotsMatchSockets'
    BY <1>6, <2>2, <2>5, <2>7, SlotsByAllNext
  <2>9. Capped'
    <3>1. MaxTotal \in Nat /\ MaxRoom \in Nat
      BY DevServerAssumption
    <3> QED
      BY <2>5, <3>1 DEF SlotInv, Capped, TypeInv
  <2> QED
    BY <2>8, <2>9 DEF SlotInv
<1> QED
  BY <1>7, <1>8

(* A process without sockets holds no slots.                               *)
LEMMA NoSlots ==
  ASSUME \A c \in Conn : sock[c] = Off, totalConns = 0,
         roomConns = [r \in Room |-> 0]
  PROVE  SlotInv
<1>1. All = {} /\ \A r \in Room : Holding(r) = {}
  BY DevServerAssumption DEF All, Holding, Off
<1>2. SlotsMatchSockets
  BY <1>1, SlotsByAll, FS_EmptySet
<1>3. MaxTotal \in Nat /\ MaxRoom \in Nat
  BY DevServerAssumption
<1> QED
  BY <1>2, <1>3 DEF SlotInv, Capped

(* The same in the next state.                                             *)
LEMMA EndsSlots ==
  ASSUME ProcessEnds
  PROVE  SlotInv'
<1>1. All' = {} /\ \A r \in Room : Holding(r)' = {}
  BY DevServerAssumption DEF All, Holding, Off, ProcessEnds
<1>2. totalConns' = 0 /\ \A r \in Room : roomConns'[r] = 0
  BY DEF ProcessEnds
<1>3. SlotsMatchSockets'
  BY <1>1, <1>2, SlotsByAllNext, FS_EmptySet
<1>4. MaxTotal \in Nat /\ MaxRoom \in Nat
  BY DevServerAssumption
<1> QED
  BY <1>2, <1>3, <1>4 DEF SlotInv, Capped

(* SlotInv is inductive.                                                   *)
LEMMA SlotInductive == TypeInv /\ SlotInv /\ [Next]_vars => SlotInv'
<1> SUFFICES ASSUME TypeInv, SlotInv, [Next]_vars PROVE SlotInv'
  OBVIOUS
<1>1. ASSUME NEW c \in Conn, NEW r \in Room, Upgrade(c, r) PROVE SlotInv'
  BY <1>1, UpgradeSlots
<1>2. ASSUME NEW c \in Conn, JoinRoom(c) PROVE SlotInv'
  <2>1. sock[c].room \in Room
    BY <1>2 DEF JoinRoom, TypeInv, SockOK, Sock
  <2>2. registry[sock[c].room] \in Doc
    BY <1>2, <2>1 DEF JoinRoom, TypeInv
  <2>3. /\ Moves(c) /\ UNCHANGED slotVars /\ sock'[c].room = sock[c].room
        /\ ~sock'[c].released /\ ~sock[c].released
    BY <1>2, <2>2, AttachSock DEF JoinRoom
  <2>4. sock'[c].released = sock[c].released
    <3>1. sock'[c].released \in BOOLEAN /\ sock[c].released \in BOOLEAN
      BY <2>3 DEF Moves, SockOK, Sock, TypeInv
    <3> QED
      BY <2>3, <3>1
  <2> QED
    BY <2>3, <2>4, MoverKept
<1>3. ASSUME NEW c \in Conn, BindStateThrows(c) PROVE SlotInv'
  BY <1>3, EndsSlots DEF BindStateThrows
<1>4. ASSUME NEW c \in Conn, PingTimeout(c) PROVE SlotInv'
  BY <1>4, PingSock, MoverKept DEF PingTimeout
<1>5. ASSUME NEW c \in Conn, SocketEnds(c) PROVE SlotInv'
  BY <1>5, EndSock, MoverKept DEF SocketEnds
<1>6. ASSUME NEW c \in Conn, NEW d \in Doc, BindState(c, d) PROVE SlotInv'
  <2>1. /\ Moves(c) /\ UNCHANGED slotVars /\ sock'[c].room = sock[c].room
        /\ ~sock'[c].released /\ ~sock[c].released
    BY <1>6, AttachSock DEF BindState
  <2>2. sock'[c].released = sock[c].released
    <3>1. sock'[c].released \in BOOLEAN /\ sock[c].released \in BOOLEAN
      BY <2>1 DEF Moves, SockOK, Sock, TypeInv
    <3> QED
      BY <2>1, <3>1
  <2> QED
    BY <2>1, <2>2, MoverKept
<1>7. ASSUME NEW c \in Conn, NEW e \in Edit, Update(c, e) PROVE SlotInv'
  BY <1>7, SlotsKept DEF Update
<1>8. ASSUME NEW c \in Conn, NEW event \in CloseEvents, CloseEvent(c, event)
      PROVE SlotInv'
  BY <1>8, CloseSlots
<1>9. ASSUME NEW r \in Room, SaveTimer(r) PROVE SlotInv'
  BY <1>9, SlotsKept DEF SaveTimer
<1>10. ASSUME NEW r \in Room, KillInSave(r) PROVE SlotInv'
  BY <1>10, EndsSlots DEF KillInSave
<1>11. ASSUME Kill PROVE SlotInv'
  BY <1>11, EndsSlots DEF Kill
<1>12. ASSUME Start PROVE SlotInv'
  BY <1>12, SlotsKept DEF Start
<1>13. ASSUME UNCHANGED vars PROVE SlotInv'
  BY <1>13, SlotsKept DEF vars
<1> QED
  BY <1>1, <1>2, <1>3, <1>4, <1>5, <1>6, <1>7, <1>8, <1>9, <1>10, <1>11,
     <1>12, <1>13 DEF Next

(* SlotInv holds in every reachable state.                                 *)
LEMMA SlotsAlways == Spec => []SlotInv
<1>1. Init => SlotInv
  BY NoSlots DEF Init
<1> QED
  BY <1>1, SlotInductive, TypeAlways, PTL DEF Spec

(* The counters are the slots in use, whichever of a socket's events comes *)
(* first and however often they call release, for any number of sockets.   *)
THEOREM CountersExact == Spec => []SlotsMatchSockets
<1>1. SlotInv => SlotsMatchSockets
  BY DEF SlotInv
<1> QED
  BY <1>1, SlotsAlways, PTL

(* Every variable keeps its type: no counter ever exceeds the sockets.     *)
THEOREM DevServerTypes == Spec => []TypeOK
<1>1. TypeInv /\ SlotInv => TypeOK
  <2> SUFFICES ASSUME TypeInv, SlotInv PROVE TypeOK
    OBVIOUS
  <2>1. IsFiniteSet(Conn) /\ Cardinality(Conn) \in Nat
    BY DevServerAssumption, FS_CardinalityType
  <2>2. Cardinality(All) <= Cardinality(Conn) /\ Cardinality(All) \in Nat
    <3>1. All \subseteq Conn
      BY DEF All
    <3> QED
      BY <2>1, <3>1, FiniteSlots, FS_Subset, FS_CardinalityType
  <2>3. \A r \in Room : /\ Cardinality(Holding(r)) <= Cardinality(Conn)
                        /\ Cardinality(Holding(r)) \in Nat
    <3>1. \A r \in Room : Holding(r) \subseteq Conn
      BY DEF Holding
    <3> QED
      BY <2>1, <3>1, FiniteSlots, FS_Subset, FS_CardinalityType
  <2>4. totalConns \in 0 .. Cardinality(Conn)
    BY <2>1, <2>2, SlotsByAll DEF SlotInv
  <2>5. roomConns \in [Room -> 0 .. Cardinality(Conn)]
    <3>1. \A r \in Room : roomConns[r] \in 0 .. Cardinality(Conn)
      BY <2>1, <2>3, SlotsByAll DEF SlotInv
    <3> QED
      BY <3>1 DEF TypeInv
  <2> QED
    BY <2>4, <2>5 DEF TypeOK, TypeInv, Sock
<1> QED
  BY <1>1, SlotsAlways, TypeAlways, PTL

(* No room and no server ever has more sockets than its cap.               *)
THEOREM CapsKept == Spec => []CapsHold
<1>1. TypeInv /\ SlotInv => CapsHold
  <2> SUFFICES ASSUME TypeInv, SlotInv PROVE CapsHold
    OBVIOUS
  <2>1. \A r \in Room : Connected(r) \subseteq Holding(r)
    BY DEF Connected, Holding, TypeInv, SockOK
  <2>2. UNION {Connected(r) : r \in Room} \subseteq All
    BY <2>1, AllHolding
  <2>3. MaxTotal \in Nat /\ MaxRoom \in Nat
    BY DevServerAssumption
  <2>4. /\ Cardinality(UNION {Connected(r) : r \in Room}) <= Cardinality(All)
        /\ Cardinality(UNION {Connected(r) : r \in Room}) \in Nat
    BY <2>2, FiniteSlots, FS_Subset, FS_CardinalityType
  <2>5. \A r \in Room : /\ Cardinality(Connected(r)) <= Cardinality(Holding(r))
                        /\ Cardinality(Connected(r)) \in Nat
    BY <2>1, FiniteSlots, FS_Subset, FS_CardinalityType
  <2>6. totalConns = Cardinality(All) /\ totalConns <= MaxTotal /\ totalConns \in Int
    BY SlotsByAll DEF SlotInv, Capped, TypeInv
  <2>7. \A r \in Room : /\ roomConns[r] = Cardinality(Holding(r))
                        /\ roomConns[r] <= MaxRoom /\ roomConns[r] \in Nat
    BY SlotsByAll DEF SlotInv, Capped, TypeInv
  <2>8. Cardinality(UNION {Connected(r) : r \in Room}) <= MaxTotal
    BY <2>3, <2>4, <2>6
  <2>9. \A r \in Room : Cardinality(Connected(r)) <= MaxRoom
    BY <2>3, <2>5, <2>7
  <2> QED
    BY <2>8, <2>9 DEF CapsHold
<1> QED
  BY <1>1, SlotsAlways, TypeAlways, PTL

-----------------------------------------------------------------------------
(* Documents.                                                              *)

(* A peer y-websocket counts holds the room's current document.            *)
AttachInv == \A c \in Conn : sock[c].attached =>
  /\ sock[c].doc = registry[sock[c].room]
  /\ registry[sock[c].room] # NoDoc

DocInv == AttachInv /\ TimerHasCurrentDoc /\ LastCloseSaves /\ UnsavedHasTimer

(* A write to a room's file is read by no room with a file of its own but   *)
(* the room itself.                                                        *)
LEMMA WritesOwn ==
  ASSUME TypeInv, NEW r \in Room, NEW S \in {Torn} \cup SUBSET Edit,
         file' = [file EXCEPT ![FileOf[r]] = S]
  PROVE  /\ Snapshot(r)' = S
         /\ OnDisk(r)' = IF S = Torn THEN {} ELSE S
         /\ OwnFile \subseteq Room
         /\ \A s \in OwnFile \ {r} : /\ Snapshot(s)' = Snapshot(s)
                                     /\ OnDisk(s)' = OnDisk(s)
<1>1. Snapshot(r)' = S
  BY DevServerAssumption DEF TypeInv, Snapshot
<1>2. \A s \in OwnFile \ {r} : Snapshot(s)' = Snapshot(s)
  BY DevServerAssumption DEF TypeInv, Snapshot, OwnFile
<1>3. OwnFile \subseteq Room
  BY DEF OwnFile
<1> QED
  BY <1>1, <1>2, <1>3 DEF OnDisk

(* A counted peer has a room and a document.                               *)
LEMMA AttachedHas ==
  ASSUME TypeInv, NEW c \in Conn, sock[c].attached
  PROVE  sock[c].room \in Room /\ sock[c].doc \in Doc
BY DEF TypeInv, SockOK, Sock

(* Sockets that leave documents alone and gain no attachment.              *)
LEMMA AttachKept ==
  ASSUME TypeInv, AttachInv, NEW c \in Conn, Moves(c), registry' = registry,
         sock'[c].attached => /\ sock[c].attached
                              /\ sock'[c].room = sock[c].room
                              /\ sock'[c].doc = sock[c].doc
  PROVE  AttachInv'
BY DEF AttachInv, Moves

(* A step that changes no document keeps what is said of documents.        *)
LEMMA DocsKept ==
  ASSUME DocInv, UNCHANGED docVars
  PROVE  TimerHasCurrentDoc' /\ LastCloseSaves' /\ UnsavedHasTimer'
<1>1. TimerHasCurrentDoc'
  BY DEF DocInv, TimerHasCurrentDoc, docVars
<1>2. LastCloseSaves'
  BY DEF DocInv, LastCloseSaves, OnDisk, Snapshot, docVars
<1>3. UnsavedHasTimer'
  BY DEF DocInv, UnsavedHasTimer, OnDisk, Snapshot, docVars
<1> QED
  BY <1>1, <1>2, <1>3

(* A peer that leaves: the last one takes the room's document with it.     *)
LEMMA DetachDocs ==
  ASSUME TypeInv, DocInv, NEW c \in Conn, Detach(c), Moves(c), ~sock'[c].attached
  PROVE  DocInv'
<1>1. CASE sock[c].attached /\ LastPeer(c)
  <2>room. PICK r \in Room : r = sock[c].room
    BY <1>1, AttachedHas
  <2>doc. PICK d \in Doc : d = sock[c].doc
    BY <1>1, AttachedHas
  <2>1. registry[r] = d /\ content[d] \in SUBSET Edit
    BY <1>1, <2>room, <2>doc DEF DocInv, AttachInv, TypeInv
  <2>2. /\ registry' = [registry EXCEPT ![r] = NoDoc]
        /\ pending' = [pending EXCEPT ![r] = NoDoc]
        /\ file' = [file EXCEPT ![FileOf[r]] = content[d]]
        /\ content' = content /\ accepted' = accepted
    BY <1>1, <2>room, <2>doc DEF Detach, WriteState, ClearTimer
  <2>own. /\ OnDisk(r)' = content[d] /\ OwnFile \subseteq Room
          /\ \A s \in OwnFile \ {r} : OnDisk(s)' = OnDisk(s)
    BY <2>1, <2>2, WritesOwn, DevServerAssumption
  <2>3. registry'[r] = NoDoc /\ pending'[r] = NoDoc
    BY <2>2 DEF TypeInv
  <2>4. \A s \in Room \ {r} : /\ registry'[s] = registry[s]
                              /\ pending'[s] = pending[s]
    BY <2>2 DEF TypeInv
  <2>5. AttachInv'
    <3> SUFFICES ASSUME NEW o \in Conn, sock'[o].attached
                 PROVE  /\ sock'[o].doc = registry'[sock'[o].room]
                        /\ registry'[sock'[o].room] # NoDoc
      BY DEF AttachInv
    <3>1. o # c /\ sock'[o] = sock[o]
      BY DEF Moves
    <3>2. sock[o].attached /\ sock[o].room \in Room
      BY <3>1, AttachedHas
    <3>3. sock[o].doc # d
      BY <1>1, <2>doc, <3>1, <3>2 DEF LastPeer
    <3>4. sock[o].room # r
      BY <2>1, <3>2, <3>3 DEF DocInv, AttachInv
    <3> QED
      BY <2>4, <3>1, <3>2, <3>4 DEF DocInv, AttachInv
  <2>6. r \in OwnFile => accepted[r] \subseteq content[d]
    <3>1. registry[r] # NoDoc
      BY <2>1, DevServerAssumption
    <3> QED
      BY <2>1, <3>1 DEF DocInv, LastCloseSaves
  <2>7. TimerHasCurrentDoc'
    BY <2>3, <2>4 DEF DocInv, TimerHasCurrentDoc
  <2>8. LastCloseSaves'
    BY <2>2, <2>own, <2>3, <2>4, <2>6 DEF DocInv, LastCloseSaves
  <2>9. UnsavedHasTimer'
    BY <2>2, <2>own, <2>3, <2>4, <2>6 DEF DocInv, UnsavedHasTimer
  <2> QED
    BY <2>5, <2>7, <2>8, <2>9 DEF DocInv
<1>2. CASE ~(sock[c].attached /\ LastPeer(c))
  <2>1. UNCHANGED docVars
    BY <1>2 DEF Detach
  <2>2. AttachInv'
    BY <2>1, AttachKept DEF DocInv, docVars
  <2> QED
    BY <2>1, <2>2, DocsKept DEF DocInv
<1> QED
  BY <1>1, <1>2

(* A room's first peer loads the file into a document nobody uses.         *)
LEMMA BindDocs ==
  ASSUME TypeInv, DocInv, NEW c \in Conn, NEW d \in Doc, BindState(c, d)
  PROVE  DocInv'
<1>1. /\ Moves(c) /\ sock[c].room \in Room /\ sock'[c].room = sock[c].room
      /\ sock'[c].attached /\ sock'[c].doc = d
  BY AttachSock DEF BindState
<1>room. PICK r \in Room : r = sock[c].room
  BY <1>1
<1>2. /\ registry[r] = NoDoc /\ Snapshot(r) # Torn /\ Unused(d)
      /\ registry' = [registry EXCEPT ![r] = d]
      /\ content' = [content EXCEPT ![d] = OnDisk(r)]
      /\ pending' = pending /\ file' = file /\ accepted' = accepted
  BY <1>room DEF BindState, OnDisk
<1>disk. OwnFile \subseteq Room /\ \A s \in Room : OnDisk(s)' = OnDisk(s)
  BY <1>2 DEF OnDisk, Snapshot, OwnFile
<1>3. /\ registry'[r] = d /\ content'[d] = OnDisk(r) /\ d # NoDoc
      /\ pending[r] = NoDoc
      /\ r \in OwnFile => accepted[r] \subseteq OnDisk(r)
  <2>1. r \in OwnFile => accepted[r] \subseteq OnDisk(r)
    BY <1>2 DEF DocInv, LastCloseSaves
  <2>2. pending[r] = NoDoc
    BY <1>2 DEF DocInv, TimerHasCurrentDoc
  <2> QED
    BY <1>2, <2>1, <2>2, DevServerAssumption DEF TypeInv
<1>4. \A s \in Room \ {r} : registry'[s] = registry[s]
  BY <1>2 DEF TypeInv
<1>5. \A s \in Room : /\ registry[s] # NoDoc => content'[registry[s]] = content[registry[s]]
                      /\ pending[s] # NoDoc => content'[pending[s]] = content[pending[s]]
  BY <1>2 DEF Unused, TypeInv
<1>6. AttachInv'
  <2> SUFFICES ASSUME NEW o \in Conn, sock'[o].attached
               PROVE  /\ sock'[o].doc = registry'[sock'[o].room]
                      /\ registry'[sock'[o].room] # NoDoc
    BY DEF AttachInv
  <2>1. CASE o = c
    BY <1>1, <1>room, <1>3, <2>1
  <2>2. CASE o # c
    <3>1. sock'[o] = sock[o] /\ sock[o].attached /\ sock[o].room \in Room
      BY <1>1, <2>2, AttachedHas DEF Moves
    <3>2. sock[o].room # r
      BY <1>2, <3>1 DEF DocInv, AttachInv
    <3> QED
      BY <1>4, <3>1, <3>2 DEF DocInv, AttachInv
  <2> QED
    BY <2>1, <2>2
<1>7. TimerHasCurrentDoc'
  BY <1>2, <1>3, <1>4 DEF DocInv, TimerHasCurrentDoc
<1>8. LastCloseSaves'
  BY <1>2, <1>disk, <1>3, <1>4, <1>5 DEF DocInv, LastCloseSaves
<1>9. UnsavedHasTimer'
  BY <1>2, <1>disk, <1>3, <1>5 DEF DocInv, UnsavedHasTimer
<1> QED
  BY <1>6, <1>7, <1>8, <1>9 DEF DocInv

(* An edit that reaches the room's document starts its timer; one that     *)
(* reaches a document the room has left behind is not accepted.            *)
LEMMA UpdateDocs ==
  ASSUME TypeInv, DocInv, NEW c \in Conn, NEW e \in Edit, Update(c, e)
  PROVE  DocInv'
<1>1. sock[c].room \in Room /\ sock[c].doc \in Doc
  BY DEF Update, TypeInv, SockOK, Sock
<1>room. PICK r \in Room : r = sock[c].room
  BY <1>1
<1>doc. PICK d \in Doc : d = sock[c].doc
  BY <1>1
<1>2. /\ content' = [content EXCEPT ![d] = @ \cup {e}]
      /\ sock' = sock /\ registry' = registry /\ file' = file
      /\ IF registry[r] = d
           THEN /\ pending' = [pending EXCEPT ![r] = d]
                /\ accepted' = [accepted EXCEPT ![r] = @ \cup {e}]
           ELSE pending' = pending /\ accepted' = accepted
  BY <1>room, <1>doc DEF Update
<1>3. \A x \in Doc : content[x] \subseteq content'[x]
  BY <1>2 DEF TypeInv
<1>disk. OwnFile \subseteq Room /\ \A s \in Room : OnDisk(s)' = OnDisk(s)
  BY <1>2 DEF OnDisk, Snapshot, OwnFile
<1>4. AttachInv'
  BY <1>2 DEF DocInv, AttachInv
<1>5. CASE registry[r] = d
  <2>1. /\ pending'[r] = d /\ accepted'[r] = accepted[r] \cup {e}
        /\ content'[d] = content[d] \cup {e} /\ d # NoDoc
    BY <1>2, <1>5, DevServerAssumption DEF TypeInv
  <2>2. \A s \in Room \ {r} : pending'[s] = pending[s] /\ accepted'[s] = accepted[s]
    BY <1>2, <1>5 DEF TypeInv
  <2>3. r \in OwnFile => accepted'[r] \subseteq content'[d]
    BY <1>5, <2>1 DEF DocInv, LastCloseSaves
  <2>4. TimerHasCurrentDoc'
    BY <1>2, <1>5, <2>1, <2>2 DEF DocInv, TimerHasCurrentDoc
  <2>5. LastCloseSaves'
    <3> SUFFICES ASSUME NEW s \in OwnFile \ {r}
                 PROVE  accepted'[s] \subseteq
                          IF registry[s] # NoDoc THEN content'[registry[s]]
                          ELSE OnDisk(s)
      BY <1>2, <1>disk, <1>5, <2>1, <2>3 DEF LastCloseSaves
    <3>1. registry[s] # NoDoc => content[registry[s]] \subseteq content'[registry[s]]
      BY <1>disk, <1>3 DEF TypeInv
    <3> QED
      BY <1>disk, <2>2, <3>1 DEF DocInv, LastCloseSaves
  <2>6. UnsavedHasTimer'
    <3>1. \A s \in Room \ {r} : pending[s] # NoDoc =>
            content[pending[s]] \subseteq content'[pending[s]]
      BY <1>3 DEF TypeInv
    <3> QED
      BY <1>2, <1>disk, <2>1, <2>2, <2>3, <3>1 DEF DocInv, UnsavedHasTimer
  <2> QED
    BY <1>4, <2>4, <2>5, <2>6 DEF DocInv
<1>6. CASE registry[r] # d
  <2>1. pending' = pending /\ accepted' = accepted
    BY <1>2, <1>6
  <2>2. \A s \in Room :
          /\ registry[s] # NoDoc => content[registry[s]] \subseteq content'[registry[s]]
          /\ pending[s] # NoDoc => content[pending[s]] \subseteq content'[pending[s]]
    BY <1>3 DEF TypeInv
  <2>3. TimerHasCurrentDoc'
    BY <1>2, <2>1 DEF DocInv, TimerHasCurrentDoc
  <2>4. LastCloseSaves'
    BY <1>2, <1>disk, <2>1, <2>2 DEF DocInv, LastCloseSaves
  <2>5. UnsavedHasTimer'
    BY <1>2, <1>disk, <2>1, <2>2 DEF DocInv, UnsavedHasTimer
  <2> QED
    BY <1>4, <2>3, <2>4, <2>5 DEF DocInv
<1> QED
  BY <1>5, <1>6

(* The timer saves the room's current document.                            *)
LEMMA TimerDocs ==
  ASSUME TypeInv, DocInv, NEW r \in Room, SaveTimer(r)
  PROVE  DocInv'
<1>1. /\ pending[r] \in Doc /\ pending[r] = registry[r] /\ pending[r] # NoDoc
      /\ content[pending[r]] \in SUBSET Edit
  BY DEF SaveTimer, TypeInv, DocInv, TimerHasCurrentDoc
<1>2. /\ pending' = [pending EXCEPT ![r] = NoDoc]
      /\ file' = [file EXCEPT ![FileOf[r]] = content[pending[r]]]
      /\ sock' = sock /\ registry' = registry /\ content' = content
      /\ accepted' = accepted
  BY DEF SaveTimer
<1>own. /\ OnDisk(r)' = content[pending[r]] /\ OwnFile \subseteq Room
        /\ \A s \in OwnFile \ {r} : OnDisk(s)' = OnDisk(s)
  <2>1. PICK S \in SUBSET Edit : S = content[pending[r]]
    BY <1>1
  <2>2. S # Torn /\ file' = [file EXCEPT ![FileOf[r]] = S]
    BY <1>2, <2>1, DevServerAssumption
  <2> QED
    BY <2>1, <2>2, WritesOwn
<1>3. r \in OwnFile => accepted[r] \subseteq OnDisk(r)'
  <2>1. r \in OwnFile => accepted[r] \subseteq content[registry[r]]
    BY <1>1 DEF DocInv, LastCloseSaves
  <2> QED
    BY <1>1, <1>own, <2>1
<1>4. pending'[r] = NoDoc /\ \A s \in Room \ {r} : pending'[s] = pending[s]
  BY <1>2 DEF TypeInv
<1>5. AttachInv'
  BY <1>2 DEF DocInv, AttachInv
<1>6. TimerHasCurrentDoc'
  BY <1>2, <1>4 DEF DocInv, TimerHasCurrentDoc
<1>7. LastCloseSaves'
  BY <1>1, <1>2, <1>own DEF DocInv, LastCloseSaves
<1>8. UnsavedHasTimer'
  BY <1>2, <1>own, <1>3, <1>4 DEF DocInv, UnsavedHasTimer
<1> QED
  BY <1>5, <1>6, <1>7, <1>8 DEF DocInv

(* The next life of the process starts with what is on disk.               *)
LEMMA EndsDocs ==
  ASSUME ProcessEnds
  PROVE  DocInv'
<1>1. AttachInv'
  BY DEF ProcessEnds, AttachInv, Off
<1>2. \A r \in Room :
        /\ registry'[r] = NoDoc /\ pending'[r] = NoDoc
        /\ accepted'[r] \subseteq OnDisk(r)'
  BY DEF ProcessEnds
<1>own. OwnFile \subseteq Room
  BY DEF OwnFile
<1>3. TimerHasCurrentDoc' /\ LastCloseSaves' /\ UnsavedHasTimer'
  BY <1>2, <1>own DEF TimerHasCurrentDoc, LastCloseSaves, UnsavedHasTimer
<1> QED
  BY <1>1, <1>3 DEF DocInv

(* DocInv is inductive.                                                    *)
LEMMA DocInductive == TypeInv /\ DocInv /\ [Next]_vars => DocInv'
<1> SUFFICES ASSUME TypeInv, DocInv, [Next]_vars PROVE DocInv'
  OBVIOUS
<1>0. ASSUME UNCHANGED docVars, sock' = sock PROVE DocInv'
  <2>1. AttachInv'
    BY <1>0 DEF DocInv, AttachInv, docVars
  <2> QED
    BY <1>0, <2>1, DocsKept DEF DocInv
<1>1. ASSUME NEW c \in Conn, NEW r \in Room, Upgrade(c, r) PROVE DocInv'
  <2>1. AttachInv'
    BY <1>1, UpgradeSock, AttachKept DEF DocInv, Upgrade, docVars
  <2> QED
    BY <1>1, <2>1, DocsKept DEF DocInv, Upgrade
<1>2. ASSUME NEW c \in Conn, JoinRoom(c) PROVE DocInv'
  <2>1. sock[c].room \in Room
    BY <1>2 DEF JoinRoom, TypeInv, SockOK, Sock
  <2>2. registry[sock[c].room] \in Doc
    BY <1>2, <2>1 DEF JoinRoom, TypeInv
  <2>3. /\ Moves(c) /\ sock'[c].room = sock[c].room
        /\ sock'[c].doc = registry[sock[c].room]
    BY <1>2, <2>2, AttachSock DEF JoinRoom
  <2>4. registry' = registry /\ UNCHANGED docVars
    BY <1>2 DEF JoinRoom, docVars
  <2>5. AttachInv'
    <3>1. registry[sock[c].room] # NoDoc
      BY <2>2, DevServerAssumption
    <3> QED
      BY <2>3, <2>4, <3>1 DEF DocInv, AttachInv, Moves
  <2> QED
    BY <2>4, <2>5, DocsKept DEF DocInv
<1>3. ASSUME NEW c \in Conn, BindStateThrows(c) PROVE DocInv'
  BY <1>3, EndsDocs DEF BindStateThrows
<1>4. ASSUME NEW c \in Conn, PingTimeout(c) PROVE DocInv'
  BY <1>4, PingSock, DetachDocs DEF PingTimeout
<1>5. ASSUME NEW c \in Conn, SocketEnds(c) PROVE DocInv'
  <2>1. UNCHANGED docVars
    BY <1>5 DEF SocketEnds
  <2>2. AttachInv'
    BY <1>5, <2>1, EndSock, AttachKept DEF DocInv, docVars
  <2> QED
    BY <2>1, <2>2, DocsKept DEF DocInv
<1>6. ASSUME NEW c \in Conn, NEW d \in Doc, BindState(c, d) PROVE DocInv'
  BY <1>6, BindDocs
<1>7. ASSUME NEW c \in Conn, NEW e \in Edit, Update(c, e) PROVE DocInv'
  BY <1>7, UpdateDocs
<1>8. ASSUME NEW c \in Conn, NEW event \in CloseEvents, CloseEvent(c, event)
      PROVE DocInv'
  <2>1. /\ Moves(c)
        /\ \/ ~sock'[c].attached
           \/ /\ sock[c].attached /\ event # "conn close"
              /\ sock'[c].room = sock[c].room /\ sock'[c].doc = sock[c].doc
    <3>1. Moves(c)
      BY <1>8, CloseSock
    <3>2. ~Off.attached
      BY DEF Off
    <3>3. \/ sock'[c] = Off
          \/ /\ sock'[c].room = sock[c].room /\ sock'[c].doc = sock[c].doc
             /\ sock'[c].attached <=> sock[c].attached /\ event # "conn close"
      BY <1>8, CloseSock, Zenon
    <3> QED
      BY <3>1, <3>2, <3>3, Zenon
  <2>2. CASE event = "conn close"
    BY <1>8, <2>1, <2>2, DetachDocs DEF CloseEvent
  <2>3. CASE event # "conn close"
    <3>1. UNCHANGED docVars
      BY <1>8, <2>3 DEF CloseEvent
    <3>2. AttachInv'
      BY <2>1, <3>1, AttachKept DEF DocInv, docVars
    <3> QED
      BY <3>1, <3>2, DocsKept DEF DocInv
  <2> QED
    BY <2>2, <2>3
<1>9. ASSUME NEW r \in Room, SaveTimer(r) PROVE DocInv'
  BY <1>9, TimerDocs
<1>10. ASSUME NEW r \in Room, KillInSave(r) PROVE DocInv'
  BY <1>10, EndsDocs DEF KillInSave
<1>11. ASSUME Kill PROVE DocInv'
  BY <1>11, EndsDocs DEF Kill
<1>12. ASSUME Start PROVE DocInv'
  BY <1>0, <1>12 DEF Start
<1>13. ASSUME UNCHANGED vars PROVE DocInv'
  BY <1>0, <1>13 DEF vars
<1> QED
  BY <1>1, <1>2, <1>3, <1>4, <1>5, <1>6, <1>7, <1>8, <1>9, <1>10, <1>11,
     <1>12, <1>13 DEF Next

(* DocInv holds in every reachable state.                                  *)
LEMMA DocsAlways == Spec => []DocInv
<1>1. Init => DocInv
  BY DevServerAssumption DEF Init, DocInv, AttachInv, Off, TimerHasCurrentDoc,
     LastCloseSaves, UnsavedHasTimer, OwnFile
<1> QED
  BY <1>1, DocInductive, TypeAlways, PTL DEF Spec

(* No save timer ever holds a document its room has left behind.           *)
THEOREM TimersCurrent == Spec => []TimerHasCurrentDoc
<1>1. DocInv => TimerHasCurrentDoc
  BY DEF DocInv
<1> QED
  BY <1>1, DocsAlways, PTL

(* For any rooms, whichever of them share a file: what the document of a   *)
(* room with a file of its own accepted is in it, or on disk once it is    *)
(* gone (index.mjs:168-203).                                               *)
THEOREM LastCloseKeeps == Spec => []LastCloseSaves
<1>1. DocInv => LastCloseSaves
  BY DEF DocInv
<1> QED
  BY <1>1, DocsAlways, PTL

(* For any rooms, whichever of them share a file: in a room with a file of *)
(* its own an accepted edit that is not on disk has a running timer        *)
(* (index.mjs:148-203).                                                    *)
THEOREM UnsavedTimed == Spec => []UnsavedHasTimer
<1>1. DocInv => UnsavedHasTimer
  BY DEF DocInv
<1> QED
  BY <1>1, DocsAlways, PTL

-----------------------------------------------------------------------------
(* Files.                                                                  *)

(* No document is registered for two rooms, nor held by a socket of        *)
(* another room; what is on disk of a room with a file of its own is in    *)
(* the registered document.                                                *)
RoomsApart == \A r, s \in Room : registry[r] # NoDoc /\ registry[r] = registry[s] => r = s
SocketsApart == \A c \in Conn, r \in Room :
  registry[r] # NoDoc /\ sock[c].doc = registry[r] => sock[c].room = r
FileInDoc == \A r \in OwnFile : registry[r] # NoDoc =>
  OnDisk(r) \subseteq content[registry[r]]

FileInv == RoomsApart /\ SocketsApart /\ FileInDoc

(* Steps that open and close no document and write no file.                *)
LEMMA FilesKept ==
  ASSUME TypeInv, FileInv, registry' = registry, file' = file,
         \A d \in Doc : content[d] \subseteq content'[d],
         \A c \in Conn : \/ sock'[c].doc = NoDoc
                         \/ sock'[c].doc = sock[c].doc /\ sock'[c].room = sock[c].room
  PROVE  FileInv'
<1>1. RoomsApart'
  BY DEF FileInv, RoomsApart
<1>2. SocketsApart'
  BY DEF FileInv, SocketsApart
<1>3. \A r \in Room : registry[r] # NoDoc => registry[r] \in Doc
  BY DEF TypeInv
<1>4. FileInDoc'
  <2>1. OwnFile \subseteq Room /\ \A r \in Room : OnDisk(r)' = OnDisk(r)
    BY DEF OnDisk, Snapshot, OwnFile
  <2> QED
    BY <1>3, <2>1 DEF FileInv, FileInDoc
<1> QED
  BY <1>1, <1>2, <1>4 DEF FileInv

(* A peer that leaves, with its room's document if it is the last.         *)
LEMMA DetachFiles ==
  ASSUME TypeInv, DocInv, FileInv, NEW c \in Conn, Detach(c),
         \A o \in Conn : \/ sock'[o].doc = NoDoc
                         \/ sock'[o].doc = sock[o].doc /\ sock'[o].room = sock[o].room
  PROVE  FileInv'
<1>1. CASE sock[c].attached /\ LastPeer(c)
  <2>1. sock[c].room \in Room /\ sock[c].doc \in Doc
    BY <1>1, AttachedHas
  <2>2. /\ registry' = [registry EXCEPT ![sock[c].room] = NoDoc]
        /\ file' = [file EXCEPT ![FileOf[sock[c].room]] = content[sock[c].doc]]
        /\ content' = content
    BY <1>1 DEF Detach, WriteState
  <2>own. /\ OwnFile \subseteq Room
          /\ \A s \in OwnFile \ {sock[c].room} : OnDisk(s)' = OnDisk(s)
    <3>1. content[sock[c].doc] \in SUBSET Edit
      BY <2>1 DEF TypeInv
    <3> QED
      BY <2>1, <2>2, <3>1, WritesOwn
  <2>3. \A r \in Room : registry'[r] # NoDoc =>
          r # sock[c].room /\ registry'[r] = registry[r]
    BY <2>1, <2>2 DEF TypeInv
  <2> QED
    BY <2>2, <2>own, <2>3 DEF FileInv, RoomsApart, SocketsApart, FileInDoc
<1>2. CASE ~(sock[c].attached /\ LastPeer(c))
  <2>1. UNCHANGED docVars
    BY <1>2 DEF Detach
  <2> QED
    BY <2>1, FilesKept DEF docVars
<1> QED
  BY <1>1, <1>2

(* A document is registered for the first time, with what the file holds.  *)
LEMMA BindFiles ==
  ASSUME TypeInv, FileInv, NEW c \in Conn, NEW d \in Doc, BindState(c, d)
  PROVE  FileInv'
<1>1. /\ Moves(c) /\ sock[c].room \in Room /\ sock'[c].room = sock[c].room
      /\ sock'[c].doc = d
  BY AttachSock DEF BindState
<1>room. PICK r \in Room : r = sock[c].room
  BY <1>1
<1>2. /\ Unused(d) /\ file' = file
      /\ registry' = [registry EXCEPT ![r] = d]
      /\ content' = [content EXCEPT ![d] = OnDisk(r)]
  BY <1>room DEF BindState, OnDisk
<1>disk. OwnFile \subseteq Room /\ \A s \in Room : OnDisk(s)' = OnDisk(s)
  BY <1>2 DEF OnDisk, Snapshot, OwnFile
<1>3. registry'[r] = d /\ content'[d] = OnDisk(r)
  BY <1>2 DEF TypeInv
<1>4. \A s \in Room \ {r} : /\ registry'[s] = registry[s] /\ registry[s] # d
                            /\ registry[s] # NoDoc =>
                                 content'[registry[s]] = content[registry[s]]
  BY <1>2 DEF TypeInv, Unused
<1>5. \A o \in Conn \ {c} : sock'[o] = sock[o] /\ sock[o].doc # d
  BY <1>1, <1>2 DEF Moves, Unused
<1>6. RoomsApart'
  BY <1>3, <1>4 DEF FileInv, RoomsApart
<1>7. SocketsApart'
  BY <1>1, <1>room, <1>3, <1>4, <1>5 DEF FileInv, SocketsApart
<1>8. FileInDoc'
  BY <1>disk, <1>3, <1>4 DEF FileInv, FileInDoc
<1> QED
  BY <1>6, <1>7, <1>8 DEF FileInv

(* The timer writes what the registered document holds.                    *)
LEMMA TimerFiles ==
  ASSUME TypeInv, DocInv, FileInv, NEW r \in Room, SaveTimer(r)
  PROVE  FileInv'
<1>1. /\ pending[r] \in Doc /\ pending[r] = registry[r]
      /\ content[pending[r]] \in SUBSET Edit
  BY DEF SaveTimer, TypeInv, DocInv, TimerHasCurrentDoc
<1>2. /\ file' = [file EXCEPT ![FileOf[r]] = content[pending[r]]]
      /\ sock' = sock /\ registry' = registry /\ content' = content
  BY DEF SaveTimer
<1>3. /\ OnDisk(r)' = content[registry[r]]
      /\ \A s \in OwnFile \ {r} : OnDisk(s)' = OnDisk(s)
  <2>1. PICK S \in SUBSET Edit : S = content[pending[r]]
    BY <1>1
  <2>2. S # Torn /\ file' = [file EXCEPT ![FileOf[r]] = S]
    BY <1>2, <2>1, DevServerAssumption
  <2>3. OnDisk(r)' = S /\ \A s \in OwnFile \ {r} : OnDisk(s)' = OnDisk(s)
    BY <2>2, WritesOwn
  <2> QED
    BY <1>1, <2>1, <2>3
<1> QED
  BY <1>2, <1>3 DEF FileInv, RoomsApart, SocketsApart, FileInDoc

(* FileInv is inductive.                                                   *)
LEMMA FileInductive == TypeInv /\ DocInv /\ FileInv /\ [Next]_vars => FileInv'
<1> SUFFICES ASSUME TypeInv, DocInv, FileInv, [Next]_vars PROVE FileInv'
  OBVIOUS
<1>1. ASSUME NEW c \in Conn, NEW r \in Room, Upgrade(c, r) PROVE FileInv'
  <2>1. sock'[c].doc = NoDoc /\ \A o \in Conn \ {c} : sock'[o] = sock[o]
    BY <1>1 DEF Upgrade, Off, TypeInv
  <2>2. UNCHANGED docVars
    BY <1>1 DEF Upgrade
  <2> QED
    BY <2>1, <2>2, FilesKept DEF docVars
<1>2. ASSUME NEW c \in Conn, JoinRoom(c) PROVE FileInv'
  <2>1. sock[c].room \in Room
    BY <1>2 DEF JoinRoom, TypeInv, SockOK, Sock
  <2>2. registry[sock[c].room] \in Doc
    BY <1>2, <2>1 DEF JoinRoom, TypeInv
  <2>3. /\ Moves(c) /\ sock'[c].room = sock[c].room
        /\ sock'[c].doc = registry[sock[c].room]
    BY <1>2, <2>2, AttachSock DEF JoinRoom
  <2>4. UNCHANGED docVars
    BY <1>2 DEF JoinRoom
  <2>5. SocketsApart'
    BY <2>1, <2>3, <2>4 DEF FileInv, RoomsApart, SocketsApart, Moves, docVars
  <2> QED
    BY <2>4, <2>5 DEF FileInv, RoomsApart, FileInDoc, OnDisk, Snapshot, docVars
<1>3. ASSUME ProcessEnds PROVE FileInv'
  BY <1>3 DEF ProcessEnds, FileInv, RoomsApart, SocketsApart, FileInDoc, OwnFile
<1>4. ASSUME NEW c \in Conn, PingTimeout(c) PROVE FileInv'
  <2>1. /\ sock'[c].doc = sock[c].doc /\ sock'[c].room = sock[c].room
        /\ \A o \in Conn \ {c} : sock'[o] = sock[o]
    BY <1>4 DEF PingTimeout, TypeInv, Sock
  <2> QED
    BY <1>4, <2>1, DetachFiles DEF PingTimeout
<1>5. ASSUME NEW c \in Conn, SocketEnds(c) PROVE FileInv'
  <2>1. UNCHANGED docVars
    BY <1>5 DEF SocketEnds
  <2> QED
    BY <1>5, <2>1, EndSock, FilesKept DEF Moves, docVars
<1>6. ASSUME NEW c \in Conn, NEW d \in Doc, BindState(c, d) PROVE FileInv'
  BY <1>6, BindFiles
<1>7. ASSUME NEW c \in Conn, NEW e \in Edit, Update(c, e) PROVE FileInv'
  <2>1. /\ sock' = sock /\ registry' = registry /\ file' = file
        /\ \A d \in Doc : content[d] \subseteq content'[d]
    BY <1>7 DEF Update, TypeInv
  <2> QED
    BY <2>1, FilesKept
<1>8. ASSUME NEW c \in Conn, NEW event \in CloseEvents, CloseEvent(c, event)
      PROVE FileInv'
  <2>1. \A o \in Conn : \/ sock'[o].doc = NoDoc
                        \/ sock'[o].doc = sock[o].doc /\ sock'[o].room = sock[o].room
    <3>1. \/ sock'[c] = Off
          \/ sock'[c].doc = sock[c].doc /\ sock'[c].room = sock[c].room
      BY <1>8, CloseSock, Zenon
    <3>2. \A o \in Conn \ {c} : sock'[o] = sock[o]
      BY <1>8, CloseSock, Zenon DEF Moves
    <3>3. Off.doc = NoDoc
      BY DEF Off
    <3> QED
      BY <3>1, <3>2, <3>3
  <2>2. CASE event = "conn close"
    BY <1>8, <2>1, <2>2, DetachFiles DEF CloseEvent
  <2>3. CASE event # "conn close"
    <3>1. UNCHANGED docVars
      BY <1>8, <2>3 DEF CloseEvent
    <3> QED
      BY <2>1, <3>1, FilesKept DEF docVars
  <2> QED
    BY <2>2, <2>3
<1>9. ASSUME NEW r \in Room, SaveTimer(r) PROVE FileInv'
  BY <1>9, TimerFiles
<1>10. ASSUME Start \/ UNCHANGED vars PROVE FileInv'
  <2>1. UNCHANGED docVars /\ sock' = sock
    BY <1>10 DEF Start, vars
  <2> QED
    BY <2>1, FilesKept DEF docVars
<1> QED
  BY <1>1, <1>2, <1>3, <1>4, <1>5, <1>6, <1>7, <1>8, <1>9, <1>10
     DEF Next, BindStateThrows, KillInSave, Kill

(* FileInv holds in every reachable state.                                 *)
LEMMA FilesAlways == Spec => []FileInv
<1>1. Init => FileInv
  BY DEF Init, FileInv, RoomsApart, SocketsApart, FileInDoc, OwnFile, Off
<1> QED
  BY <1>1, FileInductive, DocsAlways, TypeAlways, PTL DEF Spec
-----------------------------------------------------------------------------
(* The dev server's rooms are the abstract ones.                           *)

(* What a step that touches neither the registry, nor a registered         *)
(* document, nor a file shows of the rooms: nothing.                       *)
LEMMA RoomsKept ==
  ASSUME registry' = registry, file' = file,
         \A r \in OwnFile : registry[r] # NoDoc =>
           content'[registry[r]] = content[registry[r]]
  PROVE  UNCHANGED Rooms!vars
<1>1. \A r \in OwnFile : Live(r)' = Live(r) /\ OnDisk(r)' = OnDisk(r)
  BY DEF Live, OnDisk, Snapshot
<1> QED
  BY <1>1 DEF Rooms!vars

(* The first peer finds what was on disk.                                  *)
LEMMA BindIsJoin ==
  ASSUME TypeInv, NEW c \in Conn, NEW d \in Doc, BindState(c, d)
  PROVE  (\E r \in OwnFile : Rooms!Join(r)) \/ UNCHANGED Rooms!vars
<1>1. PICK r \in Room : r = sock[c].room
  BY AttachSock DEF BindState
<1>2. /\ Unused(d) /\ file' = file /\ registry[r] = NoDoc
      /\ registry' = [registry EXCEPT ![r] = d]
      /\ content' = [content EXCEPT ![d] = OnDisk(r)]
  BY <1>1 DEF BindState, OnDisk
<1>3. OwnFile \subseteq Room
  BY DEF OwnFile
<1>4. /\ Live(r) = NoDoc /\ Live(r)' = OnDisk(r)
      /\ \A q \in OwnFile \ {r} : Live(q)' = Live(q)
  BY <1>2, <1>3, DevServerAssumption DEF TypeInv, Live, Unused
<1>5. \A q \in OwnFile : OnDisk(q)' = OnDisk(q)
  BY <1>2 DEF OnDisk, Snapshot
<1>6. CASE r \in OwnFile
  BY <1>4, <1>5, <1>6 DEF Rooms!Join, Rooms!MoreRaces
<1>7. CASE r \notin OwnFile
  BY <1>4, <1>5, <1>7 DEF Rooms!vars
<1> QED
  BY <1>6, <1>7

(* An update of the room's document is seen by every peer; one of a        *)
(* document the room has left behind is seen by nobody.                    *)
LEMMA UpdateIsWrite ==
  ASSUME TypeInv, FileInv, NEW c \in Conn, NEW e \in Edit, Update(c, e)
  PROVE  (\E r \in OwnFile : Rooms!Write(r, e)) \/ UNCHANGED Rooms!vars
<1> DEFINE d == sock[c].doc
<1>1. /\ registry' = registry /\ file' = file
      /\ content' = [content EXCEPT ![d] = @ \cup {e}]
  BY DEF Update
<1>2. OwnFile \subseteq Room
  BY DEF OwnFile
<1>3. CASE \E r \in OwnFile : registry[r] # NoDoc /\ registry[r] = d
  <2>1. PICK r \in OwnFile : registry[r] # NoDoc /\ registry[r] = d
    BY <1>3
  <2>2. d \in Doc /\ content[d] \in SUBSET Edit /\ content'[d] = content[d] \cup {e}
    BY <1>1, <1>2, <2>1 DEF TypeInv
  <2>3. Live(r) # NoDoc /\ Live(r)' = Live(r) \cup {e}
    BY <1>1, <2>1, <2>2, DevServerAssumption DEF Live
  <2>4. \A q \in OwnFile \ {r} : Live(q)' = Live(q)
    BY <1>1, <1>2, <2>1 DEF Live, FileInv, RoomsApart, TypeInv
  <2>5. \A q \in OwnFile : OnDisk(q)' = OnDisk(q)
    BY <1>1 DEF OnDisk, Snapshot
  <2> QED
    BY <2>1, <2>3, <2>4, <2>5 DEF Rooms!Write
<1>4. CASE \A r \in OwnFile : registry[r] # NoDoc => registry[r] # d
  <2>1. \A r \in OwnFile : registry[r] # NoDoc =>
          content'[registry[r]] = content[registry[r]]
    BY <1>1, <1>2, <1>4 DEF TypeInv
  <2> QED
    BY <1>1, <2>1, RoomsKept
<1> QED
  BY <1>3, <1>4

(* The save timer makes all of the live document durable; that of a room   *)
(* with a shared file writes no other room's file.                         *)
LEMMA TimerIsPersist ==
  ASSUME TypeInv, DocInv, FileInv, NEW r \in Room, SaveTimer(r)
  PROVE  (r \in OwnFile /\ Rooms!Persist(r)) \/ UNCHANGED Rooms!vars
<1>1. /\ pending[r] \in Doc /\ pending[r] = registry[r]
      /\ content[pending[r]] \in SUBSET Edit
  BY DEF SaveTimer, TypeInv, DocInv, TimerHasCurrentDoc
<1>2. /\ file' = [file EXCEPT ![FileOf[r]] = content[pending[r]]]
      /\ registry' = registry /\ content' = content
  BY DEF SaveTimer
<1>3. /\ Live(r) = content[pending[r]] /\ Live(r) # NoDoc /\ Live(r) # Torn
      /\ Live(r) \in SUBSET Edit
  BY <1>1, DevServerAssumption DEF Live
<1>4. /\ OnDisk(r)' = Live(r)
      /\ \A q \in OwnFile \ {r} : OnDisk(q)' = OnDisk(q)
  BY <1>2, <1>3, WritesOwn
<1>5. \A q \in OwnFile \cup {r} : Live(q)' = Live(q)
  BY <1>2 DEF Live
<1>6. CASE r \in OwnFile
  <2>1. OnDisk(r) \subseteq Live(r)
    BY <1>1, <1>3, <1>6, DevServerAssumption DEF FileInv, FileInDoc
  <2> QED
    BY <1>3, <1>4, <1>5, <1>6, <2>1 DEF Rooms!Persist
<1>7. CASE r \notin OwnFile
  BY <1>4, <1>5, <1>7 DEF Rooms!vars
<1> QED
  BY <1>6, <1>7

(* A peer that leaves closes the room if it is the last.                   *)
LEMMA DetachIsClose ==
  ASSUME TypeInv, DocInv, FileInv, NEW c \in Conn, Detach(c)
  PROVE  (\E r \in OwnFile : Rooms!Close(r)) \/ UNCHANGED Rooms!vars
<1>1. CASE sock[c].attached /\ LastPeer(c)
  <2>1. sock[c].room \in Room /\ sock[c].doc \in Doc
    BY <1>1, AttachedHas
  <2>room. PICK r \in Room : r = sock[c].room
    BY <2>1
  <2>2. /\ registry' = [registry EXCEPT ![r] = NoDoc]
        /\ file' = [file EXCEPT ![FileOf[r]] = content[sock[c].doc]]
        /\ content' = content
    BY <1>1, <2>room DEF Detach, WriteState
  <2>3. registry[r] = sock[c].doc /\ registry[r] # NoDoc
    BY <1>1, <2>1, <2>room, DevServerAssumption DEF DocInv, AttachInv
  <2>4. /\ Live(r) = content[sock[c].doc] /\ Live(r) \in SUBSET Edit
        /\ Live(r) # NoDoc /\ Live(r) # Torn
    BY <2>1, <2>3, DevServerAssumption DEF Live, TypeInv
  <2>5. /\ OnDisk(r)' = Live(r) /\ OwnFile \subseteq Room
        /\ \A q \in OwnFile \ {r} : OnDisk(q)' = OnDisk(q)
    BY <2>2, <2>4, WritesOwn
  <2>6. Live(r)' = NoDoc
    BY <2>2 DEF TypeInv, Live
  <2>7. \A q \in OwnFile \ {r} : Live(q)' = Live(q)
    BY <2>2, <2>5 DEF TypeInv, Live
  <2>8. CASE r \in OwnFile
    <3>1. OnDisk(r) \subseteq Live(r)
      BY <2>3, <2>4, <2>8 DEF FileInv, FileInDoc
    <3> QED
      BY <2>4, <2>5, <2>6, <2>7, <2>8, <3>1 DEF Rooms!Close
  <2>9. CASE r \notin OwnFile
    BY <2>5, <2>7, <2>9 DEF Rooms!vars
  <2> QED
    BY <2>8, <2>9
<1>2. CASE ~(sock[c].attached /\ LastPeer(c))
  <2>1. UNCHANGED docVars
    BY <1>2 DEF Detach
  <2> QED
    BY <2>1, RoomsKept DEF docVars
<1> QED
  BY <1>1, <1>2

(* The process ends: every live document is gone.                          *)
LEMMA EndsForget ==
  ASSUME ProcessEnds
  PROVE  \A r \in OwnFile : Live(r)' = NoDoc
<1>1. \A r \in Room : registry'[r] = NoDoc
  BY DEF ProcessEnds
<1> QED
  BY <1>1 DEF Live, OwnFile

(* It ends in the middle of a save: one file is torn.                      *)
LEMMA KillIsTear ==
  ASSUME TypeInv, NEW r \in Room, KillInSave(r)
  PROVE  Rooms!End \/ (r \in OwnFile /\ Rooms!Tear(r))
<1>1. file' = [file EXCEPT ![FileOf[r]] = Torn] /\ ProcessEnds
  BY DEF KillInSave
<1>2. /\ OnDisk(r)' = {}
      /\ \A q \in OwnFile \ {r} : OnDisk(q)' = OnDisk(q)
  BY <1>1, WritesOwn
<1>3. \A q \in OwnFile : Live(q)' = NoDoc
  BY <1>1, EndsForget
<1>4. CASE r \in OwnFile
  BY <1>2, <1>3, <1>4 DEF Rooms!Tear
<1>5. CASE r \notin OwnFile
  BY <1>2, <1>3, <1>5 DEF Rooms!End
<1> QED
  BY <1>4, <1>5

(* For any rooms, whichever of them share a file: those with a file of     *)
(* their own (index.mjs:136-203) implement the abstract ones.  The file    *)
(* only grows and holds nothing that is not live, every closed room is on  *)
(* disk, and only a save of the room itself can tear its file.             *)
THEOREM DevServerImplementsRooms == Spec => ImplementsDurableRooms
<1>1. Init => Rooms!Init
  <2> SUFFICES ASSUME Init PROVE Rooms!Init
    OBVIOUS
  <2>1. \A r \in OwnFile : Live(r) = NoDoc /\ OnDisk(r) = {}
    BY DevServerAssumption DEF Init, Live, OnDisk, Snapshot, OwnFile
  <2> QED
    BY <2>1 DEF Rooms!Init
<1>2. TypeInv /\ DocInv /\ FileInv /\ [Next]_vars => [Rooms!Next]_(Rooms!vars)
  <2> SUFFICES ASSUME TypeInv, DocInv, FileInv, [Next]_vars
               PROVE  [Rooms!Next]_(Rooms!vars)
    OBVIOUS
  <2>1. ASSUME UNCHANGED docVars PROVE UNCHANGED Rooms!vars
    BY <2>1, RoomsKept DEF docVars
  <2>2. ASSUME NEW c \in Conn, NEW d \in Doc, BindState(c, d)
        PROVE  (\E r \in OwnFile : Rooms!Join(r)) \/ UNCHANGED Rooms!vars
    BY <2>2, BindIsJoin
  <2>3. ASSUME NEW c \in Conn, NEW e \in Edit, Update(c, e)
        PROVE  (\E r \in OwnFile : Rooms!Write(r, e)) \/ UNCHANGED Rooms!vars
    BY <2>3, UpdateIsWrite
  <2>4. ASSUME NEW r \in Room, SaveTimer(r)
        PROVE  (r \in OwnFile /\ Rooms!Persist(r)) \/ UNCHANGED Rooms!vars
    BY <2>4, TimerIsPersist
  <2>5. ASSUME NEW c \in Conn, PingTimeout(c)
        PROVE  (\E r \in OwnFile : Rooms!Close(r)) \/ UNCHANGED Rooms!vars
    BY <2>5, DetachIsClose DEF PingTimeout
  <2>6. ASSUME NEW c \in Conn, NEW event \in CloseEvents, CloseEvent(c, event)
        PROVE  (\E r \in OwnFile : Rooms!Close(r)) \/ UNCHANGED Rooms!vars
    BY <2>1, <2>6, DetachIsClose DEF CloseEvent
  <2>7. ASSUME file' = file, ProcessEnds PROVE Rooms!End
    <3>1. \A r \in OwnFile : OnDisk(r)' = OnDisk(r)
      BY <2>7 DEF OnDisk, Snapshot
    <3> QED
      BY <2>7, <3>1, EndsForget DEF Rooms!End
  <2>8. ASSUME NEW r \in Room, KillInSave(r)
        PROVE  Rooms!End \/ (r \in OwnFile /\ Rooms!Tear(r))
    BY <2>8, KillIsTear
  <2>9. ASSUME NEW c \in Conn, NEW r \in Room, Upgrade(c, r)
        PROVE  UNCHANGED docVars
    BY <2>9 DEF Upgrade
  <2>10. ASSUME NEW c \in Conn, JoinRoom(c) \/ SocketEnds(c)
         PROVE  UNCHANGED docVars
    BY <2>10 DEF JoinRoom, SocketEnds
  <2>11. ASSUME Start \/ UNCHANGED vars PROVE UNCHANGED docVars
    BY <2>11 DEF Start, vars
  <2>12. ASSUME Kill \/ \E c \in Conn : BindStateThrows(c) PROVE Rooms!End
    BY <2>7, <2>12 DEF Kill, BindStateThrows
  <2> QED
    BY <2>1, <2>2, <2>3, <2>4, <2>5, <2>6, <2>8, <2>9, <2>10, <2>11, <2>12
       DEF Next, Rooms!Next
<1> QED
  BY <1>1, <1>2, TypeAlways, DocsAlways, FilesAlways, PTL
     DEF Spec, ImplementsDurableRooms, Rooms!Spec
=============================================================================
