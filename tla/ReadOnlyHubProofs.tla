-------------------------- MODULE ReadOnlyHubProofs --------------------------
(***************************************************************************)
(* View-only peers, for any rooms, edits, connections, capacity of their   *)
(* channels and failures: proofs about ReadOnlyHub.                        *)
(***************************************************************************)
EXTENDS ReadOnlyHub, TLAPS

(* TypeOK, and chan is a function.  The writer only runs while the         *)
(* connection is served.                                                   *)
TypeInv ==
  /\ TypeOK
  /\ chan \in [Peer -> Seq(Edit)]
  /\ \A p \in Peer : conn[p].writer => conn[p].pc = "serving"

Conns == {Off} \cup [pc : {"subscribed", "loaded", "serving"},
                     room : Room, initial : SUBSET Edit, writer : BOOLEAN]

-----------------------------------------------------------------------------
(* Appending to a channel adds one edit to it.                             *)
LEMMA AppendSet ==
  ASSUME NEW s \in Seq(Edit), NEW e \in Edit
  PROVE  Append(s, e) \in Seq(Edit) /\ ToSet(Append(s, e)) = ToSet(s) \cup {e}
<1>1. \A i \in 1 .. Len(s) : Append(s, e)[i] = s[i]
  OBVIOUS
<1>2. Append(s, e)[Len(s) + 1] = e /\ Len(Append(s, e)) = Len(s) + 1
  OBVIOUS
<1>3. DOMAIN Append(s, e) = 1 .. Len(s) + 1 /\ DOMAIN s = 1 .. Len(s)
  OBVIOUS
<1> QED
  BY <1>1, <1>2, <1>3 DEF ToSet

(* A channel is its first edit and the rest.                               *)
LEMMA HeadTailSet ==
  ASSUME NEW s \in Seq(Edit), s # <<>>
  PROVE  /\ Head(s) \in Edit /\ Tail(s) \in Seq(Edit)
         /\ Len(Tail(s)) = Len(s) - 1
         /\ ToSet(s) = {Head(s)} \cup ToSet(Tail(s))
<1>1. Len(s) \in Nat \ {0} /\ Len(Tail(s)) = Len(s) - 1 /\ Tail(s) \in Seq(Edit)
  OBVIOUS
<1>2. \A i \in 1 .. Len(s) - 1 : Tail(s)[i] = s[i + 1]
  OBVIOUS
<1>3. Head(s) = s[1] /\ Head(s) \in Edit
  OBVIOUS
<1>4. DOMAIN s = 1 .. Len(s) /\ DOMAIN Tail(s) = 1 .. Len(s) - 1
  BY <1>1
<1>5. \A i \in 2 .. Len(s) : i - 1 \in 1 .. Len(s) - 1 /\ s[i] = Tail(s)[i - 1]
  BY <1>1, <1>2
<1>6. \A i \in 1 .. Len(s) : i = 1 \/ i \in 2 .. Len(s)
  BY <1>1
<1>7. ToSet(s) \subseteq {Head(s)} \cup ToSet(Tail(s))
  <2>1. ASSUME NEW i \in 1 .. Len(s) PROVE s[i] \in {Head(s)} \cup ToSet(Tail(s))
    BY <1>3, <1>4, <1>5, <1>6, <2>1 DEF ToSet
  <2> QED
    BY <1>4, <2>1 DEF ToSet
<1>8. ToSet(Tail(s)) \subseteq ToSet(s)
  <2>1. \A i \in 1 .. Len(s) - 1 : i + 1 \in 1 .. Len(s)
    BY <1>1
  <2> QED
    BY <1>2, <1>4, <2>1 DEF ToSet
<1>9. Head(s) \in ToSet(s)
  BY <1>1, <1>3, <1>4 DEF ToSet
<1> QED
  BY <1>1, <1>3, <1>7, <1>8, <1>9

-----------------------------------------------------------------------------
(* A connection that moves on to another state of its type.                *)
LEMMA ConnStep ==
  ASSUME TypeInv, NEW p \in Peer, NEW new \in Conns,
         new.writer => new.pc = "serving", conn' = [conn EXCEPT ![p] = new]
  PROVE  /\ conn' \in [Peer -> Conns]
         /\ \A q \in Peer : conn'[q].writer => conn'[q].pc = "serving"
<1>1. conn \in [Peer -> Conns]
  BY DEF TypeInv, TypeOK, Conns
<1>2. \A q \in Peer : conn'[q] = IF q = p THEN new ELSE conn[q]
  BY <1>1
<1> QED
  BY <1>1, <1>2 DEF TypeInv

(* The ways a connection ends keep the types.                              *)
LEMMA LeaveType ==
  ASSUME TypeInv, NEW p \in Peer, conn[p] # Off, Leave(p)
  PROVE  TypeInv'
<1> USE HubAssumption DEF TypeInv, TypeOK, roomVars, peerVars
<1>1. conn[p].room \in Room
  OBVIOUS
<1>2. <<>> \in Seq(Edit) /\ Len(<<>>) = 0
  OBVIOUS
<1> QED
  BY <1>1, <1>2 DEF Leave, Unsubscribe, Off

(* Every step keeps the types, and no channel grows past its capacity.     *)
LEMMA TypeInductive ==
  ASSUME TypeInv, [Next]_vars
  PROVE  TypeInv'
<1> USE HubAssumption DEF TypeInv, TypeOK, roomVars, peerVars
<1>1. ASSUME NEW r \in Room, Open(r) PROVE TypeInv'
  BY <1>1 DEF Open, Rooms!Join
<1>2. ASSUME NEW r \in Room, Persist(r) PROVE TypeInv'
  BY <1>2 DEF Persist
<1>3. ASSUME NEW r \in Room, NEW e \in Edit, Commit(r, e) PROVE TypeInv'
  BY <1>3 DEF Commit, Rooms!Write
<1>4. ASSUME NEW r \in Room, NEW e \in Edit, Broadcast(r, e) PROVE TypeInv'
  <2>1. chan' \in [Peer -> Seq(Edit)]
    BY <1>4, AppendSet DEF Broadcast
  <2>2. \A p \in Peer : Len(chan'[p]) <= ChanCap
    <3>1. ASSUME NEW p \in Peer PROVE Len(chan'[p]) <= ChanCap
      <4>1. CASE p \in Listeners(r) /\ HasRoomFor(p)
        BY <1>4, <4>1 DEF Broadcast, HasRoomFor
      <4>2. CASE ~(p \in Listeners(r) /\ HasRoomFor(p))
        BY <1>4, <4>2 DEF Broadcast
      <4> QED
        BY <4>1, <4>2
    <3> QED
      BY <3>1
  <2>3. /\ committed' \in [Room -> SUBSET Edit]
        /\ dropped' \in [Peer -> SUBSET Edit]
    BY <1>4 DEF Broadcast
  <2> QED
    BY <1>4, <2>1, <2>2, <2>3 DEF Broadcast
<1>5. ASSUME NEW p \in Peer, NEW r \in Room, Connect(p, r) PROVE TypeInv'
  <2>1. conn' \in [Peer -> Conns] /\ conn'[p].writer = FALSE
    BY <1>5 DEF Connect, Conns, Off
  <2>2. <<>> \in Seq(Edit) /\ Len(<<>>) = 0
    OBVIOUS
  <2> QED
    BY <1>5, <2>1, <2>2 DEF Connect, Conns
<1>6. ASSUME NEW p \in Peer, Load(p) PROVE TypeInv'
  <2> DEFINE new == [conn[p] EXCEPT !.pc = "loaded", !.initial = durable[conn[p].room]]
  <2>1. conn[p] \in Conns \ {Off} /\ ~conn[p].writer
    BY <1>6 DEF Load, Conns, Off
  <2>2. conn[p].room \in Room
    BY <2>1 DEF Conns
  <2>3. durable[conn[p].room] \in SUBSET Edit
    BY <2>2
  <2>4. new \in Conns /\ ~new.writer
    BY <2>1, <2>3 DEF Conns
  <2>5. conn' = [conn EXCEPT ![p] = new]
    BY <1>6 DEF Load
  <2> HIDE DEF new
  <2>6. /\ conn' \in [Peer -> Conns]
        /\ \A q \in Peer : conn'[q].writer => conn'[q].pc = "serving"
    BY <2>4, <2>5, ConnStep
  <2> QED
    BY <1>6, <2>6 DEF Load, Conns
<1>7. ASSUME NEW p \in Peer, SendStep2(p) PROVE TypeInv'
  <2> DEFINE new == [conn[p] EXCEPT !.pc = "serving", !.initial = {}, !.writer = TRUE]
  <2>1. conn[p] \in Conns \ {Off}
    BY <1>7 DEF SendStep2, Conns, Off
  <2>2. new \in Conns /\ new.pc = "serving" /\ conn[p].initial \in SUBSET Edit
    BY <2>1 DEF Conns
  <2>3. conn' = [conn EXCEPT ![p] = new]
    BY <1>7 DEF SendStep2
  <2> HIDE DEF new
  <2>4. /\ conn' \in [Peer -> Conns]
        /\ \A q \in Peer : conn'[q].writer => conn'[q].pc = "serving"
    BY <2>2, <2>3, ConnStep
  <2>5. got' = [got EXCEPT ![p] = conn[p].initial]
    BY <1>7 DEF SendStep2, InitialState
  <2> QED
    BY <1>7, <2>2, <2>4, <2>5 DEF SendStep2, Conns
<1>8. ASSUME NEW p \in Peer, LoadFails(p) \/ SendFails(p) \/ Disconnect(p)
      PROVE  TypeInv'
  BY <1>8, LeaveType DEF LoadFails, SendFails, Disconnect, Off
<1>9. ASSUME NEW p \in Peer, Forward(p) PROVE TypeInv'
  <2>1. /\ Head(chan[p]) \in Edit /\ Tail(chan[p]) \in Seq(Edit)
        /\ Len(Tail(chan[p])) <= ChanCap
    BY <1>9, HeadTailSet DEF Forward, Frames
  <2> QED
    BY <1>9, <2>1 DEF Forward
<1>10. ASSUME NEW p \in Peer, WriteFails(p) PROVE TypeInv'
  <2>1. Tail(chan[p]) \in Seq(Edit) /\ Len(Tail(chan[p])) <= ChanCap
    BY <1>10, HeadTailSet DEF WriteFails, Frames
  <2> DEFINE new == [conn[p] EXCEPT !.writer = FALSE]
  <2>2. conn[p] \in Conns \ {Off}
    BY <1>10 DEF WriteFails, Conns, Off
  <2>3. new \in Conns /\ ~new.writer
    BY <2>2 DEF Conns
  <2>4. conn' = [conn EXCEPT ![p] = new]
    BY <1>10 DEF WriteFails
  <2> HIDE DEF new
  <2>5. /\ conn' \in [Peer -> Conns]
        /\ \A q \in Peer : conn'[q].writer => conn'[q].pc = "serving"
    BY <2>3, <2>4, ConnStep
  <2> QED
    BY <1>10, <2>1, <2>5 DEF WriteFails, Conns
<1>11. CASE UNCHANGED vars
  BY <1>11 DEF vars
<1> QED
  BY <1>1, <1>2, <1>3, <1>4, <1>5, <1>6, <1>7, <1>8, <1>9, <1>10, <1>11
     DEF Next, Serve

(* The types hold throughout, the writer's state included.                 *)
LEMMA TypeAlways == Spec => []TypeInv
<1>1. Init => TypeInv
  BY HubAssumption DEF Init, Rooms!Init, TypeInv, TypeOK, Off
<1> QED
  BY <1>1, TypeInductive, PTL DEF Spec

(* The hub's state stays within its type, and no channel grows past its    *)
(* capacity (security.go:90-249).                                          *)
THEOREM HubTypes == Spec => []TypeOK
<1>1. TypeInv => TypeOK
  BY DEF TypeInv
<1> QED
  BY <1>1, TypeAlways, PTL

-----------------------------------------------------------------------------
(* However a connection ends, its subscription is gone with it, and no     *)
(* subscription is of a connection that is not served (security.go:107-    *)
(* 128, 173-249).                                                          *)
THEOREM NothingLeaks == Spec => []NoLeakedSubscription
<1>1. Init => NoLeakedSubscription
  BY HubAssumption DEF Init, NoLeakedSubscription, Off
<1>2. TypeInv /\ NoLeakedSubscription /\ [Next]_vars => NoLeakedSubscription'
  <2> SUFFICES ASSUME TypeInv, NoLeakedSubscription, [Next]_vars
               PROVE  NoLeakedSubscription'
    OBVIOUS
  <2> USE HubAssumption DEF TypeInv, TypeOK, NoLeakedSubscription, roomVars, peerVars
  <2>1. ASSUME UNCHANGED subs, \A p \in Peer : conn'[p].room = conn[p].room
        PROVE  NoLeakedSubscription'
    BY <2>1
  <2>2. ASSUME NEW r \in Room, Open(r) \/ Persist(r) PROVE NoLeakedSubscription'
    BY <2>1, <2>2 DEF Open, Persist
  <2>3. ASSUME NEW r \in Room, NEW e \in Edit, Commit(r, e) \/ Broadcast(r, e)
        PROVE  NoLeakedSubscription'
    BY <2>1, <2>3 DEF Commit, Broadcast
  <2>4. ASSUME NEW p \in Peer, NEW r \in Room, Connect(p, r)
        PROVE  NoLeakedSubscription'
    <3>1. /\ conn[p].room = NoRoom /\ conn'[p].room = r
          /\ \A q \in Peer \ {p} : conn'[q] = conn[q]
      BY <2>4 DEF Connect, Off
    <3>2. subs' = [subs EXCEPT ![r] = @ \cup {p}]
      BY <2>4 DEF Connect
    <3> QED
      BY <3>1, <3>2
  <2>5. ASSUME NEW p \in Peer, conn[p] # Off, Leave(p) PROVE NoLeakedSubscription'
    <3>1. conn[p].room \in Room
      BY <2>5
    <3>2. /\ conn'[p].room = NoRoom
          /\ \A q \in Peer \ {p} : conn'[q] = conn[q]
      BY <2>5 DEF Leave, Off
    <3>3. subs' = [subs EXCEPT ![conn[p].room] = @ \ {p}]
      BY <2>5 DEF Leave, Unsubscribe
    <3> QED
      BY <3>1, <3>2, <3>3
  <2>6. ASSUME NEW p \in Peer, LoadFails(p) \/ SendFails(p) \/ Disconnect(p)
        PROVE  NoLeakedSubscription'
    <3>1. conn[p] # Off
      BY <2>6 DEF LoadFails, SendFails, Disconnect, Off
    <3>2. Leave(p)
      BY <2>6 DEF LoadFails, SendFails, Disconnect
    <3> QED
      BY <2>5, <3>1, <3>2
  <2>7. ASSUME NEW p \in Peer, Load(p) \/ SendStep2(p) \/ WriteFails(p)
        PROVE  NoLeakedSubscription'
    <3>1. conn[p] # Off /\ conn[p] \in Conns
      BY <2>7 DEF Load, SendStep2, WriteFails, Off, Conns
    <3>2. conn'[p].room = conn[p].room
      <4>1. CASE Load(p)
        BY <3>1, <4>1 DEF Load, Conns
      <4>2. CASE SendStep2(p)
        BY <3>1, <4>2 DEF SendStep2, Conns
      <4>3. CASE WriteFails(p)
        BY <3>1, <4>3 DEF WriteFails, Conns
      <4> QED
        BY <2>7, <4>1, <4>2, <4>3
    <3>3. \A q \in Peer \ {p} : conn'[q] = conn[q]
      BY <2>7 DEF Load, SendStep2, WriteFails
    <3>4. UNCHANGED subs
      BY <2>7 DEF Load, SendStep2, WriteFails
    <3> QED
      BY <2>1, <3>2, <3>3, <3>4
  <2>8. ASSUME NEW p \in Peer, Forward(p) PROVE NoLeakedSubscription'
    BY <2>1, <2>8 DEF Forward
  <2>9. CASE UNCHANGED vars
    BY <2>1, <2>9 DEF vars
  <2> QED
    BY <2>2, <2>3, <2>4, <2>6, <2>7, <2>8, <2>9 DEF Next, Serve
<1> QED
  BY <1>1, <1>2, TypeAlways, PTL DEF Spec

-----------------------------------------------------------------------------
(* Everything that holds edits of a room holds edits of that room only.    *)
EditsInv ==
  /\ \A r \in Room : Docs(r) \cup durable[r] \cup committed[r] \subseteq EditsOf[r]
  /\ ViewersKeepApart

(* A viewer receives edits of its own room only (security.go:107-141).     *)
THEOREM ViewersApart == Spec => []ViewersKeepApart
<1>1. Init => EditsInv
  BY HubAssumption DEF Init, Rooms!Init, EditsInv, ViewersKeepApart, Docs, Off
<1>2. TypeInv /\ NoLeakedSubscription /\ EditsInv /\ [Next]_vars => EditsInv'
  <2> SUFFICES ASSUME TypeInv, NoLeakedSubscription, EditsInv, [Next]_vars
               PROVE  EditsInv'
    OBVIOUS
  <2> USE HubAssumption DEF TypeInv, TypeOK, EditsInv, ViewersKeepApart, roomVars, peerVars
  <2>1. ASSUME NEW r \in Room, Open(r) PROVE EditsInv'
    BY <2>1 DEF Open, Rooms!Join, Docs
  <2>2. ASSUME NEW r \in Room, Persist(r) PROVE EditsInv'
    <3>1. \A q \in Room : durable'[q] \subseteq durable[q] \cup Docs(q)
      BY <2>2 DEF Persist, Docs
    <3>2. UNCHANGED <<live, committed, conn, chan, got>>
      BY <2>2 DEF Persist
    <3> QED
      BY <3>1, <3>2 DEF Docs
  <2>3. ASSUME NEW r \in Room, NEW e \in Edit, Commit(r, e) PROVE EditsInv'
    <3>1. e \in EditsOf[r]
      BY <2>3 DEF Commit
    <3>2. \A q \in Room : q # r => Docs(q)' = Docs(q) /\ committed'[q] = committed[q]
      BY <2>3 DEF Commit, Rooms!Write, Docs
    <3>3. Docs(r)' \subseteq Docs(r) \cup {e} /\ committed'[r] = committed[r] \cup {e}
      BY <2>3 DEF Commit, Rooms!Write, Docs
    <3>4. UNCHANGED <<durable, conn, chan, got>>
      BY <2>3 DEF Commit, Rooms!Write
    <3> QED
      BY <3>1, <3>2, <3>3, <3>4
  <2>4. ASSUME NEW r \in Room, NEW e \in Edit, Broadcast(r, e) PROVE EditsInv'
    <3>1. e \in EditsOf[r] /\ \A q \in Room : committed'[q] \subseteq committed[q]
      BY <2>4 DEF Broadcast
    <3>2. ASSUME NEW p \in Peer
          PROVE  \/ ToSet(chan'[p]) = ToSet(chan[p])
                 \/ ToSet(chan'[p]) = ToSet(chan[p]) \cup {e} /\ conn[p].room = r
      <4>1. CASE p \in Listeners(r) /\ HasRoomFor(p)
        <5>1. conn[p].room = r
          BY <4>1 DEF Listeners, NoLeakedSubscription
        <5>2. chan'[p] = Append(chan[p], e)
          BY <2>4, <4>1 DEF Broadcast
        <5> QED
          BY <5>1, <5>2, AppendSet
      <4>2. CASE ~(p \in Listeners(r) /\ HasRoomFor(p))
        BY <2>4, <4>2 DEF Broadcast
      <4> QED
        BY <4>1, <4>2
    <3>3. UNCHANGED <<live, durable, conn, got>>
      BY <2>4 DEF Broadcast
    <3>4. ASSUME NEW p \in Peer, conn'[p] # Off
          PROVE  got'[p] \cup ToSet(chan'[p]) \cup conn'[p].initial
                   \subseteq EditsOf[conn'[p].room]
      <4>1. conn'[p] = conn[p] /\ got'[p] = got[p]
        BY <3>3
      <4>2. got[p] \cup ToSet(chan[p]) \cup conn[p].initial \subseteq EditsOf[conn[p].room]
        BY <3>4, <4>1
      <4> QED
        BY <3>1, <3>2, <4>1, <4>2
    <3> QED
      BY <3>1, <3>3, <3>4 DEF Docs
  <2>5. ASSUME NEW p \in Peer, NEW r \in Room, Connect(p, r) PROVE EditsInv'
    <3>1. /\ conn'[p].room = r /\ conn'[p].initial = {} /\ got'[p] = {}
          /\ ToSet(chan'[p]) = {}
      BY <2>5 DEF Connect, Off, ToSet
    <3>2. \A q \in Peer \ {p} : conn'[q] = conn[q] /\ got'[q] = got[q] /\ chan'[q] = chan[q]
      BY <2>5 DEF Connect
    <3> QED
      BY <2>5, <3>1, <3>2 DEF Connect, Docs
  <2>6. ASSUME NEW p \in Peer, Leave(p) PROVE EditsInv'
    BY <2>6 DEF Leave, Docs
  <2>7. ASSUME NEW p \in Peer, LoadFails(p) \/ SendFails(p) \/ Disconnect(p)
        PROVE  EditsInv'
    BY <2>6, <2>7 DEF LoadFails, SendFails, Disconnect
  <2>8. ASSUME NEW p \in Peer, Load(p) PROVE EditsInv'
    <3>1. conn[p] # Off /\ conn[p].room \in Room
      BY <2>8 DEF Load, Off
    <3>2. conn'[p].room = conn[p].room /\ conn'[p].initial = durable[conn[p].room]
      BY <2>8, <3>1 DEF Load
    <3>3. \A q \in Peer \ {p} : conn'[q] = conn[q]
      BY <2>8 DEF Load
    <3> QED
      BY <2>8, <3>1, <3>2, <3>3 DEF Load, Docs
  <2>9. ASSUME NEW p \in Peer, SendStep2(p) PROVE EditsInv'
    <3>1. conn[p] # Off /\ conn[p].room \in Room
      BY <2>9 DEF SendStep2, Off
    <3>2. /\ conn'[p].room = conn[p].room /\ conn'[p].initial = {}
          /\ got'[p] = conn[p].initial
      BY <2>9, <3>1 DEF SendStep2, InitialState
    <3>3. \A q \in Peer \ {p} : conn'[q] = conn[q] /\ got'[q] = got[q]
      BY <2>9 DEF SendStep2
    <3> QED
      BY <2>9, <3>1, <3>2, <3>3 DEF SendStep2, Docs
  <2>10. ASSUME NEW p \in Peer, Forward(p) PROVE EditsInv'
    <3>1. ToSet(chan[p]) = {Head(chan[p])} \cup ToSet(Tail(chan[p]))
      BY <2>10, HeadTailSet DEF Forward, Frames
    <3> QED
      BY <2>10, <3>1 DEF Forward, Docs
  <2>11. ASSUME NEW p \in Peer, WriteFails(p) PROVE EditsInv'
    <3>1. ToSet(Tail(chan[p])) \subseteq ToSet(chan[p])
      BY <2>11, HeadTailSet DEF WriteFails, Frames
    <3>2. conn[p] # Off
      BY <2>11 DEF WriteFails, Off
    <3>3. conn'[p].room = conn[p].room /\ conn'[p].initial = conn[p].initial
      BY <2>11 DEF WriteFails
    <3>4. \A q \in Peer \ {p} : conn'[q] = conn[q] /\ chan'[q] = chan[q]
      BY <2>11 DEF WriteFails
    <3> QED
      BY <2>11, <3>1, <3>2, <3>3, <3>4 DEF WriteFails, Docs
  <2>12. CASE UNCHANGED vars
    BY <2>12 DEF vars, Docs
  <2> QED
    BY <2>1, <2>2, <2>3, <2>4, <2>5, <2>7, <2>8, <2>9, <2>10, <2>11, <2>12
       DEF Next, Serve
<1>3. EditsInv => ViewersKeepApart
  BY DEF EditsInv
<1> QED
  BY <1>1, <1>2, <1>3, TypeAlways, NothingLeaks, PTL DEF Spec

-----------------------------------------------------------------------------
(* What a connection has of its room, by how far it has got: nothing yet,  *)
(* what LoadDoc has returned, or what the client was sent.                 *)
Base(p) ==
  IF conn[p].pc = "subscribed" THEN {}
  ELSE IF conn[p].pc = "loaded" THEN conn[p].initial
  ELSE got[p]

Accounted(p) ==
  Base(p) \cup ToSet(chan[p]) \cup committed[conn[p].room] \cup dropped[p] \cup before[p]

Silenced(p) == conn[p].pc = "serving" /\ ~conn[p].writer

(* What is stored is live, and a room's edits are accounted for.           *)
GapInv ==
  /\ \A r \in Room : durable[r] \subseteq Docs(r)
  /\ \A p \in Peer : conn[p] # Off /\ ~Silenced(p) =>
       Docs(conn[p].room) \subseteq Accounted(p)

(* A step that leaves the documents alone and takes nothing from what a    *)
(* connection has preserves the accounts.                                  *)
LEMMA StillAccounted ==
  ASSUME GapInv, TypeInv, UNCHANGED roomVars, NEW p \in Peer,
         conn[p] # Off, conn'[p].room = conn[p].room, ~Silenced(p),
         Accounted(p) \subseteq Accounted(p)'
  PROVE  (Docs(conn[p].room) \subseteq Accounted(p))'
BY DEF GapInv, Docs, roomVars

(* The only gaps of a viewer are a full channel and the time before it     *)
(* subscribed (security.go:130-151, 173-249), and of the latter only what  *)
(* was not in the snapshot it loaded, whatever the order of commits,       *)
(* callbacks, flushes and the viewer's own steps, and however the saves of *)
(* the room overlap.                                                       *)
THEOREM GapsKnown == Spec => []OnlyKnownGaps
<1>1. Init => GapInv
  BY DEF Init, Rooms!Init, GapInv, Docs
<1>2. TypeInv /\ NoLeakedSubscription /\ GapInv /\ [Next]_vars => GapInv'
  <2> SUFFICES ASSUME TypeInv, NoLeakedSubscription, GapInv, [Next]_vars
               PROVE  GapInv'
    OBVIOUS
  <2> USE HubAssumption DEF TypeInv, TypeOK, GapInv, roomVars, peerVars
  <2>1. ASSUME UNCHANGED roomVars, NEW p \in Peer,
               \A q \in Peer \ {p} : conn'[q] = conn[q] /\ Accounted(q)' = Accounted(q),
               (conn[p] # Off /\ ~Silenced(p) =>
                  Docs(conn[p].room) \subseteq Accounted(p))'
        PROVE  GapInv'
    <3>1. ASSUME NEW q \in Peer \ {p}, conn'[q] # Off, ~Silenced(q)'
          PROVE  (Docs(conn[q].room) \subseteq Accounted(q))'
      <4>1. conn'[q] = conn[q] /\ ~Silenced(q)
        BY <2>1, <3>1 DEF Silenced
      <4>2. Docs(conn[q].room) \subseteq Accounted(q)
        BY <3>1, <4>1
      <4>3. Docs(conn[q].room)' = Docs(conn[q].room)
        BY <2>1, <4>1 DEF Docs
      <4> QED
        BY <2>1, <4>2, <4>3
    <3>2. \A r \in Room : durable'[r] \subseteq Docs(r)'
      BY <2>1 DEF Docs
    <3> QED
      BY <2>1, <3>1, <3>2
  <2>2. ASSUME NEW r \in Room, Open(r) \/ Persist(r) PROVE GapInv'
    <3>1. UNCHANGED <<committed, conn, chan, got, dropped, before>>
      BY <2>2 DEF Open, Persist
    <3>2. \A q \in Room : Docs(q)' = Docs(q) /\ durable'[q] \subseteq Docs(q)
      <4>1. CASE Open(r)
        <5>1. /\ durable[r] = {} /\ live[r] = Absent /\ live'[r] = {} /\ durable' = durable
              /\ \A q \in Room \ {r} : live'[q] = live[q]
          BY <4>1 DEF Open, Rooms!Join, Docs
        <5>2. Absent # {}
          OBVIOUS
        <5> QED
          BY <5>1, <5>2 DEF Docs
      <4>2. CASE Persist(r)
        BY <4>2 DEF Persist, Docs
      <4> QED
        BY <2>2, <4>1, <4>2
    <3>3. \A p \in Peer : Accounted(p)' = Accounted(p) /\ Silenced(p)' = Silenced(p)
      BY <3>1 DEF Accounted, Base, Silenced
    <3>4. \A p \in Peer : conn[p] # Off => conn[p].room \in Room
      OBVIOUS
    <3> QED
      BY <3>1, <3>2, <3>3, <3>4
  <2>4. ASSUME NEW r \in Room, NEW e \in Edit, Commit(r, e) PROVE GapInv'
    <3>1. /\ UNCHANGED <<durable, conn, chan, got, dropped, before>>
          /\ live[r] # Absent /\ live'[r] = live[r] \cup {e}
          /\ committed'[r] = committed[r] \cup {e}
          /\ \A q \in Room \ {r} : live'[q] = live[q] /\ committed'[q] = committed[q]
      BY <2>4 DEF Commit, Rooms!Write
    <3>2. \A p \in Peer : conn[p] # Off => conn[p].room \in Room
      OBVIOUS
    <3>3. \A p \in Peer : conn[p] # Off =>
            /\ Accounted(p) \subseteq Accounted(p)'
            /\ conn[p].room = r => e \in Accounted(p)'
      BY <3>1, <3>2 DEF Accounted, Base
    <3>4. \A p \in Peer : Silenced(p)' = Silenced(p)
      BY <3>1 DEF Silenced
    <3>5. \A q \in Room : Docs(q)' \subseteq Docs(q) \cup (IF q = r THEN {e} ELSE {})
      BY <3>1 DEF Docs
    <3>6. ASSUME NEW p \in Peer, conn[p] # Off, ~Silenced(p)
          PROVE  (Docs(conn[p].room) \subseteq Accounted(p))'
      BY <3>1, <3>2, <3>3, <3>5, <3>6
    <3>7. Absent # live'[r] /\ \A q \in Room : Docs(q) \subseteq Docs(q)'
      BY <3>1 DEF Docs
    <3> QED
      BY <3>1, <3>4, <3>6, <3>7
  <2>5. ASSUME NEW r \in Room, NEW e \in Edit, Broadcast(r, e) PROVE GapInv'
    <3>1. /\ UNCHANGED <<live, durable, conn, got, before>>
          /\ \A q \in Room \ {r} : committed'[q] = committed[q]
          /\ committed[r] \subseteq committed'[r] \cup {e}
      BY <2>5 DEF Broadcast
    <3>2. ASSUME NEW p \in Peer
          PROVE  /\ ToSet(chan[p]) \subseteq ToSet(chan'[p]) /\ dropped[p] \subseteq dropped'[p]
                 /\ p \in Listeners(r) => e \in ToSet(chan'[p]) \cup dropped'[p]
      <4>1. CASE p \in Listeners(r) /\ HasRoomFor(p)
        <5>1. chan'[p] = Append(chan[p], e) /\ dropped'[p] = dropped[p]
          BY <2>5, <4>1 DEF Broadcast
        <5> QED
          BY <5>1, AppendSet
      <4>2. CASE p \in Listeners(r) /\ ~HasRoomFor(p)
        BY <2>5, <4>2 DEF Broadcast
      <4>3. CASE p \notin Listeners(r)
        BY <2>5, <4>3 DEF Broadcast
      <4> QED
        BY <4>1, <4>2, <4>3
    <3>3. ASSUME NEW p \in Peer, conn[p] # Off, ~Silenced(p)
          PROVE  (Docs(conn[p].room) \subseteq Accounted(p))'
      <4>1. conn[p].room \in Room /\ (conn[p].room = r => p \in Listeners(r))
        BY <3>3 DEF NoLeakedSubscription, Listeners
      <4>2. Accounted(p) \subseteq Accounted(p)'
        BY <3>1, <3>2, <4>1 DEF Accounted, Base
      <4> QED
        BY <3>1, <3>3, <4>2, StillAccounted
    <3> QED
      BY <3>1, <3>3 DEF Silenced, Docs
  <2>6. ASSUME NEW p \in Peer, NEW r \in Room, Connect(p, r) PROVE GapInv'
    <3>1. /\ conn'[p].pc = "subscribed" /\ conn'[p].room = r
          /\ before'[p] = Docs(r) \ committed[r]
      BY <2>6 DEF Connect, Off, Docs
    <3>2. \A q \in Peer \ {p} :
            /\ conn'[q] = conn[q] /\ chan'[q] = chan[q] /\ got'[q] = got[q]
            /\ dropped'[q] = dropped[q] /\ before'[q] = before[q]
      BY <2>6 DEF Connect
    <3>3. UNCHANGED <<live, durable, committed>>
      BY <2>6 DEF Connect
    <3>4. (Docs(conn[p].room) \subseteq Accounted(p))'
      BY <3>1, <3>3 DEF Accounted, Base, Docs
    <3>5. \A q \in Peer \ {p} : Accounted(q)' = Accounted(q)
      BY <3>2, <3>3 DEF Accounted, Base
    <3> QED
      BY <2>1, <3>2, <3>3, <3>4, <3>5
  <2>7. ASSUME NEW p \in Peer, Leave(p) PROVE GapInv'
    <3>1. /\ conn'[p] = Off
          /\ \A q \in Peer \ {p} :
               /\ conn'[q] = conn[q] /\ chan'[q] = chan[q] /\ got'[q] = got[q]
               /\ dropped'[q] = dropped[q] /\ before'[q] = before[q]
          /\ UNCHANGED <<live, durable, committed>>
      BY <2>7 DEF Leave
    <3>2. \A q \in Peer \ {p} : Accounted(q)' = Accounted(q)
      BY <3>1 DEF Accounted, Base
    <3> QED
      BY <2>1, <3>1, <3>2
  <2>8. ASSUME NEW p \in Peer, LoadFails(p) \/ SendFails(p) \/ Disconnect(p)
        PROVE  GapInv'
    BY <2>7, <2>8 DEF LoadFails, SendFails, Disconnect
  <2>9. ASSUME NEW p \in Peer, Load(p) PROVE GapInv'
    <3>1. conn[p] # Off /\ conn[p].room \in Room /\ ~Silenced(p)
      BY <2>9 DEF Load, Off, Silenced
    <3>2. /\ conn'[p].room = conn[p].room /\ conn'[p].pc = "loaded"
          /\ conn'[p].initial = durable[conn[p].room]
      BY <2>9, <3>1 DEF Load
    <3>3. /\ \A q \in Peer \ {p} : conn'[q] = conn[q] /\ before'[q] = before[q]
          /\ UNCHANGED <<live, durable, committed, chan, got, dropped>>
          /\ before'[p] = before[p] \ durable[conn[p].room]
      BY <2>9 DEF Load
    <3>4. Accounted(p) \subseteq Accounted(p)'
      BY <2>9, <3>1, <3>2, <3>3 DEF Accounted, Base, Load
    <3>5. (Docs(conn[p].room) \subseteq Accounted(p))'
      BY <3>1, <3>2, <3>3, <3>4, StillAccounted
    <3>6. \A q \in Peer \ {p} : Accounted(q)' = Accounted(q)
      BY <3>3 DEF Accounted, Base
    <3> QED
      BY <2>1, <3>3, <3>5, <3>6
  <2>10. ASSUME NEW p \in Peer, SendStep2(p) PROVE GapInv'
    <3>1. conn[p] # Off /\ conn[p].room \in Room /\ ~Silenced(p)
      BY <2>10 DEF SendStep2, Off, Silenced
    <3>2. conn'[p].room = conn[p].room /\ conn'[p].pc = "serving"
      BY <2>10, <3>1 DEF SendStep2
    <3>3. got'[p] = conn[p].initial
      BY <2>10 DEF SendStep2, InitialState
    <3>4. /\ \A q \in Peer \ {p} : conn'[q] = conn[q] /\ got'[q] = got[q]
          /\ UNCHANGED <<live, durable, committed, chan, dropped, before>>
      BY <2>10 DEF SendStep2
    <3>5. Accounted(p)' = Accounted(p)
      BY <2>10, <3>2, <3>3, <3>4 DEF Accounted, Base, SendStep2
    <3>6. (Docs(conn[p].room) \subseteq Accounted(p))'
      BY <3>1, <3>2, <3>4, <3>5, StillAccounted
    <3>7. \A q \in Peer \ {p} : Accounted(q)' = Accounted(q)
      BY <3>4 DEF Accounted, Base
    <3> QED
      BY <2>1, <3>4, <3>6, <3>7
  <2>11. ASSUME NEW p \in Peer, Forward(p) PROVE GapInv'
    <3>1. conn[p].pc = "serving" /\ ~Silenced(p) /\ conn[p] # Off
      BY <2>11 DEF Forward, Silenced, Off
    <3>2. /\ ToSet(chan[p]) = {Head(chan[p])} \cup ToSet(chan'[p])
          /\ got'[p] = got[p] \cup {Head(chan[p])}
      BY <2>11, HeadTailSet DEF Forward, Frames
    <3>3. /\ \A q \in Peer \ {p} : got'[q] = got[q] /\ chan'[q] = chan[q]
          /\ UNCHANGED <<live, durable, committed, conn, dropped, before>>
      BY <2>11 DEF Forward
    <3>4. Accounted(p) \subseteq Accounted(p)'
      BY <3>1, <3>2, <3>3 DEF Accounted, Base
    <3>5. (Docs(conn[p].room) \subseteq Accounted(p))'
      BY <3>1, <3>3, <3>4, StillAccounted
    <3>6. \A q \in Peer \ {p} : Accounted(q)' = Accounted(q)
      BY <3>3 DEF Accounted, Base
    <3> QED
      BY <2>1, <3>3, <3>5, <3>6
  <2>12. ASSUME NEW p \in Peer, WriteFails(p) PROVE GapInv'
    <3>1. Silenced(p)'
      <4>1. conn[p] \in Conns /\ conn[p].pc = "serving"
        BY <2>12 DEF WriteFails, Conns
      <4>2. conn'[p] = [conn[p] EXCEPT !.writer = FALSE]
        BY <2>12 DEF WriteFails
      <4>3. conn[p] # Off
        BY <4>1 DEF Off
      <4> QED
        BY <4>1, <4>2, <4>3 DEF Silenced, Conns
    <3>2. /\ \A q \in Peer \ {p} : conn'[q] = conn[q] /\ chan'[q] = chan[q]
          /\ UNCHANGED <<live, durable, committed, got, dropped, before>>
      BY <2>12 DEF WriteFails
    <3>3. \A q \in Peer \ {p} : Accounted(q)' = Accounted(q)
      BY <3>2 DEF Accounted, Base
    <3> QED
      BY <2>1, <3>1, <3>2, <3>3
  <2>13. CASE UNCHANGED vars
    BY <2>13 DEF vars, Docs, Accounted, Base, Silenced
  <2> QED
    BY <2>2, <2>4, <2>5, <2>6, <2>8, <2>9, <2>10, <2>11, <2>12, <2>13
       DEF Next, Serve
<1>3. GapInv => OnlyKnownGaps
  BY DEF GapInv, OnlyKnownGaps, Watching, Silenced, Accounted, Base, Due, Off
<1> QED
  BY <1>1, <1>2, <1>3, TypeAlways, NothingLeaks, PTL DEF Spec
=============================================================================
