----------------------------- MODULE BlobsProofs -----------------------------
(***************************************************************************)
(* Image files, for any clients, files and limits: proofs about Blobs.     *)
(***************************************************************************)
EXTENDS Blobs, TLAPS

Entry == [n : Nat, by : Nat, gone : BOOLEAN]
Map == [File -> Entry]

TypeInv ==
  /\ ydoc \in [Client -> Map]
  /\ files \in [Client -> SUBSET File]
  /\ own \in [Client -> SUBSET File]
  /\ srv \in Map /\ saved \in Map
  /\ touched \subseteq SUBSET File
  /\ loaded \subseteq File

(* Merging two maps gives a map.                                           *)
LEMMA MergeType ==
  ASSUME NEW map \in Map, NEW other \in Map
  PROVE  Merge(map, other) \in Map
<1>1. \A f \in File : map[f] \in Entry /\ other[f] \in Entry
  BY DEF Map
<1>2. \A f \in File : Merge(map, other)[f] \in Entry
  BY <1>1 DEF Merge, Entry
<1> QED
  BY <1>2 DEF Merge, Map

(* e is the later of the writes a and b; of one write it is deleted if     *)
(* somebody deleted it.                                                    *)
Joins(a, b, e) ==
  /\ Later(a, b) => e = a
  /\ Later(b, a) => e = b
  /\ ~Later(a, b) /\ ~Later(b, a) =>
       /\ a.n = b.n /\ a.by = b.by
       /\ e.n = a.n /\ e.by = a.by /\ e.gone = (a.gone \/ b.gone)

(* The entry a merge leaves, by where the two writes stand.                *)
LEMMA MergeEntry ==
  ASSUME NEW map \in Map, NEW other \in Map, NEW f \in File
  PROVE  /\ map[f] \in Entry /\ other[f] \in Entry /\ Merge(map, other)[f] \in Entry
         /\ Joins(map[f], other[f], Merge(map, other)[f])
<1>1. map[f] \in Entry /\ other[f] \in Entry /\ Merge(map, other)[f] \in Entry
  BY MergeType DEF Map
<1>2. Later(other[f], map[f]) => ~Later(map[f], other[f])
  BY <1>1 DEF Later, Entry
<1>3. ~Later(map[f], other[f]) /\ ~Later(other[f], map[f]) =>
        map[f].n = other[f].n /\ map[f].by = other[f].by
  BY <1>1 DEF Later, Entry
<1> QED
  BY <1>1, <1>2, <1>3 DEF Joins, Merge, Entry

(* Replicas end alike in whatever order, and however often, they are       *)
(* merged: what Pull and Push (binding.ts:147-150, security.go:32-65) send *)
(* may be repeated and overtaken.                                          *)
THEOREM MergeIsJoin ==
  ASSUME NEW x \in Map, NEW y \in Map, NEW z \in Map
  PROVE  /\ Merge(x, x) = x
         /\ Merge(x, y) = Merge(y, x)
         /\ Merge(Merge(x, y), z) = Merge(x, Merge(y, z))
<1>map. ASSUME NEW p \in Map, NEW q \in Map,
               \A f \in File : /\ p[f].n = q[f].n /\ p[f].by = q[f].by
                               /\ p[f].gone = q[f].gone
        PROVE  p = q
  <2>1. \A f \in File : p[f] \in Entry /\ q[f] \in Entry
    BY DEF Map
  <2>2. \A f \in File : p[f] = q[f]
    BY <1>map, <2>1 DEF Entry
  <2> QED
    BY <2>2 DEF Map
<1>1. /\ Merge(x, x) \in Map /\ Merge(x, y) \in Map /\ Merge(y, x) \in Map
      /\ Merge(y, z) \in Map /\ Merge(Merge(x, y), z) \in Map
      /\ Merge(x, Merge(y, z)) \in Map
  BY MergeType
<1>2. Merge(x, x) = x
  <2>1. ASSUME NEW f \in File
        PROVE  /\ Merge(x, x)[f].n = x[f].n /\ Merge(x, x)[f].by = x[f].by
               /\ Merge(x, x)[f].gone = x[f].gone
    BY MergeEntry DEF Joins, Entry, Later
  <2> QED
    BY <1>1, <1>map, <2>1
<1>3. Merge(x, y) = Merge(y, x)
  <2>1. ASSUME NEW f \in File
        PROVE  /\ Merge(x, y)[f].n = Merge(y, x)[f].n
               /\ Merge(x, y)[f].by = Merge(y, x)[f].by
               /\ Merge(x, y)[f].gone = Merge(y, x)[f].gone
    BY MergeEntry DEF Joins, Entry, Later
  <2> QED
    BY <1>1, <1>map, <2>1
<1>4. Merge(Merge(x, y), z) = Merge(x, Merge(y, z))
  <2>1. ASSUME NEW f \in File
        PROVE  /\ Merge(Merge(x, y), z)[f].n = Merge(x, Merge(y, z))[f].n
               /\ Merge(Merge(x, y), z)[f].by = Merge(x, Merge(y, z))[f].by
               /\ Merge(Merge(x, y), z)[f].gone = Merge(x, Merge(y, z))[f].gone
    <3> DEFINE a == x[f]
               b == y[f]
               c == z[f]
               ab == Merge(x, y)[f]
               bc == Merge(y, z)[f]
               left == Merge(Merge(x, y), z)[f]
               right == Merge(x, Merge(y, z))[f]
    <3>1. /\ a \in Entry /\ b \in Entry /\ c \in Entry
          /\ ab \in Entry /\ bc \in Entry /\ left \in Entry /\ right \in Entry
      BY <1>1, MergeEntry
    <3>2. Joins(a, b, ab) /\ Joins(b, c, bc) /\ Joins(ab, c, left) /\ Joins(a, bc, right)
      BY <1>1, MergeEntry DEF Joins
    <3> HIDE DEF a, b, c, ab, bc, left, right
    <3>3. left.n = right.n /\ left.by = right.by /\ left.gone = right.gone
      BY <3>1, <3>2 DEF Joins, Entry, Later
    <3> QED
      BY <3>3 DEF left, right
  <2> QED
    BY <1>1, <1>map, <2>1
<1> QED
  BY <1>2, <1>3, <1>4

(* The maps stay maps of entries.                                          *)
LEMMA TypeInductive ==
  ASSUME TypeInv, [Next]_vars
  PROVE  TypeInv'
<1> USE BlobsAssumption DEF TypeInv, editorVars, serverVars
<1>1. ASSUME NEW c \in Client, NEW f \in File, Insert(c, f) PROVE TypeInv'
  BY <1>1 DEF Insert
<1>2. ASSUME NEW c \in Client, HandleChange(c) PROVE TypeInv'
  <2> DEFINE map == [f \in File |->
               IF f \in Written(c)
                 THEN [n |-> ydoc[c][f].n + 1, by |-> c, gone |-> FALSE]
                 ELSE ydoc[c][f]]
  <2>1. ydoc' = [ydoc EXCEPT ![c] = map]
    BY <1>2 DEF HandleChange
  <2>2. map \in Map
    BY DEF Map, Entry
  <2> QED
    BY <1>2, <2>1, <2>2 DEF HandleChange
<1>3. ASSUME NEW c \in Client, Pull(c) PROVE TypeInv'
  <2>1. Merge(ydoc[c], srv) \in Map
    BY MergeType
  <2>2. PushFiles(c, Merge(ydoc[c], srv)) \subseteq File
    BY DEF PushFiles, Present
  <2> QED
    BY <1>3, <2>1, <2>2 DEF Pull
<1>4. ASSUME NEW c \in Client, Reload(c) PROVE TypeInv'
  BY <1>4 DEF Reload, Empty, Unset, Map, Entry
<1>5. ASSUME NEW c \in Client, Push(c) PROVE TypeInv'
  <2>1. Merge(srv, ydoc[c]) \in Map
    BY MergeType
  <2> QED
    BY <1>5, <2>1 DEF Push, Changed
<1>6. ASSUME NEW keys \in SUBSET File, Observe(keys) PROVE TypeInv'
  <2>1. srv' \in Map
    <3> DEFINE map == [f \in File |-> IF f \in Pruned(keys)
                                       THEN [srv[f] EXCEPT !.gone = TRUE] ELSE srv[f]]
    <3>1. \A f \in File : srv[f] \in Entry
      BY DEF Map
    <3>2. \A e \in Entry : [e EXCEPT !.gone = TRUE] \in Entry
      BY DEF Entry
    <3>3. \A f \in File : map[f] \in Entry
      BY <3>1, <3>2
    <3>4. srv' = map
      BY <1>6 DEF Observe
    <3> QED
      BY <3>3, <3>4 DEF Map
  <2> QED
    BY <1>6, <2>1 DEF Observe
<1>7. CASE Flush
  BY <1>7 DEF Flush
<1>8. CASE Restart
  BY <1>8 DEF Restart, Present
<1>9. CASE UNCHANGED vars
  BY <1>9 DEF vars
<1> QED
  BY <1>1, <1>2, <1>3, <1>4, <1>5, <1>6, <1>7, <1>8, <1>9 DEF Next

(* Every replica of the map is well-formed, always.                        *)
LEMMA TypeAlways == Spec => []TypeInv
<1>1. Init => TypeInv
  BY DEF Init, TypeInv, Empty, Unset, Map, Entry
<1> QED
  BY <1>1, TypeInductive, PTL DEF Spec

-----------------------------------------------------------------------------
(* An oversized blob in the live document is about to be pruned, unless it *)
(* was loaded with the snapshot (security.go:42, config.go:114-117).       *)
THEOREM OversizedPruned == Spec => []PrunedUnlessLoaded
<1>1. Init => PrunedUnlessLoaded
  BY DEF Init, PrunedUnlessLoaded, Present, Empty, Unset
<1>2. TypeInv /\ PrunedUnlessLoaded /\ [Next]_vars => PrunedUnlessLoaded'
  <2> SUFFICES ASSUME TypeInv, PrunedUnlessLoaded, [Next]_vars,
                      NEW f \in Oversized, (f \in Present(srv))'
               PROVE  (\E keys \in touched' : f \in keys) \/ f \in loaded'
    BY DEF PrunedUnlessLoaded
  <2> USE DEF editorVars, serverVars
  <2>0. f \in File
    BY BlobsAssumption
  <2>1. ASSUME UNCHANGED <<srv, touched, loaded>>
        PROVE  (\E keys \in touched' : f \in keys) \/ f \in loaded'
    BY <2>0, <2>1 DEF PrunedUnlessLoaded, Present
  <2>2. ASSUME NEW c \in Client, NEW g \in File, Insert(c, g)
        PROVE  (\E keys \in touched' : f \in keys) \/ f \in loaded'
    BY <2>1, <2>2 DEF Insert
  <2>3. ASSUME NEW c \in Client, HandleChange(c) \/ Pull(c) \/ Reload(c)
        PROVE  (\E keys \in touched' : f \in keys) \/ f \in loaded'
    BY <2>1, <2>3 DEF HandleChange, Pull, Reload
  <2>4. ASSUME NEW c \in Client, Push(c)
        PROVE  (\E keys \in touched' : f \in keys) \/ f \in loaded'
    <3> DEFINE changed == Changed(srv, Merge(srv, ydoc[c]))
    <3>1. touched' = touched \cup {changed} /\ loaded' = loaded \ changed
      BY <2>4 DEF Push
    <3>2. CASE f \in changed
      BY <3>1, <3>2
    <3>3. CASE f \notin changed
      <4>1. srv'[f] = srv[f]
        BY <2>0, <2>4, <3>3 DEF Push, Changed
      <4>2. f \in Present(srv)
        BY <2>0, <4>1 DEF Present
      <4> QED
        BY <3>1, <3>3, <4>2 DEF PrunedUnlessLoaded
    <3> QED
      BY <3>2, <3>3
  <2>5. ASSUME NEW keys \in SUBSET File, Observe(keys)
        PROVE  (\E k \in touched' : f \in k) \/ f \in loaded'
    <3>1. f \notin Pruned(keys)
      BY <2>0, <2>5 DEF Observe, Present, TypeInv, Map, Entry
    <3>2. srv'[f] = srv[f]
      BY <2>0, <2>5, <3>1 DEF Observe
    <3>3. f \in Present(srv)
      BY <2>0, <3>2 DEF Present
    <3>4. f \notin keys
      BY <3>1, <3>3 DEF Pruned
    <3> QED
      BY <2>5, <3>1, <3>3, <3>4 DEF Observe, PrunedUnlessLoaded
  <2>6. CASE Flush
    BY <2>1, <2>6 DEF Flush
  <2>7. CASE Restart
    BY <2>0, <2>7 DEF Restart, Present
  <2>8. CASE UNCHANGED vars
    BY <2>1, <2>8 DEF vars
  <2> QED
    BY <2>2, <2>3, <2>4, <2>5, <2>6, <2>7, <2>8 DEF Next
<1> QED
  BY <1>1, <1>2, TypeAlways, PTL DEF Spec

-----------------------------------------------------------------------------
(* An editor holds every allowed file of its document, and one of another  *)
(* type only from its own user (binding.ts:134-136, 147-150, 164-178).     *)
THEOREM EditorsFollow == Spec => []EditorFollowsDoc
<1>1. Init => EditorFollowsDoc
  <2>1. Present(Empty) = {}
    BY DEF Present, Empty, Unset
  <2> QED
    BY <2>1 DEF Init, EditorFollowsDoc
<1>2. TypeInv /\ EditorFollowsDoc /\ [Next]_vars => EditorFollowsDoc'
  <2> SUFFICES ASSUME TypeInv, EditorFollowsDoc, [Next]_vars
               PROVE  EditorFollowsDoc'
    OBVIOUS
  <2> USE DEF EditorFollowsDoc, TypeInv, editorVars, serverVars
  <2>1. ASSUME UNCHANGED <<ydoc, files, own>> PROVE EditorFollowsDoc'
    BY <2>1 DEF Present
  <2>2. ASSUME NEW c \in Client, NEW f \in File, Insert(c, f)
        PROVE  EditorFollowsDoc'
    BY <2>2 DEF Insert, Present
  <2>3. ASSUME NEW c \in Client, HandleChange(c) PROVE EditorFollowsDoc'
    <3>1. \A d \in Client \ {c} : ydoc'[d] = ydoc[d]
      BY <2>3 DEF HandleChange
    <3>2. Present(ydoc'[c]) \subseteq Present(ydoc[c]) \cup files[c]
      BY <2>3 DEF HandleChange, Present, Written
    <3> QED
      BY <2>3, <3>1, <3>2 DEF HandleChange
  <2>4. ASSUME NEW c \in Client, Pull(c) PROVE EditorFollowsDoc'
    <3> DEFINE map == Merge(ydoc[c], srv)
    <3>1. /\ ydoc' = [ydoc EXCEPT ![c] = map]
          /\ files' = [files EXCEPT ![c] = @ \cup PushFiles(c, map)]
          /\ own' = own
      BY <2>4 DEF Pull
    <3> HIDE DEF map
    <3> QED
      BY <3>1 DEF PushFiles
  <2>5. ASSUME NEW c \in Client, Reload(c) PROVE EditorFollowsDoc'
    BY <2>5 DEF Reload, Present, Empty, Unset
  <2>6. ASSUME NEW c \in Client, Push(c) PROVE EditorFollowsDoc'
    BY <2>1, <2>6 DEF Push
  <2>7. ASSUME NEW keys \in SUBSET File, Observe(keys) PROVE EditorFollowsDoc'
    BY <2>1, <2>7 DEF Observe
  <2>8. CASE Flush \/ Restart \/ UNCHANGED vars
    BY <2>1, <2>8 DEF Flush, Restart, vars
  <2> QED
    BY <2>2, <2>3, <2>4, <2>5, <2>6, <2>7, <2>8 DEF Next
<1> QED
  BY <1>1, <1>2, TypeAlways, PTL DEF Spec

-----------------------------------------------------------------------------
(* What was written and is gone was pruned.                                *)
GonePruned(map) == \A f \in File : map[f].n > 0 /\ map[f].gone => f \in Oversized

GoneInv ==
  /\ \A c \in Client : GonePruned(ydoc[c])
  /\ GonePruned(srv) /\ GonePruned(saved)

(* Merging brings back nothing, and deletes nothing that was not deleted.  *)
LEMMA MergeGone ==
  ASSUME NEW map \in Map, NEW other \in Map, GonePruned(map), GonePruned(other)
  PROVE  GonePruned(Merge(map, other))
<1> SUFFICES ASSUME NEW f \in File, Merge(map, other)[f].n > 0, Merge(map, other)[f].gone
             PROVE  f \in Oversized
  BY DEF GonePruned
<1>1. map[f] \in Entry /\ other[f] \in Entry
  BY DEF Map
<1>2. CASE Later(map[f], other[f])
  BY <1>2 DEF Merge, GonePruned
<1>3. CASE Later(other[f], map[f])
  BY <1>1, <1>3 DEF Merge, GonePruned, Later, Entry
<1>4. CASE ~Later(map[f], other[f]) /\ ~Later(other[f], map[f])
  <2>1. map[f].n = other[f].n
    BY <1>1, <1>4 DEF Later, Entry
  <2>2. Merge(map, other)[f] = [map[f] EXCEPT !.gone = map[f].gone \/ other[f].gone]
    BY <1>4 DEF Merge
  <2>3. Merge(map, other)[f].n = map[f].n
    BY <1>1, <2>2 DEF Entry
  <2>4. map[f].gone \/ other[f].gone
    BY <1>1, <2>2, Zenon DEF Entry
  <2> QED
    BY <2>1, <2>3, <2>4 DEF GonePruned
<1> QED
  BY <1>2, <1>3, <1>4

(* GoneInv is inductive.                                                   *)
LEMMA GoneInductive ==
  ASSUME TypeInv, GoneInv, [Next]_vars
  PROVE  GoneInv'
<1> USE DEF GoneInv, TypeInv, editorVars, serverVars
<1>1. ASSUME UNCHANGED <<ydoc, srv, saved>> PROVE GoneInv'
  BY <1>1 DEF GonePruned
<1>2. ASSUME NEW c \in Client, NEW f \in File, Insert(c, f) PROVE GoneInv'
  BY <1>1, <1>2 DEF Insert
<1>3. ASSUME NEW c \in Client, HandleChange(c) PROVE GoneInv'
  <2>1. /\ \A d \in Client \ {c} : ydoc'[d] = ydoc[d]
        /\ \A f \in File : ydoc'[c][f].gone => ydoc'[c][f] = ydoc[c][f]
    BY <1>3 DEF HandleChange
  <2>2. \A d \in Client : GonePruned(ydoc'[d])
    BY <2>1 DEF GonePruned
  <2> QED
    BY <1>3, <2>2 DEF HandleChange, GonePruned
<1>4. ASSUME NEW c \in Client, Pull(c) PROVE GoneInv'
  <2>1. GonePruned(Merge(ydoc[c], srv))
    BY MergeGone
  <2>2. ydoc' = [ydoc EXCEPT ![c] = Merge(ydoc[c], srv)]
    BY <1>4 DEF Pull
  <2>3. \A d \in Client : GonePruned(ydoc'[d])
    BY <2>1, <2>2
  <2> QED
    BY <1>4, <2>3 DEF Pull, GonePruned
<1>5. ASSUME NEW c \in Client, Reload(c) PROVE GoneInv'
  <2>1. GonePruned(Empty)
    BY DEF GonePruned, Empty, Unset
  <2>2. \A d \in Client : GonePruned(ydoc'[d])
    BY <1>5, <2>1 DEF Reload
  <2> QED
    BY <1>5, <2>2 DEF Reload, GonePruned
<1>6. ASSUME NEW c \in Client, Push(c) PROVE GoneInv'
  <2>1. GonePruned(Merge(srv, ydoc[c]))
    BY MergeGone
  <2> QED
    BY <1>6, <2>1 DEF Push, GonePruned
<1>7. ASSUME NEW keys \in SUBSET File, Observe(keys) PROVE GoneInv'
  <2>1. \A f \in File \ Pruned(keys) : srv'[f] = srv[f]
    BY <1>7 DEF Observe
  <2>2. Pruned(keys) \subseteq Oversized
    BY DEF Pruned
  <2>3. GonePruned(srv')
    BY <2>1, <2>2 DEF GonePruned
  <2> QED
    BY <1>7, <2>3 DEF Observe, GonePruned
<1>8. CASE Flush
  BY <1>8 DEF Flush, GonePruned
<1>9. CASE Restart
  BY <1>9 DEF Restart, GonePruned
<1>10. CASE UNCHANGED vars
  BY <1>1, <1>10 DEF vars
<1> QED
  BY <1>2, <1>3, <1>4, <1>5, <1>6, <1>7, <1>8, <1>9, <1>10 DEF Next

(* An onChange writes a file into the document once more only if a server  *)
(* has pruned it (binding.ts:134-136).                                     *)
THEOREM OnlyPrunedEcho == Spec => EchoOnlyPruned
<1> DEFINE Fresh == \A c \in Client : HandleChange(c) =>
             \A f \in Written(c) : ydoc[c][f].n > 0 => f \in Oversized
<1>1. Init => GoneInv
  BY DEF Init, GoneInv, GonePruned, Empty, Unset
<1>2. TypeInv /\ GoneInv /\ [Next]_vars => GoneInv'
  BY GoneInductive
<1>3. TypeInv /\ GoneInv => Fresh
  <2> SUFFICES ASSUME TypeInv, GoneInv, NEW c \in Client, NEW f \in Written(c),
                      ydoc[c][f].n > 0
               PROVE  f \in Oversized
    OBVIOUS
  <2>1. f \in File /\ ydoc[c][f].gone
    BY DEF Written, Present, TypeInv
  <2> QED
    BY <2>1 DEF GoneInv, GonePruned
<1>4. TypeInv /\ GoneInv => [Fresh]_vars
  BY <1>3
<1> QED
  BY <1>1, <1>2, <1>4, TypeAlways, PTL DEF Spec, EchoOnlyPruned
=============================================================================
