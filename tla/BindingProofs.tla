---------------------------- MODULE BindingProofs ----------------------------
(***************************************************************************)
(* The Yjs <-> Excalidraw binding, for any clients, boards and elements:   *)
(* proofs about ExcalidrawBinding, whether the host mounts a new editor    *)
(* for another board or not and whether the editor copies what it changes  *)
(* or not.                                                                 *)
(***************************************************************************)
EXTENDS ExcalidrawBinding, SequenceTheorems, TLAPS

Entry == [path : Seq(Client), el : Element \cup {NoElem}, present : BOOLEAN,
          asWritten : BOOLEAN]

WellFormed == {entry \in Entry :
  entry.present => entry.path # <<>> /\ entry.el # NoElem}

TypeInv ==
  /\ board \in [Client -> Board]
  /\ doc \in [Client -> [Board -> [Id -> WellFormed]]]
  /\ scene \in [Client -> [Id -> Element \cup {NoElem}]]
  /\ due \in [Client -> {"none", "render", "edit", "kept"}]
  /\ leaked \in [Board -> SUBSET Id]

-----------------------------------------------------------------------------
(* A key nobody has written.                                               *)
LEMMA UnsetOK == Unset \in WellFormed /\ ~Unset.present
BY DEF Unset, WellFormed, Entry

(* The scene that shows a map, and what each of its elements is.           *)
LEMMA ElementsShow ==
  ASSUME NEW ymap \in [Id -> WellFormed]
  PROVE  /\ Elements(ymap) \in [Id -> Element \cup {NoElem}]
         /\ \A id \in Id : /\ ymap[id].present => /\ Elements(ymap)[id] = ymap[id].el
                                                  /\ Elements(ymap)[id] # NoElem
                           /\ ~ymap[id].present => Elements(ymap)[id] = NoElem
BY DEF Elements, WellFormed, Entry

(* What handleChange makes of an entry shows the element it was given.     *)
LEMMA WrittenShows ==
  ASSUME NEW c \in Client, NEW entry \in WellFormed, NEW el \in Element \cup {NoElem}
  PROVE  /\ Written(c, entry, el) \in WellFormed
         /\ IF Written(c, entry, el).present THEN Written(c, entry, el).el = el
                                             ELSE el = NoElem
<1>1. entry \in Entry /\ entry.path \in Seq(Client)
  BY DEF WellFormed, Entry
<1>2. CASE Differs(entry, el)
  <2> DEFINE new == [path |-> Append(entry.path, c), el |-> el, present |-> TRUE,
                     asWritten |-> TRUE]
  <2>1. Written(c, entry, el) = new /\ el # NoElem
    BY <1>2 DEF Written, Differs
  <2>2. Append(entry.path, c) \in Seq(Client) /\ Append(entry.path, c) # <<>>
    BY <1>1
  <2> QED
    BY <2>1, <2>2 DEF WellFormed, Entry
<1>3. CASE ~Differs(entry, el) /\ el = NoElem
  BY <1>1, <1>3 DEF Written, WellFormed, Entry
<1>4. CASE ~Differs(entry, el) /\ el # NoElem
  <2>1. entry.present /\ entry.el = el
    BY <1>4 DEF Differs
  <2>2. Written(c, entry, el) = entry
    BY <1>4 DEF Written
  <2> QED
    BY <2>1, <2>2
<1> QED
  BY <1>2, <1>3, <1>4

(* It leaves an entry alone whose element it is given.                     *)
LEMMA WrittenSame ==
  ASSUME NEW c \in Client, NEW entry \in WellFormed, NEW el,
         el = IF entry.present THEN entry.el ELSE NoElem
  PROVE  Written(c, entry, el) = entry
<1>1. ~Differs(entry, el)
  BY DEF Differs
<1>2. CASE entry.present
  BY <1>1, <1>2 DEF Written, WellFormed
<1>3. CASE ~entry.present
  <2>1. entry = [entry EXCEPT !.present = FALSE]
    BY <1>3 DEF WellFormed, Entry
  <2>2. el = NoElem
    BY <1>3
  <2> QED
    BY <1>1, <2>1, <2>2 DEF Written
<1> QED
  BY <1>2, <1>3

(* Merging two entries.                                                    *)
LEMMA MergedOK ==
  ASSUME NEW mine \in WellFormed, NEW theirs \in WellFormed
  PROVE  /\ Merged(mine, theirs) \in WellFormed
         /\ mine = Unset /\ theirs = Unset => Merged(mine, theirs) = Unset
<1> DEFINE both == [mine EXCEPT !.present = mine.present /\ theirs.present]
<1>1. both \in WellFormed
  BY DEF WellFormed, Entry
<1>2. mine = Unset => both = Unset
  <2>1. mine = Unset => ~mine.present
    BY UnsetOK
  <2> SUFFICES ASSUME mine = Unset PROVE both = mine
    OBVIOUS
  <2>2. both = [mine EXCEPT !.present = FALSE]
    BY <2>1
  <2>3. mine = [mine EXCEPT !.present = FALSE]
    BY <2>1 DEF WellFormed, Entry
  <2> QED
    BY <2>2, <2>3
<1>3. Merged(mine, theirs) \in {mine, theirs, both}
  BY DEF Merged
<1> HIDE DEF both
<1> QED
  BY <1>1, <1>2, <1>3

-----------------------------------------------------------------------------
(* The steps of the binding.                                               *)

(* A change shows in the scene.  In the document it shows in no other      *)
(* client's copy and in no entry nobody has written; it adds no write, and *)
(* an entry that it does change is not as it was written.                  *)
LEMMA ChangeStep ==
  ASSUME TypeInv, NEW c \in Client, NEW id \in Id, NEW el \in Element,
         NEW boards \in SUBSET Aliases(c, id), Change(c, id, el, boards)
  PROVE  /\ TypeInv'
         /\ board' = board /\ due'[c] = "edit" /\ leaked' = leaked
         /\ \A b \in Board, x \in Id :
              /\ doc[c][b][x] = Unset => doc'[c][b][x] = Unset
              /\ doc'[c][b][x].path = doc[c][b][x].path
              /\ doc'[c][b][x] = doc[c][b][x] \/ ~doc'[c][b][x].asWritten
         /\ scene'[c][id] = el
         /\ \A x \in Id \ {id} : scene'[c][x] = scene[c][x]
         /\ \A o \in Client \ {c} : /\ scene'[o] = scene[o] /\ due'[o] = due[o]
                                    /\ doc'[o] = doc[o]
<1> DEFINE after == [b \in Board |->
             IF b \in boards
               THEN [doc[c][b] EXCEPT ![id] = [@ EXCEPT !.el = el, !.asWritten = FALSE]]
               ELSE doc[c][b]]
<1>1. /\ board' = board /\ leaked' = leaked
      /\ scene' = [scene EXCEPT ![c][id] = el]
      /\ due' = [due EXCEPT ![c] = "edit"]
      /\ doc' = [doc EXCEPT ![c] = after]
  BY DEF Change, InPlace
<1>2. ASSUME NEW b \in Board
      PROVE  /\ after[b] \in [Id -> WellFormed]
             /\ \A x \in Id :
                  /\ doc[c][b][x] = Unset => after[b][x] = Unset
                  /\ after[b][x].path = doc[c][b][x].path
                  /\ after[b][x] = doc[c][b][x] \/ ~after[b][x].asWritten
  <2>1. doc[c][b] \in [Id -> WellFormed]
    BY DEF TypeInv
  <2>2. CASE b \notin boards
    BY <2>1, <2>2
  <2>3. CASE b \in boards
    <3> DEFINE old == doc[c][b][id]
               new == [old EXCEPT !.el = el, !.asWritten = FALSE]
    <3>1. old \in WellFormed /\ old.present
      BY <2>1, <2>3 DEF Aliases
    <3>2. /\ new \in WellFormed /\ old # Unset
          /\ new.path = old.path /\ ~new.asWritten
      BY <3>1, UnsetOK, NoElemAssumption DEF WellFormed, Entry
    <3>3. after[b] = [doc[c][b] EXCEPT ![id] = new]
      BY <2>1, <2>3
    <3> HIDE DEF new, after
    <3> QED
      BY <2>1, <3>1, <3>2, <3>3
  <2> QED
    BY <2>2, <2>3
<1>3. after \in [Board -> [Id -> WellFormed]]
  BY <1>2
<1> HIDE DEF after
<1>4. TypeInv'
  BY <1>1, <1>3 DEF TypeInv
<1>5. doc'[c] = after /\ \A o \in Client \ {c} : doc'[o] = doc[o]
  BY <1>1 DEF TypeInv
<1> QED
  BY <1>1, <1>2, <1>4, <1>5 DEF TypeInv

(* Drawing and editing change one element: a new one of the board's, or    *)
(* one that the editor has.                                                *)
LEMMA DrawStep ==
  ASSUME TypeInv, NEW c \in Client, NEW id \in Id, Draw(c, id)
  PROVE  /\ \E el \in Element, boards \in SUBSET Aliases(c, id) :
              Change(c, id, el, boards)
         /\ BoardOf[id] = board[c]
<1>1. [by |-> c, version |-> 1, isDeleted |-> FALSE] \in Element
  BY DEF Element
<1>2. {} \in SUBSET Aliases(c, id)
  OBVIOUS
<1> QED
  BY <1>1, <1>2 DEF Draw

LEMMA EditStep ==
  ASSUME TypeInv, NEW c \in Client, NEW id \in Id, Edit(c, id)
  PROVE  /\ \E el \in Element, boards \in SUBSET Aliases(c, id) :
              Change(c, id, el, boards)
         /\ scene[c][id] # NoElem
<1>1. scene[c][id] \in Element
  BY DEF Edit, TypeInv
<1>2. \A isDeleted \in BOOLEAN :
        [by |-> c, version |-> scene[c][id].version + 1, isDeleted |-> isDeleted]
          \in Element
  BY <1>1 DEF Element
<1> QED
  BY <1>1, <1>2, NoElemAssumption DEF Edit

(* A pruned element is missing from the scene until onChange says so.      *)
LEMMA PruneStep ==
  ASSUME TypeInv, NEW c \in Client, NEW id \in Id, Prune(c, id)
  PROVE  /\ TypeInv'
         /\ board' = board /\ doc' = doc /\ leaked' = leaked /\ due'[c] = "edit"
         /\ \A x \in Id : scene'[c][x] \in {scene[c][x], NoElem}
         /\ \A o \in Client \ {c} : scene'[o] = scene[o] /\ due'[o] = due[o]
<1>1. /\ doc' = doc /\ board' = board /\ leaked' = leaked
      /\ scene' = [scene EXCEPT ![c][id] = NoElem]
      /\ due' = [due EXCEPT ![c] = "edit"]
  BY DEF Prune
<1>2. TypeInv'
  BY <1>1 DEF TypeInv
<1> QED
  BY <1>1, <1>2 DEF TypeInv

(* handleChange writes the scene into the map of the board that is shown.  *)
LEMMA HandleStep ==
  ASSUME TypeInv, NEW c \in Client, HandleChange(c)
  PROVE  /\ TypeInv'
         /\ board' = board /\ scene' = scene /\ leaked' = leaked
         /\ \A id \in Id : doc'[c][board[c]][id] =
                             Written(c, doc[c][board[c]][id], scene[c][id])
         /\ \A b \in Board \ {board[c]} : doc'[c][b] = doc[c][b]
         /\ \A o \in Client \ {c} : doc'[o] = doc[o] /\ due'[o] = due[o]
<1> DEFINE ymap == [id \in Id |-> Written(c, doc[c][board[c]][id], scene[c][id])]
<1>1. /\ board' = board /\ scene' = scene /\ leaked' = leaked
      /\ doc' = [doc EXCEPT ![c][board[c]] = ymap]
      /\ due' = [due EXCEPT ![c] = "none"]
  BY DEF HandleChange, Shown
<1>2. board[c] \in Board
  BY DEF TypeInv
<1>3. \A id \in Id : doc[c][board[c]][id] \in WellFormed
                       /\ scene[c][id] \in Element \cup {NoElem}
  BY <1>2 DEF TypeInv
<1>4. ymap \in [Id -> WellFormed]
  BY <1>3, WrittenShows
<1>5. \A id \in Id : ymap[id] = Written(c, doc[c][board[c]][id], scene[c][id])
  OBVIOUS
<1> HIDE DEF ymap
<1>6. doc' \in [Client -> [Board -> [Id -> WellFormed]]]
  BY <1>1, <1>2, <1>4 DEF TypeInv
<1>7. doc'[c][board[c]] = ymap
  BY <1>1, <1>2 DEF TypeInv
<1>8. TypeInv'
  BY <1>1, <1>6 DEF TypeInv
<1> QED
  BY <1>1, <1>5, <1>7, <1>8 DEF TypeInv

(* An update changes one map, and the scene if that map is shown.          *)
LEMMA ReceiveStep ==
  ASSUME TypeInv, NEW c \in Client, NEW d \in Client, NEW b \in Board,
         Receive(c, d, b)
  PROVE  /\ TypeInv'
         /\ board' = board /\ leaked' = leaked
         /\ \A id \in Id : doc'[c][b][id] = Merged(doc[c][b][id], doc[d][b][id])
         /\ \A a \in Board \ {b} : doc'[c][a] = doc[c][a]
         /\ \A o \in Client \ {c} : /\ doc'[o] = doc[o] /\ scene'[o] = scene[o]
                                    /\ due'[o] = due[o]
         /\ b = board[c] => scene'[c] = Elements(doc'[c][b])
         /\ b # board[c] => scene'[c] = scene[c] /\ due'[c] = due[c]
<1> DEFINE ymap == [id \in Id |-> Merged(doc[c][b][id], doc[d][b][id])]
<1>1. /\ board' = board /\ leaked' = leaked
      /\ doc' = [doc EXCEPT ![c][b] = ymap]
      /\ IF b = board[c] THEN /\ scene' = [scene EXCEPT ![c] = Elements(ymap)]
                              /\ due' = [due EXCEPT ![c] = "render"]
                         ELSE scene' = scene /\ due' = due
  BY DEF Receive, Observed, RenderFromDoc
<1>2. \A id \in Id : doc[c][b][id] \in WellFormed /\ doc[d][b][id] \in WellFormed
  BY DEF TypeInv
<1>3. ymap \in [Id -> WellFormed]
  BY <1>2, MergedOK
<1>4. \A id \in Id : ymap[id] = Merged(doc[c][b][id], doc[d][b][id])
  OBVIOUS
<1> HIDE DEF ymap
<1>5. Elements(ymap) \in [Id -> Element \cup {NoElem}]
  BY <1>3, ElementsShow
<1>6. doc' \in [Client -> [Board -> [Id -> WellFormed]]]
  BY <1>1, <1>3 DEF TypeInv
<1>7. doc'[c][b] = ymap
  BY <1>1 DEF TypeInv
<1>8. TypeInv'
  BY <1>1, <1>5, <1>6 DEF TypeInv
<1> QED
  BY <1>1, <1>4, <1>7, <1>8 DEF TypeInv

(* An editor that comes to a board shows its document, or keeps what it    *)
(* held; that is noted for a board without elements.                       *)
LEMMA SwitchStep ==
  ASSUME TypeInv, NEW c \in Client, NEW b \in Board, SwitchBoard(c, b)
  PROVE  /\ TypeInv'
         /\ doc' = doc /\ board'[c] = b /\ due'[c] # "edit"
         /\ Settled(c)' => scene'[c] = Elements(doc[c][b])
         /\ \A id \in Id : scene'[c][id] # NoElem =>
              scene'[c][id] = Elements(doc[c][b])[id] \/ id \in leaked'[b]
         /\ \A a \in Board : leaked[a] \subseteq leaked'[a]
         /\ \A o \in Client \ {c} : /\ board'[o] = board[o] /\ scene'[o] = scene[o]
                                    /\ due'[o] = due[o]
<1> DEFINE ymap == doc[c][b]
<1>1. ymap \in [Id -> WellFormed] /\ scene[c] \in [Id -> Element \cup {NoElem}]
  BY DEF TypeInv
<1>2. Elements(ymap) \in [Id -> Element \cup {NoElem}]
  BY <1>1, ElementsShow
<1>3. PICK mounted \in {scene[c], Blank} :
        /\ LoadInitial(c, ymap, mounted)
        /\ leaked' = [leaked EXCEPT ![b] =
             IF Elements(ymap) = Blank
               THEN @ \cup {id \in Id : mounted[id] # NoElem} ELSE @]
  BY DEF SwitchBoard
<1>4. mounted \in [Id -> Element \cup {NoElem}]
  BY <1>1 DEF Blank
<1>5. doc' = doc /\ board' = [board EXCEPT ![c] = b]
  BY DEF SwitchBoard
<1> HIDE DEF ymap
<1>6. /\ leaked' \in [Board -> SUBSET Id]
      /\ \A a \in Board : leaked[a] \subseteq leaked'[a]
      /\ Elements(ymap) = Blank =>
           \A id \in Id : mounted[id] # NoElem => id \in leaked'[b]
  BY <1>3 DEF TypeInv
<1>7. PICK shown \in {Elements(ymap), mounted}, d \in {"render", "kept"} :
        /\ scene' = [scene EXCEPT ![c] = shown] /\ due' = [due EXCEPT ![c] = d]
        /\ d = "render" => shown = Elements(ymap)
        /\ shown = Elements(ymap) \/ (Elements(ymap) = Blank /\ shown = mounted)
  <2>1. CASE RenderFromDoc(c, ymap)
    BY <2>1 DEF RenderFromDoc
  <2>2. CASE Elements(ymap) = Blank /\ KeepScene(c, ymap, mounted)
    BY <2>2 DEF KeepScene
  <2> QED
    BY <1>3, <2>1, <2>2 DEF LoadInitial
<1>8. shown \in [Id -> Element \cup {NoElem}]
  BY <1>2, <1>4
<1>9. TypeInv'
  BY <1>5, <1>6, <1>7, <1>8 DEF TypeInv
<1>10. scene'[c] = shown /\ due'[c] = d /\ board'[c] = b
  BY <1>5, <1>7 DEF TypeInv
<1> QED
  BY <1>5, <1>6, <1>7, <1>9, <1>10 DEF TypeInv, Settled, ymap

-----------------------------------------------------------------------------
(* TypeInv is inductive.                                                   *)
LEMMA TypeInductive == TypeInv /\ [Next]_vars => TypeInv'
<1> SUFFICES ASSUME TypeInv, [Next]_vars PROVE TypeInv'
  OBVIOUS
<1>1. ASSUME NEW c \in Client, NEW id \in Id, Draw(c, id) PROVE TypeInv'
  BY <1>1, DrawStep, ChangeStep
<1>2. ASSUME NEW c \in Client, NEW id \in Id, Edit(c, id) PROVE TypeInv'
  BY <1>2, EditStep, ChangeStep
<1>3. ASSUME NEW c \in Client, NEW id \in Id, Prune(c, id) PROVE TypeInv'
  BY <1>3, PruneStep
<1>4. ASSUME NEW c \in Client, HandleChange(c) PROVE TypeInv'
  BY <1>4, HandleStep
<1>5. ASSUME NEW c \in Client, NEW d \in Client, NEW b \in Board, Receive(c, d, b)
      PROVE TypeInv'
  BY <1>5, ReceiveStep
<1>6. ASSUME NEW c \in Client, NEW b \in Board, SwitchBoard(c, b) PROVE TypeInv'
  BY <1>6, SwitchStep
<1>7. ASSUME UNCHANGED vars PROVE TypeInv'
  BY <1>7 DEF vars, TypeInv
<1> QED
  BY <1>1, <1>2, <1>3, <1>4, <1>5, <1>6, <1>7 DEF Next

(* TypeInv holds in every reachable state.                                 *)
LEMMA TypeAlways == Spec => []TypeInv
<1>1. Init => TypeInv
  BY UnsetOK DEF Init, Blank, TypeInv
<1>2. TypeInv /\ [Next]_vars => TypeInv'
  BY TypeInductive
<1> QED
  BY <1>1, <1>2, PTL DEF Spec

(* Every variable keeps its type: an entry that is present holds an        *)
(* element and has a writer (binding.ts:105-145).                          *)
THEOREM BindingTypes == Spec => []TypeOK
<1>1. TypeInv => TypeOK
  <2> SUFFICES ASSUME TypeInv PROVE TypeOK
    OBVIOUS
  <2>1. ASSUME NEW c \in Client, NEW b \in Board, NEW id \in Id
        PROVE  /\ doc[c][b][id].path \in Seq(Client)
               /\ doc[c][b][id].el \in Element \cup {NoElem}
               /\ doc[c][b][id].asWritten \in BOOLEAN
               /\ doc[c][b][id].present => /\ doc[c][b][id].path # <<>>
                                           /\ doc[c][b][id].el # NoElem
    <3>1. doc[c][b][id] \in WellFormed
      BY DEF TypeInv
    <3> QED
      BY <3>1 DEF WellFormed, Entry
  <2> QED
    BY <2>1 DEF TypeOK, TypeInv
<1>2. Spec => []TypeInv
  BY TypeAlways
<1> QED
  BY <1>1, <1>2, PTL

-----------------------------------------------------------------------------
(* Editor and document.                                                    *)

(* The map a client shows is well-formed.                                  *)
LEMMA ShownOK ==
  ASSUME TypeInv, NEW c \in Client
  PROVE  board[c] \in Board /\ Shown(c) \in [Id -> WellFormed]
BY DEF TypeInv, Shown

(* SceneIsDoc is inductive.                                                *)
LEMMA SceneInductive == TypeInv /\ SceneIsDoc /\ [Next]_vars => SceneIsDoc'
<1> SUFFICES ASSUME TypeInv, SceneIsDoc, [Next]_vars PROVE SceneIsDoc'
  OBVIOUS
<1> USE DEF SceneIsDoc, Settled
<1>1. ASSUME NEW c \in Client, NEW id \in Id, NEW el \in Element,
             NEW boards \in SUBSET Aliases(c, id), Change(c, id, el, boards)
      PROVE  SceneIsDoc'
  BY <1>1, ChangeStep DEF Shown
<1>2. ASSUME NEW c \in Client, NEW id \in Id, Draw(c, id) PROVE SceneIsDoc'
  BY <1>1, <1>2, DrawStep
<1>3. ASSUME NEW c \in Client, NEW id \in Id, Edit(c, id) PROVE SceneIsDoc'
  BY <1>1, <1>3, EditStep
<1>4. ASSUME NEW c \in Client, NEW id \in Id, Prune(c, id) PROVE SceneIsDoc'
  BY <1>4, PruneStep DEF Shown
<1>5. ASSUME NEW c \in Client, HandleChange(c) PROVE SceneIsDoc'
  <2>1. /\ TypeInv' /\ board' = board /\ scene' = scene
        /\ \A id \in Id : doc'[c][board[c]][id] =
                            Written(c, doc[c][board[c]][id], scene[c][id])
        /\ \A o \in Client \ {c} : doc'[o] = doc[o] /\ due'[o] = due[o]
    BY <1>5, HandleStep
  <2>2. scene[c] = Elements(doc'[c][board[c]])
    <3>1. doc'[c][board[c]] \in [Id -> WellFormed]
      BY <2>1, ShownOK DEF TypeInv
    <3>2. \A id \in Id : Elements(doc'[c][board[c]])[id] = scene[c][id]
      <4> SUFFICES ASSUME NEW id \in Id
                   PROVE  Elements(doc'[c][board[c]])[id] = scene[c][id]
        OBVIOUS
      <4>1. /\ doc[c][board[c]][id] \in WellFormed
            /\ scene[c][id] \in Element \cup {NoElem}
        BY ShownOK DEF TypeInv, Shown
      <4>2. IF doc'[c][board[c]][id].present
              THEN doc'[c][board[c]][id].el = scene[c][id]
              ELSE scene[c][id] = NoElem
        BY <2>1, <4>1, WrittenShows
      <4> QED
        BY <3>1, <4>2, ElementsShow
    <3>3. Elements(doc'[c][board[c]]) \in [Id -> Element \cup {NoElem}]
      BY <3>1, ElementsShow
    <3> QED
      BY <3>2, <3>3 DEF TypeInv
  <2> QED
    BY <2>1, <2>2 DEF Shown
<1>6. ASSUME NEW c \in Client, NEW d \in Client, NEW b \in Board, Receive(c, d, b)
      PROVE  SceneIsDoc'
  <2>1. /\ board' = board
        /\ \A a \in Board \ {b} : doc'[c][a] = doc[c][a]
        /\ \A o \in Client \ {c} : /\ doc'[o] = doc[o] /\ scene'[o] = scene[o]
                                   /\ due'[o] = due[o]
        /\ b = board[c] => scene'[c] = Elements(doc'[c][b])
        /\ b # board[c] => scene'[c] = scene[c] /\ due'[c] = due[c]
    BY <1>6, ReceiveStep
  <2>2. Settled(c)' => scene'[c] = Elements(doc'[c][board[c]])
    BY <2>1, ShownOK DEF Shown
  <2> QED
    BY <2>1, <2>2 DEF Shown
<1>7. ASSUME NEW c \in Client, NEW b \in Board, SwitchBoard(c, b) PROVE SceneIsDoc'
  BY <1>7, SwitchStep DEF Shown
<1>8. ASSUME UNCHANGED vars PROVE SceneIsDoc'
  BY <1>8 DEF vars, Shown
<1> QED
  BY <1>2, <1>3, <1>4, <1>5, <1>6, <1>7, <1>8 DEF Next

(* An editor in which the user has changed nothing since the last render   *)
(* or onChange shows its board's document and nothing else (binding.ts:99- *)
(* 162), unless it came from another board to one without elements.        *)
THEOREM SceneFollows == Spec => []SceneIsDoc
<1>1. Init => SceneIsDoc
  <2> SUFFICES ASSUME Init, NEW c \in Client PROVE scene[c] = Elements(Shown(c))
    BY DEF SceneIsDoc
  <2>1. Shown(c) = [id \in Id |-> Unset]
    BY DEF Init, Shown
  <2>2. Elements(Shown(c)) = Blank
    BY <2>1, UnsetOK DEF Elements, Blank
  <2> QED
    BY <2>2 DEF Init
<1>2. TypeInv /\ SceneIsDoc /\ [Next]_vars => SceneIsDoc'
  BY SceneInductive
<1>3. Spec => []TypeInv
  BY TypeAlways
<1> QED
  BY <1>1, <1>2, <1>3, PTL DEF Spec

(* An onChange that follows a render writes nothing (binding.ts:105-162).  *)
THEOREM RendersDoNotEcho == Spec => NoEcho
<1>1. TypeInv /\ SceneIsDoc =>
        \A c \in Client : HandleChange(c) /\ due[c] = "render" => UNCHANGED doc
  <2> SUFFICES ASSUME TypeInv, SceneIsDoc, NEW c \in Client, HandleChange(c),
                      due[c] = "render"
               PROVE  doc' = doc
    OBVIOUS
  <2>1. scene[c] = Elements(Shown(c)) /\ Shown(c) \in [Id -> WellFormed]
    BY ShownOK DEF SceneIsDoc, Settled
  <2>2. \A id \in Id : Written(c, Shown(c)[id], scene[c][id]) = Shown(c)[id]
    <3> SUFFICES ASSUME NEW id \in Id
                 PROVE  Written(c, Shown(c)[id], scene[c][id]) = Shown(c)[id]
      OBVIOUS
    <3>1. /\ Shown(c)[id] \in WellFormed
          /\ scene[c][id] = IF Shown(c)[id].present THEN Shown(c)[id].el ELSE NoElem
      BY <2>1 DEF Elements
    <3> QED
      BY <3>1, WrittenSame
  <2>3. [id \in Id |-> Written(c, Shown(c)[id], scene[c][id])] = Shown(c)
    BY <2>1, <2>2
  <2>4. doc' = [doc EXCEPT ![c][board[c]] = Shown(c)]
    BY <2>3 DEF HandleChange
  <2> QED
    BY <2>4, ShownOK DEF TypeInv, Shown
<1>2. Spec => []TypeInv /\ []SceneIsDoc
  BY TypeAlways, SceneFollows
<1>3. TypeInv /\ SceneIsDoc =>
        [\A c \in Client : HandleChange(c) /\ due[c] = "render" => UNCHANGED doc]_vars
  BY <1>1
<1> QED
  BY <1>2, <1>3, PTL DEF NoEcho

-----------------------------------------------------------------------------
(* Boards.                                                                 *)

(* The editor holds elements of its own board and what leaked into it.     *)
SceneOnBoard == \A c \in Client, id \in Id :
  scene[c][id] # NoElem => BoardOf[id] = board[c] \/ id \in leaked[board[c]]

BoardInv == OnlyEmptyBoardsLeak /\ SceneOnBoard

(* BoardInv is inductive.                                                  *)
LEMMA BoardInductive == TypeInv /\ BoardInv /\ [Next]_vars => BoardInv'
<1> SUFFICES ASSUME TypeInv, BoardInv, [Next]_vars PROVE BoardInv'
  OBVIOUS
<1> USE DEF BoardInv, OnlyEmptyBoardsLeak, SceneOnBoard
<1>1. ASSUME NEW c \in Client, NEW id \in Id, NEW el \in Element,
             NEW boards \in SUBSET Aliases(c, id), Change(c, id, el, boards),
             BoardOf[id] = board[c] \/ id \in leaked[board[c]]
      PROVE  BoardInv'
  BY <1>1, ChangeStep
<1>2. ASSUME NEW c \in Client, NEW id \in Id, Draw(c, id) PROVE BoardInv'
  BY <1>1, <1>2, DrawStep
<1>3. ASSUME NEW c \in Client, NEW id \in Id, Edit(c, id) PROVE BoardInv'
  BY <1>1, <1>3, EditStep
<1>4. ASSUME NEW c \in Client, NEW id \in Id, Prune(c, id) PROVE BoardInv'
  BY <1>4, PruneStep
<1>5. ASSUME NEW c \in Client, HandleChange(c) PROVE BoardInv'
  <2>1. /\ board' = board /\ scene' = scene /\ leaked' = leaked
        /\ \A id \in Id : doc'[c][board[c]][id] =
                            Written(c, doc[c][board[c]][id], scene[c][id])
        /\ \A b \in Board \ {board[c]} : doc'[c][b] = doc[c][b]
        /\ \A o \in Client \ {c} : doc'[o] = doc[o]
    BY <1>5, HandleStep
  <2>2. ASSUME NEW id \in Id, doc'[c][board[c]][id] # Unset
        PROVE  BoardOf[id] = board[c] \/ id \in leaked[board[c]]
    <3>1. CASE scene[c][id] # NoElem
      BY <3>1
    <3>2. CASE doc[c][board[c]][id] # Unset
      BY <3>2, ShownOK
    <3>3. CASE scene[c][id] = NoElem /\ doc[c][board[c]][id] = Unset
      <4>1. Written(c, Unset, NoElem) = Unset
        BY UnsetOK, WrittenSame
      <4> QED
        BY <2>1, <2>2, <3>3, <4>1
    <3> QED
      BY <3>1, <3>2, <3>3
  <2> QED
    BY <2>1, <2>2
<1>6. ASSUME NEW c \in Client, NEW d \in Client, NEW b \in Board, Receive(c, d, b)
      PROVE  BoardInv'
  <2>1. /\ TypeInv' /\ board' = board /\ leaked' = leaked
        /\ \A id \in Id : doc'[c][b][id] = Merged(doc[c][b][id], doc[d][b][id])
        /\ \A a \in Board \ {b} : doc'[c][a] = doc[c][a]
        /\ \A o \in Client \ {c} : doc'[o] = doc[o] /\ scene'[o] = scene[o]
        /\ b = board[c] => scene'[c] = Elements(doc'[c][b])
        /\ b # board[c] => scene'[c] = scene[c]
    BY <1>6, ReceiveStep
  <2>2. ASSUME NEW id \in Id, doc'[c][b][id] # Unset
        PROVE  BoardOf[id] = b \/ id \in leaked[b]
    <3>1. doc[c][b][id] \in WellFormed /\ doc[d][b][id] \in WellFormed
      BY DEF TypeInv
    <3>2. doc[c][b][id] # Unset \/ doc[d][b][id] # Unset
      BY <2>1, <2>2, <3>1, MergedOK
    <3> QED
      BY <3>2
  <2>3. ASSUME b = board[c], NEW id \in Id, scene'[c][id] # NoElem
        PROVE  BoardOf[id] = b \/ id \in leaked[b]
    <3>1. doc'[c][b] \in [Id -> WellFormed]
      BY <2>1 DEF TypeInv
    <3>2. doc'[c][b][id].present
      BY <2>1, <2>3, <3>1, ElementsShow
    <3> QED
      BY <2>2, <3>2, UnsetOK
  <2> QED
    BY <2>1, <2>2, <2>3
<1>7. ASSUME NEW c \in Client, NEW b \in Board, SwitchBoard(c, b) PROVE BoardInv'
  <2>1. /\ doc' = doc /\ board'[c] = b
        /\ \A id \in Id : scene'[c][id] # NoElem =>
             scene'[c][id] = Elements(doc[c][b])[id] \/ id \in leaked'[b]
        /\ \A a \in Board : leaked[a] \subseteq leaked'[a]
        /\ \A o \in Client \ {c} : board'[o] = board[o] /\ scene'[o] = scene[o]
    BY <1>7, SwitchStep
  <2>2. ASSUME NEW id \in Id, scene'[c][id] # NoElem, id \notin leaked'[b]
        PROVE  BoardOf[id] = b
    <3>1. doc[c][b] \in [Id -> WellFormed]
      BY DEF TypeInv
    <3>2. doc[c][b][id].present
      BY <2>1, <2>2, <3>1, ElementsShow
    <3> QED
      BY <2>1, <2>2, <3>2, UnsetOK
  <2>3. \A o \in Client : board'[o] \in Board /\ board[o] \in Board
    BY <1>7, SwitchStep DEF TypeInv
  <2> QED
    BY <2>1, <2>2, <2>3
<1>8. ASSUME UNCHANGED vars PROVE BoardInv'
  BY <1>8 DEF vars
<1> QED
  BY <1>2, <1>3, <1>4, <1>5, <1>6, <1>7, <1>8 DEF Next

(* What was drawn on one board gets into the document of another only      *)
(* where an editor that held it came to a board without elements           *)
(* (binding.ts:99-102, BoardApp.tsx:45-54).                                *)
THEOREM OnlyEmptyLeak == Spec => []OnlyEmptyBoardsLeak
<1>1. Init => BoardInv
  BY DEF Init, Blank, BoardInv, OnlyEmptyBoardsLeak, SceneOnBoard
<1>2. TypeInv /\ BoardInv /\ [Next]_vars => BoardInv'
  BY BoardInductive
<1>3. Spec => []TypeInv
  BY TypeAlways
<1>4. BoardInv => OnlyEmptyBoardsLeak
  BY DEF BoardInv
<1> QED
  BY <1>1, <1>2, <1>3, <1>4, PTL DEF Spec

-----------------------------------------------------------------------------
(* Chains of writes.                                                       *)

Chain == Seq(Client)

(* p goes ahead of q at its i-th write.                                    *)
At(p, q, i) ==
  /\ \A j \in 1 .. i - 1 : j <= Len(q) /\ p[j] = q[j]
  /\ i <= Len(q) => p[i] > q[i]

(* A chain that beats another goes ahead of it somewhere.                  *)
LEMMA BeatsAt ==
  ASSUME NEW p \in Chain, NEW q \in Chain, Beats(p, q)
  PROVE  \E i \in 1 .. Len(p) : At(p, q, i)
<1>1. CASE IsStrictPrefix(q, p)
  <2>1. /\ Len(q) <= Len(p) /\ q # p
        /\ SubSeq(q, 1, Len(q)) = SubSeq(p, 1, Len(q))
    BY <1>1 DEF IsStrictPrefix, IsPrefix
  <2>2. \A j \in 1 .. Len(q) : q[j] \in Client /\ p[j] \in Client
    BY <2>1, ElementOfSeq DEF Chain
  <2>3. \A j \in 1 .. Len(q) : p[j] = q[j]
    BY <2>1, <2>2, SubSeqProperties DEF Chain
  <2>4. Len(q) # Len(p)
    BY <2>1, <2>3, SeqEqual DEF Chain
  <2>5. Len(q) + 1 \in 1 .. Len(p) /\ At(p, q, Len(q) + 1)
    BY <2>1, <2>3, <2>4 DEF At, Chain
  <2> QED
    BY <2>5
<1>2. CASE \E i \in 1 .. Len(p) : /\ i <= Len(q)
                                  /\ SubSeq(p, 1, i - 1) = SubSeq(q, 1, i - 1)
                                  /\ p[i] > q[i]
  <2>1. PICK i \in 1 .. Len(p) : /\ i <= Len(q)
                                 /\ SubSeq(p, 1, i - 1) = SubSeq(q, 1, i - 1)
                                 /\ p[i] > q[i]
    BY <1>2
  <2>2. \A j \in 1 .. i - 1 : p[j] \in Client /\ q[j] \in Client
    BY <2>1, ElementOfSeq DEF Chain
  <2>3. \A j \in 1 .. i - 1 : p[j] = q[j]
    BY <2>1, <2>2, SubSeqProperties DEF Chain
  <2> QED
    BY <2>1, <2>3 DEF At, Chain
<1> QED
  BY <1>1, <1>2 DEF Beats

(* Going ahead is transitive, and not later than the first of the two.     *)
LEMMA AtTransitive ==
  ASSUME NEW p \in Chain, NEW q \in Chain, NEW r \in Chain,
         NEW i \in 1 .. Len(p), NEW j \in 1 .. Len(q), At(p, q, i), At(q, r, j)
  PROVE  \E k \in 1 .. i : At(p, r, k)
<1>1. \A k \in 1 .. Len(p) : p[k] \in Nat
  BY ElementOfSeq, BindingAssumption DEF Chain
<1>2. \A k \in 1 .. Len(q) : q[k] \in Nat
  BY ElementOfSeq, BindingAssumption DEF Chain
<1>3. \A k \in 1 .. Len(r) : r[k] \in Nat
  BY ElementOfSeq, BindingAssumption DEF Chain
<1>4. CASE i < j
  <2>1. At(p, r, i)
    BY <1>1, <1>2, <1>3, <1>4 DEF At, Chain
  <2> QED
    BY <2>1
<1>5. CASE i = j
  <2>1. At(p, r, i)
    BY <1>1, <1>2, <1>3, <1>5 DEF At, Chain
  <2> QED
    BY <2>1
<1>6. CASE j < i
  <2>1. At(p, r, j)
    BY <1>1, <1>2, <1>3, <1>6 DEF At, Chain
  <2> QED
    BY <1>6, <2>1
<1> QED
  BY <1>4, <1>5, <1>6 DEF Chain

(* No chain goes ahead of itself.                                          *)
LEMMA NotAtItself ==
  ASSUME NEW p \in Chain, NEW i \in 1 .. Len(p)
  PROVE  ~At(p, p, i)
<1>1. p[i] \in Client /\ i <= Len(p)
  BY ElementOfSeq DEF Chain
<1>2. p[i] \in Nat
  BY <1>1, BindingAssumption
<1> QED
  BY <1>1, <1>2 DEF At

-----------------------------------------------------------------------------
(* One key of the map at all clients: the chain P[c] and the entry L[c]    *)
(* that c has.  No write of c that another client knows is ahead of what c *)
(* itself has, so that what c writes next is new to everybody; one chain   *)
(* has one element, where it is as it was written.                         *)
OwnFirst(P) == \A c, d \in Client : \A i \in 1 .. Len(P[d]) :
  P[d][i] = c => \A k \in 1 .. i : ~At(P[d], P[c], k)

OneElement(P, L) == \A c, d \in Client :
  P[c] = P[d] /\ L[c].asWritten /\ L[d].asWritten => L[c].el = L[d].el

(* A client whose chain goes ahead of what it was keeps OwnFirst for the   *)
(* writes of its own that others know.                                     *)
LEMMA OwnFirstGrows ==
  ASSUME NEW P \in [Client -> Chain], OwnFirst(P), NEW c \in Client, NEW d \in Client,
         NEW q \in Chain, NEW j \in 1 .. Len(q), At(q, P[c], j),
         NEW i \in 1 .. Len(P[d]), P[d][i] = c, NEW k \in 1 .. i
  PROVE  ~At(P[d], q, k)
<1> SUFFICES ASSUME At(P[d], q, k) PROVE FALSE
  OBVIOUS
<1>1. P[d] \in Chain /\ P[c] \in Chain /\ k \in 1 .. Len(P[d])
  BY DEF Chain
<1>2. \E m \in 1 .. k : At(P[d], P[c], m)
  BY <1>1, AtTransitive
<1> QED
  BY <1>1, <1>2 DEF OwnFirst, Chain

(* A client writes.                                                        *)
LEMMA WriteChains ==
  ASSUME NEW P \in [Client -> Chain], NEW Q \in [Client -> Chain],
         NEW L, NEW M, NEW c \in Client, OwnFirst(P), OneElement(P, L),
         Q[c] = Append(P[c], c),
         \A o \in Client \ {c} : Q[o] = P[o] /\ M[o] = L[o]
  PROVE  OwnFirst(Q) /\ OneElement(Q, M)
<1>1. /\ P[c] \in Chain /\ Q[c] \in Chain /\ Len(P[c]) \in Nat
      /\ Len(Q[c]) = Len(P[c]) + 1 /\ Q[c][Len(Q[c])] = c
      /\ \A i \in 1 .. Len(P[c]) : Q[c][i] = P[c][i]
  BY AppendProperties DEF Chain
<1>2. Len(Q[c]) \in 1 .. Len(Q[c]) /\ At(Q[c], P[c], Len(Q[c]))
  BY <1>1 DEF At
<1>3. OwnFirst(Q)
  <2> SUFFICES ASSUME NEW a \in Client, NEW d \in Client, NEW i \in 1 .. Len(Q[d]),
                      Q[d][i] = a, NEW k \in 1 .. i
               PROVE  ~At(Q[d], Q[a], k)
    BY DEF OwnFirst
  <2>1. Q[d] \in Chain /\ k \in 1 .. Len(Q[d])
    BY DEF Chain
  <2>2. CASE a = d
    BY <2>1, <2>2, NotAtItself
  <2>3. CASE a # d /\ a = c
    <3>1. Q[d] = P[d] /\ i \in 1 .. Len(P[d]) /\ P[d][i] = c
      BY <2>3
    <3>2. ~At(P[d], Q[c], k)
      BY <1>1, <1>2, <3>1, OwnFirstGrows
    <3> QED
      BY <2>3, <3>1, <3>2
  <2>4. CASE a # d /\ d = c
    <3>1. i \in 1 .. Len(P[c]) /\ P[c][i] = a /\ Q[a] = P[a]
      BY <1>1, <2>4
    <3>2. ~At(P[c], P[a], k)
      BY <3>1 DEF OwnFirst
    <3>3. k \in 1 .. Len(P[c]) /\ \A j \in 1 .. k : Q[c][j] = P[c][j]
      BY <1>1, <3>1
    <3> QED
      BY <2>4, <3>1, <3>2, <3>3 DEF At
  <2>5. CASE a # d /\ a # c /\ d # c
    BY <2>5 DEF OwnFirst
  <2> QED
    BY <2>2, <2>3, <2>4, <2>5
<1>4. \A o \in Client \ {c} : P[o] # Q[c]
  <2> SUFFICES ASSUME NEW o \in Client \ {c}, P[o] = Q[c] PROVE FALSE
    OBVIOUS
  <2>1. At(P[o], P[c], Len(P[o])) /\ P[o][Len(P[o])] = c
        /\ Len(P[o]) \in 1 .. Len(P[o])
    BY <1>1, <1>2
  <2> QED
    BY <2>1 DEF OwnFirst
<1>5. OneElement(Q, M)
  BY <1>4 DEF OneElement
<1> QED
  BY <1>3, <1>5

(* A client takes over another's chain, which beats its own.               *)
LEMMA TakeChains ==
  ASSUME NEW P \in [Client -> Chain], NEW Q \in [Client -> Chain],
         NEW L, NEW M, NEW c \in Client, NEW s \in Client,
         OwnFirst(P), OneElement(P, L), Beats(P[s], P[c]),
         Q[c] = P[s], M[c].el = L[s].el, M[c].asWritten = L[s].asWritten,
         \A o \in Client \ {c} : Q[o] = P[o] /\ M[o] = L[o]
  PROVE  OwnFirst(Q) /\ OneElement(Q, M)
<1>1. PICK j \in 1 .. Len(P[s]) : At(P[s], P[c], j)
  BY BeatsAt
<1>2. OwnFirst(Q)
  <2> SUFFICES ASSUME NEW a \in Client, NEW d \in Client, NEW i \in 1 .. Len(Q[d]),
                      Q[d][i] = a, NEW k \in 1 .. i
               PROVE  ~At(Q[d], Q[a], k)
    BY DEF OwnFirst
  <2>1. Q[d] \in Chain /\ k \in 1 .. Len(Q[d])
    BY DEF Chain
  <2>2. CASE a = d
    BY <2>1, <2>2, NotAtItself
  <2>3. CASE a # d /\ a = c
    <3>1. Q[d] = P[d] /\ i \in 1 .. Len(P[d]) /\ P[d][i] = c
      BY <2>3
    <3>2. P[s] \in Chain
      OBVIOUS
    <3> QED
      BY <1>1, <2>3, <3>1, <3>2, OwnFirstGrows
  <2>4. CASE a # d /\ d = c
    <3>1. Q[d] = P[s] /\ Q[a] = P[a]
      BY <2>4
    <3> QED
      BY <3>1 DEF OwnFirst
  <2>5. CASE a # d /\ a # c /\ d # c
    BY <2>5 DEF OwnFirst
  <2> QED
    BY <2>2, <2>3, <2>4, <2>5
<1>3. OneElement(Q, M)
  BY DEF OneElement
<1> QED
  BY <1>2, <1>3

(* handleChange adds a write of the client's own or leaves chain and       *)
(* element alone.                                                          *)
LEMMA WrittenChain ==
  ASSUME NEW c \in Client, NEW entry \in WellFormed, NEW el
  PROVE  LET new == Written(c, entry, el) IN
         \/ new.path = Append(entry.path, c)
         \/ /\ new.path = entry.path
            /\ new.el = entry.el /\ new.asWritten = entry.asWritten
BY DEF Written, WellFormed, Entry

(* A merge takes the other's chain and element over, if the chain beats    *)
(* its own, or leaves both alone.                                          *)
LEMMA MergedChain ==
  ASSUME NEW mine \in WellFormed, NEW theirs \in WellFormed
  PROVE  LET new == Merged(mine, theirs) IN
         \/ /\ Beats(theirs.path, mine.path)
            /\ new.path = theirs.path
            /\ new.el = theirs.el /\ new.asWritten = theirs.asWritten
         \/ /\ new.path = mine.path
            /\ new.el = mine.el /\ new.asWritten = mine.asWritten
BY DEF Merged, WellFormed, Entry

-----------------------------------------------------------------------------
(* One key of one board's map.                                             *)
Paths(b, id) == [c \in Client |-> doc[c][b][id].path]
Els(b, id) == [c \in Client |-> doc[c][b][id]]

KeyInv(b, id) == OwnFirst(Paths(b, id)) /\ OneElement(Paths(b, id), Els(b, id))
ChainInv == \A b \in Board, id \in Id : KeyInv(b, id)

(* A key's chains and elements at all clients.                             *)
LEMMA PathsOK ==
  ASSUME TypeInv, NEW b \in Board, NEW id \in Id
  PROVE  /\ Paths(b, id) \in [Client -> Chain]
         /\ \A c \in Client : doc[c][b][id] \in WellFormed
BY DEF TypeInv, Paths, Chain, WellFormed, Entry

(* A step that changes no client's chain for a key, and its element only   *)
(* in place.                                                               *)
LEMMA KeyKept ==
  ASSUME NEW b \in Board, NEW id \in Id, KeyInv(b, id),
         \A c \in Client :
           /\ doc'[c][b][id].path = doc[c][b][id].path
           /\ \/ ~doc'[c][b][id].asWritten
              \/ /\ doc'[c][b][id].el = doc[c][b][id].el
                 /\ doc'[c][b][id].asWritten = doc[c][b][id].asWritten
  PROVE  KeyInv(b, id)'
<1>1. Paths(b, id)' = Paths(b, id)
  BY DEF Paths
<1>2. \A c \in Client : /\ Els(b, id)'[c] = doc'[c][b][id]
                        /\ Els(b, id)[c] = doc[c][b][id]
  BY DEF Els
<1>3. OwnFirst(Paths(b, id)')
  BY <1>1 DEF KeyInv
<1>4. OneElement(Paths(b, id)', Els(b, id)')
  <2> SUFFICES ASSUME NEW c \in Client, NEW d \in Client,
                      Paths(b, id)'[c] = Paths(b, id)'[d],
                      doc'[c][b][id].asWritten, doc'[d][b][id].asWritten
               PROVE  doc'[c][b][id].el = doc'[d][b][id].el
    BY <1>2 DEF OneElement
  <2> QED
    BY <1>1, <1>2 DEF KeyInv, OneElement
<1> QED
  BY <1>3, <1>4 DEF KeyInv, OwnFirst, OneElement

(* handleChange keeps KeyInv for every key.                                *)
LEMMA HandleKeys ==
  ASSUME TypeInv, NEW c \in Client, HandleChange(c),
         NEW b \in Board, NEW id \in Id, KeyInv(b, id)
  PROVE  KeyInv(b, id)'
<1> DEFINE P == Paths(b, id)
           L == Els(b, id)
           Q == Paths(b, id)'
           M == Els(b, id)'
<1>1. TypeInv'
  BY HandleStep
<1>2. P \in [Client -> Chain] /\ doc[c][b][id] \in WellFormed
  BY PathsOK
<1>3. Q \in [Client -> Chain]
  BY <1>1 DEF TypeInv, Paths, Chain, WellFormed, Entry
<1>4. \A o \in Client \ {c} : doc'[o] = doc[o]
  BY HandleStep
<1>5. \A o \in Client : /\ P[o] = doc[o][b][id].path /\ L[o] = doc[o][b][id]
                        /\ Q[o] = doc'[o][b][id].path /\ M[o] = doc'[o][b][id]
  BY DEF Paths, Els
<1>6. CASE b # board[c]
  <2>1. doc'[c][b] = doc[c][b]
    BY <1>6, HandleStep
  <2> QED
    BY <1>4, <2>1, KeyKept
<1>7. CASE b = board[c]
  <2>1. doc'[c][b][id] = Written(c, doc[c][b][id], scene[c][id])
    BY <1>7, HandleStep
  <2>2. \/ doc'[c][b][id].path = Append(doc[c][b][id].path, c)
        \/ /\ doc'[c][b][id].path = doc[c][b][id].path
           /\ doc'[c][b][id].el = doc[c][b][id].el
           /\ doc'[c][b][id].asWritten = doc[c][b][id].asWritten
    BY <1>2, <2>1, WrittenChain
  <2>3. CASE doc'[c][b][id].path = Append(doc[c][b][id].path, c)
    <3>1. Q[c] = Append(P[c], c) /\ \A o \in Client \ {c} : Q[o] = P[o] /\ M[o] = L[o]
      BY <1>4, <1>5, <2>3
    <3>2. OwnFirst(P) /\ OneElement(P, L)
      BY DEF KeyInv
    <3> HIDE DEF P, L, Q, M
    <3>3. OwnFirst(Q) /\ OneElement(Q, M)
      BY <1>2, <1>3, <3>1, <3>2, WriteChains
    <3> QED
      BY <3>3 DEF KeyInv, OwnFirst, OneElement, P, L, Q, M
  <2>4. CASE /\ doc'[c][b][id].path = doc[c][b][id].path
             /\ doc'[c][b][id].el = doc[c][b][id].el
             /\ doc'[c][b][id].asWritten = doc[c][b][id].asWritten
    BY <1>4, <2>4, KeyKept
  <2> QED
    BY <2>2, <2>3, <2>4
<1> QED
  BY <1>6, <1>7

(* Receiving keeps KeyInv for every key.                                   *)
LEMMA ReceiveKeys ==
  ASSUME TypeInv, NEW c \in Client, NEW d \in Client, NEW a \in Board,
         Receive(c, d, a), NEW b \in Board, NEW id \in Id, KeyInv(b, id)
  PROVE  KeyInv(b, id)'
<1> DEFINE P == Paths(b, id)
           L == Els(b, id)
           Q == Paths(b, id)'
           M == Els(b, id)'
<1>1. TypeInv'
  BY ReceiveStep
<1>2. /\ P \in [Client -> Chain]
      /\ doc[c][b][id] \in WellFormed /\ doc[d][b][id] \in WellFormed
  BY PathsOK
<1>3. Q \in [Client -> Chain]
  BY <1>1 DEF TypeInv, Paths, Chain, WellFormed, Entry
<1>4. \A o \in Client \ {c} : doc'[o] = doc[o]
  BY ReceiveStep
<1>5. \A o \in Client : /\ P[o] = doc[o][b][id].path /\ L[o] = doc[o][b][id]
                        /\ Q[o] = doc'[o][b][id].path /\ M[o] = doc'[o][b][id]
  BY DEF Paths, Els
<1>6. CASE b # a
  <2>1. doc'[c][b] = doc[c][b]
    BY <1>6, ReceiveStep
  <2> QED
    BY <1>4, <2>1, KeyKept
<1>7. CASE b = a
  <2>1. doc'[c][b][id] = Merged(doc[c][b][id], doc[d][b][id])
    BY <1>7, ReceiveStep
  <2>2. \/ /\ Beats(doc[d][b][id].path, doc[c][b][id].path)
           /\ doc'[c][b][id].path = doc[d][b][id].path
           /\ doc'[c][b][id].el = doc[d][b][id].el
           /\ doc'[c][b][id].asWritten = doc[d][b][id].asWritten
        \/ /\ doc'[c][b][id].path = doc[c][b][id].path
           /\ doc'[c][b][id].el = doc[c][b][id].el
           /\ doc'[c][b][id].asWritten = doc[c][b][id].asWritten
    BY <1>2, <2>1, MergedChain
  <2>3. CASE /\ Beats(doc[d][b][id].path, doc[c][b][id].path)
             /\ doc'[c][b][id].path = doc[d][b][id].path
             /\ doc'[c][b][id].el = doc[d][b][id].el
             /\ doc'[c][b][id].asWritten = doc[d][b][id].asWritten
    <3>1. /\ Beats(P[d], P[c]) /\ Q[c] = P[d]
          /\ M[c].el = L[d].el /\ M[c].asWritten = L[d].asWritten
          /\ \A o \in Client \ {c} : Q[o] = P[o] /\ M[o] = L[o]
      BY <1>4, <1>5, <2>3
    <3>2. OwnFirst(P) /\ OneElement(P, L)
      BY DEF KeyInv
    <3> HIDE DEF P, L, Q, M
    <3>3. OwnFirst(Q) /\ OneElement(Q, M)
      BY <1>2, <1>3, <3>1, <3>2, TakeChains
    <3> QED
      BY <3>3 DEF KeyInv, OwnFirst, OneElement, P, L, Q, M
  <2>4. CASE /\ doc'[c][b][id].path = doc[c][b][id].path
             /\ doc'[c][b][id].el = doc[c][b][id].el
             /\ doc'[c][b][id].asWritten = doc[c][b][id].asWritten
    BY <1>4, <2>4, KeyKept
  <2> QED
    BY <2>2, <2>3, <2>4
<1> QED
  BY <1>6, <1>7

(* ChainInv is inductive relative to TypeInv.                              *)
LEMMA ChainInductive == TypeInv /\ ChainInv /\ [Next]_vars => ChainInv'
<1> SUFFICES ASSUME TypeInv, ChainInv, [Next]_vars, NEW b \in Board, NEW id \in Id
             PROVE  KeyInv(b, id)'
  BY DEF ChainInv
<1>1. KeyInv(b, id)
  BY DEF ChainInv
<1>2. ASSUME doc' = doc PROVE KeyInv(b, id)'
  BY <1>1, <1>2, KeyKept
<1>3. ASSUME NEW c \in Client, NEW i \in Id, Draw(c, i) \/ Edit(c, i)
      PROVE  KeyInv(b, id)'
  <2>1. PICK el \in Element, boards \in SUBSET Aliases(c, i) : Change(c, i, el, boards)
    BY <1>3, DrawStep, EditStep
  <2>2. /\ doc'[c][b][id].path = doc[c][b][id].path
        /\ doc'[c][b][id] = doc[c][b][id] \/ ~doc'[c][b][id].asWritten
        /\ \A o \in Client \ {c} : doc'[o] = doc[o]
    BY <2>1, ChangeStep
  <2> QED
    BY <1>1, <2>2, KeyKept
<1>4. ASSUME NEW c \in Client, NEW i \in Id, Prune(c, i) PROVE doc' = doc
  BY <1>4 DEF Prune
<1>5. ASSUME NEW c \in Client, HandleChange(c) PROVE KeyInv(b, id)'
  BY <1>1, <1>5, HandleKeys
<1>6. ASSUME NEW c \in Client, NEW d \in Client, NEW a \in Board, Receive(c, d, a)
      PROVE  KeyInv(b, id)'
  BY <1>1, <1>6, ReceiveKeys
<1>7. ASSUME NEW c \in Client, NEW a \in Board, SwitchBoard(c, a) PROVE doc' = doc
  BY <1>7 DEF SwitchBoard
<1>8. ASSUME UNCHANGED vars PROVE doc' = doc
  BY <1>8 DEF vars
<1> QED
  BY <1>2, <1>3, <1>4, <1>5, <1>6, <1>7, <1>8 DEF Next

(* Two editors whose documents have the same writes to an element show the *)
(* same element, unless it was changed in place: a client never writes     *)
(* twice at one place of a key's chain, since what others know of its      *)
(* writes is never ahead of what it knows itself, and a settled scene is   *)
(* its document (binding.ts:105-162).                                      *)
THEOREM EditorsConverge == Spec => []EditorsAgree
<1>1. Init => ChainInv
  <2> SUFFICES ASSUME Init, NEW b \in Board, NEW id \in Id PROVE KeyInv(b, id)
    BY DEF ChainInv
  <2>1. \A c \in Client : /\ Paths(b, id)[c] = <<>> /\ Els(b, id)[c] = Unset
                          /\ Len(Paths(b, id)[c]) = 0
    BY DEF Init, Unset, Paths, Els
  <2> QED
    BY <2>1 DEF KeyInv, OwnFirst, OneElement
<1>2. TypeInv /\ ChainInv /\ [Next]_vars => ChainInv'
  BY ChainInductive
<1>3. TypeInv /\ SceneIsDoc /\ ChainInv => EditorsAgree
  <2> SUFFICES ASSUME TypeInv, SceneIsDoc, ChainInv,
                      NEW c \in Client, NEW d \in Client, NEW id \in Id,
                      board[c] = board[d], Settled(c), Settled(d),
                      Shown(c)[id].path = Shown(d)[id].path,
                      Shown(c)[id].present = Shown(d)[id].present,
                      Shown(c)[id].asWritten, Shown(d)[id].asWritten
               PROVE  scene[c][id] = scene[d][id]
    BY DEF EditorsAgree
  <2>1. KeyInv(board[c], id)
    BY ShownOK DEF ChainInv
  <2>2. Shown(c)[id].el = Shown(d)[id].el
    BY <2>1 DEF KeyInv, OneElement, Paths, Els, Shown
  <2>3. scene[c] = Elements(Shown(c)) /\ scene[d] = Elements(Shown(d))
    BY DEF SceneIsDoc
  <2> QED
    BY <2>2, <2>3 DEF Elements
<1>4. Spec => []TypeInv /\ []SceneIsDoc
  BY TypeAlways, SceneFollows
<1> QED
  BY <1>1, <1>2, <1>3, <1>4, PTL DEF Spec
=============================================================================
