-------------------------- MODULE ExcalidrawBinding --------------------------
(***************************************************************************)
(* The Yjs <-> Excalidraw binding (src/binding.ts) as BoardApp mounts it   *)
(* (src/BoardApp.tsx): the editor's scene and the Y.Map of the board's     *)
(* elements, at every client, with the clients' documents exchanging       *)
(* updates in any order.                                                   *)
(*                                                                         *)
(* An element is who changed it last (its versionNonce), its version and   *)
(* whether it is deleted; what it looks like and where it is sorted is     *)
(* left out, and so are the image files.                                   *)
(***************************************************************************)
EXTENDS Naturals, SequencesExt

CONSTANTS
  Client,      \* Yjs client ids
  Board,       \* boards
  Shows,       \* [Client -> SUBSET Board], what a client's host may show
  Id,          \* element ids, each minted at random by one client for a board
  MinterOf,    \* [Id -> Client]
  BoardOf,     \* [Id -> Board]
  MaxVersion,  \* [Id -> Nat], bound: versions of an element
  MaxWrites,   \* [Id -> Nat], bound: writes to its key in a Y.Map
  NoElem       \* the scene has no element with the id

ASSUME BindingAssumption ==
  /\ Client \subseteq Nat
  /\ Shows \in [Client -> SUBSET Board]
  /\ MinterOf \in [Id -> Client]
  /\ BoardOf \in [Id -> Board]
  /\ MaxVersion \in [Id -> Nat] /\ MaxWrites \in [Id -> Nat]

VARIABLES
  board,   \* board[c]: the board c's BoardApp is given
  doc,     \* doc[c][b]: c's Y.Map of the elements of board b
  scene,   \* scene[c]: the elements in c's editor
  due,     \* due[c]: an onChange that has not run yet, and what the scene is:
           \* changed by the user ("edit"), as rendered ("render"), or another
           \* board's ("kept")
  leaked   \* history: leaked[b]: what an editor held of other boards when it
           \* came to b and found b's document without elements

vars == <<board, doc, scene, due, leaked>>

Element == [by : Client, version : Nat, isDeleted : BOOLEAN]
ASSUME NoElemAssumption == NoElem \notin Element

\* An entry of a Y.Map is the last of the chain of writes to its key: path
\* has the writers from the first, present says that it was not deleted, and
\* asWritten, a history, that nobody has changed the element since in place.
Unset == [path |-> <<>>, el |-> NoElem, present |-> FALSE, asWritten |-> TRUE]

(* Types of every variable.                                                *)
TypeOK ==
  /\ board \in [Client -> Board]
  /\ \A c \in Client, b \in Board, id \in Id :
       LET entry == doc[c][b][id] IN
       /\ entry.path \in Seq(Client)
       /\ entry.el \in Element \cup {NoElem}
       /\ entry.asWritten \in BOOLEAN
       /\ entry.present => entry.path # <<>> /\ entry.el # NoElem
  /\ scene \in [Client -> [Id -> Element \cup {NoElem}]]
  /\ due \in [Client -> {"none", "render", "edit", "kept"}]
  /\ leaked \in [Board -> SUBSET Id]

Blank == [id \in Id |-> NoElem]

Init ==
  /\ board \in [Client -> Board]
  /\ \A c \in Client : board[c] \in Shows[c]
  /\ doc = [c \in Client |-> [b \in Board |-> [id \in Id |-> Unset]]]
  /\ scene = [c \in Client |-> Blank]
  /\ due = [c \in Client |-> "none"]
  /\ leaked = [b \in Board |-> {}]

Shown(c) == doc[c][board[c]]

-----------------------------------------------------------------------------
(* The user.                                                               *)

(* The binding writes the editor's own objects into the Y.Map and gives    *)
(* the Y.Map's own objects to the editor: where both are equal they may be *)
(* one object, of every board that the editor has shown.                   *)
Aliases(c, id) ==
  {b \in Board : doc[c][b][id].present /\ doc[c][b][id].el = scene[c][id]}

(* The documents after an element has changed that those of some boards    *)
(* hold: of none, unless the editor changes its objects in place.          *)
InPlace(c, id, el, boards) ==
  [doc EXCEPT ![c] = [b \in Board |->
    IF b \in boards
      THEN [doc[c][b] EXCEPT ![id] = [@ EXCEPT !.el = el, !.asWritten = FALSE]]
      ELSE doc[c][b]]]

(* The editor puts a changed element, with its next version, in the scene; *)
(* onChange follows when it has rendered.                                  *)
Change(c, id, el, boards) ==
  /\ scene' = [scene EXCEPT ![c][id] = el]
  /\ doc' = InPlace(c, id, el, boards)
  /\ due' = [due EXCEPT ![c] = "edit"]
  /\ UNCHANGED <<board, leaked>>

Draw(c, id) ==
  /\ MinterOf[id] = c
  /\ BoardOf[id] = board[c]
  /\ scene[c][id] = NoElem
  /\ Shown(c)[id] = Unset
  /\ Change(c, id, [by |-> c, version |-> 1, isDeleted |-> FALSE], {})

(* A change, a deletion or its undoing.                                    *)
Edit(c, id) ==
  /\ scene[c][id] # NoElem
  /\ scene[c][id].version < MaxVersion[id]
  /\ \E isDeleted \in BOOLEAN, boards \in SUBSET Aliases(c, id) :
       Change(c, id, [by |-> c, version |-> scene[c][id].version + 1,
                      isDeleted |-> isDeleted], boards)

(* Deleted elements may be pruned from the scene.                          *)
Prune(c, id) ==
  /\ scene[c][id] # NoElem
  /\ scene[c][id].isDeleted
  /\ scene' = [scene EXCEPT ![c][id] = NoElem]
  /\ due' = [due EXCEPT ![c] = "edit"]
  /\ UNCHANGED <<board, doc, leaked>>

-----------------------------------------------------------------------------
(* The binding.                                                            *)

(* Elements are written when they are new or when version, versionNonce or *)
(* isDeleted differ from the Y.Map's.                                      *)
Always(entry, el) == el # NoElem     \* slip: written without comparing
DiffersAtAll(entry, el) ==           \* slip: what is gone is written as well
  ~entry.present \/ entry.el # el
Differs(entry, el) == el # NoElem /\ (~entry.present \/ entry.el # el)

(* What handleChange makes of the entry of one id: set, delete or nothing. *)
NeverDeletes(c, entry, el) ==        \* slip: what is gone is not deleted
  IF Differs(entry, el)
    THEN [path |-> Append(entry.path, c), el |-> el, present |-> TRUE,
          asWritten |-> TRUE]
  ELSE entry
Written(c, entry, el) ==
  IF Differs(entry, el)
    THEN [path |-> Append(entry.path, c), el |-> el, present |-> TRUE,
          asWritten |-> TRUE]
  ELSE IF el = NoElem THEN [entry EXCEPT !.present = FALSE]
  ELSE entry
(* handleChange with the whole scene, in one transaction of the binding's  *)
(* origin, which its own observer skips.                                   *)
HandleChange(c) ==
  /\ due[c] # "none"
  /\ due' = [due EXCEPT ![c] = "none"]
  /\ \A id \in Id : Differs(Shown(c)[id], scene[c][id]) =>
       Len(Shown(c)[id].path) < MaxWrites[id]
  /\ doc' = [doc EXCEPT ![c][board[c]] =
       [id \in Id |-> Written(c, Shown(c)[id], scene[c][id])]]
  /\ UNCHANGED <<board, scene, leaked>>

(* The elements array renderFromDoc builds, deleted ones included.         *)
Elements(ymap) == [id \in Id |->
  IF ymap[id].present THEN ymap[id].el ELSE NoElem]

(* renderFromDoc replaces the scene; the onChange that the editor calls    *)
(* while updateScene runs is ignored, one that follows is not.             *)
AddsOnly(c, ymap) ==                 \* slip: what is gone stays in the scene
  /\ scene' = [scene EXCEPT ![c] =
       [id \in Id |-> IF ymap[id].present THEN ymap[id].el ELSE scene[c][id]]]
  /\ due' = [due EXCEPT ![c] = "render"]
RenderFromDoc(c, ymap) ==
  /\ scene' = [scene EXCEPT ![c] = Elements(ymap)]
  /\ due' = [due EXCEPT ![c] = "render"]

(* The editor keeps the scene it was mounted with.                         *)
KeepScene(c, ymap, mounted) ==
  /\ scene' = [scene EXCEPT ![c] = mounted]
  /\ due' = [due EXCEPT ![c] =
       IF mounted = Elements(ymap) THEN "render" ELSE "kept"]

(* loadInitial renders, unless there are no elements: then it renders if   *)
(* there are image files and returns early if not.                         *)
EitherEmpty(c, ymap, mounted) ==     \* slip: || for &&
  RenderFromDoc(c, ymap) \/ KeepScene(c, ymap, mounted)
LoadInitial(c, ymap, mounted) ==
  \/ RenderFromDoc(c, ymap)
  \/ Elements(ymap) = Blank /\ KeepScene(c, ymap, mounted)

-----------------------------------------------------------------------------
(* Updates between documents.                                              *)

(* Yjs keeps, of two chains of writes to a key, the longer one if it       *)
(* continues the other, else the one of the higher client where they part. *)
Beats(p, q) ==
  \/ IsStrictPrefix(q, p)
  \/ \E i \in 1 .. Len(p) :
       /\ i <= Len(q)
       /\ SubSeq(p, 1, i - 1) = SubSeq(q, 1, i - 1)
       /\ p[i] > q[i]

Merged(mine, theirs) ==
  IF Beats(theirs.path, mine.path) THEN theirs
  ELSE IF theirs.path = mine.path
    THEN [mine EXCEPT !.present = @ /\ theirs.present]
  ELSE mine

(* Writes to a key that lose against mine but that I may not have yet.     *)
Loses(theirs, mine) == ~IsPrefix(theirs.path, mine.path)

(* The document a binding observes: destroy stops the observation.         *)
Observed(c, b) == b = board[c]

(* c receives what d knows of board b.  onRemoteElements renders the Y.Map *)
(* a binding observes, also if all that is new to it is writes that lose.  *)
Receive(c, d, b) ==
  LET ymap == [id \in Id |-> Merged(doc[c][b][id], doc[d][b][id])] IN
  /\ b \in Shows[c] \cap Shows[d]
  /\ \/ ymap # doc[c][b]
     \/ \E id \in Id : Loses(doc[d][b][id], doc[c][b][id])
  /\ doc' = [doc EXCEPT ![c][b] = ymap]
  /\ IF Observed(c, b) THEN RenderFromDoc(c, ymap) ELSE UNCHANGED <<scene, due>>
  /\ UNCHANGED <<board, leaked>>

(* The host gives BoardApp another board's document, in the same editor or *)
(* in a new one: the old binding is destroyed, a new one is made and loads.*)
SwitchBoard(c, b) ==
  /\ b \in Shows[c] \ {board[c]}
  /\ board' = [board EXCEPT ![c] = b]
  /\ \E mounted \in {scene[c], Blank} :
       /\ LoadInitial(c, doc[c][b], mounted)
       /\ leaked' = [leaked EXCEPT ![b] =
            IF Elements(doc[c][b]) = Blank
              THEN @ \cup {id \in Id : mounted[id] # NoElem} ELSE @]
  /\ UNCHANGED doc

Next ==
  \/ \E c \in Client, id \in Id : Draw(c, id) \/ Edit(c, id) \/ Prune(c, id)
  \/ \E c \in Client : HandleChange(c)
  \/ \E c \in Client, d \in Client, b \in Board : Receive(c, d, b)
  \/ \E c \in Client, b \in Board : SwitchBoard(c, b)

Spec == Init /\ [][Next]_vars

-----------------------------------------------------------------------------
(* Properties.                                                             *)

(* The scene is what the binding last rendered or wrote: the user has      *)
(* changed nothing since and it is not another board's.                    *)
Settled(c) == due[c] \notin {"edit", "kept"}

(* The Y.Doc is "the source of truth" (binding.ts:4): an editor in which   *)
(* the user has changed nothing since the last render or onChange shows    *)
(* the elements of its board's document and no others, unless it came from *)
(* another board to one without elements.                                  *)
SceneIsDoc ==
  \A c \in Client : Settled(c) => scene[c] = Elements(Shown(c))

(* "a change never echoes back to Yjs" (README.md:105-106): an onChange    *)
(* that follows a render writes nothing.                                   *)
NoEcho ==
  [][\A c \in Client : HandleChange(c) /\ due[c] = "render" => UNCHANGED doc]_vars

(* Two editors whose documents have the same writes to an element show the *)
(* same element, whatever order edits, onChange, updates and board         *)
(* switches came in (binding.ts:105-145), unless an editor has changed the *)
(* object itself that the binding put into the document.                   *)
EditorsAgree ==
  \A c \in Client, d \in Client, id \in Id :
    LET mine   == Shown(c)[id]
        theirs == Shown(d)[id]
    IN  /\ board[c] = board[d] /\ Settled(c) /\ Settled(d)
        /\ mine.path = theirs.path /\ mine.present = theirs.present
        /\ mine.asWritten /\ theirs.asWritten
        => scene[c][id] = scene[d][id]

(* What was drawn on one board gets into the document of another only      *)
(* where an editor that held it came to a board without elements, though   *)
(* one editor and one binding after the other serve both (BoardApp.tsx:45- *)
(* 54, binding.ts:99-102).                                                 *)
OnlyEmptyBoardsLeak ==
  \A c \in Client, b \in Board, id \in Id :
    doc[c][b][id] # Unset => BoardOf[id] = b \/ id \in leaked[b]

(* What was drawn on one board does not get into the document of another.  *)
BoardsKeepApart ==
  \A c \in Client, b \in Board, id \in Id :
    doc[c][b][id] # Unset => BoardOf[id] = b
=============================================================================
