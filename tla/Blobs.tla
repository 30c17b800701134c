-------------------------------- MODULE Blobs --------------------------------
(***************************************************************************)
(* Image files of one room: the "files" map of the shared document, the    *)
(* editors that fill it (src/binding.ts), and the observer with which both *)
(* servers delete blobs that are too large (WireBlubPruner in              *)
(* server-go/security.go, bindState in server/index.mjs).                  *)
(*                                                                         *)
(* A file's id is the digest of its content, so of an entry of the map     *)
(* only the write matters that put it there: a replica has, for each key,  *)
(* the last write it knows of, and whether it has been deleted.  Yjs       *)
(* deletes the other writes of a key when it integrates them.              *)
(***************************************************************************)
EXTENDS Naturals

CONSTANTS
  Client,      \* the editors' client ids, which order concurrent writes
  File,        \* ids of files
  Oversized,   \* files with a dataURL longer than MaxBlobBytes
  Disallowed,  \* files isAllowedImage refuses
  Pastes,      \* bound: [Client -> SUBSET File], what each user may insert
  Reloading,   \* bound: the clients whose page may be loaded anew
  MaxWrites    \* bound: writes to a key of the map, one after the other

ASSUME BlobsAssumption ==
  /\ Client \subseteq Nat \ {0}
  /\ Oversized \subseteq File /\ Disallowed \subseteq File
  /\ Pastes \in [Client -> SUBSET File]
  /\ Reloading \subseteq Client
  /\ MaxWrites \in Nat

VARIABLES
  ydoc,     \* ydoc[c]: the files map of c's Y.Doc
  files,    \* files[c]: the files c's editor holds; it drops none
  own,      \* history: disallowed files c's user put in since the page loaded
  srv,      \* the map of the server's live document
  touched,  \* keys of the transactions whose observer has not run yet
  loaded,   \* history: oversized files the live document was loaded with
  saved     \* the map of the stored snapshot

editorVars == <<files, own>>
serverVars == <<srv, touched, loaded, saved>>
vars == <<ydoc, editorVars, serverVars>>

Unset == [n |-> 0, by |-> 0, gone |-> TRUE]
Empty == [f \in File |-> Unset]

Present(map) == {f \in File : ~map[f].gone}

Init ==
  /\ ydoc = [c \in Client |-> Empty]
  /\ files = [c \in Client |-> {}]
  /\ own = [c \in Client |-> {}]
  /\ srv = Empty /\ saved = Empty
  /\ touched = {} /\ loaded = {}

-----------------------------------------------------------------------------
(* Merging two replicas of the map.                                        *)

Later(a, b) == a.n > b.n \/ (a.n = b.n /\ a.by > b.by)

Merge(map, other) ==
  [f \in File |->
    LET a == map[f]  b == other[f] IN
    IF Later(a, b) THEN a
    ELSE IF Later(b, a) THEN b
    ELSE [a EXCEPT !.gone = a.gone \/ b.gone]]

Changed(map, other) == {f \in File : map[f] # other[f]}

-----------------------------------------------------------------------------
(* The editors.                                                            *)

(* The user pastes an image.                                               *)
Insert(c, f) ==
  /\ f \in Pastes[c] \ files[c]
  /\ files' = [files EXCEPT ![c] = @ \cup {f}]
  /\ own' = [own EXCEPT ![c] = @ \cup ({f} \cap Disallowed)]
  /\ UNCHANGED <<ydoc, serverVars>>

(* handleChange: every file of the editor that the map lacks is set.       *)
WrittenAgain(c) == files[c]         \* slip: set without asking yFiles.has
Written(c) == files[c] \ Present(ydoc[c])

HandleChange(c) ==
  /\ Written(c) # {}
  /\ \A f \in Written(c) : ydoc[c][f].n < MaxWrites
  /\ ydoc' = [ydoc EXCEPT ![c] =
       [f \in File |->
         IF f \in Written(c) THEN [n |-> @[f].n + 1, by |-> c, gone |-> FALSE]
                             ELSE @[f]]]
  /\ UNCHANGED <<editorVars, serverVars>>

(* pushFiles: the editor is given the map's files it lacks, but for those  *)
(* of another type than an allowed image.                                  *)
PushedAtMount(c, map) ==            \* slip: later files are not looked at
  IF files[c] = {} THEN Present(map) \ Disallowed ELSE {}
PushFiles(c, map) == Present(map) \ Disallowed

(* An update from the server that touches the map: onRemoteFiles.  The     *)
(* first one of a fresh page is loadInitial's.                             *)
Pull(c) ==
  LET map == Merge(ydoc[c], srv) IN
  /\ map # ydoc[c]
  /\ ydoc' = [ydoc EXCEPT ![c] = map]
  /\ files' = [files EXCEPT ![c] = @ \cup PushFiles(c, map)]
  /\ UNCHANGED <<own, serverVars>>

(* The page is loaded anew.                                                *)
Reload(c) ==
  /\ c \in Reloading
  /\ ydoc' = [ydoc EXCEPT ![c] = Empty]
  /\ files' = [files EXCEPT ![c] = {}]
  /\ own' = [own EXCEPT ![c] = {}]
  /\ UNCHANGED serverVars

-----------------------------------------------------------------------------
(* The server.                                                             *)

(* A client's update is committed, and goes out to the other peers, before *)
(* the observer of the map has run.                                        *)
Push(c) ==
  LET map == Merge(srv, ydoc[c]) IN
  /\ map # srv
  /\ srv' = map
  /\ touched' = touched \cup {Changed(srv, map)}
  /\ loaded' = loaded \ Changed(srv, map)
  /\ UNCHANGED <<ydoc, editorVars, saved>>

(* The observer: the keys of the event whose entries are too large are     *)
(* deleted, in a transaction of their own.                                 *)
PrunedOnce(keys) ==                 \* slip: a key pruned before is let be
  {f \in keys \cap Oversized \cap Present(srv) : srv[f].n = 1}
Pruned(keys) == keys \cap Oversized \cap Present(srv)

Observe(keys) ==
  /\ keys \in touched
  /\ srv' = [f \in File |-> IF f \in Pruned(keys) THEN [srv[f] EXCEPT !.gone = TRUE]
                                                  ELSE srv[f]]
  /\ touched' = touched \ {keys}
  /\ loaded' = loaded \ Pruned(keys)
  /\ UNCHANGED <<ydoc, editorVars, saved>>

(* The snapshot is saved whenever the adapter gets to it.                  *)
Flush ==
  /\ saved # srv
  /\ saved' = srv
  /\ UNCHANGED <<ydoc, editorVars, srv, touched, loaded>>

(* The process restarts, or drops the room and loads it again: the         *)
(* observer is attached to the loaded document, and sees what comes after. *)
Restart ==
  /\ srv' = saved
  /\ loaded' = Oversized \cap Present(saved)
  /\ touched' = {}
  /\ UNCHANGED <<ydoc, editorVars, saved>>

Next ==
  \/ \E c \in Client, f \in File : Insert(c, f)
  \/ \E c \in Client : HandleChange(c) \/ Pull(c) \/ Reload(c) \/ Push(c)
  \/ \E keys \in SUBSET File : Observe(keys)
  \/ Flush \/ Restart

Spec == Init /\ [][Next]_vars

(* A connected client sends what the server lacks and is sent what it      *)
(* lacks; at some point the server stops going down.                       *)
Fairness ==
  /\ \A c \in Client : WF_vars(Push(c)) /\ WF_vars(Pull(c))
  /\ <>[][~Restart]_vars

FairSpec == Spec /\ Fairness

-----------------------------------------------------------------------------
(* Properties.                                                             *)

(* "Entries that exceed this are pruned server-side" (config.go:114-117):  *)
(* an oversized blob in the live document is about to be pruned, unless it *)
(* came with the snapshot, saved between commit and observer: the observer *)
(* (security.go:42) never looks at that one, and it is served to everybody.*)
PrunedUnlessLoaded ==
  \A f \in Oversized \cap Present(srv) :
    (\E keys \in touched : f \in keys) \/ f \in loaded

(* Every allowed file of a client's document is in its editor, and a file  *)
(* of another type only if its own user put it there: "they never reach    *)
(* Excalidraw's file store" (binding.ts:170-171).                          *)
EditorFollowsDoc ==
  \A c \in Client :
    /\ Present(ydoc[c]) \ Disallowed \subseteq files[c]
    /\ files[c] \cap Disallowed \subseteq own[c]

(* "A change never echoes back to Yjs" (README.md:106) holds for files but *)
(* for those a server has pruned: the editor keeps them, so the next       *)
(* onChange (binding.ts:136) writes them into the document once more.      *)
EchoOnlyPruned ==
  [][\A c \in Client : HandleChange(c) =>
       \A f \in Written(c) : ydoc[c][f].n > 0 => f \in Oversized]_vars

(* A file that is not too large reaches every editor, as long as some      *)
(* editor has it in its document, whatever is pruned, lost with the        *)
(* server's memory or loaded anew in the meantime (binding.ts:147-178).    *)
Held(f) == \E c \in Client : f \in Present(ydoc[c])

ImagesArrive ==
  \A c \in Client, f \in File \ (Oversized \cup Disallowed) :
    Held(f) ~> f \in files[c] \/ ~Held(f)
=============================================================================
