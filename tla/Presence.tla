------------------------------- MODULE Presence -------------------------------
(***************************************************************************)
(* Who sees whom on a board: bindAwareness (src/presence.ts) between an    *)
(* Awareness of y-protocols, which the host owns, and the collaborators    *)
(* drawn in the editor, bound and released by an effect of BoardApp.       *)
(* A state is nothing, an object without a user, or one with a user; what  *)
(* pointer and selection it carries makes no difference here.              *)
(***************************************************************************)
CONSTANT Client

VARIABLES
  bound,   \* bound[c]: does the effect of c's BoardApp hold a binding?
  local,   \* local[c]: the local state of the awareness c was given
  known,   \* known[c][d]: the state of d in c's awareness
  drawn    \* drawn[c]: the collaborators in c's editor

vars == <<bound, local, known, drawn>>

State == {"null", "anonymous", "named"}

(* A new Awareness has the local state {}, and no binding yet.             *)
Init ==
  /\ bound = [c \in Client |-> FALSE]
  /\ local = [c \in Client |-> "anonymous"]
  /\ known = [c \in Client |-> [d \in Client |-> "null"]]
  /\ drawn = [c \in Client |-> {}]

(* render: whoever has a state, but for oneself.                           *)
Rendered(c, states) == {d \in Client \ {c} : states[d] # "null"}

(* setLocalStateField of y-protocols: without a local state it does        *)
(* nothing.                                                                *)
WithUser(state) == IF state = "null" THEN state ELSE "named"

(* bindAwareness: publish the user, listen, render.                        *)
Bind(c, state) ==
  /\ bound' = [bound EXCEPT ![c] = TRUE]
  /\ local' = [local EXCEPT ![c] = WithUser(state)]
  /\ drawn' = [drawn EXCEPT ![c] = Rendered(c, known[c])]
  /\ UNCHANGED known

(* The effect runs once the editor has mounted.                            *)
Mount(c) ==
  /\ ~bound[c]
  /\ Bind(c, local[c])

(* destroy: stop listening, clear the local state; the editor keeps what   *)
(* it shows.                                                               *)
Unmount(c) ==
  /\ bound[c]
  /\ bound' = [bound EXCEPT ![c] = FALSE]
  /\ local' = [local EXCEPT ![c] = "null"]
  /\ UNCHANGED <<known, drawn>>

(* A new user object or boardId: React runs destroy, then the effect, with *)
(* the awareness it had.                                                   *)
Rebind(c) ==
  /\ bound[c]
  /\ Bind(c, "null")

(* The host hands in another Awareness: destroy clears the old one.        *)
RebindFresh(c) ==
  /\ bound[c]
  /\ bound' = bound
  /\ local' = [local EXCEPT ![c] = WithUser("anonymous")]
  /\ known' = [known EXCEPT ![c] = [d \in Client |-> "null"]]
  /\ drawn' = [drawn EXCEPT ![c] = {}]

(* An awareness update of d reaches c, which renders if it listens.        *)
Receive(c, d) ==
  LET states == [known[c] EXCEPT ![d] = local[d]] IN
  /\ c # d
  /\ known' = [known EXCEPT ![c] = states]
  /\ drawn' = IF bound[c] THEN [drawn EXCEPT ![c] = Rendered(c, states)] ELSE drawn
  /\ UNCHANGED <<bound, local>>

Next ==
  \/ \E c \in Client : Mount(c) \/ Unmount(c) \/ Rebind(c) \/ RebindFresh(c)
  \/ \E c, d \in Client : Receive(c, d)

Spec == Init /\ [][Next]_vars

-----------------------------------------------------------------------------
(* "A board switch re-binds presence" (BoardApp.tsx:65): two bound clients *)
(* that are up to date with each other see each other.                     *)
BoundSeeEachOther ==
  \A c, d \in Client :
    c # d /\ bound[c] /\ bound[d] /\ known[d][c] = local[c] => c \in drawn[d]
=============================================================================
