------------------------------ MODULE Admission ------------------------------
(***************************************************************************)
(* Who may join a room: the token of a websocket upgrade, as the Go server *)
(* (server-go/auth.go, main.go) verifies it, once to choose a handler and  *)
(* once more in ygo's AuthFunc, and as the Node dev server                 *)
(* (server/index.mjs) does.  The process and its configuration are those   *)
(* of Startup, the rooms' names and files those of RoomFiles.              *)
(*                                                                         *)
(* A token is what verification tells apart: whether the signature is      *)
(* right, whose decoder can read it, and its claims.  Time is in seconds.  *)
(***************************************************************************)
EXTENDS Startup, RoomFiles

CONSTANTS
  Room,      \* names of the rooms clients ask for
  NoClaim,   \* an empty or absent room claim
  Request,   \* bound: upgrade requests alive at one time
  MaxTime    \* bound: the clock, and the latest exp tried

ASSUME AdmissionAssumption ==
  /\ Room \subseteq Seq(Char \ {"%", "?", "#"})
  /\ NoClaim \notin Room
  /\ MaxTime \in Nat

VARIABLES
  now,      \* the clock
  req,      \* req[q]: the request, its token, and how far it has got
  roConns   \* Authenticator.roConns

joinVars == <<now, req, roConns>>
vars == <<startVars, joinVars>>

Enabled == cfg.enabled
MaxTTL  == cfg.maxTTL   \* 0 is no bound

\* pc: "off"; "arrived" at buildWSHandler; "upgrading" in ygo's ServeHTTP;
\* "readwrite" or "readonly", connected.  from: the machine of the server, or
\* another one.  at: when it was last verified.
\* form: "strict", unpadded base64url of JSON with the claims' names as they
\* are documented, exp an integer, room a string and ro a Boolean; "loose",
\* what only JavaScript takes for it (padding or characters of plain base64, a
\* string or a fraction for exp, any value for ro); "folded", strict but with
\* names in capitals, which only Go takes for the claims.  An absent exp and
\* an exp of 0 are the same to both servers.
Token == [signed : BOOLEAN, form : {"strict", "loose", "folded"},
          exp : 0 .. MaxTime, room : Room \cup {NoClaim}, ro : BOOLEAN]

NoToken == [signed |-> FALSE, form |-> "strict", exp |-> 0, room |-> NoClaim,
            ro |-> FALSE]
Off == [pc |-> "off", token |-> NoToken, room |-> NoClaim, from |-> "here", at |-> 0]

Init ==
  /\ StartInit
  /\ now = 0
  /\ req = [q \in Request |-> Off]
  /\ roConns = {}

-----------------------------------------------------------------------------
(* The claims.                                                             *)

(* exp is required, not past, and not further away than the bound.         *)
InTimeUnbounded(token, t) ==         \* slip: the bound forgotten
  token.exp # 0 /\ t <= token.exp
InTime(token, t) ==
  /\ token.exp # 0
  /\ t <= token.exp
  /\ MaxTTL > 0 => token.exp - t <= MaxTTL

(* Authenticator.verify: RawURLEncoding and the types of the claims struct *)
(* are strict, its names are not; the room claim is required.              *)
Verify(token, room, t) ==
  /\ token.signed /\ token.form \in {"strict", "folded"}
  /\ InTime(token, t)
  /\ token.room # NoClaim /\ token.room = room

(* Number(process.env... ?? default) of the Node server, of a text that    *)
(* does not make it throw.                                                 *)
NodeMaxTTL(text) ==
  CASE text.kind = "unset" -> DefaultTTL
    [] text.kind = "empty" -> 0
    [] OTHER -> text.n

(* verifyToken of the Node server, in the process's environment: Buffer    *)
(* and Number read loosely, names are taken as they are; the room is the   *)
(* raw path; a room claim is compared if there is one; ro is not read.     *)
VerifyTokenShort(token, path, t) ==  \* slip: the bound is exclusive
  /\ token.signed /\ token.form \in {"strict", "loose"}
  /\ token.exp # 0 /\ t <= token.exp
  /\ NodeMaxTTL(env.ttl) > 0 => token.exp - t < NodeMaxTTL(env.ttl)
  /\ token.room # NoClaim => token.room = path
VerifyToken(token, path, t) ==
  /\ token.signed /\ token.form \in {"strict", "loose"}
  /\ token.exp # 0 /\ t <= token.exp
  /\ NodeMaxTTL(env.ttl) > 0 => token.exp - t <= NodeMaxTTL(env.ttl)
  /\ token.room # NoClaim => token.room = path

-----------------------------------------------------------------------------
(* The Go server's handler of one request.                                 *)

Tick ==
  /\ now < MaxTime
  /\ now' = now + 1
  /\ UNCHANGED <<startVars, req, roConns>>

(* The server listens, for this machine or for all, and the mux knows the  *)
(* path.                                                                   *)
Arrive(q, token, room, from) ==
  /\ phase = "up"
  /\ from = "here" \/ cfg.addr = "all"
  /\ Routed(room)
  /\ req[q] = Off
  /\ req' = [req EXCEPT ![q] =
       [Off EXCEPT !.pc = "arrived", !.token = token, !.room = room, !.from = from]]
  /\ UNCHANGED <<startVars, now, roConns>>

(* buildWSHandler: Verify decides between 401, the view-only handler and   *)
(* ygo's.                                                                  *)
RouteByTable(q) ==                   \* slip: IsReadOnly asked before Check
  IF q \in roConns THEN "readonly" ELSE "upgrading"
Route(q) ==
  IF ~Enabled THEN "upgrading"
  ELSE IF ~Verify(req[q].token, req[q].room, now) THEN "off"
  ELSE IF req[q].token.ro THEN "readonly"
  ELSE "upgrading"

Dispatch(q) ==
  /\ req[q].pc = "arrived"
  /\ req' = [req EXCEPT ![q] = IF Route(q) = "off" THEN Off
                               ELSE [@ EXCEPT !.pc = Route(q), !.at = now]]
  /\ UNCHANGED <<startVars, now, roConns>>

(* ygo's ServeHTTP calls Check: it verifies again, by then perhaps in a    *)
(* later second, and records a request with a view-only token.             *)
Check(q) ==
  /\ req[q].pc = "upgrading"
  /\ IF ~Enabled \/ Verify(req[q].token, req[q].room, now)
       THEN /\ req' = [req EXCEPT ![q] = [@ EXCEPT !.pc = "readwrite", !.at = now]]
            /\ roConns' = IF Enabled /\ req[q].token.ro
                            THEN roConns \cup {q} ELSE roConns
       ELSE /\ req' = [req EXCEPT ![q] = Off]
            /\ UNCHANGED roConns
  /\ UNCHANGED <<startVars, now>>

(* The connection ends; nobody calls Release.                              *)
Close(q) ==
  /\ req[q].pc \in {"readwrite", "readonly"}
  /\ req' = [req EXCEPT ![q] = Off]
  /\ UNCHANGED <<startVars, now, roConns>>

(* The process ends, and its connections with it.                          *)
Exit ==
  /\ phase = "up"
  /\ Die
  /\ req' = [q \in Request |-> Off]
  /\ roConns' = {}
  /\ UNCHANGED now

Next ==
  \/ StartNext /\ UNCHANGED joinVars
  \/ Tick \/ Exit
  \/ \E q \in Request, token \in Token, room \in Room, from \in {"here", "elsewhere"} :
       Arrive(q, token, room, from)
  \/ \E q \in Request : Dispatch(q) \/ Check(q) \/ Close(q)

Spec == Init /\ [][Next]_vars

-----------------------------------------------------------------------------
(* Properties.                                                             *)

(* The handler is chosen from the verified ro claim (main.go:156-187): a   *)
(* view-only token never gets to write, another never only to watch.       *)
HandlerFitsToken ==
  Enabled => \A q \in Request :
    /\ req[q].pc = "readwrite" => ~req[q].token.ro
    /\ req[q].pc = "readonly" => req[q].token.ro

(* Whoever was let in had a token for this very room that was valid when   *)
(* the last check was made, and would not be for longer than the bound     *)
(* (auth.go:26-31), also when the clock moved between the two checks.      *)
AdmittedInTime ==
  Enabled => \A q \in Request : req[q].pc \in {"readwrite", "readonly"} =>
    LET token == req[q].token IN
    /\ token.signed
    /\ token.room = req[q].room
    /\ req[q].at \in (IF MaxTTL > 0 THEN token.exp - MaxTTL ELSE 0) .. token.exp

(* Check "records no roConns state" (main.go:169-171), so that it does not *)
(* matter that nobody releases it.                                         *)
NothingRecorded == roConns = {}

(* A server without a secret is never reachable from another machine unless *)
(* BOARD_ALLOW_INSECURE asks for it (main.go:27-29, config.go:15-17),      *)
(* whatever address it was told to listen on.                              *)
UnverifiedStayLocal ==
  \A q \in Request :
    req[q].pc # "off" /\ ~Enabled => req[q].from = "here" \/ cfg.insecure

(* The dev server is "byte-compatible" with the Go server (index.mjs:222): *)
(* started with the same environment it admits, at any moment, the tokens  *)
(* Go admits, but for those whose names Go alone recognises, and no others *)
(* but those without a room and those JavaScript alone can read; provided  *)
(* that both read the bound alike, and for names that a URL carries        *)
(* verbatim.                                                               *)
ReadAlike(text) ==
  \/ text.kind = "unset"
  \/ text.kind = "digits" /\ text.n >= 0

ServersAgree ==
  Enabled /\ ReadAlike(env.ttl) =>
    \A token \in Token : \A room \in {r \in Room : UrlPath(r) = r} :
      /\ Verify(token, room, now) =>
           VerifyToken(token, room, now) \/ token.form = "folded"
      /\ VerifyToken(token, room, now) =>
           \/ Verify(token, room, now)
           \/ token.room = NoClaim \/ token.form = "loose"

=============================================================================
