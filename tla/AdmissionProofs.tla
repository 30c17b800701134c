--------------------------- MODULE AdmissionProofs ---------------------------
(***************************************************************************)
(* Who the Go server lets in, for any environments, rooms, bounds and      *)
(* number of requests at once.                                             *)
(***************************************************************************)
EXTENDS Admission, TLAPS

Pc == {"off", "arrived", "upgrading", "readwrite", "readonly"}
Req == [pc : Pc, token : Token, room : Room \cup {NoClaim},
        from : {"here", "elsewhere"}, at : Nat]

Configs == [enabled : BOOLEAN, maxTTL : Nat, addr : Address, insecure : BOOLEAN]

(* The types that matter, and: only a process that is up has requests.     *)
TypeInv ==
  /\ cfg \in Configs
  /\ now \in Nat
  /\ req \in [Request -> Req]
  /\ phase # "up" => \A q \in Request : req[q] = Off

(* The address a process without a secret listens on.                      *)
GuardInv == cfg.enabled \/ cfg.insecure \/ cfg.addr # "all"

(* A bucket the process has not just asked for exists.                     *)
BucketInv == phase \in {"wired", "up"} /\ sink = "bucket" => bucket

(* What is known of a request by how far it has got.                       *)
Fits(q) ==
  /\ Enabled /\ req[q].pc \in {"upgrading", "readwrite"} => ~req[q].token.ro
  /\ Enabled /\ req[q].pc = "readonly" => req[q].token.ro
  /\ Enabled /\ req[q].pc \in {"readwrite", "readonly"} =>
       Verify(req[q].token, req[q].room, req[q].at)
  /\ ~Enabled /\ req[q].pc # "off" => req[q].from = "here" \/ cfg.insecure

AdmissionInv ==
  /\ TypeInv
  /\ GuardInv
  /\ BucketInv
  /\ NothingRecorded
  /\ \A q \in Request : Fits(q)

-----------------------------------------------------------------------------
(* The record of a request nobody serves is one of Req.                    *)
LEMMA OffType ==
  Off \in Req /\ Off.pc = "off" /\ NoToken \in Token
BY AdmissionAssumption DEF Off, Req, Pc, NoToken, Token

(* What LoadConfig and main's guard make of an environment.                *)
LEMMA ConfigType ==
  ASSUME NEW e \in Setting
  PROVE  LET c == [LoadConfig(e) EXCEPT !.addr = ListenAddr(LoadConfig(e), e)] IN
         /\ c \in Configs
         /\ c.enabled \/ c.insecure \/ c.addr # "all"
<1>1. EnvInt(e.ttl, DefaultTTL) \in Nat
  BY StartupAssumption DEF EnvInt
<1>2. /\ e.secret \in BOOLEAN /\ e.insecure \in BOOLEAN
      /\ (IF e.addr = "unset" THEN "all" ELSE e.addr) \in Address
  BY StartupAssumption DEF Address
<1> QED
  BY <1>1, <1>2 DEF LoadConfig, ListenAddr, LoopbackAddr, Configs, Address

(* The steps of a process that comes up or dies while it does.             *)
LEMMA StartupStep ==
  ASSUME AdmissionInv, StartNext, UNCHANGED joinVars
  PROVE  AdmissionInv'
<1> USE DEF AdmissionInv, TypeInv, GuardInv, BucketInv, NothingRecorded, joinVars
<1>1. ASSUME phase' # "up", phase # "up", cfg' \in Configs, GuardInv', BucketInv'
      PROVE  AdmissionInv'
  BY <1>1, OffType DEF Fits
<1>2. ASSUME UNCHANGED cfg, phase # "up", BucketInv' PROVE AdmissionInv'
  BY <1>2, OffType DEF Fits, Enabled
<1>3. ASSUME Die, phase # "up" PROVE AdmissionInv'
  BY <1>1, <1>3 DEF Die, Stopped, Configs, Address
<1>4. ASSUME NEW e \in Setting, Start(e) PROVE AdmissionInv'
  BY <1>1, <1>4, ConfigType DEF Start
<1>5. CASE UseDisk
  BY <1>2, <1>3, <1>5 DEF UseDisk, GoTo
<1>6. CASE CheckBucket
  BY <1>2, <1>3, <1>6 DEF CheckBucket, GoTo
<1>7. CASE MakeBucket
  BY <1>2, <1>3, <1>7 DEF MakeBucket, CreateFails
<1>8. CASE OtherCreates
  BY <1>8 DEF OtherCreates, Fits, Enabled, Verify, InTime, MaxTTL
<1>9. CASE Listen
  BY <1>2, <1>3, <1>9 DEF Listen, GoTo
<1> QED
  BY <1>4, <1>5, <1>6, <1>7, <1>8, <1>9 DEF StartNext

(* The steps of requests.                                                  *)
LEMMA RequestStep ==
  ASSUME AdmissionInv, NEW q \in Request, NEW new \in Req, phase = "up",
         req' = [req EXCEPT ![q] = new], UNCHANGED <<startVars, now, roConns>>,
         Fits(q)'
  PROVE  AdmissionInv'
<1> USE DEF AdmissionInv, TypeInv, GuardInv, BucketInv, NothingRecorded, startVars
<1>1. \A p \in Request \ {q} : Fits(p)'
  BY DEF Fits, Enabled, Verify, InTime, MaxTTL
<1>2. req' \in [Request -> Req]
  OBVIOUS
<1> QED
  BY <1>1, <1>2

(* Every step of the server, its clients and the clock keeps the invariant. *)
LEMMA AdmissionInductive ==
  ASSUME AdmissionInv, [Next]_vars
  PROVE  AdmissionInv'
<1> USE DEF AdmissionInv, TypeInv, GuardInv, BucketInv, NothingRecorded
<1>1. ASSUME UNCHANGED <<startVars, req, roConns>>, now' \in Nat PROVE AdmissionInv'
  BY <1>1 DEF startVars, Fits, Enabled, Verify, InTime, MaxTTL
<1>2. CASE StartNext /\ UNCHANGED joinVars
  BY <1>2, StartupStep
<1>3. CASE Tick
  BY <1>1, <1>3 DEF Tick
<1>4. CASE Exit
  BY <1>4, OffType DEF Exit, Die, Stopped, Configs, Address, Fits
<1>5. ASSUME NEW q \in Request, NEW token \in Token, NEW room \in Room,
             NEW from \in {"here", "elsewhere"}, Arrive(q, token, room, from)
      PROVE  AdmissionInv'
  <2> DEFINE new == [Off EXCEPT !.pc = "arrived", !.token = token,
                                !.room = room, !.from = from]
  <2>1. new \in Req /\ new.pc = "arrived" /\ new.from = from
    BY OffType DEF Req, Pc, Off
  <2>2. from = "here" \/ cfg.insecure \/ cfg.enabled
    BY <1>5 DEF Arrive
  <2>3. req'[q] = new /\ cfg' = cfg
    BY <1>5 DEF Arrive, startVars
  <2>4. Fits(q)'
    BY <2>1, <2>2, <2>3 DEF Fits, Enabled
  <2> QED
    BY <1>5, <2>1, <2>4, RequestStep DEF Arrive
<1>6. ASSUME NEW q \in Request, Dispatch(q) PROVE AdmissionInv'
  <2>1. phase = "up" /\ req[q] \in Req /\ req[q].pc = "arrived"
    BY <1>6, OffType DEF Dispatch
  <2>2. CASE Route(q) = "off"
    <3>1. req' = [req EXCEPT ![q] = Off]
      BY <1>6, <2>2 DEF Dispatch
    <3>2. req'[q] = Off /\ Off \in Req /\ Off.pc = "off"
      BY <3>1, OffType DEF Off
    <3>3. Fits(q)'
      BY <3>2 DEF Fits
    <3>4. UNCHANGED <<startVars, now, roConns>>
      BY <1>6 DEF Dispatch
    <3> QED
      BY <2>1, <3>1, <3>2, <3>3, <3>4, RequestStep
  <2>3. CASE Route(q) # "off"
    <3> DEFINE new == [req[q] EXCEPT !.pc = Route(q), !.at = now]
    <3>1. req' = [req EXCEPT ![q] = new]
      BY <1>6, <2>3 DEF Dispatch
    <3>2. Route(q) \in {"upgrading", "readonly"}
      BY <2>3 DEF Route
    <3>3. /\ new \in Req /\ new.pc = Route(q) /\ new.at = now
          /\ new.token = req[q].token /\ new.room = req[q].room
          /\ new.from = req[q].from
      BY <2>1, <3>2 DEF Req, Pc
    <3>4. req'[q] = new /\ cfg' = cfg
      BY <1>6, <3>1 DEF Dispatch, startVars
    <3> HIDE DEF new
    <3>5. Fits(q)'
      BY <2>1, <2>3, <3>3, <3>4 DEF Fits, Route, Enabled, Verify, InTime, MaxTTL
    <3> QED
      BY <1>6, <2>1, <3>1, <3>3, <3>5, RequestStep DEF Dispatch
  <2> QED
    BY <2>2, <2>3
<1>7. ASSUME NEW q \in Request, Check(q) PROVE AdmissionInv'
  <2>1. phase = "up" /\ req[q] \in Req /\ req[q].pc = "upgrading"
    BY <1>7, OffType DEF Check
  <2>2. Enabled => ~req[q].token.ro
    BY <2>1 DEF Fits
  <2>3. UNCHANGED roConns
    BY <1>7, <2>2 DEF Check
  <2>4. CASE ~Enabled \/ Verify(req[q].token, req[q].room, now)
    <3> DEFINE new == [req[q] EXCEPT !.pc = "readwrite", !.at = now]
    <3>1. req' = [req EXCEPT ![q] = new]
      BY <1>7, <2>1, <2>4 DEF Check
    <3>2. /\ new \in Req /\ new.pc = "readwrite" /\ new.at = now
          /\ new.token = req[q].token /\ new.room = req[q].room
          /\ new.from = req[q].from
      BY <2>1 DEF Req, Pc
    <3>3. req'[q] = new /\ cfg' = cfg
      BY <1>7, <3>1 DEF Check, startVars
    <3> HIDE DEF new
    <3>4. Fits(q)'
      BY <2>1, <2>2, <2>4, <3>2, <3>3 DEF Fits, Enabled, Verify, InTime, MaxTTL
    <3> QED
      BY <1>7, <2>1, <2>3, <3>1, <3>2, <3>4, RequestStep DEF Check
  <2>5. CASE ~(~Enabled \/ Verify(req[q].token, req[q].room, now))
    <3>1. req' = [req EXCEPT ![q] = Off]
      BY <1>7, <2>5 DEF Check
    <3> QED
      BY <1>7, <2>1, <2>3, <3>1, OffType, RequestStep DEF Check, Fits
  <2> QED
    BY <2>4, <2>5
<1>8. ASSUME NEW q \in Request, Close(q) PROVE AdmissionInv'
  <2>1. phase = "up"
    BY <1>8, OffType DEF Close
  <2>2. Fits(q)'
    BY <1>8, OffType DEF Close, Fits
  <2> QED
    BY <1>8, <2>1, <2>2, OffType, RequestStep DEF Close
<1>9. CASE UNCHANGED vars
  BY <1>1, <1>9 DEF vars, joinVars
<1> QED
  BY <1>2, <1>3, <1>4, <1>5, <1>6, <1>7, <1>8, <1>9 DEF Next

(* The inductive invariant of admission holds in every state: how far each *)
(* request has got agrees with the token it showed, the clock at its last  *)
(* check and the address the process listens on (main.go:20-34, 172-187,   *)
(* auth.go:58-175).                                                        *)
THEOREM AdmissionSafe == Spec => []AdmissionInv
<1>1. Init => AdmissionInv
  BY OffType DEF Init, StartInit, Stopped, AdmissionInv, TypeInv, GuardInv, BucketInv,
     NothingRecorded, Fits, Configs, Address
<1> QED
  BY <1>1, AdmissionInductive, PTL DEF Spec

-----------------------------------------------------------------------------
(* The handler is the one of the verified ro claim (main.go:172-187).      *)
THEOREM HandlersFit == Spec => []HandlerFitsToken
<1>1. AdmissionInv => HandlerFitsToken
  BY DEF AdmissionInv, Fits, HandlerFitsToken
<1> QED
  BY <1>1, AdmissionSafe, PTL

(* Nobody is let in with a token that is past, of another room or valid    *)
(* for too long (auth.go:119-175), whatever the clock does between the two *)
(* checks.                                                                 *)
THEOREM OnlyInTime == Spec => []AdmittedInTime
<1>1. AdmissionInv => AdmittedInTime
  BY DEF AdmissionInv, TypeInv, Fits, AdmittedInTime, Verify, InTime, MaxTTL, Req,
     Token, Configs
<1> QED
  BY <1>1, AdmissionSafe, PTL

(* Nothing is ever recorded of a request (main.go:169-171).                *)
THEOREM RecordsNothing == Spec => []NothingRecorded
<1>1. AdmissionInv => NothingRecorded
  BY DEF AdmissionInv
<1> QED
  BY <1>1, AdmissionSafe, PTL

(* Without a secret and without the opt-out only this machine gets in      *)
(* (main.go:26-34).                                                        *)
THEOREM LocalUnlessVerified == Spec => []UnverifiedStayLocal
<1>1. AdmissionInv => UnverifiedStayLocal
  BY DEF AdmissionInv, Fits, UnverifiedStayLocal
<1> QED
  BY <1>1, AdmissionSafe, PTL

(* A server that is up has the bucket it could ask about (store.go:53-58). *)
THEOREM BucketIsThere == Spec => []BucketThere
<1>1. AdmissionInv => BucketThere
  BY DEF AdmissionInv, BucketInv, BucketThere
<1> QED
  BY <1>1, AdmissionSafe, PTL

-----------------------------------------------------------------------------
(* The bound a process with a secret checks is the one of its environment. *)
ConfigInv == cfg.enabled => env \in Setting /\ cfg.maxTTL = EnvInt(env.ttl, DefaultTTL)

(* A process reads its environment once, when it starts.                   *)
LEMMA ConfigAlways == Spec => []ConfigInv
<1>1. Init => ConfigInv
  BY DEF Init, StartInit, Stopped, ConfigInv
<1>2. ConfigInv /\ [Next]_vars => ConfigInv'
  <2> SUFFICES ASSUME ConfigInv, [Next]_vars PROVE ConfigInv'
    OBVIOUS
  <2> USE DEF ConfigInv
  <2>1. ASSUME UNCHANGED <<env, cfg>> PROVE ConfigInv'
    BY <2>1
  <2>2. ASSUME Die PROVE ConfigInv'
    BY <2>2 DEF Die, Stopped
  <2>3. ASSUME NEW e \in Setting, Start(e) PROVE ConfigInv'
    BY <2>3 DEF Start, LoadConfig
  <2>4. CASE StartNext
    BY <2>1, <2>2, <2>3, <2>4
       DEF StartNext, UseDisk, CheckBucket, MakeBucket, CreateFails, OtherCreates,
           Listen, GoTo
  <2>5. CASE Tick
    BY <2>1, <2>5 DEF Tick, startVars
  <2>6. CASE Exit
    BY <2>2, <2>6 DEF Exit
  <2>7. ASSUME NEW q \in Request, NEW token \in Token, NEW room \in Room,
               NEW from \in {"here", "elsewhere"}, Arrive(q, token, room, from)
        PROVE  ConfigInv'
    BY <2>1, <2>7 DEF Arrive, startVars
  <2>8. ASSUME NEW q \in Request, Dispatch(q) \/ Check(q) \/ Close(q)
        PROVE  ConfigInv'
    BY <2>1, <2>8 DEF Dispatch, Check, Close, startVars
  <2>9. CASE UNCHANGED vars
    BY <2>1, <2>9 DEF vars, startVars
  <2> QED
    BY <2>4, <2>5, <2>6, <2>7, <2>8, <2>9 DEF Next
<1> QED
  BY <1>1, <1>2, PTL DEF Spec

(* Started with one environment, the two servers admit the same tokens at  *)
(* any moment (auth.go:121-175, index.mjs:233-267), but for those without  *)
(* a room and those that only one of them can read, for names a URL        *)
(* carries verbatim and bounds both read alike.                            *)
THEOREM ServersAlike == Spec => []ServersAgree
<1>1. ConfigInv => ServersAgree
  <2> SUFFICES ASSUME ConfigInv, Enabled, ReadAlike(env.ttl),
                      NEW token \in Token, NEW room \in Room, UrlPath(room) = room
               PROVE  /\ Verify(token, room, now) =>
                           VerifyToken(token, room, now) \/ token.form = "folded"
                      /\ VerifyToken(token, room, now) =>
                           \/ Verify(token, room, now)
                           \/ token.room = NoClaim \/ token.form = "loose"
    BY DEF ServersAgree
  <2>0. token.form \in {"strict", "loose", "folded"}
    BY DEF Token
  <2>1. MaxTTL = EnvInt(env.ttl, DefaultTTL)
    BY DEF ConfigInv, Enabled, MaxTTL
  <2>2. EnvInt(env.ttl, DefaultTTL) = NodeMaxTTL(env.ttl)
    <3>1. CASE env.ttl.kind = "unset"
      BY <3>1 DEF EnvInt, NodeMaxTTL
    <3>2. CASE env.ttl.kind = "digits" /\ env.ttl.n >= 0
      BY <3>2 DEF EnvInt, NodeMaxTTL
    <3> QED
      BY <3>1, <3>2 DEF ReadAlike
  <2> QED
    BY <2>0, <2>1, <2>2 DEF Verify, InTime, VerifyToken
<1> QED
  BY <1>1, ConfigAlways, PTL
=============================================================================
