------------------------------- MODULE Startup -------------------------------
(***************************************************************************)
(* How a process of the Go board server comes up (server-go/config.go,     *)
(* main.go, store.go): it reads its environment, decides where to listen   *)
(* and where to store, makes sure of its bucket, and serves or dies.       *)
(* Environments are classes of texts: what the parsing tells apart.        *)
(***************************************************************************)
EXTENDS Integers

CONSTANTS
  Setting,      \* the environments processes are started with
  DefaultTTL    \* defaultMaxTokenTTL (3600 in the code)

\* A number's text: not set, "", plain digits with or without a sign, a form
\* only JavaScript reads as a number ("1e3", "2.0"), or no number at all.
\* (No variable here is read with envFloat64.)
Text == [kind : {"unset", "empty", "digits", "fancy", "garbage"}, n : Int]

\* VULOS_STORAGE_ENDPOINT: "" has no scheme; "https://", "http://" or a bare
\* host; a host is missing, loopback or private, or public.
Endpoint == [scheme : {"", "https", "http", "bare"},
             host   : {"none", "private", "public"}]

Address == {"all", "loopback", "portless"}

ASSUME StartupAssumption ==
  /\ DefaultTTL \in Nat
  /\ \A e \in Setting :
       /\ {"secret", "insecure", "bucket"} \subseteq DOMAIN e
       /\ {e.secret, e.insecure, e.bucket} \subseteq BOOLEAN
       /\ e.addr \in {"unset"} \cup Address
       /\ e.endpoint \in Endpoint
       /\ e.ttl.kind \in {"unset", "empty", "digits", "fancy", "garbage"}
       /\ e.ttl.n \in Int

VARIABLES
  phase,    \* how far main has got
  env,      \* the environment of the process
  cfg,      \* LoadConfig's result, with the address main listens on
  sink,     \* where the adapter stores; "unseen" is a bucket nobody has seen
  bucket    \* does the object store have the bucket?

startVars == <<phase, env, cfg, sink, bucket>>

-----------------------------------------------------------------------------
(* config.go.                                                              *)

(* envInt, envInt64: what is no non-negative number is as good as unset.   *)
EnvInt(text, def) ==
  IF text.kind = "digits" /\ text.n >= 0 THEN text.n ELSE def

LoadConfig(e) ==
  [enabled  |-> e.secret,
   maxTTL   |-> EnvInt(e.ttl, DefaultTTL),
   addr     |-> IF e.addr = "unset" THEN "all" ELSE e.addr,
   insecure |-> e.insecure]

Configured(e) == e.endpoint.scheme # "" /\ e.bucket

(* loopbackAddr replaces the host; it does not invent a port.              *)
LoopbackAddr(addr) == IF addr = "portless" THEN addr ELSE "loopback"

(* main's guard.                                                           *)
ListenAsAsked(c, e) ==              \* slip: only the default is overridden
  IF ~c.enabled /\ ~c.insecure /\ e.addr = "unset" THEN LoopbackAddr(c.addr)
  ELSE c.addr
ListenAddr(c, e) ==
  IF ~c.enabled /\ ~c.insecure THEN LoopbackAddr(c.addr) ELSE c.addr

-----------------------------------------------------------------------------
(* store.go: a plaintext endpoint must be loopback or private.             *)
ParseEndpoint(endpoint) ==
  /\ endpoint.host # "none"
  /\ endpoint.scheme = "https" \/ endpoint.host = "private"

-----------------------------------------------------------------------------
NoSetting == CHOOSE e \in Setting : TRUE
Stopped == [enabled |-> FALSE, maxTTL |-> 0, addr |-> "loopback", insecure |-> FALSE]

StartInit ==
  /\ phase = "down"
  /\ env = NoSetting
  /\ cfg = Stopped
  /\ sink = "none"
  /\ bucket \in BOOLEAN

GoTo(p) == phase' = p /\ UNCHANGED <<env, cfg, bucket>>

(* log.Fatal, and every other end of the process.                          *)
Die ==
  /\ phase' = "down"
  /\ cfg' = Stopped
  /\ sink' = "none"
  /\ UNCHANGED <<env, bucket>>

Start(e) ==
  /\ phase = "down"
  /\ phase' = "configured"
  /\ env' = e
  /\ cfg' = [LoadConfig(e) EXCEPT !.addr = ListenAddr(LoadConfig(e), e)]
  /\ UNCHANGED <<sink, bucket>>

(* os.MkdirAll, or its error.                                              *)
UseDisk ==
  /\ phase = "configured"
  /\ ~Configured(env)
  /\ (sink' = "disk" /\ GoTo("wired")) \/ Die

(* NewS3Store: an endpoint that is refused, by parseEndpoint or minio.New; *)
(* BucketExists, whose error is ignored.                                   *)
CheckBucket ==
  /\ phase = "configured"
  /\ Configured(env)
  /\ \/ Die
     \/ /\ ParseEndpoint(env.endpoint)
        /\ \/ bucket /\ sink' = "bucket" /\ GoTo("wired")
           \/ ~bucket /\ sink' = "bucket" /\ GoTo("creating")
           \/ sink' = "unseen" /\ GoTo("wired")

(* MakeBucket; it fails too when another server was faster.                *)
CreateAnyway == Die \/ (phase' = "wired" /\ UNCHANGED <<env, cfg, sink, bucket>>)
                                    \* slip: the error is ignored as well
CreateFails == Die

MakeBucket ==
  /\ phase = "creating"
  /\ \/ ~bucket /\ bucket' = TRUE /\ phase' = "wired" /\ UNCHANGED <<env, cfg, sink>>
     \/ CreateFails

(* Another server of the deployment creates the bucket.                    *)
OtherCreates ==
  /\ ~bucket
  /\ bucket' = TRUE
  /\ UNCHANGED <<phase, env, cfg, sink>>

(* ListenAndServe.                                                         *)
Listen ==
  /\ phase = "wired"
  /\ \/ cfg.addr # "portless" /\ GoTo("up") /\ UNCHANGED sink
     \/ Die

StartNext ==
  \/ \E e \in Setting : Start(e)
  \/ UseDisk \/ CheckBucket \/ MakeBucket \/ OtherCreates \/ Listen

-----------------------------------------------------------------------------
(* A server that is up and stores in a bucket it could ask about has that  *)
(* bucket (store.go:53-58): the store then says "no such key" of a room    *)
(* that was never saved, not "no such bucket" of all of them, which Get    *)
(* (store.go:88-92) takes for the same thing.                              *)
BucketThere == phase = "up" /\ sink = "bucket" => bucket
=============================================================================
