----------------------------- MODULE HotClients -----------------------------
(***************************************************************************)
(* The clients of a hot-reloaded config: OnUpdate of RedisCfg (redis.go),  *)
(* EthCfg (eth.go), BatchableEthCfg (eth_batchable.go) and GrpcCfg         *)
(* (grpc.go) in pkg/client.                                                *)
(*                                                                         *)
(* An update arms a timer that closes the client of the old config after   *)
(* CloseDelay and then makes the client of the new one, which may take     *)
(* long (EthCfg dials two nodes, with no deadline) and may fail.           *)
(* BatchableEthCfg, around an EthCfg, arms one more timer once the dial is *)
(* over.  Code that uses the client takes it from the config in force and  *)
(* may hold on to it.  The loader of the configs is external: it runs one update at a  *)
(* time, and a config is in force once its update has returned.            *)
(*                                                                         *)
(* Configs are numbered; config 0 is the nil config before the first.      *)
(***************************************************************************)
EXTENDS Integers

CONSTANTS
  Users,       \* goroutines that use the client
  Kinds,       \* kinds of config; a behaviour is about one of them
  CloseDelay,  \* RedisCloseDelay, EthCloseDelay, GrpcCloseDelay
  Updates,     \* bound on the number of configs
  MaxTime      \* bound on the clock

ASSUME HotAssumption ==
  /\ Kinds \subseteq {"redis", "eth", "batchable", "grpc"}
  /\ CloseDelay \in Nat \ {0}
  /\ Updates \in Nat
  /\ MaxTime \in Nat

VARIABLES
  kind,       \* the kind of config
  cfg,        \* the config in force
  updating,   \* OnUpdate is running, for config cfg + 1
  dialed,     \* connections of each config's client; {} is a nil client
  timers,     \* timers that are armed for each config
  armedAt,    \* when the update that replaces each config began
  inForceAt,  \* when each config came into force
  closed,     \* connections that are closed
  panicked,   \* a timer has dereferenced nil, which ends the process
  holds,      \* the config whose client a user works with, 0 for none
  since,      \* history: since when
  now         \* the clock

updateVars == <<cfg, updating, dialed, armedAt, inForceAt>>
timerVars  == <<timers, closed, panicked>>
userVars   == <<holds, since>>
vars == <<kind, updateVars, timerVars, userVars, now>>

Configs == 1 .. Updates
Nodes   == {"node", "archive"}

\* What a client may be connected to when it is made.  redisFactory always
\* returns a client; EthCfg.Dial returns nil when both nodes fail, and uses
\* the other one in place of one that fails; grpcclient.New may fail.
Outcomes ==
  IF kind = "redis" THEN {{"node"}}
  ELSE IF kind = "grpc" THEN {{}, {"node"}}
  ELSE SUBSET Nodes

Init ==
  /\ kind \in Kinds
  /\ cfg = 0 /\ updating = FALSE
  /\ dialed = [c \in Configs |-> {}]
  /\ timers = [c \in Configs |-> {}]
  /\ armedAt = [c \in Configs |-> 0]
  /\ inForceAt = [c \in Configs |-> 0]
  /\ closed = {}
  /\ panicked = FALSE
  /\ holds = [u \in Users |-> 0] /\ since = [u \in Users |-> 0]
  /\ now = 0

-----------------------------------------------------------------------------
(* OnUpdate                                                                *)

\* Mutant: EthCfg and RedisCfg do not test old.C either.
TimersUnguarded(c) == {"client"}

\* The timer that is armed for the old config before the dial.  GrpcCfg does
\* not test its client for nil.
TimersFor(c) == IF kind = "grpc" \/ dialed[c] # {} THEN {"client"} ELSE {}

\* The timer that is armed after it; the wrapper that BatchableEthCfg tests
\* is never nil.
TimersAfterDial == IF kind = "batchable" THEN {"batch"} ELSE {}

BeginUpdate ==
  /\ ~panicked
  /\ ~updating /\ cfg < Updates       \* bound: Updates
  /\ now + CloseDelay <= MaxTime      \* bound: the timers can still fire
  /\ updating' = TRUE
  /\ IF cfg = 0
       THEN UNCHANGED <<timers, armedAt>>
       ELSE /\ timers'  = [timers EXCEPT ![cfg] = TimersFor(cfg)]
            /\ armedAt' = [armedAt EXCEPT ![cfg] = now]
  /\ UNCHANGED <<kind, cfg, dialed, inForceAt, closed, panicked, userVars,
                 now>>

\* The new client is made, or not, and the config comes into force.  A timer
\* that is armed now has the time at which it does.
EndUpdate ==
  /\ ~panicked
  /\ updating
  /\ updating' = FALSE
  /\ cfg' = cfg + 1
  /\ \E nodes \in Outcomes : dialed' = [dialed EXCEPT ![cfg + 1] = nodes]
  /\ inForceAt' = [inForceAt EXCEPT ![cfg + 1] = now]
  /\ timers' = IF cfg = 0 THEN timers
               ELSE [timers EXCEPT ![cfg] = @ \cup TimersAfterDial]
  /\ UNCHANGED <<kind, armedAt, closed, panicked, userVars, now>>

-----------------------------------------------------------------------------
(* The timers                                                              *)

Conns(c) == {c} \X dialed[c]

\* Mutant: EthClient.Close forgets the archive node.
CloseNodeOnly(c) == {c} \X (dialed[c] \cap {"node"})

\* Close of the client: of both nodes, or of the one that stands for both.
Close(c) == Conns(c)

\* Mutant: the old client is closed in OnUpdate instead of by a timer.
AtOnce(c, t) == t \in timers[c]

Due(c, t) ==
  now - (IF t = "client" THEN armedAt[c] ELSE inForceAt[c + 1]) >= CloseDelay

\* Both timers of a BatchableEthCfg close the same EthClient, which is
\* harmless.  Either method dereferences the client: nil ends the process.
TimerFires(c, t) ==
  /\ ~panicked
  /\ t \in timers[c]
  /\ Due(c, t)
  /\ timers' = [timers EXCEPT ![c] = @ \ {t}]
  /\ panicked' = (dialed[c] = {})
  /\ closed' = closed \cup Close(c)
  /\ UNCHANGED <<kind, updateVars, userVars, now>>

-----------------------------------------------------------------------------
(* Users and the clock                                                     *)

Take(u) ==
  /\ ~panicked
  /\ holds[u] = 0
  /\ cfg # 0 /\ dialed[cfg] # {}
  /\ holds' = [holds EXCEPT ![u] = cfg]
  /\ since' = [since EXCEPT ![u] = now]
  /\ UNCHANGED <<kind, updateVars, timerVars, now>>

Leave(u) ==
  /\ ~panicked
  /\ holds[u] # 0
  /\ holds' = [holds EXCEPT ![u] = 0]
  /\ since' = [since EXCEPT ![u] = 0]
  /\ UNCHANGED <<kind, updateVars, timerVars, now>>

Tick ==
  /\ ~panicked
  /\ now < MaxTime
  /\ now' = now + 1
  /\ UNCHANGED <<kind, updateVars, timerVars, userVars>>

Fire(c) == \E t \in {"client", "batch"} : TimerFires(c, t)

Next ==
  \/ BeginUpdate \/ EndUpdate
  \/ \E c \in Configs : Fire(c)
  \/ \E u \in Users : Take(u) \/ Leave(u)
  \/ Tick

SafeSpec == Init /\ [][Next]_vars

\* Time passes and timers run; a dial, a user or a new config may take for
\* ever.
Spec ==
  /\ SafeSpec
  /\ WF_vars(Tick)
  /\ \A c \in Configs : WF_vars(Fire(c))

-----------------------------------------------------------------------------
TypeOK ==
  /\ kind \in Kinds
  /\ cfg \in 0 .. Updates /\ updating \in BOOLEAN
  /\ updating => cfg < Updates
  /\ dialed \in [Configs -> SUBSET Nodes]
  /\ timers \in [Configs -> SUBSET {"client", "batch"}]
  /\ armedAt \in [Configs -> Nat] /\ inForceAt \in [Configs -> Nat]
  /\ closed \subseteq Configs \X Nodes
  /\ panicked \in BOOLEAN
  /\ holds \in [Users -> 0 .. Updates] /\ since \in [Users -> Nat]
  /\ now \in 0 .. MaxTime

\* The client of the config in force is closed only under an update that has
\* been dialing for CloseDelay: the timer was armed before the dial began.
InForceStaysOpen ==
  cfg # 0 /\ Conns(cfg) \cap closed # {} =>
    updating /\ now - armedAt[cfg] >= CloseDelay

\* A user loses the client it took only after CloseDelay, less the time the
\* update that replaced the client took to make the next one.
UpdateTook(c) ==
  (IF cfg > c THEN inForceAt[c + 1] ELSE now) - armedAt[c]

UsersUndisturbed ==
  \A u \in Users :
    holds[u] # 0 /\ Conns(holds[u]) \cap closed # {} =>
      (now - since[u]) + UpdateTook(holds[u]) >= CloseDelay

\* The process dies in a timer only when the update of a config that was
\* replaced had failed: of a GrpcCfg, CloseDelay after the next update began,
\* or of a BatchableEthCfg, CloseDelay after that update was over.
PanicOnlyAfterFailedUpdate ==
  panicked =>
    \E c \in 1 .. cfg :
      /\ dialed[c] = {}
      /\ \/ kind = "grpc" /\ now - armedAt[c] >= CloseDelay
         \/ kind = "batchable" /\ c < cfg /\ now - inForceAt[c + 1] >= CloseDelay

\* The strengthening under which the invariants above are inductive.
Replaced(c) == c < cfg \/ (c = cfg /\ updating)

\* TimerInv: only the client of a config that is replaced, or about to be,
\* has timers or is closed, and it is closed when they are due.
ArmedInv(c) ==
  /\ Replaced(c) => armedAt[c] <= now
  /\ c < cfg => armedAt[c] <= inForceAt[c + 1]
  /\ c > cfg => dialed[c] = {}
  /\ "client" \in timers[c] => Replaced(c) /\ (dialed[c] = {} => kind = "grpc")
  /\ "batch" \in timers[c] => c < cfg /\ kind = "batchable"

TimerInv ==
  /\ \A c \in Configs : \A n \in Nodes :
       <<c, n>> \in closed => Replaced(c) /\ now - armedAt[c] >= CloseDelay
  /\ \A c \in Configs : ArmedInv(c)

\* UserInv: a user that holds an old client took it before the next config
\* came into force.
UserInv ==
  \A u \in Users :
    /\ holds[u] <= cfg
    /\ since[u] <= now
    /\ holds[u] # 0 /\ holds[u] < cfg => since[u] <= inForceAt[holds[u] + 1]

IInv == TypeOK /\ TimerInv /\ UserInv /\ PanicOnlyAfterFailedUpdate

\* Every connection of a replaced config is closed, unless a panic was first.
ReplacedIsClosed ==
  \A c \in Configs : (cfg > c) ~> (panicked \/ Conns(c) \subseteq closed)
=============================================================================
