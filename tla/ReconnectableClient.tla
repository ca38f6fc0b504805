------------------------ MODULE ReconnectableClient -------------------------
(***************************************************************************)
(* pkg/client/redis/reconnectable/reconnectable_client.go: a redis client  *)
(* that replaces the go-redis client it wraps when a command fails with    *)
(* "connection refused".                                                   *)
(*                                                                         *)
(* A caller is a goroutine that runs commands on the wrapper.  A command   *)
(* reads the embedded UniversalClient without synchronisation (Issue), the *)
(* go-redis client runs it (Dial, Completed, Refused), and the hook the    *)
(* wrapper installed on every client it made runs attemptRefreshClient in  *)
(* the same goroutine.  An arbitrary delay after Issue covers the stale    *)
(* pointers that the unsynchronised read can return.  Each refresh leaves  *)
(* a goroutine behind that closes the client it replaced.                  *)
(*                                                                         *)
(* The owner is the code that holds the wrapper and closes it once: the    *)
(* timer of RedisCfg.OnUpdate (pkg/client/redis.go).                       *)
(*                                                                         *)
(* Clients are numbered in the order redisFactory makes them.  Bounds:     *)
(* MaxTime caps the clock, and with it the number of refreshes.            *)
(***************************************************************************)
EXTENDS Integers, FiniteSets

CONSTANTS
  Callers,   \* goroutines that run commands
  Cooldown,  \* refreshCooldown
  MaxTime    \* bound on the clock

ASSUME ClientAssumption ==
  /\ Cooldown \in Nat \ {0}
  /\ MaxTime \in Nat

VARIABLES
  pc,                \* where each caller is
  using,             \* the client a caller's command runs on, 0 when none
  oldClient,         \* local variable oldClient of attemptRefreshClient
  client,            \* local variable client of refreshClient
  current,           \* Client.UniversalClient
  created,           \* number of clients redisFactory has made
  closing,           \* clients a closer goroutine is about to close
  closed,            \* clients that are closed
  refreshInProgress, \* Client.refreshInProgress
  lastRefreshTime,   \* Client.lastRefreshTime
  serverUp,          \* whether the redis server accepts connections
  owner,             \* where the owner's Close is
  owned,             \* the client the owner's Close has read
  now,               \* the clock
  swappedAt          \* history: when current was installed

callVars   == <<pc, using, oldClient, client>>
clientVars == <<current, created, closing, closed, swappedAt>>
guardVars  == <<refreshInProgress, lastRefreshTime>>
ownerVars  == <<owner, owned>>
vars == <<callVars, clientVars, guardVars, ownerVars, serverUp, now>>

\* Control points inside the section refreshInProgress guards; make and
\* install are past the cooldown check.
Permitted == {"make", "install"}
Replacing == Permitted \cup {"spawn", "stamp"}
Section   == Replacing \cup {"check", "release"}
Points    == Section \cup {"idle", "calling", "dialing", "refused", "cas"}

\* The zero time.Time is so far back that time.Since exceeds any cooldown.
ZeroTime == 0 - Cooldown

\* Every client there can be: two refreshes are at least a tick apart.
Clients == 1 .. (MaxTime + 2)

Goto(g, to) == pc' = [pc EXCEPT ![g] = to]

-----------------------------------------------------------------------------
\* New: refreshClient makes the first client and does not stamp the time.
Init ==
  /\ pc        = [g \in Callers |-> "idle"]
  /\ using     = [g \in Callers |-> 0]
  /\ oldClient = [g \in Callers |-> 0]
  /\ client    = [g \in Callers |-> 0]
  /\ current = 1 /\ created = 1
  /\ closing = {} /\ closed = {}
  /\ refreshInProgress = FALSE
  /\ lastRefreshTime = ZeroTime
  /\ serverUp = TRUE
  /\ owner = "holding" /\ owned = 0
  /\ now = 0 /\ swappedAt = ZeroTime

-----------------------------------------------------------------------------
(* Commands, single or pipelined                                           *)

Issue(g) ==
  /\ pc[g] = "idle"
  /\ Goto(g, "calling")
  /\ using' = [using EXCEPT ![g] = current]
  /\ UNCHANGED <<oldClient, client, clientVars, guardVars, ownerVars,
                 serverUp, now>>

\* The client dials; a closed client answers "redis: client is closed".
Dial(g) ==
  /\ pc[g] = "calling"
  /\ using[g] \notin closed
  /\ Goto(g, "dialing")
  /\ UNCHANGED <<using, oldClient, client, clientVars, guardVars, ownerVars,
                 serverUp, now>>

\* The command succeeds or fails with an error shouldRefreshClient ignores.
Completed(g) ==
  /\ pc[g] \in {"calling", "dialing"}
  /\ Goto(g, "idle")
  /\ using' = [using EXCEPT ![g] = 0]
  /\ UNCHANGED <<oldClient, client, clientVars, guardVars, ownerVars,
                 serverUp, now>>

\* Mutant: shouldRefreshClient also accepts the error of a closed client.
RefusedOrClosed(g) ==
  /\ \/ pc[g] = "dialing" /\ ~serverUp
     \/ pc[g] = "calling" /\ using[g] \in closed
  /\ Goto(g, "refused")
  /\ UNCHANGED <<using, oldClient, client, clientVars, guardVars, ownerVars,
                 serverUp, now>>

\* The server is down: "connection refused", even if Close ran meanwhile.
Refused(g) ==
  /\ pc[g] = "dialing"
  /\ ~serverUp
  /\ Goto(g, "refused")
  /\ UNCHANGED <<using, oldClient, client, clientVars, guardVars, ownerVars,
                 serverUp, now>>

-----------------------------------------------------------------------------
(* attemptRefreshClient, run by the hook after a refused command           *)

Return(g) ==
  /\ Goto(g, "idle")
  /\ using'     = [using EXCEPT ![g] = 0]
  /\ oldClient' = [oldClient EXCEPT ![g] = 0]
  /\ client'    = [client EXCEPT ![g] = 0]

LoadInProgress(g) ==
  /\ pc[g] = "refused"
  /\ IF refreshInProgress
       THEN Return(g)
       ELSE Goto(g, "cas") /\ UNCHANGED <<using, oldClient, client>>
  /\ UNCHANGED <<clientVars, guardVars, ownerVars, serverUp, now>>

\* Mutant: the flag is set without testing it again.
StoreWithoutCompare(g) ==
  /\ pc[g] = "cas"
  /\ Goto(g, "check")
  /\ refreshInProgress' = TRUE
  /\ UNCHANGED <<using, oldClient, client, clientVars, lastRefreshTime,
                 ownerVars, serverUp, now>>

CompareAndSwap(g) ==
  /\ pc[g] = "cas"
  /\ IF refreshInProgress
       THEN Return(g) /\ UNCHANGED refreshInProgress
       ELSE /\ Goto(g, "check")
            /\ refreshInProgress' = TRUE
            /\ UNCHANGED <<using, oldClient, client>>
  /\ UNCHANGED <<clientVars, lastRefreshTime, ownerVars, serverUp, now>>

CooldownOver == now - lastRefreshTime >= Cooldown

\* Mutant: the early return leaves refreshInProgress set.
CanRefreshWithoutRelease(g) ==
  /\ pc[g] = "check"
  /\ IF CooldownOver
       THEN Goto(g, "make") /\ UNCHANGED <<using, oldClient, client>>
       ELSE Return(g)
  /\ UNCHANGED <<clientVars, guardVars, ownerVars, serverUp, now>>

CanRefreshClient(g) ==
  /\ pc[g] = "check"
  /\ Goto(g, IF CooldownOver THEN "make" ELSE "release")
  /\ UNCHANGED <<using, oldClient, client, clientVars, guardVars, ownerVars,
                 serverUp, now>>

\* oldClient := r.UniversalClient, then redisFactory and AddHook.
MakeClient(g) ==
  /\ pc[g] = "make"
  /\ Goto(g, "install")
  /\ oldClient' = [oldClient EXCEPT ![g] = current]
  /\ client'    = [client EXCEPT ![g] = created + 1]
  /\ created'   = created + 1
  /\ UNCHANGED <<using, current, closing, closed, swappedAt, guardVars,
                 ownerVars, serverUp, now>>

Install(g) ==
  /\ pc[g] = "install"
  /\ Goto(g, "spawn")
  /\ current' = client[g]
  /\ swappedAt' = now
  /\ UNCHANGED <<using, oldClient, client, created, closing, closed,
                 guardVars, ownerVars, serverUp, now>>

\* Mutant: the goroutine closes r.UniversalClient, read after the swap.
SpawnCloserOfCurrent(g) ==
  /\ pc[g] = "spawn"
  /\ Goto(g, "stamp")
  /\ closing' = closing \cup {current}
  /\ UNCHANGED <<using, oldClient, client, current, created, closed,
                 swappedAt, guardVars, ownerVars, serverUp, now>>

SpawnCloser(g) ==
  /\ pc[g] = "spawn"
  /\ Goto(g, "stamp")
  /\ closing' = closing \cup {oldClient[g]}
  /\ UNCHANGED <<using, oldClient, client, current, created, closed,
                 swappedAt, guardVars, ownerVars, serverUp, now>>

\* Mutant: the refresh time is never updated.
StampNothing(g) ==
  /\ pc[g] = "stamp"
  /\ Goto(g, "release")
  /\ UNCHANGED <<using, oldClient, client, clientVars, guardVars, ownerVars,
                 serverUp, now>>

\* The deferred calls run last in, first out: the stamp before the release.
StampRefresh(g) ==
  /\ pc[g] = "stamp"
  /\ Goto(g, "release")
  /\ lastRefreshTime' = now
  /\ UNCHANGED <<using, oldClient, client, clientVars, refreshInProgress,
                 ownerVars, serverUp, now>>

ReleaseRefresh(g) ==
  /\ pc[g] = "release"
  /\ Return(g)
  /\ refreshInProgress' = FALSE
  /\ UNCHANGED <<clientVars, lastRefreshTime, ownerVars, serverUp, now>>

AttemptRefreshClient(g) ==
  \/ LoadInProgress(g) \/ CompareAndSwap(g) \/ CanRefreshClient(g)
  \/ MakeClient(g) \/ Install(g) \/ SpawnCloser(g)
  \/ StampRefresh(g) \/ ReleaseRefresh(g)

\* The goroutine that closes a replaced client; closing twice is harmless.
CloseOld(c) ==
  /\ c \in closing
  /\ closing' = closing \ {c}
  /\ closed'  = closed \cup {c}
  /\ UNCHANGED <<callVars, current, created, swappedAt, guardVars,
                 ownerVars, serverUp, now>>

-----------------------------------------------------------------------------
(* The owner, the redis server and the clock                               *)

\* oldC.Close(): Close is promoted from the embedded UniversalClient, so the
\* pointer is read first and the client it points to is closed later.
OwnerReadsClient ==
  /\ owner = "holding"
  /\ owner' = "closing"
  /\ owned' = current
  /\ UNCHANGED <<callVars, clientVars, guardVars, serverUp, now>>

OwnerCloses ==
  /\ owner = "closing"
  /\ owner' = "gone"
  /\ closed' = closed \cup {owned}
  /\ UNCHANGED <<callVars, current, created, closing, swappedAt, guardVars,
                 owned, serverUp, now>>

ServerCrashesOrRestarts ==
  /\ serverUp' = ~serverUp
  /\ UNCHANGED <<callVars, clientVars, guardVars, ownerVars, now>>

Tick ==
  /\ now < MaxTime
  /\ now' = now + 1
  /\ UNCHANGED <<callVars, clientVars, guardVars, ownerVars, serverUp>>

Next ==
  \/ \E g \in Callers :
       \/ Issue(g) \/ Dial(g) \/ Completed(g) \/ Refused(g)
       \/ AttemptRefreshClient(g)
  \/ \E c \in Clients : CloseOld(c)
  \/ OwnerReadsClient \/ OwnerCloses
  \/ ServerCrashesOrRestarts
  \/ Tick

SafeSpec == Init /\ [][Next]_vars

\* The Go scheduler runs every runnable goroutine: a caller inside
\* attemptRefreshClient never blocks, and closers are independent.  Nothing
\* obliges callers to issue commands, the owner to close or time to pass.
Fairness ==
  /\ \A g \in Callers : WF_vars(AttemptRefreshClient(g))
  /\ \A c \in Clients : WF_vars(CloseOld(c))

Spec == SafeSpec /\ Fairness

-----------------------------------------------------------------------------
TypeOK ==
  /\ pc \in [Callers -> Points]
  /\ using \in [Callers -> Nat]
  /\ oldClient \in [Callers -> Nat]
  /\ client \in [Callers -> Nat]
  /\ current \in Nat /\ created \in Nat
  /\ closing \subseteq Nat /\ closed \subseteq Nat
  /\ refreshInProgress \in BOOLEAN
  /\ lastRefreshTime \in Int
  /\ serverUp \in BOOLEAN
  /\ owner \in {"holding", "closing", "gone"} /\ owned \in Nat
  /\ now \in 0 .. MaxTime /\ swappedAt \in Int

InSection(g) == pc[g] \in Section

\* attemptRefreshClient excludes itself: however many commands are refused
\* together, one caller at a time checks the cooldown and swaps clients, and
\* refreshInProgress is set exactly while one does.
RefreshExclusive ==
  /\ \A g, h \in Callers : InSection(g) /\ InSection(h) => g = h
  /\ refreshInProgress <=> \E g \in Callers : InSection(g)

\* Every client redisFactory made is in service, closed, about to be closed,
\* or still in the hands of the refreshing caller: no refresh drops a client
\* with its connections open.
NoClientLost ==
  \A c \in 1 .. created :
    \/ c = current
    \/ c \in closing \cup closed
    \/ \E g \in Callers : \/ pc[g] = "install" /\ client[g] = c
                          \/ pc[g] = "spawn" /\ oldClient[g] = c

\* A refresh never closes the client in service: when it is closed, or a
\* closer has it, then the owner's own Close has closed exactly that client.
OnlyOwnerClosesCurrent ==
  /\ current \notin closing
  /\ current \in closed => owner = "gone" /\ owned = current

\* The strengthening under which the invariants above are inductive.
\* MakerInv: what the caller past the cooldown check relies on; the clients
\* made are the ones installed, but for the one about to be.
MakerInv ==
  /\ \A g \in Callers :
       /\ pc[g] \in Permitted => CooldownOver
       /\ pc[g] = "install" => /\ oldClient[g] = current
                               /\ client[g] = created
                               /\ created = current + 1
       /\ pc[g] = "spawn" => oldClient[g] \in 1 .. (current - 1)
  /\ (\A g \in Callers : pc[g] # "install") => created = current

\* StampInv: lastRefreshTime may lag behind the last swap only while the
\* caller that swapped has still to run its deferred stamp.
StampInv ==
  /\ swappedAt <= now /\ lastRefreshTime <= now
  /\ \/ swappedAt <= lastRefreshTime
     \/ \E g \in Callers : pc[g] \in {"spawn", "stamp"}

\* NumberInv: clients that are closed or being closed have been in service.
NumberInv ==
  /\ current >= 1
  /\ closing \subseteq 1 .. (current - 1)
  /\ closed \subseteq 1 .. current
  /\ owned <= current
  /\ owner = "closing" => owned >= 1

IInv ==
  /\ TypeOK /\ RefreshExclusive /\ MakerInv /\ StampInv /\ NumberInv
  /\ NoClientLost /\ OnlyOwnerClosesCurrent

\* A client stays in service for at least the cooldown, whatever stale
\* failures of earlier clients still come in.
RefreshSpacing ==
  [][current' # current => now - swappedAt >= Cooldown]_vars

\* While commands keep being refused, a client whose cooldown is over, counted
\* from the stamp its refresh left, is replaced: refusals that meet a running
\* refresh are ignored, but neither a refresh that came too early nor a lost
\* race blocks refreshing for good.
RefusalsLeadToSwap ==
  \A c \in Clients :
    [](current = c /\ CooldownOver /\ swappedAt <= lastRefreshTime =>
         \/ <>(current # c)
         \/ <>[](\A g \in Callers : pc[g] # "refused"))

\* After the owner's Close, the wrapper stays closed for good once the
\* commands that were dialing have returned: later commands on the closed
\* client fail without "connection refused" and revive nothing.
WoundDown ==
  /\ owner = "gone" /\ current \in closed
  /\ \A g \in Callers :
       pc[g] = "idle" \/ (pc[g] = "calling" /\ using[g] \in closed)

CloseIsFinal == [](WoundDown => [](current \in closed))

\* The wrapper is the handle ClientHandle specifies; a client is open from
\* its installation to its Close.
Handle == INSTANCE ClientHandle WITH
            open    <- (1 .. current) \ closed,
            retired <- (owner = "gone")

\* Every step of the wrapper is a step of the handle or a stutter: a refresh
\* takes effect in one step, at the assignment to UniversalClient.
HandleSafe == Handle!SafeSpec

\* The wrapper closes every client it replaced, as the handle promises.
HandleSpec == Handle!Spec
=============================================================================
