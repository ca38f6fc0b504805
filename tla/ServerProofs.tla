---------------------------- MODULE ServerProofs ----------------------------
(***************************************************************************)
(* Proofs about pkg/server.                                                *)
(*                                                                         *)
(* ServeLifecycle, for any sets of requests: the inductive invariant, that *)
(* stopping loses no request, and that the process implements              *)
(* GracefulService.                                                        *)
(*                                                                         *)
(* ServerConfig, for any configs, options, paths and addresses: the        *)
(* inductive invariant about the slices of configs and the arrays that     *)
(* they share, and from it what a server is made of.                       *)
(***************************************************************************)
EXTENDS ServeLifecycle, ServerConfig, SequenceTheorems, TLAPS

-----------------------------------------------------------------------------
(* Types                                                                   *)

LEMMA InitType == Init => TypeOK
<1> SUFFICES ASSUME Init PROVE TypeOK
  OBVIOUS
<1>1. /\ go \in [Servers -> {"idle", "start", "serving", "sending", "done"}]
      /\ srv \in [Servers -> {"new", "up", "draining", "down"}]
  BY DEF Init
<1>2. req \in [Requests -> {"new", "connected", "accepted", "handling", "cut",
                           "failed", "replied", "answered"}]
  BY DEF Init
<1>3. stop \in 0 .. StopCap
  BY DEF Init, StopCap
<1>4. /\ signalled \in BOOLEAN /\ cancelled \in BOOLEAN /\ flushed \in BOOLEAN
      /\ main = "register" /\ result = "none"
  BY Zenon DEF Init
<1>5. QED
  BY <1>1, <1>2, <1>3, <1>4 DEF TypeOK

LEMMA StepType == TypeOK /\ [Next]_vars => TypeOK'
<1> SUFFICES ASSUME TypeOK, [Next]_vars PROVE TypeOK'
  OBVIOUS
<1> USE DEF TypeOK, Servers, StopCap, serveVars
<1>1. CASE Register \/ RegisterFails \/ StartServers
  BY <1>1 DEF Register, RegisterFails, StartServers
<1>2. CASE ReceiveSignal
  BY <1>2 DEF ReceiveSignal, RunDeferred, NextDeferred, BeginStop
<1>3. ASSUME NEW s \in Servers, ReceiveError(s) PROVE TypeOK'
  BY <1>3 DEF ReceiveError, RunDeferred, NextDeferred, BeginStop
<1>4. ASSUME NEW s \in Servers, StopServer(s) PROVE TypeOK'
  BY <1>4 DEF StopServer, RunDeferred, NextDeferred, BeginStop
<1>5. CASE ShutdownKyberTrace \/ Fatalf
  BY <1>5 DEF ShutdownKyberTrace, Fatalf
<1>6. ASSUME NEW s \in Servers, Server(s) PROVE TypeOK'
  BY <1>6 DEF Server, ListenFails, Listens, AcceptFails, ServeReturns
<1>7. CASE Notify \/ CancelCtx
  <2>1. stop' \in 0 .. StopCap
    BY <1>7 DEF Notify, CancelCtx
  <2>2. signalled' \in BOOLEAN /\ cancelled' \in BOOLEAN
    BY <1>7, Zenon DEF Notify, CancelCtx
  <2>3. UNCHANGED <<main, go, srv, result, flushed, req>>
    BY <1>7 DEF Notify, CancelCtx
  <2>4. QED
    BY <2>1, <2>2, <2>3
<1>8. ASSUME NEW r \in Requests, Arrives(r) \/ Proceeds(r) PROVE TypeOK'
  BY <1>8 DEF Arrives, Proceeds, HttpAccept, H2cConnect, H2cAccept, RpcAccept,
              RpcCut, RpcUnavailable, HandlerReturns, ResponseWritten, To
<1>9. CASE UNCHANGED vars
  BY <1>9 DEF vars
<1>10. QED
  BY <1>1, <1>2, <1>3, <1>4, <1>5, <1>6, <1>7, <1>8, <1>9 DEF Next, Main

-----------------------------------------------------------------------------
(* The order in which main stops the servers                               *)

LEMMA StepOrder == TypeOK /\ Order /\ [Next]_vars => Order'
<1> SUFFICES ASSUME TypeOK, Order, [Next]_vars PROVE Order'
  OBVIOUS
<1> USE DEF Order, Servers
<1>0. /\ go \in [Servers -> {"idle", "start", "serving", "sending", "done"}]
      /\ srv \in [Servers -> {"new", "up", "draining", "down"}]
  BY DEF TypeOK
<1>1. CASE Register \/ StartServers
  BY <1>0, <1>1 DEF Register, StartServers
<1>9. CASE RegisterFails
  BY <1>0, <1>9 DEF RegisterFails
<1>2. CASE ReceiveSignal \/ \E s \in Servers : ReceiveError(s)
  <2>1. /\ main = "select" /\ RunDeferred("select", srv)
        /\ UNCHANGED flushed
    BY <1>2 DEF ReceiveSignal, ReceiveError
  <2>2. /\ main' = "http"
        /\ srv' = [srv EXCEPT !["http"] = BeginStop("http")]
    BY <2>1 DEF RunDeferred, NextDeferred
  <2>3. QED
    BY <1>0, <2>1, <2>2 DEF BeginStop
<1>3. ASSUME NEW s \in Servers, StopServer(s) PROVE Order'
  <2>1. CASE s = "http"
    <3>1. /\ main = "http" /\ main' = "grpc" /\ UNCHANGED flushed
          /\ srv' = [srv EXCEPT !["http"] = "down",
                                !["grpc"] = BeginStop("grpc")]
      BY <1>0, <1>3, <2>1 DEF StopServer, RunDeferred, NextDeferred
    <3>2. QED
      BY <1>0, <3>1 DEF BeginStop
  <2>2. CASE s = "grpc"
    <3>1. /\ main = "grpc" /\ main' = "returned" /\ UNCHANGED flushed
          /\ srv' = [srv EXCEPT !["grpc"] = "down"]
      BY <1>0, <1>3, <2>2 DEF StopServer, RunDeferred, NextDeferred
    <3>2. QED
      BY <1>0, <3>1
  <2>3. QED
    BY <2>1, <2>2
<1>4. CASE ShutdownKyberTrace \/ Fatalf
  BY <1>0, <1>4 DEF ShutdownKyberTrace, Fatalf
<1>5. ASSUME NEW s \in Servers, Server(s) PROVE Order'
  BY <1>0, <1>5
  DEF Server, ListenFails, Listens, AcceptFails, ServeReturns, Running
<1>6. ASSUME UNCHANGED serveVars PROVE Order'
  BY <1>6 DEF serveVars
<1>7. CASE Notify
  BY <1>7 DEF Notify
<1>8. QED
  BY <1>1, <1>2, <1>3, <1>4, <1>5, <1>6, <1>7, <1>9
  DEF Next, Main, CancelCtx, Arrives, Proceeds, HttpAccept, H2cConnect,
      H2cAccept, RpcAccept, RpcCut, RpcUnavailable, HandlerReturns,
      ResponseWritten, To, vars

-----------------------------------------------------------------------------
(* Requests                                                                *)

\* Shutdown ends when the gateway has no active connection, or ctx is
\* cancelled, and GracefulStop when no RPC runs.
LEMMA StepServed ==
  TypeOK /\ Order /\ Served /\ [Next]_vars => Served'
<1> SUFFICES ASSUME TypeOK, Order, Served, [Next]_vars PROVE Served'
  OBVIOUS
<1> USE DEF Served, Servers, Handling, ActiveConns
<1>0. /\ srv \in [Servers -> {"new", "up", "draining", "down"}]
      /\ cancelled \in BOOLEAN
      /\ req \in [Requests ->
                    {"new", "connected", "accepted", "handling", "cut",
                     "failed", "replied", "answered"}]
  BY DEF TypeOK
<1>1. CASE ReceiveSignal \/ \E s \in Servers : ReceiveError(s)
  <2>1. /\ srv' = [srv EXCEPT !["http"] = BeginStop("http")]
        /\ main = "select" /\ UNCHANGED <<cancelled, req>>
    BY <1>1 DEF ReceiveSignal, ReceiveError, RunDeferred, NextDeferred
  <2>2. QED
    BY <1>0, <2>1 DEF Order, BeginStop
<1>2. ASSUME NEW s \in Servers, StopServer(s) PROVE Served'
  <2>1. CASE s = "http"
    <3>1. /\ main = "http" /\ UNCHANGED <<cancelled, req>>
          /\ srv' = [srv EXCEPT !["http"] = "down",
                                !["grpc"] = BeginStop("grpc")]
      BY <1>0, <1>2, <2>1 DEF StopServer, RunDeferred, NextDeferred
    <3>2. srv["http"] = "down" \/ cancelled \/ ActiveConns = {}
      BY <1>2, <2>1 DEF StopServer, Drained
    <3>3. \A r \in ActiveConns : cancelled
      BY <1>0, <3>2
    <3>4. srv["grpc"] \in {"new", "up"}
      BY <3>1 DEF Order
    <3>5. \A r \in Handling : srv'["grpc"] = "draining"
      BY <1>0, <3>1, <3>4 DEF BeginStop
    <3>6. QED
      BY <1>0, <3>1, <3>3, <3>5
  <2>2. CASE s = "grpc"
    <3>1. /\ srv' = [srv EXCEPT !["grpc"] = "down"]
          /\ UNCHANGED <<cancelled, req>>
      BY <1>0, <1>2, <2>2 DEF StopServer, RunDeferred, NextDeferred
    <3>2. Handling = {}
      BY <1>0, <1>2, <2>2 DEF StopServer, Drained
    <3>3. QED
      BY <1>0, <3>1, <3>2
  <2>3. QED
    BY <2>1, <2>2
<1>3. ASSUME NEW s \in Servers, Listens(s) PROVE Served'
  BY <1>0, <1>3 DEF Listens
<1>4. ASSUME NEW r \in Requests, Arrives(r) \/ Proceeds(r) PROVE Served'
  <2>1. UNCHANGED <<srv, cancelled>>
    BY <1>4 DEF Arrives, Proceeds, HttpAccept, H2cConnect, H2cAccept,
       RpcAccept, RpcCut, RpcUnavailable, HandlerReturns, ResponseWritten, To,
       serveVars
  <2>2. CASE HttpAccept(r)
    BY <1>0, <2>1, <2>2 DEF HttpAccept, To, Requests
  <2>3. CASE H2cConnect(r) \/ H2cAccept(r)
    BY <1>0, <2>1, <2>3, RequestAssumption
    DEF H2cConnect, H2cAccept, To, Requests
  <2>4. CASE RpcAccept(r)
    BY <1>0, <2>1, <2>4, RequestAssumption DEF RpcAccept, To, Requests
  <2>5. CASE RpcCut(r) \/ RpcUnavailable(r)
    BY <1>0, <2>1, <2>5 DEF RpcCut, RpcUnavailable, To, Requests
  <2>6. CASE HandlerReturns(r)
    BY <1>0, <2>1, <2>6 DEF HandlerReturns, To, Requests
  <2>7. CASE ResponseWritten(r)
    BY <1>0, <2>1, <2>7 DEF ResponseWritten, To, Requests
  <2>8. QED
    BY <1>4, <2>2, <2>3, <2>4, <2>5, <2>6, <2>7 DEF Arrives, Proceeds
<1>5. CASE CancelCtx
  BY <1>5 DEF CancelCtx, serveVars
<1>6. ASSUME UNCHANGED <<srv, cancelled, req>> PROVE Served'
  BY <1>6
<1>7. QED
  BY <1>1, <1>2, <1>3, <1>4, <1>5, <1>6
  DEF Next, Main, Register, RegisterFails, StartServers, ShutdownKyberTrace,
      Fatalf, Server, ListenFails, AcceptFails, ServeReturns, Notify, vars,
      serveVars

\* The gRPC server is stopped after the gateway, which by then has no active
\* connection left unless ctx was cancelled.
LEMMA StepGateway ==
  TypeOK /\ Order /\ Served /\ GatewayNeverCut /\ [Next]_vars
    => GatewayNeverCut'
<1> SUFFICES ASSUME TypeOK, Order, Served, GatewayNeverCut, [Next]_vars
             PROVE  GatewayNeverCut'
  OBVIOUS
<1> USE DEF GatewayNeverCut
<1>0. /\ srv \in [Servers -> {"new", "up", "draining", "down"}]
      /\ req \in [Requests ->
                    {"new", "connected", "accepted", "handling", "cut",
                     "failed", "replied", "answered"}]
      /\ main \in {"register", "notified", "select", "http", "grpc",
                   "returned", "exited"}
  BY DEF TypeOK
<1>1. ASSUME NEW r \in Requests, RpcCut(r) PROVE GatewayNeverCut'
  <2>1. srv["grpc"] \in {"draining", "down"} => srv["http"] = "down"
    BY <1>0 DEF Order, Servers
  <2>2. r \in Gateway => r \in ActiveConns
    BY <1>1 DEF RpcCut, ActiveConns
  <2>3. r \in Gateway => cancelled
    BY <1>1, <2>1, <2>2 DEF RpcCut, Served
  <2>4. QED
    BY <1>0, <1>1, <2>3 DEF RpcCut, To
<1>2. ASSUME NEW r \in Requests,
             \/ HttpAccept(r) \/ H2cConnect(r) \/ H2cAccept(r) \/ RpcAccept(r)
             \/ RpcUnavailable(r) \/ HandlerReturns(r) \/ ResponseWritten(r)
      PROVE  GatewayNeverCut'
  <2>1. /\ UNCHANGED cancelled
        /\ \E phase \in {"connected", "accepted", "handling", "failed",
                         "replied", "answered"} :
             req' = [req EXCEPT ![r] = phase]
    BY <1>2 DEF HttpAccept, H2cConnect, H2cAccept, RpcAccept, RpcUnavailable,
                HandlerReturns, ResponseWritten, To
  <2>2. QED
    BY <1>0, <2>1 DEF Requests
<1>3. CASE CancelCtx
  BY <1>3 DEF CancelCtx
<1>4. ASSUME UNCHANGED <<cancelled, req>> PROVE GatewayNeverCut'
  BY <1>4
<1>5. QED
  BY <1>1, <1>2, <1>3, <1>4
  DEF Next, Main, Register, RegisterFails, StartServers, ReceiveSignal,
      ReceiveError, StopServer, ShutdownKyberTrace, Fatalf, Server,
      ListenFails, Listens, AcceptFails, ServeReturns, Notify, Arrives,
      Proceeds, vars

-----------------------------------------------------------------------------
(* Theorems                                                                *)

\* The invariant that ties the place of main to the state of the servers and
\* of the requests (Serve in server.go and serve.go).
THEOREM InductiveInvariant == SafeSpec => []IInv
<1>1. Init => IInv
  <2> SUFFICES ASSUME Init PROVE IInv
    OBVIOUS
  <2>1. TypeOK
    BY InitType
  <2>2. Order
    BY DEF Init, Order, Servers
  <2>3. Served /\ GatewayNeverCut
    BY DEF Init, Served, GatewayNeverCut, Handling, ActiveConns, Requests
  <2>4. QED
    BY <2>1, <2>2, <2>3 DEF IInv
<1>2. IInv /\ [Next]_vars => IInv'
  BY StepType, StepOrder, StepServed, StepGateway DEF IInv
<1>3. QED
  BY <1>1, <1>2, PTL DEF SafeSpec

\* The order of the deferred calls lets every HTTP/1 request the gateway
\* accepted reach the gRPC server.
THEOREM GatewayDrained == SafeSpec => []GatewayNeverCut
<1>1. IInv => GatewayNeverCut
  BY DEF IInv
<1>2. QED
  BY <1>1, InductiveInvariant, PTL

\* Serve returns, or Fatalf ends the process, only when no RPC runs and, if
\* ctx was not cancelled, no HTTP/1 request waits for its response.
THEOREM StopLosesNothing == SafeSpec => []ExitLosesNothing
<1>1. IInv => ExitLosesNothing
  <2> SUFFICES ASSUME IInv, main = "exited"
               PROVE  Handling = {} /\ (cancelled \/ ActiveConns = {})
    BY DEF ExitLosesNothing
  <2>1. /\ srv["grpc"] \in {"down", "new"}
        /\ srv["http"] \in {"down", "new"}
    BY DEF IInv, Order, Servers
  <2>2. QED
    BY <2>1 DEF IInv, Served
<1>2. QED
  BY <1>1, InductiveInvariant, PTL

LEMMA InitRefines == Init => Graceful!Init
BY DEF Init, Graceful!Init, Servers, Handling, Requests

LEMMA StepRefines ==
  IInv /\ [Next]_vars => [Graceful!Next]_(Graceful!vars)
<1> SUFFICES ASSUME IInv, [Next]_vars
             PROVE  [Graceful!Next]_(Graceful!vars)
  OBVIOUS
<1> USE DEF Servers
<1>0. /\ srv \in [Servers -> {"new", "up", "draining", "down"}]
      /\ req \in [Requests ->
                    {"new", "connected", "accepted", "handling", "cut",
                     "failed", "replied", "answered"}]
      /\ flushed \in BOOLEAN
  BY DEF IInv, TypeOK
<1>1. ASSUME /\ UNCHANGED <<flushed, req>>
             /\ (srv'["grpc"] = "down") <=> (srv["grpc"] = "down")
             /\ (srv'["grpc"] = "draining") <=> (srv["grpc"] = "draining")
      PROVE  UNCHANGED Graceful!vars
  BY <1>1 DEF Graceful!vars, Handling
<1>2. CASE ReceiveSignal \/ \E s \in Servers : ReceiveError(s)
  <2>1. /\ UNCHANGED <<flushed, req>>
        /\ srv' = [srv EXCEPT !["http"] = BeginStop("http")]
    BY <1>2 DEF ReceiveSignal, ReceiveError, RunDeferred, NextDeferred
  <2>2. QED
    BY <1>0, <1>1, <2>1
\* GracefulStop begins when Shutdown ends, and may have nothing to do.
<1>3. CASE StopServer("http")
  <2>1. /\ UNCHANGED <<flushed, req>>
        /\ srv' = [srv EXCEPT !["http"] = "down",
                              !["grpc"] = BeginStop("grpc")]
        /\ srv["grpc"] \in {"new", "up"}
    BY <1>0, <1>3 DEF StopServer, RunDeferred, NextDeferred, IInv, Order
  <2>2. UNCHANGED Handling
    BY <2>1 DEF Handling
  <2>3. CASE srv["grpc"] = "up"
    BY <1>0, <2>1, <2>2, <2>3 DEF BeginStop, Graceful!Next, Graceful!Stop
  <2>4. CASE srv["grpc"] = "new"
    <3>1. Handling = {}
      BY <2>4 DEF IInv, Served
    <3>2. QED
      BY <1>0, <2>1, <2>2, <2>4, <3>1
      DEF BeginStop, Graceful!Next, Graceful!Stopped
  <2>5. QED
    BY <2>1, <2>3, <2>4
<1>4. CASE StopServer("grpc")
  <2>1. /\ UNCHANGED <<flushed, req>>
        /\ srv' = [srv EXCEPT !["grpc"] = "down"]
    BY <1>0, <1>4 DEF StopServer, RunDeferred, NextDeferred
  <2>2. CASE srv["grpc"] = "down"
    BY <1>0, <1>1, <2>1, <2>2
  <2>3. CASE srv["grpc"] # "down"
    <3>1. Handling = {}
      BY <1>4, <2>3 DEF StopServer, Drained
    <3>2. QED
      BY <1>0, <2>1, <2>3, <3>1 DEF Handling, Graceful!Next, Graceful!Stopped
  <2>4. QED
    BY <2>2, <2>3
<1>5. CASE ShutdownKyberTrace
  <2>1. /\ UNCHANGED <<srv, req>> /\ flushed' = TRUE
    BY <1>5 DEF ShutdownKyberTrace
  <2>2. srv["grpc"] = "down"
    BY <1>5 DEF ShutdownKyberTrace, IInv, Order
  <2>3. QED
    BY <2>1, <2>2 DEF Handling, Graceful!Next, Graceful!Flush
<1>6. ASSUME NEW s \in Servers, Listens(s)
      PROVE  UNCHANGED Graceful!vars
  BY <1>0, <1>1, <1>6 DEF Listens
<1>7. ASSUME NEW r \in Requests, RpcAccept(r)
      PROVE  Graceful!Next
  <2>1. /\ UNCHANGED <<srv, flushed>> /\ req' = [req EXCEPT ![r] = "handling"]
        /\ req[r] # "handling"
        /\ srv["grpc"] \in {"up", "draining"}
    BY <1>7 DEF RpcAccept, To, serveVars
  <2>2. Handling' = Handling \cup {r} /\ r \notin Handling
    BY <1>0, <2>1 DEF Handling
  <2>3. Graceful!Begin(r)
    BY <2>1, <2>2 DEF Graceful!Begin
  <2>4. QED
    BY <2>3 DEF Graceful!Next
<1>8. ASSUME NEW r \in Requests, HandlerReturns(r)
      PROVE  Graceful!Next
  <2>1. /\ UNCHANGED <<srv, flushed>>
        /\ \E phase \in {"answered", "replied"} :
             req' = [req EXCEPT ![r] = phase]
        /\ req[r] = "handling"
    BY <1>8 DEF HandlerReturns, To, serveVars
  <2>2. Handling' = Handling \ {r} /\ r \in Handling
    BY <1>0, <2>1 DEF Handling
  <2>3. Graceful!End(r)
    BY <2>1, <2>2 DEF Graceful!End
  <2>4. QED
    BY <2>3 DEF Graceful!Next
<1>9. ASSUME NEW r \in Requests,
             \/ HttpAccept(r) \/ H2cConnect(r) \/ H2cAccept(r) \/ RpcCut(r)
             \/ RpcUnavailable(r) \/ ResponseWritten(r)
      PROVE  UNCHANGED Graceful!vars
  <2>1. /\ UNCHANGED <<srv, flushed>>
        /\ \E phase \in {"connected", "accepted", "cut", "failed",
                         "answered"} : req' = [req EXCEPT ![r] = phase]
        /\ req[r] # "handling"
    BY <1>9 DEF HttpAccept, H2cConnect, H2cAccept, RpcCut, RpcUnavailable,
                ResponseWritten, To, serveVars
  <2>2. Handling' = Handling
    BY <1>0, <2>1 DEF Handling
  <2>3. QED
    BY <2>1, <2>2 DEF Graceful!vars
<1>10. ASSUME UNCHANGED <<srv, flushed, req>>
       PROVE  UNCHANGED Graceful!vars
  BY <1>10 DEF Graceful!vars, Handling
<1>11. QED
  BY <1>2, <1>3, <1>4, <1>5, <1>6, <1>7, <1>8, <1>9, <1>10
  DEF Next, Main, Register, RegisterFails, StartServers, Fatalf, Server,
      ListenFails, AcceptFails, ServeReturns, Notify, CancelCtx, Arrives,
      Proceeds, vars, serveVars

\* Seen from its RPCs the process is the graceful service: no RPC runs when
\* the gRPC server is down, and the telemetry is flushed after that.
THEOREM ImplementsGraceful == SafeSpec => GracefulSpec
<1>1. SafeSpec => Graceful!Init /\ [][Graceful!Next]_(Graceful!vars)
  BY InitRefines, StepRefines, InductiveInvariant, PTL DEF SafeSpec
<1>2. QED
  BY <1>1 DEF GracefulSpec, Graceful!Spec

-----------------------------------------------------------------------------
(* The inductive invariant                                                 *)

Elements == STRING \cup Headers

Slices == [array : Nat, len : Nat]
Asked  == [values : Seq(Elements), times : Nat, safe : Nat]
Fields == [lists : [Lists -> Slices], logger : STRING \cup {None},
           loggingInterceptor : STRING \cup {None},
           httpMarshalerOptions : Marshaler, basePath : BasePaths,
           grpc : ListenAddresses \cup {DefaultGRPC}]

ConfigTypeOK ==
  /\ file \in [basePath : BasePaths, grpc : Addresses]
  /\ state \in [Configs -> {"none", "made", "served"}]
  /\ config \in [Configs -> Fields]
  /\ opts \in [Configs -> Seq(Options)]
  /\ heap \in Seq(Seq(Elements \cup {None}))
  /\ DOMAIN server = Configs
  /\ asked \in [Configs -> [Lists -> Asked]]

\* Only a config that was made has options to apply, and only one that is
\* served is closed to them.
StateInv ==
  \A c \in Configs :
    /\ state[c] = "none" => \A f \in Lists : asked[c][f] = NotAsked
    /\ opts[c] # <<>> => state[c] = "made"

\* Slice s holds what a was asked for, and has no room before the second option.
SliceOK(s, a) ==
  /\ s.len = Len(a.values)
  /\ s.array \in 0 .. Len(heap)
  /\ s.array = 0 <=> s.len = 0
  /\ s.array # 0 => s.len <= Len(heap[s.array])
  /\ a.safe <= s.len
  /\ s.array = 0 <=> a.times = 0
  /\ a.times < 2 => a.safe = s.len
  /\ a.times = 1 => Len(heap[s.array]) = s.len

SliceInv ==
  \A c \in Configs, f \in Lists : SliceOK(config[c].lists[f], asked[c][f])

\* Configs that share an array were derived from one that had it.
ShareInv ==
  \A c, d \in Configs, f, g \in Lists :
    /\ config[c].lists[f].array = config[d].lists[g].array
    /\ config[c].lists[f].array # 0
    => /\ f = g
       /\ SameStart(c, d, f)
       /\ asked[c][f].times < 2 <=> asked[d][f].times < 2

\* An element is what was asked for, or was overwritten.
Kept(c, f, i, e) == e = asked[c][f].values[i] \/ Overwritten(c, f, i, e)

ContentInv ==
  \A c \in Configs, f \in Lists :
    \A i \in 1 .. config[c].lists[f].len :
      Kept(c, f, i, heap[config[c].lists[f].array][i])

ConfigInv == ConfigTypeOK /\ StateInv /\ SliceInv /\ ShareInv /\ ContentInv

-----------------------------------------------------------------------------
(* What options are, and what they add to a list                           *)

LEMMA ListOption ==
  ASSUME NEW option \in Options, option.field \in Lists
  PROVE  option.values \in Seq(Elements)
<1>1. Seq(STRING) \subseteq Seq(Elements) /\ Seq(Headers) \subseteq Seq(Elements)
  BY SeqMonotonic DEF Elements
<1>2. QED
  BY <1>1 DEF Options, Lists

LEMMA AskType ==
  ASSUME NEW a \in Asked, NEW values \in Seq(Elements)
  PROVE  /\ Ask(a, values) \in Asked
         /\ Ask(a, values).times = a.times + 1
         /\ Ask(a, values).safe =
              IF a.times < 2 THEN Len(a.values) + Len(values) ELSE a.safe
         /\ Len(Ask(a, values).values) = Len(a.values) + Len(values)
         /\ \A i \in 1 .. Len(a.values) + Len(values) :
              Ask(a, values).values[i] =
                IF i <= Len(a.values) THEN a.values[i]
                                      ELSE values[i - Len(a.values)]
<1> DEFINE all == a.values \o values
<1>1. a.values \in Seq(Elements) /\ a.times \in Nat /\ a.safe \in Nat
  BY DEF Asked
<1>2. /\ all \in Seq(Elements)
      /\ Len(all) = Len(a.values) + Len(values)
      /\ \A i \in 1 .. Len(a.values) + Len(values) :
           all[i] = IF i <= Len(a.values) THEN a.values[i]
                                          ELSE values[i - Len(a.values)]
  BY <1>1, ConcatProperties
<1>3. Len(all) \in Nat
  BY <1>2, LenProperties
<1> HIDE DEF all
<1>4. Ask(a, values) = [values |-> all, times |-> a.times + 1,
                        safe |-> IF a.times < 2 THEN Len(all) ELSE a.safe]
  BY DEF Ask, all
<1>5. /\ Ask(a, values).values = all
      /\ Ask(a, values).times = a.times + 1
      /\ Ask(a, values).safe = IF a.times < 2 THEN Len(all) ELSE a.safe
  BY <1>4
<1>6. Ask(a, values) \in Asked
  BY <1>1, <1>2, <1>3, <1>4 DEF Asked
<1>7. QED
  BY <1>2, <1>5, <1>6

-----------------------------------------------------------------------------
(* Types                                                                   *)

LEMMA ReadType ==
  ASSUME ConfigTypeOK
  PROVE  Read \in Fields
BY ConfigAssumption DEF ConfigTypeOK, Read, Fields, Nil, Slices, Marshaler

LEMMA ConfigInitType == ConfigInit => ConfigTypeOK
<1> SUFFICES ASSUME ConfigInit PROVE ConfigTypeOK
  OBVIOUS
<1>1. file \in [basePath : BasePaths, grpc : Addresses]
  BY DEF ConfigInit
<1>2. Read \in Fields
  BY <1>1, ConfigAssumption DEF Read, Fields, Nil, Slices, Marshaler
<1>3. NotAsked \in Asked
  BY EmptySeq DEF NotAsked, Asked
<1>4. heap \in Seq(Seq(Elements \cup {None}))
  BY EmptySeq DEF ConfigInit
<1>5. \A c \in Configs : opts[c] = <<>> /\ <<>> \in Seq(Options)
  BY EmptySeq DEF ConfigInit
<1>6. QED
  BY <1>1, <1>2, <1>3, <1>4, <1>5 DEF ConfigInit, ConfigTypeOK

Cells == Elements \cup {None}

\* A list gets a new slice.
SetSlice(c, f, array, len) ==
  config' = [config EXCEPT ![c].lists[f] = [array |-> array, len |-> len]]

LEMMA OptionType ==
  ASSUME ConfigTypeOK, NEW c \in Configs, opts[c] # <<>>
  PROVE  Head(opts[c]) \in Options /\ Tail(opts[c]) \in Seq(Options)
BY HeadTailProperties DEF ConfigTypeOK

\* What append does to the heap and to the slice of its list.
LEMMA InPlace ==
  ASSUME ConfigTypeOK, SliceInv, NEW c \in Configs, NEW f \in Lists,
         NEW values \in Seq(Elements), values # <<>>,
         AppendInPlace(c, f, values)
  PROVE  LET s == config[c].lists[f]
             n == s.len + Len(values)
         IN  /\ s.array \in 1 .. Len(heap)
             /\ n > s.len /\ n <= Len(heap[s.array])
             /\ asked[c][f].times >= 2
             /\ Len(heap') = Len(heap)
             /\ \A k \in 1 .. Len(heap) : Len(heap'[k]) = Len(heap[k])
             /\ \A k \in 1 .. Len(heap) : k # s.array => heap'[k] = heap[k]
             /\ \A i \in 1 .. Len(heap[s.array]) :
                  heap'[s.array][i] =
                    IF i \in s.len + 1 .. n THEN values[i - s.len]
                                            ELSE heap[s.array][i]
             /\ heap' \in Seq(Seq(Cells))
             /\ SetSlice(c, f, s.array, n)
<1> DEFINE s == config[c].lists[f]
           n == s.len + Len(values)
           cells == [i \in 1 .. Len(heap[s.array]) |->
              IF i \in s.len + 1 .. n THEN values[i - s.len]
                                      ELSE heap[s.array][i]]
<1>1. s \in Slices /\ Len(values) \in Nat \ {0}
  BY EmptySeq DEF ConfigTypeOK, Fields
<1>2. SliceOK(s, asked[c][f]) /\ asked[c][f] \in Asked
  BY DEF SliceInv, ConfigTypeOK
<1>3. /\ n <= Cap(s)
      /\ heap' = [heap EXCEPT ![s.array] = cells]
      /\ SetSlice(c, f, s.array, n)
  BY DEF AppendInPlace, SetSlice
<1> HIDE DEF s
<1>4. /\ s.array \in 1 .. Len(heap)
      /\ n > s.len /\ n <= Len(heap[s.array])
      /\ asked[c][f].times >= 2
  BY <1>1, <1>2, <1>3 DEF SliceOK, Cap, Slices, Asked
<1>5. heap \in Seq(Seq(Cells)) /\ heap[s.array] \in Seq(Cells)
  BY <1>4, ElementOfSeq DEF ConfigTypeOK, Cells
<1>6. \A i \in 1 .. Len(heap[s.array]) : cells[i] \in Cells
  <2> SUFFICES ASSUME NEW i \in 1 .. Len(heap[s.array]) PROVE cells[i] \in Cells
    OBVIOUS
  <2>1. CASE i \in s.len + 1 .. n
    <3>1. i - s.len \in 1 .. Len(values)
      BY <1>1, <2>1 DEF Slices
    <3>2. QED
      BY <2>1, <3>1, ElementOfSeq DEF Cells
  <2>2. CASE i \notin s.len + 1 .. n
    BY <1>5, <2>2, ElementOfSeq
  <2>3. QED
    BY <2>1, <2>2
<1>7. cells \in Seq(Cells) /\ Len(cells) = Len(heap[s.array])
  <2>1. Len(heap[s.array]) \in Nat
    BY <1>5, LenProperties
  <2>2. cells \in [1 .. Len(heap[s.array]) -> Cells]
    BY <1>6
  <2> HIDE DEF cells
  <2>3. QED
    BY <2>1, <2>2, SeqDef
<1>8. \A i \in 1 .. Len(heap[s.array]) :
        cells[i] = IF i \in s.len + 1 .. n THEN values[i - s.len]
                                           ELSE heap[s.array][i]
  OBVIOUS
<1> HIDE DEF cells
<1>9. /\ heap' \in Seq(Seq(Cells)) /\ Len(heap') = Len(heap)
      /\ \A k \in 1 .. Len(heap) : heap'[k] = IF k = s.array THEN cells ELSE heap[k]
  BY <1>3, <1>4, <1>5, <1>7, ExceptSeq
<1>10. QED
  BY <1>3, <1>4, <1>7, <1>8, <1>9 DEF s

LEMMA Grown ==
  ASSUME ConfigTypeOK, SliceInv, NEW c \in Configs, NEW f \in Lists,
         NEW values \in Seq(Elements), values # <<>>,
         AppendGrown(c, f, values)
  PROVE  LET s == config[c].lists[f]
             n == s.len + Len(values)
             k == Len(heap) + 1
         IN  /\ n > s.len
             /\ Len(heap') = k
             /\ \A j \in 1 .. Len(heap) : heap'[j] = heap[j]
             /\ n <= Len(heap'[k])
             /\ s.array = 0 => Len(heap'[k]) = n
             /\ \A i \in 1 .. n :
                  heap'[k][i] = IF i <= s.len THEN heap[s.array][i]
                                              ELSE values[i - s.len]
             /\ heap' \in Seq(Seq(Cells))
             /\ SetSlice(c, f, k, n)
<1> DEFINE s == config[c].lists[f]
           n == s.len + Len(values)
           cap == NewCap(Cap(s), n)
           cells == [i \in 1 .. cap |->
              IF i <= s.len THEN heap[s.array][i]
              ELSE IF i <= n THEN values[i - s.len] ELSE None]
<1>1. s \in Slices /\ Len(values) \in Nat \ {0}
  BY EmptySeq DEF ConfigTypeOK, Fields
<1>2. SliceOK(s, asked[c][f]) /\ asked[c][f] \in Asked
  BY DEF SliceInv, ConfigTypeOK
<1>3. /\ n > Cap(s)
      /\ heap' = Append(heap, cells)
      /\ SetSlice(c, f, Len(heap) + 1, n)
  BY DEF AppendGrown, SetSlice
<1> HIDE DEF s
<1>4. heap \in Seq(Seq(Cells)) /\ Len(heap) \in Nat
  BY LenProperties DEF ConfigTypeOK, Cells
<1>5. Cap(s) \in Nat /\ (s.array = 0 => Cap(s) = 0)
  <2>1. CASE s.array = 0
    BY <2>1 DEF Cap
  <2>2. CASE s.array # 0
    BY <1>2, <1>4, <2>2, ElementOfSeq, LenProperties DEF Cap, SliceOK
  <2>3. QED
    BY <2>1, <2>2
<1>6. cap \in Nat /\ cap >= n /\ (s.array = 0 => cap = n)
  BY <1>1, <1>3, <1>5 DEF NewCap, Slices
<1>7. \A i \in 1 .. cap : cells[i] \in Cells
  <2> SUFFICES ASSUME NEW i \in 1 .. cap PROVE cells[i] \in Cells
    OBVIOUS
  <2> HIDE DEF cap
  <2>1. CASE i <= s.len
    <3>1. s.array \in 1 .. Len(heap) /\ i \in 1 .. Len(heap[s.array])
      BY <1>1, <1>2, <1>4, <2>1, ElementOfSeq, LenProperties DEF SliceOK, Slices
    <3>2. heap[s.array][i] \in Cells
      BY <1>4, <3>1, ElementOfSeq
    <3>3. QED
      BY <2>1, <3>2
  <2>2. CASE i > s.len /\ i <= n
    <3>1. i - s.len \in 1 .. Len(values)
      BY <1>1, <2>2 DEF Slices
    <3>2. values[i - s.len] \in Cells
      BY <3>1, ElementOfSeq DEF Cells
    <3>3. QED
      BY <1>1, <2>2, <3>2 DEF Slices
  <2>3. CASE i > n
    BY <1>1, <2>3 DEF Slices, Cells
  <2>4. QED
    BY <1>1, <2>1, <2>2, <2>3 DEF Slices
<1>8. \A i \in 1 .. n : cells[i] = IF i <= s.len THEN heap[s.array][i]
                                                ELSE values[i - s.len]
  BY <1>1, <1>6 DEF Slices
<1>9. cells \in [1 .. cap -> Cells]
  BY <1>7
<1> HIDE DEF cap, cells
<1>10. cells \in Seq(Cells) /\ Len(cells) = cap
  BY <1>6, <1>9, SeqDef
<1>11. /\ heap' \in Seq(Seq(Cells)) /\ Len(heap') = Len(heap) + 1
       /\ heap'[Len(heap) + 1] = cells
       /\ \A j \in 1 .. Len(heap) : heap'[j] = heap[j]
  BY <1>3, <1>4, <1>10, AppendProperties
<1>12. n > s.len
  BY <1>1 DEF Slices
<1>13. QED
  BY <1>3, <1>6, <1>8, <1>10, <1>11, <1>12 DEF s

\* An option that is not about a list leaves the lists, the base path and the
\* address alone.
LEMMA SetFieldEffect ==
  ASSUME ConfigTypeOK, NEW c \in Configs, NEW option \in Options,
         option.field \notin Lists, SetField(c, option)
  PROVE  /\ config' \in [Configs -> Fields]
         /\ \A d \in Configs : /\ config'[d].lists = config[d].lists
                               /\ config'[d].basePath = config[d].basePath
                               /\ config'[d].grpc = config[d].grpc
         /\ \A d \in Configs \ {c} : config'[d] = config[d]
<1>1. /\ config \in [Configs -> Fields]
      /\ config' = [config EXCEPT ![c][option.field] = option.values]
  BY DEF ConfigTypeOK, SetField
<1>2. \/ /\ option.field \in {"logger", "loggingInterceptor"}
         /\ option.values \in STRING
      \/ /\ option.field = "httpMarshalerOptions"
         /\ option.values \in Marshaler
  BY DEF Options, Lists
<1>3. CASE option.field = "logger"
  BY <1>1, <1>2, <1>3 DEF Fields
<1>4. CASE option.field = "loggingInterceptor"
  BY <1>1, <1>2, <1>4 DEF Fields
<1>5. CASE option.field = "httpMarshalerOptions"
  BY <1>1, <1>2, <1>5 DEF Fields
<1>6. QED
  BY <1>2, <1>3, <1>4, <1>5

\* A new slice in one list of one config changes nothing else in any config.
LEMMA SliceUpdate ==
  ASSUME ConfigTypeOK, NEW c \in Configs, NEW f \in Lists,
         NEW array \in Nat, NEW len \in Nat,
         SetSlice(c, f, array, len)
  PROVE  /\ config' \in [Configs -> Fields]
         /\ config'[c].lists[f] = [array |-> array, len |-> len]
         /\ \A d \in Configs, g \in Lists :
              d # c \/ g # f => config'[d].lists[g] = config[d].lists[g]
         /\ \A d \in Configs : /\ config'[d].basePath = config[d].basePath
                               /\ config'[d].grpc = config[d].grpc
<1> DEFINE s     == [array |-> array, len |-> len]
           lists == [config[c].lists EXCEPT ![f] = s]
           new   == [config[c] EXCEPT !.lists = lists]
<1>1. config \in [Configs -> Fields] /\ config[c] \in Fields
  BY DEF ConfigTypeOK
<1>2. s \in Slices
  BY DEF Slices
<1>3. config' = [config EXCEPT ![c] = new]
  BY DEF SetSlice
<1> HIDE DEF s
<1>4. /\ lists \in [Lists -> Slices] /\ lists[f] = s
      /\ \A g \in Lists : g # f => lists[g] = config[c].lists[g]
  BY <1>1, <1>2 DEF Fields
<1> HIDE DEF lists
<1>5. /\ new \in Fields /\ new.lists = lists
      /\ new.basePath = config[c].basePath /\ new.grpc = config[c].grpc
  BY <1>1, <1>4 DEF Fields
<1> HIDE DEF new
<1>6. /\ config' \in [Configs -> Fields] /\ config'[c] = new
      /\ \A d \in Configs : d # c => config'[d] = config[d]
  BY <1>1, <1>3, <1>5
<1>7. QED
  BY <1>4, <1>5, <1>6 DEF s

LEMMA AddToListType ==
  ASSUME ConfigTypeOK, SliceInv, NEW c \in Configs, NEW f \in Lists,
         NEW values \in Seq(Elements), AddToList(c, f, values)
  PROVE  /\ config' \in [Configs -> Fields]
         /\ heap' \in Seq(Seq(Elements \cup {None}))
         /\ asked' \in [Configs -> [Lists -> Asked]]
         /\ \A d \in Configs : /\ config'[d].basePath = config[d].basePath
                               /\ config'[d].grpc = config[d].grpc
<1>1. CASE values = <<>>
  BY <1>1 DEF AddToList, ConfigTypeOK
<1>2. CASE values # <<>>
  <2>1. asked' = [asked EXCEPT ![c][f] = Ask(asked[c][f], values)]
    BY <1>2 DEF AddToList
  <2>2. Ask(asked[c][f], values) \in Asked
    BY AskType DEF ConfigTypeOK
  <2>3. \E array, len \in Nat : SetSlice(c, f, array, len)
    <3> DEFINE s == config[c].lists[f]
               n == s.len + Len(values)
    <3>1. s.array \in Nat /\ n \in Nat /\ Len(heap) + 1 \in Nat
      BY LenProperties DEF ConfigTypeOK, Fields, Slices
    <3>2. CASE AppendInPlace(c, f, values)
      <4>1. SetSlice(c, f, s.array, n)
        BY <1>2, <3>2, InPlace
      <4>2. QED
        BY <3>1, <4>1
    <3>3. CASE AppendGrown(c, f, values)
      <4>1. SetSlice(c, f, Len(heap) + 1, n)
        BY <1>2, <3>3, Grown
      <4>2. QED
        BY <3>1, <4>1
    <3>4. QED
      BY <1>2, <3>2, <3>3 DEF AddToList
  <2>4. PICK array \in Nat, len \in Nat : SetSlice(c, f, array, len)
    BY <2>3
  <2>5. /\ config' \in [Configs -> Fields]
        /\ \A d \in Configs : /\ config'[d].basePath = config[d].basePath
                              /\ config'[d].grpc = config[d].grpc
    BY <2>4, SliceUpdate
  <2>6. heap' \in Seq(Seq(Elements \cup {None}))
    BY <1>2, InPlace, Grown DEF AddToList, Cells
  <2>7. QED
    BY <2>1, <2>2, <2>5, <2>6 DEF ConfigTypeOK
<1>3. QED
  BY <1>1, <1>2

\* NewServer only writes the address of a config, and leaves the others alone.
LEMMA ServeEffect ==
  ASSUME ConfigTypeOK, NEW c \in Configs, Serve(c)
  PROVE  /\ config' \in [Configs -> Fields]
         /\ \A d \in Configs : /\ config'[d].lists = config[d].lists
                               /\ config'[d].basePath = config[d].basePath
         /\ config'[c].grpc = Listen(config[c].grpc)
         /\ \A d \in Configs \ {c} : config'[d] = config[d]
<1> DEFINE grpc == Listen(config[c].grpc)
           new  == [config[c] EXCEPT !.grpc = grpc]
<1>1. config \in [Configs -> Fields] /\ config[c] \in Fields
  BY DEF ConfigTypeOK
<1>2. grpc \in ListenAddresses \cup {DefaultGRPC}
  BY <1>1 DEF Listen, Fields
<1>3. config' = [config EXCEPT ![c] = new]
  BY <1>1 DEF Serve, Fields
<1> HIDE DEF grpc
<1>4. /\ new \in Fields /\ new.lists = config[c].lists
      /\ new.basePath = config[c].basePath /\ new.grpc = grpc
  BY <1>1, <1>2 DEF Fields
<1> HIDE DEF new
<1>5. QED
  BY <1>1, <1>3, <1>4 DEF grpc

LEMMA BaseType ==
  ASSUME ConfigTypeOK
  PROVE  /\ [f \in Lists |-> NotAsked] \in [Lists -> Asked]
         /\ \A options \in OptionLists : options \in Seq(Options)
BY EmptySeq, ConfigAssumption DEF NotAsked, Asked

LEMMA ConfigStepType ==
  ConfigTypeOK /\ SliceInv /\ [ConfigNext]_configVars => ConfigTypeOK'
<1> SUFFICES ASSUME ConfigTypeOK, SliceInv, [ConfigNext]_configVars
             PROVE  ConfigTypeOK'
  OBVIOUS
<1>1. ASSUME NEW c \in Configs, NEW base \in Fields,
             NEW lists \in [Lists -> Asked], BeginApply(c, base, lists)
      PROVE  ConfigTypeOK'
  <2>1. opts' \in [Configs -> Seq(Options)]
    BY <1>1, BaseType DEF BeginApply, ConfigTypeOK
  <2>2. QED
    BY <1>1, <2>1 DEF BeginApply, ConfigTypeOK
<1>2. ASSUME NEW c \in Configs, Load(c) PROVE ConfigTypeOK'
  BY <1>1, <1>2, ReadType, BaseType DEF Load
<1>3. ASSUME NEW c \in Configs, NEW from \in Configs, Apply(c, from)
      PROVE  ConfigTypeOK'
  <2>1. config[from] \in Fields /\ asked[from] \in [Lists -> Asked]
    BY DEF ConfigTypeOK
  <2>2. QED
    BY <1>1, <1>3, <2>1 DEF Apply
<1>4. ASSUME NEW c \in Configs, ApplyOption(c) PROVE ConfigTypeOK'
  <2> DEFINE option == Head(opts[c])
  <2>1. option \in Options /\ Tail(opts[c]) \in Seq(Options)
    BY <1>4, OptionType DEF ApplyOption
  <2>2. /\ opts' = [opts EXCEPT ![c] = Tail(@)]
        /\ UNCHANGED <<file, state, server>>
        /\ IF option.field \in Lists
             THEN AddToList(c, option.field, option.values)
             ELSE SetField(c, option)
    BY <1>4 DEF ApplyOption
  <2> HIDE DEF option
  <2>3. opts' \in [Configs -> Seq(Options)]
    BY <2>1, <2>2 DEF ConfigTypeOK
  <2>4. /\ config' \in [Configs -> Fields]
        /\ heap' \in Seq(Seq(Elements \cup {None}))
        /\ asked' \in [Configs -> [Lists -> Asked]]
    <3>1. CASE option.field \in Lists
      BY <2>1, <2>2, <3>1, ListOption, AddToListType
    <3>2. CASE option.field \notin Lists
      <4>1. SetField(c, option) /\ UNCHANGED <<heap, asked>>
        BY <2>2, <3>2 DEF SetField
      <4>2. QED
        BY <2>1, <3>2, <4>1, SetFieldEffect DEF ConfigTypeOK
    <3>3. QED
      BY <3>1, <3>2
  <2>5. QED
    BY <2>2, <2>3, <2>4 DEF ConfigTypeOK
<1>5. ASSUME NEW c \in Configs, Serve(c) PROVE ConfigTypeOK'
  <2>3. config' \in [Configs -> Fields]
    BY <1>5, ServeEffect
  <2>4. /\ state' = [state EXCEPT ![c] = "served"]
        /\ DOMAIN server' = DOMAIN server
        /\ UNCHANGED <<file, opts, heap, asked>>
    BY <1>5 DEF Serve
  <2>5. QED
    BY <2>3, <2>4 DEF ConfigTypeOK
<1>6. CASE UNCHANGED configVars
  BY <1>6 DEF configVars, ConfigTypeOK
<1>7. QED
  BY <1>2, <1>3, <1>4, <1>5, <1>6 DEF ConfigNext

-----------------------------------------------------------------------------
(* What was asked for only grows                                           *)

LEMMA ConfigStepState ==
  ConfigTypeOK /\ StateInv /\ [ConfigNext]_configVars => StateInv'
<1> SUFFICES ASSUME ConfigTypeOK, StateInv, [ConfigNext]_configVars
             PROVE  StateInv'
  OBVIOUS
<1> USE DEF StateInv
<1>0. /\ state \in [Configs -> {"none", "made", "served"}]
      /\ opts \in [Configs -> Seq(Options)]
      /\ asked \in [Configs -> [Lists -> Asked]]
  BY DEF ConfigTypeOK
<1>1. ASSUME NEW c \in Configs, NEW base, NEW lists, BeginApply(c, base, lists)
      PROVE  StateInv'
  BY <1>0, <1>1 DEF BeginApply
<1>2. ASSUME NEW c \in Configs, ApplyOption(c) PROVE StateInv'
  <2>1. /\ opts[c] # <<>> /\ UNCHANGED state
        /\ \A d \in Configs : d # c => opts'[d] = opts[d]
    BY <1>0, <1>2 DEF ApplyOption
  <2>2. \A d \in Configs : d # c => asked'[d] = asked[d]
    BY <1>0, <1>2 DEF ApplyOption, AddToList, SetField
  <2>3. QED
    BY <2>1, <2>2
<1>3. ASSUME NEW c \in Configs, Serve(c) PROVE StateInv'
  BY <1>0, <1>3 DEF Serve, Idle
<1>4. CASE UNCHANGED configVars
  BY <1>4 DEF configVars
<1>5. QED
  BY <1>1, <1>2, <1>3, <1>4 DEF ConfigNext, Load, Apply

\* A list keeps its elements, and from the second option on the number of
\* those that are safe.
Grows(c, f) ==
  LET a == asked[c][f]
      b == asked'[c][f]
  IN  /\ Len(a.values) <= Len(b.values)
      /\ \A i \in 1 .. Len(a.values) : b.values[i] = a.values[i]
      /\ a.times >= 2 => b.safe = a.safe

LEMMA AskedGrows ==
  ASSUME ConfigTypeOK, SliceInv, StateInv, [ConfigNext]_configVars,
         NEW d \in Configs, NEW g \in Lists
  PROVE  Grows(d, g)
<1>0. ConfigTypeOK'
  BY ConfigStepType
<1>1. /\ asked[d][g] \in Asked /\ Len(asked[d][g].values) \in Nat
      /\ asked \in [Configs -> [Lists -> Asked]]
  BY LenProperties DEF ConfigTypeOK, Asked
<1>2. ASSUME asked'[d][g] = asked[d][g] PROVE Grows(d, g)
  BY <1>1, <1>2 DEF Grows
<1>3. ASSUME NEW c \in Configs, NEW base, NEW lists, BeginApply(c, base, lists)
      PROVE  Grows(d, g)
  <2>1. CASE c = d
    <3>1. asked[d][g] = NotAsked /\ asked'[d] = lists
      BY <1>1, <1>3, <2>1 DEF BeginApply, StateInv
    <3>2. asked[d][g].values = <<>> /\ asked[d][g].times = 0
      BY <3>1 DEF NotAsked
    <3>3. Len(asked[d][g].values) = 0
      BY <3>2, EmptySeq
    <3>4. Len(asked'[d][g].values) >= 0
      BY <1>0, LenProperties DEF ConfigTypeOK, Asked
    <3>5. QED
      BY <3>2, <3>3, <3>4 DEF Grows
  <2>2. CASE c # d
    BY <1>1, <1>2, <1>3, <2>2 DEF BeginApply
  <2>3. QED
    BY <2>1, <2>2
<1>4. ASSUME NEW c \in Configs, ApplyOption(c) PROVE Grows(d, g)
  <2> DEFINE option == Head(opts[c])
  <2>1. option \in Options
    BY <1>4, OptionType DEF ApplyOption
  <2>2. \/ UNCHANGED asked
        \/ /\ option.field \in Lists
           /\ asked' = [asked EXCEPT ![c][option.field] =
                          Ask(asked[c][option.field], option.values)]
    BY <1>4 DEF ApplyOption, AddToList, SetField
  <2> HIDE DEF option
  <2>3. CASE ~ UNCHANGED asked /\ c = d /\ option.field = g
    <3>1. asked'[d][g] = Ask(asked[d][g], option.values)
      BY <1>1, <2>2, <2>3
    <3>2. option.values \in Seq(Elements) /\ Len(option.values) \in Nat
      BY <2>1, <2>3, ListOption, LenProperties
    <3>3. QED
      BY <1>1, <3>1, <3>2, AskType DEF Grows, Asked
  <2>4. CASE ~(~ UNCHANGED asked /\ c = d /\ option.field = g)
    <3>1. asked'[d][g] = asked[d][g]
      BY <1>1, <2>2, <2>4
    <3>2. QED
      BY <1>2, <3>1
  <2>5. QED
    BY <2>3, <2>4
<1>5. ASSUME NEW c \in Configs, Serve(c) PROVE Grows(d, g)
  BY <1>2, <1>5 DEF Serve
<1>6. CASE UNCHANGED configVars
  BY <1>2, <1>6 DEF configVars
<1>7. QED
  BY <1>3, <1>4, <1>5, <1>6 DEF ConfigNext, Load, Apply

LEMMA SameStartStable ==
  ASSUME ConfigTypeOK, SliceInv,
         \A d \in Configs, g \in Lists : Grows(d, g),
         NEW c \in Configs, NEW d \in Configs, NEW f \in Lists,
         SameStart(c, d, f), asked[c][f].times >= 2, asked[d][f].times >= 2
  PROVE  SameStart(c, d, f)'
<1>1. \A x \in Configs :
        LET a == asked[x][f]
        IN  /\ a.safe \in Nat /\ Len(a.values) \in Nat
            /\ a.safe <= Len(a.values)
            /\ a.times >= 2 => asked'[x][f].safe = a.safe
            /\ \A j \in 1 .. Len(a.values) : asked'[x][f].values[j] = a.values[j]
  BY LenProperties DEF ConfigTypeOK, Asked, SliceInv, SliceOK, Grows
<1>2. asked[c][f].safe = asked[d][f].safe
  BY DEF SameStart
<1>3. /\ asked'[c][f].safe = asked[c][f].safe
      /\ asked'[d][f].safe = asked[c][f].safe
  BY <1>1, <1>2
<1>4. ASSUME NEW j \in 1 .. asked[c][f].safe
      PROVE  asked'[c][f].values[j] = asked'[d][f].values[j]
  <2>1. /\ j \in 1 .. Len(asked[c][f].values)
        /\ j \in 1 .. Len(asked[d][f].values)
    BY <1>1, <1>2
  <2>2. asked[c][f].values[j] = asked[d][f].values[j]
    BY DEF SameStart
  <2>3. QED
    BY <1>1, <2>1, <2>2
<1>5. QED
  BY <1>3, <1>4 DEF SameStart

\* So does the set of elements that a list may show.
LEMMA KeptStable ==
  ASSUME ConfigTypeOK, SliceInv, asked' \in [Configs -> [Lists -> Asked]],
         \A d \in Configs, g \in Lists : Grows(d, g),
         NEW c \in Configs, NEW f \in Lists,
         NEW i \in 1 .. Len(asked[c][f].values), NEW e, Kept(c, f, i, e)
  PROVE  Kept(c, f, i, e)'
<1>1. \A d \in Configs :
        LET a == asked[d][f]
        IN  /\ a.safe \in Nat /\ a.times \in Nat /\ Len(a.values) \in Nat
            /\ a.safe <= Len(a.values)
            /\ a.times < 2 => a.safe = Len(a.values)
            /\ a.times >= 2 => asked'[d][f].safe = a.safe
            /\ Len(a.values) <= Len(asked'[d][f].values)
            /\ \A j \in 1 .. Len(a.values) : asked'[d][f].values[j] = a.values[j]
  BY LenProperties DEF ConfigTypeOK, Asked, SliceInv, SliceOK, Grows
<1>2. CASE e = asked[c][f].values[i]
  BY <1>1, <1>2 DEF Kept
<1>3. CASE Overwritten(c, f, i, e)
  <2>1. PICK d \in Configs \ {c} :
          /\ i > asked[c][f].safe /\ SameStart(c, d, f)
          /\ i \in 1 .. Len(asked[d][f].values) /\ asked[d][f].values[i] = e
    BY <1>3 DEF Overwritten
  <2>2. asked[c][f].safe = asked[d][f].safe
    BY <2>1 DEF SameStart
  <2>3. asked[c][f].times >= 2 /\ asked[d][f].times >= 2
    BY <1>1, <2>1, <2>2
  <2>4. SameStart(c, d, f)'
    BY <2>1, <2>3, SameStartStable
  <2>5. /\ i > asked'[c][f].safe
        /\ i \in 1 .. Len(asked'[d][f].values) /\ asked'[d][f].values[i] = e
    <3>1. asked'[c][f].safe = asked[c][f].safe
      BY <1>1, <2>3
    <3>2. asked'[d][f].values[i] = asked[d][f].values[i]
      BY <1>1, <2>1
    <3>3. /\ Len(asked[d][f].values) \in Nat
          /\ Len(asked[d][f].values) <= Len(asked'[d][f].values)
      BY <1>1, <2>1
    <3>4. Len(asked'[d][f].values) \in Nat
      BY LenProperties DEF Asked
    <3>5. i \in 1 .. Len(asked'[d][f].values)
      BY <2>1, <3>3, <3>4
    <3>6. QED
      BY <2>1, <3>1, <3>2, <3>5
  <2>6. QED
    BY <2>4, <2>5 DEF Kept, Overwritten
<1>4. QED
  BY <1>2, <1>3 DEF Kept

-----------------------------------------------------------------------------
(* A list that is appended to                                              *)

\* What the next lemmas assume of an option that adds to list f of c.
Adds(c, f, values) ==
  /\ ConfigTypeOK /\ StateInv /\ SliceInv /\ ShareInv /\ ContentInv
  /\ ConfigTypeOK' /\ \A d \in Configs, g \in Lists : Grows(d, g)
  /\ c \in Configs /\ f \in Lists
  /\ values \in Seq(Elements) /\ values # <<>>
  /\ AppendInPlace(c, f, values) \/ AppendGrown(c, f, values)
  /\ asked' = [asked EXCEPT ![c][f] = Ask(asked[c][f], values)]

\* Either way of append leaves the other slices as they are, and their arrays
\* but for the places past the slice that was appended to.
LEMMA Appended ==
  ASSUME NEW c \in Configs, NEW f \in Lists, NEW values, Adds(c, f, values)
  PROVE  LET s == config[c].lists[f]
             t == config'[c].lists[f]
             n == s.len + Len(values)
         IN  /\ s.len \in Nat /\ s.array \in Nat /\ n \in Nat /\ n > s.len
             /\ Len(values) \in Nat
             /\ t.len = n /\ t.array \in 1 .. Len(heap')
             /\ n <= Len(heap'[t.array])
             /\ s.array = 0 => Len(heap'[t.array]) = n
             /\ Len(heap) \in Nat /\ Len(heap) <= Len(heap')
             /\ \A j \in 1 .. Len(heap) : Len(heap'[j]) = Len(heap[j])
             /\ \/ t.array = s.array /\ asked[c][f].times >= 2
                \/ t.array = Len(heap) + 1
             /\ \A d \in Configs, g \in Lists :
                  d # c \/ g # f => config'[d].lists[g] = config[d].lists[g]
             /\ \A i \in 1 .. n :
                  heap'[t.array][i] = IF i <= s.len THEN heap[s.array][i]
                                                    ELSE values[i - s.len]
             /\ \A j \in 1 .. Len(heap), i \in Nat :
                  i \in 1 .. Len(heap[j]) /\ (j # t.array \/ i <= s.len \/ i > n)
                    => heap'[j][i] = heap[j][i]
<1> DEFINE s == config[c].lists[f]
           t == config'[c].lists[f]
           n == s.len + Len(values)
<1>0. /\ ConfigTypeOK /\ SliceInv /\ c \in Configs /\ f \in Lists
      /\ values \in Seq(Elements) /\ values # <<>>
      /\ AppendInPlace(c, f, values) \/ AppendGrown(c, f, values)
  BY DEF Adds
<1>1. /\ s \in Slices /\ Len(values) \in Nat /\ Len(heap) \in Nat
      /\ \A j \in 1 .. Len(heap) : Len(heap[j]) \in Nat
  BY <1>0, LenProperties, ElementOfSeq DEF ConfigTypeOK, Fields
<1>2. /\ s.len \in Nat /\ s.array \in Nat /\ n \in Nat
      /\ Len(heap) + 1 \in Nat
  BY <1>1 DEF Slices
<1>3. CASE AppendInPlace(c, f, values)
  <2>1. /\ s.array \in 1 .. Len(heap)
        /\ n > s.len /\ n <= Len(heap[s.array])
        /\ asked[c][f].times >= 2
        /\ Len(heap') = Len(heap)
        /\ \A k \in 1 .. Len(heap) : Len(heap'[k]) = Len(heap[k])
        /\ \A k \in 1 .. Len(heap) : k # s.array => heap'[k] = heap[k]
        /\ \A i \in 1 .. Len(heap[s.array]) :
             heap'[s.array][i] =
               IF i \in s.len + 1 .. n THEN values[i - s.len]
                                       ELSE heap[s.array][i]
    BY <1>0, <1>3, InPlace
  <2>2. SetSlice(c, f, s.array, n)
    BY <1>0, <1>3, InPlace
  <2> HIDE DEF n, s
  <2>3. /\ config'[c].lists[f] = [array |-> s.array, len |-> n]
        /\ \A d \in Configs, g \in Lists :
             d # c \/ g # f => config'[d].lists[g] = config[d].lists[g]
    BY <1>0, <1>2, <2>2, SliceUpdate
  <2> HIDE DEF t
  <2>4. t.array = s.array /\ t.len = n
    BY <2>3 DEF t
  <2>5. /\ t.array \in 1 .. Len(heap') /\ n <= Len(heap'[t.array])
        /\ s.array # 0 /\ n > s.len
        /\ Len(heap) <= Len(heap')
    BY <1>1, <1>2, <2>1, <2>4
  <2>6. \A i \in 1 .. n :
          heap'[t.array][i] = IF i <= s.len THEN heap[s.array][i]
                                            ELSE values[i - s.len]
    <3>1. ASSUME NEW i \in 1 .. n
          PROVE  /\ i \in 1 .. Len(heap[s.array])
                 /\ i \in s.len + 1 .. n <=> ~(i <= s.len)
      BY <1>1, <1>2, <2>1
    <3>2. QED
      BY <2>1, <2>4, <3>1
  <2>7. ASSUME NEW j \in 1 .. Len(heap), NEW i \in Nat, i \in 1 .. Len(heap[j]),
               j # t.array \/ i <= s.len \/ i > n
        PROVE  heap'[j][i] = heap[j][i]
    BY <1>1, <1>2, <2>1, <2>4, <2>7
  <2>8. QED
    BY <1>1, <1>2, <2>1, <2>3, <2>4, <2>5, <2>6, <2>7 DEF n, s, t
<1>4. CASE AppendGrown(c, f, values)
  <2>1. LET k == Len(heap) + 1
        IN  /\ n > s.len
            /\ Len(heap') = k
            /\ \A j \in 1 .. Len(heap) : heap'[j] = heap[j]
            /\ n <= Len(heap'[k])
            /\ s.array = 0 => Len(heap'[k]) = n
            /\ \A i \in 1 .. n :
                 heap'[k][i] = IF i <= s.len THEN heap[s.array][i]
                                             ELSE values[i - s.len]
    BY <1>0, <1>4, Grown
  <2>2. SetSlice(c, f, Len(heap) + 1, n)
    BY <1>0, <1>4, Grown
  <2> HIDE DEF n, s
  <2>3. /\ config'[c].lists[f] = [array |-> Len(heap) + 1, len |-> n]
        /\ \A d \in Configs, g \in Lists :
             d # c \/ g # f => config'[d].lists[g] = config[d].lists[g]
    BY <1>0, <1>2, <2>2, SliceUpdate
  <2> HIDE DEF t
  <2>4. t.array = Len(heap) + 1 /\ t.len = n
    BY <2>3 DEF t
  <2>5. /\ t.array \in 1 .. Len(heap') /\ n <= Len(heap'[t.array])
        /\ s.array = 0 => Len(heap'[t.array]) = n
        /\ Len(heap) <= Len(heap') /\ n > s.len
    BY <1>1, <1>2, <2>1, <2>4
  <2>6. \A i \in 1 .. n :
          heap'[t.array][i] = IF i <= s.len THEN heap[s.array][i]
                                            ELSE values[i - s.len]
    BY <2>1, <2>4
  <2>7. \A j \in 1 .. Len(heap) : heap'[j] = heap[j]
    BY <2>1
  <2>8. QED
    BY <1>1, <1>2, <2>3, <2>4, <2>5, <2>6, <2>7 DEF n, s, t
<1>5. QED
  BY <1>0, <1>3, <1>4

\* The record of what was asked, after an option added to it.
LEMMA AskedAfter ==
  ASSUME NEW c \in Configs, NEW f \in Lists, NEW values, Adds(c, f, values)
  PROVE  LET a == asked[c][f]
             b == asked'[c][f]
             n == Len(a.values) + Len(values)
         IN  /\ a.times \in Nat /\ a.safe \in Nat /\ Len(a.values) \in Nat
             /\ b.times = a.times + 1
             /\ b.safe = IF a.times < 2 THEN n ELSE a.safe
             /\ Len(b.values) = n
             /\ \A i \in Len(a.values) + 1 .. n :
                  b.values[i] = values[i - Len(a.values)]
             /\ \A d \in Configs, g \in Lists :
                  d # c \/ g # f => asked'[d][g] = asked[d][g]
<1>1. /\ asked \in [Configs -> [Lists -> Asked]] /\ asked[c][f] \in Asked
      /\ values \in Seq(Elements)
      /\ asked' = [asked EXCEPT ![c][f] = Ask(asked[c][f], values)]
  BY DEF Adds, ConfigTypeOK
<1>2. Len(asked[c][f].values) \in Nat /\ Len(values) \in Nat
  BY <1>1, LenProperties DEF Asked
<1>3. asked'[c][f] = Ask(asked[c][f], values)
  BY <1>1
<1>4. QED
  BY <1>1, <1>2, <1>3, AskType DEF Asked

LEMMA AddSlice ==
  ASSUME NEW c \in Configs, NEW f \in Lists, NEW values, Adds(c, f, values)
  PROVE  SliceInv'
<1> SUFFICES ASSUME NEW d \in Configs, NEW g \in Lists
             PROVE  SliceOK(config[d].lists[g], asked[d][g])'
  BY DEF SliceInv
<1>1. /\ SliceOK(config[d].lists[g], asked[d][g])
      /\ SliceOK(config[c].lists[f], asked[c][f])
      /\ config[d].lists[g] \in Slices
  BY DEF Adds, SliceInv, ConfigTypeOK, Fields
<1>2. CASE d = c /\ g = f
  <2> DEFINE s == config[c].lists[f]
             t == config'[c].lists[f]
             a == asked[c][f]
             b == asked'[c][f]
             n == s.len + Len(values)
  <2>1. /\ s.len \in Nat /\ s.array \in Nat /\ n \in Nat /\ n > s.len
        /\ t.len = n /\ t.array \in 1 .. Len(heap')
        /\ n <= Len(heap'[t.array])
        /\ s.array = 0 => Len(heap'[t.array]) = n
    BY Appended
  <2>2. /\ a.times \in Nat /\ a.safe \in Nat
        /\ b.times = a.times + 1
        /\ b.safe = IF a.times < 2 THEN n ELSE a.safe
        /\ Len(b.values) = n
    BY <1>1, AskedAfter DEF SliceOK
  <2>3. a.safe <= s.len /\ (s.array = 0 <=> a.times = 0)
    BY <1>1 DEF SliceOK
  <2> HIDE DEF s, t, a, b, n
  <2>4. /\ t.len = Len(b.values)
        /\ t.array \in 0 .. Len(heap')
        /\ t.array = 0 <=> t.len = 0
        /\ t.array # 0 => t.len <= Len(heap'[t.array])
        /\ b.safe <= t.len
        /\ t.array = 0 <=> b.times = 0
        /\ b.times < 2 => b.safe = t.len
        /\ b.times = 1 => Len(heap'[t.array]) = t.len
    BY <2>1, <2>2, <2>3
  <2>5. QED
    BY <1>2, <2>4 DEF SliceOK, t, b
<1>3. CASE d # c \/ g # f
  <2>1. config'[d].lists[g] = config[d].lists[g]
    BY <1>3, Appended
  <2>2. asked'[d][g] = asked[d][g]
    BY <1>3, AskedAfter
  <2>3. /\ Len(heap) \in Nat /\ Len(heap) <= Len(heap')
        /\ \A j \in 1 .. Len(heap) : Len(heap'[j]) = Len(heap[j])
    BY Appended
  <2>4. Len(heap') \in Nat
    BY LenProperties DEF Adds, ConfigTypeOK
  <2>5. QED
    <3> DEFINE t == config[d].lists[g]
               a == asked[d][g]
    <3>1. t.array \in Nat /\ SliceOK(t, a)
      BY <1>1 DEF Slices
    <3> HIDE DEF t, a
    <3>2. /\ t.len = Len(a.values)
          /\ t.array \in 0 .. Len(heap')
          /\ t.array = 0 <=> t.len = 0
          /\ t.array # 0 => t.len <= Len(heap'[t.array])
          /\ a.safe <= t.len
          /\ t.array = 0 <=> a.times = 0
          /\ a.times < 2 => a.safe = t.len
          /\ a.times = 1 => Len(heap'[t.array]) = t.len
      BY <2>3, <2>4, <3>1 DEF SliceOK
    <3>3. QED
      BY <2>1, <2>2, <3>2 DEF SliceOK, t, a
<1>4. QED
  BY <1>2, <1>3

LEMMA AddShare ==
  ASSUME NEW c \in Configs, NEW f \in Lists, NEW values, Adds(c, f, values)
  PROVE  ShareInv'
<1>1. /\ ConfigTypeOK /\ SliceInv /\ ShareInv
      /\ \A d \in Configs, g \in Lists : Grows(d, g)
  BY DEF Adds
<1>2. ASSUME NEW d \in Configs, NEW g \in Lists, d # c \/ g # f
      PROVE  /\ config'[d].lists[g].array = config[d].lists[g].array
             /\ asked'[d][g] = asked[d][g]
             /\ config[d].lists[g].array \in 0 .. Len(heap)
  BY <1>1, <1>2, Appended, AskedAfter DEF SliceInv, SliceOK
\* One of two that share an array was appended to.
<1>3. ASSUME NEW d \in Configs, NEW g \in Lists, d # c \/ g # f,
             config'[c].lists[f].array = config'[d].lists[g].array
      PROVE  /\ f = g
             /\ SameStart(c, d, f)' /\ SameStart(d, c, f)'
             /\ asked'[c][f].times >= 2 /\ asked'[d][f].times >= 2
             /\ asked'[c][f].times \in Nat /\ asked'[d][f].times \in Nat
  <2>1. /\ config'[c].lists[f].array = config[c].lists[f].array
        /\ config[c].lists[f].array # 0
        /\ asked[c][f].times >= 2 /\ asked[c][f].times \in Nat
    <3>1. /\ config'[c].lists[f].array \in 1 .. Len(heap')
          /\ Len(heap) \in Nat
          /\ \/ /\ config'[c].lists[f].array = config[c].lists[f].array
                /\ asked[c][f].times >= 2
             \/ config'[c].lists[f].array = Len(heap) + 1
      BY Appended
    <3>2. QED
      BY <1>2, <1>3, <3>1, AskedAfter
  <2>2. /\ f = g /\ SameStart(c, d, f)
        /\ asked[c][f].times < 2 <=> asked[d][f].times < 2
    <3>1. config[c].lists[f].array = config[d].lists[g].array
      BY <1>2, <1>3, <2>1
    <3>2. QED
      BY <1>1, <2>1, <3>1 DEF ShareInv
  <2>3. asked[d][f].times >= 2 /\ asked[d][f].times \in Nat
    BY <1>1, <2>1, <2>2 DEF ConfigTypeOK, Asked
  <2>4. SameStart(c, d, f)'
    BY <1>1, <2>1, <2>2, <2>3, SameStartStable
  <2>5. SameStart(d, c, f)'
    BY <2>4 DEF SameStart
  <2>6. asked'[c][f].times = asked[c][f].times + 1
    BY AskedAfter
  <2>7. asked'[d][f].times = asked[d][f].times
    BY <1>2, <1>3, <2>2
  <2>8. QED
    BY <2>1, <2>2, <2>3, <2>4, <2>5, <2>6, <2>7
<1>4. SUFFICES ASSUME NEW x \in Configs, NEW y \in Configs,
                      NEW g \in Lists, NEW h \in Lists,
                      config'[x].lists[g].array = config'[y].lists[h].array,
                      config'[x].lists[g].array # 0
               PROVE  /\ g = h
                      /\ SameStart(x, y, g)'
                      /\ asked'[x][g].times < 2 <=> asked'[y][g].times < 2
  BY DEF ShareInv
<1>5. CASE x = c /\ g = f /\ y = c /\ h = f
  BY <1>5 DEF SameStart
<1>6. CASE (x # c \/ g # f) /\ (y # c \/ h # f)
  <2>1. /\ config[x].lists[g].array = config[y].lists[h].array
        /\ config[x].lists[g].array # 0
    BY <1>2, <1>4, <1>6
  <2>2. /\ g = h /\ SameStart(x, y, g)
        /\ asked[x][g].times < 2 <=> asked[y][g].times < 2
    BY <1>1, <2>1 DEF ShareInv
  <2>3. asked'[x][g] = asked[x][g] /\ asked'[y][g] = asked[y][g]
    BY <1>2, <1>6, <2>2
  <2>4. QED
    BY <2>2, <2>3 DEF SameStart
<1>7. CASE x = c /\ g = f /\ (y # c \/ h # f)
  BY <1>3, <1>4, <1>7
<1>8. CASE (x # c \/ g # f) /\ y = c /\ h = f
  BY <1>3, <1>4, <1>8
<1>9. QED
  BY <1>5, <1>6, <1>7, <1>8

LEMMA AddContent ==
  ASSUME NEW c \in Configs, NEW f \in Lists, NEW values, Adds(c, f, values)
  PROVE  ContentInv'
<1> DEFINE s == config[c].lists[f]
           t == config'[c].lists[f]
           n == s.len + Len(values)
<1>1. /\ ConfigTypeOK /\ SliceInv /\ ShareInv /\ ContentInv
      /\ \A d \in Configs, g \in Lists : Grows(d, g)
  BY DEF Adds
<1>2. \A d \in Configs, g \in Lists :
        SliceOK(config[d].lists[g], asked[d][g]) /\ config[d].lists[g] \in Slices
  BY <1>1 DEF SliceInv, ConfigTypeOK, Fields
<1>3. /\ s.len \in Nat /\ s.array \in Nat /\ n \in Nat /\ n > s.len
      /\ t.len = n /\ t.array \in 1 .. Len(heap') /\ Len(heap) \in Nat
      /\ \/ t.array = s.array /\ asked[c][f].times >= 2
         \/ t.array = Len(heap) + 1
      /\ \A d \in Configs, g \in Lists :
           d # c \/ g # f => config'[d].lists[g] = config[d].lists[g]
      /\ \A i \in 1 .. n :
           heap'[t.array][i] = IF i <= s.len THEN heap[s.array][i]
                                             ELSE values[i - s.len]
      /\ \A j \in 1 .. Len(heap), i \in Nat :
           i \in 1 .. Len(heap[j]) /\ (j # t.array \/ i <= s.len \/ i > n)
             => heap'[j][i] = heap[j][i]
  BY Appended
<1>4. /\ Len(asked[c][f].values) = s.len
      /\ \A i \in s.len + 1 .. n : asked'[c][f].values[i] = values[i - s.len]
      /\ Len(asked'[c][f].values) = n
  <2>1. Len(asked[c][f].values) = s.len
    BY <1>2 DEF SliceOK
  <2> DEFINE m == Len(asked[c][f].values)
  <2>2. /\ \A i \in m + 1 .. m + Len(values) :
             asked'[c][f].values[i] = values[i - m]
        /\ Len(asked'[c][f].values) = m + Len(values)
    BY AskedAfter
  <2> HIDE DEF m, s
  <2>3. m = s.len
    BY <2>1 DEF m
  <2>4. QED
    BY <2>2, <2>3 DEF m
<1>5. SUFFICES ASSUME NEW d \in Configs, NEW g \in Lists,
                      NEW i \in 1 .. config'[d].lists[g].len,
                      NEW e, e = heap'[config'[d].lists[g].array][i]
               PROVE  Kept(d, g, i, e)'
  BY DEF ContentInv, Kept, Overwritten
<1> HIDE DEF s, t, n
\* What was in an array before the append.
<1>6. ASSUME i \in 1 .. config[d].lists[g].len,
             e = heap[config[d].lists[g].array][i]
      PROVE  Kept(d, g, i, e)'
  <2>1. i \in 1 .. Len(asked[d][g].values)
    BY <1>2, <1>6 DEF SliceOK
  <2>2. Kept(d, g, i, e)
    BY <1>1, <1>6 DEF ContentInv
  <2>3. asked' \in [Configs -> [Lists -> Asked]]
    BY DEF Adds, ConfigTypeOK
  <2>4. QED
    BY <1>1, <2>1, <2>2, <2>3, KeptStable
<1>7. CASE d = c /\ g = f
  <2>1. i \in 1 .. n /\ e = heap'[t.array][i]
    BY <1>3, <1>5, <1>7 DEF t
  <2>2. CASE i <= s.len
    <3>1. i \in 1 .. s.len /\ e = heap[s.array][i]
      BY <1>3, <2>1, <2>2
    <3>2. QED
      BY <1>6, <1>7, <3>1 DEF s
  <2>3. CASE i > s.len
    <3>1. i \in s.len + 1 .. n
      BY <1>3, <2>1, <2>3
    <3>2. e = values[i - s.len]
      BY <1>3, <2>1, <3>1
    <3>3. e = asked'[c][f].values[i]
      BY <1>4, <3>1, <3>2
    <3>4. QED
      BY <1>7, <3>3 DEF Kept
  <2>4. QED
    BY <1>3, <2>1, <2>2, <2>3
<1>8. CASE d # c \/ g # f
  <2> DEFINE j == config[d].lists[g].array
             l == config[d].lists[g].len
  <2>1. config'[d].lists[g] = config[d].lists[g]
    BY <1>3, <1>8
  <2>2. i \in 1 .. l /\ e = heap'[j][i]
    BY <1>5, <2>1
  <2>3. /\ j \in 1 .. Len(heap) /\ l <= Len(heap[j]) /\ l \in Nat
        /\ Len(heap[j]) \in Nat
    <3>1. l \in Nat /\ j \in Nat
      BY <1>2 DEF Slices
    <3>2. j \in 1 .. Len(heap) /\ l <= Len(heap[j])
      BY <1>2, <1>3, <2>2, <3>1 DEF SliceOK
    <3>3. Len(heap[j]) \in Nat
      BY <1>1, <3>2, ElementOfSeq, LenProperties DEF ConfigTypeOK
    <3>4. QED
      BY <3>1, <3>2, <3>3
  <2>4. CASE j # t.array \/ i <= s.len \/ i > n
    <3>1. i \in Nat /\ i \in 1 .. Len(heap[j])
      BY <2>2, <2>3
    <3>2. heap'[j][i] = heap[j][i]
      BY <1>3, <2>3, <2>4, <3>1
    <3>3. QED
      BY <1>6, <2>2, <3>2
  \* The options of c took the place of those of d.
  <2>5. CASE j = t.array /\ i > s.len /\ i <= n
    <3>1. j = s.array /\ s.array # 0 /\ asked[c][f].times >= 2
      BY <1>3, <2>3, <2>5
    <3>2. /\ f = g /\ SameStart(d, c, f)
          /\ asked[d][f].times < 2 <=> asked[c][f].times < 2
      BY <1>1, <3>1 DEF ShareInv, s
    <3>3. asked[d][f].times >= 2
      BY <1>1, <3>1, <3>2 DEF ConfigTypeOK, Asked
    <3>4. SameStart(d, c, f)'
      BY <1>1, <3>1, <3>2, <3>3, SameStartStable
    <3>5. i > asked'[d][f].safe
      <4>1. asked[c][f].safe <= s.len /\ asked[c][f].safe \in Nat
        BY <1>1, <1>2 DEF SliceOK, ConfigTypeOK, Asked, s
      <4>2. asked'[d][f].safe = asked[c][f].safe
        BY <1>1, <3>2, <3>3 DEF SameStart, Grows
      <4>3. QED
        BY <1>3, <2>2, <2>3, <2>5, <4>1, <4>2
    <3>6. /\ i \in s.len + 1 .. n /\ i \in 1 .. Len(asked'[c][f].values)
      BY <1>3, <1>4, <2>2, <2>3, <2>5
    <3>7. e = asked'[c][f].values[i]
      <4>1. e = values[i - s.len]
        BY <1>3, <1>4, <2>2, <2>5, <3>6
      <4>2. QED
        BY <1>4, <3>6, <4>1
    <3>8. c \in Configs \ {d}
      BY <1>8, <3>2
    <3>9. QED
      BY <3>2, <3>4, <3>5, <3>6, <3>7, <3>8 DEF Kept, Overwritten
  <2>6. QED
    BY <1>3, <2>2, <2>3, <2>4, <2>5
<1>9. QED
  BY <1>7, <1>8

-----------------------------------------------------------------------------
(* The other steps                                                         *)

\* Steps that leave the lists, their arrays and what was asked as they are.
LEMMA ListsUnchanged ==
  ASSUME ConfigInv, UNCHANGED <<heap, asked>>,
         \A c \in Configs : config'[c].lists = config[c].lists
  PROVE  SliceInv' /\ ShareInv' /\ ContentInv'
<1>1. SliceInv'
  BY DEF ConfigInv, SliceInv, SliceOK
<1>2. ShareInv'
  BY DEF ConfigInv, ShareInv, SameStart
<1>3. ContentInv'
  BY DEF ConfigInv, ContentInv, Kept, Overwritten, SameStart
<1>4. QED
  BY <1>1, <1>2, <1>3

LEMMA LoadLists ==
  ASSUME ConfigInv, NEW c \in Configs, Load(c)
  PROVE  SliceInv' /\ ShareInv' /\ ContentInv'
<1>1. /\ config' = [config EXCEPT ![c] = Read]
      /\ asked' = [asked EXCEPT ![c] = [f \in Lists |-> NotAsked]]
      /\ UNCHANGED heap
      /\ \A f \in Lists : asked[c][f] = NotAsked
      /\ config \in [Configs -> Fields] /\ asked \in [Configs -> [Lists -> Asked]]
  BY DEF Load, BeginApply, ConfigInv, StateInv, ConfigTypeOK
<1>2. asked[c] = [f \in Lists |-> NotAsked]
  BY <1>1
<1>3. UNCHANGED asked
  BY <1>1, <1>2
<1>4. ASSUME NEW f \in Lists PROVE config[c].lists[f] = Nil
  <2>1. /\ config[c].lists[f] \in Slices
        /\ SliceOK(config[c].lists[f], NotAsked)
    BY <1>1 DEF Fields, ConfigInv, SliceInv
  <2>2. config[c].lists[f].array = 0 /\ config[c].lists[f].len = 0
    BY <2>1 DEF SliceOK, NotAsked
  <2>3. QED
    BY <2>1, <2>2 DEF Slices, Nil
<1>5. config[c].lists = Read.lists
  <2>1. config[c].lists \in [Lists -> Slices]
    BY <1>1 DEF Fields
  <2>2. Read.lists = [f \in Lists |-> Nil]
    BY DEF Read
  <2>3. QED
    BY <1>4, <2>1, <2>2
<1>6. \A d \in Configs : config'[d].lists = config[d].lists
  BY <1>1, <1>5
<1>7. QED
  BY <1>1, <1>3, <1>6, ListsUnchanged

\* The copy of a config has its slices, and its history.
LEMMA ApplyLists ==
  ASSUME ConfigInv, NEW c \in Configs, NEW from \in Configs, Apply(c, from)
  PROVE  SliceInv' /\ ShareInv' /\ ContentInv'
<1> DEFINE Of(d) == IF d = c THEN from ELSE d
<1>1. /\ config' = [config EXCEPT ![c] = config[from]]
      /\ asked' = [asked EXCEPT ![c] = asked[from]]
      /\ heap' = heap
      /\ c # from
      /\ \A f \in Lists : asked[c][f] = NotAsked
      /\ config \in [Configs -> Fields] /\ asked \in [Configs -> [Lists -> Asked]]
  BY DEF Apply, BeginApply, ConfigInv, StateInv, ConfigTypeOK
<1>2. \A d \in Configs : /\ Of(d) \in Configs
                         /\ config'[d] = config[Of(d)] /\ asked'[d] = asked[Of(d)]
  BY <1>1
<1> HIDE DEF Of
<1>3. SliceInv'
  BY <1>1, <1>2 DEF ConfigInv, SliceInv, SliceOK
<1>4. ShareInv'
  <2>1. ASSUME NEW x \in Configs, NEW y \in Configs, NEW f \in Lists,
               SameStart(Of(x), Of(y), f)
        PROVE  SameStart(x, y, f)'
    BY <1>2, <2>1 DEF SameStart
  <2> SUFFICES ASSUME NEW x \in Configs, NEW y \in Configs,
                      NEW g \in Lists, NEW h \in Lists,
                      config'[x].lists[g].array = config'[y].lists[h].array,
                      config'[x].lists[g].array # 0
               PROVE  /\ g = h
                      /\ SameStart(x, y, g)'
                      /\ asked'[x][g].times < 2 <=> asked'[y][g].times < 2
    BY DEF ShareInv
  <2>2. /\ config[Of(x)].lists[g].array = config[Of(y)].lists[h].array
        /\ config[Of(x)].lists[g].array # 0
    BY <1>2
  <2>3. /\ g = h
        /\ SameStart(Of(x), Of(y), g)
        /\ asked[Of(x)][g].times < 2 <=> asked[Of(y)][g].times < 2
    BY <1>2, <2>2 DEF ConfigInv, ShareInv
  <2>4. QED
    BY <1>2, <2>1, <2>3
<1>5. ContentInv'
  <2> SUFFICES ASSUME NEW d \in Configs, NEW f \in Lists,
                      NEW i \in 1 .. config'[d].lists[f].len,
                      NEW e, e = heap'[config'[d].lists[f].array][i]
               PROVE  Kept(d, f, i, e)'
    BY DEF ContentInv, Kept, Overwritten
  <2>1. i \in 1 .. config[Of(d)].lists[f].len
    BY <1>2
  <2>2. Kept(Of(d), f, i, e)
    BY <1>1, <1>2, <2>1 DEF ConfigInv, ContentInv
  <2>3. CASE e = asked[Of(d)][f].values[i]
    BY <1>2, <2>3 DEF Kept
  <2>4. CASE Overwritten(Of(d), f, i, e)
    <3>1. PICK w \in Configs \ {Of(d)} :
            /\ i > asked[Of(d)][f].safe /\ SameStart(Of(d), w, f)
            /\ i \in 1 .. Len(asked[w][f].values) /\ asked[w][f].values[i] = e
      BY <2>4 DEF Overwritten
    \* Nothing had been asked of c.
    <3>2. w # c
      <4>1. Len(asked[c][f].values) = 0
        BY <1>1, EmptySeq DEF NotAsked
      <4>2. QED
        BY <3>1, <4>1
    <3>3. w \in Configs \ {d} /\ Of(w) = w
      BY <3>1, <3>2 DEF Of
    <3>4. SameStart(d, w, f)'
      BY <1>2, <3>1, <3>3 DEF SameStart
    <3>5. /\ i > asked'[d][f].safe
          /\ i \in 1 .. Len(asked'[w][f].values) /\ asked'[w][f].values[i] = e
      BY <1>2, <3>1, <3>3
    <3>6. QED
      BY <3>3, <3>4, <3>5 DEF Kept, Overwritten
  <2>5. QED
    BY <2>2, <2>3, <2>4 DEF Kept
<1>6. QED
  BY <1>3, <1>4, <1>5

LEMMA ApplyOptionLists ==
  ASSUME ConfigInv, ConfigTypeOK', \A d \in Configs, g \in Lists : Grows(d, g),
         NEW c \in Configs, ApplyOption(c)
  PROVE  SliceInv' /\ ShareInv' /\ ContentInv'
<1> DEFINE option == Head(opts[c])
<1>1. option \in Options
  BY OptionType DEF ApplyOption, ConfigInv
<1>2. IF option.field \in Lists THEN AddToList(c, option.field, option.values)
                                ELSE SetField(c, option)
  BY DEF ApplyOption
<1> HIDE DEF option
<1>3. CASE option.field \in Lists /\ option.values = <<>>
  BY <1>2, <1>3, ListsUnchanged DEF AddToList
<1>4. CASE option.field \in Lists /\ option.values # <<>>
  <2>1. option.values \in Seq(Elements)
    BY <1>1, <1>4, ListOption
  <2>2. Adds(c, option.field, option.values)
    BY <1>2, <1>4, <2>1 DEF Adds, AddToList, ConfigInv
  <2>3. QED
    BY <1>4, <2>2, AddSlice, AddShare, AddContent
<1>5. CASE option.field \notin Lists
  <2>1. SetField(c, option) /\ UNCHANGED <<heap, asked>>
    BY <1>2, <1>5 DEF SetField
  <2>2. \A d \in Configs : config'[d].lists = config[d].lists
    BY <1>1, <1>5, <2>1, SetFieldEffect DEF ConfigInv
  <2>3. QED
    BY <2>1, <2>2, ListsUnchanged
<1>6. QED
  BY <1>3, <1>4, <1>5

-----------------------------------------------------------------------------
(* The invariant                                                           *)

LEMMA ConfigInitInv == ConfigInit => ConfigInv
<1> SUFFICES ASSUME ConfigInit PROVE ConfigInv
  OBVIOUS
<1>1. ConfigTypeOK
  BY ConfigInitType
<1>2. \A c \in Configs, f \in Lists :
        /\ config[c].lists[f] = Nil /\ asked[c][f] = NotAsked
        /\ opts[c] = <<>>
  BY DEF ConfigInit, Read
<1>3. Nil.array = 0 /\ Nil.len = 0 /\ NotAsked.times = 0 /\ NotAsked.safe = 0
      /\ Len(NotAsked.values) = 0 /\ Len(heap) \in Nat
  BY <1>1, EmptySeq, LenProperties DEF Nil, NotAsked, ConfigTypeOK
<1>4. StateInv
  BY <1>2 DEF StateInv, ConfigInit
<1>5. SliceInv
  BY <1>2, <1>3 DEF SliceInv, SliceOK
<1>6. ShareInv /\ ContentInv
  BY <1>2, <1>3 DEF ShareInv, ContentInv
<1>7. QED
  BY <1>1, <1>4, <1>5, <1>6 DEF ConfigInv

LEMMA ConfigStepLists ==
  ASSUME ConfigInv, ConfigTypeOK', \A d \in Configs, g \in Lists : Grows(d, g),
         [ConfigNext]_configVars
  PROVE  SliceInv' /\ ShareInv' /\ ContentInv'
<1>1. ASSUME NEW c \in Configs, Serve(c)
      PROVE  SliceInv' /\ ShareInv' /\ ContentInv'
  <2>1. UNCHANGED <<heap, asked>>
    BY <1>1 DEF Serve
  <2>2. \A d \in Configs : config'[d].lists = config[d].lists
    BY <1>1, ServeEffect DEF ConfigInv
  <2>3. QED
    BY <2>1, <2>2, ListsUnchanged
<1>2. CASE UNCHANGED configVars
  <2>1. /\ UNCHANGED <<heap, asked>>
        /\ \A d \in Configs : config'[d].lists = config[d].lists
    BY <1>2 DEF configVars
  <2>2. QED
    BY <2>1, ListsUnchanged
<1>3. ASSUME NEW c \in Configs, Load(c)
      PROVE  SliceInv' /\ ShareInv' /\ ContentInv'
  BY <1>3, LoadLists
<1>4. ASSUME NEW c \in Configs, NEW from \in Configs, Apply(c, from)
      PROVE  SliceInv' /\ ShareInv' /\ ContentInv'
  BY <1>4, ApplyLists
<1>5. ASSUME NEW c \in Configs, ApplyOption(c)
      PROVE  SliceInv' /\ ShareInv' /\ ContentInv'
  BY <1>5, ApplyOptionLists
<1>6. QED
  BY <1>1, <1>2, <1>3, <1>4, <1>5 DEF ConfigNext

LEMMA ConfigStep ==
  ASSUME ConfigInv, [ConfigNext]_configVars
  PROVE  ConfigInv' /\ \A d \in Configs, g \in Lists : Grows(d, g)
<1>1. ConfigTypeOK' /\ StateInv'
  BY ConfigStepType, ConfigStepState DEF ConfigInv
<1>2. \A d \in Configs, g \in Lists : Grows(d, g)
  BY AskedGrows DEF ConfigInv
<1>3. SliceInv' /\ ShareInv' /\ ContentInv'
  BY <1>1, <1>2, ConfigStepLists
<1>4. ConfigInv'
  BY <1>1, <1>3 DEF ConfigInv
<1>5. QED
  BY <1>2, <1>4

\* Every reachable state has slices that fit their arrays, and arrays that show
\* what was asked for or what took its place.
THEOREM ConfigInvariant == ConfigSpec => []ConfigInv
<1>1. ConfigInv /\ [ConfigNext]_configVars => ConfigInv'
  BY ConfigStep
<1>2. QED
  BY ConfigInitInv, <1>1, PTL DEF ConfigSpec

-----------------------------------------------------------------------------
(* What a served config has, and what its server was made of               *)

LEMMA ServedStable ==
  ASSUME ConfigInv, [ConfigNext]_configVars,
         NEW c \in Configs, state'[c] = "served"
  PROVE  \/ Serve(c)
         \/ /\ state[c] = "served" /\ UNCHANGED file
            /\ server'[c] = server[c] /\ config'[c] = config[c]
            /\ asked'[c] = asked[c]
<1> DEFINE Stable == /\ state[c] = "served" /\ UNCHANGED file
                     /\ server'[c] = server[c] /\ config'[c] = config[c]
                     /\ asked'[c] = asked[c]
<1>0. /\ state \in [Configs -> {"none", "made", "served"}]
      /\ config \in [Configs -> Fields] /\ DOMAIN server = Configs
      /\ asked \in [Configs -> [Lists -> Asked]]
      /\ opts[c] # <<>> => state[c] = "made"
  BY DEF ConfigInv, ConfigTypeOK, StateInv
<1>1. ASSUME NEW d \in Configs, NEW base, NEW lists, BeginApply(d, base, lists)
      PROVE  Stable
  BY <1>0, <1>1 DEF BeginApply
<1>2. ASSUME NEW d \in Configs, ApplyOption(d) PROVE Stable
  <2>1. UNCHANGED <<file, state, server>> /\ opts[d] # <<>>
    BY <1>2 DEF ApplyOption
  <2>2. c # d
    BY <1>0, <2>1
  <2>3. config'[c] = config[c] /\ asked'[c] = asked[c]
    BY <1>0, <1>2, <2>2 DEF ApplyOption, AddToList, SetField, AppendInPlace,
                            AppendGrown
  <2>4. QED
    BY <2>1, <2>3
<1>3. ASSUME NEW d \in Configs, Serve(d), d # c PROVE Stable
  <2>1. config'[c] = config[c]
    BY <1>3, ServeEffect DEF ConfigInv
  <2>2. state'[c] = state[c] /\ server'[c] = server[c] /\ UNCHANGED <<file, asked>>
    BY <1>0, <1>3 DEF Serve
  <2>3. QED
    BY <2>1, <2>2
<1>4. CASE UNCHANGED configVars
  BY <1>4 DEF configVars
<1>5. QED
  BY <1>1, <1>2, <1>3, <1>4 DEF ConfigNext, Load, Apply

\* What NewServer and Register read of a list.
LEMMA ContentKept ==
  ASSUME ConfigInv, NEW c \in Configs, NEW f \in Lists
  PROVE  /\ Content(c, f) \in Seq(Cells)
         /\ Len(Content(c, f)) = Len(asked[c][f].values)
         /\ \A i \in 1 .. Len(Content(c, f)) : Kept(c, f, i, Content(c, f)[i])
<1> DEFINE s   == config[c].lists[f]
           arr == heap[s.array]
<1>1. /\ s.array \in Nat /\ s.len \in Nat /\ s.len = Len(asked[c][f].values)
      /\ s.array \in 0 .. Len(heap) /\ (s.array = 0 <=> s.len = 0)
      /\ s.array # 0 => s.len <= Len(arr)
      /\ heap \in Seq(Seq(Cells))
  BY DEF ConfigInv, ConfigTypeOK, Fields, Slices, SliceInv, SliceOK, Cells
<1>2. \A i \in 1 .. s.len : Kept(c, f, i, arr[i])
  BY DEF ConfigInv, ContentInv
<1>3. Content(c, f) = IF s.array = 0 THEN <<>> ELSE SubSeq(arr, 1, s.len)
  BY DEF Content
<1> HIDE DEF s
<1>4. CASE s.array = 0
  BY <1>1, <1>3, <1>4, EmptySeq
<1>5. CASE s.array # 0
  <2>1. arr \in Seq(Cells)
    BY <1>1, <1>5, ElementOfSeq
  <2> HIDE DEF arr
  <2>2. \A i \in 1 .. s.len : arr[i] \in Cells
    BY <1>1, <1>5, <2>1, ElementOfSeq, LenProperties
  <2>3. /\ SubSeq(arr, 1, s.len) \in Seq(Cells)
        /\ Len(SubSeq(arr, 1, s.len)) = s.len
        /\ \A i \in 1 .. s.len : SubSeq(arr, 1, s.len)[i] = arr[i]
    BY <1>1, <2>2, SubSeqProperties
  <2>4. QED
    BY <1>1, <1>2, <1>3, <1>5, <2>3
<1>6. QED
  BY <1>4, <1>5

LEMMA OptionsKeptStep ==
  ConfigInv /\ OptionsKept /\ [ConfigNext]_configVars => OptionsKept'
<1> SUFFICES ASSUME ConfigInv, OptionsKept, [ConfigNext]_configVars,
                    NEW c \in Configs, state'[c] = "served", NEW f \in Lists
             PROVE  /\ Len(server'[c].lists[f]) = Len(asked'[c][f].values)
                    /\ \A i \in 1 .. Len(asked'[c][f].values) :
                         \A e : e = server'[c].lists[f][i] => Kept(c, f, i, e)'
  BY DEF OptionsKept, Serving, Kept, Overwritten
<1>1. /\ asked' \in [Configs -> [Lists -> Asked]]
      /\ \A d \in Configs, g \in Lists : Grows(d, g)
  BY ConfigStep DEF ConfigInv, ConfigTypeOK
<1>2. ConfigTypeOK /\ SliceInv /\ Len(asked[c][f].values) \in Nat
  BY LenProperties DEF ConfigInv, ConfigTypeOK, Asked
<1>3. SUFFICES /\ Len(server'[c].lists[f]) = Len(asked[c][f].values)
               /\ \A i \in 1 .. Len(asked[c][f].values) :
                    Kept(c, f, i, server'[c].lists[f][i])
               /\ asked'[c] = asked[c]
  <2> SUFFICES ASSUME NEW i \in 1 .. Len(asked[c][f].values),
                      NEW e, Kept(c, f, i, e)
               PROVE  Kept(c, f, i, e)'
    BY <1>3
  <2>1. QED
    BY <1>1, <1>2, KeptStable
<1>4. CASE Serve(c)
  <2>1. server'[c].lists[f] = Content(c, f) /\ UNCHANGED asked
    BY <1>4 DEF Serve, ConfigInv, ConfigTypeOK
  <2>2. QED
    BY <2>1, ContentKept
<1>5. CASE /\ state[c] = "served"
           /\ server'[c] = server[c] /\ asked'[c] = asked[c]
  BY <1>5 DEF OptionsKept, Serving, Kept
<1>6. QED
  BY <1>4, <1>5, ServedStable

\* A server has what its config was given, in its order, but for what another
\* config took the place of (grpcserver Apply, NewServer).
THEOREM OptionsAreKept == ConfigSpec => []OptionsKept
<1>1. ConfigInit => OptionsKept
  BY DEF ConfigInit, OptionsKept, Serving
<1>2. QED
  BY <1>1, ConfigInvariant, OptionsKeptStep, PTL DEF ConfigSpec

-----------------------------------------------------------------------------
(* Headers                                                                 *)

Ways == {"incoming", "outgoing"}

\* What the matchers of a server let pass is in its own lists.
MatchersInv ==
  \A c \in Serving :
    /\ DOMAIN server[c].lists = Lists
    /\ \A way \in Ways :
         /\ server[c].lists[way] \in Seq(Cells)
         /\ server[c][way] = PassThruHeaders(server[c].lists[way])

LEMMA MatchersStep ==
  ConfigInv /\ MatchersInv /\ [ConfigNext]_configVars => MatchersInv'
<1> SUFFICES ASSUME ConfigInv, MatchersInv, [ConfigNext]_configVars,
                    NEW c \in Configs, state'[c] = "served"
             PROVE  /\ DOMAIN server'[c].lists = Lists
                    /\ \A way \in Ways :
                         /\ server'[c].lists[way] \in Seq(Cells)
                         /\ server'[c][way] =
                              PassThruHeaders(server'[c].lists[way])
  BY DEF MatchersInv, Serving
<1>1. CASE Serve(c)
  <2>1. /\ server'[c].lists = [f \in Lists |-> Content(c, f)]
        /\ server'[c].incoming = PassThruHeaders(Content(c, "incoming"))
        /\ server'[c].outgoing = PassThruHeaders(Content(c, "outgoing"))
    BY <1>1 DEF Serve, ConfigInv, ConfigTypeOK
  <2>2. \A way \in Ways : Content(c, way) \in Seq(Cells)
    BY ContentKept DEF Ways, Lists
  <2>3. QED
    BY <2>1, <2>2 DEF Ways, Lists
<1>2. CASE state[c] = "served" /\ server'[c] = server[c]
  BY <1>2 DEF MatchersInv, Serving
<1>3. QED
  BY <1>1, <1>2, ServedStable

\* Which headers pass thru does not depend on the case of those in the list.
LEMMA PassThru ==
  ASSUME NEW headers, NEW key
  PROVE  ToLower(key) \in PassThruHeaders(headers) <=>
           \E g \in DefaultPassThruHeaders \cup {headers[i] : i \in DOMAIN headers} :
             ToLower(g) = ToLower(key)
<1>0. \A p, n : ToLower(Header(p, n, FALSE)) = Header(p, n, FALSE)
  BY DEF Header, ToLower
<1>1. \A g \in DefaultPassThruHeaders : ToLower(g) = g
  BY <1>0 DEF DefaultPassThruHeaders
<1> DEFINE given == {headers[i] : i \in DOMAIN headers}
<1>2. PassThruHeaders(headers) = DefaultPassThruHeaders \cup {ToLower(g) : g \in given}
  BY DEF PassThruHeaders
<1> HIDE DEF given
<1>3. ToLower(key) \in PassThruHeaders(headers) <=>
        \E g \in DefaultPassThruHeaders \cup given : ToLower(g) = ToLower(key)
  BY <1>1, <1>2
<1>4. QED
  BY <1>3 DEF given

\* The gateway's own matcher always changes the name, so that a header keeps
\* its own only if it passes thru.
LEMMA MatcherNames ==
  ASSUME NEW passThru, NEW key \in Headers
  PROVE  /\ key \in CustomHeaderMatcher(passThru, key) <=> ToLower(key) \in passThru
         /\ \A h \in CustomHeaderMatcher(passThru, key) :
              \/ ToLower(key) \in passThru
              \/ h.prefix = "" /\ key.prefix = "grpc-metadata-"
              \/ h.prefix = "grpcgateway-" /\ key.name \in Permanent
<1>1. CASE ToLower(key) \in passThru
  BY <1>1 DEF CustomHeaderMatcher
<1>2. CASE ToLower(key) \notin passThru
  <2>1. CustomHeaderMatcher(passThru, key) = DefaultHeaderMatcher(key)
    BY <1>2 DEF CustomHeaderMatcher
  <2>2. \A p, n, u : Header(p, n, u).prefix = p
    BY DEF Header
  <2>3. \A h \in DefaultHeaderMatcher(key) :
          \/ h.prefix = "grpcgateway-" /\ key.prefix = "" /\ key.name \in Permanent
          \/ h.prefix = "" /\ key.prefix = "grpc-metadata-"
    BY <2>2 DEF DefaultHeaderMatcher
  <2>4. QED
    BY <1>2, <2>1, <2>3
<1>3. QED
  BY <1>1, <1>2

LEMMA HeadersFollow == ConfigInv /\ MatchersInv => HeadersAsListed
<1> SUFFICES ASSUME ConfigInv, MatchersInv,
                    NEW c \in Serving, NEW way \in Ways, NEW key \in Keys
             PROVE  /\ key \in CustomHeaderMatcher(server[c][way], key) <=>
                          PassesThru(c, way, key)
                    /\ \A h \in CustomHeaderMatcher(server[c][way], key) :
                         \/ PassesThru(c, way, key)
                         \/ h.prefix = "" /\ key.prefix = "grpc-metadata-"
                         \/ h.prefix = "grpcgateway-" /\ key.name \in Permanent
  BY DEF HeadersAsListed, Ways
<1> DEFINE list == server[c].lists[way]
<1>1. /\ list \in Seq(Cells)
      /\ server[c][way] = PassThruHeaders(list)
  BY DEF MatchersInv
<1>2. Listed(c, way) = {list[i] : i \in DOMAIN list}
  BY <1>1, LenProperties DEF Listed
<1>3. PassesThru(c, way, key) <=> ToLower(key) \in server[c][way]
  BY <1>1, <1>2, PassThru DEF PassesThru
<1>4. key \in Headers
  BY ConfigAssumption
<1>5. QED
  BY <1>3, <1>4, MatcherNames

\* A header passes under its own name if and only if it is one of the four or
\* listed for its direction; any other passes as the gateway's own matcher
\* lets it, under another name (CustomHeaderMatcher).
THEOREM HeadersPassAsListed == ConfigSpec => []HeadersAsListed
<1>1. ConfigInit => MatchersInv
  BY DEF ConfigInit, MatchersInv, Serving
<1>2. QED
  BY <1>1, ConfigInvariant, MatchersStep, HeadersFollow, PTL DEF ConfigSpec

-----------------------------------------------------------------------------
(* Addresses                                                               *)

\* A config has the address of the file, or the default in place of none, and
\* its server and its gateway have that one.
AddressInv ==
  /\ \A c \in Configs : config[c].grpc \in {file.grpc, Listen(file.grpc)}
  /\ \A c \in Serving :
       /\ config[c].grpc = Listen(file.grpc)
       /\ server[c].dialed = config[c].grpc
       /\ server[c].bound = Bound(config[c].grpc)

LEMMA DefaultAddress == DefaultGRPC.port = 9080 /\ DefaultGRPC # ZeroListen
<1>1. DefaultGRPC.port = 9080
  BY DEF DefaultGRPC
<1>2. ZeroListen.port = 0
  BY DEF ZeroListen
<1>3. QED
  BY <1>1, <1>2

LEMMA ListenTwice == ASSUME NEW listen PROVE Listen(Listen(listen)) = Listen(listen)
BY DefaultAddress DEF Listen

LEMMA AddressStep ==
  ConfigInv /\ AddressInv /\ [ConfigNext]_configVars => AddressInv'
<1> SUFFICES ASSUME ConfigInv, AddressInv, [ConfigNext]_configVars
             PROVE  AddressInv'
  OBVIOUS
<1>0. config \in [Configs -> Fields]
  BY DEF ConfigInv, ConfigTypeOK
<1>1. UNCHANGED file
  BY DEF ConfigNext, Load, Apply, BeginApply, ApplyOption, Serve, configVars
<1>2. ASSUME NEW c \in Configs
      PROVE  config'[c].grpc \in {file.grpc, Listen(file.grpc)}
  <2>0. config[c].grpc \in {file.grpc, Listen(file.grpc)}
    BY DEF AddressInv
  <2>1. ASSUME NEW d \in Configs, Load(d) \/ \E from \in Configs : Apply(d, from)
        PROVE  \/ config'[c] = Read
               \/ \E e \in Configs : config'[c] = config[e]
    BY <1>0, <2>1 DEF Load, Apply, BeginApply
  <2>2. ASSUME NEW d \in Configs, ApplyOption(d)
        PROVE  config'[c].grpc = config[c].grpc
    <3> DEFINE option == Head(opts[d])
    <3>1. option \in Options
      BY <2>2, OptionType DEF ApplyOption, ConfigInv
    <3>2. IF option.field \in Lists THEN AddToList(d, option.field, option.values)
                                    ELSE SetField(d, option)
      BY <2>2 DEF ApplyOption
    <3> HIDE DEF option
    <3>3. CASE option.field \in Lists
      <4>1. \/ UNCHANGED config
            \/ \E slice : config' = [config EXCEPT ![d].lists[option.field] = slice]
        BY <3>2, <3>3 DEF AddToList, AppendInPlace, AppendGrown
      <4>2. QED
        BY <1>0, <4>1 DEF Fields
    <3>4. CASE option.field \notin Lists
      BY <1>0, <3>1, <3>2, <3>4 DEF SetField, Options, Lists, Fields
    <3>5. QED
      BY <3>3, <3>4
  <2>3. ASSUME NEW d \in Configs, Serve(d)
        PROVE  config'[c].grpc \in {file.grpc, Listen(file.grpc)}
    <3>1. \/ config'[c].grpc = config[c].grpc
          \/ config'[c].grpc = Listen(config[c].grpc)
      BY <2>3, ServeEffect DEF ConfigInv
    <3>2. QED
      BY <2>0, <3>1, ListenTwice
  <2>4. Read.grpc = file.grpc
    BY DEF Read
  <2>5. CASE UNCHANGED configVars
    BY <2>0, <2>5 DEF configVars
  <2>6. QED
    BY <2>0, <2>1, <2>2, <2>3, <2>4, <2>5 DEF ConfigNext, AddressInv
<1>3. ASSUME NEW c \in Configs, state'[c] = "served"
      PROVE  /\ config'[c].grpc = Listen(file.grpc)
             /\ server'[c].dialed = config'[c].grpc
             /\ server'[c].bound = Bound(config'[c].grpc)
  <2>1. CASE Serve(c)
    <3>1. config'[c].grpc = Listen(config[c].grpc)
      BY <2>1, ServeEffect DEF ConfigInv
    <3>2. /\ server'[c].dialed = Listen(config[c].grpc)
          /\ server'[c].bound = Bound(Listen(config[c].grpc))
      BY <2>1 DEF Serve, ConfigInv, ConfigTypeOK
    <3>3. QED
      BY <3>1, <3>2, ListenTwice DEF AddressInv
  <2>2. CASE /\ state[c] = "served"
             /\ server'[c] = server[c] /\ config'[c] = config[c]
    BY <2>2 DEF AddressInv, Serving
  <2>3. QED
    BY <1>3, <2>1, <2>2, ServedStable
<1>4. QED
  BY <1>1, <1>2, <1>3 DEF AddressInv, Serving

LEMMA AddressesAgree == ConfigInv /\ AddressInv => GatewayReachesServer
<1> SUFFICES ASSUME ConfigInv, AddressInv, NEW c \in Serving
             PROVE  /\ \/ server[c].dialed = server[c].bound
                       \/ config[c].grpc.host # "" /\ config[c].grpc.port = 0
                    /\ file.grpc.port # 0 => server[c].dialed = file.grpc
  BY DEF GatewayReachesServer
<1>1. file.grpc \in ListenAddresses
  BY ConfigAssumption DEF ConfigInv, ConfigTypeOK
<1>2. /\ config[c].grpc = Listen(file.grpc)
      /\ server[c].dialed = config[c].grpc
      /\ server[c].bound = Bound(config[c].grpc)
  BY DEF AddressInv
<1>3. CASE file.grpc = ZeroListen
  <2>1. Bound(DefaultGRPC) = DefaultGRPC
    BY DefaultAddress DEF Bound
  <2>2. ZeroListen.port = 0
    BY DEF ZeroListen
  <2>3. file.grpc.port = 0
    BY <1>3, <2>2
  <2>4. QED
    BY <1>2, <1>3, <2>1, <2>3 DEF Listen
<1>4. CASE file.grpc # ZeroListen
  <2>1. file.grpc.host # "" \/ file.grpc.port # 0
    BY <1>1, <1>4 DEF ListenAddresses, ZeroListen
  <2>2. /\ config[c].grpc = file.grpc /\ server[c].dialed = file.grpc
        /\ server[c].bound = Bound(file.grpc)
    BY <1>2, <1>4 DEF Listen
  <2>3. file.grpc.port # 0 => Bound(file.grpc) = file.grpc
    BY DEF Bound
  <2>4. CASE file.grpc.port # 0
    BY <2>2, <2>3, <2>4
  <2>5. CASE file.grpc.port = 0
    <3>1. file.grpc.host # ""
      BY <2>1, <2>5
    <3>2. config[c].grpc = file.grpc
      BY <2>2
    <3>3. config[c].grpc.host # ""
      BY <3>1, <3>2
    <3>4. config[c].grpc.port = 0
      BY <2>5, <3>2
    <3>5. QED
      BY <2>5, <3>3, <3>4
  <2>6. QED
    BY <2>4, <2>5
<1>5. QED
  BY <1>3, <1>4

\* The gateway of a server dials the address that the server listens on, unless
\* the system chooses its port (NewServer, Register).
THEOREM GatewayDialsServer == ConfigSpec => []GatewayReachesServer
<1>1. ConfigInit => AddressInv
  BY DEF ConfigInit, AddressInv, Serving, Read
<1>2. QED
  BY <1>1, ConfigInvariant, AddressStep, AddressesAgree, PTL DEF ConfigSpec

-----------------------------------------------------------------------------
(* Paths                                                                   *)

Chars == STRING \cup {"/"}

LEMMA SlashType ==
  /\ Slash \in Seq(Chars) /\ Len(Slash) = 1 /\ Slash[1] = "/"
BY DEF Slash, Chars

\* A slash in front of a path, and one behind it.
LEMMA SlashFirst ==
  ASSUME NEW path \in Seq(Chars)
  PROVE  /\ Slash \o path \in Seq(Chars)
         /\ Len(Slash \o path) = Len(path) + 1
         /\ (Slash \o path)[1] = "/"
         /\ \A i \in 1 .. Len(path) : (Slash \o path)[i + 1] = path[i]
<1>1. /\ Slash \o path \in Seq(Chars)
      /\ Len(Slash \o path) = Len(Slash) + Len(path)
      /\ \A i \in 1 .. Len(Slash) + Len(path) :
           (Slash \o path)[i] = IF i <= Len(Slash) THEN Slash[i]
                                                  ELSE path[i - Len(Slash)]
  BY SlashType, ConcatProperties
<1>2. Len(path) \in Nat
  BY LenProperties
<1>3. QED
  BY <1>1, <1>2, SlashType

LEMMA SlashLast ==
  ASSUME NEW path \in Seq(Chars)
  PROVE  /\ path \o Slash \in Seq(Chars)
         /\ Len(path \o Slash) = Len(path) + 1
         /\ (path \o Slash)[Len(path) + 1] = "/"
         /\ \A i \in 1 .. Len(path) : (path \o Slash)[i] = path[i]
<1>1. /\ path \o Slash \in Seq(Chars)
      /\ Len(path \o Slash) = Len(path) + Len(Slash)
      /\ \A i \in 1 .. Len(path) + Len(Slash) :
           (path \o Slash)[i] = IF i <= Len(path) THEN path[i]
                                                  ELSE Slash[i - Len(path)]
  BY SlashType, ConcatProperties
<1>2. Len(path) \in Nat
  BY LenProperties
<1>3. QED
  BY <1>1, <1>2, SlashType

LEMMA Part ==
  ASSUME NEW path \in Seq(Chars), NEW m \in 1 .. Len(path) + 1,
         NEW n \in m - 1 .. Len(path)
  PROVE  /\ SubSeq(path, m, n) \in Seq(Chars)
         /\ Len(SubSeq(path, m, n)) = n - m + 1
         /\ \A i \in 1 .. n - m + 1 : SubSeq(path, m, n)[i] = path[m + i - 1]
<1>1. Len(path) \in Nat
  BY LenProperties
<1>2. \A i \in m .. n : path[i] \in Chars
  BY <1>1, ElementOfSeq
<1>3. m \in Int /\ n \in Int /\ (m <= n \/ n - m + 1 = 0)
  BY <1>1
<1>4. /\ SubSeq(path, m, n) \in Seq(Chars)
      /\ Len(SubSeq(path, m, n)) = IF m <= n THEN n - m + 1 ELSE 0
      /\ \A i \in 1 .. n - m + 1 : SubSeq(path, m, n)[i] = path[m + i - 1]
  BY <1>2, <1>3, SubSeqProperties
<1>5. QED
  BY <1>3, <1>4

LEMMA Front ==
  ASSUME NEW path \in Seq(Chars), Len(path) # 0
  PROVE  /\ SubSeq(path, 1, Len(path) - 1) \in Seq(Chars)
         /\ Len(SubSeq(path, 1, Len(path) - 1)) = Len(path) - 1
         /\ \A i \in 1 .. Len(path) - 1 :
              SubSeq(path, 1, Len(path) - 1)[i] = path[i]
<1> DEFINE k == Len(path) - 1
<1>1. k \in 1 - 1 .. Len(path) /\ k \in Nat /\ 1 \in 1 .. Len(path) + 1
  BY LenProperties
<1> HIDE DEF k
<1>2. /\ SubSeq(path, 1, k) \in Seq(Chars)
      /\ Len(SubSeq(path, 1, k)) = k - 1 + 1
      /\ \A i \in 1 .. k - 1 + 1 : SubSeq(path, 1, k)[i] = path[1 + i - 1]
  BY <1>1, Part
<1>3. /\ SubSeq(path, 1, k) \in Seq(Chars)
      /\ Len(SubSeq(path, 1, k)) = k
      /\ \A i \in 1 .. k : SubSeq(path, 1, k)[i] = path[i]
  BY <1>1, <1>2
<1>4. QED
  BY <1>3 DEF k

\* The base path with a slash in front.
Rooted(path) == IF path[1] # "/" THEN Slash \o path ELSE path

LEMMA RootedPath ==
  ASSUME NEW base \in Seq(Chars), base # <<>>
  PROVE  /\ Rooted(base) \in Seq(Chars)
         /\ Rooted(base)[1] = "/" /\ Len(Rooted(base)) \in Nat \ {0}
         /\ NormalizeBasePath(base) =
              IF Rooted(base)[Len(Rooted(base))] = "/"
              THEN SubSeq(Rooted(base), 1, Len(Rooted(base)) - 1)
              ELSE Rooted(base)
         /\ Clean(Rooted(base)) <=> Clean(base)
<1>1. Len(base) \in Nat \ {0}
  BY EmptySeq
<1>2. CASE base[1] = "/"
  BY <1>1, <1>2 DEF Rooted, NormalizeBasePath
<1>3. CASE base[1] # "/"
  <2>1. Rooted(base) = Slash \o base
    BY <1>3 DEF Rooted
  <2>2. Clean(Rooted(base)) => Clean(base)
    <3> SUFFICES ASSUME Clean(Rooted(base)), NEW i \in 1 .. Len(base) - 1,
                        base[i] = "/", base[i + 1] = "/"
                 PROVE  FALSE
      BY DEF Clean
    <3>1. Rooted(base)[i + 1] = "/" /\ Rooted(base)[i + 2] = "/"
      BY <1>1, <2>1, SlashFirst
    <3>2. i + 1 \in 1 .. Len(Rooted(base)) - 1
      BY <1>1, <2>1, SlashFirst
    <3>3. QED
      BY <3>1, <3>2 DEF Clean
  <2>3. Clean(base) => Clean(Rooted(base))
    <3> SUFFICES ASSUME Clean(base), NEW i \in 1 .. Len(base),
                        Rooted(base)[i] = "/", Rooted(base)[i + 1] = "/"
                 PROVE  FALSE
      BY <1>1, <2>1, SlashFirst DEF Clean
    <3>1. base[i] = "/"
      BY <2>1, SlashFirst
    <3>2. i - 1 \in 1 .. Len(base) - 1
      BY <1>1, <1>3, <3>1
    <3>3. base[i - 1] = "/"
      <4>1. Rooted(base)[(i - 1) + 1] = base[i - 1]
        BY <2>1, <3>2, SlashFirst
      <4>2. QED
        BY <3>2, <4>1
    <3>4. QED
      BY <3>1, <3>2, <3>3 DEF Clean
  <2>4. QED
    BY <1>1, <1>3, <2>1, <2>2, <2>3, SlashFirst DEF NormalizeBasePath
<1>4. QED
  BY <1>2, <1>3

LEMMA CleanPrefix ==
  ASSUME NEW p, Len(p) \in Nat, NEW q, Len(q) \in Nat, IsPrefix(q, p), Clean(p)
  PROVE  Clean(q)
<1> SUFFICES ASSUME NEW i \in 1 .. Len(q) - 1, q[i] = "/", q[i + 1] = "/"
             PROVE  FALSE
  BY DEF Clean
<1>1. i \in 1 .. Len(p) - 1 /\ p[i] = q[i] /\ p[i + 1] = q[i + 1]
  BY DEF IsPrefix
<1>2. QED
  BY <1>1 DEF Clean

\* The pattern of the gateway is as clean as the base path.
LEMMA CleanPattern ==
  ASSUME NEW base \in Seq(Chars)
  PROVE  /\ NormalizeBasePath(base) \in Seq(Chars)
         /\ Clean(NormalizeBasePath(base) \o Slash) => Clean(base)
<1> DEFINE r == Rooted(base)
           n == NormalizeBasePath(base)
<1>1. CASE base = <<>>
  BY <1>1, EmptySeq DEF NormalizeBasePath, Clean
<1>2. CASE base # <<>>
  <2>1. /\ r \in Seq(Chars) /\ r[1] = "/" /\ Len(r) \in Nat \ {0}
        /\ n = IF r[Len(r)] = "/" THEN SubSeq(r, 1, Len(r) - 1) ELSE r
        /\ Clean(r) => Clean(base)
    BY <1>2, RootedPath
  <2> HIDE DEF r, n
  <2>2. CASE r[Len(r)] # "/"
    <3>1. n = r
      BY <2>1, <2>2
    <3>2. IsPrefix(r, n \o Slash) /\ Len(n \o Slash) \in Nat
      BY <2>1, <3>1, SlashLast DEF IsPrefix
    <3>3. Clean(n \o Slash) => Clean(r)
      BY <2>1, <3>2, CleanPrefix
    <3>4. QED
      BY <2>1, <3>1, <3>3 DEF n
  <2>3. CASE r[Len(r)] = "/"
    <3>1. /\ n \in Seq(Chars) /\ Len(n) = Len(r) - 1
          /\ \A i \in 1 .. Len(r) - 1 : n[i] = r[i]
      BY <2>1, <2>3, Front
    <3>2. /\ Len(n \o Slash) = Len(r)
          /\ \A i \in 1 .. Len(r) : (n \o Slash)[i] = r[i]
      BY <2>1, <2>3, <3>1, SlashLast
    <3>3. IsPrefix(r, n \o Slash) /\ Len(n \o Slash) \in Nat
      BY <2>1, <3>2 DEF IsPrefix
    <3>4. Clean(n \o Slash) => Clean(r)
      BY <2>1, <3>3, CleanPrefix
    <3>5. QED
      BY <2>1, <3>1, <3>4 DEF n
  <2>4. QED
    BY <2>2, <2>3
<1>3. QED
  BY <1>1, <1>2

\* NormalizeBasePath drops what Inner drops, and no more.
LEMMA CleanNormal ==
  ASSUME NEW base \in Seq(Chars), Clean(base)
  PROVE  NormalizeBasePath(base) = Root(base)
<1> DEFINE k == Len(base)
           a == IF base # <<>> /\ base[1] = "/" THEN 2 ELSE 1
           b == IF base # <<>> /\ base[k] = "/" THEN k - 1 ELSE k
           r == Rooted(base)
           n == NormalizeBasePath(base)
<1>1. Inner(base) = SubSeq(base, a, b)
  BY DEF Inner
<1>2. k \in Nat /\ (base # <<>> => k # 0)
  BY EmptySeq, LenProperties
<1>3. CASE base = <<>>
  <2>1. Inner(base) = <<>>
    BY <1>1, <1>2, <1>3, EmptySeq, SubSeqEmpty
  <2>2. QED
    BY <1>3, <2>1 DEF Root, NormalizeBasePath
<1>4. CASE base # <<>> /\ k = 1 /\ base[1] = "/"
  <2>1. Inner(base) = <<>>
    BY <1>1, <1>4, SubSeqEmpty
  <2>2. n = SubSeq(base, 1, k - 1)
    BY <1>4 DEF NormalizeBasePath
  <2>3. SubSeq(base, 1, 0) = <<>>
    BY SubSeqEmpty
  <2>4. n = <<>>
    BY <1>4, <2>2, <2>3
  <2>5. QED
    BY <2>1, <2>4 DEF Root
<1>5. CASE base # <<>> /\ ~(k = 1 /\ base[1] = "/")
  <2>1. /\ k \in Nat \ {0}
        /\ a = IF base[1] = "/" THEN 2 ELSE 1
        /\ b = IF base[k] = "/" THEN k - 1 ELSE k
    BY <1>2, <1>5
  <2>2. a \in 1 .. 2 /\ b \in Nat /\ a <= b /\ b <= k
    <3> HIDE DEF a, b
    <3>1. ~(k = 1 /\ base[1] = "/")
      BY <1>5
    <3>2. ~(k = 2 /\ base[1] = "/" /\ base[2] = "/")
      BY DEF Clean
    <3> HIDE DEF k
    <3>3. CASE k = 1
      BY <2>1, <3>1, <3>3
    <3>4. CASE k = 2
      BY <2>1, <3>2, <3>4
    <3>5. CASE k > 2
      BY <2>1, <3>5
    <3>6. QED
      BY <2>1, <3>3, <3>4, <3>5
  <2>3. /\ r \in Seq(Chars) /\ r[1] = "/"
        /\ Len(r) = k + 2 - a
        /\ \A i \in 1 .. k : r[i + 2 - a] = base[i]
    <3>1. CASE base[1] = "/"
      BY <1>2, <1>5, <3>1 DEF Rooted
    <3>2. CASE base[1] # "/"
      BY <1>2, <1>5, <3>2, SlashFirst DEF Rooted
    <3>3. QED
      BY <3>1, <3>2
  <2>4. n = IF r[Len(r)] = "/" THEN SubSeq(r, 1, Len(r) - 1) ELSE r
    BY <1>5, RootedPath
  <2>5. /\ b = IF base[k] = "/" THEN k - 1 ELSE k
        /\ r[k + 2 - a] = base[k]
    BY <1>2, <1>5, <2>3
  <2> HIDE DEF a, b, r, n
  <2>6. /\ n \in Seq(Chars) /\ Len(n) = b + 2 - a
        /\ \A i \in 1 .. b + 2 - a : n[i] = r[i]
    <3>1. CASE base[k] = "/"
      <4>1. Len(r) # 0 /\ Len(r) - 1 = b + 2 - a /\ n = SubSeq(r, 1, Len(r) - 1)
        BY <1>2, <2>2, <2>3, <2>4, <2>5, <3>1
      <4>2. QED
        BY <2>3, <4>1, Front
    <3>2. CASE base[k] # "/"
      BY <2>3, <2>4, <2>5, <3>2
    <3>3. QED
      BY <3>1, <3>2
  <2>7. /\ Inner(base) \in Seq(Chars) /\ Len(Inner(base)) = b - a + 1
        /\ \A i \in 1 .. b - a + 1 : Inner(base)[i] = base[a + i - 1]
    <3>1. a \in 1 .. k + 1 /\ b \in a - 1 .. k
      BY <1>2, <2>2
    <3>2. QED
      BY <1>1, <3>1, Part
  <2>8. Inner(base) # <<>>
    BY <2>2, <2>7, EmptySeq
  <2>9. /\ Root(base) \in Seq(Chars) /\ Len(Root(base)) = b - a + 2
        /\ Root(base)[1] = "/"
        /\ \A i \in 1 .. b - a + 1 : Root(base)[i + 1] = base[a + i - 1]
    <3>1. Root(base) = Slash \o Inner(base)
      BY <2>8 DEF Root
    <3>2. /\ Root(base) \in Seq(Chars)
          /\ Len(Root(base)) = Len(Inner(base)) + 1 /\ Root(base)[1] = "/"
          /\ \A i \in 1 .. Len(Inner(base)) : Root(base)[i + 1] = Inner(base)[i]
      BY <2>7, <3>1, SlashFirst
    <3>3. Len(Inner(base)) = b - a + 1 /\ Len(Root(base)) = b - a + 2
      BY <2>2, <2>7, <3>2
    <3>4. ASSUME NEW i \in 1 .. b - a + 1
          PROVE  Root(base)[i + 1] = base[a + i - 1]
      <4>1. Inner(base)[i] = base[a + i - 1]
        BY <2>7
      <4>2. Root(base)[i + 1] = Inner(base)[i]
        BY <3>2, <3>3
      <4>3. QED
        BY <4>1, <4>2
    <3>5. QED
      BY <3>2, <3>3, <3>4
  <2>10. ASSUME NEW i \in 1 .. Len(n) PROVE n[i] = Root(base)[i]
    <3>1. i \in 1 .. b - a + 2 /\ n[i] = r[i]
      BY <2>2, <2>6, <2>10
    <3>2. CASE i = 1
      BY <2>3, <2>9, <3>1, <3>2
    <3>3. CASE i # 1
      <4>1. /\ i - 1 \in 1 .. b - a + 1
            /\ i - 2 + a \in 1 .. k
        BY <1>2, <2>2, <3>1, <3>3
      <4>2. Root(base)[(i - 1) + 1] = base[a + (i - 1) - 1]
        BY <2>9, <4>1
      <4>3. r[(i - 2 + a) + 2 - a] = base[i - 2 + a]
        BY <2>3, <4>1
      <4>4. (i - 1) + 1 = i /\ a + (i - 1) - 1 = i - 2 + a /\ (i - 2 + a) + 2 - a = i
        BY <2>2, <3>1
      <4>5. QED
        BY <3>1, <4>2, <4>3, <4>4
    <3>4. QED
      BY <3>2, <3>3
  <2>11. Len(n) = Len(Root(base))
    BY <2>2, <2>6, <2>9
  <2>12. QED
    BY <2>6, <2>9, <2>10, <2>11, SeqEqual DEF n
<1>6. QED
  BY <1>3, <1>4, <1>5

\* What a base path with a slash routes, and what is left of it.
LEMMA BelowPrefix ==
  ASSUME NEW q \in Seq(Chars), NEW p \in Seq(Chars)
  PROVE  /\ IsPrefix(q \o Slash, p) <=>
              /\ IsPrefix(q, p) /\ Len(p) > Len(q) /\ p[Len(q) + 1] = "/"
         /\ IsPrefix(q \o Slash, p) =>
              /\ p = q \o TrimPrefix(p, q)
              /\ TrimPrefix(p, q)[1] = "/"
<1> DEFINE k == Len(q)
           l == Len(p)
           rest == SubSeq(p, k + 1, l)
<1>1. k \in Nat /\ l \in Nat
  BY LenProperties
<1>2. /\ Len(q \o Slash) = k + 1 /\ (q \o Slash)[k + 1] = "/"
      /\ \A i \in 1 .. k : (q \o Slash)[i] = q[i]
  BY SlashLast
<1>3. IsPrefix(q \o Slash, p) => IsPrefix(q, p) /\ l > k /\ p[k + 1] = "/"
  <2> SUFFICES ASSUME IsPrefix(q \o Slash, p)
               PROVE  IsPrefix(q, p) /\ l > k /\ p[k + 1] = "/"
    OBVIOUS
  <2>1. /\ k + 1 <= l
        /\ \A i \in 1 .. k + 1 : (q \o Slash)[i] = p[i]
    BY <1>2 DEF IsPrefix
  <2>2. \A i \in 1 .. k : q[i] = p[i]
    BY <1>1, <1>2, <2>1
  <2>3. p[k + 1] = "/"
    BY <1>1, <1>2, <2>1
  <2>4. QED
    BY <1>1, <2>1, <2>2, <2>3 DEF IsPrefix
<1>4. IsPrefix(q, p) /\ l > k /\ p[k + 1] = "/" => IsPrefix(q \o Slash, p)
  <2> SUFFICES ASSUME IsPrefix(q, p), l > k, p[k + 1] = "/"
               PROVE  IsPrefix(q \o Slash, p)
    OBVIOUS
  <2>1. \A i \in 1 .. k : q[i] = p[i]
    BY DEF IsPrefix
  <2>2. \A i \in 1 .. k + 1 : (q \o Slash)[i] = p[i]
    BY <1>1, <1>2, <2>1
  <2>3. QED
    BY <1>1, <1>2, <2>2 DEF IsPrefix
<1>5. ASSUME IsPrefix(q, p), l > k, p[k + 1] = "/"
      PROVE  /\ p = q \o TrimPrefix(p, q)
             /\ TrimPrefix(p, q)[1] = "/"
  <2>1. TrimPrefix(p, q) = rest
    BY <1>5 DEF TrimPrefix
  <2>2. /\ rest \in Seq(Chars) /\ Len(rest) = l - k
        /\ \A i \in 1 .. l - k : rest[i] = p[k + i]
    <3>1. k + 1 \in 1 .. l + 1 /\ l \in (k + 1) - 1 .. l
      BY <1>1, <1>5
    <3>2. /\ rest \in Seq(Chars) /\ Len(rest) = l - (k + 1) + 1
          /\ \A i \in 1 .. l - (k + 1) + 1 : rest[i] = p[(k + 1) + i - 1]
      BY <3>1, Part
    <3> HIDE DEF rest
    <3>3. QED
      BY <1>1, <1>5, <3>2
  <2> HIDE DEF rest
  <2>3. /\ q \o rest \in Seq(Chars) /\ Len(q \o rest) = l
        /\ \A i \in 1 .. l : (q \o rest)[i] = IF i <= k THEN q[i] ELSE rest[i - k]
    BY <1>1, <1>5, <2>2, ConcatProperties
  <2>4. \A i \in 1 .. l : p[i] = (q \o rest)[i]
    BY <1>1, <1>5, <2>2, <2>3 DEF IsPrefix
  <2>5. p = q \o rest
    BY <2>3, <2>4, SeqEqual
  <2>6. rest[1] = "/"
    BY <1>1, <1>5, <2>2
  <2>7. QED
    BY <2>1, <2>5, <2>6
<1>6. QED
  BY <1>3, <1>4, <1>5

\* The gateway of a server is at the base path of its config.
PathInv ==
  \A c \in Configs :
    /\ config[c].basePath \in BasePaths
    /\ c \in Serving =>
         server[c].basePath = NormalizeBasePath(config[c].basePath)

LEMMA PathStep ==
  ConfigInv /\ PathInv /\ [ConfigNext]_configVars => PathInv'
<1> SUFFICES ASSUME ConfigInv, PathInv, [ConfigNext]_configVars, NEW c \in Configs
             PROVE  /\ config'[c].basePath \in BasePaths
                    /\ state'[c] = "served" =>
                         server'[c].basePath =
                           NormalizeBasePath(config'[c].basePath)
  BY DEF PathInv, Serving
<1>1. config'[c].basePath \in BasePaths
  BY ConfigStep DEF ConfigInv, ConfigTypeOK, Fields
<1>2. ASSUME state'[c] = "served"
      PROVE  server'[c].basePath = NormalizeBasePath(config'[c].basePath)
  <2>1. CASE Serve(c)
    <3>1. server'[c].basePath = NormalizeBasePath(config[c].basePath)
      BY <2>1 DEF Serve, ConfigInv, ConfigTypeOK
    <3>2. config'[c].basePath = config[c].basePath
      BY <2>1, ServeEffect DEF ConfigInv
    <3>3. QED
      BY <3>1, <3>2
  <2>2. CASE /\ state[c] = "served"
             /\ server'[c] = server[c] /\ config'[c] = config[c]
    BY <2>2 DEF PathInv, Serving
  <2>3. QED
    BY <1>2, <2>1, <2>2, ServedStable
<1>3. QED
  BY <1>1, <1>2

LEMMA PathsRouted == PathInv => PathsBelowBase
<1> SUFFICES ASSUME PathInv, NEW c \in Serving, NEW p \in Paths, Clean(p),
                    NEW base, base = config[c].basePath
             PROVE  /\ Routed(c, p) <=>
                         /\ Clean(base) /\ IsPrefix(Root(base), p)
                         /\ Len(p) > Len(Root(base))
                         /\ p[Len(Root(base)) + 1] = "/"
                    /\ Routed(c, p) =>
                         /\ p = Root(base) \o Stripped(c, p)
                         /\ Stripped(c, p)[1] = "/"
  BY DEF PathsBelowBase
<1> DEFINE n == NormalizeBasePath(base)
<1>1. /\ base \in BasePaths
      /\ server[c].basePath = n
  BY DEF PathInv, Serving
<1>2. base \in Seq(Chars) /\ p \in Seq(Chars)
  <2>1. base \in Seq(STRING) /\ p \in Seq(STRING)
    BY <1>1, ConfigAssumption
  <2>2. STRING \subseteq Chars
    BY DEF Chars
  <2>3. QED
    BY <2>1, <2>2, SeqMonotonic
<1>3. /\ n \in Seq(Chars)
      /\ Clean(n \o Slash) => Clean(base)
      /\ Clean(base) => n = Root(base)
  BY <1>2, CleanPattern, CleanNormal
<1>4. /\ Routed(c, p) <=> IsPrefix(n \o Slash, p)
      /\ Stripped(c, p) = TrimPrefix(p, n)
  BY <1>1 DEF Routed, Stripped
<1> HIDE DEF n
<1>5. Len(n \o Slash) \in Nat /\ Len(p) \in Nat
  BY <1>2, <1>3, SlashLast, LenProperties
<1>6. IsPrefix(n \o Slash, p) => Clean(n \o Slash)
  BY <1>5, CleanPrefix
<1>7. CASE Clean(base)
  <2>1. n = Root(base)
    BY <1>3, <1>7
  <2>2. /\ IsPrefix(n \o Slash, p) <=>
             /\ IsPrefix(n, p) /\ Len(p) > Len(n) /\ p[Len(n) + 1] = "/"
        /\ IsPrefix(n \o Slash, p) =>
             /\ p = n \o TrimPrefix(p, n) /\ TrimPrefix(p, n)[1] = "/"
    BY <1>2, <1>3, BelowPrefix
  <2>3. QED
    BY <1>4, <1>7, <2>1, <2>2
<1>8. CASE ~Clean(base)
  BY <1>3, <1>4, <1>6, <1>8
<1>9. QED
  BY <1>7, <1>8

\* The gateway of a server has the requests below the base path, and only
\* those, with the rest of their path (normalizeBasePath, stripBasePath).
THEOREM RequestsBelowBase == ConfigSpec => []PathsBelowBase
<1>1. ConfigInit => PathInv
  <2> SUFFICES ASSUME ConfigInit PROVE PathInv
    OBVIOUS
  <2>1. \A c \in Configs : config[c].basePath = file.basePath
    BY DEF ConfigInit, Read
  <2>2. QED
    BY <2>1 DEF ConfigInit, PathInv, Serving
<1>2. QED
  BY <1>1, ConfigInvariant, PathStep, PathsRouted, PTL DEF ConfigSpec
=============================================================================
