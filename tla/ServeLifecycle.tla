--------------------------- MODULE ServeLifecycle ---------------------------
(***************************************************************************)
(* The life of a service: pkg/server/serve.go (Serve) and                  *)
(* pkg/server/grpcserver/server.go (Register, Serve).                      *)
(*                                                                         *)
(* The main goroutine registers the services, starts one goroutine for the *)
(* gRPC server and one for the HTTP gateway, waits for a signal or for an  *)
(* error of either server, then runs its deferred calls, last first: the   *)
(* gateway is shut down, the gRPC server is stopped gracefully, telemetry  *)
(* is flushed.  After an error klog.Fatalf ends the process before that    *)
(* last call.  Around it: the OS (signals), the caller of Serve (who may   *)
(* cancel ctx) and clients.                                                *)
(*                                                                         *)
(* A gateway request comes in over HTTP and is turned into an RPC to the   *)
(* gRPC server of the same process.  Over HTTP/1 the http.Server knows its *)
(* connection; over h2c the connection is hijacked and http.Server.Shutdown*)
(* ignores it.  net/http, grpc-go, h2c and os/signal are external: they    *)
(* are modelled as far as Serve depends on them.                           *)
(***************************************************************************)
EXTENDS FiniteSets, Naturals

CONSTANTS
  Direct,    \* RPCs sent to the gRPC port
  Gateway,   \* requests sent to the HTTP port over HTTP/1
  Hijacked   \* requests sent to the HTTP port over h2c

ASSUME RequestAssumption ==
  /\ Direct \cap Gateway = {}
  /\ Direct \cap Hijacked = {}
  /\ Gateway \cap Hijacked = {}

VARIABLES
  main,       \* where Serve is; a server's name while Serve stops it
  go,         \* where the goroutine of each server is
  srv,        \* state of each server object
  stop,       \* signals in channel stop
  result,     \* why the select was left
  signalled,  \* history: the process got a signal since signal.Notify
  cancelled,  \* ctx of Serve is cancelled
  flushed,    \* shutdownKyberTrace has run
  req         \* state of each request

serveVars == <<main, go, srv, stop, result, flushed>>
vars == <<serveVars, signalled, cancelled, req>>

Servers  == {"grpc", "http"}
Requests == Direct \cup Gateway \cup Hijacked

StopCap == 1    \* capacity of channel stop

\* Requests whose HTTP/1 connection is active.
ActiveConns ==
  {r \in Gateway : req[r] \in {"accepted", "handling", "cut", "failed",
                               "replied"}}
Handling == {r \in Requests : req[r] = "handling"}

Init ==
  /\ main = "register"
  /\ go  = [s \in Servers |-> "idle"]
  /\ srv = [s \in Servers |-> "new"]
  /\ stop = 0
  /\ result = "none"
  /\ signalled = FALSE /\ cancelled = FALSE /\ flushed = FALSE
  /\ req = [r \in Requests |-> "new"]

-----------------------------------------------------------------------------
(* The main goroutine                                                      *)

Register ==
  /\ main = "register"
  /\ main' = "notified"
  /\ UNCHANGED <<go, srv, stop, result, flushed, signalled, cancelled, req>>

\* A gateway handler cannot be registered: klog.Fatalf ends the process.
RegisterFails ==
  /\ main = "register"
  /\ main' = "exited"
  /\ result' = "error"
  /\ UNCHANGED <<go, srv, stop, flushed, signalled, cancelled, req>>

StartServers ==
  /\ main = "notified"
  /\ main' = "select"
  /\ go' = [s \in Servers |-> "start"]
  /\ UNCHANGED <<srv, stop, result, flushed, signalled, cancelled, req>>

\* Mutant: the two deferred calls are swapped.
GrpcBeforeHttp ==
  [select |-> "grpc", grpc |-> "http", http |-> "returned"]

\* The deferred calls run last in, first out.
NextDeferred ==
  [select |-> "http", http |-> "grpc", grpc |-> "returned"]

\* Shutdown or GracefulStop begins: a server with no listener has nothing to
\* drain, and one that has not started yet will refuse to start.
BeginStop(s) == IF srv[s] = "up" THEN "draining" ELSE "down"

RunDeferred(from, stopped) ==
  LET to == NextDeferred[from] IN
  /\ main' = to
  /\ srv' = IF to \in Servers THEN [stopped EXCEPT ![to] = BeginStop(to)]
                              ELSE stopped

ReceiveSignal ==
  /\ main = "select"
  /\ stop > 0
  /\ stop' = stop - 1
  /\ result' = "signal"
  /\ RunDeferred("select", srv)
  /\ UNCHANGED <<go, flushed, signalled, cancelled, req>>

\* errCh has no buffer: the sender goes on when main receives.
ReceiveError(s) ==
  /\ main = "select"
  /\ go[s] = "sending"
  /\ go' = [go EXCEPT ![s] = "done"]
  /\ result' = "error"
  /\ RunDeferred("select", srv)
  /\ UNCHANGED <<stop, flushed, signalled, cancelled, req>>

\* Mutant: Close and Stop instead of Shutdown and GracefulStop.
DrainedAtOnce(s) == s \in Servers

\* Shutdown(ctx) waits for the connections it knows, or for ctx;
\* GracefulStop waits for the RPCs, however long they take.
Drained(s) ==
  \/ srv[s] = "down"
  \/ s = "http" /\ (cancelled \/ ActiveConns = {})
  \/ s = "grpc" /\ Handling = {}

StopServer(s) ==
  /\ main = s
  /\ Drained(s)
  /\ RunDeferred(s, [srv EXCEPT ![s] = "down"])
  /\ UNCHANGED <<go, stop, result, flushed, signalled, cancelled, req>>

\* The deferred shutdownKyberTrace, with a context nobody cancels.
ShutdownKyberTrace ==
  /\ main = "returned"
  /\ result = "signal"
  /\ flushed' = TRUE
  /\ main' = "exited"
  /\ UNCHANGED <<go, srv, stop, result, signalled, cancelled, req>>

Fatalf ==
  /\ main = "returned"
  /\ result = "error"
  /\ main' = "exited"
  /\ UNCHANGED <<go, srv, stop, result, flushed, signalled, cancelled, req>>

Main ==
  \/ Register \/ RegisterFails \/ StartServers
  \/ ReceiveSignal \/ \E s \in Servers : ReceiveError(s) \/ StopServer(s)
  \/ ShutdownKyberTrace \/ Fatalf

-----------------------------------------------------------------------------
(* The goroutines of the servers                                           *)

Running == main # "exited"

\* Mutant: the goroutine returns without sending the error.
ListenFailsSilently(s) ==
  /\ Running
  /\ go[s] = "start"
  /\ go' = [go EXCEPT ![s] = "done"]
  /\ UNCHANGED <<main, srv, stop, result, flushed, signalled, cancelled, req>>

ListenFails(s) ==
  /\ Running
  /\ go[s] = "start"
  /\ go' = [go EXCEPT ![s] = "sending"]
  /\ UNCHANGED <<main, srv, stop, result, flushed, signalled, cancelled, req>>

\* A server that was stopped before it started: ErrServerClosed,
\* ErrServerStopped.
Listens(s) ==
  /\ Running
  /\ go[s] = "start"
  /\ IF srv[s] = "new"
       THEN /\ go'  = [go EXCEPT ![s] = "serving"]
            /\ srv' = [srv EXCEPT ![s] = "up"]
       ELSE /\ go'  = [go EXCEPT ![s] = "sending"]
            /\ UNCHANGED srv
  /\ UNCHANGED <<main, stop, result, flushed, signalled, cancelled, req>>

\* The listener breaks; the open connections are still served.
AcceptFails(s) ==
  /\ Running
  /\ go[s] = "serving"
  /\ go' = [go EXCEPT ![s] = "sending"]
  /\ UNCHANGED <<main, srv, stop, result, flushed, signalled, cancelled, req>>

\* ListenAndServe returns when Shutdown begins, grpc.Server.Serve when
\* GracefulStop has ended.  Nobody receives what they send any more.
ServeReturns(s) ==
  /\ Running
  /\ go[s] = "serving"
  /\ srv[s] \in IF s = "http" THEN {"draining", "down"} ELSE {"down"}
  /\ go' = [go EXCEPT ![s] = "sending"]
  /\ UNCHANGED <<main, srv, stop, result, flushed, signalled, cancelled, req>>

Server(s) ==
  \/ ListenFails(s) \/ Listens(s) \/ AcceptFails(s) \/ ServeReturns(s)

-----------------------------------------------------------------------------
(* Signals and ctx                                                         *)

\* Mutant: channel stop without a buffer; os/signal does not block to send.
NotifyUnbuffered ==
  /\ Running /\ main # "register"
  /\ signalled' = TRUE
  /\ IF main = "select"
       THEN stop' = 1
       ELSE UNCHANGED stop
  /\ UNCHANGED <<main, go, srv, result, flushed, cancelled, req>>

\* os/signal drops a signal that does not fit in the channel.  The handler
\* is never removed: a signal that comes while Serve stops changes nothing.
Notify ==
  /\ Running /\ main # "register"
  /\ signalled' = TRUE
  /\ stop' = IF stop < StopCap THEN stop + 1 ELSE stop
  /\ UNCHANGED <<main, go, srv, result, flushed, cancelled, req>>

CancelCtx ==
  /\ Running
  /\ cancelled' = TRUE
  /\ UNCHANGED <<serveVars, signalled, req>>

-----------------------------------------------------------------------------
(* Requests                                                                *)

To(r, state) ==
  /\ Running
  /\ req' = [req EXCEPT ![r] = state]
  /\ UNCHANGED <<serveVars, signalled, cancelled>>

\* An HTTP/1 request arrives on a new connection, or on an idle one that
\* Shutdown has not closed yet.
HttpAccept(r) ==
  /\ r \in Gateway
  /\ req[r] = "new"
  /\ srv["http"] \in {"up", "draining"}
  /\ To(r, "accepted")

\* The h2c connection is made while the gateway listens; its streams keep
\* coming until the process exits.
H2cConnect(r) ==
  /\ r \in Hijacked
  /\ req[r] = "new"
  /\ srv["http"] = "up"
  /\ To(r, "connected")

H2cAccept(r) ==
  /\ r \in Hijacked
  /\ req[r] = "connected"
  /\ To(r, "accepted")

\* A new RPC, from a client or from the gateway.  A connection that has not
\* seen the GOAWAY of GracefulStop may still start one.
RpcAccept(r) ==
  /\ req[r] = IF r \in Direct THEN "new" ELSE "accepted"
  /\ srv["grpc"] \in {"up", "draining"}
  /\ To(r, "handling")

\* The gateway's RPC is refused because the gRPC server is being stopped.
RpcCut(r) ==
  /\ req[r] = "accepted"
  /\ srv["grpc"] \in {"draining", "down"}
  /\ To(r, "cut")

\* The gRPC server does not listen yet, cannot, or no longer accepts.
RpcUnavailable(r) ==
  /\ req[r] = "accepted"
  /\ srv["grpc"] \in {"new", "up"}
  /\ go["grpc"] # "serving"
  /\ To(r, "failed")

HandlerReturns(r) ==
  /\ req[r] = "handling"
  /\ To(r, IF r \in Direct THEN "answered" ELSE "replied")

ResponseWritten(r) ==
  /\ req[r] \in {"cut", "failed", "replied"}
  /\ To(r, "answered")

Arrives(r)  == HttpAccept(r) \/ H2cConnect(r) \/ H2cAccept(r)
Proceeds(r) ==
  \/ RpcAccept(r) \/ RpcCut(r) \/ RpcUnavailable(r)
  \/ HandlerReturns(r) \/ ResponseWritten(r)

Next ==
  \/ Main
  \/ \E s \in Servers : Server(s)
  \/ Notify \/ CancelCtx
  \/ \E r \in Requests : Arrives(r) \/ Proceeds(r)
  \/ ~Running /\ UNCHANGED vars   \* the process has exited

SafeSpec == Init /\ [][Next]_vars

\* Goroutines run.  Handlers return and clients read their responses: Serve
\* sets no limit on either.  Nothing makes a client, the OS or the holder of
\* ctx act, nor a listener break.
Fairness ==
  /\ WF_vars(Main)
  /\ \A s \in Servers :
       WF_vars(Listens(s) \/ ListenFails(s)) /\ WF_vars(ServeReturns(s))
  /\ \A r \in Gateway \cup Hijacked : WF_vars(Proceeds(r))
  /\ \A r \in Direct : WF_vars(HandlerReturns(r))

Spec == SafeSpec /\ Fairness

-----------------------------------------------------------------------------
TypeOK ==
  /\ main \in {"register", "notified", "select", "http", "grpc", "returned",
               "exited"}
  /\ go \in [Servers -> {"idle", "start", "serving", "sending", "done"}]
  /\ srv \in [Servers -> {"new", "up", "draining", "down"}]
  /\ stop \in 0 .. StopCap
  /\ result \in {"none", "signal", "error"}
  /\ signalled \in BOOLEAN /\ cancelled \in BOOLEAN /\ flushed \in BOOLEAN
  /\ req \in [Requests -> {"new", "connected", "accepted", "handling", "cut",
                           "failed", "replied", "answered"}]

\* A request the gateway accepted over HTTP/1 is never refused by the gRPC
\* server because the process is stopping, unless ctx was cancelled.
GatewayNeverCut ==
  \A r \in Gateway : req[r] = "cut" => cancelled

\* The process never exits under a running RPC, and unless ctx was cancelled
\* every HTTP/1 request it accepted has its response.
ExitLosesNothing ==
  main = "exited" => /\ Handling = {}
                     /\ cancelled \/ ActiveConns = {}

\* A signal received once signal.Notify was called makes Serve return, even
\* if it comes before the select or together with an error.
SignalLeadsToExit == signalled ~> (main = "exited")

\* If one of the servers cannot serve, the process exits: it does not go on
\* with half of its servers.
ServerFailureLeadsToExit ==
  (\E s \in Servers : go[s] \in {"sending", "done"}) ~> (main = "exited")

\* The service, as its RPCs see it.
Graceful == INSTANCE GracefulService WITH
  phase   <- IF srv["grpc"] = "down" THEN "stopped"
             ELSE IF srv["grpc"] = "draining" THEN "stopping" ELSE "serving",
  running <- Handling

\* Every step of the process is a step of the graceful service or a stutter:
\* RPCs end before the service stops, and it stops before the flush.
GracefulSpec == Graceful!Spec

\* The strengthening under which the invariants above are inductive.
\* Order: what the place of main says about the servers and the goroutines.
Order ==
  /\ main \in {"register", "notified"} =>
       go = [s \in Servers |-> "idle"] /\ srv = [s \in Servers |-> "new"]
  /\ main = "select" =>
       srv \in [Servers -> {"new", "up"}]
  /\ main = "http" => /\ srv["http"] \in {"draining", "down"}
                      /\ srv["grpc"] \in {"new", "up"}
  /\ main = "grpc" => /\ srv["http"] = "down"
                      /\ srv["grpc"] \in {"draining", "down"}
  /\ main = "returned" => srv = [s \in Servers |-> "down"]
  /\ main = "exited" => \/ srv = [s \in Servers |-> "down"]
                        \/ srv = [s \in Servers |-> "new"]
  /\ flushed => srv["grpc"] = "down"

\* Served: requests are only in a server that is up or draining, but for the
\* connections a cancelled Shutdown left behind.
Served ==
  /\ \A r \in Handling : srv["grpc"] \in {"up", "draining"}
  /\ \A r \in ActiveConns : cancelled \/ srv["http"] \in {"up", "draining"}

IInv == TypeOK /\ Order /\ Served /\ GatewayNeverCut
=============================================================================
