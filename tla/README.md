# Service framework in TLA+

TLA+ models of the Go library in `src/` (KyberNetwork/service-framework): a
gRPC server with an HTTP gateway, and hot-reloaded clients for redis, Ethereum
nodes and gRPC services. The models are checked with TLC on small instances and
the main safety properties are proved with TLAPS for every value of the
constants.

## The system

| component | source (`src/pkg/...`) | state it keeps | operations | status |
|---|---|---|---|---|
| reconnectable redis client | `client/redis/reconnectable` | the wrapped client, `refreshInProgress`, `lastRefreshTime` | commands, hooks, `attemptRefreshClient`, promoted `Close` | modelled |
| server lifecycle | `server/serve.go`, `server/grpcserver/server.go` | two servers, channels `stop` and `errCh`, deferred calls | `Register`, `Serve`, signal, stop, flush, exit | modelled |
| hot-reloaded clients | `client/{redis,eth,eth_batchable,grpc}.go` | client of each config, close timers | `OnUpdate`, timers, `Close` | modelled |
| batched eth calls | `client/eth_batchable.go`, `client/backoff.go` | two batchers, running batches, the shared `BackOff` | `CallContract`, `Flush`, `batchCalls` | modelled but `Close` with tasks queued |
| server RPC chain | `server/serve.go`, `server/middleware/*` | none between RPCs but the response message | interceptors of one RPC | modelled but log lines of stream messages |
| gRPC client chain | `client/grpcclient` | the `Headers` map | `New`, interceptors of a call, `Close` | modelled but compression |
| redis scan pagination | `client/redis/{paginate,hscan}.go` | the cursor of a scan | `PaginateScanCmd`, the two Lua scripts | modelled |
| server config and paths | `server/grpcserver/{config,server}.go`, `server/opt.go` | the config and the arrays behind its lists | `Apply`, options, `NewServer`, `Register`, header matchers, base path | modelled but reflection and marshaler options |
| trace ids and telemetry | `common`, `server/serve.go`, `server/middleware/trace` | the trace of each RPC | extract, span, response header, calls to other services | modelled but `kmetric` |
| HTTP client config | `client/http.go` | none | `OnUpdate` and its hook on every request | the headers it adds |
| build and release | `.github`, `go.mod` | | | not part of the program |

How they interact. `server.Serve` builds the RPC chain and hands it to
`grpcserver.Server`, whose gateway dials the gRPC server of the same process.
A service's handlers use clients taken from hot-reloaded configs; `OnUpdate` of
a `RedisCfg` makes a reconnectable client and later closes it, which is the
owner's `Close` of the first component. `BatchableEthCfg` wraps an `EthCfg` and
puts batches on its client. A handler's ctx carries the trace: the HTTP and gRPC
clients put it into the headers of their requests, and the gateway, the
extractor and the trace interceptor of the next service take it out again.

What is hard here: goroutines that race for one atomic flag and one unguarded
pointer; deferred calls whose order matters; a timer that starts before the dial
it should follow; nil clients left by failed updates; one `BackOff` object
shared by concurrent batches; interceptors of which each sees an error, or a
panic, in the form it has at its place; a hash that changes while it is read;
copies of a config that share arrays and maps; ids that are valid in one form
and not in another. `PROJECT.json` lists each hazard at its
line with the properties that cover it.

What makes each component correct:

- reconnectable client: one refresh at a time and one per cooldown, no client
  dropped open, none closed in service except by its owner, a closed wrapper
  stays closed, refusals that keep coming are answered by a swap;
- lifecycle: a signal or a failed server ends the process; stopping drains the
  gateway before gRPC and gRPC before telemetry, and loses no request;
- hot-reloaded clients: the client in use stays open, the replaced one is
  closed, and a timer never ends the process;
- batches: every call gets its own answer once, from the right node, and
  returns; retries are the configured ones;
- RPC chain: answer, counter and log line tell the same story, a panic in a
  handler stays inside, no internal error text leaves a server in production,
  and a client finds its own request id;
- gRPC client: a call sends its own client's id whatever other clients do, is
  counted once, and returns if it has a timeout; a connection has the security
  that the options ask for;
- pagination: what stays in the hash is shown, nothing else is, and the scan ends;
- config: a server has the options its config was given, its gateway reaches it,
  and passes the headers and the paths it should;
- traces: every RPC is in a trace, that of its caller if the code can know it.

## Modules

| module | what it is |
|---|---|
| `ClientHandle` | what the redis wrapper promises its holder |
| `ReconnectableClient` | the wrapper, one action per read or write that can race |
| `ReconnectableClientProofs` | its theorems |
| `GracefulService` | what the server promises about RPCs and telemetry |
| `ServeLifecycle` | `Serve`, the two server goroutines, signals, requests |
| `HotClients` | `OnUpdate` of the four kinds of config, with its timers |
| `HotClientsProofs` | its theorems |
| `EthBatch` | `CallContract`, the batchers and `batchCalls` |
| `EthBatchProofs` | its theorems |
| `RpcChain` | the interceptors an RPC to the server goes through |
| `RpcChainProofs` | its theorems |
| `GrpcClient` | `New` with its options, and a call through the client |
| `GrpcClientProofs` | its theorems |
| `Pagination` | `PaginateScanCmd` over a redis hash |
| `PaginationProofs` | its theorems |
| `TracePropagation` | ids of a request and of the calls it leads to |
| `TracePropagationProofs` | its theorems |
| `ServerConfig` | configs derived from configs, and the servers made of them |
| `ServerProofs` | theorems about `ServeLifecycle` and `ServerConfig` |
| `MC*` | instances for TLC: values of constants and symmetry sets |

Definitions named as mutants in a comment are not part of a specification: each
is a plausible bug in place of one definition, and is there to show that a
property tells the difference.

### ReconnectableClient

`pc[g]` walks through `attemptRefreshClient` (lines 40-60): `refused` before the
`Load`, `cas` before the compare-and-swap, `check` before `canRefreshClient`,
`make` and `install` the two halves of `refreshClient`, `spawn` the `go`
statement, then the two deferred calls `stamp` and `release`. A caller reads the
embedded client when it issues a command and may be delayed at any point, which
covers the stale pointers the unsynchronised read can see. `closing` holds the
clients whose closer goroutine has not run. go-redis and the redis server are
external: a closed client refuses to dial with an error that does not trigger a
refresh, a dial that is under way ends with "connection refused" when the server
is down. Only the owner (the timer in `RedisCfg.OnUpdate`) closes the wrapper,
once, and reads the pointer before it closes.

What the runs show beyond the obvious: a refresh that begins before the owner's
`Close`, or a dial that was under way at that moment, can put a new client into
service that nobody will ever close. `CloseIsFinal` says what remains true: once
those dials are over the wrapper stays closed.

### ServeLifecycle

`main` is where the goroutine of `Serve` is; the names `http` and `grpc` stand
for the deferred `Shutdown` and `GracefulStop`. `go[s]` is the goroutine of a
server, with `sending` for one that waits to send to `errCh`. HTTP/1 requests
(`Gateway`) have a connection `Shutdown` waits for; h2c requests (`Hijacked`) do
not, because h2c hijacks it; `Direct` ones are RPCs from outside. net/http,
grpc-go, h2c and os/signal are external.

The properties say what is left of graceful stopping under each exception: `ctx`
cancelled (then `Shutdown` returns at once and gateway requests may be cut) and
h2c (then the process may exit with a response unwritten). RPCs that run are
always waited for, without a limit, and the flush comes after them; after an
error `klog.Fatalf` ends the process without the flush, which the model keeps.

### HotClients

A behaviour is about one kind of config. `BeginUpdate` arms the timer that closes
the old client, `EndUpdate` makes the new one and puts the config into force;
between the two any time may pass, since the dials have no deadline. Around an
`EthCfg`, `BatchableEthCfg` arms a second timer once the dial is over, with the
time at which the config comes into force. `dialed[c] = {}` is a nil client. What the runs show: the client in force can be closed when an update has
been dialing for `CloseDelay`, and users lose their client that much earlier
(`InForceStaysOpen` and `UsersUndisturbed` state the exact bound); a failed
`GrpcCfg` or `BatchableEthCfg` update makes the next update's timer panic
(`PanicOnlyAfterFailedUpdate`), and nothing else does.

The loader of configs is external: updates come one after the other and a config
is used once its `OnUpdate` has returned.

### EthBatch

Callers call without end, one call at a time, a new one once the task of the
last is resolved; a batch is named by its first caller. A caller whose ctx ended
has returned before that. `attempts`, which counts the requests of a batch, stops
when another batch overlaps it, so that the model stays finite. kutils' batcher is external: it may hand over any prefix of at most `BatchCnt` tasks at
any time, and batches of one batcher may run together. `NextBackOff` and
`CountTry` are the two halves of a counter update that nothing protects.
`RetriesWhenAlone` is about batches that no other batch overlaps; those that
overlap can take each other's retries or give each other new ones, which is what
the code does. `backoff.Retry` resets the counter and the elapsed time for all of
them, so that with steady calls to a dead node a batch can go on retrying and its
callers wait for ever. `EveryCallReturns` says that nothing else keeps a call
from returning: if from some time on no batch starts, all of them return.

A block is nil or a number. `ToBlockNumArg` names nil and three numbers below 0;
any other goes to the archive node as it is, and the node answers a number below
0 with an error, which `OwnAnswerOnce` allows for that call alone. Calls for a
named block, pending ones too, go to the archive node, as in the code.

### RpcChain

`Chain` gives the interceptors of each kind of RPC in order; `at[r]` is the
place of RPC `r` in its chain and `phase[r]` whether it goes down (`call`), up
with a result (`return`) or up with a panic. `Wrap`, `Count`, `Has` and `Set`
are the trace interceptor after the handler and its two deferred calls, in the
order they run; `Has` and `Set` are apart because handlers of two RPCs may
return one message. Errors are told apart by what the code asks of them:
statuses, errors of a context, plain ones. A response is one of the RPC's own, a
shared one, a typed nil pointer, or one without an empty string field
`request_id`. Validation, recovery, the selector and grpc-go's own mapping of
results are external; loggers are the services' and may panic. Codes that
neither the code nor a property tells from another one of the same level are
left out.

What the runs show beyond the obvious: streams have no trace interceptor, so
they are not counted and their clients see the text of a plain error in
production too; the health service's `Watch` is a stream like others to the
logger, which skips `Check` alone; a panic outside recovery, of the logger or of
`Set` on a nil response, ends the process. `rpc_level` finds a comment violated:
a cancelled or late RPC is logged as an error, because logging runs inside
trace; `LevelOfAnswer` states what is true instead. A shared response keeps the
id of the first RPC that returned it (`OwnRequestId` is about the others), and a
server without a mode shows raw messages like one in development
(`InternalsHidden` is about production).

### GrpcClient

`heap` holds the Headers maps: those of the program, in `Maps`, and those `New`
makes, which have the client's name. `New` applies the options of its list one
by one; a write into a map begins (`Write`) and ends (`EndWrite`), a call reads
its map key by key, and between the two lie the overlaps on which the Go runtime
may end the process (`Throw`) or let a read see a torn value. A key
is a spelling of a header's name, `Lower` its lower case: a map may hold several
spellings of one name, `metadata.New` adds the value of each to what the name has
already, in the order in which it finds them (`AddValue`), and the headers of the
caller's ctx go over all of them (`Invoke`). A call goes
through the validator, the headers, the counter and the timeout, in the order of
`dialOptions`. `dial` is what `grpc.NewClient` is given: URL, credentials and
the three delays; the other options of a connection only go through `New`.
`Passed` and `Asked` say what a list of options asks for, apart from what `New`
does with it. Two writes that overlap are taken to leave a map intact when the
runtime does not end the process.

What the runs show beyond the obvious: clients made from one map, directly or
through a shared `Config`, send the id of the last one, even if its `New`
failed, and may end the process; `ThrownOnlyIfShared` says that nothing else
does. A program that puts `X-Client-Id` into Headers makes its requests carry two
ids, in random order; `OwnClientId` says that the client's own id is always among
them, and the only one if nothing is spelled like that. A failed call is counted as OK if its reply has `GetCode`. A
client without a URL dials this host without TLS, unless it was given TLS,
whatever `Insecure` says (`DialAsAsked`). A forced timeout does nothing in a
client without a timeout (`grpc_forced`, which finds the comment of
`WithForcedTimeout` violated).

### Pagination

A behaviour is one scan. A server visits the fields in an order of its own,
`position`, and a cursor says how far it is. `Serve` runs a command and the
script on it: a page may begin before the cursor, as when the table of a hash
shrinks, and may be empty; `Flat`, `EverySecond` and `Run` are what the scripts
do with the list that HSCAN returns. `Take` is one turn of the loop. Between any
two steps the hash may change (`Add`, `Remove`), a reply may be lost and the
command be sent again, and the next command may go to another server.

What the run shows beyond the obvious: with a change of server a scan can miss
what was there all the time, and returns nil; so can a `scanFn` that returns
`redis.Nil`. `ScanComplete` excepts these two and nothing else.

### TracePropagation

`spans` are the RPCs that one request from outside leads to, each with what was
`sent` to it, whether the calling handler `kept` its ctx, and the trace it ended
up in. Ids are sequences of bytes: `CtxWithTraceId` cuts, pads and decodes them
as the code does, since a request id may be anything. `Gateway` is the header
matcher with the headers that a service lets through; `Extract` and `Start` are
the extractor and the span; `CallHttp` and `CallGrpc` are what the hook of
`HttpCfg` and the instrumented gRPC client send. `provider` says whether
kyber-trace-go has a tracer provider, without which resty sends no parent.

What the run shows beyond the obvious: a handler that gives an id of its own to
an HTTP request leaves the trace, unless parents pass the gateway (`TraceKept`).

### ServerConfig

`Load` is a config read from a file, `Apply` one that is made from another; both
begin an `Apply` of the code, whose loop runs one option of `opts` a step
(`ApplyOption`). An option adds to a list (`AddToList`) or sets a field
(`SetField`). `heap` holds the arrays behind the lists, and a list of a config is
a slice of one: `append` writes into the array if it has room (`AppendInPlace`)
and makes a new one with Go's growth if it has none (`AppendGrown`; `NewCap` is
exact up to 16 elements, after which the runtime rounds to its size classes).
`asked` remembers what options gave to each list, and how much of it the first
two of them gave. `Serve` is `NewServer` and `Register`, which write the default
address into the config and take everything else out of it. A header is a name
behind a prefix or none, in upper or in lower case. `PassThruHeaders` is what a
matcher keeps of its list, and `CustomHeaderMatcher` the name a header passes
under; for one that is not listed this is up to grpc-gateway, which is external
(`DefaultHeaderMatcher`): headers of HTTP's own (`Permanent`) get the prefix
`grpcgateway-`, and `Grpc-Metadata-` ones lose theirs. `Routed` and
`Stripped` are what the mux and `stripBasePath` do with the path of a request,
which net/http has cleaned.

What the runs show beyond the obvious: two configs that were made from a third,
by options that append to one list, share its array, and the second overwrites
the service or header of the first; this happens from the third option of a list
on (`OptionsKept`). A host without a port makes the gateway dial port 0
(`GatewayReachesServer`), and a base path with two slashes in a row cuts the
gateway off (`PathsBelowBase`). A header that is listed for one direction only
is treated in the other like one that is not listed: `authorization` still comes
in, as `grpcgateway-authorization`, and a client can make any name reach the
service by marking it as metadata (`HeadersAsListed`). `AllowPartialReq` has no effect
(`config_partial`, which finds its comment violated).

## Runs

| run | instance | states | shows |
|---|---|---|---|
| `recon` | 2 callers, cooldown 2, clock to 3 | 132 k | exclusion, no lost client, spacing, refinement of `ClientHandle`; swap under lasting refusals, final close |
| `serve` | 2 direct, 2 gateway, 1 h2c request | 215 k | draining order, nothing lost at exit, refinement of `GracefulService`; a signal or a failure ends the process |
| `hot` | 1 user, 3 configs of each kind, delay 2, clock to 4 | 424 k | when a client may be closed, when a timer panics; replaced clients get closed |
| `batch` | 2 callers without end, batches of 2, 2 retries, 4 kinds of block | 124 k | own answer once, retries of a batch alone; every call returns once batches stop starting |
| `rpc_safety` | 2 RPCs, 3 modes | 56 k | answers, counts, levels and ids agree; panics stay inside |
| `rpc_level` | as `rpc_safety`, ends in a violation | - | level of the line is not that of the return code |
| `grpc` | 2 clients of 6 option lists, 1 shared map, 2 spellings of a key, 1 call | 938 k | whose ids a call sends, when the runtime throws, how a client dials, counting; timed calls and calls of closed clients return |
| `grpc_forced` | as `grpc`, ends in a violation | - | a forced timeout is ignored |
| `pagination` | 2 fields, 2 servers of 2 positions, 1 lost reply | 370 k | what stays is shown, nothing else is; the scan returns |
| `trace` | ids of 1 byte, request ids to 3 characters of 4, 3 RPCs | 1.88 M | the trace of a call is that of its caller; a request id comes back; RPCs are counted for their callers |
| `config` | 3 configs of 5 option lists, 6 headers, paths to 5 characters | 353 k | options under shared arrays, headers, address, paths |
| `config_partial` | as `config`, ends in a violation | - | `AllowPartialReq` is ignored |

Why the bounds are enough. Two callers are the least with one that refreshes and
one that loses the race or has a stale failure; a clock past the cooldown allows
a second swap by either. Two requests of a kind let one finish while another
runs. Three configs give a timer of the first that fires after the second was
replaced; the clock leaves room for a dial that outlasts `CloseDelay`, 2 ticks.
Two callers make one batch of two, or two batches that overlap; two retries let a
batch be reset in the middle of its own. The safety properties of these modules
are proved for any number of callers, requests, users and configs, so that the
instances need only show liveness, and that the cases happen. Two RPCs are all
that a shared response needs: a third could only write the id again. Calls of a
client only read, so that one call and two clients show every conflict on a map;
the option lists have every kind of option, a map that is shared by two lists,
one that is made, and one that is replaced. One field that stays and one that
goes, on two servers with any orders, make a scan miss something. A trace id of
one byte has two digits, and ids of up to three characters are shorter, of its
length, and longer; their characters are a zero, another digit, a capital one and
none. The third RPC has a caller that was called. An array of Go's has room
after the third element, so lists of three options show it; three configs are
one and two that are made from it. Base paths of up to three and paths of up to
five characters, slash or not, have slashes at both ends, doubled and alone; of
base paths, only those without two other characters in a row. The headers are
listed for one direction, for the other, in either case, or not at all, with and
without the mark of metadata, and one is HTTP's own.

Symmetry is used for safety only: in the `rpc` and the `config` runs. Deadlock is
not checked where the system stops by itself: a process that died in a timer or
ran out of configs (`HotClients`), RPCs that have all been answered, or lost in a crash (`RpcChain`),
calls that have ended (`GrpcClient`), a scan that has returned (`Pagination`),
RPCs up to their bound (`TracePropagation`), configs that are all served
(`ServerConfig`). An exited server stutters by an action of
its own.

## Fairness

- Goroutines that can run do: callers inside `attemptRefreshClient`, closers,
  `Serve`, the goroutines of the two servers, `batchCalls`, timers. None of them
  blocks on anything but what the guard of its action says.
- RPC handlers return and HTTP responses are written (`ServeLifecycle`): the code
  waits for both without a limit, so liveness cannot hold without it.
- kutils' batchers take what is queued (`EthBatch`): `BatchRate` is their timer.
- A call whose timeout is due, or whose client is closed, ends with an error, and
  is counted (`GrpcClient`): the first two are context's and grpc-go's.
- A command of a scan is answered or ends with an error, and the loop runs
  (`Pagination`): go-redis has timeouts, and sends a command a bounded number of
  times.
- In `HotClients` time passes, up to the bound of the clock. In
  `ReconnectableClient` nothing makes it pass.
- Nothing is assumed of clients, signals, the redis server, nodes, dials, config
  updates, users of a client, or the end of `ctx`.

## Proofs

All theorems hold for every set of callers, requests or users, every cooldown or
delay and every bound; they assume only the named `ASSUME`s of the modules.

- `ReconnectableClientProofs`: `InductiveInvariant` (`IInv`), and from it
  `Exclusion`, `NothingLost`, `ServiceStaysOpen`, `CooldownRespected` and
  `ImplementsHandle`. The flag alone is not inductive: `MakerInv` says what the
  caller past the cooldown check holds (its old client is the one in service, its
  new one the last made), `StampInv` that the stamp lags behind a swap only while
  the swapper is still in the section, `NumberInv` that only clients that were in
  service are closed. `ImplementsHandle` maps the install to the abstract swap.
- `ServerProofs`, about `ServeLifecycle`: `InductiveInvariant`, `GatewayDrained`,
  `StopLosesNothing`, `ImplementsGraceful`. `Order` says what the place of `main`
  says of the servers, `Served` which server a request can be in.
- `ServerProofs`, about `ServerConfig`: `ConfigInvariant`, `OptionsAreKept`,
  `HeadersPassAsListed` (for any list and any header, `MatcherNames` says what
  name a header passes under), `GatewayDialsServer`, `RequestsBelowBase`, for any
  configs, lists of options, paths and addresses; of `append` they say what is so
  for lists of up to 16 elements, where `NewCap` is the runtime's. That an append
  can only harm a list past its first two options needs to know who shares an
  array: `SliceInv` says that a slice fits its array and that the first option leaves no room in
  it, `ShareInv` that configs with one array agree on what the first two options
  gave, `ContentInv` that an element is what was asked for or was `Overwritten`.
  `Appended` says what either way of `append` leaves alone; `AddSlice`, `AddShare`
  and `AddContent` are the three invariants after it. What a config was asked for
  only grows (`AskedGrows`), so that an element stays explained (`KeptStable`) and
  a server, whose lists are copied once, keeps what `ContentKept` says of them.
  The theorem about paths is one about `normalizeBasePath`: on a base path
  without doubled slashes it drops a slash at either end and no more
  (`CleanNormal`), and a doubled slash stays in the pattern (`CleanPattern`),
  which is then the prefix of no clean path.
- `HotClientsProofs`: `InductiveInvariant`, `ClientInForce`, `UserTime`,
  `PanicCause`. `TimerInv` says that only a replaced config has timers or closed
  connections and that they were due, and that the first timer is not younger than
  the second; `UserInv` when a user took what it holds.
- `RpcChainProofs`: `InductiveInvariant`, `CountedTheorem`, `ContainedTheorem`,
  `HiddenTheorem`, `OwnRequestIdTheorem`, `LevelTheorem`. No property is inductive
  alone, since an answer depends on all that happened on the way: `Place` says
  where an RPC can be, `Result`, `Tally` and `Logged` what has been made of its
  result above each place, `Panicked` that a handler's panic is at recovery or
  past it, and `Ids` that the id in a message is that of an RPC that returned it.
  A step of one RPC leaves the others alone (`Frame`) but for the id in a shared
  message, which `StepIds` deals with.
- `EthBatchProofs`: `Invariant`, `OwnAnswerTheorem`, `RetriesTheorem`. `QueueInv`
  and `BatchInv` say that a task that waits for its result is in one place of one
  batcher or of one running batch, and that a batch is of one kind of block, so
  that the node of its first message serves them all; `AnswerInv` that answers
  stand at the index of their message. `RetryInv` ties the requests of a batch
  that is alone to the shared counter.
- `GrpcClientProofs`: `Invariant`, `TypeCorrect`, `OwnIdTheorem`, `ThrowTheorem`,
  `DialTheorem`, `CountTheorem`. `ConfigInv` says that a config is what the options
  applied so far ask for (a lemma says what one more option changes), `MapInv`
  that a client that is made has an id in its map, its own if it shares the map
  with none, `SpellInv` that only a client's own options add another spelling to
  a map that `New` made, and `CallInv` what a call has read, with the client's id
  among its ids in whatever order they come.
- `PaginationProofs`: `InductiveInvariant`, `CompleteTheorem`, `NoGhostTheorem`.
  `RunOfFlat` shows what the scripts take from a list of fields and values;
  `Covered` says that what lies before the cursor, and stayed, has been seen.
- `TracePropagationProofs`: `TypeTheorem`, `TraceKeptTheorem`, `EchoTheorem`,
  `CallerTheorem`, for every width of ids and every string. Lemmas on
  `CtxWithTraceId` and `String` say that a decoded id consists of bytes and that
  printing and decoding undo each other.

Only model-checked: liveness (`RefusalsLeadToSwap`, `CloseIsFinal`, `HandleSpec`
beyond its steps, `SignalLeadsToExit`, `ServerFailureLeadsToExit`,
`ReplacedIsClosed`, `EveryCallReturns`, `CallsReturn`, `ScanReturns`), which is
out of the prover's reach.

## Plan

1. done: every module above with its run, and proofs of all safety properties.
2. open: what `Close` of a batchable client does with queued tasks, should the
   batchers become part of the repository; a composition of `HotClients` and
   `ReconnectableClient`, whose owner has the timer of the former, so far assumed
   to close once and at any time.

## Not modelled

- The content of messages, logs and spans, and the log lines of single stream
  messages: no property is about them.
- `kmetric`, which only forwards to otel counters; what is counted, and how
  often, is in `RpcChain` and `GrpcClient`. The resources of the tracer provider.
- Reflection and the health service of grpc-go; marshaler options other than
  those for partial messages, which are copied alike.
- `InstrumentRedisOtel`, `WithBlock`, `WithCompression`, `WithDialOption`: they
  hand something to a library, or do nothing.
- The reads of `EthClient` that only pick a node, and `toCallArg`.
- A config whose `BackOff` is nil, which `OnUpdate` dereferences: a matter of one
  call and its input.
- `BatchableEthClient.Close` with tasks queued and the inside of kutils, go-redis,
  cenkalti/backoff, net/http, grpc-go and otel, which are not in the repository.
