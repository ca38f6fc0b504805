---------------------------- MODULE ServerConfig ----------------------------
(***************************************************************************)
(* Configs of pkg/server/grpcserver and the servers made of them: Apply    *)
(* and the options (config.go, opt.go), NewServer, Register, the header    *)
(* matchers and the base path (server.go).                                 *)
(*                                                                         *)
(* A config is a value, and Apply returns a copy, but its lists are Go     *)
(* slices: copies share arrays, and append writes into an array that has   *)
(* room.  The program derives configs from configs, in one goroutine, and  *)
(* makes a server of some, which reads what it needs at once.              *)
(* net/http cleans the path of a request before it looks for a handler.    *)
(* Services, gRPC options and loggers are strings here.                    *)
(***************************************************************************)
EXTENDS Integers, Sequences

CONSTANTS
  Configs,      \* configs of the program; each is made once
  OptionLists,  \* lists of options that Apply may be given
  BasePaths,    \* base paths, sequences of characters
  Paths,        \* paths of requests
  Addresses,    \* values of Config.GRPC
  Keys,         \* headers of requests and responses
  Permanent,    \* names of the headers that HTTP itself defines
  None          \* nil, and an element of an array that is not yet used

\* A header has a name in upper or in lower case, behind a prefix of the
\* gateway's or none.
Header(prefix, name, upper) ==
  [prefix |-> prefix, name |-> name, upper |-> upper]
Headers ==
  [prefix : {"", "grpc-metadata-", "grpcgateway-"},
   name : STRING, upper : BOOLEAN]

\* A listen address: a host and a port.
ListenAddresses == [host : STRING, port : Nat]
Lists           == {"services", "grpcServerOptions", "incoming", "outgoing"}
Marshaler       == [partialReq : BOOLEAN, partialResp : BOOLEAN]

\* What an option gives to a list, or sets a field to.
Options ==
  [field : {"services", "grpcServerOptions"}, values : Seq(STRING)] \cup
  [field : {"incoming", "outgoing"}, values : Seq(Headers)] \cup
  [field : {"logger", "loggingInterceptor"}, values : STRING] \cup
  [field : {"httpMarshalerOptions"}, values : Marshaler]

ASSUME ConfigAssumption ==
  /\ \A options \in OptionLists : options \in Seq(Options)
  /\ \A path \in BasePaths \cup Paths : path \in Seq(STRING)
  /\ Addresses \subseteq ListenAddresses
  /\ Keys \subseteq Headers

VARIABLES
  file,     \* BasePath and GRPC in the program's configuration
  state,    \* of each config: none, made, served
  config,   \* its fields; those of the type in Lists are slices
  opts,     \* options that the Apply which makes it has not yet run
  heap,     \* the arrays behind slices
  server,   \* what NewServer and Register made of it
  asked     \* history: what options gave to each list

configVars == <<file, state, config, opts, heap, server, asked>>

Nil == [array |-> 0, len |-> 0]

ToLower(h) == Header(h.prefix, h.name, FALSE)

DefaultPassThruHeaders ==
  {Header("", name, FALSE) : name \in {"x-forwarded-for", "x-client-id",
                                       "x-trace-id", "x-request-id"}}

ZeroListen  == [host |-> "", port |-> 0]
DefaultGRPC == [host |-> "0.0.0.0", port |-> 9080]

\* A config as it is read from the file.
Read ==
  [lists    |-> [f \in Lists |-> Nil],
   logger   |-> None, loggingInterceptor |-> None,
   httpMarshalerOptions |-> [partialReq |-> FALSE, partialResp |-> FALSE],
   basePath |-> file.basePath, grpc |-> file.grpc]

\* Of a list: its elements, how often some were added, and how many the first
\* two of these options gave, which is all that is safe from other configs.
NotAsked == [values |-> <<>>, times |-> 0, safe |-> 0]

ConfigInit ==
  /\ file \in [basePath : BasePaths, grpc : Addresses]
  /\ state = [c \in Configs |-> "none"]
  /\ config = [c \in Configs |-> Read]
  /\ opts = [c \in Configs |-> <<>>]
  /\ heap = <<>>
  /\ server = [c \in Configs |-> None]
  /\ asked = [c \in Configs |-> [f \in Lists |-> NotAsked]]

-----------------------------------------------------------------------------
(* Options                                                                 *)

Cap(s) == IF s.array = 0 THEN 0 ELSE Len(heap[s.array])

\* A new array has twice the old capacity, or more if that is not enough: just
\* the room needed, as long as the runtime has a size class for it, which up to
\* 16 elements it has.
NewCap(cap, n) == IF n > 2 * cap THEN n ELSE 2 * cap

\* append(s, values...) if there is room
AppendInPlace(c, f, values) ==
  LET s == config[c].lists[f]
      n == s.len + Len(values)
  IN  /\ n <= Cap(s)
      /\ heap' = [heap EXCEPT ![s.array] =
           [i \in 1 .. Len(heap[s.array]) |->
              IF i \in s.len + 1 .. n THEN values[i - s.len]
                                      ELSE heap[s.array][i]]]
      /\ config' = [config EXCEPT ![c].lists[f] =
                                    [array |-> s.array, len |-> n]]

\* append(s, values...) if there is none
AppendGrown(c, f, values) ==
  LET s == config[c].lists[f]
      n == s.len + Len(values)
  IN  /\ n > Cap(s)
      /\ heap' = Append(heap,
           [i \in 1 .. NewCap(Cap(s), n) |->
              IF i <= s.len THEN heap[s.array][i]
              ELSE IF i <= n THEN values[i - s.len] ELSE None])
      /\ config' = [config EXCEPT ![c].lists[f] =
                                    [array |-> Len(heap) + 1, len |-> n]]

Ask(a, values) ==
  LET all == a.values \o values
  IN  [values |-> all, times |-> a.times + 1,
       safe   |-> IF a.times < 2 THEN Len(all) ELSE a.safe]

\* Mutant: an option replaces what the options before it gave.
AssignList(c, f, values) ==
  /\ heap' = Append(heap, values)
  /\ config' = [config EXCEPT ![c].lists[f] =
                  [array |-> Len(heap) + 1, len |-> Len(values)]]
  /\ asked' = [asked EXCEPT ![c][f] = Ask(asked[c][f], values)]

AddToList(c, f, values) ==
  IF values = <<>> THEN UNCHANGED <<config, heap, asked>>
  ELSE /\ AppendInPlace(c, f, values) \/ AppendGrown(c, f, values)
       /\ asked' = [asked EXCEPT ![c][f] = Ask(asked[c][f], values)]

SetField(c, option) ==
  /\ config' = [config EXCEPT ![c][option.field] = option.values]
  /\ UNCHANGED <<heap, asked>>

\* One turn of the loop in Apply.
ApplyOption(c) ==
  /\ opts[c] # <<>>
  /\ LET option == Head(opts[c])
     IN  IF option.field \in Lists THEN AddToList(c, option.field, option.values)
                                   ELSE SetField(c, option)
  /\ opts' = [opts EXCEPT ![c] = Tail(@)]
  /\ UNCHANGED <<file, state, server>>

\* The program does one thing at a time.
Idle == \A c \in Configs : opts[c] = <<>>

\* Config.Apply on a config of which `lists` was asked.
BeginApply(c, base, lists) ==
  /\ Idle /\ state[c] = "none"
  /\ state' = [state EXCEPT ![c] = "made"]
  /\ config' = [config EXCEPT ![c] = base]
  /\ asked' = [asked EXCEPT ![c] = lists]
  /\ \E options \in OptionLists : opts' = [opts EXCEPT ![c] = options]
  /\ UNCHANGED <<file, heap, server>>

Load(c) == BeginApply(c, Read, [f \in Lists |-> NotAsked])

Apply(c, from) ==
  /\ state[from] # "none"
  /\ BeginApply(c, config[from], asked[from])

-----------------------------------------------------------------------------
(* Servers                                                                 *)

Content(c, f) ==
  LET s == config[c].lists[f]
  IN  IF s.array = 0 THEN <<>> ELSE SubSeq(heap[s.array], 1, s.len)

\* Mutant: a default goes over an address that is given in part.
ListenDefaulted(listen) ==
  IF listen.host = "" \/ listen.port = 0 THEN DefaultGRPC ELSE listen

Listen(listen) == IF listen = ZeroListen THEN DefaultGRPC ELSE listen

\* Port 0 has the system choose one.
Bound(listen) ==
  IF listen.port = 0 THEN [listen EXCEPT !.port = 49152] ELSE listen

\* Mutant: headers are listed as they are given.
PassThruAsGiven(headers) ==
  DefaultPassThruHeaders \cup {headers[i] : i \in DOMAIN headers}

\* What the matcher of a direction keeps of the list for it.
PassThruHeaders(headers) ==
  DefaultPassThruHeaders \cup {ToLower(headers[i]) : i \in DOMAIN headers}

\* What grpc-gateway lets pass itself: HTTP's own headers behind its prefix,
\* and what a client marked as metadata, without the mark.
DefaultHeaderMatcher(key) ==
  CASE key.prefix = "" /\ key.name \in Permanent
         -> {Header("grpcgateway-", key.name, TRUE)}
    [] key.prefix = "grpc-metadata-" -> {Header("", key.name, TRUE)}
    [] OTHER -> {}

\* The name that a header passes under, or none.
CustomHeaderMatcher(passThru, key) ==
  IF ToLower(key) \in passThru THEN {key} ELSE DefaultHeaderMatcher(key)

LoggingInterceptor(c) ==
  IF config[c].loggingInterceptor # None THEN config[c].loggingInterceptor
  ELSE <<"default", config[c].logger>>

Slash == <<"/">>

\* Mutant: a trailing slash is left.
NormalizeLeadingOnly(path) ==
  IF path # <<>> /\ path[1] # "/" THEN Slash \o path ELSE path

NormalizeBasePath(path) ==
  IF path = <<>> THEN path
  ELSE LET p == IF path[1] # "/" THEN Slash \o path ELSE path
       IN  IF p[Len(p)] = "/" THEN SubSeq(p, 1, Len(p) - 1) ELSE p

\* NewServer, which sets the default in the config it is given, and Register.
Serve(c) ==
  /\ Idle /\ state[c] = "made"
  /\ config' = [config EXCEPT ![c].grpc = Listen(@)]
  /\ server' = [server EXCEPT ![c] =
       [lists    |-> [f \in Lists |-> Content(c, f)],
        incoming |-> PassThruHeaders(Content(c, "incoming")),
        outgoing |-> PassThruHeaders(Content(c, "outgoing")),
        logger   |-> LoggingInterceptor(c),
        marshal  |-> [partial |-> config[c].httpMarshalerOptions.partialResp],
        unmarshal |->
                     [partial |-> config[c].httpMarshalerOptions.partialResp],
        basePath |-> NormalizeBasePath(config[c].basePath),
        bound    |-> Bound(Listen(config[c].grpc)),
        dialed   |-> Listen(config[c].grpc)]]
  /\ state' = [state EXCEPT ![c] = "served"]
  /\ UNCHANGED <<file, opts, heap, asked>>

IsPrefix(s, t) == Len(s) <= Len(t) /\ \A i \in 1 .. Len(s) : s[i] = t[i]

\* The mux has the gateway at the base path and a slash.
Clean(path)  == \A i \in 1 .. Len(path) - 1 : ~(path[i] = "/" /\ path[i + 1] = "/")
Routed(c, p) == Clean(p) /\ IsPrefix(server[c].basePath \o Slash, p)

\* stripBasePath
TrimPrefix(p, prefix) ==
  IF IsPrefix(prefix, p) THEN SubSeq(p, Len(prefix) + 1, Len(p)) ELSE p

Stripped(c, p) == TrimPrefix(p, server[c].basePath)

ConfigNext ==
  \E c \in Configs :
    \/ Load(c)
    \/ \E from \in Configs : Apply(c, from)
    \/ ApplyOption(c)
    \/ Serve(c)

ConfigSpec == ConfigInit /\ [][ConfigNext]_configVars

-----------------------------------------------------------------------------
(* Properties                                                              *)

Serving == {c \in Configs : state[c] = "served"}

\* Configs c and d were given the same by the first two options of a list.
SameStart(c, d, f) ==
  /\ asked[c][f].safe = asked[d][f].safe
  /\ \A i \in 1 .. asked[c][f].safe :
       asked[c][f].values[i] = asked[d][f].values[i]

\* Element i of list f of c has become e, which d was given in that place.
Overwritten(c, f, i, e) ==
  /\ i > asked[c][f].safe
  /\ \E d \in Configs \ {c} :
       /\ SameStart(c, d, f)
       /\ i \in 1 .. Len(asked[d][f].values) /\ asked[d][f].values[i] = e

\* A server has the services, options and headers that its config was given,
\* in their order.  Only the third or a later option of a list can be lost:
\* to another config that was derived from the same one.
OptionsKept ==
  \A c \in Serving, f \in Lists :
    LET got  == server[c].lists[f]
        want == asked[c][f].values
    IN  /\ Len(got) = Len(want)
        /\ \A i \in 1 .. Len(want) :
             got[i] = want[i] \/ Overwritten(c, f, i, got[i])

\* What config.go:65 says of AllowPartialReq: it allows requests that miss
\* required fields.
PartialRequestsAsConfigured ==
  \A c \in Serving :
    server[c].unmarshal.partial = config[c].httpMarshalerOptions.partialReq

Listed(c, way) == {server[c].lists[way][i] : i \in 1 .. Len(server[c].lists[way])}

\* One of the four, or in the list for a direction, in any case.
PassesThru(c, way, key) ==
  \E g \in DefaultPassThruHeaders \cup Listed(c, way) : ToLower(g) = ToLower(key)

\* A header passes under the name it came with if and only if it passes thru:
\* being listed for the other direction is of no use to it.  Else the service
\* or the client finds a bare name only if the other side marked the header
\* as metadata, and HTTP's own headers only behind the gateway's prefix.
HeadersAsListed ==
  \A c \in Serving, way \in {"incoming", "outgoing"}, key \in Keys :
    LET names == CustomHeaderMatcher(server[c][way], key)
        thru  == PassesThru(c, way, key)
    IN  /\ key \in names <=> thru
        /\ \A h \in names :
             \/ thru
             \/ h.prefix = "" /\ key.prefix = "grpc-metadata-"
             \/ h.prefix = "grpcgateway-" /\ key.name \in Permanent

\* The gateway dials the address its own server listens on, which is the one
\* that was given, unless that has a host and no port.
GatewayReachesServer ==
  \A c \in Serving :
    /\ \/ server[c].dialed = server[c].bound
       \/ config[c].grpc.host # "" /\ config[c].grpc.port = 0
    /\ file.grpc.port # 0 => server[c].dialed = file.grpc

\* A base path without a slash at either end.
Inner(path) ==
  SubSeq(path, IF path # <<>> /\ path[1] = "/" THEN 2 ELSE 1,
         IF path # <<>> /\ path[Len(path)] = "/" THEN Len(path) - 1 ELSE Len(path))

Root(path) == IF Inner(path) = <<>> THEN <<>> ELSE Slash \o Inner(path)

\* With a slash or none at either end of a base path, the gateway sees the
\* requests below it, and only those, with the rest of their path; two
\* slashes in a row anywhere in it, and the gateway sees no request.
PathsBelowBase ==
  \A c \in Serving, p \in Paths :
    LET base == config[c].basePath
    IN  Clean(p) =>
          /\ Routed(c, p) <=>
               /\ Clean(base) /\ IsPrefix(Root(base), p)
               /\ Len(p) > Len(Root(base)) /\ p[Len(Root(base)) + 1] = "/"
          /\ Routed(c, p) =>
               /\ p = Root(base) \o Stripped(c, p)
               /\ Stripped(c, p)[1] = "/"
=============================================================================
