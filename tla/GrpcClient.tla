----------------------------- MODULE GrpcClient -----------------------------
(***************************************************************************)
(* The gRPC client of pkg/client/grpcclient: New, with its options and the *)
(* Headers map, and the interceptors of a unary call.                      *)
(*                                                                         *)
(* A Headers map is a reference, which WithHeaders and WithConfig copy: it *)
(* belongs to the program, and clients made from it share it.  New writes  *)
(* the map and each call reads it, with no lock; Go ends the process when  *)
(* it notices that such accesses overlap, which it need not.  Keys of the  *)
(* map are as the program spells them, names of a request's headers are in *)
(* lower case: a name has the values of every spelling.  The connection is *)
(* grpc-go's: of its options there are those for the URL, the credentials  *)
(* and the delays.                                                         *)
(***************************************************************************)
EXTENDS Integers, Sequences

CONSTANTS
  Clients,      \* clients, each made once
  Calls,        \* calls, each issued once
  Maps,         \* Headers maps the program owns
  Keys,         \* keys of headers, as they are spelled
  Lower,        \* each of them in lower case
  Names,        \* client ids, URLs and values of headers
  Contents,     \* what a map the program owns may have in it at first
  Forced,       \* timeouts WithForcedTimeout is given
  OptionLists   \* lists of options a client may be made with

ClientId == "x-client-id"
NoMap    == "nil"
NoValue  == "none"
Service  == "service"   \* what GetServiceClientId returns

NoDelays ==
  [BaseDelay |-> 0, MaxDelay |-> 0, MinConnectTimeout |-> 0]

NoConfig ==
  [map |-> NoMap, id |-> "", timeout |-> 0, url |-> "", insecure |-> FALSE,
   tls |-> FALSE, delays |-> NoDelays]

ConfigsOver(maps) ==
  [map : maps, id : Names \cup {""}, timeout : Int, url : Names \cup {""},
   insecure : BOOLEAN, tls : BOOLEAN, delays : [DOMAIN NoDelays -> Nat]]

Configs == ConfigsOver(Maps \cup {NoMap})

\* WithConfig, AddHeader, or the option for one field.
IsOption(o) ==
  \/ o.field = "config" /\ o.value \in Configs
  \/ o.field = "header" /\ o.key \in Keys /\ o.value \in Names
  \/ /\ o.field \in DOMAIN NoConfig
     /\ [NoConfig EXCEPT ![o.field] = o.value] \in Configs

ASSUME GrpcClientAssumption ==
  /\ Lower \in [Keys -> Keys]
  /\ ClientId \in Keys /\ Lower[ClientId] = ClientId
  /\ NoValue \notin Names
  /\ Contents \subseteq [Keys -> Names \cup {NoValue}]
  /\ Maps \cap Clients = {} /\ NoMap \notin Maps \cup Clients
  /\ Forced \subseteq Int
  /\ \A list \in OptionLists :
       /\ Len(list) \in Nat /\ DOMAIN list = 1 .. Len(list)
       /\ \A i \in DOMAIN list : IsOption(list[i])

VARIABLES
  state,     \* of each client: none, options, new, ready, failed, closed
  options,   \* history: the list a client is made with
  applied,   \* how many of them New has applied
  cfg,       \* fields of its Config
  dial,      \* what grpc.NewClient is given, <<>> before
  heap,      \* content of each map; one that New makes has the client's name
  writing,   \* what New is writing into its map: at most one header
  pc,        \* where each call is
  via,       \* client of the call
  asked,     \* what the caller passes: headers of ctx, options, reply
  left,      \* keys the call has still to read
  md,        \* headers of the request: the values each name has
  limit,     \* timeout of the call, 0 if none
  result,    \* the code in the reply, and whether the call failed
  counted,   \* history: codes the call was counted with
  thrown     \* the runtime has ended the process

mapVars    == <<heap, writing>>
clientVars == <<state, options, applied, cfg, dial, mapVars>>
callVars   == <<pc, via, asked, left, md, limit, result, counted>>
vars       == <<clientVars, callVars, thrown>>

Empty     == [key \in Keys |-> NoValue]
NoHeaders == [name \in Keys |-> <<>>]

\* What a caller may pass; forced has the timeout of WithForcedTimeout, and
\* getCode says that the reply has a method GetCode.
Asks == [ctx : SUBSET Keys, forced : {<<>>} \cup {<<t>> : t \in Forced},
         getCode : BOOLEAN]

Init ==
  /\ state = [c \in Clients |-> "none"]
  /\ options = [c \in Clients |-> <<>>]
  /\ applied = [c \in Clients |-> 0]
  /\ cfg = [c \in Clients |-> NoConfig]
  /\ dial = [c \in Clients |-> <<>>]
  /\ \E contents \in [Maps -> Contents] :
       heap = [m \in Maps \cup Clients |->
                 IF m \in Maps THEN contents[m] ELSE Empty]
  /\ writing = [c \in Clients |-> {}]
  /\ pc = [k \in Calls |-> "idle"]
  /\ via \in [Calls -> Clients]
  /\ asked = [k \in Calls |-> [ctx |-> {}, forced |-> <<>>, getCode |-> FALSE]]
  /\ left = [k \in Calls |-> {}]
  /\ md = [k \in Calls |-> NoHeaders]
  /\ limit = [k \in Calls |-> 0]
  /\ result = [k \in Calls |-> [code |-> "OK", failed |-> FALSE]]
  /\ counted = [k \in Calls |-> <<>>]
  /\ thrown = FALSE

-----------------------------------------------------------------------------
(* New                                                                     *)

Is(c, s) == ~thrown /\ state[c] = s

Begin(c) ==
  /\ Is(c, "none")
  /\ \E list \in OptionLists : options' = [options EXCEPT ![c] = list]
  /\ state' = [state EXCEPT ![c] = "options"]
  /\ UNCHANGED <<applied, cfg, dial, mapVars, callVars, thrown>>

Applying(c) == Is(c, "options") /\ writing[c] = {}
Option(c)   == options[c][applied[c] + 1]

\* WithConfig sets every field; any other option but AddHeader sets one.
Set(fields, option) ==
  IF option.field = "config" THEN option.value
                             ELSE [fields EXCEPT ![option.field] = option.value]

Apply(c) ==
  /\ Applying(c) /\ applied[c] < Len(options[c])
  /\ Option(c).field # "header"
  /\ cfg' = [cfg EXCEPT ![c] = Set(@, Option(c))]
  /\ applied' = [applied EXCEPT ![c] = @ + 1]
  /\ UNCHANGED <<state, options, dial, mapVars, callVars, thrown>>

\* Mutant: clients without headers share one map.
MakeOneMap(c) ==
  LET m == IF cfg[c].map # NoMap THEN cfg[c].map
                                 ELSE CHOOSE d \in Clients : TRUE
  IN  /\ cfg' = [cfg EXCEPT ![c].map = m]
      /\ UNCHANGED heap

\* A client without a map makes one.
MakeMap(c) ==
  LET m == IF cfg[c].map # NoMap THEN cfg[c].map ELSE c
  IN  /\ cfg' = [cfg EXCEPT ![c].map = m]
      /\ heap' = IF cfg[c].map = NoMap THEN [heap EXCEPT ![c] = Empty] ELSE heap

Write(c, key, value) ==
  writing' = [writing EXCEPT ![c] = {[key |-> key, value |-> value]}]

AddHeader(c) ==
  /\ Applying(c) /\ applied[c] < Len(options[c])
  /\ Option(c).field = "header"
  /\ MakeMap(c)
  /\ Write(c, Option(c).key, Option(c).value)
  /\ applied' = [applied EXCEPT ![c] = @ + 1]
  /\ UNCHANGED <<state, options, dial, callVars, thrown>>

OwnId(c) == IF cfg[c].id = "" THEN Service ELSE cfg[c].id

DefaultURL == "localhost:9080"

\* The default is a server on this host, without TLS.
URL(fields)      == IF fields.url = "" THEN DefaultURL ELSE fields.url
Insecure(fields) == fields.url = "" \/ fields.insecure

\* Mutant: Insecure is looked at first.
CredentialsInsecureFirst(fields) == IF Insecure(fields) THEN "none" ELSE "TLS"

Credentials(fields) ==
  IF ~fields.tls /\ Insecure(fields) THEN "none" ELSE "TLS"

DefaultDelays ==
  [BaseDelay |-> 1, MaxDelay |-> 5, MinConnectTimeout |-> 5]

ConnectParams(delays) ==
  [d \in DOMAIN DefaultDelays |->
     IF delays[d] # 0 THEN delays[d] ELSE DefaultDelays[d]]

\* requestHeaders: the client id goes into the map; cfg.ClientID is not read
\* again.
DialOptions(c) ==
  /\ Applying(c) /\ applied[c] = Len(options[c])
  /\ dial' = [dial EXCEPT ![c] =
       [url         |-> URL(cfg[c]),
        credentials |-> Credentials(cfg[c]),
        params      |-> ConnectParams(cfg[c].delays)]]
  /\ MakeMap(c)
  /\ Write(c, ClientId, OwnId(c))
  /\ state' = [state EXCEPT ![c] = "new"]
  /\ UNCHANGED <<options, applied, callVars, thrown>>

EndWrite(c) ==
  /\ ~thrown
  /\ \E w \in writing[c] :
       heap' = [heap EXCEPT ![cfg[c].map][w.key] = w.value]
  /\ writing' = [writing EXCEPT ![c] = {}]
  /\ UNCHANGED <<state, options, applied, cfg, dial, callVars, thrown>>

\* grpc.NewClient fails on a base URL it cannot parse.
NewClient(c) ==
  /\ Is(c, "new") /\ writing[c] = {}
  /\ \E s \in {"ready", "failed"} : state' = [state EXCEPT ![c] = s]
  /\ UNCHANGED <<options, applied, cfg, dial, mapVars, callVars, thrown>>

Close(c) ==
  /\ Is(c, "ready")
  /\ state' = [state EXCEPT ![c] = "closed"]
  /\ UNCHANGED <<options, applied, cfg, dial, mapVars, callVars, thrown>>

-----------------------------------------------------------------------------
(* A call                                                                  *)

At(k, place) == ~thrown /\ pc[k] = place

Goto(k, place) == pc' = [pc EXCEPT ![k] = place]

Issue(k) ==
  /\ At(k, "idle")
  /\ \E c \in Clients :
       /\ state[c] \in {"ready", "closed"}
       /\ via' = [via EXCEPT ![k] = c]
  /\ \E a \in Asks : asked' = [asked EXCEPT ![k] = a]
  /\ Goto(k, "validate")
  /\ UNCHANGED <<thrown, clientVars, left, md, limit, result, counted>>

\* The validator is the first interceptor.
Refuse(k) ==
  /\ At(k, "validate")
  /\ result' = [result EXCEPT ![k].failed = TRUE]
  /\ Goto(k, "ended")
  /\ UNCHANGED <<thrown, clientVars, via, asked, left, md, limit, counted>>

Validate(k) ==
  /\ At(k, "validate")
  /\ left' = [left EXCEPT ![k] = Keys]
  /\ Goto(k, "headers")
  /\ UNCHANGED <<thrown, clientVars, via, asked, md, limit, result, counted>>

\* What a read of a header can see while New writes it.
Racing(m, key) ==
  UNION {{w.value, "torn"} : w \in {w \in UNION {writing[c] :
           c \in {c \in Clients : cfg[c].map = m}} : w.key = key}}

\* Mutant: the value of one spelling replaces that of another.
Replace(headers, key, value) ==
  IF value = NoValue THEN headers ELSE [headers EXCEPT ![Lower[key]] = <<value>>]

\* metadata.New adds the value of a key to those its name has already.
AddValue(headers, key, value) ==
  IF value = NoValue THEN headers
                     ELSE [headers EXCEPT ![Lower[key]] = Append(@, value)]

\* It goes over the map in an order of its own.
ReadHeader(k, key) ==
  /\ At(k, "headers") /\ key \in left[k]
  /\ LET m == cfg[via[k]].map
     IN  \E value \in {heap[m][key]} \cup Racing(m, key) :
           md' = [md EXCEPT ![k] = AddValue(@, key, value)]
  /\ left' = [left EXCEPT ![k] = @ \ {key}]
  /\ UNCHANGED <<thrown, clientVars, pc, via, asked, limit, result, counted>>

\* Mutant: a forced timeout is only for callers whose client has none.
TimeoutUnlessForced(timeout, forced) == IF forced = <<>> THEN timeout ELSE 0

\* TimeoutInterceptor, which is there only if the client has a timeout.
Timeout(timeout, forced) ==
  LET t == IF forced = <<>> THEN timeout ELSE forced[1]
  IN  IF timeout # 0 /\ t > 0 THEN t ELSE 0

\* Names of the headers in the caller's ctx.
FromContext(k) == {Lower[key] : key \in asked[k].ctx}

\* The headers of ctx go over those of the client.
Invoke(k) ==
  /\ At(k, "headers") /\ left[k] = {}
  /\ md' = [md EXCEPT ![k] =
       [name \in Keys |->
          IF name \in FromContext(k) THEN <<"ctx">> ELSE @[name]]]
  /\ limit' = [limit EXCEPT ![k] =
       Timeout(cfg[via[k]].timeout, asked[k].forced)]
  /\ Goto(k, "sent")
  /\ UNCHANGED <<thrown, clientVars, via, asked, left, result, counted>>

\* The reply of a server may have a code of its own in it.
Reply(k) ==
  /\ At(k, "sent") /\ state[via[k]] # "closed"
  /\ \E code \in {"OK", "own"} : result' = [result EXCEPT ![k].code = code]
  /\ Goto(k, "count")
  /\ UNCHANGED <<thrown, clientVars, via, asked, left, md, limit, counted>>

Fails(k) ==
  /\ At(k, "sent")
  /\ result' = [result EXCEPT ![k].failed = TRUE]
  /\ Goto(k, "count")
  /\ UNCHANGED <<thrown, clientVars, via, asked, left, md, limit, counted>>

\* Calls through a closed connection fail, and calls that are late.
Cut(k) == (state[via[k]] = "closed" \/ limit[k] > 0) /\ Fails(k)

\* Mutant: calls that failed are not counted.
CountReplies(k) ==
  /\ At(k, "count")
  /\ counted' = IF result[k].failed THEN counted ELSE
       [counted EXCEPT ![k] = Append(@,
          IF asked[k].getCode THEN result[k].code ELSE "OK")]
  /\ Goto(k, "ended")
  /\ UNCHANGED <<thrown, clientVars, via, asked, left, md, limit, result>>

\* The code of a reply goes before the error.
Count(k) ==
  /\ At(k, "count")
  /\ counted' = [counted EXCEPT ![k] = Append(@,
       IF asked[k].getCode THEN result[k].code
       ELSE IF result[k].failed THEN "Unknown" ELSE "OK")]
  /\ Goto(k, "ended")
  /\ UNCHANGED <<thrown, clientVars, via, asked, left, md, limit, result>>

-----------------------------------------------------------------------------
(* The runtime                                                             *)

Reads(k, m) == pc[k] = "headers" /\ left[k] # {} /\ cfg[via[k]].map = m

Overlap ==
  \E c \in Clients :
    /\ writing[c] # {}
    /\ \/ \E k \in Calls : Reads(k, cfg[c].map)
       \/ \E d \in Clients \ {c} :
            writing[d] # {} /\ cfg[d].map = cfg[c].map

\* fatal error: concurrent map writes, or map read and map write.
Throw ==
  /\ ~thrown /\ Overlap
  /\ thrown' = TRUE
  /\ UNCHANGED <<clientVars, callVars>>

Next ==
  \/ \E c \in Clients :
       \/ Begin(c) \/ Apply(c) \/ AddHeader(c) \/ DialOptions(c)
       \/ EndWrite(c) \/ NewClient(c) \/ Close(c)
  \/ \E k \in Calls :
       \/ Issue(k) \/ Refuse(k) \/ Validate(k)
       \/ \E key \in Keys : ReadHeader(k, key)
       \/ Invoke(k) \/ Reply(k) \/ Fails(k) \/ Count(k)
  \/ Throw

SafeSpec == Init /\ [][Next]_vars

\* Timers fire, and grpc-go ends the calls of a connection that is closed;
\* nothing is assumed of servers.
Fairness == \A k \in Calls : WF_vars(Cut(k) \/ Count(k))

Spec == SafeSpec /\ Fairness
-----------------------------------------------------------------------------
Writes == [key : Keys, value : Names \cup {Service}]
Texts  == [Keys -> Names \cup {Service, NoValue}]
Values == Names \cup {Service, "ctx", "torn"}

ClientTypes ==
  /\ state \in [Clients -> {"none", "options", "new", "ready", "failed",
                            "closed"}]
  /\ options \in [Clients -> OptionLists \cup {<<>>}]
  /\ applied \in [Clients -> Nat] /\ DOMAIN cfg = Clients
  /\ \A c \in Clients :
       /\ applied[c] <= Len(options[c])
       /\ cfg[c] \in ConfigsOver(Maps \cup {c, NoMap})
  /\ heap \in [Maps \cup Clients -> Texts]
  /\ writing \in [Clients -> SUBSET Writes]

CallTypes ==
  /\ pc \in [Calls -> {"idle", "validate", "headers", "sent", "count",
                       "ended"}]
  /\ via \in [Calls -> Clients]
  /\ asked \in [Calls -> Asks]
  /\ left \in [Calls -> SUBSET Keys]
  /\ md \in [Calls -> [Keys -> Seq(Values)]]
  /\ limit \in [Calls -> Int]
  /\ result \in [Calls -> [code : {"OK", "own"}, failed : BOOLEAN]]
  /\ counted \in [Calls -> Seq({"OK", "own", "Unknown"})]

TypeOK == ClientTypes /\ CallTypes /\ thrown \in BOOLEAN

\* The maps a list of options mentions.
Passed(list) ==
  ({list[i].value : i \in {i \in DOMAIN list : list[i].field = "map"}}
     \cup {list[i].value.map :
             i \in {i \in DOMAIN list : list[i].field = "config"}})
    \ {NoMap}

\* The last value that the first n options of a list give to a field.
Given(list, n, field) == {i \in 1 .. n : list[i].field \in {field, "config"}}

Latest(given) == CHOOSE i \in given : \A j \in given : j <= i

AskedFirst(list, n, field) ==
  LET given == Given(list, n, field)
      last  == list[Latest(given)]
  IN  IF given = {} THEN NoConfig[field]
      ELSE IF last.field = "config" THEN last.value[field] ELSE last.value

Asked(list, field) == AskedFirst(list, Len(list), field)

Alone(c) ==
  \A d \in Clients \ {c} : Passed(options[c]) \cap Passed(options[d]) = {}

Sent(k) == pc[k] \in {"sent", "count"}

OtherSpellings == {key \in Keys \ {ClientId} : Lower[key] = ClientId}

Adds(c, key) ==
  \E i \in DOMAIN options[c] :
    options[c][i].field = "header" /\ options[c][i].key = key

\* The program gives the client an id under another spelling of x-client-id,
\* as an option or in a map.
Respelled(c) ==
  \E key \in OtherSpellings :
    Adds(c, key) \/ \E m \in Passed(options[c]) : heap[m][key] # NoValue

\* Every request has a client id: the one the caller has in ctx, and no other,
\* or else the one its client was made with, whatever other clients do, unless
\* they were made from the same map.  It is the only one if the program has
\* not spelled x-client-id otherwise, which adds an id, before or after it.
OwnClientId ==
  \A k \in Calls :
    Sent(k) =>
      LET ids == md[k][ClientId]
          id  == Asked(options[via[k]], "id")
          own == IF id = "" THEN Service ELSE id
      IN  IF ClientId \in FromContext(k) THEN ids = <<"ctx">>
          ELSE /\ ids # <<>>
               /\ Alone(via[k]) =>
                    /\ \E i \in DOMAIN ids : ids[i] = own
                    /\ ~Respelled(via[k]) => ids = <<own>>

\* The runtime ends the process only if clients were made from one map.
ThrownOnlyIfShared ==
  thrown => \E c \in Clients : ~Alone(c)

\* A connection is without TLS only if the program says so, or does not say
\* where it goes, and asks for no TLS; it has every delay the program gives.
DialAsAsked ==
  \A c \in Clients :
    dial[c] # <<>> =>
      LET asks == [field \in DOMAIN NoConfig |-> Asked(options[c], field)]
      IN  /\ dial[c].credentials = "none" <=>
               ~asks.tls /\ (asks.insecure \/ asks.url = "")
          /\ asks.url # "" => dial[c].url = asks.url
          /\ \A d \in DOMAIN NoDelays :
               \/ dial[c].params[d] = asks.delays[d]
               \/ asks.delays[d] = 0 /\ dial[c].params[d] # 0

\* A call that passed the validator is counted once when it has ended, and
\* as OK after a failure only if its reply has a GetCode; one that the
\* validator refused is not.
CountedOnce ==
  \A k \in Calls :
    pc[k] = "ended" =>
      \/ left[k] = {} /\ md[k] = NoHeaders /\ counted[k] = <<>>
      \/ /\ md[k] # NoHeaders /\ Len(counted[k]) = 1
         /\ result[k].failed /\ counted[k] = <<"OK">> => asked[k].getCode

\* Whether a call is to end by a timeout: the client's own, or one that is
\* forced on a call of a client that has one.
Timed(k) ==
  LET own == Asked(options[via[k]], "timeout")
  IN  /\ own # 0
      /\ IF asked[k].forced = <<>> THEN own > 0 ELSE asked[k].forced[1] > 0

\* A call with a timeout returns, and so does a call whose client is closed,
\* even if no server ever answers.
CallsReturn ==
  \A k \in Calls :
    (pc[k] = "sent" /\ (Timed(k) \/ state[via[k]] = "closed")) ~>
      (pc[k] = "ended" \/ thrown)

\* What client.go:164 says: WithForcedTimeout sets the timeout of a request.
ForcedTimeoutIsUsed ==
  \A k \in Calls :
    Sent(k) /\ asked[k].forced # <<>> => limit[k] = asked[k].forced[1]
=============================================================================
