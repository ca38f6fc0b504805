------------------------------ MODULE RpcChain ------------------------------
(***************************************************************************)
(* The way of an RPC through the server: pkg/server/serve.go chains the    *)
(* interceptors, pkg/server/middleware holds those for tracing and         *)
(* logging.                                                                *)
(*                                                                         *)
(* An RPC goes down the chain to the handler and up again with a result,   *)
(* or with a panic, which unwinds it up to recovery.  A panic that leaves  *)
(* the chain ends the process.  The interceptors that services add with    *)
(* WithGRPCServerOptions come after recovery and count as the handler.     *)
(* Validation, recovery and what grpc-go does with a result are external.  *)
(*                                                                         *)
(* The stats handler gives every RPC but those of the health service a     *)
(* trace id, here the RPC itself.  Messages are told apart by what the     *)
(* trace interceptor can do with their field request_id.                   *)
(***************************************************************************)
EXTENDS Integers, Sequences

CONSTANTS
  Rpcs,   \* RPCs to the server, each made once
  Modes   \* values of Config.Mode a behaviour may have

ASSUME RpcAssumption ==
  /\ Rpcs \cap {"none", "shared", "nil", "plain"} = {}
  /\ Modes \subseteq {"", "develop", "production"}

VARIABLES
  mode,       \* Config.Mode
  kind,       \* kind of each RPC: unary, stream, health check
  at,         \* its place in the chain, from 1; 0 is outside
  phase,      \* what it does there
  panics,     \* history: who panicked on its way
  err,        \* the error that goes up the chain
  msg,        \* the response that goes up the chain
  status,     \* what the client gets, or will get
  requestId,  \* field request_id of each response message, NoId if empty
  level,      \* history: level of the log line at the end of the RPC
  counted,    \* history: codes the RPC was counted with
  panicTotal  \* counter "panic"

placeVars == <<kind, at, phase>>
tallyVars == <<level, counted, panicTotal>>
vars == <<mode, placeVars, panics, err, msg, status, requestId, tallyVars>>

NoId == "none"

\* Responses: one the handler made, one that handlers share, a nil pointer,
\* and one whose request_id does not exist or is set by the handler.
Messages  == Rpcs \cup {"shared"}
Responses == Messages \cup {"nil", "plain"}

\* Errors: plain ones, those of a context, and gRPC statuses, which are named
\* by their code.
ContextErrors == {"context canceled", "context deadline exceeded"}
Codes         == {"NotFound", "InvalidArgument", "Unavailable"}
StatusCodes   == Codes \cup {"none", "OK", "Unknown", "Internal", "Canceled",
                            "DeadlineExceeded"}
Errors        == {"plain"} \cup ContextErrors \cup Codes

Status(result, id) == [code |-> result.code, text |-> result.text, id |-> id]

-----------------------------------------------------------------------------
(* The chains                                                              *)

\* Mutant: recovery comes first.
RecoveryOutermost ==
  [unary  |-> <<"recovery", "trace", "logging", "validate">>,
   stream |-> <<"recovery", "logging", "validate">>,
   check  |-> <<"recovery", "validate">>]

\* unaryOpts and streamOpts; the selector skips trace and logging for
\* Health/Check only.
Chain ==
  [unary  |-> <<"trace", "logging", "validate", "recovery">>,
   stream |-> <<"logging", "validate", "recovery">>,
   check  |-> <<"validate", "recovery">>]

In(r, interceptor) ==
  /\ at[r] \in 1 .. Len(Chain[kind[r]])
  /\ Chain[kind[r]][at[r]] = interceptor

InHandler(r) == at[r] = Len(Chain[kind[r]]) + 1

\* The process lives, and r does p.
Does(r, p) ==
  /\ \A q \in Rpcs : phase[q] # "crashed"
  /\ phase[r] = p

Goto(r, p, place) ==
  /\ phase' = [phase EXCEPT ![r] = p]
  /\ at' = [at EXCEPT ![r] = place]

Init ==
  /\ mode \in Modes
  /\ kind = [r \in Rpcs |-> "unary"]
  /\ at = [r \in Rpcs |-> 0]
  /\ phase = [r \in Rpcs |-> "new"]
  /\ panics = [r \in Rpcs |-> {}]
  /\ err = [r \in Rpcs |-> "none"]
  /\ msg = [r \in Rpcs |-> "plain"]
  /\ status = [r \in Rpcs |-> Status([code |-> "none", text |-> "none"], NoId)]
  /\ requestId = [m \in Messages |-> NoId]
  /\ level = [r \in Rpcs |-> "none"]
  /\ counted = [r \in Rpcs |-> <<>>]
  /\ panicTotal = 0

-----------------------------------------------------------------------------
(* Down the chain                                                          *)

Arrive(r, k) ==
  /\ Does(r, "new")
  /\ kind' = [kind EXCEPT ![r] = k]
  /\ Goto(r, "call", 1)
  /\ UNCHANGED <<mode, panics, err, msg, status, requestId, tallyVars>>

Enter(r) ==
  /\ Does(r, "call")
  /\ ~InHandler(r)
  /\ Goto(r, "call", at[r] + 1)
  /\ UNCHANGED <<mode, kind, panics, err, msg, status, requestId, tallyVars>>

\* A message of a stream is validated when the handler receives it.
Invalid(r) ==
  /\ Does(r, "call")
  /\ In(r, "validate") /\ kind[r] = "unary"
  /\ err' = [err EXCEPT ![r] = "InvalidArgument"]
  /\ Goto(r, "return", at[r] - 1)
  /\ UNCHANGED <<mode, kind, panics, msg, status, requestId, tallyVars>>

\* The handler of Health/Check is that of grpc-go.
HandlerReturns(r) ==
  /\ Does(r, "call")
  /\ InHandler(r)
  /\ \/ /\ \E e \in IF kind[r] = "check" THEN {"NotFound"} ELSE Errors :
             err' = [err EXCEPT ![r] = e]
        /\ UNCHANGED msg
     \/ /\ \E m \in IF kind[r] = "unary" THEN {r, "shared", "nil", "plain"}
                                         ELSE {"plain"} :
             msg' = [msg EXCEPT ![r] = m]
        /\ UNCHANGED err
  /\ Goto(r, "return", at[r] - 1)
  /\ UNCHANGED <<mode, kind, panics, status, requestId, tallyVars>>

HandlerPanics(r) ==
  /\ Does(r, "call")
  /\ InHandler(r) /\ kind[r] # "check"
  /\ panics' = [panics EXCEPT ![r] = @ \cup {"handler"}]
  /\ Goto(r, "panic", at[r] - 1)
  /\ UNCHANGED <<mode, kind, err, msg, status, requestId, tallyVars>>

-----------------------------------------------------------------------------
(* Up the chain                                                            *)

Pass(r) ==
  /\ Does(r, "return")
  /\ In(r, "validate") \/ In(r, "recovery")
  /\ Goto(r, "return", at[r] - 1)
  /\ UNCHANGED <<mode, kind, panics, err, msg, status, requestId, tallyVars>>

\* The recovery handler makes a plain error of the panic.
Recover(r) ==
  /\ Does(r, "panic")
  /\ In(r, "recovery")
  /\ err' = [err EXCEPT ![r] = "plain"]
  /\ panicTotal' = panicTotal + 1
  /\ Goto(r, "return", at[r] - 1)
  /\ UNCHANGED <<mode, kind, panics, msg, status, requestId, level, counted>>

\* The deferred calls of the trace interceptor run: the RPC is counted with
\* the code OK, and there is no response to complete.
Unwind(r) ==
  /\ Does(r, "panic")
  /\ at[r] > 0 /\ ~In(r, "recovery")
  /\ counted' = IF In(r, "trace")
                  THEN [counted EXCEPT ![r] = Append(@, "OK")] ELSE counted
  /\ Goto(r, "panic", at[r] - 1)
  /\ UNCHANGED <<mode, kind, panics, err, msg, status, requestId, level,
                 panicTotal>>

Crash(r) ==
  /\ Does(r, "panic")
  /\ at[r] = 0
  /\ Goto(r, "crashed", 0)
  /\ UNCHANGED <<mode, kind, panics, err, msg, status, requestId, tallyVars>>

-----------------------------------------------------------------------------
(* The logging interceptor                                                 *)

\* status.Code: an error that is no status is Unknown, context or not.
Code(e) == IF e = "none" THEN "OK" ELSE IF e \in Codes THEN e ELSE "Unknown"

Logf(code) ==
  IF code \in {"OK", "NotFound", "Canceled", "InvalidArgument"} THEN "info"
  ELSE IF code \in {"DeadlineExceeded", "Unavailable"} THEN "warn"
  ELSE "error"

Log(r) ==
  /\ Does(r, "return")
  /\ In(r, "logging")
  /\ level' = [level EXCEPT ![r] = Logf(Code(err[r]))]
  /\ Goto(r, "return", at[r] - 1)
  /\ UNCHANGED <<mode, kind, panics, err, msg, status, requestId, counted,
                 panicTotal>>

\* WithLogger and WithLoggingInterceptor let services log as they like.
LoggerPanics(r) ==
  /\ Does(r, "return")
  /\ In(r, "logging")
  /\ panics' = [panics EXCEPT ![r] = @ \cup {"logger"}]
  /\ Goto(r, "panic", at[r] - 1)
  /\ UNCHANGED <<mode, kind, err, msg, status, requestId, tallyVars>>

-----------------------------------------------------------------------------
(* The trace interceptor                                                   *)

FromContextError(e) ==
  IF e = "context canceled" THEN "Canceled" ELSE "DeadlineExceeded"

NoError == [code |-> "OK", text |-> "none"]

\* Mutant: errors are shown in production, and hidden elsewhere.
GrpcStatusSwapped(e) ==
  IF e \in Codes THEN [code |-> e, text |-> "status"]
  ELSE IF e \in ContextErrors
    THEN [code |-> FromContextError(e), text |-> "context"]
  ELSE [code |-> "Internal",
        text |-> IF mode = "production" THEN "raw" ELSE "generic"]

GrpcStatus(e) ==
  IF e \in Codes THEN [code |-> e, text |-> "status"]
  ELSE IF e \in ContextErrors
    THEN [code |-> FromContextError(e), text |-> "context"]
  ELSE [code |-> "Internal",
        text |-> IF mode # "production" THEN "raw" ELSE "generic"]

\* The error becomes a status with the trace id in its details.
Wrap(r) ==
  /\ Does(r, "return")
  /\ In(r, "trace")
  /\ status' = [status EXCEPT ![r] =
       IF err[r] = "none" THEN Status(NoError, NoId)
                          ELSE Status(GrpcStatus(err[r]), r)]
  /\ Goto(r, "count", at[r])
  /\ UNCHANGED <<mode, kind, panics, err, msg, requestId, tallyVars>>

\* Mutant: the code is the one the error had inside the chain.
CountRaw(r) ==
  /\ Does(r, "count")
  /\ counted' = [counted EXCEPT ![r] = Append(@, Code(err[r]))]
  /\ Goto(r, IF err[r] = "none" THEN "has" ELSE "return",
          IF err[r] = "none" THEN at[r] ELSE at[r] - 1)
  /\ UNCHANGED <<mode, kind, panics, err, msg, status, requestId, level,
                 panicTotal>>

\* The second deferred call runs first.
Count(r) ==
  /\ Does(r, "count")
  /\ counted' = [counted EXCEPT ![r] = Append(@, status[r].code)]
  /\ Goto(r, IF err[r] = "none" THEN "has" ELSE "return",
          IF err[r] = "none" THEN at[r] ELSE at[r] - 1)
  /\ UNCHANGED <<mode, kind, panics, err, msg, status, requestId, level,
                 panicTotal>>

\* Mutant: the test of m.Has is inverted.
HasInverted(r) ==
  /\ Does(r, "has")
  /\ IF msg[r] = "plain" \/ (msg[r] # "nil" /\ requestId[msg[r]] = NoId)
       THEN Goto(r, "return", at[r] - 1)
       ELSE Goto(r, "set", at[r])
  /\ UNCHANGED <<mode, kind, panics, err, msg, status, requestId, tallyVars>>

\* m.Has: true of a message that has an id already; false of a nil pointer,
\* which the test res != nil lets through.
Has(r) ==
  /\ Does(r, "has")
  /\ IF msg[r] = "plain" \/ (msg[r] # "nil" /\ requestId[msg[r]] # NoId)
       THEN Goto(r, "return", at[r] - 1)
       ELSE Goto(r, "set", at[r])
  /\ UNCHANGED <<mode, kind, panics, err, msg, status, requestId, tallyVars>>

\* m.Set panics on a nil pointer.
SetNil(r) ==
  /\ Does(r, "set")
  /\ msg[r] = "nil"
  /\ panics' = [panics EXCEPT ![r] = @ \cup {"response"}]
  /\ Goto(r, "panic", at[r] - 1)
  /\ UNCHANGED <<mode, kind, err, msg, status, requestId, tallyVars>>

Set(r) ==
  /\ Does(r, "set")
  /\ msg[r] # "nil"
  /\ requestId' = [requestId EXCEPT ![msg[r]] = r]
  /\ Goto(r, "return", at[r] - 1)
  /\ UNCHANGED <<mode, kind, panics, err, msg, status, tallyVars>>

-----------------------------------------------------------------------------
(* grpc-go sends the status or the response                                *)

\* An error without a status is Unknown, unless it is a context's.
Default(e) ==
  IF e = "none" THEN NoError
  ELSE IF e \in Codes \cup ContextErrors THEN GrpcStatus(e)
  ELSE [code |-> "Unknown", text |-> "raw"]

\* The trace interceptor, if there was one, has made the status already.
Answer(r) ==
  LET own == IF status[r].code # "none" THEN status[r]
                                        ELSE Status(Default(err[r]), NoId)
  IN
  /\ Does(r, "return")
  /\ at[r] = 0
  /\ status' = [status EXCEPT ![r] =
       IF err[r] = "none" /\ msg[r] \in Messages
         THEN [own EXCEPT !.id = requestId[msg[r]]] ELSE own]
  /\ Goto(r, "answered", 0)
  /\ UNCHANGED <<mode, kind, panics, err, msg, requestId, tallyVars>>

Next ==
  \E r \in Rpcs :
    \/ \E k \in {"unary", "stream", "check"} : Arrive(r, k)
    \/ Enter(r) \/ Invalid(r) \/ HandlerReturns(r) \/ HandlerPanics(r)
    \/ Pass(r) \/ Recover(r) \/ Unwind(r) \/ Crash(r)
    \/ Log(r) \/ LoggerPanics(r)
    \/ Wrap(r) \/ Count(r) \/ Has(r) \/ SetNil(r) \/ Set(r)
    \/ Answer(r)

SafeSpec == Init /\ [][Next]_vars

-----------------------------------------------------------------------------
Answered(r) == phase[r] = "answered"

TypeOK ==
  /\ mode \in Modes
  /\ kind \in [Rpcs -> {"unary", "stream", "check"}]
  /\ at \in [Rpcs -> 0 .. 5]
  /\ phase \in [Rpcs -> {"new", "call", "return", "panic", "count", "has",
                         "set", "answered", "crashed"}]
  /\ panics \in [Rpcs -> SUBSET {"handler", "logger", "response"}]
  /\ err \in [Rpcs -> Errors \cup {"none"}]
  /\ msg \in [Rpcs -> Responses]
  /\ status \in [Rpcs -> [code : StatusCodes,
                         text : {"none", "status", "context", "raw", "generic"},
                         id : Rpcs \cup {NoId}]]
  /\ requestId \in [Messages -> Rpcs \cup {NoId}]
  /\ level \in [Rpcs -> {"none", "info", "warn", "error"}]
  /\ counted \in [Rpcs -> Seq(StatusCodes)]
  /\ panicTotal \in Nat

\* Every unary RPC that got an answer was counted once, with the code of the
\* answer; health checks and streams are not counted.
CountedAsAnswered ==
  \A r \in Rpcs :
    Answered(r) =>
      counted[r] = IF kind[r] = "unary" THEN <<status[r].code>> ELSE <<>>

\* A handler that panics takes nobody down: its client is told of an error of
\* the server, and the process ends only if the logger panics as well.
HandlerPanicContained ==
  \A r \in Rpcs :
    "handler" \in panics[r] =>
      /\ phase[r] = "crashed" => "logger" \in panics[r]
      /\ Answered(r) => status[r].code =
                           IF kind[r] = "unary" THEN "Internal" ELSE "Unknown"

\* In production the text of a plain error, or of a panic, stays inside; but
\* streams have no trace interceptor, and show it.
InternalsHidden ==
  \A r \in Rpcs :
    mode = "production" /\ Answered(r) /\ kind[r] = "unary" =>
      status[r].text # "raw"

\* A client finds its own trace id in the details of an error and in a
\* response that was made for it; in one that handlers share it finds the id
\* of an RPC that got that response too.
OwnRequestId ==
  \A r \in Rpcs :
    Answered(r) /\ kind[r] = "unary" =>
      /\ err[r] # "none" \/ msg[r] = r => status[r].id = r
      /\ err[r] = "none" /\ msg[r] = "shared" =>
           \E q \in Rpcs : msg[q] = "shared" /\ status[r].id = q

\* The line logged at the end of an RPC has the level of the code the client
\* gets, but for errors of a context: the logger sees the error before the
\* trace interceptor, or grpc-go, makes a status of it.
LevelOfAnswer ==
  \A r \in Rpcs :
    Answered(r) /\ kind[r] # "check" /\ err[r] \notin ContextErrors =>
      level[r] = Logf(status[r].code)

\* The strengthening under which the invariants above are inductive.
\* Place: where an RPC can be, and what it does there.
Place(r) ==
  /\ phase[r] \in {"new", "answered", "crashed"} => at[r] = 0
  /\ phase[r] = "call" => at[r] \in 1 .. Len(Chain[kind[r]]) + 1
  /\ phase[r] \in {"return", "panic"} => at[r] \in 0 .. Len(Chain[kind[r]])
  /\ phase[r] \in {"count", "has", "set"} => kind[r] = "unary" /\ at[r] = 1
  /\ phase[r] \in {"has", "set"} => err[r] = "none"

\* Below: the result has not left the chain; Above: it has.
Below(r) == phase[r] = "new" \/ (phase[r] \in {"call", "return", "panic"}
                                  /\ at[r] > 0)
Above(r) == phase[r] \in {"return", "answered"} /\ at[r] = 0

Traced(r) ==
  kind[r] = "unary" /\ (phase[r] \in {"count", "has", "set"} \/ Above(r))

\* Result: the status of a unary RPC is made and counted on the way up.
Result(r) ==
  /\ Below(r) \/ (phase[r] = "return" /\ kind[r] # "unary") =>
       status[r].code = "none"
  /\ Traced(r) =>
       LET made == IF err[r] = "none" THEN NoError ELSE GrpcStatus(err[r])
       IN  status[r].code = made.code /\ status[r].text = made.text
  /\ Traced(r) /\ err[r] # "none" => status[r].id = r
  /\ Answered(r) /\ kind[r] # "unary" =>
       status[r].code = Default(err[r]).code

Tally(r) ==
  /\ Below(r) \/ phase[r] = "count" \/ (Above(r) /\ kind[r] # "unary") =>
       counted[r] = <<>>
  /\ Traced(r) /\ phase[r] # "count" => counted[r] = <<status[r].code>>

\* Logged: the line is written with the error that goes up.
Logged(r) ==
  Traced(r) \/ (Above(r) /\ kind[r] # "check")
      \/ (kind[r] = "unary" /\ phase[r] = "return" /\ at[r] = 1) =>
    level[r] = Logf(Code(err[r]))

\* Panicked: a handler's panic gets past recovery as an error only, and a
\* logger's panic never meets recovery.
Panicked(r) ==
  /\ phase[r] \in {"new", "call"} => panics[r] = {} /\ err[r] = "none"
  /\ "handler" \in panics[r] /\ "logger" \notin panics[r] =>
       IF phase[r] = "panic" THEN In(r, "recovery")
                             ELSE err[r] = "plain" /\ phase[r] # "crashed"
  /\ "logger" \in panics[r] =>
       phase[r] = "crashed" \/ (phase[r] = "panic" /\ at[r] < 2)

\* Ids: a message has the id of an RPC that returns it.
Ids ==
  /\ \A r \in Rpcs : /\ msg[r] \in {r, "shared", "nil", "plain"}
                     /\ phase[r] \in {"new", "call"} => msg[r] = "plain"
  /\ \A m \in Messages : requestId[m] # NoId => msg[requestId[m]] = m
  /\ \A r \in Rpcs :
       Traced(r) /\ Above(r) /\ err[r] = "none" /\ msg[r] \in Messages =>
         requestId[msg[r]] # NoId

IInv ==
  /\ TypeOK
  /\ \A r \in Rpcs : /\ Place(r) /\ Result(r) /\ Tally(r) /\ Logged(r)
                     /\ Panicked(r)
  /\ Ids /\ OwnRequestId

\* What log.go:135 says: the level is that of the gRPC return code.
LevelOfReturnCode ==
  \A r \in Rpcs :
    Answered(r) /\ level[r] # "none" => level[r] = Logf(status[r].code)
=============================================================================
