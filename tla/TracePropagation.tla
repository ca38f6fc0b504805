-------------------------- MODULE TracePropagation --------------------------
(***************************************************************************)
(* How a trace goes from service to service: the request ids and trace     *)
(* ids of common.go, the gateway's header matcher (server.go), the         *)
(* extractor and the span of an RPC (serve.go), the header of its response *)
(* (trace.go) and the headers that a client sets (http.go, client.go).     *)
(*                                                                         *)
(* A handler may call other services while it runs, through an HttpCfg     *)
(* client, whose request goes to the gateway of the service, or through a  *)
(* grpcclient.  RPCs are unary.  OpenTelemetry, resty and grpc-gateway are *)
(* external: a new trace has an id that is not in use, and a span without  *)
(* a parent begins one.  A string is the sequence of its bytes.            *)
(***************************************************************************)
EXTENDS Integers, Sequences

CONSTANTS
  Width,       \* bytes of a trace id, len(traceId)
  Ids,         \* trace ids that occur as parents or as new traces
  RequestIds,  \* strings that come from outside as x-request-id
  OwnIds,      \* strings that handlers give as x-request-id
  MaxSpans     \* bound on the RPCs that belong to one request

TraceIds == [1 .. Width -> 0 .. 255]
Zero     == [i \in 1 .. Width |-> 0]

ASSUME TraceAssumption ==
  /\ Width \in Nat \ {0}
  /\ Ids \subseteq TraceIds \ {Zero}
  /\ RequestIds \cup OwnIds \subseteq Seq(0 .. 255)
  /\ MaxSpans \in Nat

VARIABLES
  passed,    \* headers of WithPassThruIncomingHeaders, in lower case
  provider,  \* whether kyber-trace-go has a tracer provider
  spans      \* RPCs of the request, in the order in which they began

vars == <<passed, provider, spans>>

Init ==
  /\ passed \in SUBSET {"traceparent"}
  /\ provider \in BOOLEAN
  /\ spans = <<>>

-----------------------------------------------------------------------------
(* Conversions of ids                                                      *)

HexDigit(v) == IF v < 10 THEN 48 + v ELSE 87 + v
IsHex(b)    == b \in (48 .. 57) \cup (65 .. 70) \cup (97 .. 102)
HexValue(b) == IF b <= 57 THEN b - 48 ELSE IF b <= 70 THEN b - 55 ELSE b - 87

\* TraceID.String
String(id) ==
  [k \in 1 .. 2 * Width |->
     HexDigit(IF k % 2 = 1 THEN id[(k + 1) \div 2] \div 16
                           ELSE id[k \div 2] % 16)]

\* Mutant: a request id is cut to the length of a trace id in bytes.
CutToBytes(s) ==
  IF Len(s) > Width THEN SubSeq(s, 1, Width)
  ELSE IF Len(s) % 2 # 0 THEN Append(s, 48) ELSE s

\* A long id is cut; "0" goes after one of odd length.
Cut(s) ==
  IF Len(s) > 2 * Width THEN SubSeq(s, 1, 2 * Width)
  ELSE IF Len(s) % 2 # 0 THEN Append(s, 48) ELSE s

\* Hexadecimal or, if some byte is none, the bytes themselves.
CtxWithTraceId(s) ==
  LET t   == Cut(s)
      hex == \A k \in DOMAIN t : IsHex(t[k])
  IN  [i \in 1 .. Width |->
         IF hex /\ 2 * i <= Len(t)
           THEN 16 * HexValue(t[2 * i - 1]) + HexValue(t[2 * i])
         ELSE IF ~hex /\ i <= Len(t) THEN t[i] ELSE 0]

-----------------------------------------------------------------------------
(* The server                                                              *)

NoClient == "none"

\* Mutant: client ids do not pass.
WithoutClientId ==
  {"x-forwarded-for", "x-trace-id", "x-request-id"}

DefaultPassThruHeaders ==
  {"x-forwarded-for", "x-client-id", "x-trace-id", "x-request-id"}

\* CustomHeaderMatcher for requests: grpc-gateway passes none of these itself.
Gateway(h) ==
  LET matches(key) == key \in DefaultPassThruHeaders \cup passed
  IN  [traceparent |-> IF matches("traceparent") THEN h.traceparent ELSE Zero,
       requestIds  |-> IF matches("x-request-id") THEN h.requestIds ELSE <<>>,
       client      |-> IF matches("x-client-id") THEN h.client ELSE NoClient]

\* Mutant: a request id goes before the parent.
ExtractRequestId(h) ==
  IF h.requestIds # <<>> THEN CtxWithTraceId(h.requestIds[1])
                         ELSE h.traceparent

\* requestIdExtractor.Extract: a valid parent goes before a request id.
Extract(h) ==
  IF h.traceparent # Zero THEN h.traceparent
  ELSE IF h.requestIds = <<>> THEN Zero ELSE CtxWithTraceId(h.requestIds[1])

InUse == {spans[i].trace : i \in DOMAIN spans}

New == Ids \ InUse

\* The span of an RPC has the trace that was extracted, or begins one.
Start(id) == IF id = Zero THEN New ELSE {id}

\* clientIdFromCtx
ClientIdFromCtx(h) == IF h.client = NoClient THEN "unknown" ELSE h.client

Serve(parent, via, kept, sent) ==
  LET h == IF via = "http" THEN Gateway(sent) ELSE sent
  IN  /\ Len(spans) < MaxSpans    \* bound: MaxSpans
      /\ \E trace \in Start(Extract(h)) :
           spans' = Append(spans,
             [parent |-> parent, via |-> via, kept |-> kept, sent |-> sent,
              trace |-> trace, client |-> ClientIdFromCtx(h)])
      /\ UNCHANGED <<passed, provider>>

\* X-Trace-Id of the response, which the outgoing matcher passes as it is.
Shown(i) ==
  IF spans[i].via = "grpc" \/ "x-trace-id" \in DefaultPassThruHeaders
    THEN <<String(spans[i].trace)>> ELSE <<>>

-----------------------------------------------------------------------------
(* Clients                                                                 *)

\* A request from outside.
Request ==
  /\ spans = <<>>
  /\ \E via \in {"http", "grpc"}, parent \in Ids \cup {Zero},
        ids \in {<<>>} \cup {<<s>> : s \in RequestIds},
        client \in {NoClient, "outside"} :
       Serve(0, via, FALSE, [traceparent |-> parent, requestIds |-> ids,
                             client |-> client])

\* The trace a call belongs to: that of the handler's ctx, or a new one for
\* a ctx that the handler made itself.
TraceIdFromCtx(i, kept) == IF kept THEN {spans[i].trace} ELSE New

\* HttpCfg's OnBeforeRequest: the request's own id stays.
RequestId(i, kept, own) ==
  IF own = <<>> /\ kept THEN <<String(spans[i].trace)>> ELSE own

\* Only a tracer provider of kyber-trace-go makes the transport send a parent.
CallHttp(i, kept, own) ==
  \E trace \in TraceIdFromCtx(i, kept) :
    Serve(i, "http", kept,
      [traceparent |-> IF provider THEN trace ELSE Zero,
       requestIds  |-> RequestId(i, kept, own),
       client      |-> "service"])

CallGrpc(i, kept) ==
  \E trace \in TraceIdFromCtx(i, kept) :
    Serve(i, "grpc", kept,
      [traceparent |-> trace, requestIds |-> <<>>, client |-> "service"])

Next ==
  \/ Request
  \/ \E i \in DOMAIN spans, kept \in BOOLEAN :
       \/ CallGrpc(i, kept)
       \/ \E own \in {<<>>} \cup {<<s>> : s \in OwnIds} :
            CallHttp(i, kept, own)

Spec == Init /\ [][Next]_vars

-----------------------------------------------------------------------------
Sent == [traceparent : TraceIds,
         requestIds  : Seq(Seq(0 .. 255)),
         client      : {NoClient, "outside", "service"}]

Span == [parent : Nat, via : {"http", "grpc"}, kept : BOOLEAN, sent : Sent,
         trace  : TraceIds \ {Zero},
         client : {"unknown", "outside", "service"}]

\* Every RPC is in a trace: no request id stands for none.
TypeOK ==
  /\ passed \subseteq {"traceparent"} /\ provider \in BOOLEAN
  /\ spans \in Seq(Span)
  /\ \A i \in DOMAIN spans :
       IF spans[i].kept THEN spans[i].parent \in 1 .. i - 1
                        ELSE spans[i].parent \in 0 .. i - 1

\* Whether the gateway lets the parent of a call by HTTP through.
ParentPasses == provider /\ "traceparent" \in passed

\* A call whose handler passes its ctx on is in the trace of the handler,
\* whichever way it goes, unless the handler gives an id of its own to a
\* request whose parent the gateway drops.
TraceKept ==
  \A i \in DOMAIN spans :
    LET s == spans[i]
    IN  s.kept =>
          \/ s.trace = spans[s.parent].trace
          \/ /\ s.via = "http" /\ ~ParentPasses
             /\ s.sent.requestIds # <<String(spans[s.parent].trace)>>

\* A request id in the form of a trace id.
Full(s) ==
  /\ Len(s) = 2 * Width
  /\ \A k \in DOMAIN s : IsHex(s[k])
  /\ \E k \in DOMAIN s : s[k] # 48

Parent(s) ==
  s.sent.traceparent # Zero
    /\ (s.via = "grpc" \/ "traceparent" \in passed)

SameHex(s, t) ==
  Len(s) = Len(t) /\ \A k \in DOMAIN s : HexValue(s[k]) = HexValue(t[k])

\* Who gives a request id in the form of a trace id, and no parent that
\* arrives, finds it in the response, but for the case of its letters.
RequestIdEchoed ==
  \A i \in DOMAIN spans :
    LET s == spans[i]
    IN  ~Parent(s) /\ s.sent.requestIds # <<>> /\ Full(s.sent.requestIds[1])
          => Shown(i) # <<>> /\ SameHex(Shown(i)[1], s.sent.requestIds[1])

\* An RPC is counted for the client that says who it is.
CallerCounted ==
  \A i \in DOMAIN spans :
    spans[i].client =
      IF spans[i].sent.client = NoClient THEN "unknown"
                                         ELSE spans[i].sent.client
=============================================================================
