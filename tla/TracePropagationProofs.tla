----------------------- MODULE TracePropagationProofs -----------------------
(***************************************************************************)
(* Proofs about TracePropagation: a trace goes on from handler to callee,  *)
(* and a request id in the form of a trace id comes back, for trace ids of *)
(* any width and any ids that are given.                                   *)
(***************************************************************************)
EXTENDS TracePropagation, TLAPS

Byte == 0 .. 255

\* What is printed can be read.
LEMMA HexRoundTrip ==
  \A v \in 0 .. 15 :
    HexDigit(v) \in Byte /\ IsHex(HexDigit(v)) /\ HexValue(HexDigit(v)) = v
BY DEF HexDigit, IsHex, HexValue, Byte

\* What is read is a digit, and is printed as one of the same value.
LEMMA HexRead ==
  \A b \in Byte : IsHex(b) =>
    /\ HexValue(b) \in 0 .. 15
    /\ HexValue(b) = 0 <=> b = 48
    /\ HexValue(HexDigit(HexValue(b))) = HexValue(b)
BY DEF HexDigit, IsHex, HexValue, Byte

LEMMA Nibbles ==
  \A b \in 0 .. 255 :
    b \div 16 \in 0 .. 15 /\ b % 16 \in 0 .. 15 /\ 16 * (b \div 16) + (b % 16) = b
OBVIOUS

LEMMA Join == \A v, w \in 0 .. 15 : 16 * v + w \in 0 .. 255
OBVIOUS

LEMMA Split ==
  \A v, w \in 0 .. 15 : (16 * v + w) \div 16 = v /\ (16 * v + w) % 16 = w
OBVIOUS

LEMMA StringType ==
  ASSUME NEW id \in TraceIds
  PROVE  /\ String(id) \in Seq(Byte) /\ Len(String(id)) = 2 * Width
         /\ \A k \in 1 .. 2 * Width :
              String(id)[k] =
                HexDigit(IF k % 2 = 1 THEN id[(k + 1) \div 2] \div 16
                                      ELSE id[k \div 2] % 16)
         /\ \A k \in 1 .. 2 * Width : IsHex(String(id)[k])
<1>1. Width \in Nat /\ 2 * Width \in Nat
  BY TraceAssumption
<1>2. ASSUME NEW k \in 1 .. 2 * Width
      PROVE  (IF k % 2 = 1 THEN id[(k + 1) \div 2] \div 16
                           ELSE id[k \div 2] % 16) \in 0 .. 15
  <2>1. CASE k % 2 = 1
    <3>1. (k + 1) \div 2 \in 1 .. Width
      BY <1>1, <2>1
    <3>2. id[(k + 1) \div 2] \in 0 .. 255
      BY <3>1 DEF TraceIds
    <3> QED BY <2>1, <3>2
  <2>2. CASE k % 2 # 1
    <3>1. k \div 2 \in 1 .. Width
      BY <1>1, <2>2
    <3>2. id[k \div 2] \in 0 .. 255
      BY <3>1 DEF TraceIds
    <3> QED BY <2>2, <3>2
  <2> QED BY <2>1, <2>2
<1>3. /\ DOMAIN String(id) = 1 .. 2 * Width
      /\ \A k \in 1 .. 2 * Width :
           String(id)[k] =
             HexDigit(IF k % 2 = 1 THEN id[(k + 1) \div 2] \div 16
                                   ELSE id[k \div 2] % 16)
  BY DEF String
<1>4. \A k \in 1 .. 2 * Width :
        String(id)[k] \in Byte /\ IsHex(String(id)[k])
  BY <1>2, <1>3, HexRoundTrip
<1>5. String(id) \in [1 .. 2 * Width -> Byte]
  BY <1>3, <1>4 DEF String
<1> QED BY <1>1, <1>3, <1>4, <1>5

\* A string of the full length is read byte by byte.
LEMMA ReadFull ==
  ASSUME NEW s \in Seq(Byte), Len(s) = 2 * Width,
         \A k \in 1 .. 2 * Width : IsHex(s[k])
  PROVE  CtxWithTraceId(s) =
           [i \in 1 .. Width |-> 16 * HexValue(s[2 * i - 1]) + HexValue(s[2 * i])]
<1>1. Width \in Nat
  BY TraceAssumption
<1>2. (2 * Width) % 2 = 0 /\ ~(2 * Width > 2 * Width)
  BY <1>1
<1>3. Cut(s) = s
  BY <1>2 DEF Cut
<1>4. \A k \in DOMAIN s : IsHex(s[k])
  OBVIOUS
<1>5. \A i \in 1 .. Width : 2 * i <= 2 * Width
  BY <1>1
<1> QED BY <1>3, <1>4, <1>5 DEF CtxWithTraceId

LEMMA RoundTrip ==
  ASSUME NEW id \in TraceIds
  PROVE  CtxWithTraceId(String(id)) = id
<1> DEFINE s == String(id)
<1>1. Width \in Nat
  BY TraceAssumption
<1>2. CtxWithTraceId(s) =
        [i \in 1 .. Width |-> 16 * HexValue(s[2 * i - 1]) + HexValue(s[2 * i])]
  BY StringType, ReadFull
<1>3. ASSUME NEW i \in 1 .. Width
      PROVE  16 * HexValue(s[2 * i - 1]) + HexValue(s[2 * i]) = id[i]
  <2>1. id[i] \in 0 .. 255
    BY DEF TraceIds
  <2>2. /\ 2 * i - 1 \in 1 .. 2 * Width /\ 2 * i \in 1 .. 2 * Width
        /\ (2 * i - 1) % 2 = 1 /\ (2 * i) % 2 # 1
        /\ (2 * i - 1 + 1) \div 2 = i /\ (2 * i) \div 2 = i
    BY <1>1
  <2>3. /\ s[2 * i - 1] = HexDigit(id[i] \div 16)
        /\ s[2 * i] = HexDigit(id[i] % 16)
    BY <2>2, StringType
  <2>4. /\ id[i] \div 16 \in 0 .. 15 /\ id[i] % 16 \in 0 .. 15
        /\ 16 * (id[i] \div 16) + (id[i] % 16) = id[i]
    BY <2>1, Nibbles
  <2>5. HexValue(s[2 * i - 1]) = id[i] \div 16 /\ HexValue(s[2 * i]) = id[i] % 16
    BY <2>3, <2>4, HexRoundTrip
  <2> QED BY <2>4, <2>5
<1>4. id = [i \in 1 .. Width |-> id[i]]
  BY DEF TraceIds
<1> QED BY <1>2, <1>3, <1>4

LEMMA CutType ==
  ASSUME NEW s \in Seq(Byte)
  PROVE  Cut(s) \in Seq(Byte)
BY TraceAssumption DEF Cut, Byte

LEMMA CtxType ==
  ASSUME NEW s \in Seq(Byte)
  PROVE  CtxWithTraceId(s) \in TraceIds
<1> DEFINE t   == Cut(s)
           hex == \A k \in DOMAIN t : IsHex(t[k])
<1>1. t \in Seq(Byte)
  BY CutType
<1>2. CtxWithTraceId(s) =
        [i \in 1 .. Width |->
           IF hex /\ 2 * i <= Len(t)
             THEN 16 * HexValue(t[2 * i - 1]) + HexValue(t[2 * i])
           ELSE IF ~hex /\ i <= Len(t) THEN t[i] ELSE 0]
  BY DEF CtxWithTraceId
<1> HIDE DEF t
<1>3. ASSUME NEW i \in 1 .. Width, hex, 2 * i <= Len(t)
      PROVE  16 * HexValue(t[2 * i - 1]) + HexValue(t[2 * i]) \in 0 .. 255
  <2>1. 2 * i - 1 \in DOMAIN t /\ 2 * i \in DOMAIN t
    BY <1>1, <1>3, TraceAssumption
  <2>2. HexValue(t[2 * i - 1]) \in 0 .. 15 /\ HexValue(t[2 * i]) \in 0 .. 15
    BY <1>1, <1>3, <2>1, HexRead
  <2> QED BY <2>2, Join
<1>4. ASSUME NEW i \in 1 .. Width, i <= Len(t)
      PROVE  t[i] \in 0 .. 255
  <2>1. i \in 1 .. Len(t)
    BY <1>1, <1>4
  <2>2. t[i] \in Byte
    BY <2>1, <1>1
  <2> QED BY <2>2 DEF Byte
<1> HIDE DEF hex
<1>5. ASSUME NEW i \in 1 .. Width
      PROVE  (IF hex /\ 2 * i <= Len(t)
                THEN 16 * HexValue(t[2 * i - 1]) + HexValue(t[2 * i])
              ELSE IF ~hex /\ i <= Len(t) THEN t[i] ELSE 0) \in 0 .. 255
  <2>1. CASE hex /\ 2 * i <= Len(t)
    BY <2>1, <1>3
  <2>2. CASE ~hex /\ i <= Len(t)
    BY <2>2, <1>4
  <2> QED BY <2>1, <2>2
<1> QED BY <1>2, <1>5 DEF TraceIds

-----------------------------------------------------------------------------
(* A new span                                                              *)

IInv == TypeOK /\ TraceKept /\ RequestIdEchoed /\ CallerCounted

\* A request id in the form of a trace id is the one that comes back.
LEMMA Echo ==
  ASSUME NEW s \in Seq(Byte), Full(s)
  PROVE  LET id == CtxWithTraceId(s)
         IN  id \in TraceIds \ {Zero} /\ SameHex(String(id), s)
<1> DEFINE id == CtxWithTraceId(s)
<1>1. /\ Width \in Nat /\ Len(s) = 2 * Width /\ DOMAIN s = 1 .. 2 * Width
      /\ \A k \in 1 .. 2 * Width : s[k] \in Byte /\ IsHex(s[k])
  BY TraceAssumption DEF Full
<1>2. id = [i \in 1 .. Width |-> 16 * HexValue(s[2 * i - 1]) + HexValue(s[2 * i])]
  BY <1>1, ReadFull
<1>3. id \in TraceIds
  BY CtxType
<1> HIDE DEF id
<1>4. ASSUME NEW i \in 1 .. Width
      PROVE  /\ HexValue(s[2 * i - 1]) \in 0 .. 15 /\ HexValue(s[2 * i]) \in 0 .. 15
             /\ id[i] \div 16 = HexValue(s[2 * i - 1])
             /\ id[i] % 16 = HexValue(s[2 * i])
  <2>1. 2 * i - 1 \in 1 .. 2 * Width /\ 2 * i \in 1 .. 2 * Width
    BY <1>1
  <2>2. HexValue(s[2 * i - 1]) \in 0 .. 15 /\ HexValue(s[2 * i]) \in 0 .. 15
    BY <1>1, <2>1, HexRead
  <2>3. id[i] = 16 * HexValue(s[2 * i - 1]) + HexValue(s[2 * i])
    BY <1>2
  <2> QED BY <2>2, <2>3, Split
<1>5. ASSUME NEW k \in 1 .. 2 * Width
      PROVE  String(id)[k] = HexDigit(HexValue(s[k]))
  <2>1. CASE k % 2 = 1
    <3>1. (k + 1) \div 2 \in 1 .. Width /\ 2 * ((k + 1) \div 2) - 1 = k
      BY <2>1, <1>1
    <3>2. id[(k + 1) \div 2] \div 16 = HexValue(s[k])
      BY <3>1, <1>4
    <3> QED BY <2>1, <3>2, <1>3, StringType
  <2>2. CASE k % 2 # 1
    <3>1. k \div 2 \in 1 .. Width /\ 2 * (k \div 2) = k
      BY <2>2, <1>1
    <3>2. id[k \div 2] % 16 = HexValue(s[k])
      BY <3>1, <1>4
    <3> QED BY <2>2, <3>2, <1>3, StringType
  <2> QED BY <2>1, <2>2
<1>6. SameHex(String(id), s)
  <2>1. Len(String(id)) = 2 * Width /\ String(id) \in Seq(Byte)
    BY <1>3, StringType
  <2>2. ASSUME NEW k \in 1 .. 2 * Width
        PROVE  HexValue(String(id)[k]) = HexValue(s[k])
    BY <1>1, <1>5, HexRead
  <2> QED BY <1>1, <2>1, <2>2 DEF SameHex
<1>7. id # Zero
  <2>1. PICK k \in 1 .. 2 * Width : s[k] # 48
    BY <1>1 DEF Full
  <2>2. HexValue(s[k]) # 0
    BY <1>1, <2>1, HexRead
  <2>3. HexValue(String(id)[k]) # 0
    BY <1>1, <1>5, <2>2, HexRead
  <2>4. ASSUME id = Zero PROVE FALSE
    <3>1. String(id)[k] = HexDigit(0)
      <4>1. (k % 2 = 1 => (k + 1) \div 2 \in 1 .. Width)
              /\ (k % 2 # 1 => k \div 2 \in 1 .. Width)
        BY <1>1
      <4>2. 0 \div 16 = 0 /\ 0 % 16 = 0
        OBVIOUS
      <4> QED BY <4>1, <4>2, <2>4, <1>3, StringType DEF Zero
    <3> QED BY <3>1, <2>3, HexRoundTrip
  <2> QED BY <2>4
<1> QED BY <1>3, <1>6, <1>7 DEF id

\* What handlers send on: the trace they are in, or an id of their own.
Linked(parent, via, kept, sent) ==
  kept =>
    /\ parent \in DOMAIN spans
    /\ via = "grpc" => sent.traceparent = spans[parent].trace
    /\ via = "http" =>
         /\ sent.traceparent = IF provider THEN spans[parent].trace ELSE Zero
         /\ sent.requestIds # <<>>

LEMMA GatewayType ==
  ASSUME NEW sent \in Sent
  PROVE  /\ Gateway(sent) \in Sent
         /\ Gateway(sent).requestIds = sent.requestIds
         /\ Gateway(sent).client = sent.client
         /\ Gateway(sent).traceparent =
              IF "traceparent" \in passed THEN sent.traceparent ELSE Zero
<1>1. Zero \in TraceIds
  BY DEF Zero, TraceIds
<1> QED BY <1>1 DEF Gateway, Sent, DefaultPassThruHeaders

LEMMA ExtractType ==
  ASSUME NEW h \in Sent
  PROVE  Extract(h) \in TraceIds
<1>1. h.traceparent \in TraceIds /\ h.requestIds \in Seq(Seq(Byte))
  BY DEF Sent, Byte
<1>2. CASE h.requestIds # <<>>
  <2>1. h.requestIds[1] \in Seq(Byte)
    BY <1>1, <1>2
  <2>2. CtxWithTraceId(h.requestIds[1]) \in TraceIds
    BY <2>1, CtxType
  <2> QED BY <1>1, <1>2, <2>2 DEF Extract
<1>3. CASE h.requestIds = <<>>
  BY <1>1, <1>3 DEF Extract, Zero, TraceIds
<1> QED BY <1>2, <1>3

LEMMA ServeInv ==
  ASSUME IInv,
         NEW parent \in 0 .. Len(spans), NEW via \in {"http", "grpc"},
         NEW kept \in BOOLEAN, NEW sent \in Sent,
         Linked(parent, via, kept, sent), Serve(parent, via, kept, sent)
  PROVE  IInv'
<1> DEFINE h == IF via = "http" THEN Gateway(sent) ELSE sent
           n == Len(spans) + 1
<1>1. PICK trace \in Start(Extract(h)) :
        spans' = Append(spans,
          [parent |-> parent, via |-> via, kept |-> kept, sent |-> sent,
           trace |-> trace, client |-> ClientIdFromCtx(h)])
  BY DEF Serve
<1> DEFINE s == [parent |-> parent, via |-> via, kept |-> kept, sent |-> sent,
                 trace |-> trace, client |-> ClientIdFromCtx(h)]
<1>2. UNCHANGED <<passed, provider>>
  BY DEF Serve
<1>3. h \in Sent /\ h.requestIds = sent.requestIds /\ h.client = sent.client
        /\ h.traceparent =
             IF via = "grpc" \/ "traceparent" \in passed
               THEN sent.traceparent ELSE Zero
  BY GatewayType
<1> HIDE DEF h
<1>4. /\ trace \in TraceIds \ {Zero}
      /\ Extract(h) # Zero => trace = Extract(h)
  <2>1. Extract(h) \in TraceIds
    BY <1>3, ExtractType
  <2>2. New \subseteq TraceIds \ {Zero}
    BY TraceAssumption DEF New
  <2> QED BY <1>1, <2>1, <2>2 DEF Start
<1>5. ClientIdFromCtx(h) =
        IF sent.client = NoClient THEN "unknown" ELSE sent.client
  BY <1>3 DEF ClientIdFromCtx
<1>6. s \in Span
  <2>1. sent.client \in {NoClient, "outside", "service"}
    BY DEF Sent
  <2>2. ClientIdFromCtx(h) \in {"unknown", "outside", "service"}
    BY <1>5, <2>1
  <2>3. parent \in Nat
    OBVIOUS
  <2> QED BY <1>4, <2>2, <2>3 DEF Span
<1>7. /\ spans \in Seq(Span) /\ spans' \in Seq(Span) /\ Len(spans) \in Nat
      /\ DOMAIN spans' = 1 .. n /\ DOMAIN spans = 1 .. Len(spans)
      /\ spans'[n] = s
      /\ \A i \in 1 .. Len(spans) : spans'[i] = spans[i]
  BY <1>1, <1>6 DEF IInv, TypeOK
<1>8. /\ s.parent = parent /\ s.via = via /\ s.kept = kept /\ s.sent = sent
      /\ s.trace = trace /\ s.client = ClientIdFromCtx(h)
  OBVIOUS
<1> HIDE DEF s
<1>9. \A i \in DOMAIN spans' : i \in DOMAIN spans \/ i = n
  BY <1>7
<1>10. TypeOK'
  <2>1. kept => parent \in 1 .. Len(spans)
    BY <1>7 DEF Linked
  <2>2. IF s.kept THEN s.parent \in 1 .. n - 1 ELSE s.parent \in 0 .. n - 1
    BY <1>7, <1>8, <2>1
  <2> QED BY <1>2, <1>7, <1>9, <2>2 DEF IInv, TypeOK
<1>11. TraceKept'
  <2>1. ASSUME NEW i \in DOMAIN spans, spans[i].kept
        PROVE  spans[i].parent \in 1 .. Len(spans)
    <3>1. spans[i].parent \in 1 .. i - 1
      BY <2>1 DEF IInv, TypeOK
    <3> QED BY <3>1, <1>7
  <2>2. ASSUME kept, ~(via = "http" /\ ~ParentPasses
                        /\ sent.requestIds # <<String(spans[parent].trace)>>)
        PROVE  trace = spans[parent].trace
    <3> DEFINE id == spans[parent].trace
    <3>1. parent \in DOMAIN spans /\ id \in TraceIds \ {Zero}
      <4>1. parent \in DOMAIN spans
        BY <2>2 DEF Linked
      <4>2. spans[parent] \in Span
        BY <4>1, <1>7
      <4> QED BY <4>1, <4>2 DEF Span
    <3>2. CASE via = "grpc" \/ ParentPasses
      BY <2>2, <3>1, <3>2, <1>3, <1>4 DEF Linked, ParentPasses, Extract
    <3>3. CASE ~(via = "grpc" \/ ParentPasses)
      <4>1. via = "http" /\ sent.requestIds = <<String(id)>>
        BY <2>2, <3>3
      <4>2. h.traceparent = Zero
        BY <2>2, <3>3, <4>1, <1>3 DEF Linked, ParentPasses
      <4>3. h.requestIds # <<>> /\ h.requestIds[1] = String(id)
        BY <4>1, <1>3
      <4>4. Extract(h) = id
        BY <4>2, <4>3, <3>1, RoundTrip DEF Extract
      <4> QED BY <4>4, <3>1, <1>4
    <3> QED BY <3>2, <3>3
  <2>3. kept => parent \in 1 .. Len(spans)
    BY <1>7 DEF Linked
  <2>4. ParentPasses' = ParentPasses
    BY <1>2 DEF ParentPasses
  <2>5. ASSUME NEW i \in DOMAIN spans', spans'[i].kept
        PROVE  \/ spans'[i].trace = spans'[spans'[i].parent].trace
               \/ /\ spans'[i].via = "http" /\ ~ParentPasses'
                  /\ spans'[i].sent.requestIds
                       # <<String(spans'[spans'[i].parent].trace)>>
    <3>1. CASE i \in DOMAIN spans
      <4>1. spans'[i] = spans[i]
              /\ spans'[spans[i].parent] = spans[spans[i].parent]
        BY <1>7, <2>1, <2>5, <3>1
      <4> QED BY <4>1, <2>4, <2>5, <3>1 DEF IInv, TraceKept
    <3>2. CASE i = n
      BY <3>2, <2>2, <2>3, <2>4, <2>5, <1>7, <1>8
    <3> QED BY <3>1, <3>2, <1>9
  <2> QED BY <2>5 DEF TraceKept, String
<1>12. RequestIdEchoed'
  <2>1. ASSUME ~Parent(s), s.sent.requestIds # <<>>,
               Full(s.sent.requestIds[1])
        PROVE  SameHex(String(s.trace), s.sent.requestIds[1])
    <3>1. h.traceparent = Zero
      BY <2>1, <1>3, <1>8 DEF Parent
    <3>2. sent.requestIds[1] \in Seq(Byte)
      BY <2>1, <1>8 DEF Sent, Byte
    <3>3. Extract(h) = CtxWithTraceId(sent.requestIds[1])
      BY <3>1, <2>1, <1>3, <1>8 DEF Extract
    <3> QED BY <3>2, <3>3, <2>1, <1>4, <1>8, Echo
  <2>2. \A i \in DOMAIN spans' : Shown(i)' = <<String(spans'[i].trace)>>
    BY DEF Shown, DefaultPassThruHeaders, String
  <2>3. \A i \in DOMAIN spans : Shown(i) = <<String(spans[i].trace)>>
    BY DEF Shown, DefaultPassThruHeaders
  <2>4. ASSUME NEW i \in DOMAIN spans',
               ~Parent(spans[i])', spans'[i].sent.requestIds # <<>>,
               Full(spans'[i].sent.requestIds[1])
        PROVE  SameHex(String(spans'[i].trace), spans'[i].sent.requestIds[1])
    <3>1. CASE i \in DOMAIN spans
      <4>1. spans'[i] = spans[i] /\ ~Parent(spans[i])
        BY <1>2, <1>7, <2>4, <3>1 DEF Parent
      <4> QED BY <4>1, <2>3, <2>4, <3>1 DEF IInv, RequestIdEchoed
    <3>2. CASE i = n
      <4>1. ~Parent(s)
        BY <1>2, <1>7, <2>4, <3>2 DEF Parent
      <4> QED BY <4>1, <2>1, <2>4, <3>2, <1>7
    <3> QED BY <3>1, <3>2, <1>9
  <2> QED BY <2>2, <2>4 DEF RequestIdEchoed, Full, SameHex, IsHex, HexValue
<1>13. CallerCounted'
  BY <1>5, <1>7, <1>8, <1>9 DEF IInv, CallerCounted
<1> QED BY <1>10, <1>11, <1>12, <1>13 DEF IInv

-----------------------------------------------------------------------------
(* The specification                                                       *)

LEMMA InitInv == Init => IInv
BY DEF Init, IInv, TypeOK, TraceKept, RequestIdEchoed, CallerCounted

LEMMA ZeroType == Zero \in TraceIds
BY DEF Zero, TraceIds

LEMMA OneOrNone ==
  ASSUME NEW S, NEW T, S \subseteq T, NEW ids \in {<<>>} \cup {<<s>> : s \in S}
  PROVE  ids \in Seq(T)
<1>1. CASE ids = <<>>
  BY <1>1
<1>2. ASSUME NEW s \in S, ids = <<s>> PROVE ids \in Seq(T)
  BY <1>2
<1> QED BY <1>1, <1>2

LEMMA RequestInv == ASSUME IInv, Request PROVE IInv'
<1>1. PICK via \in {"http", "grpc"}, parent \in Ids \cup {Zero},
           ids \in {<<>>} \cup {<<s>> : s \in RequestIds},
           client \in {NoClient, "outside"} :
        Serve(0, via, FALSE, [traceparent |-> parent, requestIds |-> ids,
                              client |-> client])
  BY DEF Request
<1>2. parent \in TraceIds
  BY TraceAssumption, ZeroType
<1>3. ids \in Seq(Seq(0 .. 255))
  <2>1. RequestIds \subseteq Seq(0 .. 255)
    BY TraceAssumption
  <2> QED BY <2>1, OneOrNone
<1>4. [traceparent |-> parent, requestIds |-> ids, client |-> client] \in Sent
  BY <1>2, <1>3 DEF Sent
<1>5. 0 \in 0 .. Len(spans)
  BY DEF IInv, TypeOK
<1> QED BY <1>1, <1>4, <1>5, ServeInv DEF Linked

\* The trace of a call, which is that of the handler if the ctx is kept.
LEMMA CtxTrace ==
  ASSUME IInv, NEW i \in DOMAIN spans, NEW kept \in BOOLEAN,
         NEW trace \in TraceIdFromCtx(i, kept)
  PROVE  /\ i \in 0 .. Len(spans)
         /\ spans[i].trace \in TraceIds /\ trace \in TraceIds
         /\ kept => trace = spans[i].trace
<1>1. spans \in Seq(Span)
  BY DEF IInv, TypeOK
<1>2. spans[i] \in Span
  BY <1>1
<1>3. New \subseteq TraceIds
  BY TraceAssumption DEF New
<1> QED BY <1>1, <1>2, <1>3 DEF Span, TraceIdFromCtx

LEMMA CallHttpInv ==
  ASSUME IInv, NEW i \in DOMAIN spans, NEW kept \in BOOLEAN,
         NEW own \in {<<>>} \cup {<<s>> : s \in OwnIds},
         CallHttp(i, kept, own)
  PROVE  IInv'
<1>1. PICK trace \in TraceIdFromCtx(i, kept) :
        Serve(i, "http", kept,
              [traceparent |-> IF provider THEN trace ELSE Zero,
               requestIds  |-> RequestId(i, kept, own),
               client      |-> "service"])
  BY DEF CallHttp
<1> DEFINE sent == [traceparent |-> IF provider THEN trace ELSE Zero,
                    requestIds  |-> RequestId(i, kept, own),
                    client      |-> "service"]
<1>2. /\ i \in 0 .. Len(spans) /\ spans[i].trace \in TraceIds
      /\ trace \in TraceIds /\ (kept => trace = spans[i].trace)
  BY CtxTrace
<1>3. RequestId(i, kept, own) \in Seq(Seq(0 .. 255))
  <2>1. own \in Seq(Seq(0 .. 255))
    <3>1. OwnIds \subseteq Seq(0 .. 255)
      BY TraceAssumption
    <3> QED BY <3>1, OneOrNone
  <2> DEFINE printed == String(spans[i].trace)
  <2>2. printed \in Seq(0 .. 255)
    BY <1>2, StringType DEF Byte
  <2> HIDE DEF printed
  <2>3. <<printed>> \in Seq(Seq(0 .. 255))
    BY <2>2
  <2>4. RequestId(i, kept, own) \in {own, <<printed>>}
    BY DEF RequestId, printed
  <2> QED BY <2>1, <2>3, <2>4
<1>4. sent \in Sent
  BY <1>2, <1>3, ZeroType DEF Sent
<1>5. kept => sent.requestIds # <<>>
  BY DEF RequestId
<1>6. Linked(i, "http", kept, sent)
  BY <1>2, <1>5 DEF Linked
<1> QED BY <1>1, <1>2, <1>4, <1>6, ServeInv

LEMMA CallGrpcInv ==
  ASSUME IInv, NEW i \in DOMAIN spans, NEW kept \in BOOLEAN, CallGrpc(i, kept)
  PROVE  IInv'
<1>1. PICK trace \in TraceIdFromCtx(i, kept) :
        Serve(i, "grpc", kept,
              [traceparent |-> trace, requestIds |-> <<>>,
               client |-> "service"])
  BY DEF CallGrpc
<1> DEFINE sent == [traceparent |-> trace, requestIds |-> <<>>,
                    client |-> "service"]
<1>2. /\ i \in 0 .. Len(spans) /\ trace \in TraceIds
      /\ kept => trace = spans[i].trace
  BY CtxTrace
<1>3. sent \in Sent
  BY <1>2 DEF Sent
<1>4. Linked(i, "grpc", kept, sent)
  BY <1>2 DEF Linked
<1> QED BY <1>1, <1>2, <1>3, <1>4, ServeInv

LEMMA StepInv == IInv /\ [Next]_vars => IInv'
<1> SUFFICES ASSUME IInv, [Next]_vars PROVE IInv'
  OBVIOUS
<1>1. CASE Request
  BY <1>1, RequestInv
<1>2. CASE \E i \in DOMAIN spans, kept \in BOOLEAN : CallGrpc(i, kept)
  BY <1>2, CallGrpcInv
<1>3. CASE \E i \in DOMAIN spans, kept \in BOOLEAN :
             \E own \in {<<>>} \cup {<<s>> : s \in OwnIds} :
               CallHttp(i, kept, own)
  BY <1>3, CallHttpInv
<1>4. CASE UNCHANGED vars
  <2>1. TypeOK'
    BY <1>4 DEF vars, IInv, TypeOK
  <2>2. TraceKept'
    BY <1>4 DEF vars, IInv, TraceKept, ParentPasses, String
  <2>3. RequestIdEchoed'
    BY <1>4 DEF vars, IInv, RequestIdEchoed, Parent, Shown
  <2>4. CallerCounted'
    BY <1>4 DEF vars, IInv, CallerCounted
  <2> QED BY <2>1, <2>2, <2>3, <2>4 DEF IInv
<1> QED BY <1>1, <1>2, <1>3, <1>4 DEF Next

LEMMA Invariant == Spec => []IInv
<1> QED BY InitInv, StepInv, PTL DEF Spec

\* Every RPC has a trace id that is not zero, of any width.
THEOREM TypeTheorem == Spec => []TypeOK
<1>1. IInv => TypeOK
  BY DEF IInv
<1> QED BY <1>1, Invariant, PTL

\* A trace goes on through calls of any number and kind.
THEOREM TraceKeptTheorem == Spec => []TraceKept
<1>1. IInv => TraceKept
  BY DEF IInv
<1> QED BY <1>1, Invariant, PTL

\* A request id in the form of a trace id comes back.
THEOREM EchoTheorem == Spec => []RequestIdEchoed
<1>1. IInv => RequestIdEchoed
  BY DEF IInv
<1> QED BY <1>1, Invariant, PTL

\* An RPC is counted for the client that says who it is.
THEOREM CallerTheorem == Spec => []CallerCounted
<1>1. IInv => CallerCounted
  BY DEF IInv
<1> QED BY <1>1, Invariant, PTL
=============================================================================
