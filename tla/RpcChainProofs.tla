--------------------------- MODULE RpcChainProofs ---------------------------
(***************************************************************************)
(* Theorems about RpcChain: its inductive invariant, and what it says of   *)
(* the answers, the counters and the log lines of the RPCs.                *)
(***************************************************************************)
EXTENDS RpcChain, TLAPS

-----------------------------------------------------------------------------
(* The shape of the chains                                                 *)

Length(k) == IF k = "unary" THEN 4 ELSE IF k = "stream" THEN 3 ELSE 2

Kinds == {"unary", "stream", "check"}

\* The length of each chain.
LEMMA ChainLength == \A k \in Kinds : Len(Chain[k]) = Length(k)
<1>1. Len(Chain["unary"]) = 4
  BY DEF Chain
<1>2. Len(Chain["stream"]) = 3
  BY DEF Chain
<1>3. Len(Chain["check"]) = 2
  BY DEF Chain
<1>4. QED
  BY <1>1, <1>2, <1>3 DEF Kinds, Length

\* Recovery is the last interceptor of each chain.
LEMMA RecoveryPlace ==
  \A k \in Kinds, n \in Nat :
    n \in 1 .. Len(Chain[k]) /\ Chain[k][n] = "recovery" <=> n = Length(k)
<1> SUFFICES ASSUME NEW k \in Kinds, NEW n \in Nat
             PROVE  n \in 1 .. Len(Chain[k]) /\ Chain[k][n] = "recovery"
                      <=> n = Length(k)
  OBVIOUS
<1>1. CASE k = "unary"
  BY <1>1, ChainLength DEF Chain, Length, Kinds
<1>2. CASE k = "stream"
  BY <1>2, ChainLength DEF Chain, Length, Kinds
<1>3. CASE k = "check"
  BY <1>3, ChainLength DEF Chain, Length, Kinds
<1>4. QED
  BY <1>1, <1>2, <1>3 DEF Kinds

\* Where the interceptors are in each chain.
LEMMA ChainPlaces ==
  ASSUME NEW r \in Rpcs, kind[r] \in Kinds, at[r] \in Nat
  PROVE  /\ In(r, "trace") <=> kind[r] = "unary" /\ at[r] = 1
         /\ In(r, "logging") <=> \/ kind[r] = "unary" /\ at[r] = 2
                                 \/ kind[r] = "stream" /\ at[r] = 1
         /\ In(r, "validate") <=> at[r] = Length(kind[r]) - 1
         /\ In(r, "recovery") <=> at[r] = Length(kind[r])
         /\ InHandler(r) <=> at[r] = Length(kind[r]) + 1
<1>1. CASE kind[r] = "unary"
  BY <1>1, ChainLength DEF Chain, In, InHandler, Length, Kinds
<1>2. CASE kind[r] = "stream"
  BY <1>2, ChainLength DEF Chain, In, InHandler, Length, Kinds
<1>3. CASE kind[r] = "check"
  BY <1>3, ChainLength DEF Chain, In, InHandler, Length, Kinds
<1>4. QED
  BY <1>1, <1>2, <1>3 DEF Kinds

-----------------------------------------------------------------------------
(* One step of one RPC                                                     *)

Step(r) ==
  \/ \E k \in Kinds : Arrive(r, k)
  \/ Enter(r) \/ Invalid(r) \/ HandlerReturns(r) \/ HandlerPanics(r)
  \/ Pass(r) \/ Recover(r) \/ Unwind(r) \/ Crash(r)
  \/ Log(r) \/ LoggerPanics(r)
  \/ Wrap(r) \/ Count(r) \/ Has(r) \/ SetNil(r) \/ Set(r)
  \/ Answer(r)

LEMMA NextIsStep == Next => \E r \in Rpcs : Step(r)
  BY DEF Next, Step, Kinds

\* What InHandler and In say of an RPC in a state of the right type.
LEMMA Places ==
  ASSUME TypeOK, NEW r \in Rpcs
  PROVE  /\ kind[r] \in Kinds /\ at[r] \in 0 .. 5
         /\ Length(kind[r]) \in 2 .. 4
         /\ kind[r] = "unary" => Length(kind[r]) = 4
         /\ kind[r] = "stream" => Length(kind[r]) = 3
         /\ Len(Chain[kind[r]]) = Length(kind[r])
         /\ In(r, "trace") <=> kind[r] = "unary" /\ at[r] = 1
         /\ In(r, "logging") <=> \/ kind[r] = "unary" /\ at[r] = 2
                                 \/ kind[r] = "stream" /\ at[r] = 1
         /\ In(r, "validate") <=> at[r] = Length(kind[r]) - 1
         /\ In(r, "recovery") <=> at[r] = Length(kind[r])
         /\ InHandler(r) <=> at[r] = Length(kind[r]) + 1
<1>1. kind[r] \in Kinds /\ at[r] \in 0 .. 5
  BY DEF TypeOK, Kinds
<1>2. /\ Length(kind[r]) \in 2 .. 4
      /\ kind[r] = "unary" => Length(kind[r]) = 4
      /\ kind[r] = "stream" => Length(kind[r]) = 3
  BY DEF Length
<1>3. QED
  BY <1>1, <1>2, ChainPlaces, ChainLength

\* A move within the chain keeps the types of the place.
LEMMA Moves ==
  ASSUME TypeOK, NEW r \in Rpcs, NEW n \in 0 .. 5,
         NEW p \in {"call", "return", "panic", "count", "has", "set",
                    "answered", "crashed"},
         Goto(r, p, n)
  PROVE  /\ at' \in [Rpcs -> 0 .. 5]
         /\ phase' \in [Rpcs -> {"new", "call", "return", "panic", "count",
                                "has", "set", "answered", "crashed"}]
         /\ at'[r] = n /\ phase'[r] = p
         /\ \A q \in Rpcs : q # r => at'[q] = at[q] /\ phase'[q] = phase[q]
  BY DEF TypeOK, Goto

\* A step keeps the types.
LEMMA StepType ==
  ASSUME TypeOK, NEW r \in Rpcs, Place(r), Step(r)
  PROVE  TypeOK'
<1>1. CASE \E k \in Kinds : Arrive(r, k)
  BY <1>1, Places DEF Arrive, TypeOK, Place, Goto, Does, Kinds, Messages,
     Responses, Errors, tallyVars, StatusCodes
<1>2. CASE Enter(r)
  <2>1. at[r] # Length(kind[r]) + 1 /\ phase[r] = "call"
    BY <1>2, Places DEF Enter, Does
  <2>2. at[r] \in 1 .. Length(kind[r]) + 1
    BY <2>1, Places DEF Place
  <2>3. at[r] + 1 \in 0 .. 5
    BY <2>1, <2>2, Places
  <2>4. QED
    BY <1>2, <2>3, Moves DEF Enter, TypeOK, tallyVars
<1>3. CASE Invalid(r)
  BY <1>3, Places DEF Invalid, TypeOK, Place, Goto, Does, Kinds, Messages,
     Responses, Errors, tallyVars, StatusCodes, Codes
<1>4. CASE HandlerReturns(r)
  <2>1. at[r] - 1 \in 0 .. 5
    BY <1>4, Places DEF HandlerReturns
  <2>2. err' \in [Rpcs -> Errors \cup {"none"}]
    <3>1. err' = err \/ \E e \in Errors : err' = [err EXCEPT ![r] = e]
      BY <1>4 DEF HandlerReturns, Errors, Codes
    <3>2. QED
      BY <3>1 DEF TypeOK
  <2>3. msg' \in [Rpcs -> Responses]
    <3>1. {r, "shared", "nil", "plain"} \subseteq Responses
      BY DEF Responses, Messages
    <3>2. msg' = msg \/ \E m \in Responses : msg' = [msg EXCEPT ![r] = m]
      BY <1>4, <3>1 DEF HandlerReturns
    <3>3. QED
      BY <3>2 DEF TypeOK
  <2>4. QED
    BY <1>4, <2>1, <2>2, <2>3, Moves DEF HandlerReturns, TypeOK, tallyVars
<1>5. CASE HandlerPanics(r)
  BY <1>5, Places DEF HandlerPanics, TypeOK, Place, Goto, Does, Kinds,
     Messages, Responses, Errors, tallyVars, StatusCodes
<1>6. CASE Pass(r)
  <2>1. at[r] - 1 \in 0 .. 5
    BY <1>6, Places DEF Pass
  <2>2. QED
    BY <1>6, <2>1, Moves DEF Pass, TypeOK, tallyVars
<1>7. CASE Recover(r)
  BY <1>7, Places DEF Recover, TypeOK, Place, Goto, Does, Kinds, Messages,
     Responses, Errors, tallyVars, StatusCodes
<1>8. CASE Unwind(r)
  BY <1>8, Places DEF Unwind, TypeOK, Place, Goto, Does, Kinds, Messages,
     Responses, Errors, tallyVars, StatusCodes
<1>9. CASE Crash(r)
  BY <1>9, Places DEF Crash, TypeOK, Place, Goto, Does, Kinds, Messages,
     Responses, Errors, tallyVars, StatusCodes
<1>10. CASE Log(r)
  BY <1>10, Places DEF Log, TypeOK, Place, Goto, Does, Kinds, Messages,
     Responses, Errors, tallyVars, StatusCodes, Logf
<1>11. CASE LoggerPanics(r)
  BY <1>11, Places DEF LoggerPanics, TypeOK, Place, Goto, Does, Kinds,
     Messages, Responses, Errors, tallyVars, StatusCodes
<1>12. CASE Wrap(r)
  BY <1>12, Places DEF Wrap, TypeOK, Place, Goto, Does, Kinds, Messages,
     Responses, Errors, tallyVars, StatusCodes, Status, GrpcStatus, NoError,
     Codes, FromContextError, NoId
<1>13. CASE Count(r)
  BY <1>13, Places DEF Count, TypeOK, Place, Goto, Does, Kinds, Messages,
     Responses, Errors, tallyVars, StatusCodes
<1>14. CASE Has(r)
  <2>1. at[r] \in 0 .. 5 /\ at[r] - 1 \in 0 .. 5
    BY <1>14, Places DEF Has, Does, Place
  <2>2. QED
    BY <1>14, <2>1, Moves DEF Has, TypeOK, tallyVars
<1>15. CASE SetNil(r)
  BY <1>15, Places DEF SetNil, TypeOK, Place, Goto, Does, Kinds, Messages,
     Responses, Errors, tallyVars, StatusCodes
<1>16. CASE Set(r)
  <2>1. at[r] - 1 \in 0 .. 5
    BY <1>16, Places DEF Set, Does, Place
  <2>2. requestId' \in [Messages -> Rpcs \cup {NoId}]
    BY <1>16 DEF Set, TypeOK
  <2>3. QED
    BY <1>16, <2>1, <2>2, Moves DEF Set, TypeOK, tallyVars
<1>17. CASE Answer(r)
  <2>1. status'[r] \in [code : StatusCodes,
                       text : {"none", "status", "context", "raw", "generic"},
                       id : Rpcs \cup {NoId}]
    BY <1>17 DEF Answer, TypeOK, StatusCodes, Status, Default, GrpcStatus,
       NoError, FromContextError, Codes, Errors
  <2>2. \A q \in Rpcs : q # r => status'[q] = status[q]
    BY <1>17 DEF Answer, TypeOK
  <2>3. QED
    BY <1>17, <2>1, <2>2, Moves DEF Answer, TypeOK, tallyVars
<1>18. QED
  BY <1>1, <1>2, <1>3, <1>4, <1>5, <1>6, <1>7, <1>8, <1>9, <1>10, <1>11,
     <1>12, <1>13, <1>14, <1>15, <1>16, <1>17 DEF Step

\* A step of another RPC leaves an RPC alone.
Same(r) ==
  /\ mode' = mode /\ kind'[r] = kind[r] /\ at'[r] = at[r]
  /\ phase'[r] = phase[r]
  /\ panics'[r] = panics[r] /\ err'[r] = err[r] /\ msg'[r] = msg[r]
  /\ status'[r] = status[r] /\ level'[r] = level[r]
  /\ counted'[r] = counted[r]

LEMMA Frame ==
  ASSUME TypeOK, NEW q \in Rpcs, NEW r \in Rpcs, q # r, Step(q)
  PROVE  Same(r)
<1>1. CASE \E k \in Kinds : Arrive(q, k)
  BY <1>1 DEF Arrive, TypeOK, Goto, tallyVars, Same
<1>2. CASE Enter(q)
  BY <1>2 DEF Enter, TypeOK, Goto, tallyVars, Same
<1>3. CASE Invalid(q)
  BY <1>3 DEF Invalid, TypeOK, Goto, tallyVars, Same
<1>4. CASE HandlerReturns(q)
  BY <1>4 DEF HandlerReturns, TypeOK, Goto, tallyVars, Same
<1>5. CASE HandlerPanics(q)
  BY <1>5 DEF HandlerPanics, TypeOK, Goto, tallyVars, Same
<1>6. CASE Pass(q)
  BY <1>6 DEF Pass, TypeOK, Goto, tallyVars, Same
<1>7. CASE Recover(q)
  BY <1>7 DEF Recover, TypeOK, Goto, tallyVars, Same
<1>8. CASE Unwind(q)
  BY <1>8 DEF Unwind, TypeOK, Goto, tallyVars, Same
<1>9. CASE Crash(q)
  BY <1>9 DEF Crash, TypeOK, Goto, tallyVars, Same
<1>10. CASE Log(q)
  BY <1>10 DEF Log, TypeOK, Goto, tallyVars, Same
<1>11. CASE LoggerPanics(q)
  BY <1>11 DEF LoggerPanics, TypeOK, Goto, tallyVars, Same
<1>12. CASE Wrap(q)
  BY <1>12 DEF Wrap, TypeOK, Goto, tallyVars, Same
<1>13. CASE Count(q)
  BY <1>13 DEF Count, TypeOK, Goto, tallyVars, Same
<1>14. CASE Has(q)
  BY <1>14 DEF Has, TypeOK, Goto, tallyVars, Same
<1>15. CASE SetNil(q)
  BY <1>15 DEF SetNil, TypeOK, Goto, tallyVars, Same
<1>16. CASE Set(q)
  BY <1>16 DEF Set, TypeOK, Goto, tallyVars, Same
<1>17. CASE Answer(q)
  BY <1>17 DEF Answer, TypeOK, Goto, tallyVars, Same
<1>18. QED
  BY <1>1, <1>2, <1>3, <1>4, <1>5, <1>6, <1>7, <1>8, <1>9, <1>10, <1>11,
     <1>12, <1>13, <1>14, <1>15, <1>16, <1>17 DEF Step

\* Place is kept.
LEMMA StepPlace ==
  ASSUME TypeOK, NEW r \in Rpcs, Place(r), Step(r)
  PROVE  Place(r)'
<1>1. CASE \E k \in Kinds : Arrive(r, k)
  BY <1>1, Places, ChainLength DEF Arrive, TypeOK, Goto, Does, Place, Length,
     Kinds
<1>2. CASE Enter(r)
  <2>1. /\ at'[r] = at[r] + 1 /\ phase'[r] = "call" /\ kind'[r] = kind[r]
        /\ phase[r] = "call" /\ at[r] # Length(kind[r]) + 1
    BY <1>2, Places DEF Enter, TypeOK, Goto, Does
  <2>2. at[r] \in 1 .. Length(kind[r]) + 1
    BY <2>1, Places DEF Place
  <2>3. at'[r] \in 1 .. Length(kind[r]) + 1
    BY <2>1, <2>2, Places
  <2>4. QED
    BY <2>1, <2>3, Places DEF Place
<1>3. CASE Invalid(r)
  BY <1>3, Places DEF Invalid, TypeOK, Goto, Does, Place
<1>4. CASE HandlerReturns(r)
  BY <1>4, Places DEF HandlerReturns, TypeOK, Goto, Does, Place
<1>5. CASE HandlerPanics(r)
  BY <1>5, Places DEF HandlerPanics, TypeOK, Goto, Does, Place
<1>6. CASE Pass(r)
  <2>1. /\ at'[r] = at[r] - 1 /\ phase'[r] = "return" /\ kind'[r] = kind[r]
        /\ at[r] \in {Length(kind[r]) - 1, Length(kind[r])}
    BY <1>6, Places DEF Pass, TypeOK, Goto, Does
  <2>2. at'[r] \in 0 .. Length(kind[r])
    BY <2>1, Places
  <2>3. QED
    BY <2>1, <2>2, Places DEF Place
<1>7. CASE Recover(r)
  <2>1. /\ at'[r] = at[r] - 1 /\ phase'[r] = "return" /\ kind'[r] = kind[r]
        /\ at[r] \in {Length(kind[r]) - 1, Length(kind[r])}
    BY <1>7, Places DEF Recover, TypeOK, Goto, Does
  <2>2. at'[r] \in 0 .. Length(kind[r])
    BY <2>1, Places
  <2>3. QED
    BY <2>1, <2>2, Places DEF Place
<1>8. CASE Unwind(r)
  BY <1>8, Places DEF Unwind, TypeOK, Goto, Does, Place
<1>9. CASE Crash(r)
  BY <1>9, Places DEF Crash, TypeOK, Goto, Does, Place
<1>10. CASE Log(r)
  <2>1. /\ at'[r] = at[r] - 1 /\ phase'[r] = "return" /\ kind'[r] = kind[r]
        /\ at[r] \in {1, 2}
    BY <1>10, Places DEF Log, TypeOK, Goto
  <2>2. at'[r] \in 0 .. Length(kind[r])
    BY <2>1, Places
  <2>3. QED
    BY <2>1, <2>2, Places DEF Place
<1>11. CASE LoggerPanics(r)
  <2>1. /\ at'[r] = at[r] - 1 /\ phase'[r] = "panic" /\ kind'[r] = kind[r]
        /\ at[r] \in {1, 2}
    BY <1>11, Places DEF LoggerPanics, TypeOK, Goto
  <2>2. at'[r] \in 0 .. Length(kind[r])
    BY <2>1, Places
  <2>3. QED
    BY <2>1, <2>2, Places DEF Place
<1>12. CASE Wrap(r)
  BY <1>12, Places DEF Wrap, TypeOK, Goto, Does, Place
<1>13. CASE Count(r)
  BY <1>13, Places DEF Count, TypeOK, Goto, Does, Place
<1>14. CASE Has(r)
  BY <1>14, Places DEF Has, TypeOK, Goto, Does, Place
<1>15. CASE SetNil(r)
  BY <1>15, Places DEF SetNil, TypeOK, Goto, Does, Place
<1>16. CASE Set(r)
  BY <1>16, Places DEF Set, TypeOK, Goto, Does, Place
<1>17. CASE Answer(r)
  BY <1>17, Places DEF Answer, TypeOK, Goto, Does, Place
<1>18. QED
  BY <1>1, <1>2, <1>3, <1>4, <1>5, <1>6, <1>7, <1>8, <1>9, <1>10, <1>11,
     <1>12, <1>13, <1>14, <1>15, <1>16, <1>17 DEF Step

\* Result is kept.
LEMMA StepResult ==
  ASSUME TypeOK, NEW r \in Rpcs, Place(r), Result(r), Step(r)
  PROVE  Result(r)'
<1>1. CASE \E k \in Kinds : Arrive(r, k)
  BY <1>1, Places DEF Arrive, TypeOK, Goto, Does, Result, Place, Below,
     Above, Traced, Answered, GrpcStatus
<1>2. CASE Enter(r)
  BY <1>2, Places DEF Enter, TypeOK, Goto, Does, Result, Place, Below, Above,
     Traced, Answered, GrpcStatus
<1>3. CASE Invalid(r)
  BY <1>3, Places DEF Invalid, TypeOK, Goto, Does, Result, Place, Below,
     Above, Traced, Answered, GrpcStatus
<1>4. CASE HandlerReturns(r)
  BY <1>4, Places DEF HandlerReturns, TypeOK, Goto, Does, Result, Place,
     Below, Above, Traced, Answered, GrpcStatus
<1>5. CASE HandlerPanics(r)
  BY <1>5, Places DEF HandlerPanics, TypeOK, Goto, Does, Result, Place,
     Below, Above, Traced, Answered, GrpcStatus
<1>6. CASE Pass(r)
  BY <1>6, Places DEF Pass, TypeOK, Goto, Does, Result, Place, Below, Above,
     Traced, Answered, GrpcStatus
<1>7. CASE Recover(r)
  <2>1. /\ at'[r] = at[r] - 1 /\ phase'[r] = "return" /\ kind'[r] = kind[r]
        /\ at[r] = Length(kind[r]) /\ phase[r] = "panic"
        /\ status'[r] = status[r]
    BY <1>7, Places DEF Recover, TypeOK, Goto, Does
  <2>2. at[r] > 0 /\ at'[r] > 0
    BY <2>1, Places
  <2>3. status[r].code = "none"
    BY <2>1, <2>2 DEF Result, Below
  <2>4. QED
    BY <2>1, <2>2, <2>3 DEF Result, Below, Above, Traced, Answered
<1>8. CASE Unwind(r)
  BY <1>8, Places DEF Unwind, TypeOK, Goto, Does, Result, Place, Below,
     Above, Traced, Answered, GrpcStatus
<1>9. CASE Crash(r)
  BY <1>9, Places DEF Crash, TypeOK, Goto, Does, Result, Place, Below, Above,
     Traced, Answered, GrpcStatus
<1>10. CASE Log(r)
  BY <1>10, Places DEF Log, TypeOK, Goto, Does, Result, Place, Below, Above,
     Traced, Answered, GrpcStatus
<1>11. CASE LoggerPanics(r)
  BY <1>11, Places DEF LoggerPanics, TypeOK, Goto, Does, Result, Place,
     Below, Above, Traced, Answered, GrpcStatus
<1>12. CASE Wrap(r)
  BY <1>12, Places DEF Wrap, TypeOK, Goto, Does, Result, Place, Below, Above,
     Traced, Answered, GrpcStatus, Status, NoError
<1>13. CASE Count(r)
  BY <1>13, Places DEF Count, TypeOK, Goto, Does, Result, Place, Below,
     Above, Traced, Answered, GrpcStatus
<1>14. CASE Has(r)
  BY <1>14, Places DEF Has, TypeOK, Goto, Does, Result, Place, Below, Above,
     Traced, Answered, GrpcStatus
<1>15. CASE SetNil(r)
  BY <1>15, Places DEF SetNil, TypeOK, Goto, Does, Result, Place, Below,
     Above, Traced, Answered, GrpcStatus
<1>16. CASE Set(r)
  BY <1>16, Places DEF Set, TypeOK, Goto, Does, Result, Place, Below, Above,
     Traced, Answered, GrpcStatus
<1>17. CASE Answer(r)
  <2>1. /\ phase[r] = "return" /\ at[r] = 0 /\ phase'[r] = "answered"
        /\ at'[r] = 0 /\ kind'[r] = kind[r] /\ err'[r] = err[r]
    BY <1>17 DEF Answer, TypeOK, Goto, Does
  <2>2. CASE kind[r] = "unary"
    <3>1. status[r].code # "none" /\ Traced(r)
      BY <2>1, <2>2 DEF Result, Traced, Above, NoError, GrpcStatus,
         FromContextError, Codes
    <3>2. /\ status'[r].code = status[r].code
          /\ status'[r].text = status[r].text
          /\ err[r] # "none" => status'[r].id = status[r].id
      BY <1>17, <3>1 DEF Answer, TypeOK
    <3>3. mode' = mode
      BY <1>17 DEF Answer
    <3>4. QED
      BY <2>1, <2>2, <3>1, <3>2, <3>3
      DEF Result, Below, Above, Traced, Answered, GrpcStatus
  <2>3. CASE kind[r] # "unary"
    <3>1. status[r].code = "none"
      BY <2>1, <2>3 DEF Result
    <3>2. status'[r].code = Default(err[r]).code
      BY <1>17, <3>1 DEF Answer, TypeOK, Status
    <3>3. mode' = mode
      BY <1>17 DEF Answer
    <3>4. Default(err[r])' = Default(err[r])
      BY <2>1, <3>3 DEF Default, GrpcStatus
    <3>5. QED
      BY <2>1, <2>3, <3>2, <3>4 DEF Result, Below, Above, Traced, Answered
  <2>4. QED
    BY <2>2, <2>3
<1>18. QED
  BY <1>1, <1>2, <1>3, <1>4, <1>5, <1>6, <1>7, <1>8, <1>9, <1>10, <1>11,
     <1>12, <1>13, <1>14, <1>15, <1>16, <1>17 DEF Step

\* Tally is kept.
LEMMA StepTally ==
  ASSUME TypeOK, NEW r \in Rpcs, Place(r), Result(r), Tally(r), Step(r)
  PROVE  Tally(r)'
<1>1. CASE \E k \in Kinds : Arrive(r, k)
  BY <1>1, Places DEF Arrive, TypeOK, Goto, Does, Tally, Place, Below, Above,
     Traced, tallyVars
<1>2. CASE Enter(r)
  BY <1>2, Places DEF Enter, TypeOK, Goto, Does, Tally, Place, Below, Above,
     Traced, tallyVars
<1>3. CASE Invalid(r)
  BY <1>3, Places DEF Invalid, TypeOK, Goto, Does, Tally, Place, Below,
     Above, Traced, tallyVars
<1>4. CASE HandlerReturns(r)
  BY <1>4, Places DEF HandlerReturns, TypeOK, Goto, Does, Tally, Place,
     Below, Above, Traced, tallyVars
<1>5. CASE HandlerPanics(r)
  BY <1>5, Places DEF HandlerPanics, TypeOK, Goto, Does, Tally, Place, Below,
     Above, Traced, tallyVars
<1>6. CASE Pass(r)
  BY <1>6, Places DEF Pass, TypeOK, Goto, Does, Tally, Place, Below, Above,
     Traced, tallyVars
<1>7. CASE Recover(r)
  BY <1>7, Places DEF Recover, TypeOK, Goto, Does, Tally, Place, Below,
     Above, Traced, tallyVars
<1>8. CASE Unwind(r)
  <2>1. /\ at'[r] = at[r] - 1 /\ phase'[r] = "panic" /\ kind'[r] = kind[r]
        /\ phase[r] = "panic" /\ at[r] > 0 /\ at[r] \in 0 .. 5
    BY <1>8, Places DEF Unwind, TypeOK, Goto, Does
  <2>2. counted[r] = <<>>
    BY <2>1 DEF Tally, Below
  <2>3. at'[r] > 0 => counted'[r] = <<>>
    <3>1. SUFFICES ASSUME at'[r] > 0 PROVE counted'[r] = counted[r]
      BY <2>2
    <3>2. ~In(r, "trace")
      BY <2>1, <3>1, Places
    <3>3. QED
      BY <1>8, <3>2 DEF Unwind, TypeOK
  <2>4. QED
    BY <2>1, <2>3 DEF Tally, Below, Above, Traced
<1>9. CASE Crash(r)
  BY <1>9, Places DEF Crash, TypeOK, Goto, Does, Tally, Place, Below, Above,
     Traced, tallyVars
<1>10. CASE Log(r)
  BY <1>10, Places DEF Log, TypeOK, Goto, Does, Tally, Place, Below, Above,
     Traced, tallyVars
<1>11. CASE LoggerPanics(r)
  BY <1>11, Places DEF LoggerPanics, TypeOK, Goto, Does, Tally, Place, Below,
     Above, Traced, tallyVars
<1>12. CASE Wrap(r)
  BY <1>12, Places DEF Wrap, TypeOK, Goto, Does, Tally, Place, Below, Above,
     Traced, tallyVars
<1>13. CASE Count(r)
  BY <1>13, Places DEF Count, TypeOK, Goto, Does, Tally, Place, Below, Above,
     Traced, tallyVars
<1>14. CASE Has(r)
  BY <1>14, Places DEF Has, TypeOK, Goto, Does, Tally, Place, Below, Above,
     Traced, tallyVars
<1>15. CASE SetNil(r)
  BY <1>15, Places DEF SetNil, TypeOK, Goto, Does, Tally, Place, Below,
     Above, Traced, tallyVars
<1>16. CASE Set(r)
  BY <1>16, Places DEF Set, TypeOK, Goto, Does, Tally, Place, Below, Above,
     Traced, tallyVars
<1>17. CASE Answer(r)
  <2>1. /\ phase[r] = "return" /\ at[r] = 0 /\ phase'[r] = "answered"
        /\ at'[r] = 0 /\ kind'[r] = kind[r] /\ err'[r] = err[r]
    BY <1>17 DEF Answer, TypeOK, Goto, Does
  <2>2. counted'[r] = counted[r]
    BY <1>17 DEF Answer, tallyVars
  <2>3. ASSUME kind[r] = "unary" PROVE status'[r].code = status[r].code
    <3>1. status[r].code # "none"
      BY <2>1, <2>3 DEF Result, Traced, Above, NoError, GrpcStatus,
         FromContextError, Codes
    <3>2. QED
      BY <1>17, <3>1 DEF Answer, TypeOK
  <2>4. QED
    BY <2>1, <2>2, <2>3 DEF Tally, Below, Above, Traced
<1>18. QED
  BY <1>1, <1>2, <1>3, <1>4, <1>5, <1>6, <1>7, <1>8, <1>9, <1>10, <1>11,
     <1>12, <1>13, <1>14, <1>15, <1>16, <1>17 DEF Step

\* Logged is kept.
LEMMA StepLogged ==
  ASSUME TypeOK, NEW r \in Rpcs, Place(r), Logged(r), Step(r)
  PROVE  Logged(r)'
<1>1. CASE \E k \in Kinds : Arrive(r, k)
  BY <1>1, Places DEF Arrive, TypeOK, Goto, Does, Logged, Place, Above,
     Traced, tallyVars
<1>2. CASE Enter(r)
  BY <1>2, Places DEF Enter, TypeOK, Goto, Does, Logged, Place, Above,
     Traced, tallyVars
<1>3. CASE Invalid(r)
  BY <1>3, Places DEF Invalid, TypeOK, Goto, Does, Logged, Place, Above,
     Traced, tallyVars
<1>4. CASE HandlerReturns(r)
  <2>1. /\ at'[r] = at[r] - 1 /\ phase'[r] = "return" /\ kind'[r] = kind[r]
        /\ at[r] = Length(kind[r]) + 1
    BY <1>4, Places DEF HandlerReturns, TypeOK, Goto
  <2>2. at'[r] > 1
    BY <2>1, Places
  <2>3. QED
    BY <2>1, <2>2 DEF Logged, Above, Traced
<1>5. CASE HandlerPanics(r)
  BY <1>5, Places DEF HandlerPanics, TypeOK, Goto, Does, Logged, Place,
     Above, Traced, tallyVars
<1>6. CASE Pass(r)
  <2>1. /\ at'[r] = at[r] - 1 /\ phase'[r] = "return" /\ kind'[r] = kind[r]
        /\ at[r] \in {Length(kind[r]) - 1, Length(kind[r])}
    BY <1>6, Places DEF Pass, TypeOK, Goto
  <2>2. /\ kind[r] = "unary" => at'[r] > 1
        /\ kind[r] = "stream" => at'[r] > 0
    BY <2>1, Places
  <2>3. QED
    BY <2>1, <2>2, Places DEF Logged, Above, Traced, Kinds
<1>7. CASE Recover(r)
  BY <1>7, Places DEF Recover, TypeOK, Goto, Does, Logged, Place, Above,
     Traced, tallyVars
<1>8. CASE Unwind(r)
  BY <1>8, Places DEF Unwind, TypeOK, Goto, Does, Logged, Place, Above,
     Traced, tallyVars
<1>9. CASE Crash(r)
  BY <1>9, Places DEF Crash, TypeOK, Goto, Does, Logged, Place, Above,
     Traced, tallyVars
<1>10. CASE Log(r)
  BY <1>10, Places DEF Log, TypeOK, Goto, Does, Logged, Place, Above, Traced,
     tallyVars
<1>11. CASE LoggerPanics(r)
  BY <1>11, Places DEF LoggerPanics, TypeOK, Goto, Does, Logged, Place,
     Above, Traced, tallyVars
<1>12. CASE Wrap(r)
  BY <1>12, Places DEF Wrap, TypeOK, Goto, Does, Logged, Place, Above,
     Traced, tallyVars
<1>13. CASE Count(r)
  BY <1>13, Places DEF Count, TypeOK, Goto, Does, Logged, Place, Above,
     Traced, tallyVars
<1>14. CASE Has(r)
  BY <1>14, Places DEF Has, TypeOK, Goto, Does, Logged, Place, Above, Traced,
     tallyVars
<1>15. CASE SetNil(r)
  BY <1>15, Places DEF SetNil, TypeOK, Goto, Does, Logged, Place, Above,
     Traced, tallyVars
<1>16. CASE Set(r)
  BY <1>16, Places DEF Set, TypeOK, Goto, Does, Logged, Place, Above, Traced,
     tallyVars
<1>17. CASE Answer(r)
  BY <1>17, Places DEF Answer, TypeOK, Goto, Does, Logged, Place, Above,
     Traced, tallyVars
<1>18. QED
  BY <1>1, <1>2, <1>3, <1>4, <1>5, <1>6, <1>7, <1>8, <1>9, <1>10, <1>11,
     <1>12, <1>13, <1>14, <1>15, <1>16, <1>17 DEF Step

\* Panicked is kept.
LEMMA StepPanicked ==
  ASSUME TypeOK, NEW r \in Rpcs, Place(r), Panicked(r), Step(r)
  PROVE  Panicked(r)'
<1>1. CASE \E k \in Kinds : Arrive(r, k)
  BY <1>1, Places DEF Arrive, TypeOK, Goto, Does, Panicked, Place
<1>2. CASE Enter(r)
  BY <1>2, Places DEF Enter, TypeOK, Goto, Does, Panicked, Place
<1>3. CASE Invalid(r)
  BY <1>3, Places DEF Invalid, TypeOK, Goto, Does, Panicked, Place
<1>4. CASE HandlerReturns(r)
  BY <1>4, Places DEF HandlerReturns, TypeOK, Goto, Does, Panicked, Place
<1>5. CASE HandlerPanics(r)
  <2>1. /\ at'[r] = at[r] - 1 /\ phase'[r] = "panic" /\ kind'[r] = kind[r]
        /\ at[r] = Length(kind[r]) + 1
    BY <1>5, Places DEF HandlerPanics, TypeOK, Goto
  <2>2. at'[r] = Length(kind'[r]) /\ at'[r] \in Nat /\ kind'[r] \in Kinds
    BY <2>1, Places
  <2>3. In(r, "recovery")'
    BY <2>2, RecoveryPlace DEF In
  <2>4. panics'[r] = {"handler"}
    BY <1>5 DEF HandlerPanics, Does, Panicked, TypeOK
  <2>5. QED
    BY <2>1, <2>3, <2>4 DEF Panicked
<1>6. CASE Pass(r)
  BY <1>6, Places DEF Pass, TypeOK, Goto, Does, Panicked, Place
<1>7. CASE Recover(r)
  <2>1. phase[r] = "panic" /\ at[r] = Length(kind[r])
    BY <1>7, Places DEF Recover, Does
  <2>2. "logger" \notin panics[r]
    BY <2>1, Places DEF Panicked
  <2>3. /\ panics'[r] = panics[r] /\ err'[r] = "plain"
        /\ phase'[r] = "return"
    BY <1>7 DEF Recover, TypeOK, Goto
  <2>4. QED
    BY <2>2, <2>3 DEF Panicked
<1>8. CASE Unwind(r)
  BY <1>8, Places DEF Unwind, TypeOK, Goto, Does, Panicked, Place
<1>9. CASE Crash(r)
  <2>1. ~In(r, "recovery") /\ phase[r] = "panic"
    BY <1>9, Places DEF Crash, Does
  <2>2. ~("handler" \in panics[r] /\ "logger" \notin panics[r])
    BY <2>1 DEF Panicked
  <2>3. phase'[r] = "crashed" /\ panics'[r] = panics[r]
    BY <1>9 DEF Crash, TypeOK, Goto
  <2>4. QED
    BY <2>2, <2>3 DEF Panicked
<1>10. CASE Log(r)
  BY <1>10, Places DEF Log, TypeOK, Goto, Does, Panicked, Place
<1>11. CASE LoggerPanics(r)
  <2>1. at'[r] = at[r] - 1 /\ phase'[r] = "panic" /\ at[r] \in {1, 2}
    BY <1>11, Places DEF LoggerPanics, TypeOK, Goto
  <2>2. panics'[r] = panics[r] \cup {"logger"}
    BY <1>11 DEF LoggerPanics, TypeOK
  <2>3. QED
    BY <2>1, <2>2 DEF Panicked
<1>12. CASE Wrap(r)
  BY <1>12, Places DEF Wrap, TypeOK, Goto, Does, Panicked, Place
<1>13. CASE Count(r)
  BY <1>13, Places DEF Count, TypeOK, Goto, Does, Panicked, Place
<1>14. CASE Has(r)
  BY <1>14, Places DEF Has, TypeOK, Goto, Does, Panicked, Place
<1>15. CASE SetNil(r)
  BY <1>15, Places DEF SetNil, TypeOK, Goto, Does, Panicked, Place
<1>16. CASE Set(r)
  BY <1>16, Places DEF Set, TypeOK, Goto, Does, Panicked, Place
<1>17. CASE Answer(r)
  BY <1>17, Places DEF Answer, TypeOK, Goto, Does, Panicked, Place
<1>18. QED
  BY <1>1, <1>2, <1>3, <1>4, <1>5, <1>6, <1>7, <1>8, <1>9, <1>10, <1>11,
     <1>12, <1>13, <1>14, <1>15, <1>16, <1>17 DEF Step

\* A response is set once, and an RPC that has not returned has none.
LEMMA StepMsg ==
  ASSUME TypeOK, Ids, NEW r \in Rpcs, Step(r)
  PROVE  /\ \A q \in Rpcs :
              /\ msg'[q] \in {q, "shared", "nil", "plain"}
              /\ phase'[q] \in {"new", "call"} => msg'[q] = "plain"
              /\ msg[q] # "plain" => msg'[q] = msg[q]
<1> SUFFICES ASSUME NEW q \in Rpcs
             PROVE  /\ msg'[q] \in {q, "shared", "nil", "plain"}
                    /\ phase'[q] \in {"new", "call"} => msg'[q] = "plain"
                    /\ msg[q] # "plain" => msg'[q] = msg[q]
  OBVIOUS
<1>1. /\ msg[q] \in {q, "shared", "nil", "plain"}
      /\ phase[q] \in {"new", "call"} => msg[q] = "plain"
  BY DEF Ids
<1>2. CASE q # r
  BY <1>1, <1>2, Frame DEF Same
<1>3. CASE q = r
  <2>1. CASE \E k \in Kinds : Arrive(r, k)
    BY <1>1, <1>3, <2>1 DEF Arrive, Does
  <2>2. CASE Enter(r)
    BY <1>1, <1>3, <2>2 DEF Enter, Does
  <2>3. CASE HandlerReturns(r)
    <3>1. phase[r] = "call" /\ phase'[r] = "return"
      BY <2>3 DEF HandlerReturns, Does, Goto, TypeOK
    <3>2. msg'[r] \in {r, "shared", "nil", "plain"}
      BY <2>3, <1>1, <1>3 DEF HandlerReturns, TypeOK
    <3>3. QED
      BY <3>1, <3>2, <1>1, <1>3
  <2>4. CASE Invalid(r) \/ HandlerPanics(r) \/ Pass(r) \/ Recover(r)
    BY <1>1, <1>3, <2>4
    DEF Invalid, HandlerPanics, Pass, Recover, Goto, TypeOK
  <2>5. CASE Unwind(r) \/ Crash(r) \/ Log(r) \/ LoggerPanics(r)
    BY <1>1, <1>3, <2>5 DEF Unwind, Crash, Log, LoggerPanics, Goto, TypeOK
  <2>6. CASE Wrap(r) \/ Count(r) \/ Has(r)
    BY <1>1, <1>3, <2>6 DEF Wrap, Count, Has, Goto, TypeOK
  <2>7. CASE SetNil(r) \/ Set(r) \/ Answer(r)
    BY <1>1, <1>3, <2>7 DEF SetNil, Set, Answer, Goto, TypeOK
  <2>8. QED
    BY <2>1, <2>2, <2>3, <2>4, <2>5, <2>6, <2>7 DEF Step
<1>4. QED
  BY <1>2, <1>3

\* Only Set writes an id, its own.
LEMMA StepRequestId ==
  ASSUME NEW r \in Rpcs, Step(r)
  PROVE  requestId' = requestId \/ Set(r)
  BY DEF Step, Arrive, Enter, Invalid, HandlerReturns, HandlerPanics, Pass,
     Recover, Unwind, Crash, Log, LoggerPanics, Wrap, Count, Has, SetNil,
     Answer

\* An id that is there stays there, or becomes that of another RPC.
LEMMA StepHasId ==
  ASSUME TypeOK, NEW r \in Rpcs, Step(r), NEW m \in Messages,
         requestId[m] # NoId
  PROVE  requestId'[m] # NoId
<1>1. r # NoId
  BY RpcAssumption DEF NoId
<1>2. QED
  BY <1>1, StepRequestId DEF Set, TypeOK

\* A traced RPC has left the chain only with an id in its response.
LEMMA StepLeaves ==
  ASSUME TypeOK, NEW r \in Rpcs, Place(r), Step(r), Ids,
         (Traced(r) /\ Above(r))', err'[r] = "none", msg'[r] \in Messages
  PROVE  requestId'[msg'[r]] # NoId
<1>0. {"none", "nil", "plain"} \cap Messages = {} /\ r # NoId
  BY RpcAssumption DEF Messages, NoId
<1>1. /\ kind'[r] = "unary" /\ phase'[r] \in {"return", "answered"}
      /\ at'[r] = 0
  BY DEF Traced, Above
<1>2. CASE \E k \in Kinds : Arrive(r, k)
  BY <1>1, <1>2, Places DEF Arrive, Goto, TypeOK
<1>3. CASE Enter(r) \/ HandlerPanics(r) \/ Unwind(r) \/ Crash(r)
  BY <1>1, <1>3 DEF Enter, HandlerPanics, Unwind, Crash, Goto, TypeOK
<1>4. CASE Invalid(r) \/ HandlerReturns(r) \/ Pass(r) \/ Recover(r)
  <2>1. at[r] > 1 /\ at'[r] = at[r] - 1 /\ at[r] \in Nat
    BY <1>1, <1>4, Places
    DEF Invalid, HandlerReturns, Pass, Recover, Goto, TypeOK
  <2>2. QED
    BY <1>1, <2>1
<1>5. CASE Log(r) \/ LoggerPanics(r)
  <2>1. kind[r] = "unary" /\ at[r] = 2
    BY <1>1, <1>5, Places DEF Log, LoggerPanics
  <2>2. at'[r] = at[r] - 1
    BY <1>5 DEF Log, LoggerPanics, Goto, TypeOK
  <2>3. QED
    BY <1>1, <2>1, <2>2
<1>6. CASE Wrap(r) \/ SetNil(r)
  BY <1>1, <1>6 DEF Wrap, SetNil, Goto, TypeOK
<1>7. CASE Count(r)
  BY <1>1, <1>7 DEF Count, Goto, TypeOK
<1>8. CASE Has(r)
  <2>1. msg[r] # "plain" /\ msg[r] # "nil" /\ msg'[r] = msg[r]
    BY <1>0, <1>8 DEF Has, Ids
  <2>2. requestId[msg[r]] # NoId
    BY <1>1, <1>8, <2>1 DEF Has, Goto, TypeOK
  <2>3. QED
    BY <1>8, <2>1, <2>2 DEF Has
<1>9. CASE Set(r)
  BY <1>0, <1>9 DEF Set, TypeOK
<1>10. CASE Answer(r)
  <2>1. /\ phase[r] = "return" /\ at[r] = 0 /\ kind[r] = "unary"
        /\ err'[r] = err[r] /\ msg'[r] = msg[r] /\ requestId' = requestId
    BY <1>1, <1>10 DEF Answer, Does
  <2>2. QED
    BY <2>1 DEF Ids, Traced, Above
<1>11. QED
  BY <1>2, <1>3, <1>4, <1>5, <1>6, <1>7, <1>8, <1>9, <1>10 DEF Step

\* Ids is kept.
LEMMA StepIds ==
  ASSUME TypeOK, NEW r \in Rpcs, Place(r), Step(r), Ids
  PROVE  Ids'
<1>0. "plain" \notin Messages
  BY RpcAssumption DEF Messages
<1>1. ASSUME NEW m \in Messages, requestId'[m] # NoId
      PROVE  msg'[requestId'[m]] = m
  <2>1. CASE requestId'[m] = requestId[m]
    <3>1. msg[requestId[m]] = m /\ requestId[m] \in Rpcs
      BY <1>1, <2>1 DEF Ids, TypeOK
    <3>2. QED
      BY <1>0, <2>1, <3>1, StepMsg
  <2>2. CASE requestId'[m] # requestId[m]
    <3>1. Set(r)
      BY <2>2, StepRequestId
    <3>2. m = msg[r] /\ requestId'[m] = r /\ msg' = msg
      BY <2>2, <3>1 DEF Set, TypeOK
    <3>3. QED
      BY <3>2
  <2>3. QED
    BY <2>1, <2>2
<1>2. ASSUME NEW q \in Rpcs, (Traced(q) /\ Above(q))', err'[q] = "none",
             msg'[q] \in Messages
      PROVE  requestId'[msg'[q]] # NoId
  <2>1. CASE q = r
    BY <1>2, <2>1, StepLeaves
  <2>2. CASE q # r
    <3>1. Same(q)
      BY <2>2, Frame
    <3>2. /\ Traced(q) /\ Above(q) /\ err[q] = "none"
          /\ msg[q] \in Messages /\ msg'[q] = msg[q]
      BY <1>2, <3>1 DEF Same, Traced, Above
    <3>3. requestId[msg[q]] # NoId
      BY <3>2 DEF Ids
    <3>4. QED
      BY <3>2, <3>3, StepHasId
  <2>3. QED
    BY <2>1, <2>2
<1>3. QED
  BY <1>1, <1>2, StepMsg DEF Ids

\* OwnRequestId is kept: the client gets what the trace interceptor left.
LEMMA StepOwnRequestId ==
  ASSUME TypeOK, NEW r \in Rpcs, Result(r), Step(r), Ids, OwnRequestId
  PROVE  OwnRequestId'
<1>0. {"none", "nil", "plain", "shared"} \cap Rpcs = {}
  BY RpcAssumption
<1> SUFFICES ASSUME NEW q \in Rpcs, Answered(q)', kind'[q] = "unary"
             PROVE  /\ err'[q] # "none" \/ msg'[q] = q => status'[q].id = q
                    /\ err'[q] = "none" /\ msg'[q] = "shared" =>
                         \E p \in Rpcs : /\ msg'[p] = "shared"
                                         /\ status'[q].id = p
  BY DEF OwnRequestId
<1>1. \A p \in Rpcs : msg[p] = "shared" => msg'[p] = "shared"
  BY StepMsg
<1>2. CASE q # r
  <2>1. Same(q)
    BY <1>2, Frame
  <2>2. Answered(q) /\ kind[q] = "unary"
    BY <2>1 DEF Same, Answered
  <2>3. QED
    BY <1>1, <2>1, <2>2 DEF Same, OwnRequestId
<1>3. CASE q = r
  <2>1. Answer(r)
    BY <1>3, Places DEF Answered, Step, Arrive, Enter, Invalid, HandlerReturns,
       HandlerPanics, Pass, Recover, Unwind, Crash, Log, LoggerPanics, Wrap,
       Count, Has, SetNil, Set, Goto, TypeOK
  <2>2. /\ phase[r] = "return" /\ at[r] = 0 /\ kind[r] = "unary"
        /\ err'[r] = err[r] /\ msg' = msg /\ requestId' = requestId
    BY <1>3, <2>1 DEF Answer, Does
  <2>3. Traced(r) /\ Above(r)
    BY <2>2 DEF Traced, Above
  <2>4. status[r].code # "none"
    BY <2>3 DEF Result, NoError, GrpcStatus, FromContextError, Codes
  <2>5. CASE err[r] # "none"
    <3>1. status[r].id = r
      BY <2>3, <2>5 DEF Result
    <3>2. status'[r] = status[r]
      BY <2>1, <2>4, <2>5 DEF Answer, TypeOK
    <3>3. QED
      BY <1>3, <2>2, <2>5, <3>1, <3>2
  <2>6. CASE err[r] = "none" /\ msg[r] \in Messages
    <3>1. status'[r].id = requestId[msg[r]]
      BY <2>1, <2>4, <2>6 DEF Answer, TypeOK
    <3>2. requestId[msg[r]] # NoId
      BY <2>3, <2>6 DEF Ids
    <3>3. requestId[msg[r]] \in Rpcs /\ msg[requestId[msg[r]]] = msg[r]
      BY <2>6, <3>2 DEF Ids, TypeOK
    <3>4. msg[r] = r => requestId[msg[r]] = r
      BY <1>0, <3>3 DEF Ids
    <3>5. QED
      BY <1>3, <2>2, <2>6, <3>1, <3>3, <3>4
  <2>7. CASE err[r] = "none" /\ msg[r] \notin Messages
    BY <1>3, <2>2, <2>7 DEF Messages
  <2>8. QED
    BY <2>5, <2>6, <2>7
<1>4. QED
  BY <1>2, <1>3

-----------------------------------------------------------------------------
(* The invariant                                                           *)

\* IInv holds at the start.
LEMMA InitIInv == Init => IInv
<1> SUFFICES ASSUME Init PROVE IInv
  OBVIOUS
<1>1. TypeOK
  BY DEF Init, TypeOK, Status, NoId, StatusCodes, Errors, Responses
<1>2. ASSUME NEW r \in Rpcs
      PROVE  Place(r) /\ Result(r) /\ Tally(r) /\ Logged(r) /\ Panicked(r)
  BY DEF Init, Place, Result, Tally, Logged, Panicked, Below, Above, Traced,
     Answered, Status
<1>3. Ids
  BY DEF Init, Ids, Above
<1>4. OwnRequestId
  BY DEF Init, OwnRequestId, Answered
<1>5. QED
  BY <1>1, <1>2, <1>3, <1>4 DEF IInv

\* A step keeps IInv: of the RPC that takes it by the lemmas above, of the
\* others because it leaves them alone.
LEMMA StepIInv == IInv /\ [Next]_vars => IInv'
<1> SUFFICES ASSUME IInv, [Next]_vars PROVE IInv'
  OBVIOUS
<1>0. TypeOK /\ Ids /\ OwnRequestId
  BY DEF IInv
<1>1. CASE UNCHANGED vars
  BY <1>1 DEF IInv, vars, placeVars, tallyVars, TypeOK, Place, Result, Tally,
     Logged, Panicked, Ids, OwnRequestId, Below, Above, Traced, Answered, In,
     GrpcStatus, Default
<1>2. CASE Next
  <2>1. PICK r \in Rpcs : Step(r)
    BY <1>2, NextIsStep
  <2>2. Place(r) /\ Result(r) /\ Tally(r) /\ Logged(r) /\ Panicked(r)
    BY DEF IInv
  <2>3. TypeOK'
    BY <1>0, <2>1, <2>2, StepType
  <2>4. (Place(r) /\ Result(r) /\ Tally(r) /\ Logged(r) /\ Panicked(r))'
    BY <1>0, <2>1, <2>2, StepPlace, StepResult, StepTally, StepLogged,
       StepPanicked
  <2>5. ASSUME NEW q \in Rpcs, q # r
        PROVE  (Place(q) /\ Result(q) /\ Tally(q) /\ Logged(q)
                  /\ Panicked(q))'
    <3>1. Same(q)
      BY <1>0, <2>1, <2>5, Frame
    <3>2. Place(q) /\ Result(q) /\ Tally(q) /\ Logged(q) /\ Panicked(q)
      BY DEF IInv
    <3>3. Place(q)' /\ Tally(q)' /\ Logged(q)' /\ Panicked(q)'
      BY <3>1, <3>2 DEF Same, Place, Tally, Logged, Panicked, Below, Above,
         Traced, In
    <3>4. Result(q)'
      BY <3>1, <3>2 DEF Same, Result, Below, Above, Traced, Answered,
         GrpcStatus, Default
    <3>5. QED
      BY <3>3, <3>4
  <2>6. Ids' /\ OwnRequestId'
    BY <1>0, <2>1, <2>2, StepIds, StepOwnRequestId
  <2>7. QED
    BY <2>3, <2>4, <2>5, <2>6 DEF IInv
<1>3. QED
  BY <1>1, <1>2

\* The invariant of the server's chain, for every set of RPCs and modes.
THEOREM InductiveInvariant == SafeSpec => []IInv
  BY InitIInv, StepIInv, PTL DEF SafeSpec

-----------------------------------------------------------------------------
(* What it says                                                            *)

\* Unary RPCs are counted once, with the code of the answer; others never.
THEOREM CountedTheorem == SafeSpec => []CountedAsAnswered
<1>1. IInv => CountedAsAnswered
  BY DEF IInv, CountedAsAnswered, Place, Tally, Traced, Above, Answered
<1>2. QED
  BY <1>1, InductiveInvariant, PTL

\* A panic of a handler ends the process only with a panic of the logger,
\* and its client gets an error of the server.
THEOREM ContainedTheorem == SafeSpec => []HandlerPanicContained
<1>1. ASSUME IInv, NEW r \in Rpcs, "handler" \in panics[r]
      PROVE  /\ phase[r] = "crashed" => "logger" \in panics[r]
             /\ Answered(r) => status[r].code =
                  IF kind[r] = "unary" THEN "Internal" ELSE "Unknown"
  <2>1. Place(r) /\ Result(r) /\ Panicked(r)
    BY <1>1 DEF IInv
  <2>2. QED
    BY <1>1, <2>1 DEF Place, Result, Panicked, Traced, Above, Answered,
       GrpcStatus, Default, Codes, ContextErrors
<1>2. IInv => HandlerPanicContained
  BY <1>1 DEF HandlerPanicContained
<1>3. QED
  BY <1>2, InductiveInvariant, PTL

\* In production a unary RPC shows no text of a plain error.
THEOREM HiddenTheorem == SafeSpec => []InternalsHidden
<1>1. IInv => InternalsHidden
  BY DEF IInv, InternalsHidden, Place, Result, Traced, Above, Answered,
     GrpcStatus, NoError
<1>2. QED
  BY <1>1, InductiveInvariant, PTL

\* A client finds its own trace id, but in a response that is shared.
THEOREM OwnRequestIdTheorem == SafeSpec => []OwnRequestId
<1>1. IInv => OwnRequestId
  BY DEF IInv
<1>2. QED
  BY <1>1, InductiveInvariant, PTL

\* The level of the log line is that of the answer, but for context errors.
THEOREM LevelTheorem == SafeSpec => []LevelOfAnswer
<1>1. ASSUME IInv, NEW r \in Rpcs, Answered(r), kind[r] # "check",
             err[r] \notin ContextErrors
      PROVE  level[r] = Logf(status[r].code)
  <2>1. Place(r) /\ Result(r) /\ Logged(r)
    BY <1>1 DEF IInv
  <2>2. level[r] = Logf(Code(err[r]))
    BY <1>1, <2>1 DEF Place, Logged, Above, Answered
  <2>3. err[r] \in Codes \cup {"none", "plain"}
    BY <1>1 DEF IInv, TypeOK, Errors
  <2>4. CASE kind[r] = "unary"
    BY <1>1, <2>1, <2>2, <2>3, <2>4 DEF Place, Result, Traced, Above,
       Answered, GrpcStatus, NoError, Code, Logf, Codes
  <2>5. CASE kind[r] # "unary"
    BY <1>1, <2>1, <2>2, <2>3, <2>5 DEF Result, Answered, GrpcStatus,
       Default, NoError, Code, Logf, Codes
  <2>6. QED
    BY <2>4, <2>5
<1>2. IInv => LevelOfAnswer
  BY <1>1 DEF LevelOfAnswer
<1>3. QED
  BY <1>2, InductiveInvariant, PTL
=============================================================================
