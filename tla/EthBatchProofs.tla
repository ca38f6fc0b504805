--------------------------- MODULE EthBatchProofs ---------------------------
(***************************************************************************)
(* Proofs about EthBatch: which result a task is resolved with, and what a *)
(* batch retries, for any callers, blocks, batch size and retry limit.     *)
(***************************************************************************)
EXTENDS EthBatch, TLAPS

Open(g) == caller[g] # "idle" /\ resolved[g] = <<>>

IdleInv == \A g \in Callers : caller[g] = "idle" => resolved[g] = <<>>

\* A task is in one place of one batcher, for its kind of block, or in one
\* place of one running batch of tasks of one kind; it is in none of them
\* before it is made and after it is resolved.
QueueOK(q) ==
  \A i \in DOMAIN queue[q] :
    /\ Open(queue[q][i])
    /\ q = BatcherFor(block[queue[q][i]])
    /\ \A j \in DOMAIN queue[q] : queue[q][i] = queue[q][j] => i = j
    /\ \A h \in Callers : \A j \in DOMAIN batch[h] : queue[q][i] # batch[h][j]

QueueInv == \A q \in Batchers : QueueOK(q)

BatchOK(h) ==
  /\ IF h \in Running THEN Len(batch[h]) > 0 /\ batch[h][1] = h
                       ELSE batch[h] = <<>>
  /\ \A i \in DOMAIN batch[h] :
       /\ Open(batch[h][i])
       /\ Past(batch[h][i]) <=> Past(h)
       /\ \A k \in Callers : \A j \in DOMAIN batch[k] :
            batch[h][i] = batch[k][j] => h = k /\ i = j

BatchInv == \A h \in Callers : BatchOK(h)

AnswerOK(h) ==
  pc[h] = "answered" =>
    /\ Len(answers[h]) = Len(batch[h])
    /\ \A i \in DOMAIN answers[h] : OwnResult(batch[h][i], answers[h][i])

AnswerInv == \A h \in Callers : AnswerOK(h)

\* A batch that is alone counts its requests in numTries.
Counts(g) ==
  /\ pc[g] = "reset" => attempts[g] = 0
  /\ pc[g] = "attempt" => attempts[g] = numTries /\ numTries <= MaxRetries
  /\ pc[g] \in {"next", "count"} =>
       attempts[g] = numTries + 1 /\ numTries <= MaxRetries
  /\ pc[g] = "count" => loaded[g] = numTries /\ numTries < MaxRetries
  /\ attempts[g] <= MaxRetries + 1
  /\ pc[g] = "failed" => elapsed[g] \/ attempts[g] = MaxRetries + 1

RetryOK(g) ==
  /\ g \notin Running => attempts[g] = 0 /\ elapsed[g] = FALSE
  /\ g \in Running /\ ~shared[g] => Running = {g}
  /\ g \in Running /\ ~shared[g] /\ MaxRetries # 0 => Counts(g)

RetryInv == \A g \in Callers : RetryOK(g)

IInv ==
  /\ TypeOK /\ OwnAnswerOnce /\ IdleInv
  /\ QueueInv /\ BatchInv /\ AnswerInv /\ RetryInv
-----------------------------------------------------------------------------
USE BatchAssumption

LEMMA InitInv == Init => IInv
<1> SUFFICES ASSUME Init PROVE IInv
  OBVIOUS
<1> USE DEF Init
<1>1. TypeOK
  BY DEF TypeOK, Blocks
<1>2. Running = {}
  BY DEF Running
<1>3. OwnAnswerOnce /\ IdleInv /\ QueueInv /\ BatchInv
  BY <1>2 DEF OwnAnswerOnce, IdleInv, QueueInv, QueueOK, BatchInv, BatchOK
<1>4. AnswerInv /\ RetryInv
  BY <1>2 DEF AnswerInv, AnswerOK, RetryInv, RetryOK
<1> QED BY <1>1, <1>3, <1>4 DEF IInv

LEMMA Members ==
  ASSUME TypeOK
  PROVE  /\ \A q \in Batchers : \A i \in DOMAIN queue[q] : queue[q][i] \in Callers
         /\ \A h \in Callers : \A i \in DOMAIN batch[h] : batch[h][i] \in Callers
<1>1. ASSUME NEW s \in Seq(Callers), NEW i \in DOMAIN s
      PROVE  s[i] \in Callers
  OBVIOUS
<1>2. \A q \in Batchers : queue[q] \in Seq(Callers)
  BY DEF TypeOK
<1>3. \A h \in Callers : batch[h] \in Seq(Callers)
  BY DEF TypeOK
<1> QED BY <1>1, <1>2, <1>3

\* A step that moves no task.
LEMMA TaskFrame ==
  ASSUME IInv, UNCHANGED <<block, queue, batch>>, Running' = Running,
         \A h \in Callers : Open(h) => Open(h)'
  PROVE  QueueInv' /\ BatchInv'
<1>1. TypeOK
  BY DEF IInv
<1>2. QueueInv'
  BY <1>1, Members DEF IInv, QueueInv, QueueOK
<1>3. BatchInv'
  BY <1>1, Members DEF IInv, BatchInv, BatchOK, Past
<1> QED BY <1>2, <1>3

\* Callers

LEMMA CallContractInv ==
  ASSUME IInv, NEW g \in Callers, NEW b \in Blocks, CallContract(g, b)
  PROVE  IInv'
<1> USE DEF CallContract
<1>1. BatcherFor(b) \in Batchers
  BY DEF BatcherFor, Batchers
<1>2. /\ UNCHANGED <<batch, pc, attempts, elapsed, shared, loaded, answers,
                     numTries>>
      /\ Running' = Running
  BY DEF batchVars, Running
<1>3. /\ caller'[g] = "waiting" /\ block'[g] = b /\ resolved'[g] = <<>>
      /\ ~Open(g)
      /\ \A h \in Callers \ {g} :
           /\ caller'[h] = caller[h] /\ block'[h] = block[h]
           /\ resolved'[h] = resolved[h]
  BY DEF IInv, TypeOK, Free, Open
<1>4. TypeOK'
  <2>1. queue' \in [Batchers -> Seq(Callers)]
    BY <1>1 DEF IInv, TypeOK
  <2>2. resolved' \in [Callers -> Seq(Results)]
    BY DEF IInv, TypeOK
  <2> QED BY <1>2, <2>1, <2>2 DEF IInv, TypeOK
<1>5. \A h \in Callers : (Open(h) => h # g) /\ (Open(h) => Open(h)')
  BY <1>2, <1>3 DEF Open
<1>6. \A h \in Callers : \A i \in DOMAIN batch[h] :
        batch[h][i] \in Callers /\ Open(batch[h][i]) /\ batch[h][i] # g
  BY <1>5 DEF IInv, TypeOK, BatchInv, BatchOK
<1>7. OwnAnswerOnce' /\ IdleInv'
  <2>1. ASSUME NEW h \in Callers \ {g}, NEW r
        PROVE  OwnResult(h, r)' <=> OwnResult(h, r)
    BY <1>3 DEF OwnResult, Past
  <2>2. Len(<<>>) = 0 /\ DOMAIN resolved'[g] = {}
    BY <1>3
  <2> QED BY <1>2, <1>3, <2>1, <2>2 DEF IInv, OwnAnswerOnce, IdleInv
<1>8. BatchInv'
  <2> SUFFICES ASSUME NEW h \in Callers
               PROVE  BatchOK(h)'
    BY DEF BatchInv
  <2>1. BatchOK(h)
    BY DEF IInv, BatchInv
  <2>2. h \in Running => h # g
    BY <1>6, <2>1 DEF IInv, TypeOK, BatchOK
  <2>3. batch[h] # <<>> => h \in Running
    BY <2>1 DEF BatchOK
  <2> QED BY <1>2, <1>3, <1>5, <1>6, <2>1, <2>2, <2>3 DEF BatchOK, Past
<1>9. AnswerInv'
  <2> SUFFICES ASSUME NEW h \in Callers, pc[h] = "answered"
               PROVE  AnswerOK(h)!2'
    BY <1>2 DEF AnswerInv, AnswerOK
  <2>1. AnswerOK(h)!2
    BY DEF IInv, AnswerInv, AnswerOK
  <2>2. DOMAIN answers[h] = DOMAIN batch[h]
    BY <2>1 DEF IInv, TypeOK
  <2>3. ASSUME NEW i \in DOMAIN answers[h]
        PROVE  OwnResult(batch[h][i], answers[h][i])'
    BY <1>2, <1>3, <1>6, <2>1, <2>2, <2>3 DEF OwnResult, Past
  <2> QED BY <1>2, <2>1, <2>3
<1>10. RetryInv'
  BY <1>2 DEF IInv, RetryInv, RetryOK, Counts
<1>11. QueueInv'
  <2> SUFFICES ASSUME NEW q \in Batchers
               PROVE  QueueOK(q)'
    BY DEF QueueInv
  <2>1. queue[q] \in Seq(Callers) /\ QueueOK(q)
    BY DEF IInv, TypeOK, QueueInv
  <2>2. \A i \in DOMAIN queue[q] : queue[q][i] \in Callers \ {g}
    BY <1>5, <2>1 DEF QueueOK
  <2>3. /\ DOMAIN queue[q] = 1 .. Len(queue[q]) /\ Len(queue[q]) \in Nat
        /\ \A i \in DOMAIN queue'[q] :
             \/ i \in DOMAIN queue[q] /\ queue'[q][i] = queue[q][i]
             \/ i = Len(queue[q]) + 1 /\ queue'[q][i] = g /\ q = BatcherFor(b)
    <3>1. CASE q # BatcherFor(b)
      <4>1. queue'[q] = queue[q]
        BY <3>1 DEF IInv, TypeOK
      <4> QED BY <2>1, <4>1
    <3>2. CASE q = BatcherFor(b)
      <4>1. queue'[q] = Append(queue[q], g)
        BY <3>2 DEF IInv, TypeOK
      <4> QED BY <2>1, <3>2, <4>1
    <3> QED BY <3>1, <3>2
  <2>4. ASSUME NEW i \in DOMAIN queue'[q]
        PROVE  QueueOK(q)!(i)'
    <3>1. CASE i \in DOMAIN queue[q] /\ queue'[q][i] = queue[q][i]
      <4>1. /\ Open(queue[q][i]) /\ q = BatcherFor(block[queue[q][i]])
            /\ \A j \in DOMAIN queue[q] : queue[q][i] = queue[q][j] => i = j
            /\ \A h \in Callers : \A j \in DOMAIN batch[h] :
                 queue[q][i] # batch[h][j]
        BY <2>1, <3>1 DEF QueueOK
      <4>2. queue'[q][i] \in Callers \ {g}
        BY <2>2, <3>1
      <4> QED BY <1>2, <1>3, <1>5, <2>3, <3>1, <4>1, <4>2
    <3>2. CASE i = Len(queue[q]) + 1 /\ queue'[q][i] = g /\ q = BatcherFor(b)
      <4>1. Open(g)'
        BY <1>2, <1>3 DEF Open
      <4>2. \A j \in DOMAIN queue'[q] : queue'[q][j] = g => j = i
        BY <2>2, <2>3, <3>2
      <4> QED BY <1>2, <1>3, <1>6, <3>2, <4>1, <4>2
    <3> QED BY <2>3, <3>1, <3>2
  <2> QED BY <2>4 DEF QueueOK
<1> QED BY <1>4, <1>7, <1>8, <1>9, <1>10, <1>11 DEF IInv

\* A caller returns, with its result or without.
LEMMA ReturnInv ==
  ASSUME IInv, NEW g \in Callers, Result(g) \/ Cancelled(g)
  PROVE  IInv'
<1>1. /\ caller' = [caller EXCEPT ![g] = "returned"] /\ caller[g] = "waiting"
      /\ UNCHANGED <<block, queue, batch, pc, attempts, elapsed, shared, loaded,
                     answers, numTries, resolved>>
  BY DEF Result, Cancelled, batchVars
<1>2. TypeOK'
  BY <1>1 DEF IInv, TypeOK
<1>3. \A h \in Callers : (Open(h) => Open(h)') /\ (Past(h)' <=> Past(h))
  BY <1>1 DEF IInv, TypeOK, Open, Past
<1>4. Running' = Running
  BY <1>1 DEF Running
<1>5. OwnAnswerOnce' /\ IdleInv'
  BY <1>1 DEF IInv, TypeOK, OwnAnswerOnce, OwnResult, Past, IdleInv
<1>6. QueueInv' /\ BatchInv'
  BY <1>1, <1>3, <1>4, TaskFrame
<1>7. AnswerInv' /\ RetryInv'
  BY <1>1, <1>4 DEF IInv, AnswerInv, AnswerOK, OwnResult, Past, RetryInv,
                    RetryOK, Counts
<1> QED BY <1>2, <1>5, <1>6, <1>7 DEF IInv

\* The batcher

LEMMA TakeBatchInv ==
  ASSUME IInv, NEW q \in Batchers, TakeBatch(q) PROVE IInv'
<1>1. PICK n \in 1 .. Len(queue[q]) :
        /\ queue' = [queue EXCEPT ![q] = SubSeq(queue[q], n + 1, Len(queue[q]))]
        /\ Start(queue[q][1], SubSeq(queue[q], 1, n))
        /\ UNCHANGED <<caller, block, attempts, elapsed, loaded, answers,
                       numTries, resolved>>
  BY DEF TakeBatch
<1>2. PICK msgs, g, rest :
        /\ msgs = SubSeq(queue[q], 1, n) /\ g = queue[q][1]
        /\ rest = SubSeq(queue[q], n + 1, Len(queue[q]))
  OBVIOUS
<1>3. /\ queue' = [queue EXCEPT ![q] = rest] /\ Start(g, msgs)
      /\ UNCHANGED <<caller, block, attempts, elapsed, loaded, answers,
                     numTries, resolved>>
  BY <1>1, <1>2
<1>4. queue[q] \in Seq(Callers) /\ n \in 1 .. Len(queue[q])
  BY DEF IInv, TypeOK
<1>5. msgs \in Seq(Callers) /\ rest \in Seq(Callers) /\ Len(msgs) = n
  BY <1>2, <1>4
<1>6. /\ g \in Callers /\ g = queue[q][1] /\ 1 \in DOMAIN queue[q]
      /\ 1 \in DOMAIN msgs
      /\ \A i \in DOMAIN msgs :
           msgs[i] = queue[q][i] /\ i \in DOMAIN queue[q]
      /\ \A i \in DOMAIN rest :
           /\ i \in Nat /\ rest[i] = queue[q][i + n]
           /\ i + n \in DOMAIN queue[q] /\ i + n \notin DOMAIN msgs
      /\ n \in Nat /\ Len(msgs) > 0
  BY <1>2, <1>4
<1>7. /\ queue'[q] = rest /\ batch'[g] = msgs /\ pc'[g] = "reset"
      /\ \A p \in Batchers \ {q} : queue'[p] = queue[p]
      /\ \A h \in Callers \ {g} : batch'[h] = batch[h] /\ pc'[h] = pc[h]
      /\ \A h \in Callers :
           shared'[h] <=> shared[h] \/ h \in Running \/ (h = g /\ Running # {})
      /\ UNCHANGED <<caller, block, attempts, elapsed, loaded, answers,
                     numTries, resolved>>
  BY <1>3, <1>6 DEF Start, IInv, TypeOK
<1>8. TypeOK'
  BY <1>3, <1>5, <1>6 DEF Start, IInv, TypeOK
<1>9. g \notin Running /\ batch[g] = <<>> /\ Running' = Running \cup {g}
  <2>1. g \notin Running
    <3>1. g \in Running => batch[g][1] = g /\ Len(batch[g]) > 0
      BY <1>6 DEF IInv, BatchInv, BatchOK
    <3>2. batch[g] \in Seq(Callers)
      BY <1>6 DEF IInv, TypeOK
    <3>3. g \in Running => 1 \in DOMAIN batch[g]
      BY <3>1, <3>2
    <3> QED BY <1>6, <3>1, <3>3 DEF IInv, QueueInv, QueueOK
  <2> QED BY <1>6, <1>7, <2>1 DEF IInv, BatchInv, BatchOK, Running
<1>10. \A h : /\ Open(h)' <=> Open(h)
              /\ Past(h)' <=> Past(h)
  BY <1>7 DEF Open, Past
\* What the batcher knew of the tasks it hands over, and of those it keeps.
<1>11. /\ \A i \in DOMAIN queue[q] :
            /\ Open(queue[q][i]) /\ queue[q][i] \in Callers
            /\ q = BatcherFor(block[queue[q][i]])
            /\ \A j \in DOMAIN queue[q] : queue[q][i] = queue[q][j] => i = j
            /\ \A h \in Callers : \A j \in DOMAIN batch[h] :
                 queue[q][i] # batch[h][j]
  BY Members DEF IInv, QueueInv, QueueOK
<1>12. QueueInv'
  <2>1. ASSUME NEW p \in Batchers \ {q}
        PROVE  QueueOK(p)'
    <3>1. QueueOK(p) /\ \A i \in DOMAIN queue[p] : queue[p][i] \in Callers
      BY Members DEF IInv, QueueInv
    <3>2. \A i \in DOMAIN queue[p] : \A j \in DOMAIN msgs : queue[p][i] # msgs[j]
      BY <1>6, <1>11, <3>1 DEF QueueOK
    <3> QED BY <1>6, <1>7, <1>10, <3>1, <3>2 DEF QueueOK
  <2>2. ASSUME NEW i \in DOMAIN rest
        PROVE  /\ Open(rest[i]) /\ q = BatcherFor(block[rest[i]])
               /\ \A j \in DOMAIN rest : rest[i] = rest[j] => i = j
               /\ \A j \in DOMAIN msgs : rest[i] # msgs[j]
               /\ \A h \in Callers : \A j \in DOMAIN batch[h] :
                    rest[i] # batch[h][j]
    <3>1. /\ i \in Nat /\ i + n \in DOMAIN queue[q] /\ rest[i] = queue[q][i + n]
          /\ i + n \notin DOMAIN msgs
      BY <1>6
    <3>2. \A j \in DOMAIN rest : rest[i] = rest[j] => i = j
      <4> SUFFICES ASSUME NEW j \in DOMAIN rest, rest[i] = rest[j]
                   PROVE  i = j
        OBVIOUS
      <4>1. /\ j \in Nat /\ j + n \in DOMAIN queue[q]
            /\ rest[j] = queue[q][j + n]
        BY <1>6
      <4>2. i + n = j + n
        BY <1>11, <3>1, <4>1
      <4> QED BY <1>6, <3>1, <4>1, <4>2
    <3>3. \A j \in DOMAIN msgs : rest[i] # msgs[j]
      BY <1>6, <1>11, <3>1
    <3> QED BY <1>11, <3>1, <3>2, <3>3
  <2>3. QueueOK(q)'
    BY <1>6, <1>7, <1>10, <2>2 DEF QueueOK
  <2> QED BY <2>1, <2>3 DEF QueueInv
<1>13. BatchInv'
  <2>1. ASSUME NEW i \in DOMAIN msgs
        PROVE  /\ Open(msgs[i]) /\ msgs[i] \in Callers
               /\ Past(msgs[i]) <=> Past(g)
               /\ \A j \in DOMAIN msgs : msgs[i] = msgs[j] => i = j
               /\ \A h \in Callers : \A j \in DOMAIN batch[h] :
                    msgs[i] # batch[h][j]
    BY <1>6, <1>11 DEF Past, BatcherFor
  <2>2. BatchOK(g)'
    <3>1. g \in Running' /\ Len(batch'[g]) > 0 /\ batch'[g][1] = g
      BY <1>6, <1>7, <1>9
    <3> QED BY <1>6, <1>7, <1>10, <2>1, <3>1 DEF BatchOK
  <2>3. ASSUME NEW h \in Callers \ {g}
        PROVE  BatchOK(h)'
    <3>1. BatchOK(h) /\ \A i \in DOMAIN batch[h] : batch[h][i] \in Callers
      BY Members DEF IInv, BatchInv
    <3>2. h \in Running' <=> h \in Running
      BY <1>9
    <3> QED BY <1>6, <1>7, <1>9, <1>10, <2>1, <3>1, <3>2 DEF BatchOK
  <2> QED BY <2>2, <2>3 DEF BatchInv
<1>14. AnswerInv'
  <2> SUFFICES ASSUME NEW h \in Callers
               PROVE  AnswerOK(h)'
    BY DEF AnswerInv
  <2>1. AnswerOK(h) /\ answers' = answers /\ block' = block
    BY <1>7 DEF IInv, AnswerInv
  <2>2. pc'[h] = "answered" => pc[h] = "answered" /\ batch'[h] = batch[h]
    BY <1>7
  <2> QED BY <2>1, <2>2 DEF AnswerOK, OwnResult, Past
<1>15. RetryInv'
  BY <1>6, <1>7, <1>9 DEF IInv, RetryInv, RetryOK, Counts
<1>16. OwnAnswerOnce' /\ IdleInv'
  BY <1>7 DEF IInv, OwnAnswerOnce, OwnResult, Past, IdleInv
<1> QED BY <1>8, <1>12, <1>13, <1>14, <1>15, <1>16 DEF IInv

\* batchCalls

\* A step of a batch before its tasks are resolved.
LEMMA BatchStep ==
  ASSUME IInv, NEW g \in Callers, g \in Running,
         UNCHANGED <<caller, block, queue, batch, shared, resolved>>,
         pc'[g] # "idle",
         \A h \in Callers \ {g} :
           /\ pc'[h] = pc[h] /\ attempts'[h] = attempts[h]
           /\ elapsed'[h] = elapsed[h] /\ answers'[h] = answers[h],
         TypeOK', AnswerOK(g)',
         ~shared[g] /\ MaxRetries # 0 => Counts(g)'
  PROVE  IInv'
<1>1. Running' = Running
  BY DEF Running
<1>2. QueueInv' /\ BatchInv'
  BY <1>1, TaskFrame DEF Open
<1>3. OwnAnswerOnce' /\ IdleInv'
  BY DEF IInv, OwnAnswerOnce, OwnResult, Past, IdleInv
<1>4. AnswerInv'
  BY DEF IInv, AnswerInv, AnswerOK, OwnResult, Past
<1>5. RetryInv'
  <2>1. ASSUME NEW h \in Callers \ {g}
        PROVE  RetryOK(h)'
    BY <1>1 DEF IInv, RetryInv, RetryOK
  <2>2. RetryOK(g)'
    BY <1>1 DEF IInv, RetryInv, RetryOK
  <2> QED BY <2>1, <2>2 DEF RetryInv
<1> QED BY <1>2, <1>3, <1>4, <1>5 DEF IInv

LEMMA StartRetryInv ==
  ASSUME IInv, NEW g \in Callers, StartRetry(g) PROVE IInv'
<1> USE DEF StartRetry, Goto
<1>1. g \in Running /\ pc'[g] = "attempt"
  BY DEF IInv, TypeOK, Running
<1>2. TypeOK'
  BY DEF IInv, TypeOK
<1>3. ~shared[g] /\ MaxRetries # 0 => Counts(g)'
  BY <1>1 DEF IInv, RetryInv, RetryOK, Counts
<1>4. AnswerOK(g)'
  BY <1>1 DEF AnswerOK
<1> QED BY <1>1, <1>2, <1>3, <1>4, BatchStep DEF IInv, TypeOK

LEMMA CallFailsInv ==
  ASSUME IInv, NEW g \in Callers, CallFails(g) PROVE IInv'
<1> USE DEF CallFails, Send, Goto
<1>1. g \in Running /\ pc'[g] = "next"
      /\ attempts'[g] = IF shared[g] THEN attempts[g] ELSE attempts[g] + 1
  BY DEF IInv, TypeOK, Running
<1>2. TypeOK'
  BY DEF IInv, TypeOK
<1>3. ~shared[g] /\ MaxRetries # 0 => Counts(g)'
  BY <1>1 DEF IInv, TypeOK, RetryInv, RetryOK, Counts
<1>4. AnswerOK(g)'
  BY <1>1 DEF AnswerOK
<1> QED BY <1>1, <1>2, <1>3, <1>4, BatchStep DEF IInv, TypeOK

LEMMA NextBackOffInv ==
  ASSUME IInv, NEW g \in Callers, NextBackOff(g) PROVE IInv'
<1> USE DEF NextBackOff, Goto
<1>1. g \in Running /\ pc'[g] \in {"failed", "count"}
  BY DEF IInv, TypeOK, Running
<1>2. TypeOK'
  BY DEF IInv, TypeOK
<1>3. ~shared[g] /\ MaxRetries # 0 => Counts(g)'
  BY <1>1 DEF IInv, TypeOK, RetryInv, RetryOK, Counts
<1>4. AnswerOK(g)'
  BY <1>1 DEF AnswerOK
<1> QED BY <1>1, <1>2, <1>3, <1>4, BatchStep DEF IInv, TypeOK

LEMMA CountTryInv ==
  ASSUME IInv, NEW g \in Callers, CountTry(g) PROVE IInv'
<1> USE DEF CountTry, Goto
<1>1. g \in Running /\ pc'[g] \in {"failed", "attempt"}
  BY DEF IInv, TypeOK, Running
<1>2. TypeOK'
  <2>1. numTries' \in Nat /\ loaded' \in [Callers -> Nat]
    BY DEF IInv, TypeOK
  <2>2. elapsed' \in [Callers -> BOOLEAN]
    BY DEF IInv, TypeOK
  <2>3. pc' = [pc EXCEPT ![g] = "attempt"] \/ pc' = [pc EXCEPT ![g] = "failed"]
    OBVIOUS
  <2> QED BY <2>1, <2>2, <2>3 DEF IInv, TypeOK
<1>3. ~shared[g] /\ MaxRetries # 0 => Counts(g)'
  <2> SUFFICES ASSUME ~shared[g], MaxRetries # 0
               PROVE  Counts(g)'
    OBVIOUS
  <2>1. /\ attempts[g] = numTries + 1 /\ numTries' = numTries + 1
        /\ numTries \in Nat /\ numTries < MaxRetries
        /\ attempts'[g] = attempts[g]
    BY <1>1 DEF IInv, TypeOK, RetryInv, RetryOK, Counts
  <2>2. pc'[g] = "failed" => elapsed'[g]
    BY DEF IInv, TypeOK
  <2> QED BY <1>1, <2>1, <2>2 DEF Counts
<1>4. AnswerOK(g)'
  BY <1>1 DEF AnswerOK
<1> QED BY <1>1, <1>2, <1>3, <1>4, BatchStep DEF IInv, TypeOK

LEMMA CallSucceedsInv ==
  ASSUME IInv, NEW g \in Callers, CallSucceeds(g) PROVE IInv'
<1> USE DEF CallSucceeds, Send, Goto
<1>1. /\ g \in Running /\ pc'[g] = "answered"
      /\ attempts' = [attempts EXCEPT ![g] =
                      IF shared[g] THEN attempts[g] ELSE attempts[g] + 1]
  BY DEF IInv, TypeOK, Running
<1>2. PICK failed \in SUBSET (1 .. Len(batch[g])) :
        answers' = [answers EXCEPT ![g] =
                      [i \in 1 .. Len(batch[g]) |->
                         IF i \in failed \cup Refused(g) THEN Error
                                                       ELSE Answer(g, i)]]
  OBVIOUS
<1>3. /\ DOMAIN batch[g] = 1 .. Len(batch[g]) /\ Len(batch[g]) \in Nat
      /\ 1 \in DOMAIN batch[g] /\ batch[g][1] = g
      /\ \A i \in DOMAIN batch[g] : batch[g][i] \in Callers
  <2>1. batch[g] \in Seq(Callers) /\ Len(batch[g]) > 0 /\ batch[g][1] = g
    BY <1>1 DEF IInv, TypeOK, BatchInv, BatchOK
  <2> QED BY <2>1
<1>4. ASSUME NEW i \in DOMAIN batch[g], i \notin Refused(g)
      PROVE  /\ OwnResult(batch[g][i], Answer(g, i))
             /\ Answer(g, i) \in Results
  <2> DEFINE h == batch[g][i]
  <2>1. h \in Callers /\ (Past(h) <=> Past(g)) /\ block[h] \in Blocks
    BY <1>3 DEF IInv, TypeOK, BatchInv, BatchOK
  <2>2. Answer(g, i) = [node |-> ClientFor(block[g]), of |-> h]
    BY <1>3 DEF Answer
  <2>3. ClientFor(block[g]) = IF Past(h) THEN "archive" ELSE "full"
    BY <2>1 DEF ClientFor, Past
  <2>4. Accepts(ToBlockNumArg(block[h]))
    BY <1>3, <1>4 DEF Refused
  <2>5. Past(h) => block[h] >= 0 \/ block[h] \in {-1, -3, -4}
    BY <2>1, <2>4 DEF Accepts, ToBlockNumArg, EncodeBig, Name, Past, Blocks
  <2> QED BY <2>1, <2>2, <2>3, <2>5 DEF OwnResult, Results, Answers
<1> DEFINE now == [i \in 1 .. Len(batch[g]) |->
                     IF i \in failed \cup Refused(g) THEN Error ELSE Answer(g, i)]
<1>5. /\ \A i \in DOMAIN batch[g] :
           now[i] \in Results /\ OwnResult(batch[g][i], now[i])
      /\ now \in Seq(Results) /\ Len(now) = Len(batch[g])
  <2>1. \A i \in DOMAIN batch[g] :
          now[i] \in Results /\ OwnResult(batch[g][i], now[i])
    BY <1>3, <1>4 DEF OwnResult, Results
  <2>2. now = [i \in 1 .. Len(batch[g]) |-> now[i]]
    OBVIOUS
  <2> HIDE DEF now
  <2>3. now \in [1 .. Len(batch[g]) -> Results]
    BY <1>3, <2>1, <2>2
  <2>4. \A n \in Nat : \A s \in [1 .. n -> Results] :
          s \in Seq(Results) /\ Len(s) = n
    OBVIOUS
  <2> QED BY <1>3, <2>1, <2>3, <2>4
<1>6. /\ answers' \in [Callers -> Seq(Results)] /\ answers'[g] = now
      /\ \A h \in Callers \ {g} : answers'[h] = answers[h]
  <2> HIDE DEF now
  <2>1. answers' = [answers EXCEPT ![g] = now]
    BY <1>2 DEF now
  <2> QED BY <1>5, <2>1 DEF IInv, TypeOK
<1> HIDE DEF now
<1>7. TypeOK'
  BY <1>1, <1>6 DEF IInv, TypeOK
<1>8. ~shared[g] /\ MaxRetries # 0 => Counts(g)'
  BY <1>1 DEF IInv, TypeOK, RetryInv, RetryOK, Counts
<1>9. AnswerOK(g)'
  BY <1>3, <1>5, <1>6 DEF AnswerOK, OwnResult, Past
<1> QED BY <1>1, <1>6, <1>7, <1>8, <1>9, BatchStep DEF IInv, TypeOK

\* The tasks of a batch are resolved, each with the result at its own index.
LEMMA ResolveInv ==
  ASSUME IInv, NEW g \in Callers, g \in Running, NEW results,
         \A i \in DOMAIN batch[g] :
           results[i] \in Results /\ OwnResult(batch[g][i], results[i]),
         Resolve(g, results), Done(g),
         UNCHANGED <<caller, block, queue, loaded, numTries>>
  PROVE  IInv'
<1>1. /\ pc' = [pc EXCEPT ![g] = "idle"]
      /\ batch' = [batch EXCEPT ![g] = <<>>]
      /\ attempts' = [attempts EXCEPT ![g] = 0]
      /\ elapsed' = [elapsed EXCEPT ![g] = FALSE]
      /\ shared' = [shared EXCEPT ![g] = FALSE]
      /\ answers' = [answers EXCEPT ![g] = <<>>]
  BY DEF Done, Goto
<1>2. /\ pc'[g] = "idle" /\ batch'[g] = <<>> /\ attempts'[g] = 0
      /\ elapsed'[g] = FALSE
      /\ \A h \in Callers \ {g} :
           /\ pc'[h] = pc[h] /\ batch'[h] = batch[h] /\ answers'[h] = answers[h]
           /\ attempts'[h] = attempts[h] /\ elapsed'[h] = elapsed[h]
           /\ shared'[h] = shared[h]
      /\ Running' = Running \ {g}
  BY <1>1 DEF IInv, TypeOK, Running
<1>3. ASSUME NEW h \in Callers, NEW i \in DOMAIN batch[g], batch[g][i] = h
      PROVE  \E r \in Results :
               /\ resolved'[h] = <<r>> /\ OwnResult(h, r)
               /\ caller[h] # "idle"
  <2> DEFINE j == CHOOSE k \in DOMAIN batch[g] : batch[g][k] = h
  <2>1. j \in DOMAIN batch[g] /\ batch[g][j] = h
    BY <1>3
  <2> HIDE DEF j
  <2>2. Open(h)
    BY <2>1 DEF IInv, BatchInv, BatchOK
  <2>3. resolved'[h] = Append(resolved[h], results[j])
    BY <1>3 DEF Resolve, j
  <2> QED BY <2>1, <2>2, <2>3 DEF Open
<1>4. ASSUME NEW h \in Callers, \A i \in DOMAIN batch[g] : batch[g][i] # h
      PROVE  resolved'[h] = resolved[h]
  BY <1>4 DEF Resolve
<1>5. resolved' \in [Callers -> Seq(Results)]
  <2>1. \A h \in Callers : resolved'[h] \in Seq(Results)
    <3> SUFFICES ASSUME NEW h \in Callers
                 PROVE  resolved'[h] \in Seq(Results)
      OBVIOUS
    <3>1. CASE \E i \in DOMAIN batch[g] : batch[g][i] = h
      <4>1. PICK r \in Results : resolved'[h] = <<r>>
        BY <1>3, <3>1
      <4> QED BY <4>1
    <3>2. CASE \A i \in DOMAIN batch[g] : batch[g][i] # h
      BY <1>4, <3>2 DEF IInv, TypeOK
    <3> QED BY <3>1, <3>2
  <2> QED BY <2>1 DEF Resolve
<1>6. TypeOK'
  <2>1. /\ batch' \in [Callers -> Seq(Callers)]
        /\ answers' \in [Callers -> Seq(Results)]
    BY <1>1 DEF IInv, TypeOK
  <2>2. /\ attempts' \in [Callers -> Nat]
        /\ elapsed' \in [Callers -> BOOLEAN] /\ shared' \in [Callers -> BOOLEAN]
    BY <1>1 DEF IInv, TypeOK
  <2> QED BY <1>1, <1>5, <2>1, <2>2 DEF IInv, TypeOK
<1>7. OwnAnswerOnce' /\ IdleInv'
  <2> SUFFICES ASSUME NEW h \in Callers
               PROVE  OwnAnswerOnce!(h)' /\ IdleInv!(h)'
    BY DEF OwnAnswerOnce, IdleInv
  <2>1. \A r : OwnResult(h, r)' <=> OwnResult(h, r)
    BY DEF OwnResult, Past
  <2>2. CASE \E i \in DOMAIN batch[g] : batch[g][i] = h
    <3>1. PICK r \in Results : /\ resolved'[h] = <<r>> /\ OwnResult(h, r)
                               /\ caller[h] # "idle"
      BY <1>3, <2>2
    <3> QED BY <2>1, <3>1
  <2>3. CASE \A i \in DOMAIN batch[g] : batch[g][i] # h
    <3>1. resolved'[h] = resolved[h]
      BY <1>4, <2>3
    <3> QED BY <2>1, <3>1 DEF IInv, OwnAnswerOnce, IdleInv
  <2> QED BY <2>2, <2>3
<1>8. TypeOK
  BY DEF IInv
<1>9. QueueInv'
  <2> SUFFICES ASSUME NEW q \in Batchers, NEW i \in DOMAIN queue[q]
               PROVE  QueueOK(q)!(i)'
    BY DEF QueueInv, QueueOK
  <2>1. QueueOK(q)!(i) /\ queue[q][i] \in Callers
    BY <1>8, Members DEF IInv, QueueInv, QueueOK
  <2>2. resolved'[queue[q][i]] = resolved[queue[q][i]]
    BY <1>4, <2>1
  <2> QED BY <1>2, <2>1, <2>2 DEF Open
<1>10. BatchInv'
  <2> SUFFICES ASSUME NEW h \in Callers \ {g}
               PROVE  BatchOK(h)'
    BY <1>2 DEF BatchInv, BatchOK
  <2>1. BatchOK(h) /\ \A i \in DOMAIN batch[h] : batch[h][i] \in Callers
    BY <1>8, Members DEF IInv, BatchInv
  <2>2. ASSUME NEW i \in DOMAIN batch[h]
        PROVE  Open(batch[h][i])'
    <3>1. \A j \in DOMAIN batch[g] : batch[g][j] # batch[h][i]
      BY <2>1 DEF BatchOK
    <3>2. resolved'[batch[h][i]] = resolved[batch[h][i]]
      BY <1>4, <2>1, <3>1
    <3> QED BY <1>2, <2>1, <3>2 DEF BatchOK, Open
  <2> QED BY <1>2, <2>1, <2>2 DEF BatchOK, Past
<1>11. AnswerInv'
  <2> SUFFICES ASSUME NEW h \in Callers \ {g}
               PROVE  AnswerOK(h)'
    BY <1>2 DEF AnswerInv, AnswerOK
  <2> QED BY <1>2 DEF IInv, AnswerInv, AnswerOK, OwnResult, Past
<1>12. RetryInv'
  BY <1>2 DEF IInv, RetryInv, RetryOK
<1> QED BY <1>6, <1>7, <1>9, <1>10, <1>11, <1>12 DEF IInv

LEMMA FailInv == ASSUME IInv, NEW g \in Callers, Fail(g) PROVE IInv'
<1>1. g \in Running
  BY DEF Fail, Running
<1>2. DOMAIN batch[g] = 1 .. Len(batch[g])
  BY DEF IInv, TypeOK
<1>3. \A i \in DOMAIN batch[g] :
        Errors(g)[i] \in Results /\ OwnResult(batch[g][i], Errors(g)[i])
  BY <1>2 DEF Errors, Results, OwnResult
<1> QED BY <1>1, <1>3, ResolveInv DEF Fail

LEMMA SucceedInv == ASSUME IInv, NEW g \in Callers, Succeed(g) PROVE IInv'
<1>1. g \in Running /\ pc[g] = "answered"
  BY DEF Succeed, Running
<1>2. DOMAIN batch[g] = DOMAIN answers[g]
  BY <1>1 DEF IInv, TypeOK, AnswerInv, AnswerOK
<1>3. \A i \in DOMAIN batch[g] :
        answers[g][i] \in Results /\ OwnResult(batch[g][i], answers[g][i])
  <2>1. answers[g] \in Seq(Results)
    BY DEF IInv, TypeOK
  <2>2. \A i \in DOMAIN answers[g] : answers[g][i] \in Results
    BY <2>1
  <2> QED BY <1>1, <1>2, <2>2 DEF IInv, AnswerInv, AnswerOK
<1> QED BY <1>1, <1>3, ResolveInv DEF Succeed
-----------------------------------------------------------------------------
LEMMA StepInv == IInv /\ [Next]_vars => IInv'
<1> SUFFICES ASSUME IInv, [Next]_vars PROVE IInv'
  OBVIOUS
<1>1. ASSUME NEW g \in Callers, BatchCalls(g)
      PROVE  IInv'
  BY <1>1, StartRetryInv, CallSucceedsInv, CallFailsInv, NextBackOffInv,
     CountTryInv, FailInv, SucceedInv DEF BatchCalls
<1>2. CASE UNCHANGED vars
  <2>1. UNCHANGED <<caller, block, queue, batch, pc, attempts, elapsed, shared,
                    loaded, answers, numTries, resolved>>
    BY <1>2 DEF vars, batchVars
  <2>2. TypeOK' /\ OwnAnswerOnce' /\ IdleInv' /\ Running' = Running
    BY <2>1 DEF IInv, TypeOK, OwnAnswerOnce, OwnResult, Past, IdleInv, Running
  <2>3. QueueInv' /\ BatchInv'
    BY <2>1, <2>2, TaskFrame DEF Open
  <2>4. AnswerInv' /\ RetryInv'
    BY <2>1, <2>2 DEF IInv, AnswerInv, AnswerOK, OwnResult, Past, RetryInv,
                      RetryOK, Counts
  <2> QED BY <2>2, <2>3, <2>4 DEF IInv
<1> QED BY <1>1, <1>2, CallContractInv, ReturnInv, TakeBatchInv DEF Next

\* The invariant the theorems below rest on: where a task can be, whose
\* answers a batch holds, and what the counter says of a batch that is alone.
THEOREM Invariant == SafeSpec => []IInv
BY InitInv, StepInv, PTL DEF SafeSpec

\* Whatever tasks are batched together, a call gets at most one result, an
\* error or the answer to its own request from the node for its block.
THEOREM OwnAnswerTheorem == SafeSpec => []OwnAnswerOnce
<1>1. IInv => OwnAnswerOnce
  BY DEF IInv
<1> QED BY <1>1, Invariant, PTL

\* Sharing the BackOff costs retries only to batches that overlap.
THEOREM RetriesTheorem == SafeSpec => []RetriesWhenAlone
<1>1. ASSUME IInv
      PROVE  RetriesWhenAlone
  <2> SUFFICES ASSUME NEW g \in Callers, ~shared[g], MaxRetries # 0
               PROVE  RetriesWhenAlone!(g)!2
    BY DEF RetriesWhenAlone
  <2>1. CASE g \in Running
    BY <1>1, <2>1 DEF IInv, RetryInv, RetryOK, Counts
  <2>2. CASE g \notin Running
    BY <1>1, <2>2 DEF IInv, RetryInv, RetryOK, Running
  <2> QED BY <2>1, <2>2
<1> QED BY <1>1, Invariant, PTL
=============================================================================
