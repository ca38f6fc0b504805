------------------------------ MODULE EthBatch ------------------------------
(***************************************************************************)
(* BatchableEthClient, pkg/client/eth_batchable.go: eth_calls of many      *)
(* goroutines are sent in batches, calls on the latest block to the full   *)
(* node and calls on a past block to the archive node.                     *)
(*                                                                         *)
(* CallContract puts a task into one of two batchers of kutils and waits   *)
(* for its result.  A batcher hands tasks, in order and at most BatchCnt   *)
(* at a time, to batchCalls in a goroutine: when it does and whether       *)
(* several batches of one batcher run together is left open here, as the   *)
(* library is external.  batchCalls retries the request as the one         *)
(* BackOff object of the client says, which all batches share.             *)
(*                                                                         *)
(* Callers call without end.  A caller stands for one call at a time: it   *)
(* calls again once its call has returned and the task of that call is     *)
(* resolved.  A batch is named by its first caller.                        *)
(***************************************************************************)
EXTENDS Integers, Sequences, FiniteSets

CONSTANTS
  Callers,     \* calls of CallContract that can be under way at one time
  Numbers,     \* block numbers that are asked for
  Nil,         \* no block number
  BatchCnt,    \* BatchableEthCfg.BatchCnt
  MaxRetries   \* BackoffCfg.MaxRetries; 0 sets no limit

ASSUME BatchAssumption ==
  /\ Numbers \subseteq Int /\ Nil \notin Numbers
  /\ BatchCnt \in Nat \ {0}
  /\ MaxRetries \in Nat

VARIABLES
  caller,    \* where each caller is
  block,     \* blockNumber of each call
  queue,     \* tasks in each batcher
  batch,     \* the messages of each batch, <<>> before it is taken
  pc,        \* where batchCalls is, for each batch
  attempts,  \* history: requests of each running batch while it is alone
  elapsed,   \* history: MaxElapsedTime ended the running batch
  shared,    \* history: another batch has overlapped the running batch
  numTries,  \* the counter in the shared BackOff
  loaded,    \* its value as a batch has read it
  answers,   \* what the node answered, for each batch
  resolved   \* results the task of each caller was resolved with

batchVars == <<batch, pc, attempts, elapsed, shared, loaded, answers>>
vars == <<caller, block, queue, batchVars, numTries, resolved>>

Batchers == {"batcher", "archiveBatcher"}
Blocks   == {Nil} \cup Numbers
Answers  == [node : {"full", "archive"}, of : Callers]
Error    == [node |-> "none", of |-> "error"]
Results  == {Error} \cup Answers

Running == {g \in Callers : pc[g] # "idle"}

Init ==
  /\ caller = [g \in Callers |-> "idle"]
  /\ block = [g \in Callers |-> Nil]
  /\ queue = [q \in Batchers |-> <<>>]
  /\ batch = [g \in Callers |-> <<>>]
  /\ pc = [g \in Callers |-> "idle"]
  /\ attempts = [g \in Callers |-> 0]
  /\ elapsed = [g \in Callers |-> FALSE]
  /\ shared = [g \in Callers |-> FALSE]
  /\ numTries = 0
  /\ loaded = [g \in Callers |-> 0]
  /\ answers = [g \in Callers |-> <<>>]
  /\ resolved = [g \in Callers |-> <<>>]

-----------------------------------------------------------------------------
(* Callers                                                                 *)

\* Mutant: every task goes into the same batcher.
OneBatcher(b) == IF b \in Blocks THEN "batcher" ELSE "none"

BatcherFor(b) == IF b # Nil THEN "archiveBatcher" ELSE "batcher"

\* The task of a call whose ctx has ended may still be in a batch.
Free(g) == caller[g] = "idle" \/ (caller[g] = "returned" /\ resolved[g] # <<>>)

CallContract(g, b) ==
  /\ Free(g)
  /\ caller' = [caller EXCEPT ![g] = "waiting"]
  /\ block' = [block EXCEPT ![g] = b]
  /\ queue' = [queue EXCEPT ![BatcherFor(b)] = Append(@, g)]
  /\ resolved' = [resolved EXCEPT ![g] = <<>>]
  /\ UNCHANGED <<batchVars, numTries>>

Result(g) ==
  /\ caller[g] = "waiting"
  /\ resolved[g] # <<>>
  /\ caller' = [caller EXCEPT ![g] = "returned"]
  /\ UNCHANGED <<block, queue, batchVars, numTries, resolved>>

\* The caller's ctx ends; its task stays in the batch, whose own context has
\* no cancellation.
Cancelled(g) ==
  /\ caller[g] = "waiting"
  /\ caller' = [caller EXCEPT ![g] = "returned"]
  /\ UNCHANGED <<block, queue, batchVars, numTries, resolved>>

Start(g, msgs) ==
  /\ batch' = [batch EXCEPT ![g] = msgs]
  /\ pc' = [pc EXCEPT ![g] = "reset"]
  /\ shared' = [h \in Callers |->
       shared[h] \/ h \in Running \/ (h = g /\ Running # {})]

\* A full batch, the end of BatchRate or Flush; at most BatchCnt tasks.
TakeBatch(q) ==
  \E n \in 1 .. Len(queue[q]) :
    /\ n <= BatchCnt
    /\ queue' = [queue EXCEPT ![q] = SubSeq(@, n + 1, Len(@))]
    /\ Start(queue[q][1], SubSeq(queue[q], 1, n))
    /\ UNCHANGED <<caller, block, attempts, elapsed, loaded, answers,
                   numTries, resolved>>

-----------------------------------------------------------------------------
(* batchCalls                                                              *)

Goto(g, to) == pc' = [pc EXCEPT ![g] = to]

\* A batch that others overlap may send requests without end: attempts counts
\* those of a batch that is alone.
Send(g) ==
  attempts' = [attempts EXCEPT ![g] = IF shared[g] THEN @ ELSE @ + 1]

\* Mutant: the counter is not reset when a batch starts.
StartWithoutReset(g) ==
  /\ pc[g] = "reset"
  /\ Goto(g, "attempt")
  /\ UNCHANGED <<caller, block, queue, batch, attempts, elapsed, shared,
                 loaded, answers, numTries, resolved>>

\* backoff.Retry resets the BackOff it is given.
StartRetry(g) ==
  /\ pc[g] = "reset"
  /\ numTries' = 0
  /\ Goto(g, "attempt")
  /\ UNCHANGED <<caller, block, queue, batch, attempts, elapsed, shared,
                 loaded, answers, resolved>>

\* ClientFor: the node is chosen by the block of the first message.
ClientFor(b) == IF b = Nil THEN "full" ELSE "archive"

\* toBlockNumArg has a name for nil and for three numbers below 0.
EncodeBig(n) == [name |-> "", number |-> n]
Name(name)   == [name |-> name, number |-> 0]

ToBlockNumArg(b) ==
  IF b = Nil THEN Name("latest")
  ELSE IF b = -1 THEN Name("pending")
  ELSE IF b = -3 THEN Name("finalized")
  ELSE IF b = -4 THEN Name("safe")
  ELSE EncodeBig(b)

\* A node has no block with a number below 0.
Accepts(arg) == arg.name # "" \/ arg.number >= 0

Answer(g, i) ==
  [node |-> ClientFor(block[batch[g][1]]), of |-> batch[g][i]]

\* The node answers every request of the batch, some perhaps with an error.
Refused(g) ==
  {i \in 1 .. Len(batch[g]) : ~Accepts(ToBlockNumArg(block[batch[g][i]]))}

CallSucceeds(g) ==
  /\ pc[g] = "attempt"
  /\ Send(g)
  /\ \E failed \in SUBSET (1 .. Len(batch[g])) :
       answers' = [answers EXCEPT ![g] =
                     [i \in 1 .. Len(batch[g]) |->
                        IF i \in failed \cup Refused(g) THEN Error
                                                      ELSE Answer(g, i)]]
  /\ Goto(g, "answered")
  /\ UNCHANGED <<caller, block, queue, batch, elapsed, shared, loaded,
                 numTries, resolved>>

CallFails(g) ==
  /\ pc[g] = "attempt"
  /\ Send(g)
  /\ Goto(g, "next")
  /\ UNCHANGED <<caller, block, queue, batch, elapsed, shared, loaded,
                 answers, numTries, resolved>>

\* NextBackOff compares the counter and, unless it stops, increments it, in
\* two steps that nothing protects from other batches.
NextBackOff(g) ==
  /\ pc[g] = "next"
  /\ IF MaxRetries # 0 /\ MaxRetries <= numTries
       THEN Goto(g, "failed") /\ UNCHANGED loaded
       ELSE Goto(g, "count") /\ loaded' = [loaded EXCEPT ![g] = numTries]
  /\ UNCHANGED <<caller, block, queue, batch, attempts, elapsed, shared,
                 answers, numTries, resolved>>

\* Then it asks the exponential backoff, which stops at MaxElapsedTime.
CountTry(g) ==
  /\ pc[g] = "count"
  /\ numTries' = loaded[g] + 1
  /\ loaded' = [loaded EXCEPT ![g] = 0]
  /\ \/ Goto(g, "attempt") /\ UNCHANGED elapsed
     \/ Goto(g, "failed") /\ elapsed' = [elapsed EXCEPT ![g] = TRUE]
  /\ UNCHANGED <<caller, block, queue, batch, attempts, shared, answers,
                 resolved>>

\* Each message is resolved with the element of results at its own index.
Resolve(g, results) ==
  resolved' =
    [h \in Callers |->
       IF \E i \in DOMAIN batch[g] : batch[g][i] = h
         THEN Append(resolved[h],
                     results[CHOOSE i \in DOMAIN batch[g] : batch[g][i] = h])
         ELSE resolved[h]]

\* What the batch was doing is forgotten.
Done(g) ==
  /\ Goto(g, "idle")
  /\ batch'    = [batch EXCEPT ![g] = <<>>]
  /\ attempts' = [attempts EXCEPT ![g] = 0]
  /\ elapsed'  = [elapsed EXCEPT ![g] = FALSE]
  /\ shared'   = [shared EXCEPT ![g] = FALSE]
  /\ answers'  = [answers EXCEPT ![g] = <<>>]

Errors(g) == [i \in 1 .. Len(batch[g]) |-> Error]

\* Mutant: only the first task learns of the error.
FailFirstOnly(g) ==
  /\ pc[g] = "failed"
  /\ resolved' = [resolved EXCEPT ![g] = Append(@, Error)]
  /\ Done(g)
  /\ UNCHANGED <<caller, block, queue, loaded, numTries>>

Fail(g) ==
  /\ pc[g] = "failed"
  /\ Resolve(g, Errors(g))
  /\ Done(g)
  /\ UNCHANGED <<caller, block, queue, loaded, numTries>>

Succeed(g) ==
  /\ pc[g] = "answered"
  /\ Resolve(g, answers[g])
  /\ Done(g)
  /\ UNCHANGED <<caller, block, queue, loaded, numTries>>

BatchCalls(g) ==
  \/ StartRetry(g) \/ CallSucceeds(g) \/ CallFails(g) \/ NextBackOff(g)
  \/ CountTry(g) \/ Fail(g) \/ Succeed(g)

Next ==
  \/ \E g \in Callers :
       \/ \E b \in Blocks : CallContract(g, b)
       \/ Result(g) \/ Cancelled(g)
       \/ BatchCalls(g)
  \/ \E q \in Batchers : TakeBatch(q)

SafeSpec == Init /\ [][Next]_vars

\* The batchers take what is queued, and batches and callers run; nothing
\* makes a node answer, MaxElapsedTime end or a goroutine call.
Spec ==
  /\ SafeSpec
  /\ \A g \in Callers : WF_vars(BatchCalls(g)) /\ WF_vars(Result(g))
  /\ \A q \in Batchers : WF_vars(TakeBatch(q))

-----------------------------------------------------------------------------
TypeOK ==
  /\ caller \in [Callers -> {"idle", "waiting", "returned"}]
  /\ block \in [Callers -> Blocks]
  /\ queue \in [Batchers -> Seq(Callers)]
  /\ batch \in [Callers -> Seq(Callers)]
  /\ pc \in [Callers -> {"idle", "reset", "attempt", "next", "count",
                        "answered", "failed"}]
  /\ attempts \in [Callers -> Nat] /\ elapsed \in [Callers -> BOOLEAN]
  /\ shared \in [Callers -> BOOLEAN]
  /\ numTries \in Nat /\ loaded \in [Callers -> Nat]
  /\ answers \in [Callers -> Seq(Results)]
  /\ resolved \in [Callers -> Seq(Results)]

Past(g) == block[g] # Nil

\* A result is an error or the answer to g's own call, from the node that
\* serves its block; for a number below 0 it is an error, unless toBlockNumArg
\* has a name for it.
OwnResult(g, r) ==
  \/ r = Error
  \/ /\ r.of = g
     /\ r.node = IF Past(g) THEN "archive" ELSE "full"
     /\ Past(g) => block[g] >= 0 \/ block[g] \in {-1, -3, -4}

\* Every task is resolved at most once, with a result of its own.
OwnAnswerOnce ==
  \A g \in Callers :
    /\ Len(resolved[g]) <= 1
    /\ \A i \in DOMAIN resolved[g] : OwnResult(g, resolved[g][i])

\* A batch that no other batch overlaps has the retries that are configured,
\* neither more nor, if it fails before MaxElapsedTime, fewer.  Batches that
\* overlap share one counter and can take each other's retries.
RetriesWhenAlone ==
  \A g \in Callers :
    ~shared[g] /\ MaxRetries # 0 =>
      /\ attempts[g] <= MaxRetries + 1
      /\ pc[g] = "failed" => elapsed[g] \/ attempts[g] = MaxRetries + 1

\* Only batches that start without end, each resetting the retries of those
\* that run, can keep a call from returning: once no batch starts any more each
\* call returns, even if no node ever answers and whatever counts the batches
\* take from each other.  Without MaxRetries only MaxElapsedTime ends a batch.
EveryCallReturns ==
  MaxRetries # 0 /\ <>[](\A h \in Callers : pc[h] # "reset") =>
    \A g \in Callers : caller[g] = "waiting" ~> caller[g] # "waiting"
=============================================================================
