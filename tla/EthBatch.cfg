\* Two callers: one batch of both, or two batches that reset each other.
\* A call asks for the latest block, for one in the past, for the pending one,
\* or with a number that stands for none.
\* Calls follow each other without end.
CONSTANTS
  Callers = {g1, g2}
  Numbers <- MCNumbers
  Nil = Nil
  BatchCnt = 2
  MaxRetries = 2
SPECIFICATION Spec
INVARIANTS
  OwnAnswerOnce
  RetriesWhenAlone
PROPERTIES
  EveryCallReturns
