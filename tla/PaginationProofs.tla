-------------------------- MODULE PaginationProofs --------------------------
(***************************************************************************)
(* Proofs about Pagination: a scan shows what stayed and nothing that was  *)
(* never there, for any hash, servers and order of fields.                 *)
(***************************************************************************)
EXTENDS Pagination, FiniteSetTheorems, TLAPS

\* The scripts turn fields and values in turn into one item for each field.
LEMMA RunOfFlat ==
  ASSUME NEW S, NEW n \in Nat, NEW s \in [1 .. n -> S],
         script \in {"keys", "values"}
  PROVE  /\ DOMAIN Run(Flat(s)) = 1 .. n
         /\ \A i \in 1 .. n : Run(Flat(s))[i] = Item(s[i])
<1>1. Len(s) = n
  OBVIOUS
<1> DEFINE flat == Flat(s)
<1>2. /\ DOMAIN flat = 1 .. 2 * n
      /\ \A j \in 1 .. 2 * n :
           flat[j] = IF j % 2 = 1 THEN s[(j + 1) \div 2] ELSE Value(s[j \div 2])
  BY <1>1 DEF Flat
<1>3. Len(flat) = 2 * n
  <2>1. 2 * n \in Nat
    OBVIOUS
  <2> QED BY <2>1, <1>2
<1>4. CASE script = "keys"
  <2>1. (2 * n - 1) \div 2 + 1 = n
    OBVIOUS
  <2>2. /\ DOMAIN EverySecond(flat, 1) = 1 .. n
        /\ \A i \in 1 .. n : EverySecond(flat, 1)[i] = flat[1 + 2 * (i - 1)]
    BY <1>3, <2>1 DEF EverySecond
  <2>3. ASSUME NEW i \in 1 .. n
        PROVE  flat[1 + 2 * (i - 1)] = s[i]
    <3>1. /\ 1 + 2 * (i - 1) \in 1 .. 2 * n
          /\ (1 + 2 * (i - 1)) % 2 = 1
          /\ (1 + 2 * (i - 1) + 1) \div 2 = i
      OBVIOUS
    <3> QED BY <3>1, <1>2
  <2> QED BY <1>4, <2>2, <2>3 DEF Run, Item
<1>5. CASE script = "values"
  <2>1. (2 * n - 2) \div 2 + 1 = n
    OBVIOUS
  <2>2. /\ DOMAIN EverySecond(flat, 2) = 1 .. n
        /\ \A i \in 1 .. n : EverySecond(flat, 2)[i] = flat[2 + 2 * (i - 1)]
    BY <1>3, <2>1 DEF EverySecond
  <2>3. ASSUME NEW i \in 1 .. n
        PROVE  flat[2 + 2 * (i - 1)] = Value(s[i])
    <3>1. /\ 2 + 2 * (i - 1) \in 1 .. 2 * n
          /\ (2 + 2 * (i - 1)) % 2 # 1
          /\ (2 + 2 * (i - 1)) \div 2 = i
      OBVIOUS
    <3> QED BY <3>1, <1>2
  <2> QED BY <1>5, <2>2, <2>3 DEF Run, Item
<1> QED BY <1>4, <1>5

\* A page has the items of its fields, each of them and no other.
LEMMA PageItems ==
  ASSUME IInv, NEW from, NEW to, NEW fields \in Orders(Page(node, from, to))
  PROVE  LET list == Run(Flat(fields))
         IN  {list[i] : i \in DOMAIN list} =
               {Item(f) : f \in Page(node, from, to)}
<1> DEFINE S == Page(node, from, to)
           n == Cardinality(S)
<1>1. S \subseteq Fields
  BY DEF Page, IInv, TypeOK
<1>2. n \in Nat
  BY <1>1, PaginationAssumption, FS_Subset, FS_CardinalityType
<1>3. /\ fields \in [1 .. n -> S]
      /\ \A f \in S : \E i \in 1 .. n : fields[i] = f
  BY DEF Orders
<1> HIDE DEF S, n
<1>4. script \in {"keys", "values"}
  BY DEF IInv, TypeOK
<1>5. fields \in [1 .. n -> S]
  BY <1>3
<1>6. /\ DOMAIN Run(Flat(fields)) = 1 .. n
      /\ \A i \in 1 .. n : Run(Flat(fields))[i] = Item(fields[i])
  BY <1>2, <1>4, <1>5, RunOfFlat
<1> QED BY <1>3, <1>6 DEF S

-----------------------------------------------------------------------------
LEMMA InitInv == Init => IInv
<1> SUFFICES ASSUME Init PROVE IInv
  OBVIOUS
<1>1. TypeOK
  <2>1. 0 \in 0 .. Size /\ 0 \in 0 .. Resends
    BY PaginationAssumption
  <2>2. reply.cursor = 0
    BY DEF Init
  <2> QED BY <2>1, <2>2 DEF Init, TypeOK
<1>2. NoGhost /\ ScanComplete
  BY DEF Init, NoGhost, ScanComplete, Items
<1>3. \A n \in Nodes : Covered(n)
  BY DEF Init, Covered
<1> QED BY <1>1, <1>2, <1>3 DEF Init, IInv, Items

LEMMA ServeInv == ASSUME IInv, Serve PROVE IInv'
<1>1. PICK from \in 1 .. Start(cursor), to \in Start(cursor) + 1 .. Size + 1 :
        \E fields \in Orders(Page(node, from, to)) :
          LET list == Run(Flat(fields))
          IN  reply' = [items  |-> {list[i] : i \in DOMAIN list},
                        cursor |-> IF to > Size THEN 0 ELSE to]
  BY DEF Serve
<1> DEFINE P == Page(node, from, to)
<1>2. reply' = [items  |-> {Item(f) : f \in P},
                cursor |-> IF to > Size THEN 0 ELSE to]
  BY <1>1, PageItems
<1>3. Start(cursor) \in 1 .. Size /\ from \in Nat /\ to \in 2 .. Size + 1
  BY PaginationAssumption DEF IInv, TypeOK, Start
<1>4. TypeOK'
  <2>1. reply'.cursor \in 0 .. Size
    BY <1>2, <1>3, PaginationAssumption
  <2> QED BY <2>1 DEF IInv, TypeOK, Serve, hashVars, settings
<1>5. NoGhost' /\ ScanComplete'
  BY DEF IInv, NoGhost, ScanComplete, Items, Item, Value, Serve, TypeOK,
         hashVars, settings
<1>6. reply'.items \subseteq Items(ever)'
  BY <1>2 DEF IInv, TypeOK, Items, Item, Value, Page, Serve, hashVars, settings
<1>7. ASSUME NEW n \in Nodes, served' \subseteq {n}
      PROVE  Covered(n)'
  <2>1. n = node /\ served \subseteq {n} /\ Covered(n)
    BY <1>7 DEF IInv, TypeOK, Serve
  <2>2. UNCHANGED <<hashVars, settings, cursor, seen>> /\ pc' = "reply"
         /\ pc = "scan"
    BY DEF Serve
  <2>3. cursor' # 0 =>
          Items(stayed \cap Before(n, cursor))' \subseteq seen'
    BY <2>1, <2>2 DEF Covered, Items, Item, Value, Before, hashVars, settings
  <2>4. Items(stayed \cap Before(n, reply.cursor))'
          \subseteq seen' \cup reply'.items
    <3> SUFFICES ASSUME NEW f \in stayed \cap matching,
                        f \in Before(n, reply.cursor)'
                 PROVE  Item(f) \in seen \cup reply'.items
      BY <2>2 DEF Items, Item, Value, hashVars, settings
    <3>1. position[n][f] \in 1 .. Size /\ position[n][f] < to
      <4>1. f \in Fields /\ position[n][f] \in 1 .. Size
        BY DEF IInv, TypeOK, Positions
      <4>2. reply'.cursor = 0 \/ position[n][f] < reply'.cursor
        BY <2>2 DEF Before, settings
      <4>3. reply'.cursor = IF to > Size THEN 0 ELSE to
        BY <1>2
      <4> QED BY <4>1, <4>2, <4>3, <1>3, PaginationAssumption
    <3>2. CASE cursor # 0 /\ position[n][f] < cursor
      BY <3>2, <2>1, <2>2 DEF Covered, Items, Before, IInv, TypeOK
    <3>3. CASE ~(cursor # 0 /\ position[n][f] < cursor)
      <4>1. f \in P
        BY <3>1, <3>3, <1>3, <2>1
        DEF Page, Start, IInv, TypeOK
      <4> QED BY <4>1, <1>2
    <3> QED BY <3>2, <3>3
  <2> QED BY <2>2, <2>3, <2>4 DEF Covered
<1>8. served' # {}
  BY DEF Serve
<1> QED BY <1>4, <1>5, <1>6, <1>7, <1>8 DEF IInv

LEMMA TakeInv == ASSUME IInv, Take PROVE IInv'
<1>1. /\ UNCHANGED <<hashVars, settings, node, reply, resent, historyVars>>
      /\ seen' = seen \cup reply.items /\ cursor' = reply.cursor
      /\ pc = "reply" /\ pc' = IF reply.cursor = 0 THEN "returned" ELSE "scan"
      /\ err' = IF reply.cursor = 0 THEN "nil" ELSE err
  BY DEF Take, Return
<1> USE DEF hashVars, settings, historyVars
<1>2. TypeOK'
  BY <1>1 DEF IInv, TypeOK
<1>3. NoGhost' /\ reply'.items \subseteq Items(ever)'
  BY <1>1 DEF IInv, NoGhost, Items, Item, Value
<1>4. ASSUME NEW n \in Nodes, served \subseteq {n}
      PROVE  Items(stayed \cap Before(n, reply.cursor))' \subseteq seen'
  BY <1>1, <1>4 DEF IInv, Covered, Items, Item, Value, Before
<1>5. ScanComplete'
  <2> SUFFICES ASSUME reply.cursor = 0, \A m, n \in served : m = n
               PROVE  Items(stayed)' \subseteq seen'
    BY <1>1 DEF IInv, ScanComplete, Items, Item, Value
  <2>1. PICK n \in Nodes : served \subseteq {n}
    BY <1>1 DEF IInv, TypeOK
  <2>2. Items(stayed \cap Before(n, reply.cursor))' \subseteq seen'
    BY <2>1, <1>4
  <2> QED BY <2>2, <1>1 DEF Items, Item, Value, Before, IInv, TypeOK
<1>6. \A n \in Nodes : served' \subseteq {n} => Covered(n)'
  BY <1>1, <1>4 DEF Covered, Items, Item, Value, Before
<1>7. served' # {}
  BY <1>1 DEF IInv
<1> QED BY <1>1, <1>2, <1>3, <1>5, <1>6, <1>7 DEF IInv

LEMMA StepInv == IInv /\ [Next]_vars => IInv'
<1> SUFFICES ASSUME IInv, [Next]_vars PROVE IInv'
  OBVIOUS
<1> USE DEF hashVars, settings, historyVars
<1>1. CASE Serve
  BY <1>1, ServeInv
<1>2. CASE LoseReply
  <2>1. TypeOK'
    BY <1>2, PaginationAssumption DEF LoseReply, IInv, TypeOK
  <2> QED BY <2>1, <1>2 DEF LoseReply, IInv, TypeOK, NoGhost, ScanComplete,
                            Items, Item, Value, Covered, Before
<1>3. CASE Reroute
  <2>1. TypeOK'
    BY <1>3 DEF Reroute, IInv, TypeOK
  <2> QED BY <2>1, <1>3 DEF Reroute, IInv, NoGhost, ScanComplete, Items, Item,
                            Value, Covered, Before
<1>4. ASSUME NEW f \in Fields, Add(f) \/ Remove(f) PROVE IInv'
  <2>1. /\ stayed' \subseteq stayed /\ ever \subseteq ever'
        /\ UNCHANGED <<settings, node, pc, cursor, reply, seen, err, resent,
                       historyVars>>
    BY <1>4 DEF Add, Remove
  <2>2. TypeOK'
    BY <1>4 DEF Add, Remove, IInv, TypeOK
  <2> QED BY <2>1, <2>2 DEF IInv, NoGhost, ScanComplete, Items, Item, Value,
                            Covered, Before
<1>5. CASE Take
  BY <1>5, TakeInv
<1>6. CASE Fail
  <2>1. TypeOK'
    BY <1>6 DEF Fail, Return, IInv, TypeOK
  <2> QED BY <2>1, <1>6 DEF Fail, Return, IInv, TypeOK, NoGhost, ScanComplete,
                            Items, Item, Value, Covered, Before
<1>7. CASE UNCHANGED vars
  BY <1>7 DEF vars, IInv, TypeOK, NoGhost, ScanComplete, Items, Item, Value,
              Covered, Before
<1> QED BY <1>1, <1>2, <1>3, <1>4, <1>5, <1>6, <1>7 DEF Next

\* The inductive invariant, for any fields, servers and orders.
THEOREM InductiveInvariant == SafeSpec => []IInv
<1> QED BY InitInv, StepInv, PTL DEF SafeSpec

\* A scan that one server answers and redis.Nil does not end has shown every
\* matching item that stayed.
THEOREM CompleteTheorem == SafeSpec => []ScanComplete
<1>1. IInv => ScanComplete
  BY DEF IInv
<1> QED BY <1>1, InductiveInvariant, PTL

\* A scan shows only what matched and was there.
THEOREM NoGhostTheorem == SafeSpec => []NoGhost
<1>1. IInv => NoGhost
  BY DEF IInv
<1> QED BY <1>1, InductiveInvariant, PTL
=============================================================================
