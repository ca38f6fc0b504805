----------------------------- MODULE Pagination -----------------------------
(***************************************************************************)
(* A scan of a redis hash in pages: PaginateScanCmd (paginate.go) over     *)
(* HscanOnlyKeys or HscanOnlyValues (hscan.go), pkg/client/redis.          *)
(*                                                                         *)
(* The hash changes while it is scanned.  Redis and go-redis are external: *)
(* a server visits the fields of a hash in an order of its own, and the    *)
(* cursor it returns says how far it has come.  A page may begin before    *)
(* the cursor, when the table of the hash has shrunk, and may be empty,    *)
(* when no field of that part matches.  go-redis sends a command again     *)
(* when its reply is lost.  Which server runs a command may change: after  *)
(* a failover, and with RouteRandomly.                                     *)
(***************************************************************************)
EXTENDS Integers, Sequences, FiniteSets

CONSTANTS
  Fields,   \* fields the hash may have
  Nodes,    \* redis servers that hold a copy of the hash
  Size,     \* positions in a server's order
  Resends   \* bound on the replies that are lost

ASSUME PaginationAssumption ==
  /\ IsFiniteSet(Fields)
  /\ Size \in Nat \ {0}
  /\ Resends \in Nat

VARIABLES
  hash,      \* fields of the hash
  position,  \* of each field in the order of each server
  matching,  \* fields that the pattern of the scan matches
  script,    \* "keys" or "values": which of the two scripts is used
  node,      \* the server that runs the next command
  pc,        \* scan, reply, returned
  cursor,    \* of PaginateScanCmd
  reply,     \* items and cursor of the page that is on its way
  seen,      \* what callbackFn has been called with
  err,       \* what PaginateScanCmd returned: "nil", "error"; "none" before
  resent,    \* replies that were lost
  stayed,    \* history: fields that have been in the hash all the time
  ever,      \* history: fields that have been in the hash at some time
  served,    \* history: servers that answered
  cutShort   \* history: redis.Nil ended the scan

hashVars    == <<hash, stayed, ever>>
settings    == <<position, matching, script>>
historyVars == <<served, cutShort>>
vars == <<hashVars, settings, node, pc, cursor, reply, seen, err, resent,
          historyVars>>

Positions == 1 .. Size

Init ==
  /\ hash \in SUBSET Fields
  /\ stayed = hash /\ ever = hash
  /\ position \in [Nodes -> [Fields -> Positions]]
  /\ matching \in SUBSET Fields
  /\ script \in {"keys", "values"}
  /\ node \in Nodes
  /\ pc = "scan" /\ cursor = 0
  /\ reply = [items |-> {}, cursor |-> 0]
  /\ seen = {}
  /\ err = "none"
  /\ resent = 0
  /\ served = {} /\ cutShort = FALSE

-----------------------------------------------------------------------------
(* The server and the script                                               *)

Value(f) == <<"value", f>>
Item(f)  == IF script = "keys" THEN f ELSE Value(f)

\* HSCAN answers with each field and its value in turn.
Flat(fields) ==
  [i \in 1 .. 2 * Len(fields) |->
     IF i % 2 = 1 THEN fields[(i + 1) \div 2] ELSE Value(fields[i \div 2])]

\* for i = first, #list, 2
EverySecond(list, first) ==
  [i \in 1 .. (Len(list) - first) \div 2 + 1 |-> list[first + 2 * (i - 1)]]

\* Mutant: the two scripts begin at the same item.
RunFromOne(list) == EverySecond(list, 1)

Run(list) == EverySecond(list, IF script = "keys" THEN 1 ELSE 2)

Start(c) == IF c = 0 THEN 1 ELSE c

\* What server n has at positions from .. to - 1, in any order.
Page(n, from, to) ==
  {f \in hash \cap matching : position[n][f] \in from .. to - 1}

Orders(S) ==
  {s \in [1 .. Cardinality(S) -> S] : \A f \in S : \E i \in DOMAIN s : s[i] = f}

\* A page has the positions from the cursor on, and maybe earlier ones.
Serve ==
  /\ pc = "scan"
  /\ \E from \in 1 .. Start(cursor), to \in Start(cursor) + 1 .. Size + 1 :
       \E fields \in Orders(Page(node, from, to)) :
         LET list == Run(Flat(fields))
         IN  reply' = [items  |-> {list[i] : i \in DOMAIN list},
                       cursor |-> IF to > Size THEN 0 ELSE to]
  /\ pc' = "reply"
  /\ served' = served \cup {node}
  /\ UNCHANGED <<hashVars, settings, node, cursor, seen, err, resent,
                 cutShort>>

LoseReply ==
  /\ pc = "reply" /\ resent < Resends    \* bound: Resends
  /\ pc' = "scan"
  /\ resent' = resent + 1
  /\ UNCHANGED <<hashVars, settings, node, cursor, reply, seen, err,
                 historyVars>>

Reroute ==
  /\ pc = "scan"
  /\ node' \in Nodes \ {node}
  /\ UNCHANGED <<hashVars, settings, pc, cursor, reply, seen, err, resent,
                 historyVars>>

Add(f) ==
  /\ pc # "returned"
  /\ f \notin hash
  /\ hash' = hash \cup {f}
  /\ ever' = ever \cup {f}
  /\ UNCHANGED <<stayed, settings, node, pc, cursor, reply, seen, err,
                 resent, historyVars>>

Remove(f) ==
  /\ pc # "returned"
  /\ f \in hash
  /\ hash' = hash \ {f}
  /\ stayed' = stayed \ {f}
  /\ UNCHANGED <<ever, settings, node, pc, cursor, reply, seen, err, resent,
                 historyVars>>

-----------------------------------------------------------------------------
(* PaginateScanCmd                                                         *)

Return(e) == pc' = "returned" /\ err' = e

\* Mutant: an empty page ends the loop.
TakeUntilEmpty ==
  /\ pc = "reply"
  /\ seen' = seen \cup reply.items
  /\ cursor' = reply.cursor
  /\ IF reply.cursor = 0 \/ reply.items = {}
       THEN Return("nil")
       ELSE pc' = "scan" /\ UNCHANGED err
  /\ UNCHANGED <<hashVars, settings, node, reply, resent, historyVars>>

\* Mutant: the cursor of the loop is shadowed by one in its body.
TakeShadowed ==
  /\ pc = "reply"
  /\ seen' = seen \cup reply.items
  /\ IF reply.cursor = 0
       THEN Return("nil")
       ELSE pc' = "scan" /\ UNCHANGED err
  /\ UNCHANGED <<hashVars, settings, node, cursor, reply, resent,
                 historyVars>>

\* The page goes to callbackFn, empty or not; the loop ends at cursor 0.
Take ==
  /\ pc = "reply"
  /\ seen' = seen \cup reply.items
  /\ cursor' = reply.cursor
  /\ IF reply.cursor = 0
       THEN Return("nil")
       ELSE pc' = "scan" /\ UNCHANGED err
  /\ UNCHANGED <<hashVars, settings, node, reply, resent, historyVars>>

\* Any error ends the scan; redis.Nil, which a scanFn may return, is none.
Fail ==
  /\ pc = "scan"
  /\ \/ Return("error") /\ UNCHANGED cutShort
     \/ Return("nil") /\ cutShort' = TRUE
  /\ UNCHANGED <<hashVars, settings, node, cursor, reply, seen, resent,
                 served>>

Next ==
  \/ Serve \/ LoseReply \/ Reroute
  \/ \E f \in Fields : Add(f) \/ Remove(f)
  \/ Take \/ Fail

SafeSpec == Init /\ [][Next]_vars

\* go-redis returns a reply or, in the end, an error.
Spec == SafeSpec /\ WF_vars(Serve \/ Fail) /\ WF_vars(Take)

-----------------------------------------------------------------------------
TypeOK ==
  /\ hash \subseteq Fields /\ matching \subseteq Fields
  /\ stayed \subseteq hash /\ hash \subseteq ever /\ ever \subseteq Fields
  /\ position \in [Nodes -> [Fields -> Positions]]
  /\ script \in {"keys", "values"}
  /\ node \in Nodes /\ served \subseteq Nodes
  /\ pc \in {"scan", "reply", "returned"}
  /\ err \in {"none", "nil", "error"}
  /\ cursor \in 0 .. Size /\ reply.cursor \in 0 .. Size
  /\ resent \in 0 .. Resends
  /\ cutShort \in BOOLEAN

Items(fields) == {Item(f) : f \in fields \cap matching}

\* What lies before cursor c of server n; cursor 0 ends a scan.
Before(n, c) ==
  {f \in Fields : c = 0 \/ position[n][f] < c}

\* A scan that returns nil, but for redis.Nil, has shown every matching item
\* that was there from beginning to end, whatever came and went meanwhile,
\* provided that one server has answered all its commands.
ScanComplete ==
  err = "nil" /\ ~cutShort =>
    \/ Items(stayed) \subseteq seen
    \/ \E m, n \in served : m # n

\* A scan shows fields, or values, as its script says, and only those that
\* match and were there at some time, even if servers change.
NoGhost == seen \subseteq Items(ever)

\* A cursor only goes forward: a scan returns, however the hash changes.
ScanReturns == <>(pc = "returned")

\* The strengthening under which ScanComplete and NoGhost are inductive.
\* Covered: what lies before the cursor has been seen, if it stayed, and what
\* lies between the cursor and that of the reply is in the reply.
Covered(n) ==
  /\ pc \in {"scan", "reply"} /\ cursor # 0 =>
       Items(stayed \cap Before(n, cursor)) \subseteq seen
  /\ pc = "reply" =>
       Items(stayed \cap Before(n, reply.cursor)) \subseteq seen \cup reply.items

IInv ==
  /\ TypeOK /\ NoGhost /\ ScanComplete
  /\ reply.items \subseteq Items(ever)
  /\ \A n \in Nodes : served \subseteq {n} => Covered(n)
  /\ served = {} => cursor = 0 /\ pc # "reply"
=============================================================================
