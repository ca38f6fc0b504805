-------------------------- MODULE GrpcClientProofs --------------------------
(***************************************************************************)
(* Proofs about GrpcClient: whose id a call sends, when the runtime ends   *)
(* the process, how a client dials and how a call is counted, for any      *)
(* clients, calls, maps and options.                                       *)
(***************************************************************************)
EXTENDS GrpcClient, TLAPS

Simple == DOMAIN NoConfig \ {"map"}

Made(c)    == state[c] \in {"new", "ready", "failed", "closed"}
IsReady(c) == state[c] \in {"ready", "closed"}

\* The config of a client is what the options applied so far ask for, and its
\* map is one of theirs or its own.
ConfigInv ==
  \A c \in Clients :
    /\ state[c] = "none" => options[c] = <<>>
    /\ \A f \in Simple :
         cfg[c][f] = AskedFirst(options[c], applied[c], f)
    /\ cfg[c].map \in Passed(options[c]) \cup {c, NoMap}
    /\ Made(c) => applied[c] = Len(options[c]) /\ cfg[c].map # NoMap

DialInv ==
  \A c \in Clients :
    dial[c] # <<>> =>
      /\ Made(c)
      /\ dial[c] = [url         |-> URL(cfg[c]),
                    credentials |-> Credentials(cfg[c]),
                    params      |-> ConnectParams(cfg[c].delays)]

\* A client writes one header at a time and is not ready before it has written
\* its id, which stays in a map that it does not share.
MapInv ==
  \A c \in Clients :
    /\ writing[c] # {} =>
         /\ state[c] \in {"options", "new"} /\ cfg[c].map # NoMap
         /\ state[c] = "new" =>
              writing[c] = {[key |-> ClientId, value |-> OwnId(c)]}
    /\ Made(c) /\ writing[c] = {} =>
         /\ heap[cfg[c].map][ClientId] # NoValue
         /\ Alone(c) => heap[cfg[c].map][ClientId] = OwnId(c)

\* Only a client's own options write into the map that New makes for it.
SpellInv ==
  \A c \in Clients : \A key \in Keys \ {ClientId} :
    heap[c][key] # NoValue \/ (\E w \in writing[c] : w.key = key) =>
      Adds(c, key)

\* What a call has read.
HasId(k) ==
  LET ids == md[k][ClientId]
      own == OwnId(via[k])
  IN  /\ ids # <<>>
      /\ Alone(via[k]) =>
           /\ \E i \in DOMAIN ids : ids[i] = own
           /\ ~Respelled(via[k]) => ids = <<own>>

Reading(k) ==
  IF ClientId \in left[k]
    THEN Alone(via[k]) /\ ~Respelled(via[k]) => md[k][ClientId] = <<>>
    ELSE HasId(k)

CallOK(k) ==
  /\ pc[k] # "idle" => IsReady(via[k])
  /\ pc[k] \in {"idle", "validate"} => left[k] = {} /\ md[k] = NoHeaders
  /\ pc[k] = "headers" => Reading(k)
  /\ Sent(k) =>
       /\ left[k] = {}
       /\ md[k][ClientId] # <<>>
       /\ IF ClientId \in FromContext(k) THEN md[k][ClientId] = <<"ctx">>
                                         ELSE HasId(k)
  /\ pc[k] # "ended" => counted[k] = <<>>

CallInv == \A k \in Calls : CallOK(k)

IInv ==
  /\ TypeOK /\ ConfigInv /\ DialInv /\ MapInv /\ SpellInv /\ CallInv
  /\ ThrownOnlyIfShared /\ CountedOnce
-----------------------------------------------------------------------------
(* Options and maps                                                        *)

USE GrpcClientAssumption DEF ClientId, NoMap, NoValue, Service

\* What a list asks for changes only by the options for a field.
LEMMA AskedNone ==
  ASSUME NEW list, NEW f
  PROVE  AskedFirst(list, 0, f) = NoConfig[f]
BY DEF AskedFirst, Given

LEMMA AskedStep ==
  ASSUME NEW list, NEW n \in Nat, NEW f
  PROVE  AskedFirst(list, n + 1, f) =
           IF list[n + 1].field = "config" THEN list[n + 1].value[f]
           ELSE IF list[n + 1].field = f THEN list[n + 1].value
           ELSE AskedFirst(list, n, f)
<1> DEFINE G(k) == Given(list, k, f)
<1>1. CASE list[n + 1].field \in {f, "config"}
  <2>1. n + 1 \in G(n + 1) /\ \A j \in G(n + 1) : j \in Int /\ j <= n + 1
    BY <1>1 DEF Given
  <2>2. Latest(G(n + 1)) = n + 1
    BY <2>1 DEF Latest
  <2> QED BY <1>1, <2>1, <2>2 DEF AskedFirst
<1>2. CASE list[n + 1].field \notin {f, "config"}
  <2>1. G(n + 1) = G(n)
    BY <1>2 DEF Given
  <2> QED BY <1>2, <2>1 DEF AskedFirst
<1> QED BY <1>1, <1>2

\* The option that New applies next is one of the program's.
LEMMA NextOption ==
  ASSUME TypeOK, NEW c \in Clients, applied[c] < Len(options[c])
  PROVE  /\ options[c] \in OptionLists
         /\ applied[c] \in Nat /\ applied[c] + 1 \in DOMAIN options[c]
         /\ applied[c] + 1 <= Len(options[c])
         /\ IsOption(Option(c))
<1>1. /\ options[c] \in OptionLists \cup {<<>>}
      /\ applied[c] \in Nat /\ applied[c] <= Len(options[c])
  BY DEF TypeOK, ClientTypes
<1>2. options[c] # <<>>
  BY <1>1
<1>3. options[c] \in OptionLists
  BY <1>1, <1>2
<1> QED BY <1>1, <1>3 DEF Option

LEMMA SetFields ==
  ASSUME NEW maps, Maps \cup {NoMap} \subseteq maps,
         NEW fields \in ConfigsOver(maps),
         NEW o, IsOption(o), o.field # "header"
  PROVE  /\ Set(fields, o) \in ConfigsOver(maps)
         /\ \A f \in DOMAIN NoConfig :
              Set(fields, o)[f] = IF o.field = "config" THEN o.value[f]
                                  ELSE IF o.field = f THEN o.value
                                  ELSE fields[f]
<1>1. CASE o.field = "config"
  BY <1>1 DEF Set, IsOption, Configs, ConfigsOver, NoConfig
<1>2. CASE o.field # "config"
  <2>1. /\ o.field \in DOMAIN NoConfig
        /\ [NoConfig EXCEPT ![o.field] = o.value] \in Configs
    BY <1>2 DEF IsOption
  <2>2. Set(fields, o) = [fields EXCEPT ![o.field] = o.value]
    BY <1>2 DEF Set
  <2>3. \A f \in DOMAIN NoConfig :
          Set(fields, o)[f] = IF o.field = f THEN o.value ELSE fields[f]
    BY <2>2 DEF ConfigsOver, NoConfig
  <2>4. CASE o.field = "map"
    BY <2>1, <2>2, <2>4 DEF Configs, ConfigsOver, NoConfig
  <2>5. CASE o.field = "id"
    BY <2>1, <2>2, <2>5 DEF Configs, ConfigsOver, NoConfig
  <2>6. CASE o.field = "timeout"
    BY <2>1, <2>2, <2>6 DEF Configs, ConfigsOver, NoConfig
  <2>7. CASE o.field = "url"
    BY <2>1, <2>2, <2>7 DEF Configs, ConfigsOver, NoConfig
  <2>8. CASE o.field = "insecure"
    BY <2>1, <2>2, <2>8 DEF Configs, ConfigsOver, NoConfig
  <2>9. CASE o.field = "tls"
    BY <2>1, <2>2, <2>9 DEF Configs, ConfigsOver, NoConfig
  <2>10. CASE o.field = "delays"
    BY <2>1, <2>2, <2>10 DEF Configs, ConfigsOver, NoConfig
  <2>11. o.field \in {"map", "id", "timeout", "url", "insecure", "tls", "delays"}
    BY <2>1 DEF NoConfig
  <2>12. Set(fields, o) \in ConfigsOver(maps)
    BY <2>4, <2>5, <2>6, <2>7, <2>8, <2>9, <2>10, <2>11
  <2> QED BY <1>2, <2>3, <2>12
<1> QED BY <1>1, <1>2

\* The maps of a list are the program's.
LEMMA PassedMaps ==
  ASSUME TypeOK, NEW c \in Clients
  PROVE  Passed(options[c]) \subseteq Maps
<1>1. CASE options[c] = <<>>
  BY <1>1 DEF Passed
<1>2. CASE options[c] \in OptionLists
  <2> DEFINE list == options[c]
  <2>1. \A i \in DOMAIN list : IsOption(list[i])
    BY <1>2
  <2>2. ASSUME NEW i \in DOMAIN list, list[i].field = "map"
        PROVE  list[i].value \in Maps \cup {NoMap}
    BY <2>1, <2>2 DEF IsOption, Configs, ConfigsOver, NoConfig
  <2>3. ASSUME NEW i \in DOMAIN list, list[i].field = "config"
        PROVE  list[i].value.map \in Maps \cup {NoMap}
    BY <2>1, <2>3 DEF IsOption, Configs, ConfigsOver, NoConfig
  <2> QED BY <2>2, <2>3 DEF Passed
<1> QED BY <1>1, <1>2 DEF TypeOK, ClientTypes

\* Two clients have one map only if they were made from it.
LEMMA Isolated ==
  ASSUME TypeOK, ConfigInv, NEW c \in Clients, NEW d \in Clients \ {c},
         cfg[c].map = cfg[d].map, cfg[c].map # NoMap
  PROVE  ~Alone(c) /\ ~Alone(d)
<1>1. cfg[c].map \in Passed(options[c]) \cup {c}
  BY DEF ConfigInv
<1>2. cfg[d].map \in Passed(options[d]) \cup {d}
  BY DEF ConfigInv
<1>3. Passed(options[c]) \subseteq Maps /\ Passed(options[d]) \subseteq Maps
  BY PassedMaps
<1>4. cfg[c].map \in Passed(options[c]) \cap Passed(options[d])
  BY <1>1, <1>2, <1>3
<1> QED BY <1>4 DEF Alone

-----------------------------------------------------------------------------
(* Calls                                                                   *)

LEMMA ClientFrame ==
  ASSUME ConfigInv, DialInv, MapInv, SpellInv, UNCHANGED clientVars
  PROVE  /\ ConfigInv' /\ DialInv' /\ MapInv' /\ SpellInv'
         /\ \A c \in Clients : /\ (Alone(c)' <=> Alone(c))
                              /\ (Respelled(c)' <=> Respelled(c))
                              /\ (IsReady(c)' <=> IsReady(c))
                              /\ OwnId(c)' = OwnId(c)
<1>1. /\ state' = state /\ options' = options /\ applied' = applied
      /\ cfg' = cfg /\ dial' = dial /\ heap' = heap /\ writing' = writing
  BY DEF clientVars, mapVars
<1>2. \A c \in Clients : /\ (Alone(c)' <=> Alone(c))
                        /\ (IsReady(c)' <=> IsReady(c))
                        /\ (Made(c)' <=> Made(c))
                        /\ OwnId(c)' = OwnId(c)
  BY <1>1 DEF Alone, IsReady, Made, OwnId
<1>3. ConfigInv'
  BY <1>1, <1>2 DEF ConfigInv
<1>4. DialInv'
  BY <1>1, <1>2 DEF DialInv
<1>5. MapInv'
  BY <1>1, <1>2 DEF MapInv
<1>6. SpellInv'
  BY <1>1 DEF SpellInv, Adds
<1>7. \A c \in Clients : Respelled(c)' <=> Respelled(c)
  BY <1>1 DEF Respelled, Adds
<1> QED BY <1>2, <1>3, <1>4, <1>5, <1>6, <1>7

\* A call reads a header while New writes it only if clients share a map.
LEMMA NoRace ==
  ASSUME IInv, NEW k \in Calls, pc[k] = "headers", NEW key,
         NEW value \in Racing(cfg[via[k]].map, key)
  PROVE  ~Alone(via[k]) /\ value # NoValue
<1> DEFINE c == via[k]
           m == cfg[c].map
<1>1. c \in Clients /\ IsReady(c)
  BY DEF IInv, TypeOK, CallTypes, CallInv, CallOK
<1>2. Made(c) /\ writing[c] = {} /\ m # NoMap
  BY <1>1 DEF IInv, MapInv, ConfigInv, IsReady, Made
<1>3. PICK d \in Clients :
        cfg[d].map = m /\ \E w \in writing[d] : value \in {w.value, "torn"}
  BY DEF Racing
<1>4. d # c /\ writing[d] \subseteq Writes
  BY <1>2, <1>3 DEF IInv, TypeOK, ClientTypes
<1>5. value # NoValue
  BY <1>3, <1>4 DEF Writes
<1>6. ~Alone(c)
  BY <1>1, <1>2, <1>3, <1>4, Isolated DEF IInv
<1> QED BY <1>5, <1>6

\* The id a call reads is that of its client.
LEMMA HeaderRead ==
  ASSUME IInv, NEW k \in Calls, pc[k] = "headers",
         NEW value \in {heap[cfg[via[k]].map][ClientId]}
                        \cup Racing(cfg[via[k]].map, ClientId)
  PROVE  /\ value # NoValue
         /\ Alone(via[k]) => value = OwnId(via[k])
<1>1. via[k] \in Clients /\ IsReady(via[k])
  BY DEF IInv, TypeOK, CallTypes, CallInv, CallOK
<1>2. Made(via[k]) /\ writing[via[k]] = {}
  BY <1>1 DEF IInv, MapInv, IsReady, Made
<1>3. CASE value = heap[cfg[via[k]].map][ClientId]
  BY <1>1, <1>2, <1>3 DEF IInv, MapInv
<1>4. CASE value \in Racing(cfg[via[k]].map, ClientId)
  BY <1>4, NoRace
<1> QED BY <1>3, <1>4

\* It reads another only if the program gave its client one.
LEMMA OtherRead ==
  ASSUME IInv, NEW k \in Calls, pc[k] = "headers", NEW key \in OtherSpellings,
         Alone(via[k]), ~Respelled(via[k]),
         NEW value \in {heap[cfg[via[k]].map][key]}
                        \cup Racing(cfg[via[k]].map, key)
  PROVE  value = NoValue
<1> DEFINE c == via[k]
           m == cfg[c].map
<1>1. c \in Clients /\ IsReady(c)
  BY DEF IInv, TypeOK, CallTypes, CallInv, CallOK
<1>2. m \in Passed(options[c]) \cup {c}
  BY <1>1 DEF IInv, ConfigInv, IsReady, Made
<1>3. value = heap[m][key]
  BY NoRace
<1>4. \A n \in Passed(options[c]) : heap[n][key] = NoValue
  BY DEF Respelled
<1>5. heap[c][key] = NoValue
  BY <1>1 DEF IInv, SpellInv, Respelled, OtherSpellings
<1> QED BY <1>2, <1>3, <1>4, <1>5

LEMMA RacingText ==
  ASSUME TypeOK, NEW m, NEW key
  PROVE  Racing(m, key) \subseteq Names \cup {Service, "torn"}
<1>1. \A c \in Clients : writing[c] \subseteq Writes
  BY DEF TypeOK, ClientTypes
<1>2. ASSUME NEW value \in Racing(m, key)
      PROVE  value \in Names \cup {Service, "torn"}
  <2>1. PICK c \in Clients : \E w \in writing[c] : value \in {w.value, "torn"}
    BY <1>2 DEF Racing
  <2> QED BY <1>1, <2>1 DEF Writes
<1> QED BY <1>2

\* What a client is dialed with depends on nothing that others do.
LEMMA DialKept ==
  ASSUME DialInv, NEW c \in Clients, dial[c] = <<>>, UNCHANGED dial,
         \A d \in Clients \ {c} : /\ cfg'[d] = cfg[d]
                                  /\ Made(d) => Made(d)'
  PROVE  DialInv'
<1> SUFFICES ASSUME NEW d \in Clients, dial'[d] # <<>>
             PROVE  DialInv!(d)'
  BY DEF DialInv
<1>1. d \in Clients \ {c} /\ dial[d] # <<>> /\ dial'[d] = dial[d]
  OBVIOUS
<1>2. cfg'[d] = cfg[d] /\ Made(d) /\ Made(d)' /\ DialInv!(d)
  BY <1>1 DEF DialInv
<1> QED BY <1>1, <1>2

LEMMA MapText ==
  ASSUME IInv, NEW c \in Clients, Made(c)
  PROVE  heap[cfg[c].map] \in Texts
<1>1. cfg[c].map \in Maps \cup {c}
  BY DEF IInv, TypeOK, ClientTypes, ConfigInv, ConfigsOver
<1> QED BY <1>1 DEF IInv, TypeOK, ClientTypes

\* A step of one call that leaves the others, and clients, alone.
LEMMA OneCall ==
  ASSUME IInv, NEW k \in Calls, UNCHANGED clientVars, CallTypes', CallOK(k)',
         \A j \in Calls \ {k} :
           /\ pc'[j] = pc[j] /\ via'[j] = via[j] /\ asked'[j] = asked[j]
           /\ left'[j] = left[j] /\ md'[j] = md[j] /\ result'[j] = result[j]
           /\ counted'[j] = counted[j],
         ~thrown, UNCHANGED thrown, CountedOnce!(k)'
  PROVE  IInv'
<1>1. ConfigInv' /\ DialInv' /\ MapInv' /\ SpellInv'
  BY ClientFrame DEF IInv
<1>2. CallInv'
  <2> SUFFICES ASSUME NEW j \in Calls \ {k}
               PROVE  CallOK(j)'
    BY DEF CallInv
  <2>1. CallOK(j) /\ via[j] \in Clients
    BY DEF IInv, CallInv, TypeOK, CallTypes
  <2> QED BY <2>1, ClientFrame
          DEF IInv, CallOK, Sent, Reading, HasId, FromContext
<1>3. ThrownOnlyIfShared'
  BY DEF ThrownOnlyIfShared
<1>4. CountedOnce'
  <2> SUFFICES ASSUME NEW j \in Calls \ {k}
               PROVE  CountedOnce!(j)'
    BY DEF CountedOnce
  <2> QED BY DEF IInv, CountedOnce
<1>5. TypeOK'
  <2>1. ClientTypes'
    BY DEF IInv, TypeOK, ClientTypes, clientVars, mapVars
  <2> QED BY <2>1 DEF IInv, TypeOK
<1> QED BY <1>1, <1>2, <1>3, <1>4, <1>5 DEF IInv

LEMMA IssueInv == ASSUME IInv, NEW k \in Calls, Issue(k) PROVE IInv'
<1> USE DEF Issue, At, Goto
<1>1. PICK c \in Clients, a \in Asks :
        /\ IsReady(c)
        /\ via' = [via EXCEPT ![k] = c] /\ asked' = [asked EXCEPT ![k] = a]
  BY DEF IsReady
<1>2. CallTypes'
  BY <1>1 DEF IInv, TypeOK, CallTypes
<1>3. CallOK(k)'
  BY <1>1 DEF IInv, TypeOK, CallTypes, CallInv, CallOK, Sent, IsReady, clientVars
<1>4. CountedOnce!(k)'
  BY DEF IInv, TypeOK, CallTypes
<1> QED BY <1>1, <1>2, <1>3, <1>4, OneCall DEF IInv, TypeOK, CallTypes

LEMMA RefuseInv == ASSUME IInv, NEW k \in Calls, Refuse(k) PROVE IInv'
<1> USE DEF Refuse, At, Goto
<1>1. CallTypes'
  BY DEF IInv, TypeOK, CallTypes
<1>2. CallOK(k)'
  BY ClientFrame DEF IInv, TypeOK, CallTypes, CallInv, CallOK, Sent
<1>3. CountedOnce!(k)'
  BY DEF IInv, TypeOK, CallTypes, CallInv, CallOK
<1> QED BY <1>1, <1>2, <1>3, OneCall DEF IInv, TypeOK, CallTypes

LEMMA ValidateInv == ASSUME IInv, NEW k \in Calls, Validate(k) PROVE IInv'
<1> USE DEF Validate, At, Goto
<1>1. CallTypes'
  BY DEF IInv, TypeOK, CallTypes
<1>2. CallOK(k)'
  <2>1. ClientId \in left'[k] /\ md'[k][ClientId] = <<>>
    BY DEF IInv, TypeOK, CallTypes, CallInv, CallOK, NoHeaders
  <2>2. Reading(k)'
    BY <2>1 DEF Reading
  <2> QED BY <2>2, ClientFrame
          DEF IInv, TypeOK, CallTypes, CallInv, CallOK, Sent
<1>3. CountedOnce!(k)'
  BY DEF IInv, TypeOK, CallTypes
<1> QED BY <1>1, <1>2, <1>3, OneCall DEF IInv, TypeOK, CallTypes

LEMMA Appended ==
  ASSUME NEW S, NEW ids \in Seq(S), NEW value \in S
  PROVE  /\ Append(ids, value) # <<>>
         /\ Len(ids) + 1 \in DOMAIN Append(ids, value)
         /\ Append(ids, value)[Len(ids) + 1] = value
         /\ ids = <<>> => Append(ids, value) = <<value>>
         /\ \A i \in DOMAIN ids : /\ i \in DOMAIN Append(ids, value)
                                 /\ Append(ids, value)[i] = ids[i]
<1>1. /\ Len(ids) \in Nat /\ DOMAIN ids = 1 .. Len(ids)
      /\ Append(ids, value) \in Seq(S)
      /\ Len(Append(ids, value)) = Len(ids) + 1
      /\ Append(ids, value)[Len(ids) + 1] = value
      /\ \A i \in 1 .. Len(ids) : Append(ids, value)[i] = ids[i]
  OBVIOUS
<1>2. DOMAIN Append(ids, value) = 1 .. (Len(ids) + 1)
  BY <1>1
<1>3. Append(ids, value) # <<>>
  BY <1>1
<1>4. ids = <<>> => Append(ids, value) = <<value>>
  OBVIOUS
<1> QED BY <1>1, <1>2, <1>3, <1>4

LEMMA ReadHeaderInv ==
  ASSUME IInv, NEW k \in Calls, NEW key \in Keys, ReadHeader(k, key)
  PROVE  IInv'
<1> USE DEF ReadHeader, At
<1> DEFINE m   == cfg[via[k]].map
           ids == md[k][ClientId]
<1>1. PICK value \in {heap[m][key]} \cup Racing(m, key) :
        md' = [md EXCEPT ![k] = AddValue(md[k], key, value)]
  OBVIOUS
<1>2. /\ via[k] \in Clients /\ Made(via[k]) /\ IsReady(via[k])
      /\ left[k] \in SUBSET Keys /\ left'[k] = left[k] \ {key}
      /\ md[k] \in [Keys -> Seq(Values)] /\ Lower[key] \in Keys
  BY DEF IInv, TypeOK, CallTypes, CallInv, CallOK, IsReady, Made
<1>3. value # NoValue => value \in Values
  <2>1. heap[m] \in Texts
    BY <1>2, MapText
  <2> QED BY <1>1, <2>1, RacingText DEF IInv, Texts, Values
<1>4. AddValue(md[k], key, value) \in [Keys -> Seq(Values)]
  <2>1. CASE value = NoValue
    BY <1>2, <2>1 DEF AddValue
  <2>2. CASE value # NoValue
    <3>1. Append(md[k][Lower[key]], value) \in Seq(Values)
      BY <1>2, <1>3, <2>2
    <3> QED BY <1>2, <2>2, <3>1 DEF AddValue
  <2> QED BY <2>1, <2>2
<1>5. CallTypes'
  <2>1. md' \in [Calls -> [Keys -> Seq(Values)]]
    BY <1>1, <1>4 DEF IInv, TypeOK, CallTypes
  <2> QED BY <2>1 DEF IInv, TypeOK, CallTypes
<1>6. md'[k][ClientId] = IF value # NoValue /\ Lower[key] = ClientId
                           THEN Append(ids, value) ELSE ids
  BY <1>1, <1>2 DEF AddValue, IInv, TypeOK, CallTypes
<1>7. ids \in Seq(Values)
  BY <1>2
<1>8. /\ (Alone(via[k])' <=> Alone(via[k])) /\ OwnId(via[k])' = OwnId(via[k])
      /\ (Respelled(via[k])' <=> Respelled(via[k])) /\ via'[k] = via[k]
      /\ IsReady(via[k])'
  <2>1. via' = via /\ UNCHANGED clientVars
    OBVIOUS
  <2> QED BY <1>2, <2>1, ClientFrame DEF IInv
<1>9. Reading(k)
  BY DEF IInv, CallInv, CallOK
<1>10. Reading(k)'
  <2> DEFINE own == OwnId(via[k])
  <2>1. CASE key = ClientId
    <3>1. value # NoValue /\ (Alone(via[k]) => value = own)
      BY <1>1, <2>1, HeaderRead DEF IInv
    <3>2. /\ Append(ids, value) # <<>>
          /\ Len(ids) + 1 \in DOMAIN Append(ids, value)
          /\ Append(ids, value)[Len(ids) + 1] = value
          /\ ids = <<>> => Append(ids, value) = <<value>>
      BY <1>3, <1>7, <3>1, Appended
    <3>3. md'[k][ClientId] = Append(ids, value)
      BY <1>6, <2>1, <3>1
    <3>4. ClientId \in left[k] /\ ClientId \notin left'[k]
      BY <1>2, <2>1
    <3>5. Alone(via[k]) /\ ~Respelled(via[k]) => ids = <<>>
      BY <1>9, <3>4 DEF Reading
    <3> HIDE DEF ids
    <3> QED BY <1>8, <3>1, <3>2, <3>3, <3>4, <3>5 DEF Reading, HasId
  <2>2. CASE key # ClientId /\ (value = NoValue \/ Lower[key] # ClientId)
    <3>1. md'[k][ClientId] = ids /\ (ClientId \in left'[k] <=> ClientId \in left[k])
      BY <1>2, <1>6, <2>2
    <3> QED BY <1>8, <1>9, <3>1 DEF Reading, HasId
  <2>3. CASE key # ClientId /\ value # NoValue /\ Lower[key] = ClientId
    <3>1. ~(Alone(via[k]) /\ ~Respelled(via[k]))
      <4>1. key \in OtherSpellings
        BY <2>3 DEF OtherSpellings
      <4> QED BY <1>1, <2>3, <4>1, OtherRead DEF IInv
    <3>2. /\ md'[k][ClientId] = Append(ids, value)
          /\ ClientId \in left'[k] <=> ClientId \in left[k]
      BY <1>2, <1>6, <2>3
    <3>3. /\ Append(ids, value) # <<>>
          /\ \A i \in DOMAIN ids : /\ i \in DOMAIN Append(ids, value)
                                  /\ Append(ids, value)[i] = ids[i]
      <4>1. value \in Values
        BY <1>3, <2>3
      <4> HIDE DEF ids
      <4> QED BY <1>7, <4>1, Appended
    <3> HIDE DEF ids
    <3>4. CASE ClientId \in left[k]
      BY <1>8, <3>1, <3>2, <3>4 DEF Reading
    <3>5. CASE ClientId \notin left[k]
      <4>1. Alone(via[k]) => \E i \in DOMAIN ids : ids[i] = own
        BY <1>9, <3>5 DEF Reading, HasId, ids
      <4>2. Alone(via[k]) =>
              \E i \in DOMAIN Append(ids, value) : Append(ids, value)[i] = own
        BY <3>3, <4>1
      <4> QED BY <1>8, <3>1, <3>2, <3>3, <3>5, <4>2 DEF Reading, HasId
    <3> QED BY <3>4, <3>5
  <2> QED BY <2>1, <2>2, <2>3
<1>11. CallOK(k)'
  BY <1>8, <1>10 DEF IInv, CallInv, CallOK, Sent
<1>12. CountedOnce!(k)'
  BY DEF IInv, TypeOK, CallTypes
<1>13. \A j \in Calls \ {k} : md'[j] = md[j] /\ left'[j] = left[j]
  BY <1>1 DEF IInv, TypeOK, CallTypes
<1> QED BY <1>5, <1>11, <1>12, <1>13, OneCall DEF IInv, TypeOK, CallTypes

LEMMA InvokeInv == ASSUME IInv, NEW k \in Calls, Invoke(k) PROVE IInv'
<1> USE DEF Invoke, At, Goto
<1>1. md[k] \in [Keys -> Seq(Values)] /\ <<"ctx">> \in Seq(Values)
  BY DEF IInv, TypeOK, CallTypes, Values
<1>2. CallTypes'
  <2>1. md' \in [Calls -> [Keys -> Seq(Values)]]
    <3>1. [name \in Keys |-> IF name \in FromContext(k) THEN <<"ctx">>
                                                      ELSE md[k][name]]
            \in [Keys -> Seq(Values)]
      BY <1>1
    <3> QED BY <3>1 DEF IInv, TypeOK, CallTypes
  <2>2. limit' \in [Calls -> Int]
    <3>1. via[k] \in Clients /\ asked[k] \in Asks
      BY DEF IInv, TypeOK, CallTypes
    <3>2. cfg[via[k]].timeout \in Int
      BY <3>1 DEF IInv, TypeOK, ClientTypes, ConfigsOver
    <3>3. asked[k].forced = <<>> \/ asked[k].forced[1] \in Int
      BY <3>1 DEF Asks
    <3>4. Timeout(cfg[via[k]].timeout, asked[k].forced) \in Int
      BY <3>2, <3>3 DEF Timeout
    <3> QED BY <3>4 DEF IInv, TypeOK, CallTypes
  <2> QED BY <2>1, <2>2 DEF IInv, TypeOK, CallTypes
<1>3. HasId(k)
  BY DEF IInv, CallInv, CallOK, Reading
<1>4. md'[k][ClientId] = IF ClientId \in FromContext(k) THEN <<"ctx">>
                                                       ELSE md[k][ClientId]
  BY DEF IInv, TypeOK, CallTypes
<1>5. via[k] \in Clients /\ IsReady(via[k])
  BY DEF IInv, TypeOK, CallTypes, CallInv, CallOK
<1>6. FromContext(k)' = FromContext(k) /\ <<"ctx">> # <<>>
  BY DEF FromContext
<1>7. CallOK(k)'
  <2>1. ClientId \notin FromContext(k) => HasId(k)'
    BY <1>3, <1>4, <1>5, ClientFrame DEF IInv, HasId
  <2>2. md'[k][ClientId] # <<>>
    BY <1>3, <1>4, <1>6 DEF HasId
  <2>3. /\ IsReady(via[k])' /\ pc'[k] = "sent" /\ left'[k] = {}
        /\ via'[k] = via[k] /\ counted'[k] = <<>>
    BY <1>5, ClientFrame DEF IInv, TypeOK, CallTypes, CallInv, CallOK
  <2> QED BY <1>4, <1>6, <2>1, <2>2, <2>3 DEF CallOK, Sent
<1>8. CountedOnce!(k)'
  BY DEF IInv, TypeOK, CallTypes
<1>9. \A j \in Calls \ {k} : md'[j] = md[j]
  BY DEF IInv, TypeOK, CallTypes
<1> QED BY <1>2, <1>7, <1>8, <1>9, OneCall DEF IInv, TypeOK, CallTypes

LEMMA ReplyInv == ASSUME IInv, NEW k \in Calls, Reply(k) PROVE IInv'
<1> USE DEF Reply, At, Goto
<1>1. PICK code \in {"OK", "own"} : result' = [result EXCEPT ![k].code = code]
  OBVIOUS
<1>2. CallTypes'
  <2> DEFINE Results == [code : {"OK", "own"}, failed : BOOLEAN]
  <2>1. result \in [Calls -> Results] /\ result[k] \in Results
    BY DEF IInv, TypeOK, CallTypes
  <2>2. [result[k] EXCEPT !.code = code] \in Results
    BY <2>1
  <2>3. result' = [result EXCEPT ![k] = [result[k] EXCEPT !.code = code]]
    BY <1>1
  <2>4. result' \in [Calls -> Results]
    <3> HIDE DEF Results
    <3> QED BY <2>1, <2>2, <2>3
  <2> QED BY <2>4 DEF IInv, TypeOK, CallTypes
<1>3. CallOK(k)'
  BY ClientFrame
     DEF IInv, TypeOK, CallTypes, CallInv, CallOK, Sent, HasId, FromContext
<1>4. CountedOnce!(k)'
  BY DEF IInv, TypeOK, CallTypes
<1> QED BY <1>1, <1>2, <1>3, <1>4, OneCall DEF IInv, TypeOK, CallTypes

LEMMA FailsInv == ASSUME IInv, NEW k \in Calls, Fails(k) PROVE IInv'
<1> USE DEF Fails, At, Goto
<1>1. CallTypes'
  BY DEF IInv, TypeOK, CallTypes
<1>2. CallOK(k)'
  BY ClientFrame
     DEF IInv, TypeOK, CallTypes, CallInv, CallOK, Sent, HasId, FromContext
<1>3. CountedOnce!(k)'
  BY DEF IInv, TypeOK, CallTypes
<1> QED BY <1>1, <1>2, <1>3, OneCall DEF IInv, TypeOK, CallTypes

LEMMA CountInv == ASSUME IInv, NEW k \in Calls, Count(k) PROVE IInv'
<1> USE DEF Count, At, Goto
<1> DEFINE code == IF asked[k].getCode THEN result[k].code
                   ELSE IF result[k].failed THEN "Unknown" ELSE "OK"
<1>1. code \in {"OK", "own", "Unknown"}
  BY DEF IInv, TypeOK, CallTypes
<1>2. counted[k] = <<>> /\ md[k][ClientId] # <<>>
  BY DEF IInv, CallInv, CallOK, Sent
<1>3. counted'[k] = <<code>> /\ \A j \in Calls \ {k} : counted'[j] = counted[j]
  BY <1>2 DEF IInv, TypeOK, CallTypes
<1>4. CallTypes'
  <2>1. counted' \in [Calls -> Seq({"OK", "own", "Unknown"})]
    BY <1>1 DEF IInv, TypeOK, CallTypes
  <2> QED BY <2>1 DEF IInv, TypeOK, CallTypes
<1>5. CallOK(k)'
  BY ClientFrame DEF IInv, TypeOK, CallTypes, CallInv, CallOK, Sent
<1>6. CountedOnce!(k)'
  <2>1. md[k] # NoHeaders
    BY <1>2 DEF NoHeaders
  <2>2. Len(counted'[k]) = 1
    BY <1>3
  <2>3. result[k].failed /\ counted'[k] = <<"OK">> => asked[k].getCode
    BY <1>3
  <2> QED BY <2>1, <2>2, <2>3
<1> QED BY <1>3, <1>4, <1>5, <1>6, OneCall DEF IInv, TypeOK, CallTypes
-----------------------------------------------------------------------------
(* Clients                                                                 *)

\* The program's maps keep the keys they have.
KeepsKeys ==
  \A m \in Maps : \A key \in Keys : heap[m][key] # NoValue => heap'[m][key] # NoValue

\* A step of clients that leaves calls alone: a client that is ready remains
\* so, with its id and its options, and one that shares a map goes on sharing it.
LEMMA ClientStep ==
  ASSUME IInv, ~thrown, UNCHANGED <<callVars, thrown>>,
         ClientTypes', ConfigInv', DialInv', MapInv', SpellInv', KeepsKeys,
         \A c \in Clients :
           /\ IsReady(c) => /\ IsReady(c)' /\ OwnId(c)' = OwnId(c)
                            /\ options'[c] = options[c]
           /\ Passed(options[c]) \subseteq Passed(options'[c])
  PROVE  IInv'
<1>1. \A c \in Clients : Alone(c)' => Alone(c)
  BY DEF Alone
<1>2. \A c \in Clients : IsReady(c) /\ Respelled(c) => Respelled(c)'
  <2> SUFFICES ASSUME NEW c \in Clients, IsReady(c), NEW key \in OtherSpellings,
                      Adds(c, key) \/ \E m \in Passed(options[c]) :
                                        heap[m][key] # NoValue
               PROVE  Respelled(c)'
    BY DEF Respelled
  <2>1. options'[c] = options[c]
    OBVIOUS
  <2>2. CASE Adds(c, key)
    <3>1. Adds(c, key)'
      BY <2>1, <2>2 DEF Adds
    <3> QED BY <3>1 DEF Respelled, OtherSpellings
  <2>3. CASE \E m \in Passed(options[c]) : heap[m][key] # NoValue
    <3>1. PICK m \in Passed(options[c]) : heap[m][key] # NoValue
      BY <2>3
    <3>2. m \in Maps /\ key \in Keys
      BY PassedMaps DEF IInv, OtherSpellings
    <3>3. heap'[m][key] # NoValue /\ m \in Passed(options'[c])
      BY <2>1, <3>1, <3>2 DEF KeepsKeys
    <3> QED BY <3>3 DEF Respelled, OtherSpellings
  <2> QED BY <2>2, <2>3
<1>3. CallInv'
  <2> SUFFICES ASSUME NEW k \in Calls
               PROVE  CallOK(k)'
    BY DEF CallInv
  <2>1. CallOK(k) /\ via[k] \in Clients
    BY DEF IInv, CallInv, TypeOK, CallTypes
  <2>2. HasId(k) /\ IsReady(via[k]) => HasId(k)'
    BY <1>1, <1>2, <2>1 DEF HasId, callVars
  <2>3. Reading(k) /\ IsReady(via[k]) => Reading(k)'
    BY <1>1, <1>2, <2>1, <2>2 DEF Reading, callVars
  <2> QED BY <2>1, <2>2, <2>3 DEF CallOK, Sent, FromContext, callVars
<1>4. ThrownOnlyIfShared'
  BY DEF ThrownOnlyIfShared
<1>5. CountedOnce'
  BY DEF IInv, CountedOnce, callVars
<1>6. TypeOK'
  <2>1. CallTypes'
    BY DEF IInv, TypeOK, CallTypes, callVars
  <2> QED BY <2>1 DEF IInv, TypeOK
<1> QED BY <1>3, <1>4, <1>5, <1>6 DEF IInv

LEMMA InitInv == Init => IInv
<1> SUFFICES ASSUME Init PROVE IInv
  OBVIOUS
<1> USE DEF Init
<1>1. TypeOK
  <2>1. NoConfig \in ConfigsOver(Maps \cup {NoMap})
    <3>1. NoDelays \in [DOMAIN NoDelays -> Nat]
      BY DEF NoDelays
    <3>2. 0 \in Int /\ NoMap \in Maps \cup {NoMap} /\ "" \in Names \cup {""}
          /\ FALSE \in BOOLEAN
      OBVIOUS
    <3> QED BY <3>1, <3>2, Zenon DEF NoConfig, ConfigsOver
  <2>2. \A c \in Clients : cfg[c] \in ConfigsOver(Maps \cup {c, NoMap})
    BY <2>1 DEF ConfigsOver
  <2>3. heap \in [Maps \cup Clients -> Texts]
    <3>1. PICK contents \in [Maps -> Contents] :
            heap = [m \in Maps \cup Clients |->
                      IF m \in Maps THEN contents[m] ELSE Empty]
      OBVIOUS
    <3>2. Empty \in Texts
      BY DEF Empty, Texts
    <3>3. \A m \in Maps : contents[m] \in Texts
      BY DEF Texts
    <3> QED BY <3>1, <3>2, <3>3
  <2>4. asked \in [Calls -> Asks]
    BY DEF Asks
  <2>5. ClientTypes
    BY <2>2, <2>3 DEF ClientTypes
  <2>6. CallTypes
    <3>1. NoHeaders \in [Keys -> Seq(Values)]
      BY DEF NoHeaders
    <3> QED BY <2>4, <3>1 DEF CallTypes
  <2> QED BY <2>5, <2>6 DEF TypeOK
<1>2. ConfigInv
  BY AskedNone DEF ConfigInv, Simple, Made, NoConfig
<1>3. DialInv
  BY DEF DialInv
<1>4. MapInv
  BY DEF MapInv, Made
<1>5. CallInv
  BY DEF CallInv, CallOK, Sent
<1>6. ThrownOnlyIfShared /\ CountedOnce
  BY DEF ThrownOnlyIfShared, CountedOnce
<1>7. SpellInv
  BY DEF SpellInv, Empty
<1> QED BY <1>1, <1>2, <1>3, <1>4, <1>5, <1>6, <1>7 DEF IInv

LEMMA SpellFrame ==
  ASSUME IInv, UNCHANGED <<heap, writing, options>>
  PROVE  SpellInv' /\ KeepsKeys
BY DEF IInv, SpellInv, Adds, KeepsKeys

LEMMA BeginInv == ASSUME IInv, NEW c \in Clients, Begin(c) PROVE IInv'
<1> USE DEF Begin, Is
<1>1. PICK list \in OptionLists : options' = [options EXCEPT ![c] = list]
  OBVIOUS
<1>2. /\ options[c] = <<>> /\ applied[c] = 0 /\ dial[c] = <<>>
      /\ writing[c] = {} /\ cfg[c].map \in {c, NoMap}
  <2>1. state[c] = "none" /\ ~Made(c)
    BY DEF Made
  <2>2. options[c] = <<>> /\ cfg[c].map \in Passed(options[c]) \cup {c, NoMap}
    BY <2>1 DEF IInv, ConfigInv
  <2>3. Passed(options[c]) = {}
    BY <2>2 DEF Passed
  <2>4. applied[c] = 0
    <3>1. Len(options[c]) = 0
      BY <2>2
    <3>2. applied[c] \in Nat /\ applied[c] <= Len(options[c])
      BY DEF IInv, TypeOK, ClientTypes
    <3> QED BY <3>1, <3>2
  <2>5. dial[c] = <<>> /\ writing[c] = {}
    BY <2>1 DEF IInv, DialInv, MapInv
  <2> QED BY <2>2, <2>3, <2>4, <2>5
<1>3. Passed(options[c]) = {}
  BY <1>2 DEF Passed
<1>4. /\ options'[c] = list
      /\ \A d \in Clients \ {c} : options'[d] = options[d] /\ state'[d] = state[d]
      /\ state'[c] = "options"
  BY <1>1 DEF IInv, TypeOK, ClientTypes
<1>5. \A d \in Clients : Passed(options[d]) \subseteq Passed(options'[d])
  BY <1>3, <1>4
<1>6. ClientTypes'
  <2>1. Len(list) \in Nat
    OBVIOUS
  <2>2. \A d \in Clients : applied'[d] <= Len(options'[d])
    <3>1. applied'[c] <= Len(options'[c])
      BY <1>2, <1>4, <2>1
    <3> QED BY <1>4, <3>1 DEF IInv, TypeOK, ClientTypes
  <2> QED BY <1>1, <2>2 DEF IInv, TypeOK, ClientTypes, mapVars
<1>7. ConfigInv'
  <2>1. \A f : AskedFirst(list, 0, f) = AskedFirst(options[c], 0, f)
    BY AskedNone
  <2> QED BY <1>2, <1>3, <1>4, <2>1 DEF IInv, ConfigInv, Made
<1>8. DialInv'
  BY <1>2, <1>4, DialKept DEF IInv, Made
<1>9. MapInv'
  <2>1. \A d \in Clients : Alone(d)' => Alone(d)
    BY <1>5 DEF Alone
  <2> QED BY <1>2, <1>4, <2>1 DEF IInv, MapInv, Made, mapVars, OwnId
<1>10. \A d \in Clients :
         IsReady(d) => /\ IsReady(d)' /\ OwnId(d)' = OwnId(d)
                       /\ options'[d] = options[d]
  BY <1>4 DEF IsReady, OwnId
<1>11. SpellInv' /\ KeepsKeys
  <2>1. \A d \in Clients : \A key : Adds(d, key) => Adds(d, key)'
    BY <1>2, <1>4 DEF Adds
  <2> QED BY <2>1 DEF IInv, SpellInv, KeepsKeys, mapVars
<1> QED BY <1>5, <1>6, <1>7, <1>8, <1>9, <1>10, <1>11, ClientStep

LEMMA ApplyInv == ASSUME IInv, NEW c \in Clients, Apply(c) PROVE IInv'
<1> USE DEF Apply, Applying, Is
<1> DEFINE o    == Option(c)
           n    == applied[c]
           list == options[c]
           maps == Maps \cup {c, NoMap}
<1>1. list \in OptionLists /\ n \in Nat /\ n + 1 \in DOMAIN list /\ IsOption(o)
  BY NextOption DEF IInv
<1>2. /\ Set(cfg[c], o) \in ConfigsOver(maps)
      /\ \A f \in DOMAIN NoConfig :
           Set(cfg[c], o)[f] = IF o.field = "config" THEN o.value[f]
                               ELSE IF o.field = f THEN o.value
                               ELSE cfg[c][f]
  <2>1. Maps \cup {NoMap} \subseteq maps /\ cfg[c] \in ConfigsOver(maps)
    BY DEF IInv, TypeOK, ClientTypes
  <2> HIDE DEF maps, o
  <2>2. o.field # "header"
    BY DEF o
  <2> QED BY <1>1, <2>1, <2>2, SetFields
<1>3. /\ cfg'[c] = Set(cfg[c], o) /\ applied'[c] = n + 1
      /\ \A d \in Clients \ {c} : cfg'[d] = cfg[d] /\ applied'[d] = applied[d]
  BY DEF IInv, TypeOK, ClientTypes
<1>4. writing[c] = {} /\ dial[c] = <<>> /\ ~Made(c)
  BY DEF IInv, DialInv, Made
<1>5. ClientTypes'
  <2>1. applied' \in [Clients -> Nat]
    BY <1>1 DEF IInv, TypeOK, ClientTypes
  <2>2. \A d \in Clients : cfg'[d] \in ConfigsOver(Maps \cup {d, NoMap})
    BY <1>2, <1>3 DEF IInv, TypeOK, ClientTypes
  <2>3. \A d \in Clients : applied'[d] <= Len(options[d])
    <3>1. n + 1 <= Len(list)
      BY NextOption DEF IInv
    <3> QED BY <1>1, <1>3, <3>1 DEF IInv, TypeOK, ClientTypes
  <2> QED BY <2>1, <2>2, <2>3 DEF IInv, TypeOK, ClientTypes, mapVars
<1>6. ConfigInv'
  <2>1. ASSUME NEW f \in Simple
        PROVE  cfg'[c][f] = AskedFirst(list, n + 1, f)
    <3>1. f \in DOMAIN NoConfig /\ cfg[c][f] = AskedFirst(list, n, f)
      BY DEF IInv, ConfigInv, Simple
    <3> QED BY <1>1, <1>2, <1>3, <3>1, AskedStep DEF Option
  <2>2. cfg'[c].map \in Passed(list) \cup {c, NoMap}
    <3>1. cfg'[c].map = IF o.field = "config" THEN o.value.map
                        ELSE IF o.field = "map" THEN o.value
                        ELSE cfg[c].map
      BY <1>2, <1>3 DEF NoConfig
    <3>2. o.field = "config" => o.value.map \in Passed(list) \cup {NoMap}
      BY <1>1 DEF Option, Passed
    <3>3. o.field = "map" => o.value \in Passed(list) \cup {NoMap}
      BY <1>1 DEF Option, Passed
    <3> QED BY <3>1, <3>2, <3>3 DEF IInv, ConfigInv
  <2> QED BY <1>3, <1>4, <2>1, <2>2 DEF IInv, ConfigInv, Made
<1>7. DialInv'
  BY <1>3, <1>4, DialKept DEF IInv, Made
<1>8. MapInv'
  <2>1. \A d \in Clients : Alone(d)' = Alone(d)
    BY DEF Alone
  <2>2. MapInv!(c)'
    BY <1>4 DEF mapVars, Made
  <2>3. ASSUME NEW d \in Clients \ {c}
        PROVE  MapInv!(d)'
    <3>1. /\ state' = state /\ writing' = writing /\ heap' = heap
          /\ cfg'[d] = cfg[d] /\ Alone(d)' = Alone(d)
      BY <1>3, <2>1 DEF mapVars
    <3> QED BY <3>1 DEF IInv, MapInv, Made, OwnId
  <2> QED BY <2>2, <2>3 DEF MapInv
<1>9. \A d \in Clients : IsReady(d) => IsReady(d)' /\ OwnId(d)' = OwnId(d)
  <2>1. ~IsReady(c) /\ state' = state
    BY DEF IsReady
  <2>2. \A d \in Clients \ {c} : OwnId(d)' = OwnId(d)
    BY <1>3 DEF OwnId
  <2> QED BY <2>1, <2>2 DEF IsReady
<1>10. SpellInv' /\ KeepsKeys
  BY SpellFrame DEF mapVars
<1> QED BY <1>5, <1>6, <1>7, <1>8, <1>9, <1>10, ClientStep

\* A client without a map makes one that no other client has.
LEMMA MadeMap ==
  ASSUME IInv, NEW c \in Clients, writing[c] = {}, ~Made(c), MakeMap(c)
  PROVE  LET m == IF cfg[c].map = NoMap THEN c ELSE cfg[c].map
         IN  /\ cfg'[c] = [cfg[c] EXCEPT !.map = m]
             /\ cfg'[c] \in ConfigsOver(Maps \cup {c, NoMap})
             /\ cfg'[c].map = m /\ m # NoMap
             /\ \A f \in Simple : cfg'[c][f] = cfg[c][f]
             /\ DOMAIN cfg' = Clients
             /\ heap' \in [Maps \cup Clients -> Texts]
             /\ \A d \in Clients \ {c} :
                  /\ cfg'[d] = cfg[d]
                  /\ Made(d) => heap'[cfg[d].map] = heap[cfg[d].map]
             /\ \A n \in Maps : heap'[n] = heap[n]
             /\ \A d \in Clients : heap'[d] \in {heap[d], Empty}
<1> USE DEF MakeMap
<1> DEFINE m == IF cfg[c].map = NoMap THEN c ELSE cfg[c].map
<1>1. cfg[c] \in ConfigsOver(Maps \cup {c, NoMap}) /\ c \in DOMAIN cfg
  BY DEF IInv, TypeOK, ClientTypes
<1>2. cfg'[c] = [cfg[c] EXCEPT !.map = m] /\ DOMAIN cfg' = Clients
  BY DEF IInv, TypeOK, ClientTypes
<1>3. /\ cfg'[c] \in ConfigsOver(Maps \cup {c, NoMap}) /\ cfg'[c].map = m
      /\ \A f \in Simple : cfg'[c][f] = cfg[c][f]
  BY <1>1, <1>2 DEF ConfigsOver, Simple, NoConfig
<1>4. heap' \in [Maps \cup Clients -> Texts]
  <2>1. Empty \in Texts
    BY DEF Empty, Texts
  <2> QED BY <2>1 DEF IInv, TypeOK, ClientTypes
<1>5. ASSUME NEW d \in Clients \ {c}
      PROVE  /\ cfg'[d] = cfg[d]
             /\ Made(d) => heap'[cfg[d].map] = heap[cfg[d].map]
  <2>1. cfg'[d] = cfg[d]
    BY DEF IInv, TypeOK, ClientTypes
  <2>2. cfg[d].map \in Maps \cup {d, NoMap} /\ (Made(d) => cfg[d].map # NoMap)
    BY DEF IInv, TypeOK, ClientTypes, ConfigInv, ConfigsOver
  <2> QED BY <2>1, <2>2 DEF IInv, TypeOK, ClientTypes
<1>6. m # NoMap
  OBVIOUS
<1>7. /\ \A n \in Maps : heap'[n] = heap[n]
      /\ \A d \in Clients : heap'[d] \in {heap[d], Empty}
  BY DEF IInv, TypeOK, ClientTypes
<1> QED BY <1>2, <1>3, <1>4, <1>5, <1>6, <1>7

LEMMA AddHeaderInv == ASSUME IInv, NEW c \in Clients, AddHeader(c) PROVE IInv'
<1> USE DEF AddHeader, Applying, Is
<1> DEFINE o    == Option(c)
           n    == applied[c]
           list == options[c]
<1>1. list \in OptionLists /\ n \in Nat /\ n + 1 \in DOMAIN list /\ IsOption(o)
  BY NextOption DEF IInv
<1>2. o.key \in Keys /\ o.value \in Names
  BY <1>1 DEF IsOption, NoConfig
<1>3. writing[c] = {} /\ dial[c] = <<>> /\ ~Made(c)
  BY DEF IInv, DialInv, Made
<1>4. /\ cfg'[c] \in ConfigsOver(Maps \cup {c, NoMap})
      /\ cfg'[c].map = IF cfg[c].map = NoMap THEN c ELSE cfg[c].map
      /\ cfg'[c].map # NoMap
      /\ \A f \in Simple : cfg'[c][f] = cfg[c][f]
      /\ DOMAIN cfg' = Clients
      /\ heap' \in [Maps \cup Clients -> Texts]
      /\ \A d \in Clients \ {c} :
           /\ cfg'[d] = cfg[d]
           /\ Made(d) => heap'[cfg[d].map] = heap[cfg[d].map]
  BY <1>3, MadeMap
<1>5. /\ applied'[c] = n + 1 /\ writing' \in [Clients -> SUBSET Writes]
      /\ \A d \in Clients \ {c} :
           applied'[d] = applied[d] /\ writing'[d] = writing[d]
  BY <1>2 DEF IInv, TypeOK, ClientTypes, Write, Writes
<1>6. ClientTypes'
  <2>1. applied' \in [Clients -> Nat]
    BY <1>1 DEF IInv, TypeOK, ClientTypes
  <2>2. \A d \in Clients : cfg'[d] \in ConfigsOver(Maps \cup {d, NoMap})
    BY <1>4 DEF IInv, TypeOK, ClientTypes
  <2>3. \A d \in Clients : applied'[d] <= Len(options[d])
    <3>1. n + 1 <= Len(list)
      BY NextOption DEF IInv
    <3> QED BY <1>1, <1>5, <3>1 DEF IInv, TypeOK, ClientTypes
  <2> QED BY <1>4, <1>5, <2>1, <2>2, <2>3 DEF IInv, TypeOK, ClientTypes
<1>7. ConfigInv'
  <2>1. ASSUME NEW f \in Simple
        PROVE  cfg'[c][f] = AskedFirst(list, n + 1, f)
    <3>1. cfg[c][f] = AskedFirst(list, n, f) /\ f \in DOMAIN NoConfig
      BY DEF IInv, ConfigInv, Simple
    <3>2. o.field # "config" /\ o.field # f
      BY <3>1 DEF NoConfig
    <3>3. list[n + 1] = o
      BY DEF Option
    <3>4. AskedFirst(list, n + 1, f) = AskedFirst(list, n, f)
      <4>1. n \in Nat /\ list[n + 1].field # "config" /\ list[n + 1].field # f
        BY <1>1, <3>2, <3>3
      <4> HIDE DEF n, list, o
      <4> QED BY <4>1, AskedStep
    <3> QED BY <1>4, <3>1, <3>4
  <2> QED BY <1>3, <1>4, <1>5, <2>1 DEF IInv, ConfigInv, Made
<1>8. DialInv'
  BY <1>3, <1>4, DialKept DEF IInv, Made
<1>9. MapInv'
  <2>1. \A d \in Clients : Alone(d)' = Alone(d)
    BY DEF Alone
  <2>2. MapInv!(c)'
    BY <1>3, <1>4 DEF Made
  <2>3. ASSUME NEW d \in Clients \ {c}
        PROVE  MapInv!(d)'
    <3>1. /\ state' = state /\ writing'[d] = writing[d]
          /\ cfg'[d] = cfg[d] /\ Alone(d)' = Alone(d)
          /\ Made(d) => heap'[cfg[d].map] = heap[cfg[d].map]
      BY <1>4, <1>5, <2>1
    <3>2. MapInv!(d) /\ Made(d)' = Made(d) /\ OwnId(d)' = OwnId(d)
      BY <3>1 DEF IInv, MapInv, Made, OwnId
    <3> QED BY <3>1, <3>2
  <2> QED BY <2>2, <2>3 DEF MapInv
<1>10. \A d \in Clients : IsReady(d) => IsReady(d)' /\ OwnId(d)' = OwnId(d)
  BY <1>4 DEF IsReady, OwnId
<1>11. /\ \A m \in Maps : heap'[m] = heap[m]
       /\ \A d \in Clients : heap'[d] \in {heap[d], Empty}
  BY <1>3, MadeMap
<1>12. SpellInv'
  <2> SUFFICES ASSUME NEW d \in Clients, NEW key \in Keys \ {ClientId},
                      heap'[d][key] # NoValue
                        \/ \E w \in writing'[d] : w.key = key
               PROVE  Adds(d, key)
    BY DEF SpellInv, Adds
  <2>1. CASE heap'[d][key] # NoValue
    BY <1>11, <2>1 DEF IInv, SpellInv, Empty
  <2>2. CASE d = c /\ \E w \in writing'[c] : w.key = key
    <3>1. writing'[c] = {[key |-> o.key, value |-> o.value]}
      BY DEF IInv, TypeOK, ClientTypes, Write
    <3>2. o.key = key /\ o = list[n + 1] /\ o.field = "header"
      BY <2>2, <3>1 DEF Option
    <3> QED BY <1>1, <2>2, <3>2 DEF Adds
  <2>3. CASE d # c /\ \E w \in writing'[d] : w.key = key
    BY <1>5, <2>3 DEF IInv, SpellInv
  <2> QED BY <2>1, <2>2, <2>3
<1>13. KeepsKeys
  BY <1>11 DEF KeepsKeys
<1> QED BY <1>6, <1>7, <1>8, <1>9, <1>10, <1>12, <1>13, ClientStep

LEMMA DialOptionsInv ==
  ASSUME IInv, NEW c \in Clients, DialOptions(c) PROVE IInv'
<1> USE DEF DialOptions, Applying, Is
<1>1. writing[c] = {} /\ dial[c] = <<>> /\ ~Made(c)
  BY DEF IInv, DialInv, Made
<1>2. /\ cfg'[c] \in ConfigsOver(Maps \cup {c, NoMap})
      /\ cfg'[c].map = IF cfg[c].map = NoMap THEN c ELSE cfg[c].map
      /\ cfg'[c].map # NoMap
      /\ \A f \in Simple : cfg'[c][f] = cfg[c][f]
      /\ DOMAIN cfg' = Clients
      /\ heap' \in [Maps \cup Clients -> Texts]
      /\ \A d \in Clients \ {c} :
           /\ cfg'[d] = cfg[d]
           /\ Made(d) => heap'[cfg[d].map] = heap[cfg[d].map]
  BY <1>1, MadeMap
<1>3. OwnId(c) \in Names \cup {Service} /\ OwnId(c)' = OwnId(c)
  BY <1>2 DEF IInv, TypeOK, ClientTypes, ConfigsOver, OwnId, Simple, NoConfig
<1>4. /\ writing'[c] = {[key |-> ClientId, value |-> OwnId(c)]}
      /\ writing' \in [Clients -> SUBSET Writes]
      /\ state'[c] = "new" /\ Made(c)'
      /\ \A d \in Clients \ {c} :
           writing'[d] = writing[d] /\ state'[d] = state[d]
  BY <1>3 DEF IInv, TypeOK, ClientTypes, Write, Writes, Made
<1>5. ClientTypes'
  <2>1. \A d \in Clients : cfg'[d] \in ConfigsOver(Maps \cup {d, NoMap})
    BY <1>2 DEF IInv, TypeOK, ClientTypes
  <2> QED BY <1>2, <1>4, <2>1 DEF IInv, TypeOK, ClientTypes
<1>6. ConfigInv'
  BY <1>1, <1>2, <1>4 DEF IInv, ConfigInv, Made
<1>7. DialInv'
  <2> DEFINE Dial(fields) == [url         |-> URL(fields),
                              credentials |-> Credentials(fields),
                              params      |-> ConnectParams(fields.delays)]
  <2>1. dial' = [dial EXCEPT ![c] = Dial(cfg[c])]
    OBVIOUS
  <2>2. Dial(cfg'[c]) = Dial(cfg[c])
    <3>1. \A f \in {"url", "insecure", "tls", "delays"} : cfg'[c][f] = cfg[c][f]
      BY <1>2 DEF Simple, NoConfig
    <3> QED BY <3>1 DEF URL, Credentials, Insecure
  <2> HIDE DEF Dial
  <2>3. dial'[c] = Dial(cfg'[c]) \/ dial'[c] = dial[c]
    BY <2>1, <2>2
  <2>4. \A d \in Clients \ {c} : dial'[d] = dial[d]
    BY <2>1
  <2>5. DialInv!(c)'
    BY <1>1, <1>4, <2>3 DEF Dial
  <2>6. ASSUME NEW d \in Clients \ {c}
        PROVE  DialInv!(d)'
    <3>1. dial'[d] = dial[d] /\ cfg'[d] = cfg[d] /\ Made(d)' = Made(d)
      BY <1>2, <1>4, <2>4 DEF Made
    <3> QED BY <3>1 DEF IInv, DialInv
  <2> QED BY <2>5, <2>6 DEF DialInv
<1>8. MapInv'
  <2>1. \A d \in Clients : Alone(d)' = Alone(d)
    BY DEF Alone
  <2>2. MapInv!(c)'
    BY <1>2, <1>3, <1>4
  <2>3. ASSUME NEW d \in Clients \ {c}
        PROVE  MapInv!(d)'
    <3>1. /\ state'[d] = state[d] /\ writing'[d] = writing[d]
          /\ cfg'[d] = cfg[d] /\ Alone(d)' = Alone(d)
          /\ Made(d) => heap'[cfg[d].map] = heap[cfg[d].map]
      BY <1>2, <1>4, <2>1
    <3>2. MapInv!(d) /\ Made(d)' = Made(d) /\ OwnId(d)' = OwnId(d)
      BY <3>1 DEF IInv, MapInv, Made, OwnId
    <3> QED BY <3>1, <3>2
  <2> QED BY <2>2, <2>3 DEF MapInv
<1>9. \A d \in Clients : IsReady(d) => IsReady(d)' /\ OwnId(d)' = OwnId(d)
  BY <1>2, <1>4 DEF IsReady, OwnId
<1>10. /\ \A m \in Maps : heap'[m] = heap[m]
       /\ \A d \in Clients : heap'[d] \in {heap[d], Empty}
  BY <1>1, MadeMap
<1>11. SpellInv'
  <2> SUFFICES ASSUME NEW d \in Clients, NEW key \in Keys \ {ClientId},
                      heap'[d][key] # NoValue
                        \/ \E w \in writing'[d] : w.key = key
               PROVE  Adds(d, key)
    BY DEF SpellInv, Adds
  <2>1. CASE heap'[d][key] # NoValue
    BY <1>10, <2>1 DEF IInv, SpellInv, Empty
  <2>2. CASE \E w \in writing'[d] : w.key = key
    <3>1. d # c
      BY <1>4, <2>2
    <3>2. writing'[d] = writing[d]
      BY <1>4, <3>1
    <3> QED BY <2>2, <3>2 DEF IInv, SpellInv
  <2> QED BY <2>1, <2>2
<1>12. KeepsKeys
  BY <1>10 DEF KeepsKeys
<1> QED BY <1>5, <1>6, <1>7, <1>8, <1>9, <1>11, <1>12, ClientStep

LEMMA EndWriteInv ==
  ASSUME IInv, NEW c \in Clients, EndWrite(c) PROVE IInv'
<1> USE DEF EndWrite
<1> DEFINE m == cfg[c].map
<1>1. PICK w \in writing[c] : heap' = [heap EXCEPT ![m][w.key] = w.value]
  OBVIOUS
<1>2. /\ state[c] \in {"options", "new"} /\ m # NoMap
      /\ state[c] = "new" => w = [key |-> ClientId, value |-> OwnId(c)]
  BY DEF IInv, MapInv
<1>3. m \in Maps \cup Clients /\ w \in Writes
  BY <1>2 DEF IInv, TypeOK, ClientTypes, ConfigsOver
<1>4. w.key \in Keys /\ w.value \in Names \cup {Service}
  BY <1>3 DEF Writes
<1>5. /\ heap'[m] = [heap[m] EXCEPT ![w.key] = w.value]
      /\ heap' \in [Maps \cup Clients -> Texts]
      /\ \A n \in (Maps \cup Clients) \ {m} : heap'[n] = heap[n]
  <2>1. heap \in [Maps \cup Clients -> Texts] /\ heap[m] \in Texts
    BY <1>3 DEF IInv, TypeOK, ClientTypes
  <2>2. [heap[m] EXCEPT ![w.key] = w.value] \in Texts
    BY <1>4, <2>1 DEF Texts
  <2> QED BY <1>1, <1>3, <2>1, <2>2
<1>6. /\ writing'[c] = {} /\ writing' \in [Clients -> SUBSET Writes]
      /\ \A d \in Clients \ {c} : writing'[d] = writing[d]
  BY DEF IInv, TypeOK, ClientTypes
<1>7. ClientTypes'
  BY <1>5, <1>6 DEF IInv, TypeOK, ClientTypes
<1>8. ConfigInv' /\ DialInv'
  BY DEF IInv, ConfigInv, DialInv, Made
<1>9. heap'[m][ClientId] = IF w.key = ClientId THEN w.value
                                               ELSE heap[m][ClientId]
  BY <1>3, <1>4, <1>5 DEF IInv, TypeOK, ClientTypes, Texts
<1>10. MapInv'
  <2>1. \A d \in Clients : Alone(d)' = Alone(d)
    BY DEF Alone
  <2>2. MapInv!(c)'
    <3>1. Made(c) => heap'[m][ClientId] = OwnId(c)
      BY <1>2, <1>9 DEF Made
    <3>2. Made(c) => OwnId(c) # NoValue
      BY <1>2, <1>4 DEF Made
    <3> QED BY <1>6, <3>1, <3>2 DEF Made, OwnId
  <2>3. ASSUME NEW d \in Clients \ {c}
        PROVE  MapInv!(d)'
    <3>1. /\ MapInv!(d) /\ Made(d)' = Made(d) /\ OwnId(d)' = OwnId(d)
          /\ writing'[d] = writing[d]
      BY <1>6 DEF IInv, MapInv, Made, OwnId
    <3>2. CASE cfg[d].map = m
      <4>1. ~Alone(d)
        BY <1>2, <3>2, Isolated DEF IInv
      <4>2. w.value # NoValue
        BY <1>4
      <4> QED BY <1>9, <2>1, <3>1, <3>2, <4>1, <4>2
    <3>3. CASE cfg[d].map # m
      <4>1. Made(d) => cfg[d].map \in Maps \cup Clients
        BY DEF IInv, TypeOK, ClientTypes, ConfigInv, ConfigsOver
      <4>2. Made(d) => heap'[cfg[d].map] = heap[cfg[d].map]
        BY <1>5, <3>3, <4>1
      <4> QED BY <2>1, <3>1, <4>2
    <3> QED BY <3>2, <3>3
  <2> QED BY <2>2, <2>3 DEF MapInv
<1>11. \A d \in Clients : IsReady(d) => IsReady(d)' /\ OwnId(d)' = OwnId(d)
  BY DEF IsReady, OwnId
<1>12. KeepsKeys
  <2>1. w.value # NoValue
    BY <1>4
  <2>2. heap[m] \in Texts
    BY <1>3 DEF IInv, TypeOK, ClientTypes
  <2> QED BY <1>4, <1>5, <2>1, <2>2 DEF KeepsKeys, Texts
<1>13. SpellInv'
  <2> SUFFICES ASSUME NEW d \in Clients, NEW key \in Keys \ {ClientId},
                      heap'[d][key] # NoValue
                        \/ \E v \in writing'[d] : v.key = key
               PROVE  Adds(d, key)
    BY DEF SpellInv, Adds
  <2>1. CASE heap'[d][key] # NoValue /\ d # m
    BY <1>5, <2>1 DEF IInv, SpellInv
  <2>2. CASE heap'[d][key] # NoValue /\ d = m
    <3>1. d = c
      <4>1. m \in Passed(options[c]) \cup {c} /\ Passed(options[c]) \subseteq Maps
        BY <1>2, PassedMaps DEF IInv, ConfigInv
      <4> QED BY <2>2, <4>1
    <3>2. heap[m] \in Texts
      BY <1>3 DEF IInv, TypeOK, ClientTypes
    <3>3. w.key = key \/ heap[c][key] # NoValue
      BY <1>4, <1>5, <2>2, <3>1, <3>2 DEF Texts
    <3> QED BY <3>1, <3>3 DEF IInv, SpellInv
  <2>3. CASE \E v \in writing'[d] : v.key = key
    BY <1>6, <2>3 DEF IInv, SpellInv
  <2> QED BY <2>1, <2>2, <2>3
<1> QED BY <1>7, <1>8, <1>10, <1>11, <1>12, <1>13, ClientStep

LEMMA NewClientInv ==
  ASSUME IInv, NEW c \in Clients, NewClient(c) PROVE IInv'
<1> USE DEF NewClient, Is
<1>1. PICK s \in {"ready", "failed"} : state' = [state EXCEPT ![c] = s]
  OBVIOUS
<1>2. /\ \A d \in Clients : Made(d)' = Made(d) /\ OwnId(d)' = OwnId(d)
      /\ \A d \in Clients : Alone(d)' = Alone(d)
      /\ \A d \in Clients \ {c} : state'[d] = state[d]
      /\ state'[c] = s
  BY <1>1 DEF IInv, TypeOK, ClientTypes, Made, OwnId, Alone
<1>3. ClientTypes'
  BY <1>1 DEF IInv, TypeOK, ClientTypes, mapVars
<1>4. ConfigInv' /\ DialInv'
  BY <1>2 DEF IInv, ConfigInv, DialInv
<1>5. MapInv'
  BY <1>2 DEF IInv, MapInv, mapVars
<1>6. \A d \in Clients : IsReady(d) => IsReady(d)'
  BY <1>2 DEF IsReady
<1>7. SpellInv' /\ KeepsKeys
  BY SpellFrame DEF mapVars
<1> QED BY <1>2, <1>3, <1>4, <1>5, <1>6, <1>7, ClientStep

LEMMA CloseInv ==
  ASSUME IInv, NEW c \in Clients, Close(c) PROVE IInv'
<1> USE DEF Close, Is
<1>1. /\ \A d \in Clients : Made(d)' = Made(d) /\ OwnId(d)' = OwnId(d)
      /\ \A d \in Clients : Alone(d)' = Alone(d)
      /\ \A d \in Clients \ {c} : state'[d] = state[d]
      /\ state'[c] = "closed"
  BY DEF IInv, TypeOK, ClientTypes, Made, OwnId, Alone
<1>2. ClientTypes'
  BY DEF IInv, TypeOK, ClientTypes, mapVars
<1>3. ConfigInv' /\ DialInv'
  BY <1>1 DEF IInv, ConfigInv, DialInv
<1>4. MapInv'
  BY <1>1 DEF IInv, MapInv, mapVars
<1>5. \A d \in Clients : IsReady(d) => IsReady(d)'
  BY <1>1 DEF IsReady
<1>6. SpellInv' /\ KeepsKeys
  BY SpellFrame DEF mapVars
<1> QED BY <1>1, <1>2, <1>3, <1>4, <1>5, <1>6, ClientStep
-----------------------------------------------------------------------------
(* The runtime, and the theorems                                           *)

LEMMA CallFrame == ASSUME IInv, UNCHANGED <<clientVars, callVars>> PROVE CallInv'
<1> SUFFICES ASSUME NEW k \in Calls PROVE CallOK(k)'
  BY DEF CallInv
<1>1. CallOK(k) /\ via[k] \in Clients
  BY DEF IInv, CallInv, TypeOK, CallTypes
<1> QED BY <1>1, ClientFrame
        DEF IInv, CallOK, Sent, Reading, HasId, FromContext, callVars

LEMMA ThrowInv == ASSUME IInv, Throw PROVE IInv'
<1> USE DEF Throw
<1>1. \E c \in Clients : ~Alone(c)
  <2>1. PICK c \in Clients :
          /\ writing[c] # {}
          /\ \/ \E k \in Calls : Reads(k, cfg[c].map)
             \/ \E d \in Clients \ {c} :
                  writing[d] # {} /\ cfg[d].map = cfg[c].map
    BY DEF Overlap
  <2>2. cfg[c].map # NoMap /\ ~IsReady(c)
    BY <2>1 DEF IInv, MapInv, IsReady
  <2>3. CASE \E k \in Calls : Reads(k, cfg[c].map)
    <3>1. PICK k \in Calls : Reads(k, cfg[c].map)
      BY <2>3
    <3>2. via[k] \in Clients \ {c} /\ cfg[via[k]].map = cfg[c].map
      BY <2>2, <3>1 DEF Reads, IInv, TypeOK, CallTypes, CallInv, CallOK
    <3> QED BY <2>2, <3>2, Isolated DEF IInv
  <2>4. CASE \E d \in Clients \ {c} : cfg[d].map = cfg[c].map
    BY <2>2, <2>4, Isolated DEF IInv
  <2> QED BY <2>1, <2>3, <2>4
<1>2. ThrownOnlyIfShared'
  BY <1>1 DEF ThrownOnlyIfShared, clientVars, Alone
<1>3. TypeOK'
  BY DEF IInv, TypeOK, ClientTypes, CallTypes, clientVars, mapVars, callVars
<1>4. ConfigInv' /\ DialInv' /\ MapInv' /\ SpellInv'
  BY ClientFrame DEF IInv
<1>5. CallInv'
  BY CallFrame
<1>6. CountedOnce'
  BY DEF IInv, CountedOnce, callVars
<1> QED BY <1>2, <1>3, <1>4, <1>5, <1>6 DEF IInv

LEMMA StepInv == IInv /\ [Next]_vars => IInv'
<1> SUFFICES ASSUME IInv, [Next]_vars PROVE IInv'
  OBVIOUS
<1>1. ASSUME NEW c \in Clients,
             \/ Begin(c) \/ Apply(c) \/ AddHeader(c) \/ DialOptions(c)
             \/ EndWrite(c) \/ NewClient(c) \/ Close(c)
      PROVE  IInv'
  BY <1>1, BeginInv, ApplyInv, AddHeaderInv, DialOptionsInv, EndWriteInv,
     NewClientInv, CloseInv
<1>2. ASSUME NEW k \in Calls,
             \/ Issue(k) \/ Refuse(k) \/ Validate(k)
             \/ \E key \in Keys : ReadHeader(k, key)
             \/ Invoke(k) \/ Reply(k) \/ Fails(k) \/ Count(k)
      PROVE  IInv'
  BY <1>2, IssueInv, RefuseInv, ValidateInv, ReadHeaderInv, InvokeInv,
     ReplyInv, FailsInv, CountInv
<1>3. CASE Throw
  BY <1>3, ThrowInv
<1>4. CASE UNCHANGED vars
  <2>1. UNCHANGED <<clientVars, callVars, thrown>>
    BY <1>4 DEF vars
  <2>2. TypeOK'
    BY <2>1 DEF IInv, TypeOK, ClientTypes, CallTypes, clientVars, mapVars,
                callVars
  <2>3. ConfigInv' /\ DialInv' /\ MapInv' /\ SpellInv'
    BY <2>1, ClientFrame DEF IInv
  <2>4. CallInv'
    BY <2>1, CallFrame
  <2>5. ThrownOnlyIfShared' /\ CountedOnce'
    BY <2>1 DEF IInv, ThrownOnlyIfShared, CountedOnce, Alone, clientVars,
                callVars
  <2> QED BY <2>2, <2>3, <2>4, <2>5 DEF IInv
<1> QED BY <1>1, <1>2, <1>3, <1>4 DEF Next

\* The invariant the theorems below rest on, for every step of clients, of
\* calls and of the runtime.
THEOREM Invariant == SafeSpec => []IInv
BY InitInv, StepInv, PTL DEF SafeSpec

\* Every variable of New and of a call keeps to its set of values.
THEOREM TypeCorrect == SafeSpec => []TypeOK
<1>1. IInv => TypeOK
  BY DEF IInv
<1> QED BY <1>1, Invariant, PTL

\* A request has the id its caller has in ctx, or the one the program gave
\* this client, unless it gave the same map to another: a map that New makes
\* has one client, and no other client's write is in it or is read half done.
\* It has another id beside that only if the program spells x-client-id in two
\* ways, whatever the order in which metadata.New goes over the map.
THEOREM OwnIdTheorem == SafeSpec => []OwnClientId
<1>1. ASSUME IInv
      PROVE  OwnClientId
  <2> SUFFICES ASSUME NEW k \in Calls, Sent(k)
               PROVE  OwnClientId!(k)!2
    BY DEF OwnClientId
  <2>1. CallOK(k) /\ via[k] \in Clients /\ Made(via[k])
    BY <1>1 DEF IInv, CallInv, CallOK, TypeOK, CallTypes, Sent, IsReady, Made
  <2>2. cfg[via[k]].id = Asked(options[via[k]], "id")
    BY <1>1, <2>1 DEF IInv, ConfigInv, Asked, Simple, NoConfig
  <2>3. ClientId \notin FromContext(k) => HasId(k)
    BY <2>1 DEF CallOK
  <2> QED BY <2>1, <2>2, <2>3 DEF CallOK, HasId, OwnId
<1> QED BY <1>1, Invariant, PTL

\* Writes of one map never overlap, nor does a read overlap a write, unless
\* the program made several clients from it.
THEOREM ThrowTheorem == SafeSpec => []ThrownOnlyIfShared
<1>1. IInv => ThrownOnlyIfShared
  BY DEF IInv
<1> QED BY <1>1, Invariant, PTL

\* A call is counted exactly once, or not at all if the validator refused it.
THEOREM CountTheorem == SafeSpec => []CountedOnce
<1>1. IInv => CountedOnce
  BY DEF IInv
<1> QED BY <1>1, Invariant, PTL

\* Whatever the options and their order, a connection goes where the last of
\* them says, without TLS only if they say so, with the delays they give.
THEOREM DialTheorem == SafeSpec => []DialAsAsked
<1>1. ASSUME IInv
      PROVE  DialAsAsked
  <2> SUFFICES ASSUME NEW c \in Clients, dial[c] # <<>>
               PROVE  DialAsAsked!(c)!2
    BY DEF DialAsAsked
  <2> DEFINE asks == [field \in DOMAIN NoConfig |-> Asked(options[c], field)]
  <2>1. /\ Made(c) /\ applied[c] = Len(options[c])
        /\ dial[c] = [url         |-> URL(cfg[c]),
                      credentials |-> Credentials(cfg[c]),
                      params      |-> ConnectParams(cfg[c].delays)]
    BY <1>1 DEF IInv, DialInv, ConfigInv
  <2>2. /\ asks.tls = cfg[c].tls /\ asks.insecure = cfg[c].insecure
        /\ asks.url = cfg[c].url /\ asks.delays = cfg[c].delays
        /\ asks.tls \in BOOLEAN /\ asks.insecure \in BOOLEAN
    <3>1. \A f \in Simple : f \in DOMAIN NoConfig /\ asks[f] = cfg[c][f]
      BY <1>1, <2>1 DEF IInv, ConfigInv, Asked, Simple
    <3>2. {"url", "insecure", "tls", "delays"} \subseteq Simple
      BY DEF Simple, NoConfig
    <3>3. cfg[c].tls \in BOOLEAN /\ cfg[c].insecure \in BOOLEAN
      BY <1>1 DEF IInv, TypeOK, ClientTypes, ConfigsOver
    <3> HIDE DEF asks
    <3> QED BY <3>1, <3>2, <3>3
  <2> HIDE DEF asks
  <2>3. ASSUME NEW d \in DOMAIN NoDelays
        PROVE  \/ dial[c].params[d] = asks.delays[d]
               \/ asks.delays[d] = 0 /\ dial[c].params[d] # 0
    <3>1. dial[c].params[d] = IF asks.delays[d] # 0 THEN asks.delays[d]
                              ELSE DefaultDelays[d]
      BY <2>1, <2>2 DEF ConnectParams, NoDelays, DefaultDelays
    <3>2. DefaultDelays[d] # 0
      BY DEF NoDelays, DefaultDelays
    <3> QED BY <3>1, <3>2
  <2>4. dial[c].credentials = "none" <=>
          ~asks.tls /\ (asks.insecure \/ asks.url = "")
    <3>1. dial[c].credentials = Credentials(cfg[c])
      BY <2>1
    <3> QED BY <2>2, <3>1 DEF Credentials, Insecure
  <2>5. asks.url # "" => dial[c].url = asks.url
    <3>1. dial[c].url = URL(cfg[c])
      BY <2>1
    <3> QED BY <2>2, <3>1 DEF URL
  <2> QED BY <2>3, <2>4, <2>5 DEF asks
<1> QED BY <1>1, Invariant, PTL
=============================================================================
