-------------------------- MODULE HotClientsProofs --------------------------
(***************************************************************************)
(* Proofs about HotClients, for any users, kinds, delay, number of configs *)
(* and bound on the clock: when a client that is in use may be closed, and *)
(* when a timer may end the process.                                       *)
(***************************************************************************)
EXTENDS HotClients, TLAPS

-----------------------------------------------------------------------------
(* Types                                                                   *)

LEMMA InitType == Init => TypeOK
<1> SUFFICES ASSUME Init PROVE TypeOK
  OBVIOUS
<1>1. /\ kind \in Kinds /\ cfg \in 0 .. Updates /\ now \in 0 .. MaxTime
      /\ armedAt \in [Configs -> Nat] /\ inForceAt \in [Configs -> Nat]
      /\ holds \in [Users -> 0 .. Updates] /\ since \in [Users -> Nat]
  BY HotAssumption DEF Init
<1>2. /\ dialed \in [Configs -> SUBSET Nodes]
      /\ timers \in [Configs -> SUBSET {"client", "batch"}]
      /\ closed \subseteq Configs \X Nodes
  BY DEF Init
<1>3. ~updating /\ updating \in BOOLEAN /\ panicked \in BOOLEAN
  BY Zenon DEF Init
<1>4. QED
  BY <1>1, <1>2, <1>3 DEF TypeOK

LEMMA StepType == TypeOK /\ [Next]_vars => TypeOK'
<1> SUFFICES ASSUME TypeOK, [Next]_vars PROVE TypeOK'
  OBVIOUS
<1> USE HotAssumption DEF TypeOK, updateVars, timerVars, userVars
<1>1. CASE BeginUpdate
  <2>1. updating' \in BOOLEAN
    BY <1>1, Zenon DEF BeginUpdate
  <2>2. TimersFor(cfg) \in SUBSET {"client", "batch"}
    BY DEF TimersFor
  <2>3. /\ timers' \in [Configs -> SUBSET {"client", "batch"}]
        /\ armedAt' \in [Configs -> Nat]
    BY <1>1, <2>2 DEF BeginUpdate
  <2>4. cfg' = cfg /\ cfg < Updates
    BY <1>1 DEF BeginUpdate
  <2>5. QED
    BY <1>1, <2>1, <2>3, <2>4 DEF BeginUpdate
<1>2. CASE EndUpdate
  <2>1. ~updating' /\ updating' \in BOOLEAN
    BY <1>2, Zenon DEF EndUpdate
  <2>2. \A nodes \in Outcomes : nodes \in SUBSET Nodes
    BY DEF Outcomes, Nodes
  <2>3. PICK nodes \in Outcomes : dialed' = [dialed EXCEPT ![cfg + 1] = nodes]
    BY <1>2, Zenon DEF EndUpdate
  <2>4. /\ updating /\ cfg' = cfg + 1
        /\ inForceAt' = [inForceAt EXCEPT ![cfg + 1] = now]
    BY <1>2, Zenon DEF EndUpdate
  <2>5. cfg' \in 0 .. Updates /\ now \in Nat
    BY <2>4
  <2>6. inForceAt' \in [Configs -> Nat] /\ dialed' \in [Configs -> SUBSET Nodes]
    BY <2>2, <2>3, <2>4, <2>5
  <2>7. UNCHANGED <<kind, armedAt, closed, panicked, userVars, now>>
    BY <1>2 DEF EndUpdate
  <2>8. timers' \in [Configs -> SUBSET {"client", "batch"}]
    BY <1>2 DEF EndUpdate, TimersAfterDial
  <2>9. QED
    BY <2>1, <2>5, <2>6, <2>7, <2>8
<1>3. ASSUME NEW c \in Configs, NEW t \in {"client", "batch"}, TimerFires(c, t)
      PROVE  TypeOK'
  <2>1. Close(c) \subseteq Configs \X Nodes
    BY DEF Close, Conns
  <2>2. panicked' \in BOOLEAN
    BY <1>3, Zenon DEF TimerFires
  <2>3. QED
    BY <1>3, <2>1, <2>2 DEF TimerFires
<1>4. ASSUME NEW u \in Users, Take(u) \/ Leave(u) PROVE TypeOK'
  BY <1>4 DEF Take, Leave
<1>5. CASE Tick
  BY <1>5 DEF Tick
<1>6. CASE UNCHANGED vars
  BY <1>6 DEF vars
<1>7. QED
  BY <1>1, <1>2, <1>3, <1>4, <1>5, <1>6 DEF Next, Fire

-----------------------------------------------------------------------------
(* Timers                                                                  *)

\* The timers of a config are armed once, when the update that replaces it
\* begins and when that update is over; from the first of them on the config
\* stays replaced and the time that has passed only grows.
LEMMA StepTimer == TypeOK /\ TimerInv /\ [Next]_vars => TimerInv'
<1> SUFFICES ASSUME TypeOK, TimerInv, [Next]_vars PROVE TimerInv'
  OBVIOUS
<1> USE HotAssumption DEF TimerInv, ArmedInv, Replaced, updateVars, timerVars
<1>0. /\ cfg \in Nat /\ updating \in BOOLEAN /\ now \in Nat
      /\ armedAt \in [Configs -> Nat] /\ inForceAt \in [Configs -> Nat]
      /\ dialed \in [Configs -> SUBSET Nodes]
      /\ timers \in [Configs -> SUBSET {"client", "batch"}]
      /\ Configs = 1 .. Updates /\ cfg <= Updates
      /\ updating => cfg < Updates
  BY DEF TypeOK, Configs
<1>1. CASE BeginUpdate
  <2>1. /\ ~updating /\ updating' = TRUE
        /\ UNCHANGED <<kind, cfg, dialed, inForceAt, closed, now>>
    BY <1>1 DEF BeginUpdate
  <2>2. CASE cfg = 0
    BY <1>0, <1>1, <2>1, <2>2 DEF BeginUpdate
  <2>3. CASE cfg # 0
    <3>1. /\ timers'  = [timers EXCEPT ![cfg] = TimersFor(cfg)]
          /\ armedAt' = [armedAt EXCEPT ![cfg] = now]
      BY <1>1, <2>3 DEF BeginUpdate
    <3>2. ASSUME NEW c \in Configs
          PROVE  /\ timers'[c] = IF c = cfg THEN TimersFor(c) ELSE timers[c]
                 /\ armedAt'[c] = IF c = cfg THEN now ELSE armedAt[c]
      BY <1>0, <3>1
    <3>3. ASSUME NEW c \in Configs, NEW n \in Nodes, <<c, n>> \in closed
          PROVE  c < cfg /\ armedAt'[c] = armedAt[c]
      BY <1>0, <2>1, <3>2, <3>3
    <3>4. /\ "batch" \notin TimersFor(cfg)
          /\ "client" \in TimersFor(cfg) /\ dialed[cfg] = {} => kind = "grpc"
      BY DEF TimersFor
    <3>5. \A c \in Configs : \A n \in Nodes :
            <<c, n>> \in closed' => Replaced(c)' /\ (now - armedAt[c] >= CloseDelay)'
      BY <1>0, <2>1, <3>3
    <3>6. ASSUME NEW c \in Configs PROVE ArmedInv(c)'
      <4>1. CASE c = cfg
        BY <1>0, <2>1, <3>2, <3>4, <4>1
      <4>2. CASE c # cfg
        <5>1. timers'[c] = timers[c] /\ armedAt'[c] = armedAt[c] /\ ArmedInv(c)
          BY <3>2, <4>2
        <5>2. QED
          BY <1>0, <2>1, <4>2, <5>1
      <4>3. QED
        BY <4>1, <4>2
    <3>7. QED
      BY <3>5, <3>6
  <2>4. QED
    BY <2>2, <2>3
<1>2. CASE EndUpdate
  <2>1. /\ updating /\ ~updating' /\ cfg' = cfg + 1
        /\ UNCHANGED <<kind, armedAt, closed, now>>
    BY <1>2 DEF EndUpdate
  <2>2. \A c \in Configs : c # cfg + 1 => dialed'[c] = dialed[c]
    BY <1>0, <1>2 DEF EndUpdate
  <2>3. ASSUME NEW c \in Configs
        PROVE  inForceAt'[c] = IF c = cfg + 1 THEN now ELSE inForceAt[c]
    BY <1>0, <1>2 DEF EndUpdate
  <2>4. ASSUME NEW c \in Configs
        PROVE  /\ "client" \in timers'[c] => "client" \in timers[c]
               /\ "batch" \in timers'[c] =>
                    "batch" \in timers[c] \/ (c = cfg /\ kind = "batchable")
    BY <1>0, <1>2 DEF EndUpdate, TimersAfterDial
  <2>5. ASSUME NEW c \in Configs, c < cfg + 1
        PROVE  c + 1 \in Configs /\ armedAt[c] <= inForceAt'[c + 1]
    BY <1>0, <2>1, <2>3, <2>5
  <2>6. \A c \in Configs : \A n \in Nodes :
          <<c, n>> \in closed' => Replaced(c)' /\ (now - armedAt[c] >= CloseDelay)'
    BY <1>0, <2>1
  <2>7. ASSUME NEW c \in Configs PROVE ArmedInv(c)'
    <3>1. ArmedInv(c) /\ armedAt[c] \in Nat
      BY <1>0
    <3>2. CASE c < cfg + 1
      <4>1. /\ armedAt'[c] <= inForceAt'[c + 1] /\ armedAt'[c] <= now'
            /\ Replaced(c) /\ Replaced(c)' /\ c < cfg' /\ ~(c > cfg')
        BY <1>0, <2>1, <2>5, <3>1, <3>2
      <4>2. "client" \in timers'[c] => (dialed'[c] = {} => kind' = "grpc")
        <5>1. c # cfg + 1
          BY <1>0, <3>2
        <5>2. dialed'[c] = dialed[c] /\ kind' = kind
          BY <2>1, <2>2, <5>1
        <5>3. "client" \in timers'[c] => "client" \in timers[c]
          BY <2>4
        <5>4. QED
          BY <3>1, <5>2, <5>3
      <4>3. "batch" \in timers'[c] => kind' = "batchable"
        BY <2>1, <2>4, <3>1
      <4>4. QED
        BY <4>1, <4>2, <4>3
    <3>3. CASE c >= cfg + 1
      BY <1>0, <2>1, <2>2, <2>4, <3>1, <3>3
    <3>4. QED
      BY <1>0, <3>2, <3>3
  <2>8. QED
    BY <2>6, <2>7
<1>3. ASSUME NEW c \in Configs, NEW t \in {"client", "batch"}, TimerFires(c, t)
      PROVE  TimerInv'
  <2>1. /\ t \in timers[c] /\ timers' = [timers EXCEPT ![c] = @ \ {t}]
        /\ closed' = closed \cup ({c} \X dialed[c])
        /\ Due(c, t)
        /\ UNCHANGED <<kind, cfg, updating, dialed, armedAt, inForceAt, now>>
    BY <1>3 DEF TimerFires, Close, Conns
  <2>2. \A d \in Configs : timers'[d] \subseteq timers[d]
    BY <1>0, <2>1
  <2>3. \A d \in Configs : \A n \in Nodes :
          <<d, n>> \in closed' => d = c \/ <<d, n>> \in closed
    BY <2>1
  <2>4. Replaced(c) /\ now - armedAt[c] >= CloseDelay
    <3>1. CASE t = "client"
      BY <1>0, <2>1, <3>1 DEF Due
    <3>2. CASE t = "batch"
      <4>1. c < cfg /\ c + 1 \in Configs /\ armedAt[c] <= inForceAt[c + 1]
        BY <1>0, <2>1, <3>2
      <4>2. QED
        BY <1>0, <2>1, <3>2, <4>1 DEF Due
    <3>3. QED
      BY <3>1, <3>2
  <2>5. QED
    BY <1>0, <2>1, <2>2, <2>3, <2>4
<1>4. CASE Tick
  <2>1. now' = now + 1 /\ UNCHANGED <<kind, updateVars, timerVars>>
    BY <1>4 DEF Tick
  <2>2. \A c \in Configs : \A n \in Nodes :
          <<c, n>> \in closed' => Replaced(c)' /\ (now - armedAt[c] >= CloseDelay)'
    BY <1>0, <2>1
  <2>3. ASSUME NEW c \in Configs PROVE ArmedInv(c)'
    <3>1. ArmedInv(c) /\ armedAt[c] \in Nat
      BY <1>0
    <3>2. QED
      BY <1>0, <2>1, <3>1
  <2>4. QED
    BY <2>2, <2>3
<1>5. ASSUME UNCHANGED <<kind, updateVars, timerVars, now>> PROVE TimerInv'
  BY <1>5
<1>6. QED
  BY <1>1, <1>2, <1>3, <1>4, <1>5 DEF Next, Fire, Take, Leave, vars

LEMMA StepPanic ==
  TypeOK /\ TimerInv /\ PanicOnlyAfterFailedUpdate /\ [Next]_vars
    => PanicOnlyAfterFailedUpdate'
<1> SUFFICES ASSUME TypeOK, TimerInv, PanicOnlyAfterFailedUpdate, [Next]_vars
             PROVE  PanicOnlyAfterFailedUpdate'
  OBVIOUS
<1> USE DEF PanicOnlyAfterFailedUpdate
<1>1. ASSUME NEW c \in Configs, NEW t \in {"client", "batch"}, TimerFires(c, t)
      PROVE  PanicOnlyAfterFailedUpdate'
  <2>1. /\ t \in timers[c] /\ panicked' = (dialed[c] = {}) /\ Due(c, t)
        /\ UNCHANGED <<kind, cfg, updating, dialed, armedAt, inForceAt, now>>
    BY <1>1 DEF TimerFires, updateVars
  <2>2. c \in 1 .. cfg
    BY <2>1 DEF TimerInv, ArmedInv, Replaced, Configs, TypeOK
  <2>3. CASE t = "client"
    BY <2>1, <2>2, <2>3 DEF TimerInv, ArmedInv, Due
  <2>4. CASE t = "batch"
    BY <2>1, <2>2, <2>4 DEF TimerInv, ArmedInv, Due
  <2>5. QED
    BY <2>3, <2>4
<1>2. ASSUME ~panicked, UNCHANGED panicked PROVE PanicOnlyAfterFailedUpdate'
  BY <1>2
<1>3. CASE UNCHANGED vars
  BY <1>3 DEF vars, updateVars, timerVars
<1>4. QED
  BY <1>1, <1>2, <1>3
  DEF Next, Fire, BeginUpdate, EndUpdate, Take, Leave, Tick, timerVars

-----------------------------------------------------------------------------
(* Users                                                                   *)

LEMMA StepUser == TypeOK /\ UserInv /\ [Next]_vars => UserInv'
<1> SUFFICES ASSUME TypeOK, UserInv, [Next]_vars PROVE UserInv'
  OBVIOUS
<1> USE DEF UserInv, updateVars, userVars
<1>0. /\ cfg \in 0 .. Updates /\ now \in Nat
      /\ inForceAt \in [Configs -> Nat]
      /\ holds \in [Users -> 0 .. Updates] /\ since \in [Users -> Nat]
  BY DEF TypeOK
<1>1. CASE EndUpdate
  <2>1. /\ cfg' = cfg + 1 /\ inForceAt' = [inForceAt EXCEPT ![cfg + 1] = now]
        /\ UNCHANGED <<holds, since, now>>
    BY <1>1 DEF EndUpdate
  <2>2. ASSUME NEW u \in Users, holds[u] # 0, holds[u] < cfg + 1
        PROVE  since[u] <= inForceAt'[holds[u] + 1]
    <3>1. holds[u] + 1 \in Configs
      BY <1>0, <1>1, <2>2, HotAssumption DEF Configs, TypeOK, EndUpdate
    <3>2. QED
      BY <1>0, <2>1, <2>2, <3>1
  <2>3. QED
    BY <1>0, <2>1, <2>2
<1>2. ASSUME NEW u \in Users, Take(u) PROVE UserInv'
  BY <1>0, <1>2 DEF Take
<1>3. ASSUME NEW u \in Users, Leave(u) PROVE UserInv'
  BY <1>0, <1>3 DEF Leave
<1>4. CASE Tick
  BY <1>0, <1>4 DEF Tick
<1>5. ASSUME UNCHANGED <<cfg, inForceAt, userVars, now>> PROVE UserInv'
  BY <1>5
<1>6. QED
  BY <1>1, <1>2, <1>3, <1>4, <1>5
  DEF Next, BeginUpdate, Fire, TimerFires, timerVars, vars

-----------------------------------------------------------------------------
(* Theorems                                                                *)

\* The invariant on timers, users and panics (OnUpdate of the configs).
THEOREM InductiveInvariant == SafeSpec => []IInv
<1>1. Init => IInv
  <2> SUFFICES ASSUME Init PROVE IInv
    OBVIOUS
  <2>1. TimerInv
    <3>1. /\ closed = {} /\ ~updating /\ cfg = 0
          /\ \A c \in Configs : timers[c] = {} /\ dialed[c] = {} /\ ~(c <= 0)
      BY HotAssumption DEF Init, Configs
    <3>2. \A c \in Configs : c \in Nat
      BY HotAssumption DEF Configs
    <3>3. QED
      BY <3>1, <3>2 DEF TimerInv, ArmedInv, Replaced
  <2>2. ASSUME NEW u \in Users PROVE holds[u] = 0 /\ since[u] = 0
    BY DEF Init
  <2>3. cfg = 0 /\ now = 0
    BY DEF Init
  <2>4. UserInv
    <3>1. ASSUME NEW u \in Users
          PROVE  /\ holds[u] <= cfg /\ since[u] <= now
                 /\ holds[u] # 0 /\ holds[u] < cfg
                      => since[u] <= inForceAt[holds[u] + 1]
      <4>1. holds[u] = 0 /\ since[u] = 0
        BY <2>2
      <4>2. holds[u] <= cfg
        BY <4>1, <2>3
      <4>3. since[u] <= now
        BY <4>1, <2>3
      <4>4. QED
        BY <4>1, <4>2, <4>3
    <3>2. QED
      BY <3>1 DEF UserInv
  <2>5. PanicOnlyAfterFailedUpdate
    BY DEF Init, PanicOnlyAfterFailedUpdate
  <2>6. QED
    BY InitType, <2>1, <2>4, <2>5 DEF IInv
<1>2. IInv /\ [Next]_vars => IInv'
  BY StepType, StepTimer, StepPanic, StepUser DEF IInv
<1>3. QED
  BY <1>1, <1>2, PTL DEF SafeSpec

\* The client of the config in force is closed under a slow update only.
THEOREM ClientInForce == SafeSpec => []InForceStaysOpen
<1>1. IInv => InForceStaysOpen
  <2> SUFFICES ASSUME IInv, cfg # 0, NEW p \in Conns(cfg), p \in closed
               PROVE  updating /\ now - armedAt[cfg] >= CloseDelay
    BY DEF InForceStaysOpen
  <2>1. /\ cfg \in Configs
        /\ \E n \in Nodes : p = <<cfg, n>>
    BY DEF IInv, TypeOK, Configs, Conns
  <2>2. Replaced(cfg) /\ now - armedAt[cfg] >= CloseDelay
    BY <2>1 DEF IInv, TimerInv
  <2>3. QED
    BY <2>2 DEF Replaced, IInv, TypeOK
<1>2. QED
  BY <1>1, InductiveInvariant, PTL

\* A user keeps an open client for CloseDelay, less the time the update took.
THEOREM UserTime == SafeSpec => []UsersUndisturbed
<1>1. IInv => UsersUndisturbed
  <2> SUFFICES ASSUME IInv, NEW u \in Users, holds[u] # 0,
                      NEW p \in Conns(holds[u]), p \in closed
               PROVE  (now - since[u]) + UpdateTook(holds[u]) >= CloseDelay
    BY DEF UsersUndisturbed
  <2> DEFINE c == holds[u]
  <2>0. /\ cfg \in 0 .. Updates /\ now \in Nat /\ c \in 0 .. Updates
        /\ since[u] \in Nat /\ armedAt \in [Configs -> Nat]
        /\ inForceAt \in [Configs -> Nat]
        /\ dialed \in [Configs -> SUBSET Nodes]
    BY DEF IInv, TypeOK
  <2>1. c \in Configs
    BY <2>0, HotAssumption DEF Configs
  <2>2. \E n \in Nodes : p = <<c, n>>
    BY <2>0, <2>1 DEF Conns
  <2>3. now - armedAt[c] >= CloseDelay
    BY <2>1, <2>2 DEF IInv, TimerInv
  <2>4. since[u] <= now /\ c <= cfg
    BY DEF IInv, UserInv
  <2>5. CASE cfg > c
    <3>1. since[u] <= inForceAt[c + 1]
      BY <2>0, <2>5 DEF IInv, UserInv
    <3>2. c + 1 \in Configs
      BY <2>0, <2>1, <2>5, HotAssumption DEF Configs
    <3>3. QED
      BY <2>0, <2>1, <2>3, <2>5, <3>1, <3>2, HotAssumption DEF UpdateTook
  <2>6. CASE ~(cfg > c)
    BY <2>0, <2>1, <2>3, <2>4, <2>6, HotAssumption DEF UpdateTook
  <2>7. QED
    BY <2>5, <2>6
<1>2. QED
  BY <1>1, InductiveInvariant, PTL

\* A timer ends the process only for the two kinds of config that do not
\* test what they close, and only after a failed update and the next one.
THEOREM PanicCause == SafeSpec => []PanicOnlyAfterFailedUpdate
<1>1. IInv => PanicOnlyAfterFailedUpdate
  BY DEF IInv
<1>2. QED
  BY <1>1, InductiveInvariant, PTL
=============================================================================
