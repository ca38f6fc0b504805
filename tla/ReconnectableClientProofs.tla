---------------------- MODULE ReconnectableClientProofs ---------------------
(***************************************************************************)
(* Proofs about ReconnectableClient, for any set of callers, any cooldown  *)
(* and any bound on the clock: the inductive invariant IInv, the safety    *)
(* properties the runs check, and that the wrapper implements the safety   *)
(* part of ClientHandle.                                                   *)
(*                                                                         *)
(* Each conjunct of IInv has a lemma of its own, which says which of the   *)
(* other conjuncts its preservation rests on.                              *)
(***************************************************************************)
EXTENDS ReconnectableClient, TLAPS

-----------------------------------------------------------------------------
(* Types and mutual exclusion                                              *)

LEMMA InitType == Init => TypeOK
<1> SUFFICES ASSUME Init PROVE TypeOK
  OBVIOUS
<1>1. pc \in [Callers -> Points]
  BY DEF Init, Points, Section, Replacing, Permitted
<1>2. /\ using \in [Callers -> Nat] /\ oldClient \in [Callers -> Nat]
      /\ client \in [Callers -> Nat]
  BY DEF Init
<1>3. /\ current \in Nat /\ created \in Nat /\ closing \subseteq Nat
      /\ closed \subseteq Nat /\ refreshInProgress \in BOOLEAN
      /\ serverUp \in BOOLEAN /\ owner \in {"holding", "closing", "gone"}
      /\ owned \in Nat
  BY DEF Init
<1>4. lastRefreshTime \in Int /\ now \in 0 .. MaxTime /\ swappedAt \in Int
  BY ClientAssumption DEF Init, ZeroTime
<1>5. QED
  BY <1>1, <1>2, <1>3, <1>4 DEF TypeOK

LEMMA StepType == TypeOK /\ [Next]_vars => TypeOK'
<1> SUFFICES ASSUME TypeOK, [Next]_vars PROVE TypeOK'
  OBVIOUS
<1> USE DEF TypeOK, Points, Section, Replacing, Permitted, Goto, callVars,
            clientVars, guardVars, ownerVars
<1>1. ASSUME NEW g \in Callers, Issue(g) PROVE TypeOK'
  BY <1>1 DEF Issue
<1>2. ASSUME NEW g \in Callers, Dial(g) \/ Completed(g) PROVE TypeOK'
  <2>1. CASE Dial(g)
    BY <2>1 DEF Dial
  <2>2. CASE Completed(g)
    BY <2>2 DEF Completed
  <2>3. QED
    BY <1>2, <2>1, <2>2
<1>3. ASSUME NEW g \in Callers, Refused(g) PROVE TypeOK'
  BY <1>3 DEF Refused
<1>4. ASSUME NEW g \in Callers, LoadInProgress(g) PROVE TypeOK'
  BY <1>4 DEF LoadInProgress, Return
<1>5. ASSUME NEW g \in Callers, CompareAndSwap(g) PROVE TypeOK'
  <2>1. CASE refreshInProgress
    BY <1>5, <2>1 DEF CompareAndSwap, Return
  <2>2. CASE ~refreshInProgress
    BY <1>5, <2>2 DEF CompareAndSwap
  <2>3. QED
    BY <2>1, <2>2
<1>6. ASSUME NEW g \in Callers, CanRefreshClient(g) PROVE TypeOK'
  BY <1>6 DEF CanRefreshClient
<1>7. ASSUME NEW g \in Callers, MakeClient(g) PROVE TypeOK'
  BY <1>7 DEF MakeClient
<1>8. ASSUME NEW g \in Callers, Install(g) PROVE TypeOK'
  BY <1>8 DEF Install
<1>9. ASSUME NEW g \in Callers, SpawnCloser(g) PROVE TypeOK'
  BY <1>9 DEF SpawnCloser
<1>10. ASSUME NEW g \in Callers, StampRefresh(g) PROVE TypeOK'
  BY <1>10 DEF StampRefresh
<1>11. ASSUME NEW g \in Callers, ReleaseRefresh(g) PROVE TypeOK'
  BY <1>11 DEF ReleaseRefresh, Return
<1>12. ASSUME NEW c \in Clients, CloseOld(c) PROVE TypeOK'
  BY <1>12 DEF CloseOld, Clients
<1>13. CASE OwnerReadsClient
  BY <1>13 DEF OwnerReadsClient
<1>14. CASE OwnerCloses
  BY <1>14 DEF OwnerCloses
<1>15. CASE ServerCrashesOrRestarts
  BY <1>15 DEF ServerCrashesOrRestarts
<1>16. CASE Tick
  BY <1>16, ClientAssumption DEF Tick
<1>17. CASE UNCHANGED vars
  BY <1>17 DEF vars
<1>18. QED
  BY <1>1, <1>2, <1>3, <1>4, <1>5, <1>6, <1>7, <1>8, <1>9, <1>10, <1>11,
     <1>12, <1>13, <1>14, <1>15, <1>16, <1>17
  DEF Next, AttemptRefreshClient

LEMMA StepExclusive ==
  TypeOK /\ RefreshExclusive /\ [Next]_vars => RefreshExclusive'
<1> SUFFICES ASSUME TypeOK, RefreshExclusive, [Next]_vars
             PROVE  RefreshExclusive'
  OBVIOUS
<1> USE DEF RefreshExclusive, InSection, Section, Replacing, Permitted, Goto
<1>1. pc \in [Callers -> Points]
  BY DEF TypeOK
<1>2. ASSUME NEW g \in Callers,
             Issue(g) \/ Dial(g) \/ Completed(g) \/ Refused(g)
      PROVE  RefreshExclusive'
  BY <1>1, <1>2 DEF Issue, Dial, Completed, Refused, guardVars
<1>3. ASSUME NEW g \in Callers, LoadInProgress(g)
      PROVE  RefreshExclusive'
  BY <1>1, <1>3 DEF LoadInProgress, Return, guardVars
\* The winner of the race finds nobody in the section, because the flag was
\* clear; the loser leaves everything as it was.
<1>4. ASSUME NEW g \in Callers, CompareAndSwap(g)
      PROVE  RefreshExclusive'
  <2>1. CASE refreshInProgress
    BY <1>1, <1>4, <2>1 DEF CompareAndSwap, Return
  <2>2. CASE ~refreshInProgress
    <3>1. \A h \in Callers : ~InSection(h)
      BY <2>2
    <3>2. refreshInProgress' /\ pc' = [pc EXCEPT ![g] = "check"]
      BY <1>4, <2>2 DEF CompareAndSwap
    <3>3. QED
      BY <1>1, <3>1, <3>2
  <2>3. QED
    BY <2>1, <2>2
<1>5. ASSUME NEW g \in Callers,
             \/ CanRefreshClient(g) \/ MakeClient(g) \/ Install(g)
             \/ SpawnCloser(g) \/ StampRefresh(g)
      PROVE  RefreshExclusive'
  <2>1. /\ pc[g] \in Section
        /\ \E p \in Section : pc' = [pc EXCEPT ![g] = p]
        /\ refreshInProgress' = refreshInProgress
    BY <1>5 DEF CanRefreshClient, MakeClient, Install, SpawnCloser,
                StampRefresh, guardVars
  <2>2. QED
    BY <1>1, <2>1
<1>6. ASSUME NEW g \in Callers, ReleaseRefresh(g)
      PROVE  RefreshExclusive'
  BY <1>1, <1>6 DEF ReleaseRefresh, Return
<1>7. ASSUME UNCHANGED <<pc, refreshInProgress>>
      PROVE  RefreshExclusive'
  BY <1>7
<1>8. QED
  BY <1>2, <1>3, <1>4, <1>5, <1>6, <1>7
  DEF Next, AttemptRefreshClient, CloseOld, OwnerReadsClient, OwnerCloses,
      ServerCrashesOrRestarts, Tick, vars, callVars, guardVars

-----------------------------------------------------------------------------
(* The caller in the section                                               *)

\* Outside the section nothing MakerInv speaks about changes, except that
\* time moves the cooldown closer to its end.
LEMMA StepMaker ==
  TypeOK /\ RefreshExclusive /\ NumberInv /\ MakerInv /\ [Next]_vars
    => MakerInv'
<1> SUFFICES ASSUME TypeOK, RefreshExclusive, NumberInv, MakerInv, [Next]_vars
             PROVE  MakerInv'
  OBVIOUS
<1> USE DEF MakerInv, CooldownOver, Permitted, Goto, clientVars, guardVars
<1>1. /\ pc \in [Callers -> Points]
      /\ oldClient \in [Callers -> Nat] /\ client \in [Callers -> Nat]
      /\ current \in Nat /\ created \in Nat
      /\ now \in Int /\ lastRefreshTime \in Int
  BY ClientAssumption DEF TypeOK
<1>2. ASSUME NEW g \in Callers,
             Issue(g) \/ Dial(g) \/ Completed(g) \/ Refused(g)
      PROVE  MakerInv'
  BY <1>1, <1>2 DEF Issue, Dial, Completed, Refused
<1>3. ASSUME NEW g \in Callers,
             LoadInProgress(g) \/ CompareAndSwap(g) \/ ReleaseRefresh(g)
      PROVE  MakerInv'
  <2>1. /\ pc[g] # "install"
        /\ \A h \in Callers \ {g} : /\ pc'[h] = pc[h]
                                   /\ oldClient'[h] = oldClient[h]
                                   /\ client'[h] = client[h]
        /\ pc'[g] \in {"idle", "cas", "check"}
        /\ UNCHANGED <<current, created, now, lastRefreshTime>>
    BY <1>1, <1>3 DEF LoadInProgress, CompareAndSwap, ReleaseRefresh, Return
  <2>2. QED
    BY <1>1, <2>1
<1>4. ASSUME NEW g \in Callers, CanRefreshClient(g)
      PROVE  MakerInv'
  BY <1>1, <1>4 DEF CanRefreshClient
\* Nobody else is in the section, so every client made so far is installed
\* and the new one is numbered current + 1.
<1>5. ASSUME NEW g \in Callers, MakeClient(g)
      PROVE  MakerInv'
  <2>1. \A h \in Callers \ {g} : pc[h] \notin Section
    BY <1>5 DEF MakeClient, RefreshExclusive, InSection, Section, Replacing
  <2>2. created = current
    BY <1>5, <2>1 DEF MakeClient, Section, Replacing
  <2>3. QED
    BY <1>1, <1>5, <2>1, <2>2 DEF MakeClient, Section, Replacing
<1>6. ASSUME NEW g \in Callers, Install(g)
      PROVE  MakerInv'
  <2>1. \A h \in Callers \ {g} : pc[h] \notin Section
    BY <1>6 DEF Install, RefreshExclusive, InSection, Section, Replacing
  <2>2. /\ current' = current + 1 /\ created' = current'
        /\ oldClient'[g] = current /\ current >= 1
    BY <1>6 DEF Install, NumberInv
  <2>3. QED
    BY <1>1, <1>6, <2>1, <2>2 DEF Install, Section, Replacing
<1>7. ASSUME NEW g \in Callers, SpawnCloser(g)
      PROVE  MakerInv'
  BY <1>1, <1>7 DEF SpawnCloser
<1>8. ASSUME NEW g \in Callers, StampRefresh(g)
      PROVE  MakerInv'
  <2>1. \A h \in Callers \ {g} : pc[h] \notin Section
    BY <1>8 DEF StampRefresh, RefreshExclusive, InSection, Section, Replacing
  <2>2. QED
    BY <1>1, <1>8, <2>1 DEF StampRefresh, Section, Replacing
<1>9. CASE Tick
  BY <1>1, <1>9, ClientAssumption DEF Tick, callVars
<1>10. ASSUME UNCHANGED <<pc, oldClient, client, current, created, now,
                          lastRefreshTime>>
       PROVE  MakerInv'
  BY <1>10
<1>11. QED
  BY <1>2, <1>3, <1>4, <1>5, <1>6, <1>7, <1>8, <1>9, <1>10
  DEF Next, AttemptRefreshClient, CloseOld, OwnerReadsClient, OwnerCloses,
      ServerCrashesOrRestarts, vars, callVars

LEMMA StepStamp ==
  TypeOK /\ StampInv /\ [Next]_vars => StampInv'
<1> SUFFICES ASSUME TypeOK, StampInv, [Next]_vars
             PROVE  StampInv'
  OBVIOUS
<1> USE DEF StampInv, Goto
<1>1. /\ pc \in [Callers -> Points]
      /\ now \in Int /\ lastRefreshTime \in Int /\ swappedAt \in Int
  BY ClientAssumption DEF TypeOK
<1>2. ASSUME NEW g \in Callers,
             \/ Issue(g) \/ Dial(g) \/ Completed(g) \/ Refused(g)
             \/ LoadInProgress(g) \/ CompareAndSwap(g) \/ CanRefreshClient(g)
             \/ MakeClient(g) \/ ReleaseRefresh(g)
      PROVE  StampInv'
  <2>1. /\ pc[g] \notin {"spawn", "stamp"}
        /\ \A h \in Callers \ {g} : pc'[h] = pc[h]
        /\ UNCHANGED <<now, lastRefreshTime, swappedAt>>
    BY <1>1, <1>2
    DEF Issue, Dial, Completed, Refused, LoadInProgress, CompareAndSwap, Return,
        CanRefreshClient, MakeClient, ReleaseRefresh, clientVars, guardVars
  <2>2. QED
    BY <1>1, <2>1
<1>3. ASSUME NEW g \in Callers, Install(g)
      PROVE  StampInv'
  BY <1>1, <1>3 DEF Install, guardVars
<1>4. ASSUME NEW g \in Callers, SpawnCloser(g)
      PROVE  StampInv'
  BY <1>1, <1>4 DEF SpawnCloser, guardVars
<1>5. ASSUME NEW g \in Callers, StampRefresh(g)
      PROVE  StampInv'
  BY <1>1, <1>5 DEF StampRefresh, clientVars
<1>6. CASE Tick
  BY <1>1, <1>6 DEF Tick, callVars, clientVars, guardVars
<1>7. ASSUME UNCHANGED <<pc, now, lastRefreshTime, swappedAt>>
      PROVE  StampInv'
  BY <1>7
<1>8. QED
  BY <1>2, <1>3, <1>4, <1>5, <1>6, <1>7
  DEF Next, AttemptRefreshClient, CloseOld, OwnerReadsClient, OwnerCloses,
      ServerCrashesOrRestarts, vars, callVars, clientVars, guardVars

-----------------------------------------------------------------------------
(* The clients                                                             *)

LEMMA StepNumber ==
  TypeOK /\ MakerInv /\ NumberInv /\ [Next]_vars => NumberInv'
<1> SUFFICES ASSUME TypeOK, MakerInv, NumberInv, [Next]_vars
             PROVE  NumberInv'
  OBVIOUS
<1> USE DEF NumberInv, Goto, clientVars, ownerVars
<1>1. current \in Nat /\ owned \in Nat
  BY DEF TypeOK
<1>2. ASSUME NEW g \in Callers, Install(g)
      PROVE  NumberInv'
  <2>1. current' = current + 1
    BY <1>2 DEF Install, MakerInv
  <2>2. QED
    BY <1>1, <1>2, <2>1 DEF Install
<1>3. ASSUME NEW g \in Callers, SpawnCloser(g)
      PROVE  NumberInv'
  <2>1. oldClient[g] \in 1 .. (current - 1)
    BY <1>3 DEF SpawnCloser, MakerInv
  <2>2. QED
    BY <1>1, <1>3, <2>1 DEF SpawnCloser
<1>4. ASSUME NEW c \in Clients, CloseOld(c)
      PROVE  NumberInv'
  BY <1>1, <1>4 DEF CloseOld
<1>5. CASE OwnerReadsClient
  BY <1>1, <1>5 DEF OwnerReadsClient
<1>6. CASE OwnerCloses
  BY <1>1, <1>6 DEF OwnerCloses
<1>7. ASSUME UNCHANGED <<current, closing, closed, owner, owned>>
      PROVE  NumberInv'
  BY <1>7
<1>8. QED
  BY <1>2, <1>3, <1>4, <1>5, <1>6, <1>7
  DEF Next, AttemptRefreshClient, Issue, Dial, Completed, Refused,
      LoadInProgress,
      CompareAndSwap, CanRefreshClient, MakeClient, StampRefresh,
      ReleaseRefresh, ServerCrashesOrRestarts, Tick, vars

\* Responsibility for a client passes from the maker's local variable to the
\* wrapper at Install, back to a local variable for the client replaced, and
\* on to the closer at SpawnCloser.
LEMMA StepLost ==
  /\ TypeOK /\ RefreshExclusive /\ MakerInv /\ NoClientLost
  /\ [Next]_vars
  => NoClientLost'
<1> SUFFICES ASSUME TypeOK, RefreshExclusive, MakerInv, NoClientLost,
                    [Next]_vars
             PROVE  NoClientLost'
  OBVIOUS
<1> USE DEF NoClientLost, Goto, clientVars
<1>1. /\ pc \in [Callers -> Points]
      /\ oldClient \in [Callers -> Nat] /\ client \in [Callers -> Nat]
      /\ current \in Nat /\ created \in Nat
  BY DEF TypeOK
<1>2. ASSUME NEW g \in Callers,
             \/ Issue(g) \/ Dial(g) \/ Completed(g) \/ Refused(g)
             \/ LoadInProgress(g) \/ CompareAndSwap(g) \/ CanRefreshClient(g)
             \/ StampRefresh(g) \/ ReleaseRefresh(g)
      PROVE  NoClientLost'
  <2>1. /\ pc[g] \notin {"install", "spawn"}
        /\ \A h \in Callers \ {g} : /\ pc'[h] = pc[h]
                                   /\ oldClient'[h] = oldClient[h]
                                   /\ client'[h] = client[h]
        /\ UNCHANGED <<current, created, closing, closed>>
    BY <1>1, <1>2
    DEF Issue, Dial, Completed, Refused, LoadInProgress, CompareAndSwap, Return,
        CanRefreshClient, StampRefresh, ReleaseRefresh
  <2>2. QED
    BY <1>1, <2>1
<1>3. ASSUME NEW g \in Callers, MakeClient(g)
      PROVE  NoClientLost'
  BY <1>1, <1>3 DEF MakeClient
<1>4. ASSUME NEW g \in Callers, Install(g)
      PROVE  NoClientLost'
  <2>1. \A h \in Callers \ {g} : pc[h] \notin {"install", "spawn"}
    BY <1>4 DEF Install, RefreshExclusive, InSection, Section, Replacing,
                Permitted
  <2>2. /\ current' = client[g] /\ oldClient[g] = current
        /\ pc'[g] = "spawn"
    BY <1>1, <1>4 DEF Install, MakerInv
  <2>3. QED
    BY <1>1, <1>4, <2>1, <2>2 DEF Install
<1>5. ASSUME NEW g \in Callers, SpawnCloser(g)
      PROVE  NoClientLost'
  <2>1. \A h \in Callers \ {g} : pc[h] \notin {"install", "spawn"}
    BY <1>5 DEF SpawnCloser, RefreshExclusive, InSection, Section, Replacing,
                Permitted
  <2>2. QED
    BY <1>1, <1>5, <2>1 DEF SpawnCloser
<1>6. ASSUME NEW c \in Clients, CloseOld(c)
      PROVE  NoClientLost'
  BY <1>6 DEF CloseOld, callVars
<1>7. CASE OwnerCloses
  BY <1>7 DEF OwnerCloses, callVars
<1>8. ASSUME UNCHANGED <<callVars, current, created, closing, closed>>
      PROVE  NoClientLost'
  BY <1>8 DEF callVars
<1>9. QED
  BY <1>2, <1>3, <1>4, <1>5, <1>6, <1>7, <1>8
  DEF Next, AttemptRefreshClient, OwnerReadsClient, ServerCrashesOrRestarts,
      Tick, vars

LEMMA StepOwner ==
  /\ TypeOK /\ MakerInv /\ NumberInv /\ OnlyOwnerClosesCurrent
  /\ [Next]_vars
  => OnlyOwnerClosesCurrent'
<1> SUFFICES ASSUME TypeOK, MakerInv, NumberInv, OnlyOwnerClosesCurrent,
                    [Next]_vars
             PROVE  OnlyOwnerClosesCurrent'
  OBVIOUS
<1> USE DEF OnlyOwnerClosesCurrent, clientVars, ownerVars
<1>1. current \in Nat
  BY DEF TypeOK
\* The fresh client is numbered above every client that was ever closed.
<1>2. ASSUME NEW g \in Callers, Install(g)
      PROVE  OnlyOwnerClosesCurrent'
  <2>1. current' = current + 1
    BY <1>2 DEF Install, MakerInv
  <2>2. QED
    BY <1>1, <1>2, <2>1 DEF Install, NumberInv
<1>3. ASSUME NEW g \in Callers, SpawnCloser(g)
      PROVE  OnlyOwnerClosesCurrent'
  <2>1. oldClient[g] \in 1 .. (current - 1)
    BY <1>3 DEF SpawnCloser, MakerInv
  <2>2. QED
    BY <1>1, <1>3, <2>1 DEF SpawnCloser
<1>4. ASSUME NEW c \in Clients, CloseOld(c)
      PROVE  OnlyOwnerClosesCurrent'
  BY <1>4 DEF CloseOld
<1>5. CASE OwnerReadsClient
  BY <1>5 DEF OwnerReadsClient
<1>6. CASE OwnerCloses
  BY <1>6 DEF OwnerCloses
<1>7. ASSUME UNCHANGED <<current, closing, closed, owner, owned>>
      PROVE  OnlyOwnerClosesCurrent'
  BY <1>7
<1>8. QED
  BY <1>2, <1>3, <1>4, <1>5, <1>6, <1>7
  DEF Next, AttemptRefreshClient, Issue, Dial, Completed, Refused,
      LoadInProgress,
      CompareAndSwap, CanRefreshClient, MakeClient, StampRefresh,
      ReleaseRefresh, ServerCrashesOrRestarts, Tick, vars

-----------------------------------------------------------------------------
(* The inductive invariant                                                 *)

LEMMA InitIInv == Init => IInv
<1> SUFFICES ASSUME Init PROVE IInv
  OBVIOUS
<1>1. TypeOK
  BY InitType
<1>2. RefreshExclusive
  BY DEF Init, RefreshExclusive, InSection, Section, Replacing, Permitted
<1>3. MakerInv
  BY DEF Init, MakerInv, Permitted
<1>4. StampInv
  BY ClientAssumption DEF Init, StampInv, ZeroTime
<1>5. NumberInv /\ NoClientLost /\ OnlyOwnerClosesCurrent
  BY DEF Init, NumberInv, NoClientLost, OnlyOwnerClosesCurrent
<1>6. QED
  BY <1>1, <1>2, <1>3, <1>4, <1>5 DEF IInv

\* IInv holds in every reachable state: attemptRefreshClient excludes itself,
\* loses no client and closes none in service, in every interleaving.
THEOREM InductiveInvariant == SafeSpec => []IInv
<1>1. Init => IInv
  BY InitIInv
<1>2. IInv /\ [Next]_vars => IInv'
  BY StepType, StepExclusive, StepMaker, StepStamp, StepNumber, StepLost,
     StepOwner
  DEF IInv
<1>3. QED
  BY <1>1, <1>2, PTL DEF SafeSpec

-----------------------------------------------------------------------------
(* The safety properties                                                   *)

\* At most one caller is inside the guarded section of attemptRefreshClient.
THEOREM Exclusion == SafeSpec => []RefreshExclusive
<1>1. IInv => RefreshExclusive
  BY DEF IInv
<1>2. QED
  BY <1>1, InductiveInvariant, PTL

\* No refresh loses the client it replaces with its connections open.
THEOREM NothingLost == SafeSpec => []NoClientLost
<1>1. IInv => NoClientLost
  BY DEF IInv
<1>2. QED
  BY <1>1, InductiveInvariant, PTL

\* No refresh closes the client in service.
THEOREM ServiceStaysOpen == SafeSpec => []OnlyOwnerClosesCurrent
<1>1. IInv => OnlyOwnerClosesCurrent
  BY DEF IInv
<1>2. QED
  BY <1>1, InductiveInvariant, PTL

\* Two swaps are a cooldown apart: the caller about to install has found the
\* cooldown over, and the last swap is no later than lastRefreshTime because
\* nobody else is between Install and StampRefresh.
LEMMA SwapGuard ==
  ASSUME IInv, NEW g \in Callers, Install(g)
  PROVE  now - swappedAt >= Cooldown
<1>1. now - lastRefreshTime >= Cooldown
  BY DEF IInv, MakerInv, Install, Permitted, CooldownOver
<1>2. \A h \in Callers : pc[h] \notin {"spawn", "stamp"}
  BY DEF IInv, RefreshExclusive, InSection, Section, Replacing, Permitted,
         Install
<1>3. swappedAt <= lastRefreshTime
  BY <1>2 DEF IInv, StampInv
<1>4. QED
  BY <1>1, <1>3, ClientAssumption DEF IInv, TypeOK

\* Only Install changes the client in service.
LEMMA OnlyInstallSwaps ==
  ASSUME [Next]_vars, current' # current
  PROVE  \E g \in Callers : Install(g)
  BY DEF Next, AttemptRefreshClient, Issue, Dial, Completed, Refused,
         LoadInProgress, CompareAndSwap, CanRefreshClient, MakeClient,
         SpawnCloser, StampRefresh, ReleaseRefresh, CloseOld,
         OwnerReadsClient, OwnerCloses, ServerCrashesOrRestarts, Tick, vars,
         clientVars

\* The cooldown separates any two swaps, whatever commands fail meanwhile.
THEOREM CooldownRespected == SafeSpec => RefreshSpacing
<1>1. IInv /\ [Next]_vars
        => [current' # current => now - swappedAt >= Cooldown]_vars
  BY SwapGuard, OnlyInstallSwaps
<1>2. QED
  BY <1>1, InductiveInvariant, PTL DEF SafeSpec, RefreshSpacing

-----------------------------------------------------------------------------
(* The wrapper implements ClientHandle                                     *)

LEMMA InitRefines == Init => Handle!Init
  BY DEF Init, Handle!Init, ZeroTime

LEMMA StepRefines == IInv /\ [Next]_vars => [Handle!Next]_(Handle!vars)
<1> SUFFICES ASSUME IInv, [Next]_vars
             PROVE  [Handle!Next]_(Handle!vars)
  OBVIOUS
<1> USE DEF Handle!vars, clientVars, ownerVars
<1>1. /\ current \in Nat /\ current >= 1
      /\ closing \subseteq 1 .. (current - 1) /\ closed \subseteq 1 .. current
  BY DEF IInv, TypeOK, NumberInv
<1>2. ASSUME NEW g \in Callers, Install(g)
      PROVE  Handle!Next
  <2>1. now - swappedAt >= Cooldown
    BY <1>2, SwapGuard
  <2>2. current' = current + 1
    BY <1>2 DEF Install, IInv, MakerInv
  <2>3. (1 .. current') \ closed' = ((1 .. current) \ closed) \cup {current + 1}
    BY <1>1, <1>2, <2>2 DEF Install
  <2>4. Handle!Swap
    BY <1>2, <2>1, <2>2, <2>3 DEF Install, Handle!Swap
  <2>5. QED
    BY <2>4 DEF Handle!Next
\* A closer whose client the owner has closed before it changes nothing.
<1>3. ASSUME NEW c \in Clients, CloseOld(c)
      PROVE  [Handle!Next]_(Handle!vars)
  <2>1. c \in 1 .. (current - 1)
    BY <1>1, <1>3 DEF CloseOld
  <2>2. /\ closed' = closed \cup {c}
        /\ UNCHANGED <<current, swappedAt, owner, now>>
    BY <1>3 DEF CloseOld
  <2>3. CASE c \in closed
    BY <2>2, <2>3
  <2>4. CASE c \notin closed
    <3>1. c \in ((1 .. current) \ closed) \ {current}
      BY <1>1, <2>1, <2>4
    <3>2. (1 .. current') \ closed' = ((1 .. current) \ closed) \ {c}
      BY <2>2
    <3>3. Handle!CloseReplaced(c)
      BY <2>2, <3>1, <3>2 DEF Handle!CloseReplaced
    <3>4. QED
      BY <3>3 DEF Handle!Next, Handle!Clients, Clients
  <2>5. QED
    BY <2>3, <2>4
<1>4. ASSUME OwnerCloses
      PROVE  Handle!Next
  <2>1. owned \in 1 .. current
    BY <1>1, <1>4 DEF OwnerCloses, IInv, NumberInv, TypeOK
  <2>2. (1 .. current') \ closed' = ((1 .. current) \ closed) \ {owned}
    BY <1>4 DEF OwnerCloses
  <2>3. Handle!Retire
    BY <1>4, <2>1, <2>2 DEF OwnerCloses, Handle!Retire
  <2>4. QED
    BY <2>3 DEF Handle!Next
<1>5. CASE OwnerReadsClient
  BY <1>5 DEF OwnerReadsClient
<1>6. CASE Tick
  BY <1>6 DEF Tick, Handle!Next, Handle!Tick
<1>7. ASSUME UNCHANGED <<current, closed, swappedAt, owner, now>>
      PROVE  UNCHANGED Handle!vars
  BY <1>7
<1>8. QED
  BY <1>2, <1>3, <1>4, <1>5, <1>6, <1>7
  DEF Next, AttemptRefreshClient, Issue, Dial, Completed, Refused,
      LoadInProgress,
      CompareAndSwap, CanRefreshClient, MakeClient, SpawnCloser,
      StampRefresh, ReleaseRefresh, ServerCrashesOrRestarts, vars

\* Whatever the interleaving, the wrapper behaves as the handle: refreshes are
\* atomic, a cooldown apart, and only the owner closes the client in service.
THEOREM ImplementsHandle == SafeSpec => HandleSafe
<1>1. Init => Handle!Init
  BY InitRefines
<1>2. IInv /\ [Next]_vars => [Handle!Next]_(Handle!vars)
  BY StepRefines
<1>3. QED
  BY <1>1, <1>2, InductiveInvariant, PTL
  DEF SafeSpec, HandleSafe, Handle!SafeSpec
=============================================================================
