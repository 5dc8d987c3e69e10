------------------------- MODULE FlagService_proofs -------------------------
(***************************************************************************)
(* The flag lifecycle client keeps every scope of an ended game, and every *)
(* live game without a scope, on its way to repair, for any games,         *)
(* coordinators, cap and number of faults; the registry it extends keeps   *)
(* its types, its cap and the holders of its scopes.  The admin settings   *)
(* of the same service agree in memory and on file, and the answers about  *)
(* them stay true, for any flags, values, kill switches and releases.      *)
(***************************************************************************)
EXTENDS FlagLifecycle, AdminSettings, FiniteSetTheorems, TLAPS

-----------------------------------------------------------------------------
(* The registry: type correctness                                          *)

\* RegistryTypeOK survives every operation of the service.
LEMMA RegistryTypeStep ==
  ASSUME RegistryTypeOK, [RegistryNext]_registryVars
  PROVE  RegistryTypeOK'
<1> USE RegistryAssumption DEF RegistryTypeOK, Scopes
<1>1. CASE UNCHANGED registryVars
  BY <1>1 DEF registryVars
<1>2. ASSUME NEW i \in Instance, NEW g \in Game, RegisterGame(i, g)
      PROVE RegistryTypeOK'
  BY <1>2 DEF RegisterGame
<1>3. ASSUME NEW g \in Game, EndGame(g)
      PROVE RegistryTypeOK'
  BY <1>3 DEF EndGame
<1>4. ASSUME NEW g \in Game, GrowOld(g)
      PROVE RegistryTypeOK'
  BY <1>4 DEF GrowOld
<1>5. ASSUME NEW i \in Instance, NEW gs \in SUBSET Game, Reconcile(i, gs)
      PROVE RegistryTypeOK'
  BY <1>5 DEF Reconcile, AfterReconcile
<1>6. CASE ExpireGames
  BY <1>6 DEF ExpireGames
<1>7. CASE Restart
  BY <1>7 DEF Restart
<1> QED BY <1>1, <1>2, <1>3, <1>4, <1>5, <1>6, <1>7 DEF RegistryNext

\* Every reachable registry is well typed; ages belong to registered games.
THEOREM RegistryTypeCorrect == RegistrySpec => []RegistryTypeOK
<1>1. RegistryInit => RegistryTypeOK
  BY RegistryAssumption DEF RegistryInit, RegistryTypeOK, Scopes
<1> QED BY <1>1, RegistryTypeStep, PTL DEF RegistrySpec

-----------------------------------------------------------------------------
(* The registry: the cap                                                   *)

\* Fewer scopes stay within the cap.
LEMMA FewerScopes ==
  ASSUME NEW sc, NEW sd, Scopes(sd) \subseteq Scopes(sc),
         Cardinality(Scopes(sc)) <= MaxGames
  PROVE  Cardinality(Scopes(sd)) <= MaxGames
<1>1. IsFiniteSet(Scopes(sc)) /\ Scopes(sd) \subseteq Scopes(sc)
  BY FS_Subset, RegistryAssumption DEF Scopes
<1>2. IsFiniteSet(Scopes(sd))
  BY <1>1, FS_Subset
<1>3. Cardinality(Scopes(sd)) <= Cardinality(Scopes(sc))
  BY <1>1, FS_Subset
<1>4. Cardinality(Scopes(sc)) \in Nat /\ Cardinality(Scopes(sd)) \in Nat
  BY <1>1, <1>2, FS_CardinalityType
<1> QED BY <1>3, <1>4, RegistryAssumption

\* CapKept survives every operation: a registration adds one scope below the
\* cap, a reconcile is counted as it leaves the registry, all else drops.
LEMMA CapStep ==
  ASSUME RegistryTypeOK, CapKept, [RegistryNext]_registryVars
  PROVE  CapKept'
<1> USE DEF CapKept
<1>1. CASE UNCHANGED registryVars
  BY <1>1 DEF registryVars, Scopes
<1>2. ASSUME NEW i \in Instance, NEW g \in Game, RegisterGame(i, g)
      PROVE CapKept'
  <2>1. CASE ~RegisterOk(i, g)
    BY <1>2, <2>1 DEF RegisterGame, Scopes
  <2>2. CASE RegisterOk(i, g) /\ scope[g] # None
    <3>1. Scopes(scope)' = Scopes(scope)
      BY <1>2, <2>2 DEF RegisterGame, RegisterOk, Scopes, RegistryTypeOK
    <3> QED BY <3>1
  <2>3. CASE RegisterOk(i, g) /\ scope[g] = None
    <3>1. Scopes(scope)' = Scopes(scope) \cup {g} /\ g \notin Scopes(scope)
      BY <1>2, <2>3, RegistryAssumption DEF RegisterGame, Scopes, RegistryTypeOK
    <3>2. IsFiniteSet(Scopes(scope))
      BY FS_Subset, RegistryAssumption DEF Scopes
    <3>3. Cardinality(Scopes(scope)') = Cardinality(Scopes(scope)) + 1
      BY <3>1, <3>2, FS_AddElement
    <3>4. Cardinality(Scopes(scope)) < MaxGames
      BY <2>3 DEF RegisterOk
    <3>5. Cardinality(Scopes(scope)) \in Nat
      BY <3>2, FS_CardinalityType
    <3> QED BY <3>3, <3>4, <3>5, RegistryAssumption
  <2> QED BY <2>1, <2>2, <2>3
<1>3. ASSUME NEW g \in Game, EndGame(g)
      PROVE CapKept'
  <2>1. Scopes(scope') \subseteq Scopes(scope)
    BY <1>3 DEF EndGame, Scopes, RegistryTypeOK
  <2> QED BY <2>1, FewerScopes
<1>4. ASSUME NEW g \in Game, GrowOld(g)
      PROVE CapKept'
  BY <1>4 DEF GrowOld, Scopes
<1>5. ASSUME NEW i \in Instance, NEW gs \in SUBSET Game, Reconcile(i, gs)
      PROVE CapKept'
  <2>1. CASE ReconcileOk(i, gs)
    BY <1>5, <2>1 DEF Reconcile, ReconcileOk
  <2>2. CASE ~ReconcileOk(i, gs)
    BY <1>5, <2>2 DEF Reconcile, Scopes
  <2> QED BY <2>1, <2>2
<1>6. CASE ExpireGames
  <2>1. Scopes(scope') \subseteq Scopes(scope)
    BY <1>6 DEF ExpireGames, Scopes, RegistryTypeOK
  <2> QED BY <2>1, FewerScopes
<1>7. CASE Restart
  <2>1. Scopes(scope') \subseteq Scopes(scope)
    BY <1>7 DEF Restart, Scopes, RegistryTypeOK
  <2> QED BY <2>1, FewerScopes
<1> QED BY <1>1, <1>2, <1>3, <1>4, <1>5, <1>6, <1>7 DEF RegistryNext

\* The registry never holds more scopes than the cap.
THEOREM RegistryCap == RegistrySpec => []CapKept
<1>1. RegistryInit => CapKept
  <2> SUFFICES ASSUME RegistryInit PROVE CapKept
    OBVIOUS
  <2>1. Scopes(scope) = {}
    BY DEF RegistryInit, Scopes
  <2> QED BY <2>1, FS_EmptySet, RegistryAssumption DEF CapKept
<1> QED BY <1>1, CapStep, RegistryTypeCorrect, PTL DEF RegistrySpec

-----------------------------------------------------------------------------
(* The registry: holders                                                   *)

\* No step takes a scope over from another instance.
THEOREM HoldersStay == RegistrySpec => NeverRehomed
<1> DEFINE Stay == \A g \in Game : scope[g] # None /\ scope'[g] # None => scope'[g] = scope[g]
<1>1. ASSUME RegistryTypeOK, [RegistryNext]_registryVars
      PROVE [Stay]_registryVars
  <2>1. ASSUME NEW i \in Instance, NEW g \in Game, RegisterGame(i, g)
        PROVE Stay
    BY <1>1, <2>1 DEF RegisterGame, RegisterOk, RegistryTypeOK
  <2>2. ASSUME NEW i \in Instance, NEW gs \in SUBSET Game, Reconcile(i, gs)
        PROVE Stay
    BY <1>1, <2>2 DEF Reconcile, ReconcileOk, AfterReconcile, RegistryTypeOK
  <2>3. ASSUME NEW g \in Game, EndGame(g) \/ GrowOld(g)
        PROVE Stay
    BY <1>1, <2>3 DEF EndGame, GrowOld, RegistryTypeOK
  <2>4. CASE ExpireGames \/ Restart
    BY <1>1, <2>4 DEF ExpireGames, Restart, RegistryTypeOK
  <2> QED BY <1>1, <2>1, <2>2, <2>3, <2>4 DEF RegistryNext
<1> QED BY <1>1, RegistryTypeCorrect, PTL DEF RegistrySpec, NeverRehomed

-----------------------------------------------------------------------------
(* The client: type correctness                                            *)

\* What taking note of an epoch leaves behind.
LEMMA ObserveType ==
  ASSUME TypeOK, NEW i \in Instance, NEW e \in Nat, ObserveEpoch(i, e)
  PROVE  needs' \in [Instance -> BOOLEAN] /\ seen' \in [Instance -> Nat]
<1>1. CASE e # 0 /\ seen[i] # 0 /\ e # seen[i]
  BY <1>1 DEF TypeOK, ObserveEpoch
<1>2. CASE ~(e # 0 /\ seen[i] # 0 /\ e # seen[i])
  BY <1>2 DEF TypeOK, ObserveEpoch
<1> QED BY <1>1, <1>2

\* What the outcome of a call leaves behind.
LEMMA FinishedType ==
  ASSUME TypeOK, NEW c \in Caller, NEW i \in Instance, Finished(c, i)
  PROVE  /\ needs' \in [Instance -> BOOLEAN] /\ seen' \in [Instance -> Nat]
         /\ call' \in [Caller -> {"none", "sent", "ok", "failed"}]
         /\ answer' \in [Caller -> Nat]
<1>1. answer[c] \in Nat
  BY DEF TypeOK
<1>2. CASE call[c] = "ok"
  <2>1. ObserveEpoch(i, answer[c])
    BY <1>2 DEF Finished
  <2>2. needs' \in [Instance -> BOOLEAN] /\ seen' \in [Instance -> Nat]
    BY <1>1, <2>1, ObserveType
  <2> QED BY <2>2 DEF Finished, TypeOK
<1>3. CASE call[c] # "ok"
  <2>1. needs' \in [Instance -> BOOLEAN] /\ seen' \in [Instance -> Nat]
    BY <1>3 DEF Finished, Failed, TypeOK
  <2> QED BY <2>1 DEF Finished, TypeOK
<1> QED BY <1>2, <1>3

\* What serving a late request leaves behind.
LEMMA ServeLateType ==
  ASSUME TypeOK, NEW r \in late, ServeLate(r)
  PROVE  RegistryTypeOK'
<1> USE RegistryAssumption DEF RegistryTypeOK, Scopes
<1>0. TypeOK /\ r.from \in Instance /\ r.games \subseteq Game
  BY DEF TypeOK, LateRequest
<1>1. CASE \E g \in r.games : RegisterGame(r.from, g)
  BY <1>0, <1>1 DEF TypeOK, RegisterGame
<1>2. CASE Reconcile(r.from, r.games)
  BY <1>0, <1>2 DEF TypeOK, Reconcile, AfterReconcile
<1>3. CASE \E g \in r.games : EndGame(g)
  BY <1>0, <1>3 DEF TypeOK, EndGame
<1> QED BY <1>1, <1>2, <1>3 DEF ServeLate

\* TypeOK survives every step.
LEMMA TypeStep ==
  ASSUME TypeOK, [Next]_vars
  PROVE  TypeOK'
<1> USE LifecycleAssumption, RegistryAssumption DEF TypeOK, RegistryTypeOK,
   Caller, LateRequest, Games, LiveGames, Scopes
<1>1. CASE UNCHANGED vars
  BY <1>1 DEF vars, registryVars, clientVars, callVars
<1>2. ASSUME NEW g \in Game, Admit(g)
      PROVE TypeOK'
  BY <1>2 DEF Admit, registryVars, clientVars, callVars
<1>3. ASSUME NEW g \in Game, Register(g)
      PROVE TypeOK'
  BY <1>3 DEF Register, registryVars, clientVars, callVars
<1>4. ASSUME NEW g \in Game, RegisterTimeout(g)
      PROVE TypeOK'
  BY <1>4 DEF RegisterTimeout, registryVars, clientVars, callVars
<1>5. ASSUME NEW g \in Game, RegisterDone(g)
      PROVE TypeOK'
  <2>1. needs' \in [Instance -> BOOLEAN] /\ seen' \in [Instance -> Nat]
        /\ call' \in [Caller -> {"none", "sent", "ok", "failed"}] /\ answer' \in [Caller -> Nat]
    BY <1>5, FinishedType DEF RegisterDone
  <2> QED BY <1>5, <2>1 DEF RegisterDone, workerElse, registryVars,
     clientVars, callVars
<1>6. ASSUME NEW g \in Game, End(g)
      PROVE TypeOK'
  BY <1>6 DEF End, registryVars, clientVars, callVars
<1>7. ASSUME NEW g \in Game, AbortStart(g)
      PROVE TypeOK'
  BY <1>7 DEF AbortStart, registryVars, clientVars, callVars
<1>8. ASSUME NEW g \in Game, GameOver(g)
      PROVE TypeOK'
  BY <1>8 DEF GameOver, registryVars, clientVars, callVars
<1>9. ASSUME NEW g \in Game, ServeRegister(g)
      PROVE TypeOK'
  BY <1>9 DEF ServeRegister, RegisterGame, RegisterOk, Reply, serviceElse,
     registryVars, clientVars, callVars
<1>10. ASSUME NEW g \in Game, HourPasses(g)
      PROVE TypeOK'
  BY <1>10 DEF HourPasses, GrowOld, Scopes, registryVars, clientVars, callVars
<1>11. ASSUME NEW i \in Instance, ReconcileWanted(i)
      PROVE TypeOK'
  BY <1>11 DEF ReconcileWanted, StartReconcile, workerElse, registryVars,
     clientVars, callVars
<1>12. ASSUME NEW i \in Instance, PeriodOver(i)
      PROVE TypeOK'
  BY <1>12 DEF PeriodOver, StartReconcile, workerElse, registryVars,
     clientVars, callVars
<1>13. ASSUME NEW i \in Instance, ReconcileDone(i)
      PROVE TypeOK'
  <2>1. needs' \in [Instance -> BOOLEAN] /\ seen' \in [Instance -> Nat]
        /\ call' \in [Caller -> {"none", "sent", "ok", "failed"}] /\ answer' \in [Caller -> Nat]
    BY <1>13, FinishedType DEF ReconcileDone
  <2> QED BY <1>13, <2>1 DEF ReconcileDone, workerElse, registryVars,
     clientVars, callVars
<1>14. ASSUME NEW i \in Instance, NoReconcile(i)
      PROVE TypeOK'
  BY <1>14 DEF NoReconcile, workerElse, registryVars, clientVars, callVars
<1>15. ASSUME NEW i \in Instance, RegistrationAwaited(i)
      PROVE TypeOK'
  BY <1>15 DEF RegistrationAwaited, SendEnd, workerElse, registryVars,
     clientVars, callVars
<1>16. ASSUME NEW i \in Instance, EndDone(i)
      PROVE TypeOK'
  <2>1. needs' \in [Instance -> BOOLEAN] /\ seen' \in [Instance -> Nat]
        /\ call' \in [Caller -> {"none", "sent", "ok", "failed"}] /\ answer' \in [Caller -> Nat]
    BY <1>16, FinishedType DEF EndDone
  <2> QED BY <1>16, <2>1 DEF EndDone, workerElse, registryVars, clientVars,
     callVars
<1>17. ASSUME NEW i \in Instance, CheckEpoch(i)
      PROVE TypeOK'
  BY <1>17 DEF CheckEpoch, workerElse, registryVars, clientVars, callVars
<1>18. ASSUME NEW i \in Instance, EpochChecked(i)
      PROVE TypeOK'
  <2>1. needs' \in [Instance -> BOOLEAN] /\ seen' \in [Instance -> Nat]
    <3>1. answer[i] \in Nat
      OBVIOUS
    <3>2. CASE call[i] = "ok"
      BY <1>18, <3>1, <3>2, ObserveType DEF EpochChecked
    <3>3. CASE call[i] # "ok"
      BY <1>18, <3>3 DEF EpochChecked
    <3> QED BY <3>2, <3>3
  <2> QED BY <1>18, <2>1 DEF EpochChecked, workerElse, registryVars,
     clientVars, callVars
<1>19. ASSUME NEW i \in Instance, ServeReconcile(i)
      PROVE TypeOK'
  BY <1>19 DEF ServeReconcile, Reconcile, AfterReconcile, Reply, serviceElse,
     registryVars, clientVars, callVars
<1>20. ASSUME NEW i \in Instance, ServeEnd(i)
      PROVE TypeOK'
  BY <1>20 DEF ServeEnd, EndGame, Reply, serviceElse, registryVars,
     clientVars, callVars
<1>21. ASSUME NEW i \in Instance, ServeHealth(i)
      PROVE TypeOK'
  BY <1>21 DEF ServeHealth, Reply, serviceElse, registryVars, clientVars,
     callVars
<1>22. ASSUME NEW i \in Instance, Crash(i)
      PROVE TypeOK'
  BY <1>22 DEF Crash, Abandoned, registryVars, clientVars, callVars
<1>23. ASSUME NEW i \in Instance, Boot(i)
      PROVE TypeOK'
  BY <1>23 DEF Boot, registryVars, clientVars, callVars
<1>24. ASSUME NEW i \in Instance, NEW g \in Game, TakeEnd(i, g)
      PROVE TypeOK'
  <2>1. call' \in [Caller -> {"none", "sent", "ok", "failed"}]
    BY <1>24 DEF TakeEnd, SendEnd
  <2>2. /\ worker' \in [Instance -> {"off", "top", "reconcile", "get", "await", "end", "epoch"}]
        /\ current' \in [Instance -> Game \cup {None}]
        /\ \A j \in Instance : current'[j] = None <=> worker'[j] \notin {"await", "end"}
    BY <1>24 DEF TakeEnd, SendEnd
  <2>3. session' \in [Game -> {"idle", "live", "ended", "queued", "retired"}]
    BY <1>24 DEF TakeEnd
  <2>4. RegistryTypeOK'
    BY <1>24 DEF TakeEnd, registryVars
  <2> QED BY <1>24, <2>1, <2>2, <2>3, <2>4 DEF TakeEnd
<1>25. ASSUME NEW c \in Caller, GiveUp(c)
      PROVE TypeOK'
  BY <1>25 DEF GiveUp, Abandoned, registryVars, clientVars, callVars
<1>26. ASSUME NEW r \in late, ServeLate(r)
      PROVE TypeOK'
  <2>1. RegistryTypeOK'
    BY <1>26, ServeLateType
  <2>2. r.from \in Instance /\ r.games \subseteq Game
    OBVIOUS
  <2> QED BY <1>26, <2>1, <2>2 DEF ServeLate, clientVars
<1>27. CASE RestartService
  BY <1>27 DEF RestartService, Restart, registryVars, clientVars, callVars
<1>28. CASE Sweep
  BY <1>28 DEF Sweep, ExpireGames, registryVars, clientVars, callVars
<1> QED
  BY <1>1, <1>2, <1>3, <1>4, <1>5, <1>6, <1>7, <1>8, <1>9, <1>10, <1>11,
     <1>12, <1>13, <1>14, <1>15, <1>16, <1>17, <1>18, <1>19, <1>20, <1>21,
     <1>22, <1>23, <1>24, <1>25, <1>26, <1>27, <1>28 DEF Next, GameStep,
     WorkerStep, Serve, Fault

\* Every variable keeps its declared type.
THEOREM LifecycleTypeCorrect == Spec => []TypeOK
<1>1. Init => TypeOK
  BY LifecycleAssumption, RegistryAssumption
  DEF Init, RegistryInit, TypeOK, RegistryTypeOK, Caller, Scopes
<1> QED BY <1>1, TypeStep, PTL DEF Spec


-----------------------------------------------------------------------------
(* Late requests                                                           *)

\* A request that is given up is of games its coordinator admitted, and an end
\* of a retired session.
LEMMA AbandonedOwn ==
  ASSUME TypeOK, OwnGames, ListedGames, NEW cs \in SUBSET Caller,
         NEW r \in Abandoned(cs)
  PROVE  /\ r.games \subseteq Games(r.from)
         /\ \A g \in r.games : session[g] # "idle"
         /\ r.kind = "end" => \A g \in r.games : session[g] = "retired"
<1> USE LifecycleAssumption DEF TypeOK, Caller, Games, OwnGames, ListedGames
<1>1. CASE \E g \in cs \cap Game : /\ call[g] = "sent"
                                  /\ r = [kind |-> "register", from |-> InstanceOf[g],
                                         games |-> {g}, n |-> faults]
  BY <1>1
<1>2. CASE \E i \in cs \cap Instance : /\ worker[i] = "reconcile"
                                      /\ r = [kind |-> "reconcile", from |-> i,
                                             games |-> listed[i], n |-> faults]
  BY <1>2
<1>3. CASE \E i \in cs \cap Instance : /\ worker[i] = "end"
                                      /\ r = [kind |-> "end", from |-> i,
                                             games |-> {current[i]}, n |-> faults]
  BY <1>3
<1> QED BY <1>1, <1>2, <1>3 DEF Abandoned

\* What a late request does to the registry: it can only enter the games it
\* names, or drop what an end names or a reconcile leaves out.
LEMMA LateEffect ==
  ASSUME TypeOK, NEW r \in late, ServeLate(r)
  PROVE  /\ r.from \in Instance /\ r.games \subseteq Game
         /\ epoch' = epoch /\ aged' \subseteq aged
         /\ \A g \in Game : scope'[g] # None /\ scope'[g] # scope[g] =>
              g \in r.games /\ r.kind # "end" /\ scope'[g] = r.from
         /\ \A g \in Game : scope'[g] = None /\ scope[g] # None =>
              \/ r.kind = "end" /\ g \in r.games
              \/ r.kind = "reconcile" /\ g \notin r.games /\ scope[g] = r.from
<1>0. r.from \in Instance /\ r.games \subseteq Game
  BY DEF TypeOK, LateRequest
<1>1. CASE r.kind = "register" /\ \E g \in r.games : RegisterGame(r.from, g)
  BY <1>0, <1>1, RegistryAssumption DEF TypeOK, RegistryTypeOK, RegisterGame
<1>2. CASE r.kind = "reconcile" /\ Reconcile(r.from, r.games)
  BY <1>0, <1>2, RegistryAssumption DEF TypeOK, RegistryTypeOK, Reconcile,
     AfterReconcile
<1>3. CASE r.kind = "end" /\ \E g \in r.games : EndGame(g)
  BY <1>0, <1>3, RegistryAssumption DEF TypeOK, RegistryTypeOK, EndGame
<1> QED BY <1>1, <1>2, <1>3 DEF ServeLate

-----------------------------------------------------------------------------
(* The parts of the invariant                                              *)

\* OwnGames survives every step.
LEMMA OwnGamesStep ==
  ASSUME TypeOK, TypeOK', OwnGames, ListedGames, [Next]_vars
  PROVE  OwnGames'
<1> USE LifecycleAssumption, RegistryAssumption DEF TypeOK, RegistryTypeOK,
   Caller, LateRequest, Games, LiveGames, Scopes, Up, Over, OwnGames,
   ListedGames
<1>1. CASE UNCHANGED vars
  BY <1>1 DEF vars, registryVars, clientVars, callVars
<1>2. ASSUME NEW g \in Game, Admit(g)
      PROVE OwnGames'
  BY <1>2 DEF Admit, registryVars, clientVars, callVars
<1>3. ASSUME NEW g \in Game, Register(g)
      PROVE OwnGames'
  BY <1>3 DEF Register, registryVars, clientVars, callVars
<1>4. ASSUME NEW g \in Game, RegisterTimeout(g)
      PROVE OwnGames'
  BY <1>4 DEF RegisterTimeout, registryVars, clientVars, callVars
<1>5. ASSUME NEW g \in Game, RegisterDone(g)
      PROVE OwnGames'
  BY <1>5 DEF RegisterDone, Finished, ObserveEpoch, Failed, registryVars,
     clientVars, callVars
<1>6. ASSUME NEW g \in Game, End(g)
      PROVE OwnGames'
  BY <1>6 DEF End, registryVars, clientVars, callVars
<1>7. ASSUME NEW g \in Game, AbortStart(g)
      PROVE OwnGames'
  BY <1>7 DEF AbortStart, registryVars, clientVars, callVars
<1>8. ASSUME NEW g \in Game, GameOver(g)
      PROVE OwnGames'
  BY <1>8 DEF GameOver, registryVars, clientVars, callVars
<1>9. ASSUME NEW g \in Game, ServeRegister(g)
      PROVE OwnGames'
  BY <1>9 DEF ServeRegister, RegisterGame, RegisterOk, Reply, serviceElse,
     registryVars, clientVars, callVars
<1>10. ASSUME NEW g \in Game, HourPasses(g)
      PROVE OwnGames'
  BY <1>10 DEF HourPasses, GrowOld, Scopes, registryVars, clientVars, callVars
<1>11. ASSUME NEW i \in Instance, ReconcileWanted(i)
      PROVE OwnGames'
  BY <1>11 DEF ReconcileWanted, StartReconcile, workerElse, registryVars,
     clientVars, callVars
<1>12. ASSUME NEW i \in Instance, PeriodOver(i)
      PROVE OwnGames'
  BY <1>12 DEF PeriodOver, StartReconcile, workerElse, registryVars,
     clientVars, callVars
<1>13. ASSUME NEW i \in Instance, ReconcileDone(i)
      PROVE OwnGames'
  BY <1>13 DEF ReconcileDone, Finished, ObserveEpoch, Failed, workerElse,
     registryVars, clientVars, callVars
<1>14. ASSUME NEW i \in Instance, NoReconcile(i)
      PROVE OwnGames'
  BY <1>14 DEF NoReconcile, workerElse, registryVars, clientVars, callVars
<1>15. ASSUME NEW i \in Instance, RegistrationAwaited(i)
      PROVE OwnGames'
  BY <1>15 DEF RegistrationAwaited, SendEnd, workerElse, registryVars,
     clientVars, callVars
<1>16. ASSUME NEW i \in Instance, EndDone(i)
      PROVE OwnGames'
  BY <1>16 DEF EndDone, Finished, ObserveEpoch, Failed, workerElse,
     registryVars, clientVars, callVars
<1>17. ASSUME NEW i \in Instance, CheckEpoch(i)
      PROVE OwnGames'
  BY <1>17 DEF CheckEpoch, workerElse, registryVars, clientVars, callVars
<1>18. ASSUME NEW i \in Instance, EpochChecked(i)
      PROVE OwnGames'
  BY <1>18 DEF EpochChecked, ObserveEpoch, workerElse, registryVars,
     clientVars, callVars
<1>19. ASSUME NEW i \in Instance, ServeReconcile(i)
      PROVE OwnGames'
  BY SMTT(20), <1>19 DEF ServeReconcile, Reconcile, AfterReconcile, Reply, serviceElse,
     registryVars, clientVars, callVars
<1>20. ASSUME NEW i \in Instance, ServeEnd(i)
      PROVE OwnGames'
  BY <1>20 DEF ServeEnd, EndGame, Reply, serviceElse, registryVars,
     clientVars, callVars
<1>21. ASSUME NEW i \in Instance, ServeHealth(i)
      PROVE OwnGames'
  BY <1>21 DEF ServeHealth, Reply, serviceElse, registryVars, clientVars,
     callVars
<1>22. ASSUME NEW i \in Instance, Crash(i)
      PROVE OwnGames'
  <2>0. Games(i) \cup {i} \in SUBSET Caller
    OBVIOUS
  <2>1. \A c \in late' : c \in late \/ c \in Abandoned(Games(i) \cup {i})
    BY <1>22 DEF Crash
  <2>2. \A c \in late' : /\ c.games \subseteq Games(c.from)
                         /\ \A g \in c.games : session[g] # "idle"
                         /\ c.kind = "end" => \A g \in c.games : session[g] = "retired"
    <3> SUFFICES ASSUME NEW c \in late'
                 PROVE  /\ c.games \subseteq Games(c.from)
                        /\ \A g \in c.games : session[g] # "idle"
                        /\ c.kind = "end" => \A g \in c.games : session[g] = "retired"
      OBVIOUS
    <3>1. CASE c \in late
      BY <3>1
    <3>2. CASE c \in Abandoned(Games(i) \cup {i})
      BY <2>0, <3>2, AbandonedOwn
    <3> QED BY <2>1, <3>1, <3>2
  <2>3. \A g \in Game : /\ session[g] # "idle" => session'[g] # "idle"
                        /\ session[g] = "retired" => session'[g] = "retired"
    BY <1>22 DEF Crash
  <2>4. \A c \in late' : c.games \subseteq Game
    BY <2>2
  <2>5. \A c \in late' : /\ c.games \subseteq Games(c.from)
                         /\ \A g \in c.games : session'[g] # "idle"
                         /\ c.kind = "end" => \A g \in c.games : session'[g] = "retired"
    BY <2>2, <2>3, <2>4
  <2>6. /\ \A g \in Game : scope'[g] # None => scope'[g] = InstanceOf[g] /\ session'[g] # "idle"
        /\ \A g \in Game : start'[g] # "none" \/ call'[g] # "none" => session'[g] # "idle"
    BY <1>22, <2>3 DEF Crash, registryVars
  <2>7. \A j \in Instance : current'[j] # None =>
          current'[j] \in Games(j) /\ session'[current'[j]] = "retired"
    BY <1>22, <2>3 DEF Crash
  <2> QED BY <2>5, <2>6, <2>7
<1>23. ASSUME NEW i \in Instance, Boot(i)
      PROVE OwnGames'
  BY <1>23 DEF Boot, registryVars, clientVars, callVars
<1>24. ASSUME NEW i \in Instance, NEW g \in Game, TakeEnd(i, g)
      PROVE OwnGames'
  <2>1. CASE call[g] = "none"
    BY <1>24, <2>1 DEF TakeEnd, SendEnd, registryVars, clientVars, callVars
  <2>2. CASE call[g] # "none"
    BY <1>24, <2>2 DEF TakeEnd, registryVars, clientVars, callVars
  <2> QED BY <2>1, <2>2
<1>25. ASSUME NEW c \in Caller, GiveUp(c)
      PROVE OwnGames'
  <2>1. /\ UNCHANGED <<scope, session, start, current>>
        /\ \A g \in Game : call'[g] # "none" => call[g] # "none"
        /\ late' \in {late, late \cup Abandoned({c})}
    BY <1>25 DEF GiveUp, registryVars, clientVars
  <2>2. ASSUME NEW r \in late'
        PROVE  /\ r.games \subseteq Games(r.from)
               /\ \A g \in r.games : session[g] # "idle"
               /\ r.kind = "end" => \A g \in r.games : session[g] = "retired"
    <3>1. CASE r \in late
      BY <3>1
    <3>2. CASE r \in Abandoned({c})
      <4>1. {c} \in SUBSET Caller
        OBVIOUS
      <4> QED BY <3>2, <4>1, AbandonedOwn
    <3> QED BY <2>1, <3>1, <3>2
  <2>3. \A g \in Game : (scope'[g] # None => scope'[g] = InstanceOf[g] /\ session'[g] # "idle")
    BY <2>1
  <2>4. \A g \in Game : start'[g] # "none" \/ call'[g] # "none" => session'[g] # "idle"
    BY <2>1
  <2>5. \A i \in Instance : current'[i] # None =>
          current'[i] \in Games(i) /\ session'[current'[i]] = "retired"
    BY <2>1
  <2> QED BY <2>1, <2>2, <2>3, <2>4, <2>5
<1>26. ASSUME NEW r \in late, ServeLate(r)
      PROVE OwnGames'
  <2>1. /\ r.from \in Instance /\ r.games \subseteq Game
        /\ epoch' = epoch /\ aged' \subseteq aged
        /\ \A g \in Game : scope'[g] # None /\ scope'[g] # scope[g] =>
             g \in r.games /\ r.kind # "end" /\ scope'[g] = r.from
        /\ \A g \in Game : scope'[g] = None /\ scope[g] # None =>
             \/ r.kind = "end" /\ g \in r.games
             \/ r.kind = "reconcile" /\ g \notin r.games /\ scope[g] = r.from
    BY <1>26, LateEffect
  <2>2. /\ UNCHANGED <<clientVars, call, answer, faults>> /\ late' = late \ {r}
        /\ r.kind # "end" => stray' = stray \cup r.games
        /\ r.kind = "end" => stray' = stray
        /\ r.kind = "reconcile" => overtaken' = overtaken \cup (LiveGames(r.from) \ r.games)
        /\ overtaken \subseteq overtaken'
    BY <1>26 DEF ServeLate
  <2> QED BY <2>1, <2>2 DEF clientVars
<1>27. CASE RestartService
  BY <1>27 DEF RestartService, Restart, registryVars, clientVars, callVars
<1>28. CASE Sweep
  BY <1>28 DEF Sweep, ExpireGames, registryVars, clientVars, callVars
<1> QED
  BY <1>1, <1>2, <1>3, <1>4, <1>5, <1>6, <1>7, <1>8, <1>9, <1>10, <1>11,
     <1>12, <1>13, <1>14, <1>15, <1>16, <1>17, <1>18, <1>19, <1>20, <1>21,
     <1>22, <1>23, <1>24, <1>25, <1>26, <1>27, <1>28 DEF Next, GameStep,
     WorkerStep, Serve, Fault

\* OffCoordinator survives every step.
LEMMA OffStep ==
  ASSUME TypeOK, TypeOK', OwnGames, OffCoordinator, [Next]_vars
  PROVE  OffCoordinator'
<1> USE LifecycleAssumption, RegistryAssumption DEF TypeOK, RegistryTypeOK,
   Caller, LateRequest, Games, LiveGames, Scopes, Up, Over, OwnGames,
   OffCoordinator
<1>1. CASE UNCHANGED vars
  BY <1>1 DEF vars, registryVars, clientVars, callVars
<1>2. ASSUME NEW g \in Game, Admit(g)
      PROVE OffCoordinator'
  BY <1>2 DEF Admit, registryVars, clientVars, callVars
<1>3. ASSUME NEW g \in Game, Register(g)
      PROVE OffCoordinator'
  BY <1>3 DEF Register, registryVars, clientVars, callVars
<1>4. ASSUME NEW g \in Game, RegisterTimeout(g)
      PROVE OffCoordinator'
  BY <1>4 DEF RegisterTimeout, registryVars, clientVars, callVars
<1>5. ASSUME NEW g \in Game, RegisterDone(g)
      PROVE OffCoordinator'
  BY <1>5 DEF RegisterDone, Finished, ObserveEpoch, Failed, registryVars,
     clientVars, callVars
<1>6. ASSUME NEW g \in Game, End(g)
      PROVE OffCoordinator'
  BY <1>6 DEF End, registryVars, clientVars, callVars
<1>7. ASSUME NEW g \in Game, AbortStart(g)
      PROVE OffCoordinator'
  BY <1>7 DEF AbortStart, registryVars, clientVars, callVars
<1>8. ASSUME NEW g \in Game, GameOver(g)
      PROVE OffCoordinator'
  BY <1>8 DEF GameOver, registryVars, clientVars, callVars
<1>9. ASSUME NEW g \in Game, ServeRegister(g)
      PROVE OffCoordinator'
  BY <1>9 DEF ServeRegister, RegisterGame, RegisterOk, Reply, serviceElse,
     registryVars, clientVars, callVars
<1>10. ASSUME NEW g \in Game, HourPasses(g)
      PROVE OffCoordinator'
  BY <1>10 DEF HourPasses, GrowOld, Scopes, registryVars, clientVars, callVars
<1>11. ASSUME NEW i \in Instance, ReconcileWanted(i)
      PROVE OffCoordinator'
  BY <1>11 DEF ReconcileWanted, StartReconcile, workerElse, registryVars,
     clientVars, callVars
<1>12. ASSUME NEW i \in Instance, PeriodOver(i)
      PROVE OffCoordinator'
  BY <1>12 DEF PeriodOver, StartReconcile, workerElse, registryVars,
     clientVars, callVars
<1>13. ASSUME NEW i \in Instance, ReconcileDone(i)
      PROVE OffCoordinator'
  BY <1>13 DEF ReconcileDone, Finished, ObserveEpoch, Failed, workerElse,
     registryVars, clientVars, callVars
<1>14. ASSUME NEW i \in Instance, NoReconcile(i)
      PROVE OffCoordinator'
  BY <1>14 DEF NoReconcile, workerElse, registryVars, clientVars, callVars
<1>15. ASSUME NEW i \in Instance, RegistrationAwaited(i)
      PROVE OffCoordinator'
  BY <1>15 DEF RegistrationAwaited, SendEnd, workerElse, registryVars,
     clientVars, callVars
<1>16. ASSUME NEW i \in Instance, EndDone(i)
      PROVE OffCoordinator'
  BY <1>16 DEF EndDone, Finished, ObserveEpoch, Failed, workerElse,
     registryVars, clientVars, callVars
<1>17. ASSUME NEW i \in Instance, CheckEpoch(i)
      PROVE OffCoordinator'
  BY <1>17 DEF CheckEpoch, workerElse, registryVars, clientVars, callVars
<1>18. ASSUME NEW i \in Instance, EpochChecked(i)
      PROVE OffCoordinator'
  BY <1>18 DEF EpochChecked, ObserveEpoch, workerElse, registryVars,
     clientVars, callVars
<1>19. ASSUME NEW i \in Instance, ServeReconcile(i)
      PROVE OffCoordinator'
  BY <1>19 DEF ServeReconcile, Reconcile, AfterReconcile, Reply, serviceElse,
     registryVars, clientVars, callVars
<1>20. ASSUME NEW i \in Instance, ServeEnd(i)
      PROVE OffCoordinator'
  BY <1>20 DEF ServeEnd, EndGame, Reply, serviceElse, registryVars,
     clientVars, callVars
<1>21. ASSUME NEW i \in Instance, ServeHealth(i)
      PROVE OffCoordinator'
  BY <1>21 DEF ServeHealth, Reply, serviceElse, registryVars, clientVars,
     callVars
<1>22. ASSUME NEW i \in Instance, Crash(i)
      PROVE OffCoordinator'
  BY <1>22 DEF Crash, Abandoned, registryVars, clientVars, callVars
<1>23. ASSUME NEW i \in Instance, Boot(i)
      PROVE OffCoordinator'
  BY <1>23 DEF Boot, registryVars, clientVars, callVars
<1>24. ASSUME NEW i \in Instance, NEW g \in Game, TakeEnd(i, g)
      PROVE OffCoordinator'
  <2>1. CASE call[g] = "none"
    BY <1>24, <2>1 DEF TakeEnd, SendEnd, registryVars, clientVars, callVars
  <2>2. CASE call[g] # "none"
    BY <1>24, <2>2 DEF TakeEnd, registryVars, clientVars, callVars
  <2> QED BY <2>1, <2>2
<1>25. ASSUME NEW c \in Caller, GiveUp(c)
      PROVE OffCoordinator'
  BY <1>25 DEF GiveUp, Abandoned, registryVars, clientVars, callVars
<1>26. ASSUME NEW r \in late, ServeLate(r)
      PROVE OffCoordinator'
  <2>1. /\ r.from \in Instance /\ r.games \subseteq Game
        /\ epoch' = epoch /\ aged' \subseteq aged
        /\ \A g \in Game : scope'[g] # None /\ scope'[g] # scope[g] =>
             g \in r.games /\ r.kind # "end" /\ scope'[g] = r.from
        /\ \A g \in Game : scope'[g] = None /\ scope[g] # None =>
             \/ r.kind = "end" /\ g \in r.games
             \/ r.kind = "reconcile" /\ g \notin r.games /\ scope[g] = r.from
    BY <1>26, LateEffect
  <2>2. /\ UNCHANGED <<clientVars, call, answer, faults>> /\ late' = late \ {r}
        /\ r.kind # "end" => stray' = stray \cup r.games
        /\ r.kind = "end" => stray' = stray
        /\ r.kind = "reconcile" => overtaken' = overtaken \cup (LiveGames(r.from) \ r.games)
        /\ overtaken \subseteq overtaken'
    BY <1>26 DEF ServeLate
  <2> QED BY <2>1, <2>2 DEF clientVars
<1>27. CASE RestartService
  BY <1>27 DEF RestartService, Restart, registryVars, clientVars, callVars
<1>28. CASE Sweep
  BY <1>28 DEF Sweep, ExpireGames, registryVars, clientVars, callVars
<1> QED
  BY <1>1, <1>2, <1>3, <1>4, <1>5, <1>6, <1>7, <1>8, <1>9, <1>10, <1>11,
     <1>12, <1>13, <1>14, <1>15, <1>16, <1>17, <1>18, <1>19, <1>20, <1>21,
     <1>22, <1>23, <1>24, <1>25, <1>26, <1>27, <1>28 DEF Next, GameStep,
     WorkerStep, Serve, Fault

\* EpochsKnown survives every step.
LEMMA EpochsStep ==
  ASSUME TypeOK, TypeOK', EpochsKnown, [Next]_vars
  PROVE  EpochsKnown'
<1> USE LifecycleAssumption, RegistryAssumption DEF TypeOK, RegistryTypeOK,
   Caller, LateRequest, Games, LiveGames, Scopes, Up, Over, EpochsKnown
<1>1. CASE UNCHANGED vars
  BY <1>1 DEF vars, registryVars, clientVars, callVars
<1>2. ASSUME NEW g \in Game, Admit(g)
      PROVE EpochsKnown'
  BY <1>2 DEF Admit, registryVars, clientVars, callVars
<1>3. ASSUME NEW g \in Game, Register(g)
      PROVE EpochsKnown'
  BY <1>3 DEF Register, registryVars, clientVars, callVars
<1>4. ASSUME NEW g \in Game, RegisterTimeout(g)
      PROVE EpochsKnown'
  BY <1>4 DEF RegisterTimeout, registryVars, clientVars, callVars
<1>5. ASSUME NEW g \in Game, RegisterDone(g)
      PROVE EpochsKnown'
  BY SMTT(20), <1>5 DEF RegisterDone, Finished, ObserveEpoch, Failed, registryVars,
     clientVars, callVars
<1>6. ASSUME NEW g \in Game, End(g)
      PROVE EpochsKnown'
  BY <1>6 DEF End, registryVars, clientVars, callVars
<1>7. ASSUME NEW g \in Game, AbortStart(g)
      PROVE EpochsKnown'
  BY <1>7 DEF AbortStart, registryVars, clientVars, callVars
<1>8. ASSUME NEW g \in Game, GameOver(g)
      PROVE EpochsKnown'
  BY <1>8 DEF GameOver, registryVars, clientVars, callVars
<1>9. ASSUME NEW g \in Game, ServeRegister(g)
      PROVE EpochsKnown'
  BY <1>9 DEF ServeRegister, RegisterGame, RegisterOk, Reply, serviceElse,
     registryVars, clientVars, callVars
<1>10. ASSUME NEW g \in Game, HourPasses(g)
      PROVE EpochsKnown'
  BY <1>10 DEF HourPasses, GrowOld, Scopes, registryVars, clientVars, callVars
<1>11. ASSUME NEW i \in Instance, ReconcileWanted(i)
      PROVE EpochsKnown'
  BY <1>11 DEF ReconcileWanted, StartReconcile, workerElse, registryVars,
     clientVars, callVars
<1>12. ASSUME NEW i \in Instance, PeriodOver(i)
      PROVE EpochsKnown'
  BY <1>12 DEF PeriodOver, StartReconcile, workerElse, registryVars,
     clientVars, callVars
<1>13. ASSUME NEW i \in Instance, ReconcileDone(i)
      PROVE EpochsKnown'
  BY <1>13 DEF ReconcileDone, Finished, ObserveEpoch, Failed, workerElse,
     registryVars, clientVars, callVars
<1>14. ASSUME NEW i \in Instance, NoReconcile(i)
      PROVE EpochsKnown'
  BY <1>14 DEF NoReconcile, workerElse, registryVars, clientVars, callVars
<1>15. ASSUME NEW i \in Instance, RegistrationAwaited(i)
      PROVE EpochsKnown'
  BY <1>15 DEF RegistrationAwaited, SendEnd, workerElse, registryVars,
     clientVars, callVars
<1>16. ASSUME NEW i \in Instance, EndDone(i)
      PROVE EpochsKnown'
  <2>1. /\ epoch' = epoch /\ worker[i] = "end" /\ worker' = [worker EXCEPT ![i] = "top"]
        /\ answer' = [answer EXCEPT ![i] = 0]
        /\ call' = [call EXCEPT ![i] = "none"]
    BY <1>16 DEF EndDone, Finished, workerElse, registryVars
  <2>2. \/ /\ seen' = [seen EXCEPT ![i] = answer[i]] /\ answer[i] # 0
           /\ \A j \in Instance : needs[j] => needs'[j]
        \/ seen' = seen /\ \A j \in Instance : needs[j] => needs'[j]
    BY <1>16 DEF EndDone, Finished, ObserveEpoch, Failed, workerElse
  <2>a. /\ answer[i] <= epoch /\ \A j \in Instance : seen[j] <= epoch
        /\ seen \in [Instance -> Nat]
    OBVIOUS
  <2>b. \A j \in Instance : seen'[j] = seen[j] \/ seen'[j] = answer[i]
    BY <2>2, <2>a
  <2>3. \A j \in Instance : seen'[j] <= epoch'
    BY SMTT(20), <2>1, <2>a, <2>b
  <2>4. \A x \in Caller : answer'[x] <= epoch'
    BY <2>1
  <2> QED BY <2>1, <2>2, <2>3, <2>4
<1>17. ASSUME NEW i \in Instance, CheckEpoch(i)
      PROVE EpochsKnown'
  BY <1>17 DEF CheckEpoch, workerElse, registryVars, clientVars, callVars
<1>18. ASSUME NEW i \in Instance, EpochChecked(i)
      PROVE EpochsKnown'
  BY <1>18 DEF EpochChecked, ObserveEpoch, workerElse, registryVars,
     clientVars, callVars
<1>19. ASSUME NEW i \in Instance, ServeReconcile(i)
      PROVE EpochsKnown'
  BY <1>19 DEF ServeReconcile, Reconcile, AfterReconcile, Reply, serviceElse,
     registryVars, clientVars, callVars
<1>20. ASSUME NEW i \in Instance, ServeEnd(i)
      PROVE EpochsKnown'
  BY <1>20 DEF ServeEnd, EndGame, Reply, serviceElse, registryVars,
     clientVars, callVars
<1>21. ASSUME NEW i \in Instance, ServeHealth(i)
      PROVE EpochsKnown'
  BY <1>21 DEF ServeHealth, Reply, serviceElse, registryVars, clientVars,
     callVars
<1>22. ASSUME NEW i \in Instance, Crash(i)
      PROVE EpochsKnown'
  BY <1>22 DEF Crash, Abandoned, registryVars, clientVars, callVars
<1>23. ASSUME NEW i \in Instance, Boot(i)
      PROVE EpochsKnown'
  BY <1>23 DEF Boot, registryVars, clientVars, callVars
<1>24. ASSUME NEW i \in Instance, NEW g \in Game, TakeEnd(i, g)
      PROVE EpochsKnown'
  <2>1. CASE call[g] = "none"
    BY SMTT(20), <1>24, <2>1 DEF TakeEnd, SendEnd, registryVars, clientVars, callVars
  <2>2. CASE call[g] # "none"
    BY <1>24, <2>2 DEF TakeEnd, registryVars, clientVars, callVars
  <2> QED BY <2>1, <2>2
<1>25. ASSUME NEW c \in Caller, GiveUp(c)
      PROVE EpochsKnown'
  BY <1>25 DEF GiveUp, Abandoned, registryVars, clientVars, callVars
<1>26. ASSUME NEW r \in late, ServeLate(r)
      PROVE EpochsKnown'
  <2>1. /\ r.from \in Instance /\ r.games \subseteq Game
        /\ epoch' = epoch /\ aged' \subseteq aged
        /\ \A g \in Game : scope'[g] # None /\ scope'[g] # scope[g] =>
             g \in r.games /\ r.kind # "end" /\ scope'[g] = r.from
        /\ \A g \in Game : scope'[g] = None /\ scope[g] # None =>
             \/ r.kind = "end" /\ g \in r.games
             \/ r.kind = "reconcile" /\ g \notin r.games /\ scope[g] = r.from
    BY <1>26, LateEffect
  <2>2. /\ UNCHANGED <<clientVars, call, answer, faults>> /\ late' = late \ {r}
        /\ r.kind # "end" => stray' = stray \cup r.games
        /\ r.kind = "end" => stray' = stray
        /\ r.kind = "reconcile" => overtaken' = overtaken \cup (LiveGames(r.from) \ r.games)
        /\ overtaken \subseteq overtaken'
    BY <1>26 DEF ServeLate
  <2> QED BY <2>1, <2>2 DEF clientVars
<1>27. CASE RestartService
  BY <1>27 DEF RestartService, Restart, registryVars, clientVars, callVars
<1>28. CASE Sweep
  BY <1>28 DEF Sweep, ExpireGames, registryVars, clientVars, callVars
<1> QED
  BY <1>1, <1>2, <1>3, <1>4, <1>5, <1>6, <1>7, <1>8, <1>9, <1>10, <1>11,
     <1>12, <1>13, <1>14, <1>15, <1>16, <1>17, <1>18, <1>19, <1>20, <1>21,
     <1>22, <1>23, <1>24, <1>25, <1>26, <1>27, <1>28 DEF Next, GameStep,
     WorkerStep, Serve, Fault

\* ListedGames survives every step.
LEMMA ListedStep ==
  ASSUME TypeOK, TypeOK', ListedGames, [Next]_vars
  PROVE  ListedGames'
<1> USE LifecycleAssumption, RegistryAssumption DEF TypeOK, RegistryTypeOK,
   Caller, LateRequest, Games, LiveGames, Scopes, Up, Over, ListedGames
<1>1. CASE UNCHANGED vars
  BY <1>1 DEF vars, registryVars, clientVars, callVars
<1>2. ASSUME NEW g \in Game, Admit(g)
      PROVE ListedGames'
  BY <1>2 DEF Admit, registryVars, clientVars, callVars
<1>3. ASSUME NEW g \in Game, Register(g)
      PROVE ListedGames'
  BY <1>3 DEF Register, registryVars, clientVars, callVars
<1>4. ASSUME NEW g \in Game, RegisterTimeout(g)
      PROVE ListedGames'
  BY <1>4 DEF RegisterTimeout, registryVars, clientVars, callVars
<1>5. ASSUME NEW g \in Game, RegisterDone(g)
      PROVE ListedGames'
  BY <1>5 DEF RegisterDone, Finished, ObserveEpoch, Failed, registryVars,
     clientVars, callVars
<1>6. ASSUME NEW g \in Game, End(g)
      PROVE ListedGames'
  BY <1>6 DEF End, registryVars, clientVars, callVars
<1>7. ASSUME NEW g \in Game, AbortStart(g)
      PROVE ListedGames'
  BY <1>7 DEF AbortStart, registryVars, clientVars, callVars
<1>8. ASSUME NEW g \in Game, GameOver(g)
      PROVE ListedGames'
  BY <1>8 DEF GameOver, registryVars, clientVars, callVars
<1>9. ASSUME NEW g \in Game, ServeRegister(g)
      PROVE ListedGames'
  BY <1>9 DEF ServeRegister, RegisterGame, RegisterOk, Reply, serviceElse,
     registryVars, clientVars, callVars
<1>10. ASSUME NEW g \in Game, HourPasses(g)
      PROVE ListedGames'
  BY <1>10 DEF HourPasses, GrowOld, Scopes, registryVars, clientVars, callVars
<1>11. ASSUME NEW i \in Instance, ReconcileWanted(i)
      PROVE ListedGames'
  BY <1>11 DEF ReconcileWanted, StartReconcile, workerElse, registryVars,
     clientVars, callVars
<1>12. ASSUME NEW i \in Instance, PeriodOver(i)
      PROVE ListedGames'
  BY <1>12 DEF PeriodOver, StartReconcile, workerElse, registryVars,
     clientVars, callVars
<1>13. ASSUME NEW i \in Instance, ReconcileDone(i)
      PROVE ListedGames'
  BY <1>13 DEF ReconcileDone, Finished, ObserveEpoch, Failed, workerElse,
     registryVars, clientVars, callVars
<1>14. ASSUME NEW i \in Instance, NoReconcile(i)
      PROVE ListedGames'
  BY <1>14 DEF NoReconcile, workerElse, registryVars, clientVars, callVars
<1>15. ASSUME NEW i \in Instance, RegistrationAwaited(i)
      PROVE ListedGames'
  BY <1>15 DEF RegistrationAwaited, SendEnd, workerElse, registryVars,
     clientVars, callVars
<1>16. ASSUME NEW i \in Instance, EndDone(i)
      PROVE ListedGames'
  BY <1>16 DEF EndDone, Finished, ObserveEpoch, Failed, workerElse,
     registryVars, clientVars, callVars
<1>17. ASSUME NEW i \in Instance, CheckEpoch(i)
      PROVE ListedGames'
  BY <1>17 DEF CheckEpoch, workerElse, registryVars, clientVars, callVars
<1>18. ASSUME NEW i \in Instance, EpochChecked(i)
      PROVE ListedGames'
  BY <1>18 DEF EpochChecked, ObserveEpoch, workerElse, registryVars,
     clientVars, callVars
<1>19. ASSUME NEW i \in Instance, ServeReconcile(i)
      PROVE ListedGames'
  BY <1>19 DEF ServeReconcile, Reconcile, AfterReconcile, Reply, serviceElse,
     registryVars, clientVars, callVars
<1>20. ASSUME NEW i \in Instance, ServeEnd(i)
      PROVE ListedGames'
  BY <1>20 DEF ServeEnd, EndGame, Reply, serviceElse, registryVars,
     clientVars, callVars
<1>21. ASSUME NEW i \in Instance, ServeHealth(i)
      PROVE ListedGames'
  BY <1>21 DEF ServeHealth, Reply, serviceElse, registryVars, clientVars,
     callVars
<1>22. ASSUME NEW i \in Instance, Crash(i)
      PROVE ListedGames'
  BY <1>22 DEF Crash, Abandoned, registryVars, clientVars, callVars
<1>23. ASSUME NEW i \in Instance, Boot(i)
      PROVE ListedGames'
  BY <1>23 DEF Boot, registryVars, clientVars, callVars
<1>24. ASSUME NEW i \in Instance, NEW g \in Game, TakeEnd(i, g)
      PROVE ListedGames'
  <2>1. CASE call[g] = "none"
    BY <1>24, <2>1 DEF TakeEnd, SendEnd, registryVars, clientVars, callVars
  <2>2. CASE call[g] # "none"
    BY <1>24, <2>2 DEF TakeEnd, registryVars, clientVars, callVars
  <2> QED BY <2>1, <2>2
<1>25. ASSUME NEW c \in Caller, GiveUp(c)
      PROVE ListedGames'
  BY <1>25 DEF GiveUp, Abandoned, registryVars, clientVars, callVars
<1>26. ASSUME NEW r \in late, ServeLate(r)
      PROVE ListedGames'
  <2>1. /\ r.from \in Instance /\ r.games \subseteq Game
        /\ epoch' = epoch /\ aged' \subseteq aged
        /\ \A g \in Game : scope'[g] # None /\ scope'[g] # scope[g] =>
             g \in r.games /\ r.kind # "end" /\ scope'[g] = r.from
        /\ \A g \in Game : scope'[g] = None /\ scope[g] # None =>
             \/ r.kind = "end" /\ g \in r.games
             \/ r.kind = "reconcile" /\ g \notin r.games /\ scope[g] = r.from
    BY <1>26, LateEffect
  <2>2. /\ UNCHANGED <<clientVars, call, answer, faults>> /\ late' = late \ {r}
        /\ r.kind # "end" => stray' = stray \cup r.games
        /\ r.kind = "end" => stray' = stray
        /\ r.kind = "reconcile" => overtaken' = overtaken \cup (LiveGames(r.from) \ r.games)
        /\ overtaken \subseteq overtaken'
    BY <1>26 DEF ServeLate
  <2> QED BY <2>1, <2>2 DEF clientVars
<1>27. CASE RestartService
  BY <1>27 DEF RestartService, Restart, registryVars, clientVars, callVars
<1>28. CASE Sweep
  BY <1>28 DEF Sweep, ExpireGames, registryVars, clientVars, callVars
<1> QED
  BY <1>1, <1>2, <1>3, <1>4, <1>5, <1>6, <1>7, <1>8, <1>9, <1>10, <1>11,
     <1>12, <1>13, <1>14, <1>15, <1>16, <1>17, <1>18, <1>19, <1>20, <1>21,
     <1>22, <1>23, <1>24, <1>25, <1>26, <1>27, <1>28 DEF Next, GameStep,
     WorkerStep, Serve, Fault

\* RegistrationFirst survives every step.
LEMMA RegistrationStep ==
  ASSUME TypeOK, TypeOK', OwnGames, RegistrationFirst, [Next]_vars
  PROVE  RegistrationFirst'
<1> USE LifecycleAssumption, RegistryAssumption DEF TypeOK, RegistryTypeOK,
   Caller, LateRequest, Games, LiveGames, Scopes, Up, Over, OwnGames,
   RegistrationFirst
<1>1. CASE UNCHANGED vars
  BY <1>1 DEF vars, registryVars, clientVars, callVars
<1>2. ASSUME NEW g \in Game, Admit(g)
      PROVE RegistrationFirst'
  BY <1>2 DEF Admit, registryVars, clientVars, callVars
<1>3. ASSUME NEW g \in Game, Register(g)
      PROVE RegistrationFirst'
  BY <1>3 DEF Register, registryVars, clientVars, callVars
<1>4. ASSUME NEW g \in Game, RegisterTimeout(g)
      PROVE RegistrationFirst'
  BY <1>4 DEF RegisterTimeout, registryVars, clientVars, callVars
<1>5. ASSUME NEW g \in Game, RegisterDone(g)
      PROVE RegistrationFirst'
  BY <1>5 DEF RegisterDone, Finished, ObserveEpoch, Failed, registryVars,
     clientVars, callVars
<1>6. ASSUME NEW g \in Game, End(g)
      PROVE RegistrationFirst'
  BY <1>6 DEF End, registryVars, clientVars, callVars
<1>7. ASSUME NEW g \in Game, AbortStart(g)
      PROVE RegistrationFirst'
  BY <1>7 DEF AbortStart, registryVars, clientVars, callVars
<1>8. ASSUME NEW g \in Game, GameOver(g)
      PROVE RegistrationFirst'
  BY <1>8 DEF GameOver, registryVars, clientVars, callVars
<1>9. ASSUME NEW g \in Game, ServeRegister(g)
      PROVE RegistrationFirst'
  BY <1>9 DEF ServeRegister, RegisterGame, RegisterOk, Reply, serviceElse,
     registryVars, clientVars, callVars
<1>10. ASSUME NEW g \in Game, HourPasses(g)
      PROVE RegistrationFirst'
  BY <1>10 DEF HourPasses, GrowOld, Scopes, registryVars, clientVars, callVars
<1>11. ASSUME NEW i \in Instance, ReconcileWanted(i)
      PROVE RegistrationFirst'
  BY <1>11 DEF ReconcileWanted, StartReconcile, workerElse, registryVars,
     clientVars, callVars
<1>12. ASSUME NEW i \in Instance, PeriodOver(i)
      PROVE RegistrationFirst'
  BY <1>12 DEF PeriodOver, StartReconcile, workerElse, registryVars,
     clientVars, callVars
<1>13. ASSUME NEW i \in Instance, ReconcileDone(i)
      PROVE RegistrationFirst'
  BY <1>13 DEF ReconcileDone, Finished, ObserveEpoch, Failed, workerElse,
     registryVars, clientVars, callVars
<1>14. ASSUME NEW i \in Instance, NoReconcile(i)
      PROVE RegistrationFirst'
  BY <1>14 DEF NoReconcile, workerElse, registryVars, clientVars, callVars
<1>15. ASSUME NEW i \in Instance, RegistrationAwaited(i)
      PROVE RegistrationFirst'
  BY <1>15 DEF RegistrationAwaited, SendEnd, workerElse, registryVars,
     clientVars, callVars
<1>16. ASSUME NEW i \in Instance, EndDone(i)
      PROVE RegistrationFirst'
  BY <1>16 DEF EndDone, Finished, ObserveEpoch, Failed, workerElse,
     registryVars, clientVars, callVars
<1>17. ASSUME NEW i \in Instance, CheckEpoch(i)
      PROVE RegistrationFirst'
  BY <1>17 DEF CheckEpoch, workerElse, registryVars, clientVars, callVars
<1>18. ASSUME NEW i \in Instance, EpochChecked(i)
      PROVE RegistrationFirst'
  BY <1>18 DEF EpochChecked, ObserveEpoch, workerElse, registryVars,
     clientVars, callVars
<1>19. ASSUME NEW i \in Instance, ServeReconcile(i)
      PROVE RegistrationFirst'
  BY <1>19 DEF ServeReconcile, Reconcile, AfterReconcile, Reply, serviceElse,
     registryVars, clientVars, callVars
<1>20. ASSUME NEW i \in Instance, ServeEnd(i)
      PROVE RegistrationFirst'
  BY <1>20 DEF ServeEnd, EndGame, Reply, serviceElse, registryVars,
     clientVars, callVars
<1>21. ASSUME NEW i \in Instance, ServeHealth(i)
      PROVE RegistrationFirst'
  BY <1>21 DEF ServeHealth, Reply, serviceElse, registryVars, clientVars,
     callVars
<1>22. ASSUME NEW i \in Instance, Crash(i)
      PROVE RegistrationFirst'
  BY <1>22 DEF Crash, Abandoned, registryVars, clientVars, callVars
<1>23. ASSUME NEW i \in Instance, Boot(i)
      PROVE RegistrationFirst'
  BY <1>23 DEF Boot, registryVars, clientVars, callVars
<1>24. ASSUME NEW i \in Instance, NEW g \in Game, TakeEnd(i, g)
      PROVE RegistrationFirst'
  <2>1. CASE call[g] = "none"
    BY <1>24, <2>1 DEF TakeEnd, SendEnd, registryVars, clientVars, callVars
  <2>2. CASE call[g] # "none"
    BY <1>24, <2>2 DEF TakeEnd, registryVars, clientVars, callVars
  <2> QED BY <2>1, <2>2
<1>25. ASSUME NEW c \in Caller, GiveUp(c)
      PROVE RegistrationFirst'
  BY <1>25 DEF GiveUp, Abandoned, registryVars, clientVars, callVars
<1>26. ASSUME NEW r \in late, ServeLate(r)
      PROVE RegistrationFirst'
  <2>1. /\ r.from \in Instance /\ r.games \subseteq Game
        /\ epoch' = epoch /\ aged' \subseteq aged
        /\ \A g \in Game : scope'[g] # None /\ scope'[g] # scope[g] =>
             g \in r.games /\ r.kind # "end" /\ scope'[g] = r.from
        /\ \A g \in Game : scope'[g] = None /\ scope[g] # None =>
             \/ r.kind = "end" /\ g \in r.games
             \/ r.kind = "reconcile" /\ g \notin r.games /\ scope[g] = r.from
    BY <1>26, LateEffect
  <2>2. /\ UNCHANGED <<clientVars, call, answer, faults>> /\ late' = late \ {r}
        /\ r.kind # "end" => stray' = stray \cup r.games
        /\ r.kind = "end" => stray' = stray
        /\ r.kind = "reconcile" => overtaken' = overtaken \cup (LiveGames(r.from) \ r.games)
        /\ overtaken \subseteq overtaken'
    BY <1>26 DEF ServeLate
  <2> QED BY <2>1, <2>2 DEF clientVars
<1>27. CASE RestartService
  BY <1>27 DEF RestartService, Restart, registryVars, clientVars, callVars
<1>28. CASE Sweep
  BY <1>28 DEF Sweep, ExpireGames, registryVars, clientVars, callVars
<1> QED
  BY <1>1, <1>2, <1>3, <1>4, <1>5, <1>6, <1>7, <1>8, <1>9, <1>10, <1>11,
     <1>12, <1>13, <1>14, <1>15, <1>16, <1>17, <1>18, <1>19, <1>20, <1>21,
     <1>22, <1>23, <1>24, <1>25, <1>26, <1>27, <1>28 DEF Next, GameStep,
     WorkerStep, Serve, Fault

\* EndedScopeOwed survives every step.
LEMMA EndedStep ==
  ASSUME TypeOK, TypeOK', OwnGames, ListedGames, RegistrationFirst, EndedScopeOwed, [Next]_vars
  PROVE  EndedScopeOwed'
<1> USE LifecycleAssumption, RegistryAssumption DEF TypeOK, RegistryTypeOK,
   Caller, LateRequest, Games, LiveGames, Scopes, Up, Over, OwnGames,
   ListedGames, RegistrationFirst, EndedScopeOwed
<1>1. CASE UNCHANGED vars
  BY <1>1 DEF vars, registryVars, clientVars, callVars
<1>2. ASSUME NEW g \in Game, Admit(g)
      PROVE EndedScopeOwed'
  BY <1>2 DEF Admit, registryVars, clientVars, callVars
<1>3. ASSUME NEW g \in Game, Register(g)
      PROVE EndedScopeOwed'
  BY <1>3 DEF Register, registryVars, clientVars, callVars
<1>4. ASSUME NEW g \in Game, RegisterTimeout(g)
      PROVE EndedScopeOwed'
  BY <1>4 DEF RegisterTimeout, registryVars, clientVars, callVars
<1>5. ASSUME NEW g \in Game, RegisterDone(g)
      PROVE EndedScopeOwed'
  BY <1>5 DEF RegisterDone, Finished, ObserveEpoch, Failed, registryVars,
     clientVars, callVars
<1>6. ASSUME NEW g \in Game, End(g)
      PROVE EndedScopeOwed'
  BY <1>6 DEF End, registryVars, clientVars, callVars
<1>7. ASSUME NEW g \in Game, AbortStart(g)
      PROVE EndedScopeOwed'
  BY <1>7 DEF AbortStart, registryVars, clientVars, callVars
<1>8. ASSUME NEW g \in Game, GameOver(g)
      PROVE EndedScopeOwed'
  BY <1>8 DEF GameOver, registryVars, clientVars, callVars
<1>9. ASSUME NEW g \in Game, ServeRegister(g)
      PROVE EndedScopeOwed'
  BY <1>9 DEF ServeRegister, RegisterGame, RegisterOk, Reply, serviceElse,
     registryVars, clientVars, callVars
<1>10. ASSUME NEW g \in Game, HourPasses(g)
      PROVE EndedScopeOwed'
  BY <1>10 DEF HourPasses, GrowOld, Scopes, registryVars, clientVars, callVars
<1>11. ASSUME NEW i \in Instance, ReconcileWanted(i)
      PROVE EndedScopeOwed'
  BY <1>11 DEF ReconcileWanted, StartReconcile, workerElse, registryVars,
     clientVars, callVars
<1>12. ASSUME NEW i \in Instance, PeriodOver(i)
      PROVE EndedScopeOwed'
  BY <1>12 DEF PeriodOver, StartReconcile, workerElse, registryVars,
     clientVars, callVars
<1>13. ASSUME NEW i \in Instance, ReconcileDone(i)
      PROVE EndedScopeOwed'
  BY <1>13 DEF ReconcileDone, Finished, ObserveEpoch, Failed, workerElse,
     registryVars, clientVars, callVars
<1>14. ASSUME NEW i \in Instance, NoReconcile(i)
      PROVE EndedScopeOwed'
  BY <1>14 DEF NoReconcile, workerElse, registryVars, clientVars, callVars
<1>15. ASSUME NEW i \in Instance, RegistrationAwaited(i)
      PROVE EndedScopeOwed'
  BY <1>15 DEF RegistrationAwaited, SendEnd, workerElse, registryVars,
     clientVars, callVars
<1>16. ASSUME NEW i \in Instance, EndDone(i)
      PROVE EndedScopeOwed'
  BY <1>16 DEF EndDone, Finished, ObserveEpoch, Failed, workerElse,
     registryVars, clientVars, callVars
<1>17. ASSUME NEW i \in Instance, CheckEpoch(i)
      PROVE EndedScopeOwed'
  BY <1>17 DEF CheckEpoch, workerElse, registryVars, clientVars, callVars
<1>18. ASSUME NEW i \in Instance, EpochChecked(i)
      PROVE EndedScopeOwed'
  BY <1>18 DEF EpochChecked, ObserveEpoch, workerElse, registryVars,
     clientVars, callVars
<1>19. ASSUME NEW i \in Instance, ServeReconcile(i)
      PROVE EndedScopeOwed'
  BY <1>19 DEF ServeReconcile, Reconcile, AfterReconcile, Reply, serviceElse,
     registryVars, clientVars, callVars
<1>20. ASSUME NEW i \in Instance, ServeEnd(i)
      PROVE EndedScopeOwed'
  BY <1>20 DEF ServeEnd, EndGame, Reply, serviceElse, registryVars,
     clientVars, callVars
<1>21. ASSUME NEW i \in Instance, ServeHealth(i)
      PROVE EndedScopeOwed'
  BY <1>21 DEF ServeHealth, Reply, serviceElse, registryVars, clientVars,
     callVars
<1>22. ASSUME NEW i \in Instance, Crash(i)
      PROVE EndedScopeOwed'
  BY <1>22 DEF Crash, Abandoned, registryVars, clientVars, callVars
<1>23. ASSUME NEW i \in Instance, Boot(i)
      PROVE EndedScopeOwed'
  BY <1>23 DEF Boot, registryVars, clientVars, callVars
<1>24. ASSUME NEW i \in Instance, NEW g \in Game, TakeEnd(i, g)
      PROVE EndedScopeOwed'
  <2>1. CASE call[g] = "none"
    BY <1>24, <2>1 DEF TakeEnd, SendEnd, registryVars, clientVars, callVars
  <2>2. CASE call[g] # "none"
    BY <1>24, <2>2 DEF TakeEnd, registryVars, clientVars, callVars
  <2> QED BY <2>1, <2>2
<1>25. ASSUME NEW c \in Caller, GiveUp(c)
      PROVE EndedScopeOwed'
  BY <1>25 DEF GiveUp, Abandoned, registryVars, clientVars, callVars
<1>26. ASSUME NEW r \in late, ServeLate(r)
      PROVE EndedScopeOwed'
  <2>1. /\ r.from \in Instance /\ r.games \subseteq Game
        /\ epoch' = epoch /\ aged' \subseteq aged
        /\ \A g \in Game : scope'[g] # None /\ scope'[g] # scope[g] =>
             g \in r.games /\ r.kind # "end" /\ scope'[g] = r.from
        /\ \A g \in Game : scope'[g] = None /\ scope[g] # None =>
             \/ r.kind = "end" /\ g \in r.games
             \/ r.kind = "reconcile" /\ g \notin r.games /\ scope[g] = r.from
    BY <1>26, LateEffect
  <2>2. /\ UNCHANGED <<clientVars, call, answer, faults>> /\ late' = late \ {r}
        /\ r.kind # "end" => stray' = stray \cup r.games
        /\ r.kind = "end" => stray' = stray
        /\ r.kind = "reconcile" => overtaken' = overtaken \cup (LiveGames(r.from) \ r.games)
        /\ overtaken \subseteq overtaken'
    BY <1>26 DEF ServeLate
  <2> QED BY <2>1, <2>2 DEF clientVars
<1>27. CASE RestartService
  BY <1>27 DEF RestartService, Restart, registryVars, clientVars, callVars
<1>28. CASE Sweep
  BY <1>28 DEF Sweep, ExpireGames, registryVars, clientVars, callVars
<1> QED
  BY <1>1, <1>2, <1>3, <1>4, <1>5, <1>6, <1>7, <1>8, <1>9, <1>10, <1>11,
     <1>12, <1>13, <1>14, <1>15, <1>16, <1>17, <1>18, <1>19, <1>20, <1>21,
     <1>22, <1>23, <1>24, <1>25, <1>26, <1>27, <1>28 DEF Next, GameStep,
     WorkerStep, Serve, Fault

\* LiveScopeOwed survives every step.
LEMMA LiveStep ==
  ASSUME TypeOK, TypeOK', OwnGames, OffCoordinator, EpochsKnown, ListedGames, LiveScopeOwed, [Next]_vars
  PROVE  LiveScopeOwed'
<1> USE LifecycleAssumption, RegistryAssumption DEF TypeOK, RegistryTypeOK,
   Caller, LateRequest, Games, LiveGames, Scopes, Up, Over, OwnGames,
   OffCoordinator, EpochsKnown, ListedGames, LiveScopeOwed
<1>1. CASE UNCHANGED vars
  BY <1>1 DEF vars, registryVars, clientVars, callVars
<1>2. ASSUME NEW g \in Game, Admit(g)
      PROVE LiveScopeOwed'
  BY <1>2 DEF Admit, registryVars, clientVars, callVars
<1>3. ASSUME NEW g \in Game, Register(g)
      PROVE LiveScopeOwed'
  BY <1>3 DEF Register, registryVars, clientVars, callVars
<1>4. ASSUME NEW g \in Game, RegisterTimeout(g)
      PROVE LiveScopeOwed'
  BY <1>4 DEF RegisterTimeout, registryVars, clientVars, callVars
<1>5. ASSUME NEW g \in Game, RegisterDone(g)
      PROVE LiveScopeOwed'
  BY <1>5 DEF RegisterDone, Finished, ObserveEpoch, Failed, registryVars,
     clientVars, callVars
<1>6. ASSUME NEW g \in Game, End(g)
      PROVE LiveScopeOwed'
  BY <1>6 DEF End, registryVars, clientVars, callVars
<1>7. ASSUME NEW g \in Game, AbortStart(g)
      PROVE LiveScopeOwed'
  BY <1>7 DEF AbortStart, registryVars, clientVars, callVars
<1>8. ASSUME NEW g \in Game, GameOver(g)
      PROVE LiveScopeOwed'
  BY <1>8 DEF GameOver, registryVars, clientVars, callVars
<1>9. ASSUME NEW g \in Game, ServeRegister(g)
      PROVE LiveScopeOwed'
  BY <1>9 DEF ServeRegister, RegisterGame, RegisterOk, Reply, serviceElse,
     registryVars, clientVars, callVars
<1>10. ASSUME NEW g \in Game, HourPasses(g)
      PROVE LiveScopeOwed'
  BY <1>10 DEF HourPasses, GrowOld, Scopes, registryVars, clientVars, callVars
<1>11. ASSUME NEW i \in Instance, ReconcileWanted(i)
      PROVE LiveScopeOwed'
  BY <1>11 DEF ReconcileWanted, StartReconcile, workerElse, registryVars,
     clientVars, callVars
<1>12. ASSUME NEW i \in Instance, PeriodOver(i)
      PROVE LiveScopeOwed'
  BY <1>12 DEF PeriodOver, StartReconcile, workerElse, registryVars,
     clientVars, callVars
<1>13. ASSUME NEW i \in Instance, ReconcileDone(i)
      PROVE LiveScopeOwed'
  BY <1>13 DEF ReconcileDone, Finished, ObserveEpoch, Failed, workerElse,
     registryVars, clientVars, callVars
<1>14. ASSUME NEW i \in Instance, NoReconcile(i)
      PROVE LiveScopeOwed'
  BY <1>14 DEF NoReconcile, workerElse, registryVars, clientVars, callVars
<1>15. ASSUME NEW i \in Instance, RegistrationAwaited(i)
      PROVE LiveScopeOwed'
  BY <1>15 DEF RegistrationAwaited, SendEnd, workerElse, registryVars,
     clientVars, callVars
<1>16. ASSUME NEW i \in Instance, EndDone(i)
      PROVE LiveScopeOwed'
  BY <1>16 DEF EndDone, Finished, ObserveEpoch, Failed, workerElse,
     registryVars, clientVars, callVars
<1>17. ASSUME NEW i \in Instance, CheckEpoch(i)
      PROVE LiveScopeOwed'
  BY <1>17 DEF CheckEpoch, workerElse, registryVars, clientVars, callVars
<1>18. ASSUME NEW i \in Instance, EpochChecked(i)
      PROVE LiveScopeOwed'
  BY <1>18 DEF EpochChecked, ObserveEpoch, workerElse, registryVars,
     clientVars, callVars
<1>19. ASSUME NEW i \in Instance, ServeReconcile(i)
      PROVE LiveScopeOwed'
  BY <1>19 DEF ServeReconcile, Reconcile, AfterReconcile, Reply, serviceElse,
     registryVars, clientVars, callVars
<1>20. ASSUME NEW i \in Instance, ServeEnd(i)
      PROVE LiveScopeOwed'
  BY <1>20 DEF ServeEnd, EndGame, Reply, serviceElse, registryVars,
     clientVars, callVars
<1>21. ASSUME NEW i \in Instance, ServeHealth(i)
      PROVE LiveScopeOwed'
  BY <1>21 DEF ServeHealth, Reply, serviceElse, registryVars, clientVars,
     callVars
<1>22. ASSUME NEW i \in Instance, Crash(i)
      PROVE LiveScopeOwed'
  BY <1>22 DEF Crash, Abandoned, registryVars, clientVars, callVars
<1>23. ASSUME NEW i \in Instance, Boot(i)
      PROVE LiveScopeOwed'
  BY <1>23 DEF Boot, registryVars, clientVars, callVars
<1>24. ASSUME NEW i \in Instance, NEW g \in Game, TakeEnd(i, g)
      PROVE LiveScopeOwed'
  <2>1. CASE call[g] = "none"
    BY <1>24, <2>1 DEF TakeEnd, SendEnd, registryVars, clientVars, callVars
  <2>2. CASE call[g] # "none"
    BY <1>24, <2>2 DEF TakeEnd, registryVars, clientVars, callVars
  <2> QED BY <2>1, <2>2
<1>25. ASSUME NEW c \in Caller, GiveUp(c)
      PROVE LiveScopeOwed'
  BY <1>25 DEF GiveUp, Abandoned, registryVars, clientVars, callVars
<1>26. ASSUME NEW r \in late, ServeLate(r)
      PROVE LiveScopeOwed'
  <2>1. /\ r.from \in Instance /\ r.games \subseteq Game
        /\ epoch' = epoch /\ aged' \subseteq aged
        /\ \A g \in Game : scope'[g] # None /\ scope'[g] # scope[g] =>
             g \in r.games /\ r.kind # "end" /\ scope'[g] = r.from
        /\ \A g \in Game : scope'[g] = None /\ scope[g] # None =>
             \/ r.kind = "end" /\ g \in r.games
             \/ r.kind = "reconcile" /\ g \notin r.games /\ scope[g] = r.from
    BY <1>26, LateEffect
  <2>2. /\ UNCHANGED <<clientVars, call, answer, faults>> /\ late' = late \ {r}
        /\ r.kind # "end" => stray' = stray \cup r.games
        /\ r.kind = "end" => stray' = stray
        /\ r.kind = "reconcile" => overtaken' = overtaken \cup (LiveGames(r.from) \ r.games)
        /\ overtaken \subseteq overtaken'
    BY <1>26 DEF ServeLate
  <2> QED BY <2>1, <2>2 DEF clientVars
<1>27. CASE RestartService
  BY <1>27 DEF RestartService, Restart, registryVars, clientVars, callVars
<1>28. CASE Sweep
  BY <1>28 DEF Sweep, ExpireGames, registryVars, clientVars, callVars
<1> QED
  BY <1>1, <1>2, <1>3, <1>4, <1>5, <1>6, <1>7, <1>8, <1>9, <1>10, <1>11,
     <1>12, <1>13, <1>14, <1>15, <1>16, <1>17, <1>18, <1>19, <1>20, <1>21,
     <1>22, <1>23, <1>24, <1>25, <1>26, <1>27, <1>28 DEF Next, GameStep,
     WorkerStep, Serve, Fault

-----------------------------------------------------------------------------
(* The theorems                                                            *)

\* The parts hold together in every reachable state.
THEOREM LifecycleInvHolds == Spec => []LifecycleInv
<1>1. Init => LifecycleInv
  BY LifecycleAssumption, RegistryAssumption
  DEF Init, RegistryInit, LifecycleInv, OwnGames, OffCoordinator, EpochsKnown, ListedGames,
      RegistrationFirst, EndedScopeOwed, LiveScopeOwed, Caller, Games, LiveGames, Up, Over
<1>2. TypeOK /\ TypeOK' /\ LifecycleInv /\ [Next]_vars => LifecycleInv'
  <2> SUFFICES ASSUME TypeOK, TypeOK', LifecycleInv, [Next]_vars
               PROVE  LifecycleInv'
    OBVIOUS
  <2>1. OwnGames' /\ OffCoordinator' /\ EpochsKnown' /\ ListedGames'
    BY OwnGamesStep, OffStep, EpochsStep, ListedStep DEF LifecycleInv
  <2>2. RegistrationFirst' /\ EndedScopeOwed' /\ LiveScopeOwed'
    BY RegistrationStep, EndedStep, LiveStep DEF LifecycleInv
  <2> QED BY <2>1, <2>2 DEF LifecycleInv
<1> QED BY <1>1, <1>2, LifecycleTypeCorrect, PTL DEF Spec

\* The scope of an ended game always has its removal on the way.
THEOREM EndedScopesGo == Spec => []EndedScopeOwed
<1>1. LifecycleInv => EndedScopeOwed
  BY DEF LifecycleInv
<1> QED BY <1>1, LifecycleInvHolds, PTL

\* A live game without a scope always has its registration on the way.
THEOREM LiveScopesReturn == Spec => []LiveScopeOwed
<1>1. LifecycleInv => LiveScopeOwed
  BY DEF LifecycleInv
<1> QED BY <1>1, LifecycleInvHolds, PTL

-----------------------------------------------------------------------------
(* The admin settings: what their invariant is made of                     *)

\* What the service holds is something its release accepts.
AdminAccepted == \A f \in Flag : admin[f] # NoValue => <<f, admin[f]>> \in build

\* A running service with a usable file holds what its answers said.
AnswersHeld ==
  running /\ mode = "on" =>
    \A f \in Flag : told[f] \in Value \cup {NoValue} => admin[f] = told[f]

\* A service that is down holds nothing.
HoldsNothing == ~running => admin = Nothing /\ persisted = {}

AdminInv ==
  /\ SettingsTypeOK
  /\ AdminAccepted
  /\ AnswersHeld
  /\ HoldsNothing
  /\ MemoryMatchesFile
  /\ MarkedOnFile
  /\ AnswersKept

-----------------------------------------------------------------------------
(* Type correctness                                                        *)

\* SettingsTypeOK holds at first.
LEMMA SettingsTypeInit == SettingsInit => SettingsTypeOK
BY SettingsAssumption DEF SettingsInit, SettingsTypeOK, Nothing, Contents, Set

\* A changed function of admin values is one.
LEMMA ContentsExcept ==
  ASSUME NEW a \in Contents, NEW f \in Flag, NEW v \in Value \cup {NoValue}
  PROVE  [a EXCEPT ![f] = v] \in Contents
BY DEF Contents

\* What a release restores from a file is a function of admin values it accepts.
LEMMA RestoredType ==
  ASSUME NEW c, NEW b \in Builds
  PROVE  /\ Restored(c, b) \in Contents
         /\ \A f \in Flag : Restored(c, b)[f] # NoValue => <<f, Restored(c, b)[f]>> \in b
BY SettingsAssumption DEF Restored, Contents

\* SettingsTypeOK survives every step.
LEMMA SettingsTypeStep ==
  ASSUME SettingsTypeOK, [SettingsNext]_settingsVars
  PROVE  SettingsTypeOK'
<1> USE SettingsAssumption DEF SettingsTypeOK
<1>1. CASE UNCHANGED settingsVars
  BY <1>1 DEF settingsVars, Set
<1>2. ASSUME NEW b \in Builds, Start(b)
      PROVE SettingsTypeOK'
  <2>1. CASE LoadAdmin(b)
    BY <1>2, <2>1, RestoredType DEF Start, LoadAdmin, Set
  <2>2. ASSUME NEW m \in {"blocked", "off"}, StartWithoutFile(m)
        PROVE SettingsTypeOK'
    BY <1>2, <2>2 DEF Start, StartWithoutFile, Set, Nothing, Contents
  <2> QED BY <1>2, <2>1, <2>2 DEF Start
<1>3. ASSUME NEW f \in Flag, NEW v \in Value, Put(f, v)
      PROVE SettingsTypeOK'
  <2> DEFINE a == [admin EXCEPT ![f] = v]
  <2>1. a \in Contents
    BY ContentsExcept
  <2>2. CASE PutPersisted(f, v)
    BY <1>3, <2>1, <2>2 DEF Put, PutPersisted, Saves, Set
  <2>3. CASE PutKillSwitch(f, v)
    BY <1>3, <2>1, <2>3 DEF Put, PutKillSwitch, SaveFails, Set, Contents
  <2>4. CASE RefusePut(f, v)
    BY <1>3, <2>4 DEF Put, RefusePut, SaveFails, Set
  <2> QED BY <1>3, <2>2, <2>3, <2>4 DEF Put
<1>4. ASSUME NEW f \in Flag, PutOverlay(f)
      PROVE SettingsTypeOK'
  BY <1>4 DEF PutOverlay, Set
<1>5. ASSUME NEW f \in Flag, Clear(f)
      PROVE SettingsTypeOK'
  <2> DEFINE a == [admin EXCEPT ![f] = NoValue]
  <2>1. a \in Contents
    BY ContentsExcept
  <2>2. CASE ClearPersisted(f)
    BY <1>5, <2>1, <2>2 DEF Clear, ClearPersisted, Saves, Set
  <2>3. CASE ClearKillSwitch(f)
    BY <1>5, <2>1, <2>3 DEF Clear, ClearKillSwitch, SaveFails, Set, Contents
  <2>4. CASE RefuseClear(f)
    BY <1>5, <2>4 DEF Clear, RefuseClear, SaveFails, Set
  <2>5. CASE ClearAbsent(f)
    BY <1>5, <2>5 DEF Clear, ClearAbsent, Set
  <2> QED BY <1>5, <2>2, <2>3, <2>4, <2>5 DEF Clear
<1>6. ASSUME NEW fs \in SUBSET Flag, DropOverlays(fs)
      PROVE SettingsTypeOK'
  BY <1>6 DEF DropOverlays, Set
<1>7. ASSUME NEW f \in Flag, NEW a \in Contents, DieInSave(f, a)
      PROVE SettingsTypeOK'
  BY <1>7 DEF DieInSave, Down, Nothing, Contents, Set
<1>8. ASSUME NEW f \in Flag, NEW v \in Value, DieInPut(f, v)
      PROVE SettingsTypeOK'
  BY <1>7, <1>8, ContentsExcept DEF DieInPut
<1>9. ASSUME NEW f \in Flag, DieInClear(f)
      PROVE SettingsTypeOK'
  BY <1>7, <1>9, ContentsExcept DEF DieInClear
<1>10. CASE Stop
  BY <1>10 DEF Stop, Down, Nothing, Contents, Set
<1>11. CASE Tamper
  BY <1>11 DEF Tamper, Set
<1> QED BY <1>1, <1>2, <1>3, <1>4, <1>5, <1>6, <1>8, <1>9, <1>10, <1>11 DEF SettingsNext

\* Every reachable state is well typed; only values that are there are marked
\* as persisted.
THEOREM SettingsTyped == SettingsSpec => []SettingsTypeOK
BY SettingsTypeInit, SettingsTypeStep, PTL DEF SettingsSpec

-----------------------------------------------------------------------------
(* The inductive invariant                                                 *)

\* The invariant holds at first: there is no file and no answer.
LEMMA AdminInvInit == SettingsInit => AdminInv
BY SettingsTypeInit, SettingsAssumption
   DEF SettingsInit, AdminInv, AdminAccepted, AnswersHeld, HoldsNothing, MemoryMatchesFile,
       MarkedOnFile, AnswersKept, Nothing

\* A successful save of one changed value keeps the invariant, because the other
\* values it writes are the ones the answers about them named.
LEMMA SaveKeeps ==
  ASSUME AdminInv, SettingsTypeOK',
         NEW f \in Flag, NEW x \in Value \cup {NoValue},
         x # NoValue => <<f, x>> \in build,
         running, running', build' = build, mode' = mode,
         admin' = [admin EXCEPT ![f] = x],
         Saves([admin EXCEPT ![f] = x]),
         \A g \in Flag \ {f} : told'[g] = told[g],
         told'[f] \in Value \cup {NoValue} => mode = "on" /\ told'[f] = x
  PROVE  AdminInv'
<1> USE SettingsAssumption
<1>1. /\ admin'[f] = x
      /\ \A g \in Flag \ {f} : admin'[g] = admin[g]
  BY DEF AdminInv, SettingsTypeOK, Contents
<1>2. AdminAccepted'
  BY <1>1 DEF AdminInv, AdminAccepted
<1>3. AnswersHeld'
  BY <1>1 DEF AdminInv, AnswersHeld
<1>4. HoldsNothing'
  BY DEF HoldsNothing
<1>5. CASE mode = "on"
  <2>1. file' = admin' /\ persisted' = Set(admin') /\ file' \in Contents
    BY <1>5 DEF Saves, SettingsTypeOK
  <2>2. \A g \in Flag : Restored(file', build')[g] = admin'[g]
    BY <2>1, <1>2 DEF Restored, AdminAccepted
  <2>3. MemoryMatchesFile' /\ MarkedOnFile'
    BY <2>1, <2>2, RestoredType DEF MemoryMatchesFile, MarkedOnFile, SettingsTypeOK
  <2>4. AnswersKept'
    BY <2>1, <1>3, <1>5 DEF AnswersKept, AnswersHeld
  <2> QED BY <1>2, <1>3, <1>4, <2>3, <2>4 DEF AdminInv
<1>6. CASE mode # "on"
  <2>1. file' = file
    BY <1>6 DEF Saves
  <2>2. AnswersKept'
    BY <2>1, <1>6 DEF AdminInv, AnswersKept
  <2>3. MemoryMatchesFile' /\ MarkedOnFile'
    BY <1>6 DEF MemoryMatchesFile, MarkedOnFile
  <2> QED BY <1>2, <1>3, <1>4, <2>2, <2>3 DEF AdminInv
<1> QED BY <1>5, <1>6

\* A failed save keeps the invariant: the value of a kill switch may move, and
\* the answer then promises nothing.
LEMMA FailedSaveKeeps ==
  ASSUME AdminInv, SettingsTypeOK',
         NEW f \in Flag, NEW x \in Value \cup {NoValue},
         x # NoValue => <<f, x>> \in build,
         running, running', build' = build, mode' = mode, file' = file,
         \/ UNCHANGED <<admin, persisted, told>>
         \/ /\ f \in KillSwitch
            /\ admin' = [admin EXCEPT ![f] = x]
            /\ persisted' = persisted \ {f}
            /\ told' = [told EXCEPT ![f] = Unknown]
  PROVE  AdminInv'
<1> USE SettingsAssumption
<1>1. CASE UNCHANGED <<admin, persisted, told>>
  BY <1>1 DEF AdminInv, AdminAccepted, AnswersHeld, HoldsNothing, MemoryMatchesFile,
              MarkedOnFile, AnswersKept
<1>2. CASE /\ f \in KillSwitch
           /\ admin' = [admin EXCEPT ![f] = x]
           /\ persisted' = persisted \ {f}
           /\ told' = [told EXCEPT ![f] = Unknown]
  <2>1. /\ admin'[f] = x
        /\ \A g \in Flag \ {f} : admin'[g] = admin[g]
    BY <1>2 DEF AdminInv, SettingsTypeOK, Contents
  <2>2. /\ told'[f] = Unknown
        /\ \A g \in Flag \ {f} : told'[g] = told[g]
    BY <1>2 DEF AdminInv, SettingsTypeOK
  <2>3. AdminAccepted'
    BY <2>1 DEF AdminInv, AdminAccepted
  <2>4. AnswersHeld' /\ AnswersKept'
    BY <2>1, <2>2 DEF AdminInv, AnswersHeld, AnswersKept
  <2>5. MemoryMatchesFile'
    BY <1>2, <2>1 DEF AdminInv, MemoryMatchesFile
  <2>6. MarkedOnFile'
    BY <1>2, <2>1 DEF AdminInv, MarkedOnFile, SettingsTypeOK, Set
  <2>7. HoldsNothing'
    BY DEF HoldsNothing
  <2> QED BY <2>3, <2>4, <2>5, <2>6, <2>7 DEF AdminInv
<1> QED BY <1>1, <1>2

\* A start keeps the invariant: what is restored is what the file holds, and an
\* answer about an entry that is dropped is forgotten.
LEMMA StartKeeps ==
  ASSUME AdminInv, SettingsTypeOK', NEW b \in Builds, Start(b)
  PROVE  AdminInv'
<1> USE SettingsAssumption
<1>1. running' /\ build' = b
  BY DEF Start
<1>2. CASE LoadAdmin(b)
  <2>1. AdminAccepted'
    BY <1>1, <1>2, RestoredType DEF LoadAdmin, AdminAccepted
  <2>2. HoldsNothing'
    BY <1>1 DEF HoldsNothing
  <2>3. CASE file \in Contents
    <3>1. file' = file /\ build' = b /\ admin' = Restored(file, b)
      BY <1>1, <1>2, <2>3 DEF LoadAdmin, Contents
    <3>2. \A f \in Flag : told'[f] \in Value \cup {NoValue} =>
            told'[f] = told[f] /\ (file[f] # NoValue => <<f, file[f]>> \in b)
      BY <1>2, <2>3 DEF LoadAdmin
    <3>3. \A f \in Flag : told'[f] \in Value \cup {NoValue} => file[f] = told'[f]
      BY <3>2 DEF AdminInv, AnswersKept
    <3>4. AnswersKept'
      BY <2>3, <3>1, <3>3 DEF AnswersKept
    <3>5. AnswersHeld'
      BY <2>3, <3>1, <3>2, <3>3 DEF AnswersHeld, Restored
    <3>6. MemoryMatchesFile'
      BY <3>1 DEF MemoryMatchesFile
    <3>7. MarkedOnFile'
      BY <1>2, <2>3, <3>1 DEF LoadAdmin, MarkedOnFile, Restored, Set
    <3> QED BY <2>1, <2>2, <3>4, <3>5, <3>6, <3>7 DEF AdminInv
  <2>4. CASE file \notin Contents
    <3>1. file' \notin Contents
      BY <1>2, <2>4 DEF LoadAdmin, Contents
    <3>2. admin' = Nothing /\ persisted' = {}
      BY <1>2, <2>4 DEF LoadAdmin, Restored, Nothing, Set
    <3>3. \A f \in Flag : told'[f] \notin Value \cup {NoValue}
      BY <1>2, <2>4 DEF LoadAdmin, AdminInv, AnswersKept, SettingsTypeOK
    <3>4. \A f \in Flag : Restored(file', b)[f] = NoValue
      BY <3>1 DEF Restored
    <3>5. AnswersKept' /\ AnswersHeld' /\ MemoryMatchesFile' /\ MarkedOnFile'
      BY <1>1, <3>1, <3>2, <3>3, <3>4
         DEF AnswersKept, AnswersHeld, MemoryMatchesFile, MarkedOnFile, Nothing
    <3> QED BY <2>1, <2>2, <3>5 DEF AdminInv
  <2> QED BY <2>3, <2>4
<1>3. ASSUME NEW m \in {"blocked", "off"}, StartWithoutFile(m)
      PROVE AdminInv'
  BY <1>1, <1>3
     DEF StartWithoutFile, AdminInv, AdminAccepted, AnswersHeld, HoldsNothing,
         MemoryMatchesFile, MarkedOnFile, AnswersKept, Nothing
<1> QED BY <1>2, <1>3 DEF Start

\* The end of the service keeps the invariant, in the middle of a save too.
LEMMA DownKeeps ==
  ASSUME AdminInv, SettingsTypeOK', Down, NEW f \in Flag, NEW x \in Value \cup {NoValue},
         \/ UNCHANGED <<file, told>>
         \/ /\ mode = "on"
            /\ file' = [admin EXCEPT ![f] = x]
            /\ told' = [told EXCEPT ![f] = Unknown]
  PROVE  AdminInv'
<1> USE SettingsAssumption
<1>1. AdminAccepted' /\ AnswersHeld' /\ HoldsNothing' /\ MemoryMatchesFile' /\ MarkedOnFile'
  BY DEF Down, AdminAccepted, AnswersHeld, HoldsNothing, MemoryMatchesFile, MarkedOnFile,
         Nothing
<1>2. CASE UNCHANGED <<file, told>>
  BY <1>1, <1>2 DEF AdminInv, AnswersKept
<1>3. CASE /\ mode = "on"
           /\ file' = [admin EXCEPT ![f] = x]
           /\ told' = [told EXCEPT ![f] = Unknown]
  <2>1. file' \in Contents /\ \A g \in Flag \ {f} : file'[g] = admin[g]
    BY <1>3 DEF AdminInv, SettingsTypeOK, Contents
  <2>2. told'[f] = Unknown /\ \A g \in Flag \ {f} : told'[g] = told[g]
    BY <1>3 DEF AdminInv, SettingsTypeOK
  <2>3. AnswersKept'
    BY <1>3, <2>1, <2>2 DEF AdminInv, AnswersKept, AnswersHeld, Down
  <2> QED BY <1>1, <2>3 DEF AdminInv
<1> QED BY <1>2, <1>3

\* AdminInv survives every step.
LEMMA AdminInvStep ==
  ASSUME AdminInv, [SettingsNext]_settingsVars
  PROVE  AdminInv'
<1> USE SettingsAssumption
<1>0. SettingsTypeOK'
  BY SettingsTypeStep DEF AdminInv
<1> DEFINE Quiet == UNCHANGED <<running, build, mode, admin, persisted, file, told>>
<1>1. ASSUME Quiet PROVE AdminInv'
  BY <1>0, <1>1
     DEF AdminInv, AdminAccepted, AnswersHeld, HoldsNothing, MemoryMatchesFile,
         MarkedOnFile, AnswersKept
<1>2. CASE UNCHANGED settingsVars
  BY <1>1, <1>2 DEF settingsVars
<1>3. ASSUME NEW b \in Builds, Start(b)
      PROVE AdminInv'
  BY <1>0, <1>3, StartKeeps
<1>4. ASSUME NEW f \in Flag, NEW v \in Value, Put(f, v)
      PROVE AdminInv'
  <2>1. running /\ running' /\ build' = build /\ mode' = mode /\ <<f, v>> \in build
    BY <1>4 DEF Put
  <2>2. CASE PutPersisted(f, v)
    <3>1. /\ \A g \in Flag \ {f} : told'[g] = told[g]
          /\ told'[f] \in Value \cup {NoValue} => mode = "on" /\ told'[f] = v
      BY <2>2 DEF PutPersisted, Saves, AdminInv, SettingsTypeOK
    <3> QED BY <1>0, <2>1, <2>2, <3>1, SaveKeeps DEF PutPersisted
  <2>3. CASE PutKillSwitch(f, v)
    BY <1>0, <2>1, <2>3, FailedSaveKeeps DEF PutKillSwitch, SaveFails
  <2>4. CASE RefusePut(f, v)
    BY <1>0, <2>1, <2>4, FailedSaveKeeps DEF RefusePut, SaveFails
  <2> QED BY <1>4, <2>2, <2>3, <2>4 DEF Put
<1>5. ASSUME NEW f \in Flag, PutOverlay(f)
      PROVE AdminInv'
  BY <1>1, <1>5 DEF PutOverlay
<1>6. ASSUME NEW f \in Flag, Clear(f)
      PROVE AdminInv'
  <2>1. running /\ running' /\ build' = build /\ mode' = mode
    BY <1>6 DEF Clear
  <2>2. CASE ClearPersisted(f)
    <3>1. /\ \A g \in Flag \ {f} : told'[g] = told[g]
          /\ told'[f] \in Value \cup {NoValue} => mode = "on" /\ told'[f] = NoValue
      BY <2>2 DEF ClearPersisted, AdminInv, SettingsTypeOK
    <3> QED BY <1>0, <2>1, <2>2, <3>1, SaveKeeps DEF ClearPersisted
  <2>3. CASE ClearKillSwitch(f)
    BY <1>0, <2>1, <2>3, FailedSaveKeeps DEF ClearKillSwitch, SaveFails
  <2>4. CASE RefuseClear(f)
    BY <1>0, <2>1, <2>4, FailedSaveKeeps DEF RefuseClear, SaveFails
  <2>5. CASE ClearAbsent(f)
    <3>1. \A g \in Flag : told'[g] \in Value \cup {NoValue} => told'[g] = told[g]
      BY <2>5 DEF ClearAbsent, AdminInv, SettingsTypeOK
    <3> QED BY <1>0, <2>1, <2>5, <3>1
            DEF ClearAbsent, AdminInv, AdminAccepted, AnswersHeld, HoldsNothing,
                MemoryMatchesFile, MarkedOnFile, AnswersKept
  <2> QED BY <1>6, <2>2, <2>3, <2>4, <2>5 DEF Clear
<1>7. ASSUME NEW fs \in SUBSET Flag, DropOverlays(fs)
      PROVE AdminInv'
  BY <1>1, <1>7 DEF DropOverlays
<1>8. ASSUME NEW f \in Flag, NEW v \in Value, DieInPut(f, v)
      PROVE AdminInv'
  BY <1>0, <1>8, DownKeeps DEF DieInPut, DieInSave
<1>9. ASSUME NEW f \in Flag, DieInClear(f)
      PROVE AdminInv'
  BY <1>0, <1>9, DownKeeps DEF DieInClear, DieInSave
<1>10. CASE Stop
  <2>1. AdminAccepted' /\ AnswersHeld' /\ HoldsNothing' /\ MemoryMatchesFile' /\ MarkedOnFile'
    BY <1>10 DEF Stop, Down, AdminAccepted, AnswersHeld, HoldsNothing, MemoryMatchesFile,
                 MarkedOnFile, Nothing
  <2> QED BY <1>0, <1>10, <2>1 DEF Stop, AdminInv, AnswersKept
<1>11. CASE Tamper
  <2>1. ~running'
    BY <1>11 DEF Tamper
  <2>2. \A f \in Flag : told'[f] \notin Value \cup {NoValue}
    BY <1>11 DEF Tamper
  <2> QED BY <1>0, <1>11, <2>1, <2>2
          DEF Tamper, AdminInv, AdminAccepted, AnswersHeld, HoldsNothing, MemoryMatchesFile,
              MarkedOnFile, AnswersKept
<1> QED
  BY <1>2, <1>3, <1>4, <1>5, <1>6, <1>7, <1>8, <1>9, <1>10, <1>11 DEF SettingsNext

\* AdminInv holds in every reachable state.
THEOREM SettingsInvariant == SettingsSpec => []AdminInv
BY AdminInvInit, AdminInvStep, PTL DEF SettingsSpec

\* Memory and file never disagree, but for kill switches: a restart of the same
\* release changes no ordinary setting.
THEOREM MemoryAndFileAgree == SettingsSpec => []MemoryMatchesFile
<1>1. AdminInv => MemoryMatchesFile
  BY DEF AdminInv
<1> QED BY <1>1, SettingsInvariant, PTL

\* A value counted as persisted is on file.
THEOREM MarksAreTrue == SettingsSpec => []MarkedOnFile
<1>1. AdminInv => MarkedOnFile
  BY DEF AdminInv
<1> QED BY <1>1, SettingsInvariant, PTL

\* An answer that a value was persisted, or cleared from the file, stays true.
THEOREM AnswersStayTrue == SettingsSpec => []AnswersKept
<1>1. AdminInv => AnswersKept
  BY DEF AdminInv
<1> QED BY <1>1, SettingsInvariant, PTL

\* A new admin value is never hidden by an overlay.
THEOREM SettingsSeen == SettingsSpec => HostSettingSeen
<1> DEFINE Seen == \A f \in Flag : running /\ admin'[f] \notin {admin[f], NoValue} => f \notin stack'
<1>1. ASSUME SettingsTypeOK, [SettingsNext]_settingsVars PROVE [Seen]_settingsVars
  <2> SUFFICES ASSUME SettingsTypeOK, SettingsNext, NEW f \in Flag, running,
                      admin'[f] \notin {admin[f], NoValue}
               PROVE f \notin stack'
    BY <1>1
  <2> USE SettingsAssumption DEF SettingsTypeOK, Contents
  <2>1. ASSUME NEW g \in Flag, NEW v \in Value, Put(g, v)
        PROVE f \notin stack'
    <3>1. g = f
      BY <2>1 DEF Put, PutPersisted, PutKillSwitch, RefusePut
    <3>2. ~RefusePut(g, v)
      BY DEF RefusePut
    <3> QED BY <2>1, <3>1, <3>2 DEF Put, PutPersisted, PutKillSwitch
  <2>2. ASSUME NEW g \in Flag, Clear(g)
        PROVE f \notin stack'
    <3>1. admin' = [admin EXCEPT ![g] = NoValue] \/ admin' = admin
      BY <2>2 DEF Clear, ClearPersisted, ClearKillSwitch, RefuseClear, ClearAbsent
    <3> QED BY <3>1
  <2>3. CASE Down
    BY <2>3 DEF Down, Nothing
  <2> QED BY <2>1, <2>2, <2>3
          DEF SettingsNext, Start, PutOverlay, DropOverlays, Stop, DieInPut, DieInClear, DieInSave,
              Tamper
<1> QED BY <1>1, SettingsTyped, PTL DEF SettingsSpec, HostSettingSeen
=============================================================================
