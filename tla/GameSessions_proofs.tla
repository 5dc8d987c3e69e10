------------------------ MODULE GameSessions_proofs ------------------------
(***************************************************************************)
(* Theorems about GameSessions, for any sets of start requests, any caps   *)
(* and either shadow policy.                                               *)
(***************************************************************************)
EXTENDS GameSessions, TLAPS

-----------------------------------------------------------------------------
(* Type correctness. *)

\* The initial state has the declared types.
LEMMA InitTypeOK == Init => TypeOK
<1> SUFFICES ASSUME Init PROVE TypeOK
  OBVIOUS
<1>1. /\ start \in [Session -> {"idle", "register", "started", "refused", "aborted"}
                                \cup Passing]
      /\ todo \in [Session -> SUBSET Shadow]
      /\ awaits \in [Session -> Shadow \cup {None}]
  BY DEF Init
<1>2. /\ sessions \subseteq Session
      /\ primary \in Real \cup {None}
      /\ misrouted \in BOOLEAN
  BY DEF Init
<1>3. /\ gameState \in [Session -> {"NONE", "STARTING", "RUNNING", "ENDED"}]
      /\ endTask \in [Session -> {"none", "scheduled", "waiting"}]
      /\ ends \in [Session -> Nat]
  BY DEF Init
<1>4. thread \in [Session -> {"none", "connect", "wait", "build", "failing",
                             "exit", "hook", "gone"} \cup InGame]
  BY DEF Init
<1>5. /\ gameRunning \in [Session -> BOOLEAN]
      /\ forceEnding \in [Session -> BOOLEAN]
      /\ currentGame \in [Session -> BOOLEAN]
  BY DEF Init
<1>6. /\ stopQueued \in [Session -> BOOLEAN]
      /\ stopped \in [Session -> BOOLEAN]
      /\ admitted \in [Session -> BOOLEAN]
  BY DEF Init
<1> QED
  BY <1>1, <1>2, <1>3, <1>4, <1>5, <1>6 DEF TypeOK

\* Reporting an end keeps the report counters typed, and never past one.
LEMMA QueueEndType ==
  ASSUME NEW e \in [Session -> Nat], NEW s \in Session
  PROVE  /\ QueueEnd(e, s) \in [Session -> Nat]
         /\ QueueEnd(e, s)[s] # 0
         /\ e[s] <= 1 => QueueEnd(e, s)[s] = 1
         /\ \A x \in Session \ {s} : QueueEnd(e, s)[x] = e[x]
BY DEF QueueEnd

\* Retiring a session keeps registry, report counters and slot typed.
LEMMA RetireType ==
  ASSUME TypeOK, NEW s \in Session, Retire(s)
  PROVE  sessions' \subseteq Session /\ ends' \in [Session -> Nat]
         /\ primary' \in Real \cup {None}
BY QueueEndType DEF Retire, TypeOK

\* State sync keeps the session states typed.
LEMMA SyncedType ==
  ASSUME TypeOK, NEW s \in Session, NEW v \in {"RUNNING", "ENDED"},
         NEW gs \in [Session -> {"NONE", "STARTING", "RUNNING", "ENDED"}]
  PROVE  Synced(gs, s, v) \in [Session -> {"NONE", "STARTING", "RUNNING", "ENDED"}]
BY DEF Synced, SyncTarget, TypeOK, Session

\* A preemption pass keeps the coroutine's own state typed.
LEMMA BeginPassType ==
  ASSUME TypeOK, NEW s \in Session, NEW xs \in SUBSET Shadow, NEW pc \in Passing,
         BeginPass(s, xs, pc)
  PROVE  /\ start' \in [Session -> {"idle", "register", "started", "refused", "aborted"}
                                     \cup Passing]
         /\ todo' \in [Session -> SUBSET Shadow]
         /\ awaits' \in [Session -> Shadow \cup {None}]
         /\ endTask' \in [Session -> {"none", "scheduled", "waiting"}]
         /\ \A x \in Session : endTask'[x] = "waiting" => endTask[x] = "waiting"
         /\ start' = [start EXCEPT ![s] = pc]
BY DEF BeginPass, ScheduleEnd, TypeOK, Session

\* The admission keeps every variable typed.
LEMMA TryAdmitType ==
  ASSUME TypeOK, NEW s \in Session, NEW n \in {0, 1}, TryAdmit(s, n)
  PROVE  TypeOK'
<1>1. Swept \subseteq sessions /\ SlotAfterSweep \in Real \cup {None}
      /\ SweptEnds \in [Session -> Nat]
  BY DEF TypeOK, Swept, SlotAfterSweep, SweptEnds
<1>2. CASE Admit(s)
  <2>1. ASSUME BeginPass(s, Swept \cap Shadow, "evict") PROVE TypeOK'
    <3>1. /\ start' \in [Session -> {"idle", "register", "started", "refused", "aborted"}
                                     \cup Passing]
          /\ todo' \in [Session -> SUBSET Shadow]
          /\ awaits' \in [Session -> Shadow \cup {None}]
          /\ endTask' \in [Session -> {"none", "scheduled", "waiting"}]
      BY <2>1, BeginPassType, "evict" \in Passing, Swept \cap Shadow \in SUBSET Shadow
         DEF Passing
    <3> QED
      BY <1>1, <1>2, <3>1 DEF Admit, TryAdmit, threadVars, TypeOK, Session
  <2>2. ASSUME LeavePass(s, "register") PROVE TypeOK'
    BY <1>1, <1>2, <2>2 DEF Admit, TryAdmit, LeavePass, threadVars, TypeOK, Session
  <2> QED BY <1>2, <2>1, <2>2 DEF Admit
<1>3. CASE TurnAway(s, n)
  <2>1. ASSUME BeginPass(s, LiveShadows, "preempt1") PROVE TypeOK'
    <3>1. /\ start' \in [Session -> {"idle", "register", "started", "refused", "aborted"}
                                     \cup Passing]
          /\ todo' \in [Session -> SUBSET Shadow]
          /\ awaits' \in [Session -> Shadow \cup {None}]
          /\ endTask' \in [Session -> {"none", "scheduled", "waiting"}]
      BY <2>1, BeginPassType, "preempt1" \in Passing, LiveShadows \in SUBSET Shadow
         DEF Passing, LiveShadows
    <3> QED
      BY <1>1, <1>3, <3>1 DEF TurnAway, TryAdmit, threadVars, TypeOK, Session
  <2>2. ASSUME LeavePass(s, "refused") PROVE TypeOK'
    BY <1>1, <1>3, <2>2 DEF TurnAway, TryAdmit, LeavePass, threadVars, TypeOK, Session
  <2> QED BY <1>3, <2>1, <2>2 DEF TurnAway
<1> QED BY <1>2, <1>3 DEF TryAdmit

\* An ending task keeps every variable it assigns typed.
LEMMA EndCompletesType ==
  ASSUME TypeOK, NEW s \in Session, EndCompletes(s)
  PROVE  /\ endTask' \in [Session -> {"none", "scheduled", "waiting"}]
         /\ awaits' \in [Session -> Shadow \cup {None}]
         /\ gameState' \in [Session -> {"NONE", "STARTING", "RUNNING", "ENDED"}]
         /\ misrouted' \in BOOLEAN
         /\ sessions' \subseteq Session /\ ends' \in [Session -> Nat]
         /\ primary' \in Real \cup {None}
<1>1. [gameState EXCEPT ![s] = "ENDED"] \in
         [Session -> {"NONE", "STARTING", "RUNNING", "ENDED"}]
  BY DEF TypeOK
<1>2. gameState' \in [Session -> {"NONE", "STARTING", "RUNNING", "ENDED"}]
  BY <1>1, SyncedType DEF EndCompletes
<1>3. sessions' \subseteq Session /\ ends' \in [Session -> Nat]
      /\ primary' \in Real \cup {None}
  BY RetireType DEF EndCompletes
<1>4. endTask' \in [Session -> {"none", "scheduled", "waiting"}]
      /\ awaits' \in [Session -> Shadow \cup {None}]
  BY DEF EndCompletes, TaskOver, TypeOK
<1>5. misrouted' \in BOOLEAN
  BY DEF EndCompletes, NoteRoute, TypeOK
<1> QED BY <1>2, <1>3, <1>4, <1>5

\* Every request keeps the declared types.
LEMMA RequestType ==
  ASSUME TypeOK, NEW s \in Session, Request(s)
  PROVE  TypeOK'
<1>1. CASE StartShadow(s)
  BY <1>1, TryAdmitType DEF StartShadow
<1>2. CASE RefuseShadow(s)
  BY <1>2 DEF RefuseShadow, threadVars, TypeOK
<1>3. CASE StartReal(s)
  <2>1. CASE LiveShadows = {}
    BY <1>3, <2>1, TryAdmitType DEF StartReal
  <2>2. CASE LiveShadows # {}
    <3>1. BeginPass(s, LiveShadows, "preempt0")
      BY <1>3, <2>2 DEF StartReal
    <3>2. /\ start' \in [Session -> {"idle", "register", "started", "refused", "aborted"}
                                     \cup Passing]
          /\ todo' \in [Session -> SUBSET Shadow]
          /\ awaits' \in [Session -> Shadow \cup {None}]
          /\ endTask' \in [Session -> {"none", "scheduled", "waiting"}]
      BY <3>1, BeginPassType, "preempt0" \in Passing, LiveShadows \in SUBSET Shadow
         DEF Passing, LiveShadows
    <3> QED
      BY <1>3, <2>2, <3>2 DEF StartReal, threadVars, TypeOK
  <2> QED BY <2>1, <2>2
<1>4. CASE AbortStart(s)
  <2>1. sessions' \subseteq Session /\ ends' \in [Session -> Nat]
        /\ primary' \in Real \cup {None}
    BY <1>4, RetireType DEF AbortStart
  <2> QED BY <1>4, <2>1 DEF AbortStart, threadVars, TypeOK
<1>5. CASE CancelStart(s)
  BY <1>5 DEF CancelStart, threadVars, TypeOK
<1>6. CASE RequestEnd(s)
  BY <1>6 DEF RequestEnd, ScheduleEnd, threadVars, TypeOK
<1> QED BY <1>1, <1>2, <1>3, <1>4, <1>5, <1>6 DEF Request

\* Every step of a start coroutine keeps the declared types.
LEMMA StartStepType ==
  ASSUME TypeOK, NEW s \in Session, StartStep(s)
  PROVE  TypeOK'
<1>1. CASE NextInPass(s)
  <2>1. /\ start' \in [Session -> {"idle", "register", "started", "refused", "aborted"}
                                   \cup Passing]
        /\ todo' \in [Session -> SUBSET Shadow]
        /\ awaits' \in [Session -> Shadow \cup {None}]
        /\ endTask' \in [Session -> {"none", "scheduled", "waiting"}]
    BY <1>1, BeginPassType, todo[s] \in SUBSET Shadow DEF NextInPass, TypeOK
  <2> QED BY <1>1, <2>1 DEF NextInPass, threadVars, TypeOK
<1>2. CASE PassDone(s)
  <2>1. ASSUME LeavePass(s, "register"), UNCHANGED threadVars,
               UNCHANGED <<sessions, primary, gameState, gameRunning,
                           forceEnding, stopQueued, ends, misrouted>>
        PROVE  TypeOK'
    BY <2>1 DEF LeavePass, threadVars, TypeOK
  <2> QED BY <1>2, <2>1, TryAdmitType DEF PassDone
<1>3. CASE FinishStart(s)
  BY <1>3 DEF FinishStart, TypeOK
<1> QED BY <1>1, <1>2, <1>3 DEF StartStep

\* Every step of an end task keeps the declared types.
LEMMA EndStepType ==
  ASSUME TypeOK, NEW s \in Session, EndStep(s)
  PROVE  TypeOK'
<1>1. CASE EndRefused(s)
  BY <1>1 DEF EndRefused, TaskOver, threadVars, TypeOK
<1>2. CASE EndBegins(s)
  <2>1. CASE ThreadAlive(s)
    BY <1>2, <2>1 DEF EndBegins, threadVars, TypeOK
  <2>2. CASE ~ThreadAlive(s)
    BY <1>2, <2>2, EndCompletesType DEF EndBegins, threadVars, TypeOK
  <2> QED BY <2>1, <2>2
<1>3. CASE EndWaited(s)
  BY <1>3, EndCompletesType DEF EndWaited, threadVars, TypeOK
<1> QED BY <1>1, <1>2, <1>3 DEF EndStep

\* Every step of a game thread keeps the declared types.
LEMMA ThreadStepType ==
  ASSUME TypeOK, NEW s \in Session, ThreadStep(s)
  PROVE  TypeOK'
<1> USE DEF Goto, OnlyThread
<1>1. CASE CannotRun(s)
  BY <1>1 DEF CannotRun, TypeOK
<1>2. CASE Connected(s)
  BY <1>2 DEF Connected, TypeOK
<1>3. CASE ProvidersAwaited(s)
  BY <1>3 DEF ProvidersAwaited, TypeOK
<1>4. CASE GameBuilt(s)
  BY <1>4 DEF GameBuilt, TypeOK, InGame
<1>5. CASE TakeForceEnd(s)
  BY <1>5 DEF TakeForceEnd, TypeOK
<1>6. CASE Initialized(s)
  BY <1>6 DEF Initialized, TypeOK, InGame
<1>7. CASE GameOver(s)
  BY <1>7 DEF GameOver, TypeOK, InGame
<1>8. ASSUME NEW v \in {"RUNNING", "ENDED"}, NEW pc \in {"exit", "play"},
             Publish(s, v, pc)
      PROVE  TypeOK'
  <2>1. gameState' \in [Session -> {"NONE", "STARTING", "RUNNING", "ENDED"}]
    BY <1>8, SyncedType DEF Publish, TypeOK
  <2>2. misrouted' \in BOOLEAN
    BY <1>8 DEF Publish, NoteRoute, TypeOK
  <2> QED BY <1>8, <2>1, <2>2 DEF Publish, TypeOK, InGame
<1>9. CASE PublishStarted(s)
  BY <1>8, <1>9 DEF PublishStarted
<1>10. CASE PublishEnded(s)
  BY <1>8, <1>10 DEF PublishEnded
<1>11. CASE PublishError(s)
  BY <1>8, <1>11 DEF PublishError
<1>12. CASE Exit(s)
  BY <1>12 DEF Exit, TypeOK
<1>13. CASE OnGameEnded(s)
  BY <1>13, QueueEndType DEF OnGameEnded, TypeOK
<1> QED
  BY <1>1, <1>2, <1>3, <1>4, <1>5, <1>6, <1>7, <1>9, <1>10, <1>11, <1>12, <1>13
     DEF ThreadStep

\* Every step keeps the declared types.
LEMMA NextTypeOK == TypeOK /\ [Next]_vars => TypeOK'
<1> SUFFICES ASSUME TypeOK, [Next]_vars PROVE TypeOK'
  OBVIOUS
<1>1. CASE Next
  BY <1>1, RequestType, StartStepType, EndStepType, ThreadStepType DEF Next
<1>2. CASE UNCHANGED vars
  BY <1>2 DEF vars, TypeOK
<1> QED BY <1>1, <1>2

\* Every variable keeps its declared type in every behaviour of the registry.
THEOREM TypeCorrect == Spec => []TypeOK
BY InitTypeOK, NextTypeOK, PTL DEF Spec

-----------------------------------------------------------------------------
(* The registry invariants. *)

\* What a step may do to the registry, its slot and the reports without
\* breaking their agreement: admit one session, or drop sessions and report
\* each of them.
RegistryStep ==
  /\ \A r \in Real : r \in sessions' <=> r = primary'
  /\ \A s \in Session : /\ ends'[s] <= 1 /\ ends[s] <= ends'[s]
                        /\ s \in sessions \ sessions' => ends'[s] = 1

\* Retiring a session keeps registry and slot in agreement and reports it.
LEMMA RetireStep ==
  ASSUME SessionInv, NEW s \in Session, Retire(s)
  PROVE  RegistryStep /\ sessions' \subseteq sessions
<1> USE SessionsAssumption
<1>1. \A r \in Real : r \in sessions <=> r = primary
  BY DEF SessionInv, PrimarySlot, Session
<1>2. ends \in [Session -> Nat] /\ \A x \in Session : ends[x] <= 1
  BY DEF SessionInv, TypeOK, EndsReportedOnce
<1>3. CASE s \in sessions
  <2>1. ends' = QueueEnd(ends, s) /\ sessions' = sessions \ {s}
        /\ primary' = IF primary = s THEN None ELSE primary
    BY <1>3 DEF Retire
  <2>2. \A x \in Session : /\ ends'[x] <= 1 /\ ends[x] <= ends'[x]
                           /\ x = s => ends'[x] = 1
    BY <1>2, <2>1 DEF QueueEnd
  <2> QED BY <1>1, <2>1, <2>2 DEF RegistryStep, Session
<1>4. CASE s \notin sessions
  BY <1>1, <1>2, <1>4 DEF Retire, RegistryStep
<1> QED BY <1>3, <1>4

\* So does the sweep of an admission, with or without the admitted session.
LEMMA TryAdmitStep ==
  ASSUME SessionInv, NEW s \in Session, NEW n \in {0, 1}, TryAdmit(s, n)
  PROVE  RegistryStep /\ sessions' \subseteq sessions \cup {s}
<1> USE SessionsAssumption
<1>1. \A r \in Real : r \in sessions <=> r = primary
  BY DEF SessionInv, PrimarySlot, Session
<1>2. ends \in [Session -> Nat] /\ \A x \in Session : ends[x] <= 1
  BY DEF SessionInv, TypeOK, EndsReportedOnce
<1>3. \A r \in Real : r \in Swept <=> r = SlotAfterSweep
  BY <1>1 DEF Swept, SlotAfterSweep, Session
<1>4. \A x \in Session : /\ SweptEnds[x] <= 1 /\ ends[x] <= SweptEnds[x]
                         /\ x \in sessions \ Swept => SweptEnds[x] = 1
  BY <1>2 DEF SweptEnds
<1>5. CASE Admit(s)
  <2>1. s \in Real => SlotAfterSweep = None
    BY <1>5 DEF Admit, CapFull
  <2> QED BY <1>3, <1>4, <1>5, <2>1 DEF Admit, RegistryStep, Swept, Session
<1>6. CASE TurnAway(s, n)
  BY <1>3, <1>4, <1>6 DEF TurnAway, RegistryStep, Swept
<1> QED BY <1>5, <1>6 DEF TryAdmit

\* A registry step that keeps the admitted sessions' states set, and the
\* running games current and told of their force end, keeps the invariant.
StateStep ==
  /\ \A x \in Session : gameState[x] # "NONE" => gameState'[x] # "NONE"
  /\ \A x \in Session : gameState'[x] # "NONE" =>
                          gameState[x] # "NONE" \/ x \in sessions'
  /\ \A x \in Session : Admitted(x)' => gameState'[x] # "NONE"

\* What a step may do to the game threads: a thread ends with its report made,
\* and a running game is the current one and is told of its force end.
RunStep ==
  /\ \A x \in Session : thread'[x] = "gone" => thread[x] = "gone" \/ ends'[x] = 1
  /\ \A x \in Session : thread'[x] \in InGame => currentGame'[x]
  /\ \A x \in Session : forceEnding'[x] /\ thread'[x] \in InGame =>
                          stopQueued'[x] \/ stopped'[x]

\* The three kinds of step together keep the invariant.
LEMMA Combine ==
  ASSUME SessionInv, TypeOK', RegistryStep, StateStep, RunStep
  PROVE  SessionInv'
<1> USE SessionsAssumption
<1>1. PrimarySlot'
  <2>1. \A r \in Real : r \in sessions' <=> r = primary'
    BY DEF RegistryStep
  <2>2. primary' \in Real \cup {None}
    BY DEF TypeOK
  <2> QED BY <2>1, <2>2 DEF PrimarySlot, Session
<1>2. EndsReportedOnce'
  <2> SUFFICES ASSUME NEW x \in Session
               PROVE  /\ ends'[x] <= 1
                      /\ gameState'[x] # "NONE" /\ x \notin sessions' => ends'[x] = 1
                      /\ thread'[x] = "gone" => ends'[x] = 1
    BY DEF EndsReportedOnce
  <2>1. ends'[x] <= 1 /\ ends[x] <= ends'[x] /\ ends[x] \in Nat /\ ends'[x] \in Nat
        /\ (x \in sessions \ sessions' => ends'[x] = 1)
    BY DEF RegistryStep, TypeOK, SessionInv
  <2>2. gameState[x] # "NONE" /\ x \notin sessions => ends[x] = 1
    BY DEF SessionInv, EndsReportedOnce
  <2>3. thread[x] = "gone" => ends[x] = 1
    BY DEF SessionInv, EndsReportedOnce
  <2>4. gameState'[x] # "NONE" => gameState[x] # "NONE" \/ x \in sessions'
    BY DEF StateStep
  <2>5. thread'[x] = "gone" => thread[x] = "gone" \/ ends'[x] = 1
    BY DEF RunStep
  <2> QED BY <2>1, <2>2, <2>3, <2>4, <2>5
<1>3. NoOrphanGame'
  BY DEF RunStep, NoOrphanGame
<1>4. /\ \A x \in Session : thread'[x] \in InGame => currentGame'[x]
      /\ \A x \in Session : Admitted(x)' => gameState'[x] # "NONE"
  BY DEF RunStep, StateStep
<1> QED BY <1>1, <1>2, <1>3, <1>4 DEF SessionInv

\* Steps that leave the registry, the reports and the slot alone.
LEMMA QuietRegistry ==
  ASSUME SessionInv, UNCHANGED <<sessions, primary, ends>>
  PROVE  RegistryStep
BY SessionsAssumption
   DEF RegistryStep, SessionInv, PrimarySlot, EndsReportedOnce, TypeOK, Session

\* Steps that leave the game threads and the force ends alone.
LEMMA QuietRun ==
  ASSUME SessionInv, UNCHANGED threadVars, UNCHANGED <<forceEnding, stopQueued>>
  PROVE  RunStep
BY DEF RunStep, SessionInv, NoOrphanGame, threadVars

\* An admission, or its refusal, keeps the invariant.
LEMMA TryAdmitInv ==
  ASSUME SessionInv, NEW s \in Session, NEW n \in {0, 1}, TryAdmit(s, n)
  PROVE  SessionInv'
<1>1. TypeOK' /\ RegistryStep /\ sessions' \subseteq sessions \cup {s}
  BY TryAdmitType, TryAdmitStep DEF SessionInv
<1>2. RunStep
  BY QuietRun DEF TryAdmit
<1>3. \A x \in Session : /\ endTask'[x] = "waiting" => endTask[x] = "waiting"
                         /\ x # s => start'[x] = start[x]
                         /\ thread'[x] = thread[x]
  BY DEF TryAdmit, Admit, TurnAway, BeginPass, LeavePass, ScheduleEnd, threadVars,
         SessionInv, TypeOK
<1>4. StateStep
  <2>1. CASE Admit(s)
    <3>1. gameState' = [gameState EXCEPT ![s] = "STARTING"] /\ s \in sessions'
      BY <2>1 DEF Admit
    <3>2. gameState'[s] = "STARTING"
          /\ \A x \in Session \ {s} : gameState'[x] = gameState[x]
      BY <3>1 DEF SessionInv, TypeOK
    <3>3. \A x \in Session : Admitted(x)' => x = s \/ Admitted(x)
      BY <1>1, <1>3 DEF Admitted
    <3> QED BY <3>1, <3>2, <3>3 DEF StateStep, SessionInv
  <2>2. CASE TurnAway(s, n)
    <3>1. gameState' = gameState /\ sessions' \subseteq sessions
      BY <2>2 DEF TurnAway, Swept
    <3>2. start'[s] \in {"preempt1", "refused"}
      BY <2>2 DEF TurnAway, BeginPass, LeavePass, SessionInv, TypeOK
    <3>3. \A x \in Session : Admitted(x)' => Admitted(x)
      BY <1>3, <3>1, <3>2 DEF Admitted
    <3> QED BY <3>1, <3>3 DEF StateStep, SessionInv
  <2> QED BY <2>1, <2>2 DEF TryAdmit
<1> QED BY <1>1, <1>2, <1>4, Combine

\* Steps of the servicer that only move its own coroutines forward, or change
\* the state of sessions that have one.
LEMMA ServicerOnly ==
  ASSUME SessionInv, TypeOK', UNCHANGED <<sessions, primary, ends, gameState>>,
         UNCHANGED threadVars, UNCHANGED <<forceEnding, stopQueued>>,
         \A x \in Session : Admitted(x)' => Admitted(x)
  PROVE  SessionInv'
<1>1. RegistryStep
  BY QuietRegistry
<1>2. RunStep
  BY QuietRun
<1>3. StateStep
  BY DEF StateStep, SessionInv
<1> QED BY <1>1, <1>2, <1>3, Combine

\* Every request keeps the invariant.
LEMMA RequestInv ==
  ASSUME SessionInv, NEW s \in Session, Request(s)
  PROVE  SessionInv'
<1>0. TypeOK /\ TypeOK'
  BY RequestType DEF SessionInv
<1>1. CASE StartShadow(s)
  BY <1>1, TryAdmitInv DEF StartShadow
<1>2. CASE RefuseShadow(s)
  <2>1. \A x \in Session : Admitted(x)' => Admitted(x)
    BY <1>0, <1>2 DEF RefuseShadow, Admitted, threadVars, TypeOK
  <2> QED BY <1>0, <1>2, <2>1, ServicerOnly DEF RefuseShadow
<1>3. CASE StartReal(s)
  <2>1. CASE LiveShadows = {}
    BY <1>3, <2>1, TryAdmitInv DEF StartReal
  <2>2. CASE LiveShadows # {}
    <3>1. start' = [start EXCEPT ![s] = "preempt0"]
          /\ \A x \in Session : endTask'[x] = "waiting" => endTask[x] = "waiting"
      BY <1>0, <1>3, <2>2 DEF StartReal, BeginPass, ScheduleEnd, TypeOK
    <3>2. \A x \in Session : Admitted(x)' => Admitted(x)
      BY <1>0, <1>3, <2>2, <3>1 DEF StartReal, Admitted, threadVars, TypeOK
    <3> QED BY <1>0, <1>3, <2>2, <3>2, ServicerOnly DEF StartReal
  <2> QED BY <2>1, <2>2
<1>4. CASE AbortStart(s)
  <2>1. RegistryStep /\ sessions' \subseteq sessions
    BY <1>4, RetireStep DEF AbortStart
  <2>2. RunStep
    BY <1>4, QuietRun DEF AbortStart
  <2>3. Admitted(s) /\ \A x \in Session : Admitted(x)' => Admitted(x)
    BY <1>0, <1>4, <2>1 DEF AbortStart, Admitted, threadVars, TypeOK
  <2>4. /\ gameState'[s] = "ENDED"
        /\ \A x \in Session \ {s} : gameState'[x] = gameState[x]
    BY <1>0, <1>4 DEF AbortStart, TypeOK
  <2>5. StateStep
    BY <2>3, <2>4 DEF StateStep, SessionInv
  <2> QED BY <1>0, <2>1, <2>2, <2>5, Combine
<1>5. CASE CancelStart(s)
  <2>1. \A x \in Session : Admitted(x)' => Admitted(x)
    BY <1>0, <1>5 DEF CancelStart, Admitted, threadVars, TypeOK
  <2> QED BY <1>0, <1>5, <2>1, ServicerOnly DEF CancelStart
<1>6. CASE RequestEnd(s)
  <2>1. \A x \in Session : Admitted(x)' => Admitted(x)
    BY <1>0, <1>6 DEF RequestEnd, ScheduleEnd, Admitted, threadVars, TypeOK
  <2> QED BY <1>0, <1>6, <2>1, ServicerOnly DEF RequestEnd
<1> QED BY <1>1, <1>2, <1>3, <1>4, <1>5, <1>6 DEF Request

\* Every step of a start coroutine keeps the invariant.
LEMMA StartStepInv ==
  ASSUME SessionInv, NEW s \in Session, StartStep(s)
  PROVE  SessionInv'
<1>0. TypeOK /\ TypeOK'
  BY StartStepType DEF SessionInv
<1>1. CASE NextInPass(s)
  <2>1. start' = [start EXCEPT ![s] = start[s]]
        /\ \A x \in Session : endTask'[x] = "waiting" => endTask[x] = "waiting"
    BY <1>0, <1>1 DEF NextInPass, BeginPass, ScheduleEnd, TypeOK
  <2>2. \A x \in Session : Admitted(x)' => Admitted(x)
    BY <1>0, <1>1, <2>1 DEF NextInPass, Admitted, threadVars, TypeOK
  <2> QED BY <1>0, <1>1, <2>2, ServicerOnly DEF NextInPass
<1>2. CASE PassDone(s)
  <2>1. CASE start[s] # "evict"
    BY <1>2, <2>1, TryAdmitInv DEF PassDone
  <2>2. CASE start[s] = "evict"
    <3>1. LeavePass(s, "register") /\ UNCHANGED threadVars
          /\ UNCHANGED <<sessions, primary, gameState, gameRunning,
                         forceEnding, stopQueued, ends, misrouted>>
      BY <1>2, <2>2 DEF PassDone
    <3>2. \A x \in Session : Admitted(x)' => Admitted(x)
      BY <1>0, <2>2, <3>1 DEF LeavePass, Admitted, threadVars, TypeOK
    <3> QED BY <1>0, <3>1, <3>2, ServicerOnly
  <2> QED BY <2>1, <2>2
<1>3. CASE FinishStart(s)
  <2>1. RegistryStep
    BY <1>3, QuietRegistry DEF FinishStart
  <2>2. /\ thread'[s] = "connect"
        /\ \A x \in Session \ {s} : thread'[x] = thread[x]
        /\ start'[s] = "started"
        /\ \A x \in Session \ {s} : start'[x] = start[x]
    BY <1>0, <1>3 DEF FinishStart, TypeOK
  <2>3. RunStep
    BY <1>3, <2>2 DEF FinishStart, RunStep, SessionInv, NoOrphanGame, InGame
  <2>4. Admitted(s) /\ \A x \in Session : Admitted(x)' => Admitted(x)
    BY <1>3, <2>2 DEF FinishStart, Admitted
  <2>5. StateStep
    BY <1>3, <2>4 DEF FinishStart, StateStep, SessionInv
  <2> QED BY <1>0, <2>1, <2>3, <2>5, Combine
<1> QED BY <1>1, <1>2, <1>3 DEF StartStep

\* The state sync of a publish sets the state of the publisher or of the
\* registered primary, never of a session that has none.
LEMMA SyncedState ==
  ASSUME SessionInv, NEW s \in Session, NEW v \in {"RUNNING", "ENDED"},
         NEW gs \in [Session -> {"NONE", "STARTING", "RUNNING", "ENDED"}],
         \A x \in Session : gs[x] = "NONE" <=> gameState[x] = "NONE",
         gameState[s] # "NONE"
  PROVE  \A x \in Session : Synced(gs, s, v)[x] = "NONE" <=> gameState[x] = "NONE"
<1> USE SessionsAssumption
<1>1. CASE SyncTarget(s) = None
  BY <1>1 DEF Synced
<1>2. CASE SyncTarget(s) # None
  <2>1. SyncTarget(s) \in Session /\ gameState[SyncTarget(s)] # "NONE"
    <3>1. CASE s \in Real
      <4>1. primary \in Session /\ primary \in sessions
        BY <1>2, <3>1 DEF SyncTarget, SessionInv, PrimarySlot, TypeOK, Session
      <4> QED BY <3>1, <4>1 DEF SyncTarget, SessionInv, Admitted
    <3>2. CASE s \notin Real
      BY <3>2 DEF SyncTarget
    <3> QED BY <3>1, <3>2
  <2>2. Synced(gs, s, v) = [gs EXCEPT ![SyncTarget(s)] = v]
    BY <1>2 DEF Synced
  <2> QED BY <2>1, <2>2
<1> QED BY <1>1, <1>2

\* The end of an end task reports and retires its session.
LEMMA EndCompletesStep ==
  ASSUME SessionInv, NEW s \in Session, EndCompletes(s), gameState[s] # "NONE"
  PROVE  /\ RegistryStep /\ sessions' \subseteq sessions
         /\ \A x \in Session : gameState'[x] = "NONE" <=> gameState[x] = "NONE"
         /\ \A x \in Session : endTask'[x] = "waiting" => endTask[x] = "waiting"
<1>0. TypeOK
  BY DEF SessionInv
<1>1. RegistryStep /\ sessions' \subseteq sessions
  BY RetireStep DEF EndCompletes
<1>2. \A x \in Session : gameState'[x] = "NONE" <=> gameState[x] = "NONE"
  <2> DEFINE gs == [gameState EXCEPT ![s] = "ENDED"]
  <2>1. gs \in [Session -> {"NONE", "STARTING", "RUNNING", "ENDED"}]
        /\ \A x \in Session : gs[x] = "NONE" <=> gameState[x] = "NONE"
    BY <1>0 DEF TypeOK
  <2>2. gameState' = Synced(gs, s, "ENDED")
    BY DEF EndCompletes
  <2> HIDE DEF gs
  <2> QED BY <2>1, <2>2, SyncedState
<1>3. \A x \in Session : endTask'[x] = "waiting" => endTask[x] = "waiting"
  BY <1>0 DEF EndCompletes, TaskOver, TypeOK
<1> QED BY <1>1, <1>2, <1>3

\* Every step of an end task keeps the invariant.
LEMMA EndStepInv ==
  ASSUME SessionInv, NEW s \in Session, EndStep(s)
  PROVE  SessionInv'
<1>0. TypeOK /\ TypeOK'
  BY EndStepType DEF SessionInv
<1>1. CASE EndRefused(s)
  <2>1. \A x \in Session : Admitted(x)' => Admitted(x)
    BY <1>0, <1>1 DEF EndRefused, TaskOver, Admitted, threadVars, TypeOK
  <2> QED BY <1>0, <1>1, <2>1, ServicerOnly DEF EndRefused
<1>2. CASE EndBegins(s)
  <2>1. gameState[s] # "NONE"
    BY <1>2 DEF EndBegins, Live
  <2>2. RunStep
    <3>1. /\ forceEnding' = [forceEnding EXCEPT ![s] = TRUE]
          /\ stopQueued' = [stopQueued EXCEPT ![s] = currentGame[s]]
          /\ UNCHANGED threadVars
      BY <1>2 DEF EndBegins
    <3>2. ASSUME NEW x \in Session, forceEnding'[x], thread'[x] \in InGame
          PROVE  stopQueued'[x] \/ stopped'[x]
      <4>1. currentGame[x]
        BY <3>1, <3>2 DEF SessionInv, threadVars
      <4>2. CASE x = s
        BY <1>0, <3>1, <4>1, <4>2 DEF TypeOK
      <4>3. CASE x # s
        BY <1>0, <3>1, <3>2, <4>3 DEF TypeOK, SessionInv, NoOrphanGame, threadVars
      <4> QED BY <4>2, <4>3
    <3>3. \A x \in Session : thread'[x] = thread[x] /\ currentGame'[x] = currentGame[x]
      BY <3>1 DEF threadVars
    <3> QED BY <3>2, <3>3 DEF RunStep, SessionInv
  <2>3. /\ RegistryStep /\ sessions' \subseteq sessions
        /\ \A x \in Session : gameState'[x] = "NONE" <=> gameState[x] = "NONE"
        /\ \A x \in Session \ {s} : endTask'[x] = "waiting" => endTask[x] = "waiting"
    <3>1. CASE ThreadAlive(s)
      <4>1. RegistryStep
        BY <1>2, <3>1, QuietRegistry DEF EndBegins
      <4> QED BY <1>0, <1>2, <3>1, <4>1 DEF EndBegins, TypeOK
    <3>2. CASE ~ThreadAlive(s)
      BY <1>2, <2>1, <3>2, EndCompletesStep DEF EndBegins
    <3> QED BY <3>1, <3>2
  <2>4. \A x \in Session \ {s} : Admitted(x)' => Admitted(x)
    BY <1>2, <2>3 DEF EndBegins, threadVars, Admitted
  <2>5. StateStep
    BY <2>1, <2>3, <2>4 DEF StateStep, SessionInv
  <2> QED BY <1>0, <2>2, <2>3, <2>5, Combine
<1>3. CASE EndWaited(s)
  <2>1. gameState[s] # "NONE"
    BY <1>3 DEF EndWaited, SessionInv, Admitted
  <2>2. RunStep
    BY <1>3, QuietRun DEF EndWaited
  <2>3. /\ RegistryStep /\ sessions' \subseteq sessions
        /\ \A x \in Session : gameState'[x] = "NONE" <=> gameState[x] = "NONE"
        /\ \A x \in Session : endTask'[x] = "waiting" => endTask[x] = "waiting"
    BY <1>3, <2>1, EndCompletesStep DEF EndWaited
  <2>4. \A x \in Session : Admitted(x)' => Admitted(x)
    BY <1>3, <2>3 DEF EndWaited, threadVars, Admitted
  <2>5. StateStep
    BY <2>3, <2>4 DEF StateStep, SessionInv
  <2> QED BY <1>0, <2>2, <2>3, <2>5, Combine
<1> QED BY <1>1, <1>2, <1>3 DEF EndStep

\* A thread step of an admitted session that leaves registry and reports alone,
\* does not start a game behind a force end, and sets no state to "NONE".
LEMMA ThreadOnly ==
  ASSUME SessionInv, TypeOK', NEW s \in Session, thread[s] # "none", OnlyThread,
         \A x \in Session : gameState'[x] = "NONE" <=> gameState[x] = "NONE",
         \A x \in Session \ {s} : thread'[x] = thread[x], RunStep
  PROVE  SessionInv'
<1>1. RegistryStep
  BY QuietRegistry DEF OnlyThread
<1>2. \A x \in Session : Admitted(x)' => Admitted(x)
  BY DEF OnlyThread, Admitted
<1>3. StateStep
  BY <1>2 DEF StateStep, SessionInv
<1> QED BY <1>1, <1>3, Combine

\* Every step of a game thread keeps the invariant.
LEMMA ThreadStepInv ==
  ASSUME SessionInv, NEW s \in Session, ThreadStep(s)
  PROVE  SessionInv'
<1>0. TypeOK /\ TypeOK'
  BY ThreadStepType DEF SessionInv
<1> USE DEF Goto, InGame
<1>1. CASE CannotRun(s)
  <2>1. gameState[s] # "NONE"
    BY <1>1 DEF CannotRun, SessionInv, Admitted
  <2>2. RunStep
    BY <1>0, <1>1 DEF CannotRun, OnlyThread, RunStep, SessionInv, NoOrphanGame, TypeOK
  <2> QED BY <1>0, <1>1, <2>1, <2>2, ThreadOnly DEF CannotRun, TypeOK
<1>2. CASE Connected(s)
  <2>1. RunStep
    BY <1>0, <1>2 DEF Connected, OnlyThread, RunStep, SessionInv, NoOrphanGame, TypeOK
  <2> QED BY <1>0, <1>2, <2>1, ThreadOnly DEF Connected, TypeOK
<1>3. CASE ProvidersAwaited(s)
  <2>1. RunStep
    BY <1>0, <1>3 DEF ProvidersAwaited, OnlyThread, RunStep, SessionInv, NoOrphanGame, TypeOK
  <2> QED BY <1>0, <1>3, <2>1, ThreadOnly DEF ProvidersAwaited, TypeOK
<1>4. CASE GameBuilt(s)
  <2>1. RunStep
    BY <1>0, <1>4 DEF GameBuilt, OnlyThread, RunStep, SessionInv, NoOrphanGame, TypeOK
  <2> QED BY <1>0, <1>4, <2>1, ThreadOnly DEF GameBuilt, TypeOK
<1>5. CASE TakeForceEnd(s)
  <2>1. RunStep
    BY <1>0, <1>5 DEF TakeForceEnd, OnlyThread, RunStep, SessionInv, NoOrphanGame, TypeOK
  <2> QED BY <1>0, <1>5, <2>1, ThreadOnly DEF TakeForceEnd, TypeOK
<1>6. CASE Initialized(s)
  <2>1. RunStep
    BY <1>0, <1>6 DEF Initialized, OnlyThread, RunStep, SessionInv, NoOrphanGame, TypeOK
  <2> QED BY <1>0, <1>6, <2>1, ThreadOnly DEF Initialized, TypeOK
<1>7. CASE GameOver(s)
  <2>1. RunStep
    BY <1>0, <1>7 DEF GameOver, OnlyThread, RunStep, SessionInv, NoOrphanGame, TypeOK
  <2> QED BY <1>0, <1>7, <2>1, ThreadOnly DEF GameOver, TypeOK
<1>8. ASSUME NEW v \in {"RUNNING", "ENDED"}, NEW pc \in {"exit", "play"},
             Publish(s, v, pc), thread[s] # "none",
             pc = "play" => thread[s] \in InGame
      PROVE  SessionInv'
  <2>1. gameState[s] # "NONE"
    BY <1>8 DEF SessionInv, Admitted
  <2>2. \A x \in Session : gameState'[x] = "NONE" <=> gameState[x] = "NONE"
    BY <1>0, <1>8, <2>1, SyncedState DEF Publish, TypeOK
  <2>3. RunStep
    BY <1>0, <1>8 DEF Publish, OnlyThread, RunStep, SessionInv, NoOrphanGame, TypeOK
  <2> QED BY <1>0, <1>8, <2>2, <2>3, ThreadOnly DEF Publish, TypeOK
<1>9. CASE PublishStarted(s)
  BY <1>8, <1>9 DEF PublishStarted
<1>10. CASE PublishEnded(s)
  BY <1>8, <1>10 DEF PublishEnded
<1>11. CASE PublishError(s)
  BY <1>8, <1>11 DEF PublishError
<1>12. CASE Exit(s)
  <2>1. gameState[s] # "NONE"
    BY <1>12 DEF Exit, SessionInv, Admitted
  <2>2. RunStep
    BY <1>0, <1>12 DEF Exit, OnlyThread, RunStep, SessionInv, NoOrphanGame, TypeOK
  <2> QED BY <1>0, <1>12, <2>1, <2>2, ThreadOnly DEF Exit, TypeOK
<1>13. CASE OnGameEnded(s)
  <2>1. /\ ends'[s] = 1
        /\ \A x \in Session \ {s} : ends'[x] = ends[x]
    BY SMTT(20), <1>0, <1>13, QueueEndType DEF OnGameEnded, TypeOK, SessionInv, EndsReportedOnce
  <2>2. RegistryStep
    BY <1>0, <1>13, <2>1, SessionsAssumption
       DEF OnGameEnded, RegistryStep, SessionInv, PrimarySlot, EndsReportedOnce,
           TypeOK, Session
  <2>3. RunStep
    BY <1>0, <1>13, <2>1 DEF OnGameEnded, RunStep, SessionInv, NoOrphanGame, TypeOK
  <2>4. \A x \in Session : Admitted(x)' => Admitted(x)
    BY <1>0, <1>13 DEF OnGameEnded, Admitted, TypeOK
  <2>5. StateStep
    BY <1>13, <2>4 DEF OnGameEnded, StateStep, SessionInv
  <2> QED BY <1>0, <2>2, <2>3, <2>5, Combine
<1> QED
  BY <1>1, <1>2, <1>3, <1>4, <1>5, <1>6, <1>7, <1>9, <1>10, <1>11, <1>12, <1>13
     DEF ThreadStep

\* The invariant holds at the start.
LEMMA InitInv == Init => SessionInv
<1> SUFFICES ASSUME Init PROVE SessionInv
  OBVIOUS
<1>1. TypeOK
  BY InitTypeOK
<1>2. PrimarySlot
  BY DEF Init, PrimarySlot
<1>3. EndsReportedOnce /\ NoOrphanGame
      /\ \A s \in Session : thread[s] \in InGame => currentGame[s]
  BY DEF Init, EndsReportedOnce, NoOrphanGame, InGame
<1>4. \A s \in Session : Admitted(s) => gameState[s] # "NONE"
  BY DEF Init, Admitted
<1> QED BY <1>1, <1>2, <1>3, <1>4 DEF SessionInv

\* Every step keeps the invariant.
LEMMA NextInv == SessionInv /\ [Next]_vars => SessionInv'
<1> SUFFICES ASSUME SessionInv, [Next]_vars PROVE SessionInv'
  OBVIOUS
<1>1. CASE Next
  BY <1>1, RequestInv, StartStepInv, EndStepInv, ThreadStepInv DEF Next
<1>2. CASE UNCHANGED vars
  BY <1>2 DEF vars, SessionInv, TypeOK, PrimarySlot, EndsReportedOnce,
              NoOrphanGame, Admitted
<1> QED BY <1>1, <1>2

\* The inductive invariant of the registry holds in every behaviour.
THEOREM InvariantHolds == Spec => []SessionInv
BY InitInv, NextInv, PTL DEF Spec

\* The primary slot names the one registered real session, always.
THEOREM SlotCorrect == Spec => []PrimarySlot
<1>1. SessionInv => PrimarySlot
  BY DEF SessionInv
<1> QED BY <1>1, InvariantHolds, PTL

\* Every ended session is reported to the flag service exactly once.
THEOREM ReportedOnce == Spec => []EndsReportedOnce
<1>1. SessionInv => EndsReportedOnce
  BY DEF SessionInv
<1> QED BY <1>1, InvariantHolds, PTL

\* A force-ended session leaves no game behind that was not told to stop.
THEOREM NoOrphan == Spec => []NoOrphanGame
<1>1. SessionInv => NoOrphanGame
  BY DEF SessionInv
<1> QED BY <1>1, InvariantHolds, PTL

-----------------------------------------------------------------------------
(* Real games exclude each other, and the shadows beside them. *)

\* A thread that is past its game.
Done == {"failing", "exit", "hook", "gone"}

\* A session whose game will never play again unasked.
Over(s) ==
  \/ forceEnding[s]
  \/ thread[s] \in Done
  \/ start[s] = "aborted" /\ thread[s] = "none"

\* A game thread exists only behind a start that went through.
ThreadAfterStart == \A s \in Session : start[s] # "started" => thread[s] = "none"

OnlyRealPasses == \A s \in Session : start[s] \in Passing => s \in Real

Asking == {"idle", "preempt0", "preempt1"}

\* A start that has no answer yet has no session, and only a session is force-ended.
FreshStart ==
  \A s \in Session :
    /\ start[s] \in Asking => gameState[s] = "NONE"
    /\ forceEnding[s] => gameState[s] # "NONE"

\* A registered session that is being force-ended still has its end task to retire it.
WaitsForced ==
  \A s \in Session :
    /\ endTask[s] = "waiting" => forceEnding[s]
    /\ s \in sessions /\ forceEnding[s] => endTask[s] = "waiting"

\* The state the sweep and the admission go by tells the truth: ENDED in the registry
\* means that the thread is past its game.
EndedIsDone ==
  ~misrouted => \A s \in sessions : gameState[s] = "ENDED" => thread[s] \in Done

DroppedIsOver ==
  ~misrouted => \A s \in Session \ sessions : gameState[s] # "NONE" => Over(s)

Ended(x) == x \in sessions => gameState[x] = "ENDED"

\* Beside a live real game a shadow is ended, or the pass of that game still has it to end.
Evicting ==
  ShadowPolicy = "block" /\ ~misrouted =>
    \A r \in Real \cap sessions : Live(r) =>
      \A x \in Shadow :
        Ended(x) \/ (start[r] = "evict" /\ (x \in todo[r] \/ awaits[r] = x))

ExclusionInv ==
  /\ ThreadAfterStart /\ OnlyRealPasses /\ FreshStart /\ WaitsForced
  /\ EndedIsDone /\ DroppedIsOver /\ Evicting

\* The invariant holds at the start.
LEMMA InitExclusion == Init => ExclusionInv
<1> SUFFICES ASSUME Init PROVE ExclusionInv
  OBVIOUS
<1>1. ThreadAfterStart /\ OnlyRealPasses /\ FreshStart /\ WaitsForced
  BY DEF Init, ThreadAfterStart, OnlyRealPasses, FreshStart, WaitsForced, Passing
<1>2. EndedIsDone /\ DroppedIsOver /\ Evicting
  BY DEF Init, EndedIsDone, DroppedIsOver, Evicting
<1> QED BY <1>1, <1>2 DEF ExclusionInv

\* The registered real session holds the slot.
LEMMA SlotHolder ==
  ASSUME SessionInv, NEW r \in Real
  PROVE  r \in sessions <=> r = primary
BY SessionsAssumption DEF SessionInv, PrimarySlot, Session

\* A session that is registered, or has a thread, has a state of its own.
LEMMA HasState ==
  ASSUME SessionInv, NEW s \in Session
  PROVE  /\ s \in sessions => gameState[s] # "NONE"
         /\ thread[s] # "none" => gameState[s] # "NONE"
BY DEF SessionInv, Admitted

\* A session that dropped out, or is registered as ENDED, does not play unasked.
LEMMA EndedSilent ==
  ASSUME SessionInv, ExclusionInv, ~misrouted, NEW x \in Session, Ended(x)
  PROVE  ~Plays(x)
<1>1. CASE x \in sessions
  BY <1>1 DEF ExclusionInv, EndedIsDone, Ended, Done, Plays
<1>2. CASE x \notin sessions
  <2>1. CASE gameState[x] = "NONE"
    BY <2>1, HasState DEF Plays
  <2>2. CASE gameState[x] # "NONE"
    BY <1>2, <2>2 DEF ExclusionInv, DroppedIsOver, Over, Done, Plays
  <2> QED BY <2>1, <2>2
<1> QED BY <1>1, <1>2

\* What exclusion says of the games follows from the invariant.
LEMMA ExclusionMeans ==
  ASSUME SessionInv, ExclusionInv
  PROVE  OneRealGame /\ NoShadowBesideReal
<1> USE SessionsAssumption DEF Session
<1>1. ASSUME ~misrouted, NEW r \in Real, Plays(r)
      PROVE  r = primary
  <2>1. r \in sessions
    BY <1>1, EndedSilent DEF Ended
  <2> QED BY <2>1, SlotHolder
<1>2. OneRealGame
  BY <1>1 DEF OneRealGame
<1>3. ASSUME ShadowPolicy = "block", ~misrouted, NEW r \in Real \cap sessions,
             start[r] \in {"register", "started"}, Live(r)
      PROVE  LiveShadows = {} /\ \A x \in Shadow : ~Plays(x)
  <2>1. \A x \in Shadow : Ended(x)
    BY <1>3 DEF ExclusionInv, Evicting
  <2>2. \A x \in Shadow : ~Plays(x)
    BY <1>3, <2>1, EndedSilent
  <2> QED BY <2>1, <2>2 DEF LiveShadows, Live, Ended
<1>4. NoShadowBesideReal
  BY <1>3 DEF NoShadowBesideReal
<1> QED BY <1>2, <1>4

\* What the steps of coroutines and end tasks leave as it is.
CalmStep ==
  /\ UNCHANGED <<sessions, gameState, misrouted, thread>>
  /\ \A x \in Session :
       /\ start'[x] # "started" => start[x] # "started"
       /\ start'[x] \in Passing => x \in Real
       /\ start'[x] \in Asking => start[x] \in Asking
       /\ start[x] = "aborted" => start'[x] = "aborted"

\* A step of a coroutine or an end task that touches no session keeps the invariant if it
\* keeps the waiting ends and the passes.
LEMMA CalmExclusion ==
  ASSUME SessionInv, ExclusionInv, CalmStep, WaitsForced', Evicting',
         \A x \in Session : /\ forceEnding[x] => forceEnding'[x]
                            /\ forceEnding'[x] => gameState[x] # "NONE"
  PROVE  ExclusionInv'
<1> USE DEF ExclusionInv, CalmStep
<1>1. ThreadAfterStart' /\ OnlyRealPasses' /\ FreshStart'
  BY DEF ThreadAfterStart, OnlyRealPasses, FreshStart
<1>2. EndedIsDone'
  BY DEF EndedIsDone
<1>3. DroppedIsOver'
  BY DEF DroppedIsOver, Over
<1> QED BY <1>1, <1>2, <1>3

\* The pass of s begins, or goes on, with the shadows of xs: nobody else's pass changes.
LEMMA BeginPassMoves ==
  ASSUME TypeOK, NEW s \in Session, NEW xs \in SUBSET Shadow, NEW pc \in Passing,
         BeginPass(s, xs, pc)
  PROVE  /\ start'[s] = pc /\ \A x \in xs : x \in todo'[s] \/ awaits'[s] = x
         /\ \A x \in Session \ {s} : start'[x] = start[x] /\ todo'[x] = todo[x]
                                     /\ awaits'[x] = awaits[x]
         /\ \A x \in Session : endTask'[x] = "waiting" <=> endTask[x] = "waiting"
BY DEF BeginPass, ScheduleEnd, TypeOK

\* A waiting end is kept where registry and claims are.
LEMMA SameWaits ==
  ASSUME ExclusionInv, UNCHANGED <<sessions, forceEnding>>,
         \A x \in Session : endTask'[x] = "waiting" <=> endTask[x] = "waiting"
  PROVE  WaitsForced'
BY DEF ExclusionInv, WaitsForced

\* Registering a start, or turning it away, keeps the invariant.  A shadow is registered
\* under policy block only while no real game is live.
LEMMA TryAdmitExclusion ==
  ASSUME SessionInv, ExclusionInv, NEW s \in Session, NEW n \in {0, 1}, TryAdmit(s, n),
         start[s] \in Asking, s \in Shadow => ~(HasLiveRealGame /\ ShadowPolicy = "block")
  PROVE  ExclusionInv'
<1> USE SessionsAssumption
<1>0. TypeOK /\ gameState[s] = "NONE" /\ ~forceEnding[s] /\ s \notin sessions
  BY HasState DEF SessionInv, ExclusionInv, FreshStart, TypeOK
<1>1. /\ UNCHANGED <<forceEnding, misrouted, thread>>
      /\ \A x \in Session : endTask'[x] = "waiting" <=> endTask[x] = "waiting"
      /\ \A x \in Session \ {s} : start'[x] = start[x] /\ todo'[x] = todo[x]
                                  /\ awaits'[x] = awaits[x]
      /\ s \in Shadow => start'[s] \notin Passing
      /\ start'[s] \in {"preempt1", "evict", "register", "refused"}
  <2>1. CASE Admit(s)
    <3>1. CASE s \in Real /\ Swept \cap Shadow # {}
      BY <1>0, <2>1, <3>1, BeginPassMoves, "evict" \in Passing
         DEF TryAdmit, Admit, threadVars, Passing, Session
    <3>2. CASE ~(s \in Real /\ Swept \cap Shadow # {})
      BY <1>0, <2>1, <3>2 DEF TryAdmit, Admit, LeavePass, threadVars, Passing, TypeOK
    <3> QED BY <3>1, <3>2
  <2>2. CASE TurnAway(s, n)
    <3>1. CASE s \in Real /\ n = 0 /\ LiveShadows # {}
      BY <1>0, <2>2, <3>1, BeginPassMoves, "preempt1" \in Passing
         DEF TryAdmit, TurnAway, threadVars, Passing, Session, LiveShadows
    <3>2. CASE ~(s \in Real /\ n = 0 /\ LiveShadows # {})
      BY <1>0, <2>2, <3>2 DEF TryAdmit, TurnAway, LeavePass, threadVars, Passing, TypeOK
    <3> QED BY <3>1, <3>2
  <2> QED BY <2>1, <2>2 DEF TryAdmit
<1>2. /\ sessions' \subseteq Swept \cup {s} /\ Swept \subseteq sessions'
      /\ \A x \in Session \ {s} : gameState'[x] = gameState[x]
      /\ s \in sessions' => gameState'[s] = "STARTING" /\ start'[s] \in {"evict", "register"}
      /\ s \notin sessions' => gameState'[s] = "NONE"
  <2>1. CASE Admit(s)
    <3>1. start'[s] \in {"evict", "register"}
      BY <1>0, <2>1 DEF Admit, BeginPass, LeavePass, TypeOK
    <3> QED BY <1>0, <2>1, <3>1 DEF Admit, TypeOK
  <2>2. CASE TurnAway(s, n)
    BY <1>0, <2>2 DEF TurnAway, Swept
  <2> QED BY <2>1, <2>2 DEF TryAdmit
<1>3. ThreadAfterStart' /\ OnlyRealPasses'
  BY <1>0, <1>1 DEF ExclusionInv, ThreadAfterStart, OnlyRealPasses, Session, Asking
<1>4. FreshStart' /\ WaitsForced'
  <2>1. FreshStart'
    BY <1>0, <1>1, <1>2 DEF ExclusionInv, FreshStart, Asking
  <2>2. WaitsForced'
    BY <1>0, <1>1, <1>2 DEF ExclusionInv, WaitsForced, Swept
  <2> QED BY <2>1, <2>2
<1>5. EndedIsDone'
  BY <1>1, <1>2 DEF ExclusionInv, EndedIsDone, Swept, TypeOK, SessionInv
<1>6. DroppedIsOver'
  <2> SUFFICES ASSUME ~misrouted, NEW x \in Session \ sessions', gameState'[x] # "NONE"
               PROVE  Over(x)'
    BY <1>1 DEF DroppedIsOver
  <2>1. x # s /\ gameState[x] # "NONE"
    BY <1>2
  <2>2. CASE x \in sessions
    BY <1>1, <1>2, <2>1, <2>2 DEF ExclusionInv, EndedIsDone, Swept, Over
  <2>3. CASE x \notin sessions
    BY <1>1, <2>1, <2>3 DEF ExclusionInv, DroppedIsOver, Over
  <2> QED BY <2>2, <2>3
<1>7. Evicting'
  <2> SUFFICES ASSUME ShadowPolicy = "block", ~misrouted, NEW r \in Real \cap sessions',
                      Live(r)', NEW x \in Shadow
               PROVE  Ended(x)' \/ (start'[r] = "evict" /\ (x \in todo'[r] \/ awaits'[r] = x))
    BY <1>1 DEF Evicting
  <2>1. CASE r = s
    <3>1. Admit(s)
      BY <1>0, <2>1 DEF TryAdmit, TurnAway, Swept
    <3>2. CASE Swept \cap Shadow # {}
      <4>1. BeginPass(s, Swept \cap Shadow, "evict") /\ sessions' = Swept \cup {s}
        BY <2>1, <3>1, <3>2 DEF Admit
      <4>2. start'[s] = "evict"
            /\ \A y \in Swept \cap Shadow : y \in todo'[s] \/ awaits'[s] = y
        BY <1>0, <4>1, BeginPassMoves, "evict" \in Passing DEF Passing
      <4> QED BY <2>1, <4>1, <4>2 DEF Ended
    <3>3. CASE Swept \cap Shadow = {}
      BY <2>1, <3>1, <3>3 DEF Admit, Ended
    <3> QED BY <3>2, <3>3
  <2>2. CASE r # s
    <3>1. r \in sessions /\ r \in Swept /\ Live(r) /\ r \in Session
      BY <1>2, <2>2 DEF Swept, Live, Session
    <3>2. r = primary
      BY <3>1, SlotHolder
    <3>3. s \notin sessions'
      <4>1. CASE s \in Shadow
        BY <3>1, <3>2, <4>1 DEF HasLiveRealGame
      <4>2. CASE s \in Real
        <5>1. CapFull(s)
          BY <3>1, <3>2, <4>2 DEF CapFull, SlotAfterSweep, Session
        <5>2. sessions' = Swept
          BY <5>1 DEF TryAdmit, Admit, TurnAway
        <5> QED BY <1>0, <5>2 DEF Swept
      <4> QED BY <4>1, <4>2 DEF Session
    <3>4. Ended(x) \/ (start[r] = "evict" /\ (x \in todo[r] \/ awaits[r] = x))
      BY <3>1 DEF ExclusionInv, Evicting
    <3> QED BY <1>1, <1>2, <2>2, <3>1, <3>3, <3>4 DEF Ended, Swept, Session
  <2> QED BY <2>1, <2>2
<1> QED BY <1>3, <1>4, <1>5, <1>6, <1>7 DEF ExclusionInv

\* A pass that begins or goes on keeps the invariant: a registered session goes on with
\* the shadows it has left.
LEMMA PassExclusion ==
  ASSUME SessionInv, ExclusionInv, NEW s \in Real, NEW xs \in SUBSET Shadow,
         NEW pc \in Passing, BeginPass(s, xs, pc),
         start[s] \in {"idle"} \cup Passing, pc \in Asking => start[s] \in Asking,
         start[s] = "evict" => pc = "evict" /\ xs = todo[s] /\ awaits[s] = None,
         UNCHANGED <<sessions, gameState, misrouted, thread, forceEnding>>
  PROVE  ExclusionInv'
<1> USE SessionsAssumption
<1>0. TypeOK /\ s \in Session
  BY DEF SessionInv, Session
<1>1. /\ start'[s] = pc /\ \A x \in xs : x \in todo'[s] \/ awaits'[s] = x
      /\ \A x \in Session \ {s} : start'[x] = start[x] /\ todo'[x] = todo[x]
                                  /\ awaits'[x] = awaits[x]
      /\ \A x \in Session : endTask'[x] = "waiting" <=> endTask[x] = "waiting"
  BY <1>0, BeginPassMoves
<1>2. CalmStep
  BY <1>0, <1>1 DEF CalmStep, Asking, Passing, ExclusionInv, OnlyRealPasses
<1>3. WaitsForced'
  BY <1>1, SameWaits
<1>4. Evicting'
  <2> SUFFICES ASSUME ShadowPolicy = "block", ~misrouted, NEW r \in Real \cap sessions,
                      Live(r), NEW x \in Shadow
               PROVE  Ended(x)' \/ (start'[r] = "evict" /\ (x \in todo'[r] \/ awaits'[r] = x))
    BY DEF Evicting, Live
  <2>1. Ended(x) \/ (start[r] = "evict" /\ (x \in todo[r] \/ awaits[r] = x))
    BY DEF ExclusionInv, Evicting
  <2>2. Ended(x) => Ended(x)'
    BY DEF Ended
  <2>3. CASE r = s
    BY <1>1, <2>1, <2>2, <2>3
  <2>4. CASE r # s
    BY <1>1, <2>1, <2>2, <2>4 DEF Session
  <2> QED BY <2>3, <2>4
<1>5. \A x \in Session : forceEnding[x] => gameState[x] # "NONE"
  BY DEF ExclusionInv, FreshStart
<1> QED BY <1>2, <1>3, <1>4, <1>5, CalmExclusion

\* A step that moves only the coroutine of s keeps the invariant, if the passes do.
LEMMA LeaveExclusion ==
  ASSUME SessionInv, ExclusionInv, NEW s \in Session,
         NEW pc \in {"refused", "aborted", "register"},
         start' = [start EXCEPT ![s] = pc], start[s] \notin {"started", "aborted"},
         s \in sessions => start[s] = "evict" /\ todo[s] = {} /\ awaits[s] = None,
         \A x \in Session \ {s} : todo'[x] = todo[x] /\ awaits'[x] = awaits[x],
         UNCHANGED <<sessions, gameState, misrouted, thread, forceEnding, endTask>>
  PROVE  ExclusionInv'
<1> USE SessionsAssumption
<1>0. TypeOK
  BY DEF SessionInv
<1>1. CalmStep
  BY <1>0 DEF CalmStep, Asking, Passing, ExclusionInv, OnlyRealPasses, TypeOK
<1>2. WaitsForced'
  BY SameWaits
<1>3. Evicting'
  <2> SUFFICES ASSUME ShadowPolicy = "block", ~misrouted, NEW r \in Real \cap sessions,
                      Live(r), NEW x \in Shadow
               PROVE  Ended(x)' \/ (start'[r] = "evict" /\ (x \in todo'[r] \/ awaits'[r] = x))
    BY DEF Evicting, Live
  <2>1. Ended(x) \/ (start[r] = "evict" /\ (x \in todo[r] \/ awaits[r] = x))
    BY DEF ExclusionInv, Evicting
  <2>2. Ended(x) => Ended(x)'
    BY DEF Ended
  <2>3. CASE r = s
    BY <2>1, <2>2, <2>3 DEF Session
  <2>4. CASE r # s
    BY <1>0, <2>1, <2>2, <2>4 DEF Session, TypeOK
  <2> QED BY <2>3, <2>4
<1>4. \A x \in Session : forceEnding[x] => gameState[x] # "NONE"
  BY DEF ExclusionInv, FreshStart
<1> QED BY <1>1, <1>2, <1>3, <1>4, CalmExclusion

\* An aborted start takes its session along and leaves a session that is over.
LEMMA AbortExclusion ==
  ASSUME SessionInv, ExclusionInv, NEW s \in Session, AbortStart(s)
  PROVE  ExclusionInv'
<1> USE SessionsAssumption
<1>0. TypeOK /\ thread[s] = "none"
  BY DEF SessionInv, ExclusionInv, ThreadAfterStart, AbortStart
<1>1. /\ UNCHANGED <<forceEnding, endTask, misrouted, thread>>
      /\ start'[s] = "aborted" /\ sessions' = sessions \ {s}
      /\ \A x \in Session \ {s} : start'[x] = start[x] /\ todo'[x] = todo[x]
                                  /\ awaits'[x] = awaits[x] /\ gameState'[x] = gameState[x]
      /\ gameState'[s] = "ENDED"
  BY <1>0 DEF AbortStart, Retire, threadVars, TypeOK
<1>2. ThreadAfterStart' /\ OnlyRealPasses'
  BY <1>0, <1>1 DEF ExclusionInv, ThreadAfterStart, OnlyRealPasses, Passing
<1>3. FreshStart' /\ WaitsForced'
  BY <1>1 DEF ExclusionInv, FreshStart, WaitsForced, Asking
<1>4. EndedIsDone'
  BY <1>0, <1>1 DEF ExclusionInv, EndedIsDone, TypeOK
<1>5. DroppedIsOver'
  BY <1>0, <1>1 DEF ExclusionInv, DroppedIsOver, Over
<1>6. Evicting'
  <2> SUFFICES ASSUME ShadowPolicy = "block", ~misrouted, NEW r \in Real \cap sessions',
                      Live(r)', NEW x \in Shadow
               PROVE  Ended(x)' \/ (start'[r] = "evict" /\ (x \in todo'[r] \/ awaits'[r] = x))
    BY <1>1 DEF Evicting
  <2>1. r # s /\ r \in Session /\ x \in Session
    BY <1>1 DEF Session
  <2>2. Ended(x) \/ (start[r] = "evict" /\ (x \in todo[r] \/ awaits[r] = x))
    BY <1>1, <2>1 DEF ExclusionInv, Evicting, Live
  <2>3. Ended(x) => Ended(x)'
    BY <1>1, <2>1 DEF Ended
  <2> QED BY <1>1, <2>1, <2>2, <2>3
<1> QED BY <1>2, <1>3, <1>4, <1>5, <1>6 DEF ExclusionInv

\* Every request keeps the invariant.
LEMMA RequestExclusion ==
  ASSUME SessionInv, ExclusionInv, NEW s \in Session, Request(s)
  PROVE  ExclusionInv'
<1> USE SessionsAssumption
<1>0. TypeOK
  BY DEF SessionInv
<1>1. CASE StartShadow(s)
  BY <1>1, TryAdmitExclusion DEF StartShadow, Asking
<1>2. start[s] \in {"idle", "preempt0", "preempt1"} => s \notin sessions
  BY HasState DEF ExclusionInv, FreshStart, Asking
<1>3. CASE RefuseShadow(s)
  BY <1>2, <1>3, LeaveExclusion DEF RefuseShadow, threadVars
<1>4. CASE StartReal(s)
  <2>1. CASE LiveShadows = {}
    BY <1>4, <2>1, TryAdmitExclusion DEF StartReal, Asking, Session
  <2>2. CASE LiveShadows # {}
    <3>1. LiveShadows \in SUBSET Shadow /\ "preempt0" \in Passing
      BY DEF LiveShadows, Passing
    <3> QED BY <1>4, <2>2, <3>1, PassExclusion DEF StartReal, Asking, threadVars
  <2> QED BY <2>1, <2>2
<1>5. CASE AbortStart(s)
  BY <1>5, AbortExclusion
<1>6. CASE CancelStart(s)
  <2>1. \A x \in Session \ {s} : todo'[x] = todo[x] /\ awaits'[x] = awaits[x]
    BY <1>0, <1>6 DEF CancelStart, TypeOK
  <2> QED BY <1>2, <1>6, <2>1, LeaveExclusion DEF CancelStart, threadVars
<1>7. CASE RequestEnd(s)
  <2>1. CalmStep
    BY <1>7 DEF RequestEnd, CalmStep, threadVars, ExclusionInv, OnlyRealPasses
  <2>2. \A x \in Session : endTask'[x] = "waiting" <=> endTask[x] = "waiting"
    BY <1>0, <1>7 DEF RequestEnd, ScheduleEnd, TypeOK
  <2>3. WaitsForced'
    BY <1>7, <2>2, SameWaits DEF RequestEnd
  <2>4. Evicting'
    BY <1>7 DEF RequestEnd, ExclusionInv, Evicting, Ended, Live
  <2>5. UNCHANGED forceEnding /\ \A x \in Session : forceEnding[x] => gameState[x] # "NONE"
    BY <1>7 DEF RequestEnd, ExclusionInv, FreshStart
  <2> QED BY <2>1, <2>3, <2>4, <2>5, CalmExclusion
<1> QED BY <1>1, <1>3, <1>4, <1>5, <1>6, <1>7 DEF Request

\* The start that went through has a thread from now on.
LEMMA FinishExclusion ==
  ASSUME SessionInv, ExclusionInv, NEW s \in Session, FinishStart(s)
  PROVE  ExclusionInv'
<1>0. TypeOK /\ thread[s] = "none"
  BY DEF SessionInv, ExclusionInv, ThreadAfterStart, FinishStart
<1>1. /\ UNCHANGED <<forceEnding, endTask, misrouted, sessions, gameState, todo, awaits>>
      /\ start[s] = "register" /\ start'[s] = "started" /\ thread'[s] = "connect"
      /\ \A x \in Session \ {s} : start'[x] = start[x] /\ thread'[x] = thread[x]
  BY <1>0 DEF FinishStart, TypeOK
<1>2. ThreadAfterStart' /\ OnlyRealPasses'
  BY <1>0, <1>1 DEF ExclusionInv, ThreadAfterStart, OnlyRealPasses, Passing
<1>3. FreshStart' /\ WaitsForced'
  BY <1>1 DEF ExclusionInv, FreshStart, WaitsForced, Asking
<1>4. EndedIsDone'
  BY <1>0, <1>1 DEF ExclusionInv, EndedIsDone, Done, TypeOK
<1>5. DroppedIsOver'
  BY <1>0, <1>1 DEF ExclusionInv, DroppedIsOver, Over, Done
<1>6. Evicting'
  BY <1>0, <1>1 DEF ExclusionInv, Evicting, Ended, Live, Session
<1> QED BY <1>2, <1>3, <1>4, <1>5, <1>6 DEF ExclusionInv

\* Every step of a start's coroutine keeps the invariant.
LEMMA StartStepExclusion ==
  ASSUME SessionInv, ExclusionInv, NEW s \in Session, StartStep(s)
  PROVE  ExclusionInv'
<1> USE SessionsAssumption
<1>0. TypeOK
  BY DEF SessionInv
<1>1. CASE NextInPass(s)
  <2>1. s \in Real /\ todo[s] \in SUBSET Shadow
    BY <1>0, <1>1 DEF NextInPass, ExclusionInv, OnlyRealPasses, TypeOK
  <2>2. start[s] \in Passing /\ BeginPass(s, todo[s], start[s])
        /\ UNCHANGED <<sessions, gameState, misrouted, thread, forceEnding>>
    BY <1>1 DEF NextInPass, threadVars
  <2> QED BY <1>1, <2>1, <2>2, PassExclusion DEF NextInPass
<1>2. CASE PassDone(s)
  <2>1. s \in Real
    BY <1>2 DEF PassDone, ExclusionInv, OnlyRealPasses
  <2>2. CASE start[s] = "preempt0" /\ TryAdmit(s, 0)
    BY <2>1, <2>2, TryAdmitExclusion DEF Asking, Session
  <2>3. CASE start[s] = "preempt1" /\ TryAdmit(s, 1)
    BY <2>1, <2>3, TryAdmitExclusion DEF Asking, Session
  <2>4. CASE start[s] = "evict"
    BY <1>2, <2>4, LeaveExclusion DEF PassDone, LeavePass, threadVars, TryAdmit
  <2> QED BY <1>2, <2>2, <2>3, <2>4 DEF PassDone
<1>3. CASE FinishStart(s)
  BY <1>3, FinishExclusion
<1> QED BY <1>1, <1>2, <1>3 DEF StartStep

\* An event of s that is routed right sets the state of s at most.
LEMMA RightRoute ==
  ASSUME SessionInv, NEW s \in Session, NEW v \in {"RUNNING", "ENDED"},
         NEW gs \in [Session -> {"NONE", "STARTING", "RUNNING", "ENDED"}], NoteRoute(s)
  PROVE  ~misrouted' => /\ ~misrouted
                        /\ \A x \in Session \ {s} : Synced(gs, s, v)[x] = gs[x]
                        /\ Synced(gs, s, v)[s] \in {gs[s], v}
BY DEF NoteRoute, Synced

\* An end task that completes retires a session that is over.
LEMMA EndCompletesExclusion ==
  ASSUME SessionInv, ExclusionInv, NEW s \in Session, EndCompletes(s), gameState[s] # "NONE",
         UNCHANGED <<start, todo, thread>>, forceEnding'[s],
         \A x \in Session \ {s} : forceEnding'[x] = forceEnding[x]
  PROVE  ExclusionInv'
<1> USE SessionsAssumption
<1>0. TypeOK
  BY DEF SessionInv
<1> DEFINE gs == [gameState EXCEPT ![s] = "ENDED"]
<1>1. /\ sessions' = sessions \ {s}
      /\ \A x \in Session \ {s} : endTask'[x] = endTask[x]
      /\ \A p \in Session, x \in Session \ {s} : awaits[p] = x => awaits'[p] = x
  BY <1>0 DEF EndCompletes, TaskOver, Retire, TypeOK
<1>2. \A x \in Session : gameState'[x] = "NONE" <=> gameState[x] = "NONE"
  BY EndCompletesStep
<1>3. ~misrouted' => /\ ~misrouted /\ gameState'[s] = "ENDED"
                     /\ \A x \in Session \ {s} : gameState'[x] = gameState[x]
  <2>1. gs \in [Session -> {"NONE", "STARTING", "RUNNING", "ENDED"}]
        /\ gs[s] = "ENDED" /\ \A x \in Session \ {s} : gs[x] = gameState[x]
    BY <1>0 DEF TypeOK
  <2>2. gameState' = Synced(gs, s, "ENDED") /\ NoteRoute(s)
    BY DEF EndCompletes
  <2> HIDE DEF gs
  <2>3. "ENDED" \in {"RUNNING", "ENDED"}
    OBVIOUS
  <2> QED BY <2>1, <2>2, <2>3, RightRoute
<1>4. ThreadAfterStart' /\ OnlyRealPasses'
  BY DEF ExclusionInv, ThreadAfterStart, OnlyRealPasses
<1>5. FreshStart' /\ WaitsForced'
  <2>1. FreshStart'
    BY <1>2 DEF ExclusionInv, FreshStart
  <2>2. endTask'[s] = "none"
    BY <1>0 DEF EndCompletes, TaskOver, TypeOK
  <2>3. WaitsForced'
    BY <1>1, <2>2 DEF ExclusionInv, WaitsForced
  <2> QED BY <2>1, <2>3
<1>6. EndedIsDone'
  BY <1>0, <1>1, <1>3 DEF ExclusionInv, EndedIsDone, TypeOK
<1>7. DroppedIsOver'
  BY <1>1, <1>2, <1>3 DEF ExclusionInv, DroppedIsOver, Over
<1>8. Evicting'
  <2> SUFFICES ASSUME ShadowPolicy = "block", ~misrouted', NEW r \in Real \cap sessions',
                      Live(r)', NEW x \in Shadow
               PROVE  Ended(x)' \/ (start'[r] = "evict" /\ (x \in todo'[r] \/ awaits'[r] = x))
    BY DEF Evicting
  <2>1. r # s /\ r \in sessions /\ r \in Session /\ x \in Session /\ Live(r)
    BY <1>1, <1>3 DEF Session, Live
  <2>2. Ended(x) \/ (start[r] = "evict" /\ (x \in todo[r] \/ awaits[r] = x))
    BY <1>3, <2>1 DEF ExclusionInv, Evicting
  <2>3. CASE x = s
    BY <1>1, <2>3 DEF Ended
  <2>4. CASE x # s
    BY <1>1, <1>3, <2>1, <2>2, <2>4 DEF Ended
  <2> QED BY <2>3, <2>4
<1> QED BY <1>4, <1>5, <1>6, <1>7, <1>8 DEF ExclusionInv

\* Every step of an end task keeps the invariant.
LEMMA EndStepExclusion ==
  ASSUME SessionInv, ExclusionInv, NEW s \in Session, EndStep(s)
  PROVE  ExclusionInv'
<1> USE SessionsAssumption
<1>0. TypeOK
  BY DEF SessionInv
<1>1. CASE EndRefused(s)
  <2>1. CalmStep
    BY <1>1 DEF EndRefused, CalmStep, threadVars, ExclusionInv, OnlyRealPasses
  <2>2. \A x \in Session : endTask'[x] = "waiting" <=> endTask[x] = "waiting"
    BY <1>0, <1>1 DEF EndRefused, TaskOver, TypeOK
  <2>3. WaitsForced'
    BY <1>1, <2>2, SameWaits DEF EndRefused
  <2>4. Ended(s)
    <3>1. CASE forceEnding[s]
      BY <1>1, <3>1 DEF EndRefused, ExclusionInv, WaitsForced, Ended
    <3>2. CASE ~Live(s)
      BY <1>0, <3>2, HasState DEF Live, Ended, TypeOK
    <3> QED BY <1>1, <3>1, <3>2 DEF EndRefused
  <2>5. UNCHANGED <<sessions, gameState, misrouted, start, todo, forceEnding>>
        /\ \A p \in Session, x \in Session \ {s} : awaits[p] = x => awaits'[p] = x
    BY <1>0, <1>1 DEF EndRefused, TaskOver, TypeOK
  <2>6. Evicting'
    BY <2>4, <2>5 DEF ExclusionInv, Evicting, Ended, Live, Session
  <2>7. \A x \in Session : forceEnding[x] => gameState[x] # "NONE"
    BY DEF ExclusionInv, FreshStart
  <2> QED BY <2>1, <2>3, <2>5, <2>6, <2>7, CalmExclusion
<1>2. CASE EndBegins(s)
  <2>1. /\ gameState[s] # "NONE" /\ forceEnding'[s] /\ UNCHANGED <<start, todo, thread>>
        /\ \A x \in Session \ {s} : forceEnding'[x] = forceEnding[x]
    BY <1>0, <1>2 DEF EndBegins, Live, threadVars, TypeOK
  <2>2. CASE ThreadAlive(s)
    <3>1. CalmStep
      BY <1>2, <2>2 DEF EndBegins, CalmStep, threadVars, ExclusionInv, OnlyRealPasses
    <3>2. UNCHANGED <<sessions, gameState, misrouted, awaits>> /\ endTask'[s] = "waiting"
          /\ \A x \in Session \ {s} : endTask'[x] = endTask[x]
      BY <1>0, <1>2, <2>2 DEF EndBegins, TypeOK
    <3>3. WaitsForced'
      BY <2>1, <3>2 DEF ExclusionInv, WaitsForced
    <3>4. Evicting'
      BY <2>1, <3>2 DEF ExclusionInv, Evicting, Ended, Live
    <3>5. \A x \in Session : /\ forceEnding[x] => forceEnding'[x]
                             /\ forceEnding'[x] => gameState[x] # "NONE"
      BY <2>1 DEF ExclusionInv, FreshStart
    <3> QED BY <3>1, <3>3, <3>4, <3>5, CalmExclusion
  <2>3. CASE ~ThreadAlive(s)
    BY <1>2, <2>1, <2>3, EndCompletesExclusion DEF EndBegins
  <2> QED BY <2>2, <2>3
<1>3. CASE EndWaited(s)
  <2>1. forceEnding[s]
    BY <1>3 DEF EndWaited, ExclusionInv, WaitsForced
  <2>2. gameState[s] # "NONE"
    BY <2>1 DEF ExclusionInv, FreshStart
  <2>3. UNCHANGED <<start, todo, thread, forceEnding>> /\ EndCompletes(s)
    BY <1>3 DEF EndWaited, threadVars
  <2> QED BY <2>1, <2>2, <2>3, EndCompletesExclusion
<1> QED BY <1>1, <1>2, <1>3 DEF EndStep

\* What a step of the thread of s leaves alone, and how far it can move the states.
ThreadMove(s) ==
  /\ UNCHANGED <<start, todo, awaits, endTask, sessions, forceEnding>>
  /\ thread[s] # "none" /\ thread'[s] # "none"
  /\ thread[s] \in Done => thread'[s] \in Done
  /\ \A x \in Session \ {s} : thread'[x] = thread[x]
  /\ \A x \in Session : gameState'[x] = "NONE" <=> gameState[x] = "NONE"
  /\ ~misrouted' =>
       /\ ~misrouted /\ \A x \in Session \ {s} : gameState'[x] = gameState[x]
       /\ gameState'[s] = "ENDED" => gameState[s] = "ENDED" \/ thread'[s] \in Done
       /\ thread[s] \in Done /\ gameState[s] = "ENDED" => gameState'[s] = "ENDED"

\* A step of a game thread that moves no further keeps the invariant.
LEMMA ThreadMoveExclusion ==
  ASSUME SessionInv, ExclusionInv, NEW s \in Session, ThreadMove(s)
  PROVE  ExclusionInv'
<1> USE SessionsAssumption DEF ThreadMove
<1>0. TypeOK
  BY DEF SessionInv
<1>1. ThreadAfterStart' /\ OnlyRealPasses' /\ FreshStart' /\ WaitsForced'
  BY DEF ExclusionInv, ThreadAfterStart, OnlyRealPasses, FreshStart, WaitsForced
<1>2. EndedIsDone'
  BY <1>0 DEF ExclusionInv, EndedIsDone, TypeOK
<1>3. DroppedIsOver'
  BY DEF ExclusionInv, DroppedIsOver, Over
<1>4. Evicting'
  <2> SUFFICES ASSUME ShadowPolicy = "block", ~misrouted', NEW r \in Real \cap sessions',
                      Live(r)', NEW x \in Shadow
               PROVE  Ended(x)' \/ (start'[r] = "evict" /\ (x \in todo'[r] \/ awaits'[r] = x))
    BY DEF Evicting
  <2>1. r \in Session /\ x \in Session /\ r \in sessions
    BY DEF Session
  <2>2. gameState[r] # "ENDED" /\ gameState[r] # "NONE"
    BY <2>1, HasState DEF Live, ExclusionInv, EndedIsDone
  <2>3. Ended(x) \/ (start[r] = "evict" /\ (x \in todo[r] \/ awaits[r] = x))
    BY <1>0, <2>1, <2>2 DEF ExclusionInv, Evicting, Live, TypeOK
  <2>4. Ended(x) => Ended(x)'
    BY <2>1 DEF Ended, ExclusionInv, EndedIsDone
  <2> QED BY <2>3, <2>4
<1> QED BY <1>1, <1>2, <1>3, <1>4 DEF ExclusionInv

\* Every step of a game thread moves the thread and at most the state of its own session.
LEMMA ThreadStepExclusion ==
  ASSUME SessionInv, ExclusionInv, NEW s \in Session, ThreadStep(s)
  PROVE  ExclusionInv'
<1> USE DEF Goto, InGame
<1>0. TypeOK
  BY DEF SessionInv
<1>1. CASE CannotRun(s)
  <2>1. gameState[s] # "NONE"
    BY <1>1, HasState DEF CannotRun
  <2>2. ThreadMove(s)
    BY <1>0, <1>1, <2>1 DEF CannotRun, OnlyThread, ThreadMove, Done, TypeOK
  <2> QED BY <2>2, ThreadMoveExclusion
<1>2. CASE Connected(s) \/ ProvidersAwaited(s)
  <2>1. ThreadMove(s)
    BY <1>0, <1>2 DEF Connected, ProvidersAwaited, OnlyThread, ThreadMove, Done, TypeOK
  <2> QED BY <2>1, ThreadMoveExclusion
<1>3. CASE GameBuilt(s) \/ TakeForceEnd(s)
  <2>1. ThreadMove(s)
    BY <1>0, <1>3 DEF GameBuilt, TakeForceEnd, OnlyThread, ThreadMove, Done, TypeOK
  <2> QED BY <2>1, ThreadMoveExclusion
<1>4. CASE Initialized(s) \/ GameOver(s)
  <2>1. ThreadMove(s)
    BY <1>0, <1>4 DEF Initialized, GameOver, OnlyThread, ThreadMove, Done, TypeOK
  <2> QED BY <2>1, ThreadMoveExclusion
<1>5. ASSUME NEW v \in {"RUNNING", "ENDED"}, NEW pc \in {"exit", "play"}, Publish(s, v, pc),
             thread[s] # "none", pc = "exit" => v = "ENDED",
             pc = "play" => v = "RUNNING" /\ thread[s] \notin Done
      PROVE  ExclusionInv'
  <2>1. gameState[s] # "NONE"
    BY <1>5, HasState
  <2>2. gameState' = Synced(gameState, s, v) /\ NoteRoute(s)
        /\ gameState \in [Session -> {"NONE", "STARTING", "RUNNING", "ENDED"}]
    BY <1>0, <1>5 DEF Publish, TypeOK
  <2>3. \A x \in Session : gameState'[x] = "NONE" <=> gameState[x] = "NONE"
    BY <2>1, <2>2, SyncedState
  <2>4. ~misrouted' => /\ ~misrouted /\ gameState'[s] \in {gameState[s], v}
                       /\ \A x \in Session \ {s} : gameState'[x] = gameState[x]
    BY <2>2, RightRoute
  <2>5. ThreadMove(s)
    BY <1>0, <1>5, <2>3, <2>4 DEF Publish, OnlyThread, ThreadMove, Done, TypeOK
  <2> QED BY <2>5, ThreadMoveExclusion
<1>6. CASE PublishStarted(s)
  BY <1>5, <1>6 DEF PublishStarted, Done
<1>7. CASE PublishEnded(s)
  BY <1>5, <1>7 DEF PublishEnded
<1>8. CASE PublishError(s)
  BY <1>5, <1>8 DEF PublishError
<1>9. CASE Exit(s)
  <2>1. gameState[s] # "NONE"
    BY <1>9, HasState DEF Exit
  <2>2. ThreadMove(s)
    BY <1>0, <1>9, <2>1 DEF Exit, OnlyThread, ThreadMove, Done, TypeOK
  <2> QED BY <2>2, ThreadMoveExclusion
<1>10. CASE OnGameEnded(s)
  <2>1. ThreadMove(s)
    BY <1>0, <1>10 DEF OnGameEnded, ThreadMove, Done, TypeOK
  <2> QED BY <2>1, ThreadMoveExclusion
<1> QED
  BY <1>1, <1>2, <1>3, <1>4, <1>6, <1>7, <1>8, <1>9, <1>10 DEF ThreadStep

\* Every step keeps the invariant of the exclusion.
LEMMA NextExclusion == SessionInv /\ ExclusionInv /\ [Next]_vars => ExclusionInv'
<1> SUFFICES ASSUME SessionInv, ExclusionInv, [Next]_vars PROVE ExclusionInv'
  OBVIOUS
<1>1. CASE Next
  BY <1>1, RequestExclusion, StartStepExclusion, EndStepExclusion, ThreadStepExclusion
     DEF Next
<1>2. CASE UNCHANGED vars
  BY <1>2 DEF vars, ExclusionInv, ThreadAfterStart, OnlyRealPasses, FreshStart, WaitsForced,
              EndedIsDone, DroppedIsOver, Over, Evicting, Ended, Live
<1> QED BY <1>1, <1>2

\* The inductive invariant of the exclusion holds in every behaviour.
THEOREM ExclusionHolds == Spec => []ExclusionInv
BY InitExclusion, NextExclusion, InvariantHolds, PTL DEF Spec

\* Two real games never play at the same time, unless an event was misrouted.
THEOREM RealGamesExclude == Spec => []OneRealGame
<1>1. SessionInv /\ ExclusionInv => OneRealGame
  BY ExclusionMeans
<1> QED BY <1>1, InvariantHolds, ExclusionHolds, PTL

\* Under policy block no shadow plays beside a real game past its preemption.
THEOREM RealGameAlone == Spec => []NoShadowBesideReal
<1>1. SessionInv /\ ExclusionInv => NoShadowBesideReal
  BY ExclusionMeans
<1> QED BY <1>1, InvariantHolds, ExclusionHolds, PTL
=============================================================================
