--------------------------- MODULE FlagLifecycle ---------------------------
(***************************************************************************)
(* How game coordinators keep the flag service's scope registry in step    *)
(* with their games: FlagServiceLifecycle                                  *)
(* (services/game_coordinator/flag_service_client.py) on top of            *)
(* ScopeRegistry.  A coordinator registers a game when it starts it, a     *)
(* worker task sends the queued ends and reconciles the whole set, and     *)
(* every call is an HTTP request from a thread that may time out while the *)
(* service still serves it.                                                *)
(*                                                                         *)
(* Abstracted: sessions are what GameSessions says of them as far as this  *)
(* client sees it (registered and not ENDED, end queued once); the order   *)
(* of the ends in the queue, which nothing here tells apart; the time a    *)
(* period takes.                                                           *)
(***************************************************************************)
EXTENDS ScopeRegistry

CONSTANTS
  InstanceOf,      \* the coordinator that runs each game
  MaxFaults        \* bound: lost answers and coordinator crashes in a run

ASSUME LifecycleAssumption ==
  /\ InstanceOf \in [Game -> Instance]
  /\ Game \cap Instance = {}
  /\ None \notin Game
  /\ MaxFaults \in Nat

VARIABLES
  session,   \* idle, live, ended, queued (end in the queue) or retired
  start,     \* where _run_admitted_start of the game stands
  worker,    \* where _run stands; off: no coordinator process
  needs,     \* _needs_reconcile
  current,   \* the end the worker took from the queue
  listed,    \* the games of the reconcile the worker sent
  seen,      \* _epoch, 0 while None
  call,      \* the request of a caller: a game's registration or the
             \* worker of an instance
  answer,    \* the epoch in the answer to it, 0 if it names none
  late,      \* requests whose caller gave up before they were served
  faults,    \* how many faults there were
  stray,     \* history: games a late or belated registration named
  overtaken  \* history: live games an outdated request left out

clientVars == <<session, start, worker, needs, current, listed, seen>>
callVars == <<call, answer, late, faults>>
vars == <<registryVars, clientVars, callVars, stray, overtaken>>

Caller == Game \cup Instance

LateRequest == [kind : {"register", "reconcile", "end"}, from : Instance,
                games : SUBSET Game, n : Nat]

TypeOK ==
  /\ RegistryTypeOK
  /\ session \in [Game -> {"idle", "live", "ended", "queued", "retired"}]
  /\ start \in [Game -> {"none", "admitted", "awaiting", "done"}]
  /\ worker \in [Instance -> {"off", "top", "reconcile", "get", "await", "end", "epoch"}]
  /\ needs \in [Instance -> BOOLEAN]
  /\ current \in [Instance -> Game \cup {None}]
  /\ \A i \in Instance : current[i] = None <=> worker[i] \notin {"await", "end"}
  /\ listed \in [Instance -> SUBSET Game]
  /\ seen \in [Instance -> Nat]
  /\ call \in [Caller -> {"none", "sent", "ok", "failed"}]
  /\ answer \in [Caller -> Nat]
  /\ late \subseteq LateRequest
  /\ faults \in Nat
  /\ stray \subseteq Game
  /\ overtaken \subseteq Game

Init ==
  /\ RegistryInit
  /\ session = [g \in Game |-> "idle"]
  /\ start = [g \in Game |-> "none"]
  /\ worker = [i \in Instance |-> "top"]
  /\ needs = [i \in Instance |-> TRUE]
  /\ current = [i \in Instance |-> None]
  /\ listed = [i \in Instance |-> {}]
  /\ seen = [i \in Instance |-> 0]
  /\ call = [c \in Caller |-> "none"]
  /\ answer = [c \in Caller |-> 0]
  /\ late = {}
  /\ faults = 0
  /\ stray = {}
  /\ overtaken = {}

\* The games of coordinator i.
Games(i) == {g \in Game : InstanceOf[g] = i}

\* The reconcile set: every registered, not yet ended session of i.
LiveGames(i) == {g \in Games(i) : session[g] = "live"}

Up(g) == worker[InstanceOf[g]] # "off"

Over(g) == session[g] \in {"ended", "queued", "retired"}

-----------------------------------------------------------------------------
(* The servicer and the game thread                                        *)

\* The session of g is registered.  A reconcile already on its way does not
\* list it.
Admit(g) ==
  /\ Up(g)
  /\ session[g] = "idle"
  /\ session' = [session EXCEPT ![g] = "live"]
  /\ start' = [start EXCEPT ![g] = "admitted"]
  /\ overtaken' = IF /\ worker[InstanceOf[g]] = "reconcile"
                     /\ call[InstanceOf[g]] = "sent"
                  THEN overtaken \cup {g} ELSE overtaken
  /\ UNCHANGED <<registryVars, worker, needs, current, listed, seen, callVars, stray>>

\* register: the PUT goes out from a thread, whatever became of the session
\* since its admission (a start hook or a preemption pass is awaited between).
Register(g) ==
  /\ start[g] = "admitted"
  /\ start' = [start EXCEPT ![g] = "awaiting"]
  /\ call' = [call EXCEPT ![g] = "sent"]
  /\ stray' = IF session[g] # "live" THEN stray \cup {g} ELSE stray
  /\ UNCHANGED <<registryVars, session, worker, needs, current, listed, seen,
                 answer, late, faults, overtaken>>

\* Fault: the start waits for the registration however long it takes.
RegisterWaits(g) ==
  /\ start[g] = "awaiting"
  /\ call[g] \in {"ok", "failed"}
  /\ start' = [start EXCEPT ![g] = "done"]
  /\ needs' = [needs EXCEPT ![InstanceOf[g]] = TRUE]
  /\ UNCHANGED <<registryVars, session, worker, current, listed, seen, callVars,
                 stray, overtaken>>

\* 200 ms are over and the registration is not: the game starts anyway.
RegisterTimeout(g) ==
  /\ start[g] = "awaiting"
  /\ start' = [start EXCEPT ![g] = "done"]
  /\ needs' = [needs EXCEPT ![InstanceOf[g]] = TRUE]
  /\ UNCHANGED <<registryVars, session, worker, current, listed, seen, callVars,
                 stray, overtaken>>

\* _observe_epoch: another epoch than the last one seen schedules a reconcile.
ObserveEpoch(i, e) ==
  /\ seen' = IF e = 0 THEN seen ELSE [seen EXCEPT ![i] = e]
  /\ IF e # 0 /\ seen[i] # 0 /\ e # seen[i]
     THEN needs' = [needs EXCEPT ![i] = TRUE]
     ELSE UNCHANGED needs

Failed(i) ==
  /\ needs' = [needs EXCEPT ![i] = TRUE]
  /\ UNCHANGED seen

\* _call: what i makes of the outcome of the request of c.
Finished(c, i) ==
  /\ call[c] \in {"ok", "failed"}
  /\ IF call[c] = "ok" THEN ObserveEpoch(i, answer[c]) ELSE Failed(i)
  /\ call' = [call EXCEPT ![c] = "none"]
  /\ answer' = [answer EXCEPT ![c] = 0]

\* The registration task ends and is forgotten; a start still in its 200 ms
\* goes on.
RegisterDone(g) ==
  /\ Finished(g, InstanceOf[g])
  /\ start' = [start EXCEPT ![g] = "done"]
  /\ UNCHANGED <<registryVars, session, worker, current, listed, late, faults,
                 stray, overtaken>>

\* The client cancelled the start or it failed: the session is retired.
AbortStart(g) ==
  /\ start[g] \in {"admitted", "awaiting"}
  /\ start' = [start EXCEPT ![g] = "done"]
  /\ session' = [session EXCEPT ![g] = IF @ \in {"live", "ended"} THEN "queued" ELSE @]
  /\ UNCHANGED <<registryVars, worker, needs, current, listed, seen, callVars,
                 stray, overtaken>>

\* The session is ENDED: by its game, a force end or a preemption.
GameOver(g) ==
  /\ session[g] = "live"
  /\ session' = [session EXCEPT ![g] = "ended"]
  /\ UNCHANGED <<registryVars, start, worker, needs, current, listed, seen,
                 callVars, stray, overtaken>>

\* end: the first of the paths that reach the end of the session queues it.
End(g) ==
  /\ session[g] = "ended"
  /\ session' = [session EXCEPT ![g] = "queued"]
  /\ UNCHANGED <<registryVars, start, worker, needs, current, listed, seen,
                 callVars, stray, overtaken>>

-----------------------------------------------------------------------------
(* The worker task of instance i                                           *)

workerElse == <<registryVars, session, start, late, faults, stray, overtaken>>

\* reconcile: the set is read, the request for it cleared, the PUT sent.  The
\* top of the loop asks for one itself when the last is 15 s ago.
StartReconcile(i) ==
  /\ worker[i] = "top"
  /\ listed' = [listed EXCEPT ![i] = LiveGames(i)]
  /\ needs' = [needs EXCEPT ![i] = FALSE]
  /\ call' = [call EXCEPT ![i] = "sent"]
  /\ worker' = [worker EXCEPT ![i] = "reconcile"]
  /\ UNCHANGED <<workerElse, current, seen, answer>>

ReconcileWanted(i) == needs[i] /\ StartReconcile(i)

\* Fault: no reconcile unless one is wanted.
PeriodIgnored(i) == needs[i] /\ StartReconcile(i)

PeriodOver(i) == StartReconcile(i)

ReconcileDone(i) ==
  /\ worker[i] = "reconcile"
  /\ Finished(i, i)
  /\ worker' = [worker EXCEPT ![i] = "get"]
  /\ UNCHANGED <<workerElse, current, listed>>

NoReconcile(i) ==
  /\ worker[i] = "top"
  /\ ~needs[i]
  /\ worker' = [worker EXCEPT ![i] = "get"]
  /\ UNCHANGED <<workerElse, needs, current, listed, seen, call, answer>>

SendEnd(i) ==
  /\ call' = [call EXCEPT ![i] = "sent"]
  /\ worker' = [worker EXCEPT ![i] = "end"]

\* An end leaves the queue.  A registration still under way is awaited first.
TakeEnd(i, g) ==
  /\ worker[i] = "get"
  /\ g \in Games(i)
  /\ session[g] = "queued"
  /\ session' = [session EXCEPT ![g] = "retired"]
  /\ current' = [current EXCEPT ![i] = g]
  /\ IF call[g] = "none" THEN SendEnd(i)
     ELSE worker' = [worker EXCEPT ![i] = "await"] /\ UNCHANGED call
  /\ UNCHANGED <<registryVars, start, late, faults, stray, overtaken, needs,
                 listed, seen, answer>>

RegistrationAwaited(i) ==
  /\ worker[i] = "await"
  /\ call[current[i]] = "none"
  /\ SendEnd(i)
  /\ UNCHANGED <<workerElse, needs, current, listed, seen, answer>>

EndDone(i) ==
  /\ worker[i] = "end"
  /\ Finished(i, i)
  /\ worker' = [worker EXCEPT ![i] = "top"]
  /\ current' = [current EXCEPT ![i] = None]
  /\ UNCHANGED <<workerElse, listed>>

\* No end within 2 s: read the boot epoch.
CheckEpoch(i) ==
  /\ worker[i] = "get"
  /\ \A g \in Games(i) : session[g] # "queued"
  /\ call' = [call EXCEPT ![i] = "sent"]
  /\ worker' = [worker EXCEPT ![i] = "epoch"]
  /\ UNCHANGED <<workerElse, needs, current, listed, seen, answer>>

\* An epoch that could not be read schedules nothing; the next pass retries.
EpochChecked(i) ==
  /\ worker[i] = "epoch"
  /\ call[i] \in {"ok", "failed"}
  /\ IF call[i] = "ok" THEN ObserveEpoch(i, answer[i]) ELSE UNCHANGED <<needs, seen>>
  /\ call' = [call EXCEPT ![i] = "none"]
  /\ answer' = [answer EXCEPT ![i] = 0]
  /\ worker' = [worker EXCEPT ![i] = "top"]
  /\ UNCHANGED <<workerElse, current, listed>>

-----------------------------------------------------------------------------
(* The service                                                             *)

Reply(c, ok, e) ==
  /\ call' = [call EXCEPT ![c] = IF ok THEN "ok" ELSE "failed"]
  /\ answer' = [answer EXCEPT ![c] = IF ok THEN e ELSE 0]

serviceElse == <<clientVars, late, faults, stray, overtaken>>

ServeRegister(g) ==
  /\ call[g] = "sent"
  /\ RegisterGame(InstanceOf[g], g)
  /\ Reply(g, RegisterOk(InstanceOf[g], g), epoch)
  /\ UNCHANGED serviceElse

ServeReconcile(i) ==
  /\ call[i] = "sent"
  /\ worker[i] = "reconcile"
  /\ Reconcile(i, listed[i])
  /\ Reply(i, ReconcileOk(i, listed[i]), epoch)
  /\ UNCHANGED serviceElse

\* The answer to an end has no body, so no epoch.
ServeEnd(i) ==
  /\ call[i] = "sent"
  /\ worker[i] = "end"
  /\ EndGame(current[i])
  /\ Reply(i, TRUE, 0)
  /\ UNCHANGED serviceElse

ServeHealth(i) ==
  /\ call[i] = "sent"
  /\ worker[i] = "epoch"
  /\ Reply(i, TRUE, epoch)
  /\ UNCHANGED <<registryVars, serviceElse>>

\* A request nobody waits for any more is served after all.
ServeLate(r) ==
  /\ r \in late
  /\ late' = late \ {r}
  /\ \/ r.kind = "register" /\ \E g \in r.games : RegisterGame(r.from, g)
     \/ r.kind = "reconcile" /\ Reconcile(r.from, r.games)
     \/ r.kind = "end" /\ \E g \in r.games : EndGame(g)
  /\ stray' = IF r.kind = "end" THEN stray ELSE stray \cup r.games
  /\ overtaken' = IF r.kind = "reconcile"
                  THEN overtaken \cup (LiveGames(r.from) \ r.games) ELSE overtaken
  /\ UNCHANGED <<clientVars, call, answer, faults>>

RestartService ==
  /\ Restart
  /\ UNCHANGED <<clientVars, callVars, stray, overtaken>>

\* The sweep of the service drops scopes of coordinators that are gone.
Sweep ==
  /\ ExpireGames
  /\ UNCHANGED <<clientVars, callVars, stray, overtaken>>

\* An hour passes with the coordinator of g off.
HourPasses(g) ==
  /\ ~Up(g)
  /\ g \notin aged
  /\ GrowOld(g)
  /\ UNCHANGED <<clientVars, callVars, stray, overtaken>>

-----------------------------------------------------------------------------
(* Faults                                                                  *)

\* The requests of the callers cs that are not served yet, as nobody's.
Abandoned(cs) ==
  {[kind |-> "register", from |-> InstanceOf[g], games |-> {g}, n |-> faults] :
     g \in {c \in cs \cap Game : call[c] = "sent"}}
  \cup {[kind |-> "reconcile", from |-> i, games |-> listed[i], n |-> faults] :
     i \in {c \in cs \cap Instance : call[c] = "sent" /\ worker[c] = "reconcile"}}
  \cup {[kind |-> "end", from |-> i, games |-> {current[i]}, n |-> faults] :
     i \in {c \in cs \cap Instance : call[c] = "sent" /\ worker[c] = "end"}}

\* The 500 ms of a request are over, or its connection broke: the caller has
\* no answer, and the service has served it, never gets it or serves it later.
GiveUp(c) ==
  /\ faults < MaxFaults
  /\ call[c] \in {"sent", "ok"}
  /\ faults' = faults + 1
  /\ call' = [call EXCEPT ![c] = "failed"]
  /\ answer' = [answer EXCEPT ![c] = 0]
  /\ late' \in {late, late \cup Abandoned({c})}
  /\ UNCHANGED <<registryVars, clientVars, stray, overtaken>>

\* The coordinator process is gone, its games and its client with it.
Crash(i) ==
  LET own == Games(i) IN
  /\ faults < MaxFaults
  /\ worker[i] # "off"
  /\ faults' = faults + 1
  /\ worker' = [worker EXCEPT ![i] = "off"]
  /\ session' = [g \in Game |-> IF g \in own /\ session[g] # "idle"
                                THEN "retired" ELSE session[g]]
  /\ start' = [g \in Game |-> IF g \in own /\ start[g] # "none"
                              THEN "done" ELSE start[g]]
  /\ late' = late \cup Abandoned(own \cup {i})
  /\ call' = [c \in Caller |-> IF c \in own \cup {i} THEN "none" ELSE call[c]]
  /\ answer' = [c \in Caller |-> IF c \in own \cup {i} THEN 0 ELSE answer[c]]
  /\ current' = [current EXCEPT ![i] = None]
  /\ listed' = [listed EXCEPT ![i] = {}]
  /\ UNCHANGED <<registryVars, needs, seen, stray, overtaken>>

\* Fault: a new client does not ask for a reconcile.
BootQuietly(i) ==
  /\ worker[i] = "off"
  /\ worker' = [worker EXCEPT ![i] = "top"]
  /\ needs' = [needs EXCEPT ![i] = FALSE]
  /\ seen' = [seen EXCEPT ![i] = 0]
  /\ UNCHANGED <<registryVars, session, start, current, listed, callVars,
                 stray, overtaken>>

\* A new process: its client starts by asking for a reconcile.
Boot(i) ==
  /\ worker[i] = "off"
  /\ worker' = [worker EXCEPT ![i] = "top"]
  /\ needs' = [needs EXCEPT ![i] = TRUE]
  /\ seen' = [seen EXCEPT ![i] = 0]
  /\ UNCHANGED <<registryVars, session, start, current, listed, callVars,
                 stray, overtaken>>

-----------------------------------------------------------------------------
GameStep(g) == Register(g) \/ RegisterTimeout(g) \/ RegisterDone(g) \/ End(g)

WorkerStep(i) ==
  \/ ReconcileWanted(i) \/ PeriodOver(i) \/ ReconcileDone(i) \/ NoReconcile(i)
  \/ \E g \in Game : TakeEnd(i, g)
  \/ RegistrationAwaited(i) \/ EndDone(i) \/ CheckEpoch(i) \/ EpochChecked(i)

Serve ==
  \/ \E g \in Game : ServeRegister(g)
  \/ \E i \in Instance : ServeReconcile(i) \/ ServeEnd(i) \/ ServeHealth(i)

Fault ==
  \/ \E c \in Caller : GiveUp(c)
  \/ \E i \in Instance : Crash(i)
  \/ \E r \in late : ServeLate(r)
  \/ \E g \in Game : HourPasses(g)
  \/ RestartService

Next ==
  \/ \E g \in Game : Admit(g) \/ GameStep(g) \/ AbortStart(g) \/ GameOver(g)
  \/ \E i \in Instance : WorkerStep(i) \/ Boot(i)
  \/ Serve
  \/ Sweep
  \/ Fault

Spec == Init /\ [][Next]_vars

-----------------------------------------------------------------------------
\* The scope of an ended game stays behind only while something that removes
\* it is on its way: the end is still to be queued, queued or sent, a reconcile
\* without the game is wanted or sent, or the coordinator's restart will ask
\* for one.  The exceptions are named: a registration or reconcile that was
\* overtaken by the end (stray).
EndedScopeOwed ==
  \A g \in Game :
    LET i == InstanceOf[g] IN
    scope[g] = i /\ Over(g) /\ g \notin stray =>
      \/ worker[i] = "off"
      \/ session[g] \in {"ended", "queued"}
      \/ needs[i]
      \/ current[i] = g /\ (worker[i] = "await" \/ call[i] \in {"sent", "failed"})
      \/ /\ worker[i] = "reconcile"
         /\ call[i] \in {"sent", "failed"}
         /\ g \notin listed[i]

\* A started (or registered) game without a scope gets one back: a reconcile is
\* wanted or on its way, or the client has yet to see that the service
\* restarted.  The exception is named: a reconcile whose set was read before
\* the game was admitted, or that was served late (overtaken).
LiveScopeOwed ==
  \A g \in Game :
    LET i == InstanceOf[g] IN
    session[g] = "live" /\ g \notin overtaken /\ scope[g] # i
      /\ (start[g] = "done" \/ call[g] = "ok") =>
      \/ needs[i]
      \/ seen[i] \notin {0, epoch}
      \/ worker[i] = "reconcile" /\ ~(call[i] = "ok" /\ answer[i] = epoch)

-----------------------------------------------------------------------------
(* What the two owed invariants rest on                                    *)

\* Every scope, listed game and late request is of a game its coordinator did
\* admit; an end is only ever sent for a retired session.
OwnGames ==
  /\ \A g \in Game : scope[g] # None => scope[g] = InstanceOf[g] /\ session[g] # "idle"
  /\ \A g \in Game : start[g] # "none" \/ call[g] # "none" => session[g] # "idle"
  /\ \A i \in Instance : current[i] # None =>
       current[i] \in Games(i) /\ session[current[i]] = "retired"
  /\ \A r \in late : /\ r.games \subseteq Games(r.from)
                     /\ \A g \in r.games : session[g] # "idle"
                     /\ r.kind = "end" => \A g \in r.games : session[g] = "retired"

\* A coordinator that is off runs no game, and only its scopes grow old.
OffCoordinator ==
  /\ \A g \in Game : ~Up(g) => session[g] \in {"idle", "retired"}
  /\ \A g \in aged : session[g] = "retired"

\* No epoch is known before the service has it, and none is known only while
\* the first reconcile is wanted or under way.
EpochsKnown ==
  /\ epoch > 0
  /\ \A i \in Instance : seen[i] <= epoch
  /\ \A c \in Caller : answer[c] <= epoch
  /\ \A i \in Instance : worker[i] = "reconcile" /\ call[i] = "ok" => answer[i] > 0
  /\ \A i \in Instance : seen[i] = 0 => worker[i] \in {"off", "reconcile"} \/ needs[i]

\* A reconcile lists open sessions, all of them until one is admitted.
ListedGames ==
  \A i \in Instance : worker[i] = "reconcile" =>
    /\ listed[i] \subseteq Games(i)
    /\ \A g \in listed[i] : session[g] \in {"live", "ended", "queued"}
    /\ call[i] = "sent" => LiveGames(i) \subseteq listed[i] \cup overtaken

\* A registration under way when its session ends is awaited before the end.
RegistrationFirst ==
  \A g \in Game : call[g] # "none" /\ Over(g) /\ g \notin stray =>
    \/ session[g] \in {"ended", "queued"}
    \/ current[InstanceOf[g]] = g /\ worker[InstanceOf[g]] = "await"

LifecycleInv ==
  /\ OwnGames /\ OffCoordinator /\ EpochsKnown /\ ListedGames
  /\ RegistrationFirst /\ EndedScopeOwed /\ LiveScopeOwed

-----------------------------------------------------------------------------
\* The servicer's and the worker's coroutines run, the threads' requests are
\* answered or time out, and passes that find the period over recur.
ServiceFair ==
  /\ \A i \in Instance :
       WF_vars(ServeReconcile(i) \/ ServeEnd(i) \/ ServeHealth(i))
  /\ \A g \in Game : WF_vars(ServeRegister(g))

WorkerFair ==
  \A i \in Instance :
    /\ WF_vars(WorkerStep(i)) /\ WF_vars(Boot(i))
    /\ SF_vars(PeriodOver(i))
    /\ \A g \in Game : SF_vars(TakeEnd(i, g))

StartFair == \A g \in Game : WF_vars(GameStep(g))

\* Only the games' starts are fair: the service may never answer.
LiveSpec == Spec /\ StartFair

\* When the faults have stopped, the registry and the coordinators' games
\* come to agree and stay so, whatever was lost or overtaken on the way.
Converges ==
  ServiceFair /\ WorkerFair =>
    <>[](\A g \in Game : scope[g] = IF session[g] = "live" THEN InstanceOf[g] ELSE None)

\* The start of a game never waits for the flag service for good (FR-135).
StartNotBlocked == \A g \in Game : start[g] = "awaiting" ~> start[g] = "done"
=============================================================================
