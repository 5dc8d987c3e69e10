----------------------- MODULE MenuLifecycle_proofs -----------------------
(***************************************************************************)
(* One lifecycle at a time, a quiet lobby during a game, a start that      *)
(* somebody always leaves, a whole lobby at rest and the operator's last   *)
(* word, for any number of lifecycle tasks, reset_menu calls and lobby     *)
(* entries.                                                                *)
(***************************************************************************)
EXTENDS MenuLifecycle, TLAPS

-----------------------------------------------------------------------------
(* Type correctness, in four parts                                         *)

Step == {"free", "created", "delay", "aborting"} \cup Preparing \cup InGame \cup Restoring
Kind == {"ready", "other", "restore"}
TaskRecord == [pc : Step, kind : Kind, stoppedBefore : BOOLEAN]
ResetRecord == [pc : {"idle", "lookup", "inactive", "cancelling", "restoring"},
                task : Task \cup {None}]

TasksTyped ==
  task \in [Task -> TaskRecord] /\ cancelling \subseteq Task /\ current \in Task \cup {None}
ResetsTyped ==
  /\ reset \in [Reset -> ResetRecord]
  /\ \A r \in Reset : reset[r].pc # "idle" => reset[r].task # None
LobbyTyped ==
  /\ state \in {"STOPPED", "RUNNING", "GAME_STARTING"}
  /\ idle \in BOOLEAN /\ buttons \in BOOLEAN
  /\ latch \in BOOLEAN /\ readying \in BOOLEAN
  /\ deferred \in BOOLEAN /\ restarting \in BOOLEAN
  /\ booted \in BOOLEAN
  /\ pad \in {"away", "held", "roster", "stale"}
  /\ playing \in BOOLEAN
  /\ asked \in {"stop", "menu", "game"}

CountsTyped ==
  /\ entering \in 0..MaxEntries
  /\ accidents \subseteq {"hungUp", "entryOvertaken", "twoTasks", "stopUndone", "cancelLost"}

Typed == TasksTyped /\ ResetsTyped /\ LobbyTyped /\ CountsTyped

\* TypeOK is the four parts.
LEMMA TypeParts == TypeOK <=> Typed
BY DEF Typed, TypeOK, CountsTyped, TasksTyped, ResetsTyped, LobbyTyped, TaskRecord,
       ResetRecord, Step, Kind

\* A free slot is a task.
LEMMA NoTaskTyped == NoTask \in TaskRecord
BY DEF NoTask, TaskRecord, Step, Kind

\* What replacing one task leaves.
LEMMA Replaced ==
  ASSUME TasksTyped, NEW t \in Task, NEW x \in TaskRecord,
         task' = [task EXCEPT ![t] = x]
  PROVE  /\ task' \in [Task -> TaskRecord]
         /\ task'[t] = x
         /\ \A u \in Task \ {t} : task'[u] = task[u]
BY DEF TasksTyped

\* What one task's next suspension leaves.
LEMMA GotoEffect ==
  ASSUME TasksTyped, NEW t \in Task, NEW pc \in Step, Goto(t, pc)
  PROVE  /\ TasksTyped'
         /\ task'[t].pc = pc /\ task'[t].kind = task[t].kind
         /\ task'[t].stoppedBefore = task[t].stoppedBefore
         /\ \A u \in Task \ {t} : task'[u] = task[u]
         /\ cancelling' = cancelling /\ current' = current /\ pad' = pad
<1> DEFINE x == [task[t] EXCEPT !.pc = pc]
<1>1. task[t] \in TaskRecord
  BY DEF TasksTyped
<1>2. /\ x \in TaskRecord
      /\ x.pc = pc /\ x.kind = task[t].kind /\ x.stoppedBefore = task[t].stoppedBefore
  BY <1>1 DEF TaskRecord
<1>3. task' = [task EXCEPT ![t] = x]
  BY DEF Goto
<1> HIDE DEF x
<1> QED BY <1>2, <1>3, Replaced DEF Goto, TasksTyped

\* What the creation of a task leaves.
LEMMA SpawnEffect ==
  ASSUME TasksTyped, NEW t \in Task, NEW kind \in Kind, NEW R, Spawn(t, kind, R)
  PROVE  /\ task' \in [Task -> TaskRecord] /\ current' = t
         /\ task'[t].pc = "created" /\ task'[t].kind = kind
         /\ ~Alive(t)
         /\ \A u \in Task \ {t} : task'[u] = task[u]
<1> DEFINE x == [NoTask EXCEPT !.pc = "created", !.kind = kind]
<1>1. /\ x \in TaskRecord
      /\ x.pc = "created" /\ x.kind = kind
  BY DEF TaskRecord, NoTask, Step, Kind
<1>2. task' = [task EXCEPT ![t] = x]
  BY DEF Spawn
<1> HIDE DEF x
<1> QED BY <1>1, <1>2, Replaced DEF Spawn

\* What the end of a task leaves.
LEMMA LeaveEffect ==
  ASSUME TasksTyped, NEW t \in Task, Leave(t)
  PROVE  /\ TasksTyped'
         /\ task'[t].pc = "free"
         /\ \A u \in Task \ {t} : task'[u] = task[u]
         /\ cancelling' = cancelling \ {t} /\ current' = current
         /\ pad' = IF t = current THEN Moved(pad) ELSE pad
BY Replaced, NoTaskTyped DEF Leave, TasksTyped, NoTask

\* The pad stays a pad.
LEMMA MovedTyped ==
  ASSUME pad \in {"away", "held", "roster", "stale"}
  PROVE  Moved(pad) \in {"away", "held", "roster", "stale"}
BY DEF Moved

\* TypeOK holds at first.
LEMMA TypeInit == Init => TypeOK
<1> SUFFICES ASSUME Init PROVE Typed
  BY TypeParts
<1>1. TasksTyped
  BY NoTaskTyped DEF Init, TasksTyped
<1>2. ResetsTyped
  BY DEF Init, ResetsTyped, ResetRecord, NoReset
<1>3. LobbyTyped
  BY DEF Init, LobbyTyped
<1>4. 0 \in 0..MaxEntries
  BY MenuAssumption
<1>5. CountsTyped
  BY <1>4 DEF Init, CountsTyped
<1> QED BY <1>1, <1>2, <1>3, <1>5 DEF Typed

\* The lobby entries in progress stay within their bound.
LEMMA EntriesMove ==
  ASSUME entering \in 0..MaxEntries,
         \/ entering' = entering
         \/ entering < MaxEntries /\ entering' = entering + 1
         \/ entering > 0 /\ entering' = entering - 1
  PROVE  entering' \in 0..MaxEntries
BY MenuAssumption

\* Each part survives every step.
LEMMA LobbyStep ==
  ASSUME LobbyTyped, [Next]_vars
  PROVE  LobbyTyped'
<1> USE DEF LobbyTyped, lobby, calls
<1>1. CASE AllReady \/ ReadyStart
  BY ZenonT(40), <1>1, MovedTyped DEF AllReady, ReadyStart, Accept, Reject
<1>2. CASE WebStart
  <2>1. CASE Reject /\ UNCHANGED <<pad, asked>>
    BY ZenonT(40), <1>2, <2>1 DEF WebStart, Reject
  <2>2. ASSUME NEW t \in Task, Accept(t, "other", state), pad' = Moved(pad), asked' = "game"
        PROVE LobbyTyped'
    BY <1>2, <2>2, MovedTyped DEF WebStart, Accept
  <2> QED BY <1>2, <2>1, <2>2 DEF WebStart, Word
<1>3. CASE ForceStart
  BY ZenonT(40), <1>3, MovedTyped DEF ForceStart, Accept, Reject, Word
<1>4. CASE PadHold \/ PadForceStart
  BY <1>4 DEF PadHold, PadForceStart
<1>5. CASE PadRosterDone
  BY <1>5 DEF PadRosterDone, Accept, Word
<1>6. ASSUME NEW t \in Task, Begin(t)
      PROVE LobbyTyped'
  BY ZenonT(40), <1>6 DEF Begin, Goto
<1>7. ASSUME NEW t \in Task, RosterTooShort(t)
      PROVE LobbyTyped'
  BY <1>7 DEF RosterTooShort, Goto
<1>8. ASSUME NEW t \in Task, MusicStopped(t)
      PROVE LobbyTyped'
  BY <1>8 DEF MusicStopped, Goto
<1>9. ASSUME NEW t \in Task, Prepare(t)
      PROVE LobbyTyped'
  BY ZenonT(40), <1>9 DEF Prepare
<1>10. ASSUME NEW t \in Task, Prepared(t)
      PROVE LobbyTyped'
  BY ZenonT(40), <1>10 DEF Prepared
<1>11. ASSUME NEW t \in Task, StartConfirmed(t)
      PROVE LobbyTyped'
  BY <1>11 DEF StartConfirmed, Goto
<1>12. ASSUME NEW t \in Task, StreamOver(t)
      PROVE LobbyTyped'
  BY <1>12 DEF StreamOver, BeginRestore, Goto
<1>13. ASSUME NEW t \in Task, RestoreTask(t)
      PROVE LobbyTyped'
  BY <1>13 DEF RestoreTask, BeginRestore, Goto
<1>14. ASSUME NEW t \in Task, Reregister(t)
      PROVE LobbyTyped'
  BY ZenonT(40), <1>14 DEF Reregister, Goto
<1>15. ASSUME NEW t \in Task, DropReadyStart(t)
      PROVE LobbyTyped'
  BY <1>15, MovedTyped DEF DropReadyStart, Leave
<1>16. ASSUME NEW t \in Task, TaskCancelled(t)
      PROVE LobbyTyped'
  BY <1>16, MovedTyped DEF TaskCancelled, Leave
<1>17. ASSUME NEW t \in Task, RosterAborted(t)
      PROVE LobbyTyped'
  BY <1>17, MovedTyped DEF RosterAborted, Leave, Settled
<1>18. ASSUME NEW t \in Task, Restored(t)
      PROVE LobbyTyped'
  BY <1>18, MovedTyped DEF Restored, Leave, Settled
<1>19. CASE StartMenu \/ Boot
  BY ZenonT(40), <1>19 DEF StartMenu, Boot, EnterLobby, DeferStartMenu, Word
<1>20. CASE LobbyEntered
  BY <1>20 DEF LobbyEntered
<1>21. CASE StartMenuHungUp
  BY <1>21 DEF StartMenuHungUp
<1>22. CASE StopMenu
  BY <1>22 DEF StopMenu
<1>23. CASE GameAdmitted
  BY <1>23 DEF GameAdmitted
<1>24. CASE GameOver
  BY <1>24 DEF GameOver
<1>25. ASSUME NEW r \in Reset, ResetMenu(r)
      PROVE LobbyTyped'
  BY <1>25 DEF ResetMenu
<1>26. ASSUME NEW r \in Reset, LookupInactive(r)
      PROVE LobbyTyped'
  BY <1>26 DEF LookupInactive
<1>27. ASSUME NEW r \in Reset, ResetKept(r)
      PROVE LobbyTyped'
  BY <1>27 DEF ResetKept
<1>28. ASSUME NEW r \in Reset, CancelLifecycle(r)
      PROVE LobbyTyped'
  BY <1>28 DEF CancelLifecycle
<1>29. ASSUME NEW r \in Reset, RestoreByReset(r)
      PROVE LobbyTyped'
  BY <1>29, MovedTyped DEF RestoreByReset
<1>30. ASSUME NEW r \in Reset, ResetDone(r)
      PROVE LobbyTyped'
  BY <1>30 DEF ResetDone
<1>31. ASSUME NEW r \in Reset, ResetHungUp(r)
      PROVE LobbyTyped'
  BY <1>31 DEF ResetHungUp
<1>32. CASE UNCHANGED vars
  BY <1>32 DEF vars
<1> QED BY <1>1, <1>2, <1>3, <1>4, <1>5, <1>6, <1>7, <1>8, <1>9, <1>10, <1>11, <1>12,
           <1>13, <1>14, <1>15, <1>16, <1>17, <1>18, <1>19, <1>20, <1>21, <1>22, <1>23,
           <1>24, <1>25, <1>26, <1>27, <1>28, <1>29, <1>30, <1>31, <1>32 DEF Next

LEMMA CountsStep ==
  ASSUME CountsTyped, [Next]_vars
  PROVE  CountsTyped'
<1> USE DEF CountsTyped, lobby, calls
<1>1. CASE AllReady \/ ReadyStart \/ PadHold \/ PadForceStart \/ GameAdmitted \/ GameOver
  BY <1>1 DEF AllReady, ReadyStart, PadHold, PadForceStart, GameAdmitted, GameOver
<1>2. CASE WebStart \/ ForceStart \/ PadRosterDone
  BY <1>2 DEF WebStart, ForceStart, PadRosterDone, Word
<1>3. ASSUME NEW t \in Task,
             \/ Begin(t) \/ RosterTooShort(t) \/ Prepare(t) \/ MusicStopped(t)
             \/ Prepared(t) \/ StartConfirmed(t) \/ StreamOver(t) \/ RestoreTask(t)
             \/ Reregister(t)
      PROVE CountsTyped'
  BY <1>3 DEF Begin, RosterTooShort, Prepare, MusicStopped, Prepared, StartConfirmed,
              StreamOver, RestoreTask, Reregister
<1>4. ASSUME NEW t \in Task,
             DropReadyStart(t) \/ RosterAborted(t) \/ Restored(t) \/ TaskCancelled(t)
      PROVE CountsTyped'
  BY <1>4 DEF DropReadyStart, RosterAborted, Restored, TaskCancelled
<1>5. CASE StartMenu \/ Boot
  <2>1. \/ entering' = entering
        \/ entering < MaxEntries /\ entering' = entering + 1
    BY <1>5 DEF StartMenu, Boot, EnterLobby, DeferStartMenu
  <2>2. accidents' \subseteq {"hungUp", "entryOvertaken", "twoTasks", "stopUndone", "cancelLost"}
    BY <1>5 DEF StartMenu, Boot, EnterLobby, DeferStartMenu, Word
  <2> QED BY <2>1, <2>2, EntriesMove
<1>6. CASE LobbyEntered \/ StartMenuHungUp
  <2>1. entering > 0 /\ entering' = entering - 1
    BY <1>6 DEF LobbyEntered, StartMenuHungUp
  <2>2. accidents' \subseteq {"hungUp", "entryOvertaken", "twoTasks", "stopUndone", "cancelLost"}
    BY <1>6 DEF LobbyEntered, StartMenuHungUp
  <2> QED BY <2>1, <2>2, EntriesMove
<1>7. CASE StopMenu
  BY <1>7 DEF StopMenu
<1>8. ASSUME NEW r \in Reset,
             \/ ResetMenu(r) \/ LookupInactive(r) \/ ResetKept(r) \/ CancelLifecycle(r)
             \/ ResetDone(r)
      PROVE CountsTyped'
  BY <1>8 DEF ResetMenu, LookupInactive, ResetKept, CancelLifecycle, ResetDone
<1>9. ASSUME NEW r \in Reset, RestoreByReset(r) \/ ResetHungUp(r)
      PROVE CountsTyped'
  BY <1>9 DEF RestoreByReset, ResetHungUp
<1>10. CASE UNCHANGED vars
  BY <1>10 DEF vars
<1> QED BY <1>1, <1>2, <1>3, <1>4, <1>5, <1>6, <1>7, <1>8, <1>9, <1>10 DEF Next

LEMMA ResetsStep ==
  ASSUME TasksTyped, ResetsTyped, [Next]_vars
  PROVE  ResetsTyped'
<1> USE MenuAssumption DEF ResetsTyped, TasksTyped, ResetRecord, Live, calls
<1>1. ASSUME UNCHANGED reset
      PROVE ResetsTyped'
  BY <1>1
<1>2. CASE AllReady \/ ReadyStart \/ WebStart \/ ForceStart \/ PadHold \/ PadForceStart
           \/ PadRosterDone \/ GameAdmitted \/ GameOver \/ UNCHANGED vars
  BY <1>1, <1>2 DEF AllReady, ReadyStart, WebStart, ForceStart, PadHold, PadForceStart,
                    PadRosterDone, GameAdmitted, GameOver, vars
<1>3. ASSUME NEW t \in Task,
             \/ Begin(t) \/ RosterTooShort(t) \/ Prepare(t) \/ MusicStopped(t)
             \/ Prepared(t) \/ StartConfirmed(t) \/ StreamOver(t) \/ RestoreTask(t)
             \/ Reregister(t)
      PROVE ResetsTyped'
  BY <1>1, <1>3 DEF Begin, RosterTooShort, Prepare, MusicStopped, Prepared, StartConfirmed,
                    StreamOver, RestoreTask, Reregister
<1>4. ASSUME NEW t \in Task,
             DropReadyStart(t) \/ RosterAborted(t) \/ Restored(t) \/ TaskCancelled(t)
      PROVE ResetsTyped'
  BY <1>1, <1>4 DEF DropReadyStart, RosterAborted, Restored, TaskCancelled
<1>5. CASE StartMenu \/ Boot \/ LobbyEntered \/ StartMenuHungUp \/ StopMenu
  BY <1>1, <1>5 DEF StartMenu, Boot, LobbyEntered, StartMenuHungUp, StopMenu
<1>6. ASSUME NEW r \in Reset, ResetMenu(r)
      PROVE ResetsTyped'
  BY <1>6 DEF ResetMenu
<1>7. ASSUME NEW r \in Reset, LookupInactive(r) \/ ResetKept(r) \/ ResetDone(r)
      PROVE ResetsTyped'
  BY <1>7 DEF LookupInactive, ResetKept, ResetDone, ResetStep, ResetOver, NoReset
<1>8. ASSUME NEW r \in Reset, CancelLifecycle(r)
      PROVE ResetsTyped'
  BY SMTT(20), <1>8 DEF CancelLifecycle, ResetStep, ResetOver, NoReset
<1>9. ASSUME NEW r \in Reset, RestoreByReset(r)
      PROVE ResetsTyped'
  <2> PICK t \in Task : reset' = [reset EXCEPT ![r] = [pc |-> "restoring", task |-> t]]
    BY <1>9 DEF RestoreByReset
  <2> QED OBVIOUS
<1>10. ASSUME NEW r \in Reset, ResetHungUp(r)
       PROVE ResetsTyped'
  BY <1>1, <1>10 DEF ResetHungUp
<1> QED BY <1>2, <1>3, <1>4, <1>5, <1>6, <1>7, <1>8, <1>9, <1>10 DEF Next

LEMMA TasksStep ==
  ASSUME TasksTyped, ResetsTyped, [Next]_vars
  PROVE  TasksTyped'
<1> USE DEF TasksTyped, Preparing, InGame, Restoring, Step, Kind, calls
<1>1. ASSUME UNCHANGED <<task, cancelling, current>>
      PROVE TasksTyped'
  BY <1>1
<1>2. ASSUME NEW t \in Task, NEW kind \in Kind, NEW s, Accept(t, kind, s)
      PROVE TasksTyped'
  BY <1>2, SpawnEffect DEF Accept
<1>3. CASE ReadyStart \/ WebStart \/ ForceStart \/ PadRosterDone
  BY <1>1, <1>2, <1>3 DEF ReadyStart, WebStart, ForceStart, PadRosterDone, Reject
<1>4. ASSUME NEW t \in Task,
             \/ Begin(t) \/ RosterTooShort(t) \/ MusicStopped(t) \/ StartConfirmed(t)
             \/ StreamOver(t) \/ RestoreTask(t) \/ Reregister(t)
      PROVE TasksTyped'
  BY <1>4, GotoEffect
     DEF Begin, RosterTooShort, MusicStopped, StartConfirmed, StreamOver, RestoreTask,
         Reregister, BeginRestore
<1>5. ASSUME NEW t \in Task, Prepare(t)
      PROVE TasksTyped'
  <2> DEFINE x == [pc |-> "music", kind |-> "other", stoppedBefore |-> state = "STOPPED"]
  <2>1. x \in TaskRecord
    BY DEF TaskRecord
  <2> HIDE DEF x
  <2> QED BY <1>5, <2>1, Replaced DEF Prepare, x
<1>6. ASSUME NEW t \in Task, Prepared(t)
      PROVE TasksTyped'
  <2> DEFINE x(pc) == [NoTask EXCEPT !.pc = pc]
  <2>1. x("connect") \in TaskRecord /\ x("open") \in TaskRecord
    BY DEF TaskRecord, NoTask
  <2>2. \/ task' = [task EXCEPT ![t] = x("connect")]
        \/ task' = [task EXCEPT ![t] = x("open")]
    BY <1>6 DEF Prepared
  <2>3. cancelling' \subseteq Task /\ current' = current
    BY <1>6 DEF Prepared
  <2> HIDE DEF x
  <2> QED BY <2>1, <2>2, <2>3, Replaced
<1>7. ASSUME NEW t \in Task,
             DropReadyStart(t) \/ RosterAborted(t) \/ Restored(t) \/ TaskCancelled(t)
      PROVE TasksTyped'
  BY <1>7, LeaveEffect DEF DropReadyStart, RosterAborted, Restored, TaskCancelled
<1>8. CASE \/ AllReady \/ PadHold \/ PadForceStart \/ StartMenu \/ Boot \/ LobbyEntered
           \/ StartMenuHungUp \/ StopMenu \/ GameAdmitted \/ GameOver \/ UNCHANGED vars
  BY <1>1, <1>8 DEF AllReady, PadHold, PadForceStart, StartMenu, Boot, LobbyEntered,
                    StartMenuHungUp, StopMenu, GameAdmitted, GameOver, vars
<1>9. ASSUME NEW r \in Reset, ResetMenu(r) \/ LookupInactive(r) \/ ResetKept(r)
      PROVE TasksTyped'
  BY <1>1, <1>9 DEF ResetMenu, LookupInactive, ResetKept
<1>10. ASSUME NEW r \in Reset, CancelLifecycle(r)
       PROVE TasksTyped'
  <2>1. reset[r].task \in Task
    BY <1>10 DEF CancelLifecycle, ResetsTyped, ResetRecord
  <2>2. cancelling' \subseteq Task
    BY <1>10, <2>1 DEF CancelLifecycle
  <2> QED BY <1>10, <2>2 DEF CancelLifecycle
<1>11. ASSUME NEW r \in Reset, RestoreByReset(r)
       PROVE TasksTyped'
  BY <1>11, SpawnEffect DEF RestoreByReset
<1>12. ASSUME NEW r \in Reset, ResetDone(r)
       PROVE TasksTyped'
  BY <1>12 DEF ResetDone
<1>13. ASSUME NEW r \in Reset, ResetHungUp(r)
       PROVE TasksTyped'
  BY <1>13 DEF ResetHungUp, ResetsTyped, ResetRecord
<1> QED BY <1>3, <1>4, <1>5, <1>6, <1>7, <1>8, <1>9, <1>10, <1>11, <1>12, <1>13 DEF Next

-----------------------------------------------------------------------------
(* The inductive invariant: while the tasks are followed at most one is    *)
(* alive, so a step is about that one.                                     *)

\* What the invariant says of one task.
TaskOk(t) ==
  /\ task[t].pc \in InGame => ~buttons
  /\ task[t].pc \in InGame => (idle => "entryOvertaken" \in accidents)
  /\ task[t].pc = "buttons" => ~buttons
  /\ task[t].pc \in Preparing => (idle => "entryOvertaken" \in accidents)
  /\ task[t].pc = "aborting" /\ state = "GAME_STARTING" => deferred
  /\ task[t].pc \in {"delay", "aborting"} => task[t].kind # "restore"
  /\ task[t].pc \in Restoring => restarting /\ state # "GAME_STARTING"

\* MenuInv without its types and what is owed.
Inv ==
  /\ OneLifecycle /\ QuietInGame
  /\ ButtonsOff /\ IdleOff /\ AbortSettles /\ KindKept /\ RestoreMarked
  /\ CancelOwned /\ StartOwed

\* The invariant is what it says of each task, and the task's owners.
LEMMA PartsOk ==
  ASSUME Inv, Followed, NEW t \in Task
  PROVE  TaskOk(t)
BY DEF Inv, TaskOk, Followed, QuietInGame, ButtonsOff, IdleOff, AbortSettles, KindKept,
       RestoreMarked

LEMMA OkPartsNext ==
  ASSUME \A t \in Task : TaskOk(t)'
  PROVE  (QuietInGame /\ ButtonsOff /\ IdleOff /\ AbortSettles /\ KindKept /\ RestoreMarked)'
BY DEF TaskOk, Followed, QuietInGame, ButtonsOff, IdleOff, AbortSettles, KindKept,
       RestoreMarked

\* A free or a new task owes nothing.
LEMMA FreeOkNext ==
  ASSUME NEW t \in Task, task'[t].pc \in {"free", "created"}
  PROVE  TaskOk(t)'
BY DEF TaskOk, Preparing, InGame, Restoring

\* A live task is the only one.
LEMMA Alone ==
  ASSUME TasksTyped, OneLifecycle, Followed, NEW t \in Task, Alive(t)
  PROVE  /\ current = t /\ Live
         /\ \A u \in Task \ {t} : task[u].pc = "free"
BY MenuAssumption DEF OneLifecycle, Followed, Alive, Live, TasksTyped

\* Outside a live lifecycle every slot is free.
LEMMA Nobody ==
  ASSUME TasksTyped, OneLifecycle, Followed, ~Live
  PROVE  \A t \in Task : task[t].pc = "free"
BY MenuAssumption DEF OneLifecycle, Followed, Alive, Live, TasksTyped

\* The one live task goes on.
LEMMA GoesOn ==
  ASSUME TasksTyped, Inv, Followed, NEW t \in Task, Alive(t),
         task'[t].pc # "free", \A u \in Task \ {t} : task'[u] = task[u],
         current' = current, cancelling' \subseteq cancelling, reset' = reset,
         Undisturbed' => Undisturbed, TaskOk(t)'
  PROVE  Inv'
<1>1. current = t /\ \A u \in Task \ {t} : task'[u].pc = "free"
  BY Alone DEF Inv
<1>2. \A u \in Task : TaskOk(u)'
  BY <1>1, FreeOkNext
<1>3. OneLifecycle'
  BY <1>1 DEF OneLifecycle, Alive
<1>4. CancelOwned'
  BY DEF Inv, CancelOwned, Alive, TasksTyped
<1>5. StartOwed'
  BY DEF StartOwed, Alive
<1> QED BY <1>2, <1>3, <1>4, <1>5, OkPartsNext DEF Inv

\* The one live task ends and leaves no start behind.
LEMMA GoesAway ==
  ASSUME TasksTyped, Inv, Followed, NEW t \in Task, Alive(t),
         task'[t].pc = "free", \A u \in Task \ {t} : task'[u] = task[u],
         current' = current, cancelling' = cancelling \ {t}, reset' = reset,
         Undisturbed' => Undisturbed,
         StartOwed'
  PROVE  Inv'
<1>1. \A u \in Task : task'[u].pc = "free"
  BY Alone DEF Inv
<1>2. \A u \in Task : TaskOk(u)'
  BY <1>1, FreeOkNext
<1>3. OneLifecycle'
  BY <1>1 DEF OneLifecycle, Alive
<1>4. CancelOwned'
  BY DEF Inv, CancelOwned, Alive, TasksTyped
<1> QED BY <1>2, <1>3, <1>4, OkPartsNext DEF Inv

\* A task is created where none was alive.
LEMMA Comes ==
  ASSUME TasksTyped, Inv, \A u \in Task : task[u].pc = "free",
         NEW t \in Task, task'[t].pc = "created",
         \A u \in Task \ {t} : task'[u] = task[u],
         current' = t, cancelling' = cancelling
  PROVE  Inv'
<1>1. \A u \in Task : TaskOk(u)'
  BY FreeOkNext
<1>2. OneLifecycle'
  BY DEF OneLifecycle, Alive
<1>3. cancelling' = {}
  BY DEF Inv, CancelOwned, Alive, TasksTyped
<1>4. CancelOwned' /\ StartOwed'
  BY <1>3 DEF CancelOwned, StartOwed, Alive
<1> QED BY <1>1, <1>2, <1>4, OkPartsNext DEF Inv

\* The tasks and the resets stay as they are.
LEMMA Kept ==
  ASSUME Inv, Followed,
         UNCHANGED <<task, cancelling, current, reset>>,
         Undisturbed' => Undisturbed, Followed' => Followed,
         \A t \in Task : TaskOk(t) => TaskOk(t)', StartOwed'
  PROVE  Inv'
<1>1. \A u \in Task : TaskOk(u)'
  BY PartsOk
<1>2. OneLifecycle' /\ CancelOwned'
  BY DEF Inv, OneLifecycle, CancelOwned, Followed, Alive
<1> QED BY <1>1, <1>2, OkPartsNext DEF Inv

\* The resets move, and none that cancels stops to.
LEMMA ResetsMove ==
  ASSUME Inv, Followed, NEW r \in Reset, reset[r].pc # "cancelling",
         UNCHANGED <<task, cancelling, current, idle, buttons, deferred, restarting,
                     accidents>>,
         \A q \in Reset \ {r} : reset'[q] = reset[q],
         state' = state \/ state' = "RUNNING"
  PROVE  Inv'
<1>1. \A u \in Task : TaskOk(u)'
  BY PartsOk DEF TaskOk
<1>2. OneLifecycle'
  BY DEF Inv, OneLifecycle, Alive
<1>3. CancelOwned'
  BY DEF Inv, CancelOwned, Alive, Undisturbed
<1>4. StartOwed'
  BY DEF Inv, StartOwed, Alive, Undisturbed
<1> QED BY <1>1, <1>2, <1>3, <1>4, OkPartsNext DEF Inv

\* Nothing the invariant looks at changes.
LEMMA Unseen ==
  ASSUME Inv, Followed,
         UNCHANGED <<state, idle, buttons, task, cancelling, current, deferred, restarting,
                     reset, accidents>>
  PROVE  Inv'
<1>1. \A t \in Task : TaskOk(t) => TaskOk(t)'
  BY DEF TaskOk
<1>2. StartOwed'
  BY DEF Inv, StartOwed, Undisturbed, Alive
<1> QED BY <1>1, <1>2, Kept DEF Undisturbed, Followed

\* An accepted start creates the one live task.
LEMMA AcceptComes ==
  ASSUME TasksTyped, Inv, Followed, NEW t \in Task, NEW kind \in Kind, NEW s,
         Accept(t, kind, s)
  PROVE  Inv'
<1>1. \A u \in Task : task[u].pc = "free"
  BY Nobody DEF Accept, Inv
<1>2. Spawn(t, kind, Reset) /\ cancelling' = cancelling
  BY DEF Accept
<1> QED BY <1>1, <1>2, SpawnEffect, Comes

\* A followed step keeps the invariant.
LEMMA InvStep ==
  ASSUME Typed, Inv, Followed, Next
  PROVE  Inv'
<1> USE DEF Typed
<1>1. CASE AllReady
  BY <1>1, Unseen DEF AllReady, calls
<1>2. CASE ReadyStart
  <2>1. CASE UNCHANGED <<state, idle, buttons, task, cancelling, current>>
    BY <1>2, <2>1, Unseen DEF ReadyStart
  <2>2. ASSUME NEW t \in Task, Accept(t, "ready", state)
        PROVE Inv'
    BY <2>2, AcceptComes DEF Kind
  <2> QED BY <1>2, <2>1, <2>2 DEF ReadyStart, Reject
<1>3. ASSUME NEW s, NEW t \in Task, Accept(t, "other", s)
      PROVE Inv'
  BY <1>3, AcceptComes DEF Kind
<1>4. CASE WebStart
  <2>1. CASE Reject /\ UNCHANGED accidents
    BY <1>4, <2>1, Unseen DEF WebStart, Reject
  <2> QED BY <1>3, <1>4, <2>1 DEF WebStart
<1>5. CASE ForceStart
  <2>1. CASE Reject /\ UNCHANGED accidents
    BY <1>5, <2>1, Unseen DEF ForceStart, Reject
  <2> QED BY <1>3, <1>5, <2>1 DEF ForceStart
<1>6. CASE PadHold
  BY <1>6, Unseen DEF PadHold, lobby
<1>7. CASE PadForceStart
  BY <1>7, Unseen DEF PadForceStart, lobby
<1>8. CASE PadRosterDone
  <2>1. CASE UNCHANGED <<state, idle, buttons, task, cancelling, current, accidents>>
    BY <1>8, <2>1, Unseen DEF PadRosterDone
  <2> QED BY <1>3, <1>8, <2>1 DEF PadRosterDone
<1>9. ASSUME NEW t \in Task, Begin(t)
      PROVE Inv'
  <2>1. Alive(t) /\ Goto(t, "delay") /\ task[t].kind # "restore"
    BY <1>9 DEF Begin, At, Alive
  <2>2. "delay" \in Step
    BY DEF Step
  <2>3. TaskOk(t)'
    BY <2>1, <2>2, GotoEffect DEF TaskOk, Preparing, InGame, Restoring
  <2> QED BY <1>9, <2>1, <2>2, <2>3, GotoEffect, GoesOn DEF Begin, Undisturbed
<1>10. ASSUME NEW t \in Task, DropReadyStart(t)
       PROVE Inv'
  <2>1. Alive(t) /\ Leave(t)
    BY <1>10 DEF DropReadyStart, At, Alive
  <2>2. StartOwed'
    BY <1>10 DEF DropReadyStart, Dropped, StartOwed
  <2> QED BY <1>10, <2>1, <2>2, LeaveEffect, GoesAway DEF DropReadyStart, Undisturbed
<1>11. ASSUME NEW t \in Task, RosterTooShort(t)
       PROVE Inv'
  <2>1. Alive(t) /\ Goto(t, "aborting")
    BY <1>11 DEF RosterTooShort, At, Alive
  <2>2. "aborting" \in Step
    BY DEF Step
  <2>3. task[t].kind # "restore"
    BY <1>11, PartsOk DEF RosterTooShort, At, TaskOk
  <2>4. state' # "GAME_STARTING"
    BY <1>11 DEF RosterTooShort
  <2>5. TaskOk(t)'
    BY <2>1, <2>2, <2>3, <2>4, GotoEffect DEF TaskOk, Preparing, InGame, Restoring
  <2> QED BY <1>11, <2>1, <2>2, <2>5, GotoEffect, GoesOn DEF RosterTooShort, Undisturbed
<1>12. ASSUME NEW t \in Task, RosterAborted(t)
       PROVE Inv'
  <2>1. Alive(t) /\ Leave(t)
    BY <1>12 DEF RosterAborted, At, Alive
  <2>2. state' # "GAME_STARTING"
    BY <1>12, PartsOk DEF RosterAborted, At, TaskOk, Settled
  <2>3. StartOwed'
    BY <2>2 DEF StartOwed
  <2> QED BY <1>12, <2>1, <2>3, LeaveEffect, GoesAway DEF RosterAborted, Undisturbed
<1>13. ASSUME NEW t \in Task, Prepare(t)
       PROVE Inv'
  <2> DEFINE x == [pc |-> "music", kind |-> "other", stoppedBefore |-> state = "STOPPED"]
  <2>1. x \in TaskRecord /\ x.pc = "music"
    BY DEF TaskRecord, Step, Preparing, Kind
  <2>2. Alive(t) /\ task' = [task EXCEPT ![t] = x]
    BY <1>13 DEF Prepare, At, Alive
  <2> HIDE DEF x
  <2>3. task'[t].pc = "music" /\ \A u \in Task \ {t} : task'[u] = task[u]
    BY <2>1, <2>2, Replaced
  <2>4. TaskOk(t)'
    BY <1>13, <2>3 DEF Prepare, TaskOk, Preparing, InGame, Restoring
  <2> QED BY <1>13, <2>2, <2>3, <2>4, GoesOn DEF Prepare, Undisturbed, calls
<1>14. ASSUME NEW t \in Task, MusicStopped(t)
       PROVE Inv'
  <2>1. Alive(t) /\ Goto(t, "buttons")
    BY <1>14 DEF MusicStopped, At, Alive
  <2>2. "buttons" \in Step
    BY DEF Step, Preparing
  <2>3. idle => "entryOvertaken" \in accidents
    BY <1>14, PartsOk DEF MusicStopped, At, TaskOk, Preparing
  <2>4. TaskOk(t)'
    BY <1>14, <2>1, <2>2, <2>3, GotoEffect
       DEF MusicStopped, TaskOk, Preparing, InGame, Restoring
  <2> QED BY <1>14, <2>1, <2>2, <2>4, GotoEffect, GoesOn DEF MusicStopped, Undisturbed
<1>15. ASSUME NEW t \in Task, Prepared(t)
       PROVE Inv'
  <2> DEFINE x(pc) == [NoTask EXCEPT !.pc = pc]
  <2>1. /\ x("connect") \in TaskRecord /\ x("connect").pc = "connect"
        /\ x("open") \in TaskRecord /\ x("open").pc = "open"
    BY DEF TaskRecord, NoTask, Step, InGame, Restoring, Kind
  <2>2. /\ Alive(t) /\ cancelling' \subseteq cancelling
        /\ UNCHANGED <<current, reset>>
        /\ accidents' = accidents \/ accidents' = accidents \cup {"cancelLost"}
    BY <1>15 DEF Prepared, Alive
  <2>3. ~buttons /\ (idle => "entryOvertaken" \in accidents)
    BY <1>15, PartsOk DEF Prepared, TaskOk, Preparing
  <2>4. CASE /\ restarting' = TRUE /\ state = "STOPPED" /\ UNCHANGED state
             /\ task' = [task EXCEPT ![t] = x("connect")]
    <3> HIDE DEF x
    <3>1. task'[t].pc = "connect" /\ \A u \in Task \ {t} : task'[u] = task[u]
      BY <2>1, <2>4, Replaced
    <3>2. TaskOk(t)'
      BY <2>4, <3>1 DEF TaskOk, Preparing, InGame, Restoring
    <3> QED BY <2>2, <3>1, <3>2, GoesOn DEF Undisturbed
  <2>5. CASE UNCHANGED <<buttons, idle>> /\ task' = [task EXCEPT ![t] = x("open")]
    <3> HIDE DEF x
    <3>1. task'[t].pc = "open" /\ \A u \in Task \ {t} : task'[u] = task[u]
      BY <2>1, <2>5, Replaced
    <3>2. TaskOk(t)'
      BY <2>2, <2>3, <2>5, <3>1 DEF TaskOk, Preparing, InGame, Restoring
    <3> QED BY <2>2, <3>1, <3>2, GoesOn DEF Undisturbed
  <2> QED BY <1>15, <2>4, <2>5 DEF Prepared
<1>16. ASSUME NEW t \in Task, StartConfirmed(t)
       PROVE Inv'
  <2>1. Alive(t) /\ Goto(t, "follow") /\ task[t].pc \in InGame
    BY <1>16 DEF StartConfirmed, At, Alive, InGame
  <2>2. "follow" \in Step
    BY DEF Step, InGame
  <2>3. ~buttons /\ (idle => "entryOvertaken" \in accidents)
    BY <2>1, PartsOk DEF TaskOk
  <2>4. TaskOk(t)'
    BY <1>16, <2>1, <2>2, <2>3, GotoEffect
       DEF StartConfirmed, lobby, TaskOk, Preparing, InGame, Restoring
  <2> QED BY <1>16, <2>1, <2>2, <2>4, GotoEffect, GoesOn DEF StartConfirmed, Undisturbed
<1>17. ASSUME NEW t \in Task, Alive(t), BeginRestore(t), UNCHANGED reset,
              accidents' = accidents \/ accidents' = accidents \ {"cancelLost"}
       PROVE Inv'
  <2>1. Goto(t, "connect") /\ restarting' = TRUE /\ state' # "GAME_STARTING"
    BY <1>17 DEF BeginRestore
  <2>2. "connect" \in Step
    BY DEF Step, Restoring
  <2>3. TaskOk(t)'
    BY <2>1, <2>2, GotoEffect DEF TaskOk, Preparing, InGame, Restoring
  <2> QED BY <1>17, <2>1, <2>2, <2>3, GotoEffect, GoesOn DEF Undisturbed
<1>18. ASSUME NEW t \in Task, StreamOver(t)
       PROVE Inv'
  BY <1>17, <1>18 DEF StreamOver, At, Alive
<1>19. ASSUME NEW t \in Task, RestoreTask(t)
       PROVE Inv'
  BY <1>17, <1>19 DEF RestoreTask, At, Alive
<1>20. ASSUME NEW t \in Task, Reregister(t)
       PROVE Inv'
  <2>1. Alive(t) /\ Goto(t, "recolour") /\ task[t].pc \in Restoring
    BY <1>20 DEF Reregister, At, Alive, Restoring
  <2>2. "recolour" \in Step
    BY DEF Step, Restoring
  <2>3. restarting /\ state # "GAME_STARTING"
    BY <2>1, PartsOk DEF TaskOk
  <2>4. TaskOk(t)'
    BY <1>20, <2>1, <2>2, <2>3, GotoEffect
       DEF Reregister, TaskOk, Preparing, InGame, Restoring
  <2> QED BY <1>20, <2>1, <2>2, <2>4, GotoEffect, GoesOn DEF Reregister, Undisturbed
<1>21. ASSUME NEW t \in Task, Restored(t)
       PROVE Inv'
  <2>1. Alive(t) /\ Leave(t)
    BY <1>21 DEF Restored, At, Alive
  <2>2. state' # "GAME_STARTING"
    BY <1>21, PartsOk DEF Restored, At, TaskOk, Settled, Restoring
  <2>3. StartOwed'
    BY <2>2 DEF StartOwed
  <2> QED BY <1>21, <2>1, <2>3, LeaveEffect, GoesAway DEF Restored, Undisturbed
<1>22. ASSUME NEW t \in Task, TaskCancelled(t)
       PROVE Inv'
  <2>1. Alive(t) /\ Leave(t)
    BY <1>22 DEF TaskCancelled, Inv, CancelOwned
  <2>2. Undisturbed => \E r \in Reset : reset[r].pc = "cancelling"
    BY <1>22 DEF TaskCancelled, Inv, CancelOwned
  <2>3. StartOwed'
    BY <1>22, <2>2 DEF TaskCancelled, StartOwed, Undisturbed
  <2> QED BY <1>22, <2>1, <2>3, LeaveEffect, GoesAway DEF TaskCancelled, Undisturbed
<1>23. ASSUME state' = "RUNNING", accidents' = accidents \ {"stopUndone"},
              UNCHANGED <<idle, buttons, deferred, restarting, task, cancelling, current,
                          reset>>
       PROVE Inv'
  <2>1. \A t \in Task : TaskOk(t) => TaskOk(t)'
    BY <1>23 DEF TaskOk
  <2>2. StartOwed'
    BY <1>23 DEF StartOwed
  <2> QED BY <1>23, <2>1, <2>2, Kept DEF Undisturbed, Followed
<1>24. CASE StartMenu
  <2>1. CASE EnterLobby
    BY <1>23, <1>24, <2>1 DEF StartMenu, EnterLobby, Word
  <2>2. CASE DeferStartMenu
    <3>1. \A t \in Task : TaskOk(t) => TaskOk(t)'
      BY <1>24, <2>2 DEF StartMenu, DeferStartMenu, Word, TaskOk
    <3>2. StartOwed'
      BY <1>24, <2>2 DEF StartMenu, DeferStartMenu, StartOwed, Live, TasksTyped, Alive
    <3> QED BY <1>24, <2>2, <3>1, <3>2, Kept
            DEF StartMenu, DeferStartMenu, Word, Undisturbed, Followed
  <2> QED BY <1>24, <2>1, <2>2 DEF StartMenu
<1>25. CASE Boot
  <2>1. CASE EnterLobby
    BY <1>23, <1>25, <2>1 DEF Boot, EnterLobby, Word
  <2>2. CASE UNCHANGED <<lobby, deferred, entering, asked, accidents>>
    BY <1>25, <2>2, Unseen DEF Boot, lobby
  <2> QED BY <1>25, <2>1, <2>2 DEF Boot
<1>26. CASE LobbyEntered
  <2>1. \A t \in Task : TaskOk(t) => TaskOk(t)'
    <3>1. ASSUME NEW t \in Task, TaskOk(t), task[t].pc = "free"
          PROVE TaskOk(t)'
      BY <1>26, <3>1, FreeOkNext DEF LobbyEntered
    <3>2. ASSUME NEW t \in Task, TaskOk(t), Alive(t)
          PROVE TaskOk(t)'
      <4>1. "entryOvertaken" \in accidents'
        BY <1>26, <3>2 DEF LobbyEntered
      <4> QED BY <1>26, <3>2, <4>1 DEF LobbyEntered, TaskOk
    <3> QED BY <3>1, <3>2 DEF Alive
  <2>2. Undisturbed' => Undisturbed
    BY <1>26 DEF LobbyEntered, Undisturbed
  <2>3. StartOwed'
    BY <1>26, <2>2 DEF LobbyEntered, Inv, StartOwed, Alive
  <2> QED BY <1>26, <2>1, <2>2, <2>3, Kept DEF LobbyEntered, Followed
<1>27. CASE StartMenuHungUp
  <2>1. \A t \in Task : TaskOk(t) => TaskOk(t)'
    BY <1>27 DEF StartMenuHungUp, lobby, TaskOk
  <2>2. ~Undisturbed'
    BY <1>27 DEF StartMenuHungUp, Undisturbed
  <2> QED BY <1>27, <2>1, <2>2, Kept DEF StartMenuHungUp, Followed, StartOwed
<1>28. CASE StopMenu
  <2>1. \A t \in Task : TaskOk(t) => TaskOk(t)'
    BY <1>28 DEF StopMenu, TaskOk
  <2>2. StartOwed'
    BY <1>28 DEF StopMenu, StartOwed
  <2>3. Undisturbed' => Undisturbed
    BY <1>28 DEF StopMenu, Undisturbed
  <2> QED BY <1>28, <2>1, <2>2, <2>3, Kept DEF StopMenu, Followed, calls
<1>29. ASSUME NEW r \in Reset, ResetMenu(r)
       PROVE Inv'
  BY <1>29, ResetsMove DEF ResetMenu, ResetsTyped
<1>30. ASSUME NEW r \in Reset, LookupInactive(r)
       PROVE Inv'
  BY <1>30, ResetsMove DEF LookupInactive, ResetStep, lobby, ResetsTyped
<1>31. ASSUME NEW r \in Reset, ResetKept(r)
       PROVE Inv'
  BY <1>31, ResetsMove DEF ResetKept, ResetOver, lobby, ResetsTyped
<1>32. ASSUME NEW r \in Reset, CancelLifecycle(r)
       PROVE Inv'
  <2>1. CASE cancelling' = cancelling
    BY <1>32, <2>1, ResetsMove
       DEF CancelLifecycle, ResetStep, ResetOver, lobby, ResetsTyped
  <2>2. CASE /\ current = reset[r].task /\ Alive(current)
             /\ ResetStep(r, "cancelling") /\ cancelling' = cancelling \cup {current}
    <3>1. current \in Task
      BY <1>32, <2>2 DEF CancelLifecycle, ResetsTyped, ResetRecord
    <3>2. /\ reset'[r].pc = "cancelling" /\ reset'[r].task = current
          /\ \A q \in Reset \ {r} : reset'[q] = reset[q]
      BY <1>32, <2>2 DEF ResetStep, ResetsTyped, ResetRecord
    <3>3. UNCHANGED <<state, idle, buttons, task, current, deferred, restarting, accidents>>
      BY <1>32 DEF CancelLifecycle, lobby
    <3>4. \A t \in Task : TaskOk(t)'
      BY <3>3, PartsOk DEF TaskOk
    <3>5. OneLifecycle'
      BY <3>3 DEF Inv, OneLifecycle, Alive
    <3>6. CancelOwned'
      <4>1. \A t \in cancelling' : Alive(t)'
        BY <2>2, <3>3 DEF Inv, CancelOwned, Alive
      <4>2. ASSUME NEW t \in cancelling, Undisturbed
            PROVE \E q \in Reset : reset'[q].pc = "cancelling" /\ reset'[q].task = t
        BY <1>32, <3>2, <4>2 DEF CancelLifecycle, Inv, CancelOwned
      <4> QED BY <2>2, <3>2, <3>3, <4>1, <4>2 DEF CancelOwned, Undisturbed
    <3>7. StartOwed'
      BY <3>1, <3>3, <2>2 DEF StartOwed, Alive
    <3> QED BY <3>4, <3>5, <3>6, <3>7, OkPartsNext DEF Inv
  <2> QED BY <1>32, <2>1, <2>2 DEF CancelLifecycle
<1>33. ASSUME NEW r \in Reset, RestoreByReset(r)
       PROVE Inv'
  <2>1. PICK t \in Task : /\ Spawn(t, "restore", Reset \ {r})
                          /\ reset' = [reset EXCEPT ![r] = [pc |-> "restoring", task |-> t]]
    BY <1>33 DEF RestoreByReset
  <2>2. /\ task'[t].pc = "created" /\ current' = t /\ ~Alive(t)
        /\ \A u \in Task \ {t} : task'[u] = task[u]
    BY <2>1, SpawnEffect DEF Kind
  <2>3. cancelling' = cancelling
    BY <1>33 DEF RestoreByReset
  <2>4. CASE ~Live
    BY <2>2, <2>3, <2>4, Nobody, Comes DEF Inv
  <2>5. CASE Live
    <3>1. ~Followed' /\ ~Undisturbed'
      BY <1>33, <2>5 DEF RestoreByReset, Followed, Undisturbed
    <3>2. KindKept'
      BY <2>2 DEF Inv, KindKept
    <3>3. CancelOwned'
      BY <2>2, <2>3, <3>1 DEF Inv, CancelOwned, Alive, TasksTyped
    <3> QED BY <3>1, <3>2, <3>3
            DEF Inv, OneLifecycle, QuietInGame, ButtonsOff, IdleOff, AbortSettles,
                RestoreMarked, StartOwed, Followed
  <2> QED BY <2>4, <2>5
<1>34. ASSUME NEW r \in Reset, ResetDone(r)
       PROVE Inv'
  <2>1. /\ reset[r].pc = "restoring" /\ ~Alive(reset[r].task)
        /\ current' = IF current = reset[r].task THEN None ELSE current
        /\ UNCHANGED <<state, idle, buttons, task, cancelling, deferred, restarting,
                       accidents>>
    BY <1>34 DEF ResetDone, lobby
  <2>2. \A q \in Reset \ {r} : reset'[q] = reset[q]
    BY <1>34 DEF ResetDone, ResetOver, ResetsTyped
  <2>3. \A t \in Task : TaskOk(t)'
    BY <2>1, PartsOk DEF TaskOk
  <2>4. OneLifecycle'
    BY <2>1 DEF Inv, OneLifecycle, Alive
  <2>5. CancelOwned'
    <3>1. \A t \in cancelling : Alive(t)'
      BY <2>1 DEF Inv, CancelOwned, Alive
    <3>2. ASSUME NEW t \in cancelling, Undisturbed
          PROVE \E q \in Reset : reset'[q].pc = "cancelling" /\ reset'[q].task = t
      BY <2>1, <2>2, <3>2 DEF Inv, CancelOwned
    <3> QED BY <2>1, <3>1, <3>2 DEF CancelOwned, Undisturbed
  <2>6. StartOwed'
    BY <2>1, <2>2 DEF Inv, StartOwed, Alive, Undisturbed
  <2> QED BY <2>3, <2>4, <2>5, <2>6, OkPartsNext DEF Inv
<1>35. ASSUME NEW r \in Reset, ResetHungUp(r)
       PROVE Inv'
  <2>1. /\ Alive(reset[r].task) /\ cancelling' = cancelling \cup {reset[r].task}
        /\ accidents' = accidents \cup {"hungUp"}
        /\ UNCHANGED <<state, idle, buttons, task, current, deferred, restarting, reset>>
    BY <1>35 DEF ResetHungUp, lobby
  <2>2. ~Undisturbed'
    BY <2>1 DEF Undisturbed
  <2>3. \A t \in Task : TaskOk(t)'
    BY <2>1, PartsOk DEF TaskOk
  <2>4. OneLifecycle' /\ CancelOwned' /\ StartOwed'
    BY <2>1, <2>2 DEF Inv, OneLifecycle, CancelOwned, StartOwed, Alive
  <2> QED BY <2>3, <2>4, OkPartsNext DEF Inv
<1>36. CASE GameAdmitted
  BY <1>36, Unseen DEF GameAdmitted, lobby, calls
<1>37. CASE GameOver
  BY <1>37, Unseen DEF GameOver, lobby, calls
<1> QED BY <1>1, <1>2, <1>4, <1>5, <1>6, <1>7, <1>8, <1>9, <1>10, <1>11, <1>12, <1>13,
           <1>14, <1>15, <1>16, <1>18, <1>19, <1>20, <1>21, <1>22, <1>24, <1>25, <1>26,
           <1>27, <1>28, <1>29, <1>30, <1>31, <1>32, <1>33, <1>34, <1>35, <1>36, <1>37
        DEF Next

\* The invariant holds at first and survives every step; a step is taken only while the
\* tasks are followed.
LEMMA InvInit == Init => Inv
BY DEF Init, NoTask, NoReset, Inv, OneLifecycle, QuietInGame, ButtonsOff, IdleOff,
       AbortSettles, KindKept, RestoreMarked, CancelOwned, StartOwed, Alive, InGame,
       Preparing, Restoring

LEMMA InvNext ==
  ASSUME Typed, Inv, [Next]_vars
  PROVE  Inv'
<1>1. CASE Next
  BY <1>1, InvStep DEF Next
<1>2. CASE UNCHANGED vars
  <2>1. \A t \in Task : TaskOk(t) => TaskOk(t)'
    BY <1>2 DEF vars, lobby, TaskOk
  <2> QED BY <1>2, <2>1
          DEF vars, lobby, calls, Inv, OneLifecycle, QuietInGame, ButtonsOff, IdleOff,
              AbortSettles, KindKept, RestoreMarked, CancelOwned, StartOwed, Alive,
              Followed, Undisturbed
<1> QED BY <1>1, <1>2

-----------------------------------------------------------------------------
(* What a menu at rest rests on: who still owes the lobby a monitor, the    *)
(* release of the latch or the operator's last word.                        *)

\* A followed step keeps what is owed.
LEMMA OwedStep ==
  ASSUME Typed, Inv, OwedInv, Followed, Next
  PROVE  OwedInv'
<1> USE DEF Typed, OwedInv, RestartOwned, IdleOwed, ButtonsOwed, LatchOwed, IdleStopped,
            StopHeld, MenuHeld, SecondTask, RestoreDue, TooLateToStop, Followed,
            Undisturbed, Alive, Preparing, InGame, Restoring
<1>1. CASE AllReady
  BY <1>1 DEF AllReady, calls
<1>2. CASE PadHold
  BY <1>2 DEF PadHold, lobby
<1>3. CASE PadForceStart
  BY <1>3 DEF PadForceStart, lobby
<1>4. CASE LobbyEntered
  BY <1>4 DEF LobbyEntered, CountsTyped
<1>5. CASE StartMenuHungUp
  BY <1>5 DEF StartMenuHungUp, lobby
<1>6. CASE StopMenu
  BY <1>6 DEF StopMenu, calls
<1>7. CASE GameAdmitted
  BY <1>7 DEF GameAdmitted, lobby, calls
<1>8. CASE GameOver
  BY <1>8 DEF GameOver, lobby, calls
<1>9. ASSUME NEW t \in Task, Begin(t)
      PROVE OwedInv'
  <2>1. \A u \in Task \ {t} : task[u].pc = "free"
    BY <1>9, Alone DEF Begin, At, Inv
  <2>2. Goto(t, "delay") /\ "delay" \in Step
    BY <1>9 DEF Begin, Step
  <2>3. /\ task'[t].pc = "delay" /\ task'[t].kind = task[t].kind
        /\ task'[t].stoppedBefore = task[t].stoppedBefore
        /\ \A u \in Task \ {t} : task'[u] = task[u]
    BY <2>2, GotoEffect
  <2> QED BY <1>9, <2>1, <2>3 DEF Begin, At, lobby
<1>10. ASSUME NEW t \in Task, DropReadyStart(t)
      PROVE OwedInv'
  <2>1. Alive(t) /\ Leave(t)
    BY <1>10 DEF DropReadyStart, At, Inv, CancelOwned
  <2>2. \A u \in Task \ {t} : task[u].pc = "free"
    BY <2>1, Alone DEF Inv
  <2>3. task'[t].pc = "free" /\ \A u \in Task \ {t} : task'[u] = task[u]
    BY <2>1, LeaveEffect
  <2> QED BY <1>10, <2>1, <2>2, <2>3 DEF DropReadyStart, At
<1>11. ASSUME NEW t \in Task, RosterTooShort(t)
      PROVE OwedInv'
  <2>1. \A u \in Task \ {t} : task[u].pc = "free"
    BY <1>11, Alone DEF RosterTooShort, At, Inv
  <2>2. Goto(t, "aborting") /\ "aborting" \in Step
    BY <1>11 DEF RosterTooShort, Step
  <2>3. /\ task'[t].pc = "aborting" /\ task'[t].kind = task[t].kind
        /\ task'[t].stoppedBefore = task[t].stoppedBefore
        /\ \A u \in Task \ {t} : task'[u] = task[u]
    BY <2>2, GotoEffect
  <2> QED BY <1>11, <2>1, <2>3 DEF RosterTooShort, At
<1>12. ASSUME NEW t \in Task, RosterAborted(t)
      PROVE OwedInv'
  <2>1. Alive(t) /\ Leave(t)
    BY <1>12 DEF RosterAborted, At, Inv, CancelOwned
  <2>2. \A u \in Task \ {t} : task[u].pc = "free"
    BY <2>1, Alone DEF Inv
  <2>3. task'[t].pc = "free" /\ \A u \in Task \ {t} : task'[u] = task[u]
    BY <2>1, LeaveEffect
  <2> QED BY <1>12, <2>1, <2>2, <2>3 DEF RosterAborted, At, Settled
<1>13. ASSUME NEW t \in Task, MusicStopped(t)
      PROVE OwedInv'
  <2>1. \A u \in Task \ {t} : task[u].pc = "free"
    BY <1>13, Alone DEF MusicStopped, At, Inv
  <2>2. Goto(t, "buttons") /\ "buttons" \in Step
    BY <1>13 DEF MusicStopped, Step
  <2>3. /\ task'[t].pc = "buttons" /\ task'[t].kind = task[t].kind
        /\ task'[t].stoppedBefore = task[t].stoppedBefore
        /\ \A u \in Task \ {t} : task'[u] = task[u]
    BY <2>2, GotoEffect
  <2> QED BY <1>13, <2>1, <2>3 DEF MusicStopped, At
<1>14. ASSUME NEW t \in Task, StartConfirmed(t)
      PROVE OwedInv'
  <2>1. \A u \in Task \ {t} : task[u].pc = "free"
    BY <1>14, Alone DEF StartConfirmed, At, Inv
  <2>2. Goto(t, "follow") /\ "follow" \in Step
    BY <1>14 DEF StartConfirmed, Step
  <2>3. /\ task'[t].pc = "follow" /\ task'[t].kind = task[t].kind
        /\ task'[t].stoppedBefore = task[t].stoppedBefore
        /\ \A u \in Task \ {t} : task'[u] = task[u]
    BY <2>2, GotoEffect
  <2> QED BY <1>14, <2>1, <2>3 DEF StartConfirmed, At, lobby
<1>15. ASSUME NEW t \in Task, StreamOver(t)
      PROVE OwedInv'
  <2>1. \A u \in Task \ {t} : task[u].pc = "free"
    BY <1>15, Alone DEF StreamOver, At, Inv
  <2>2. Goto(t, "connect") /\ "connect" \in Step
    BY <1>15 DEF StreamOver, Step, BeginRestore
  <2>3. /\ task'[t].pc = "connect" /\ task'[t].kind = task[t].kind
        /\ task'[t].stoppedBefore = task[t].stoppedBefore
        /\ \A u \in Task \ {t} : task'[u] = task[u]
    BY <2>2, GotoEffect
  <2> QED BY <1>15, <2>1, <2>3 DEF StreamOver, At, BeginRestore
<1>16. ASSUME NEW t \in Task, RestoreTask(t)
      PROVE OwedInv'
  <2>1. \A u \in Task \ {t} : task[u].pc = "free"
    BY <1>16, Alone DEF RestoreTask, At, Inv
  <2>2. Goto(t, "connect") /\ "connect" \in Step
    BY <1>16 DEF RestoreTask, Step, BeginRestore
  <2>3. /\ task'[t].pc = "connect" /\ task'[t].kind = task[t].kind
        /\ task'[t].stoppedBefore = task[t].stoppedBefore
        /\ \A u \in Task \ {t} : task'[u] = task[u]
    BY <2>2, GotoEffect
  <2> QED BY <1>16, <2>1, <2>3 DEF RestoreTask, At, BeginRestore
<1>17. ASSUME NEW t \in Task, Reregister(t)
      PROVE OwedInv'
  <2>1. \A u \in Task \ {t} : task[u].pc = "free"
    BY <1>17, Alone DEF Reregister, At, Inv
  <2>2. Goto(t, "recolour") /\ "recolour" \in Step
    BY <1>17 DEF Reregister, Step
  <2>3. /\ task'[t].pc = "recolour" /\ task'[t].kind = task[t].kind
        /\ task'[t].stoppedBefore = task[t].stoppedBefore
        /\ \A u \in Task \ {t} : task'[u] = task[u]
    BY <2>2, GotoEffect
  <2> QED BY <1>17, <2>1, <2>3 DEF Reregister, At
<1>18. ASSUME NEW t \in Task, Restored(t)
      PROVE OwedInv'
  <2>1. Alive(t) /\ Leave(t)
    BY <1>18 DEF Restored, At, Inv, CancelOwned
  <2>2. \A u \in Task \ {t} : task[u].pc = "free"
    BY <2>1, Alone DEF Inv
  <2>3. task'[t].pc = "free" /\ \A u \in Task \ {t} : task'[u] = task[u]
    BY <2>1, LeaveEffect
  <2> QED BY <1>18, <2>1, <2>2, <2>3 DEF Restored, At, Settled
<1>19. ASSUME NEW t \in Task, TaskCancelled(t)
      PROVE OwedInv'
  <2>1. Alive(t) /\ Leave(t)
    BY <1>19 DEF TaskCancelled, Inv, CancelOwned
  <2>2. \A u \in Task \ {t} : task[u].pc = "free"
    BY <2>1, Alone DEF Inv
  <2>3. task'[t].pc = "free" /\ \A u \in Task \ {t} : task'[u] = task[u]
    BY <2>1, LeaveEffect
  <2>4. Undisturbed => \E r \in Reset : reset'[r].pc = "cancelling"
    BY <1>19 DEF TaskCancelled, Inv, CancelOwned
  <2> QED BY <1>19, <2>1, <2>2, <2>3, <2>4 DEF TaskCancelled, lobby
<1>20. ASSUME NEW t \in Task, Prepare(t)
      PROVE OwedInv'
  <2> DEFINE x == [pc |-> "music", kind |-> "other", stoppedBefore |-> state = "STOPPED"]
  <2>1. x \in TaskRecord /\ x.pc = "music" /\ x.stoppedBefore = (state = "STOPPED")
    BY DEF TaskRecord, Step, Kind
  <2>2. Alive(t) /\ task' = [task EXCEPT ![t] = x]
    BY <1>20 DEF Prepare, At
  <2>3. \A u \in Task \ {t} : task[u].pc = "free"
    BY <2>2, Alone DEF Inv
  <2> HIDE DEF x
  <2>4. task'[t] = x /\ \A u \in Task \ {t} : task'[u] = task[u]
    BY <2>1, <2>2, Replaced
  <2>5. task[t].kind \in Kind
    BY DEF TasksTyped, TaskRecord
  <2> QED BY <1>20, <2>1, <2>3, <2>4, <2>5
          DEF Prepare, At, Dropped, Inv, KindKept, Kind, calls
<1>21. ASSUME NEW t \in Task, Prepared(t)
      PROVE OwedInv'
  <2> DEFINE x(pc) == [NoTask EXCEPT !.pc = pc]
  <2>1. /\ x("connect") \in TaskRecord /\ x("open") \in TaskRecord
        /\ x("connect").pc = "connect" /\ x("open").pc = "open"
    BY DEF TaskRecord, NoTask, Step, Kind
  <2>2. Alive(t) /\ \A u \in Task \ {t} : task[u].pc = "free"
    BY <1>21, Alone DEF Prepared, Inv
  <2>3. CASE /\ restarting' = TRUE /\ buttons' = TRUE /\ UNCHANGED state
             /\ task' = [task EXCEPT ![t] = x("connect")]
    <3> HIDE DEF x
    <3>1. task'[t].pc = "connect" /\ \A u \in Task \ {t} : task'[u] = task[u]
      BY <2>1, <2>3, Replaced
    <3> QED BY <1>21, <2>2, <2>3, <3>1 DEF Prepared
  <2>4. CASE /\ task[t].stoppedBefore \/ state # "STOPPED"
             /\ state' = "GAME_STARTING" /\ UNCHANGED <<restarting, buttons>>
             /\ task' = [task EXCEPT ![t] = x("open")]
    <3> HIDE DEF x
    <3>1. task'[t].pc = "open" /\ \A u \in Task \ {t} : task'[u] = task[u]
      BY <2>1, <2>4, Replaced
    <3> QED BY <1>21, <2>2, <2>4, <3>1 DEF Prepared
  <2> QED BY <1>21, <2>3, <2>4 DEF Prepared
<1>22. ASSUME NEW t \in Task, NEW kind \in Kind, NEW s, Accept(t, kind, s),
             UNCHANGED <<reset, entering, restarting>>, Undisturbed' => Undisturbed,
             Followed' = Followed,
             \/ /\ UNCHANGED <<asked, accidents>>
                /\ state # "STOPPED" /\ s = state
             \/ /\ asked' = "game"
                /\ s = state \/ s = "GAME_STARTING"
                /\ accidents' = accidents \ {"stopUndone"}
      PROVE OwedInv'
  <2>1. \A u \in Task : task[u].pc = "free"
    BY <1>22, Nobody DEF Accept, Inv
  <2>2. task'[t].pc = "created" /\ \A u \in Task \ {t} : task'[u] = task[u]
    BY <1>22, SpawnEffect DEF Accept
  <2>3. state' = s /\ UNCHANGED <<idle, buttons, latch>>
    BY <1>22 DEF Accept
  <2> QED BY <1>22, <2>1, <2>2, <2>3
<1>23. CASE ReadyStart
  BY <1>23, <1>22 DEF ReadyStart, Reject, Word, Kind
<1>24. CASE WebStart
  BY <1>24, <1>22 DEF WebStart, Reject, Word, Kind
<1>25. CASE ForceStart
  BY <1>25, <1>22 DEF ForceStart, Reject, Word, Kind
<1>26. CASE PadRosterDone
  BY <1>26, <1>22 DEF PadRosterDone, Reject, Word, Kind
<1>27. CASE StartMenu
  BY <1>27 DEF StartMenu, EnterLobby, DeferStartMenu, Word, CountsTyped, Inv, Live
<1>28. CASE Boot
  BY <1>28 DEF Boot, EnterLobby, Word, lobby, CountsTyped
<1>29. ASSUME NEW r \in Reset, ResetMenu(r)
      PROVE OwedInv'
  <2>1. CASE Live /\ UNCHANGED state
    BY <1>29, <2>1 DEF ResetMenu, ResetsTyped, ResetRecord
  <2>2. CASE ~Live /\ state = "GAME_STARTING" /\ state' = "RUNNING" /\ UNCHANGED reset
    <3>1. \A t \in Task : task[t].pc = "free"
      BY <2>2, Nobody DEF Inv
    <3>2. Undisturbed => \E q \in Reset : reset[q].pc = "cancelling"
      BY <2>2, <3>1 DEF Inv, StartOwed
    <3> QED BY <1>29, <2>2, <3>2 DEF ResetMenu
  <2> QED BY <1>29, <2>1, <2>2 DEF ResetMenu
<1>30. ASSUME NEW r \in Reset, RestoreByReset(r)
      PROVE OwedInv'
  <2>1. PICK t \in Task : Spawn(t, "restore", Reset \ {r})
    BY <1>30 DEF RestoreByReset
  <2>2. /\ task'[t].pc = "created" /\ task'[t].kind = "restore"
        /\ \A u \in Task \ {t} : task'[u] = task[u]
    BY <2>1, SpawnEffect DEF Kind
  <2>3. Live => ~Followed' /\ ~Undisturbed'
    BY <1>30 DEF RestoreByReset
  <2>4. ~Live => \A u \in Task : task[u].pc = "free"
    BY Nobody DEF Inv
  <2> QED BY <1>30, <2>2, <2>3, <2>4 DEF RestoreByReset, lobby
<1>31. ASSUME NEW r \in Reset, LookupInactive(r)
      PROVE OwedInv'
  BY <1>31 DEF LookupInactive, lobby, ResetStep, ResetsTyped
<1>32. ASSUME NEW r \in Reset, ResetKept(r)
      PROVE OwedInv'
  BY <1>32 DEF ResetKept, lobby, ResetOver, ResetsTyped
<1>33. ASSUME NEW r \in Reset, CancelLifecycle(r)
      PROVE OwedInv'
  BY <1>33 DEF CancelLifecycle, lobby, ResetStep, ResetOver, ResetsTyped, NoReset
<1>34. ASSUME NEW r \in Reset, ResetDone(r)
      PROVE OwedInv'
  BY <1>34 DEF ResetDone, lobby, ResetOver, ResetsTyped
<1>35. ASSUME NEW r \in Reset, ResetHungUp(r)
      PROVE OwedInv'
  BY <1>35 DEF ResetHungUp, lobby
<1> QED BY <1>1, <1>2, <1>3, <1>4, <1>5, <1>6, <1>7, <1>8, <1>9, <1>10, <1>11, <1>12,
           <1>13, <1>14, <1>15, <1>16, <1>17, <1>18, <1>19, <1>20, <1>21, <1>23,
           <1>24, <1>25, <1>26, <1>27, <1>28, <1>29, <1>30, <1>31, <1>32, <1>33,
           <1>34, <1>35
        DEF Next

\* What is owed is paid at first, and stays owed when nothing moves.
LEMMA OwedInit == Init => OwedInv
BY DEF Init, NoTask, NoReset, OwedInv, RestartOwned, IdleOwed, ButtonsOwed, LatchOwed,
       IdleStopped, StopHeld, MenuHeld, SecondTask, TooLateToStop, Followed, Preparing

LEMMA OwedNext ==
  ASSUME Typed, Inv, OwedInv, [Next]_vars
  PROVE  OwedInv'
<1>1. CASE Next
  BY <1>1, OwedStep DEF Next
<1>2. CASE UNCHANGED vars
  BY <1>2 DEF vars, lobby, calls, OwedInv, RestartOwned, IdleOwed, ButtonsOwed, LatchOwed,
              IdleStopped, StopHeld, MenuHeld, SecondTask, RestoreDue, TooLateToStop,
              Followed, Undisturbed, Alive
<1> QED BY <1>1, <1>2

-----------------------------------------------------------------------------
(* The theorems                                                            *)

\* The menu's lifecycles keep MenuInv, on which the theorems after it rest, for any
\* number of lifecycle tasks, reset_menu calls and lobby entries.
THEOREM LifecycleInvariant == Spec => []MenuInv
<1>1. Init => Typed /\ Inv /\ OwedInv
  BY TypeInit, TypeParts, InvInit, OwedInit
<1>2. Typed /\ Inv /\ OwedInv /\ [Next]_vars => Typed' /\ Inv' /\ OwedInv'
  BY LobbyStep, CountsStep, ResetsStep, TasksStep, InvNext, OwedNext DEF Typed
<1>3. Typed /\ Inv /\ OwedInv => MenuInv
  BY TypeParts DEF MenuInv, Inv
<1> QED BY <1>1, <1>2, <1>3, PTL DEF Spec

\* One lifecycle task at a time, until a start enters between the end of a cancelled task
\* and reset_menu's restore: _start_game refuses while one is live, and every way to a
\* second task goes through it or through reset_menu.
THEOREM OneLifecycleAlways == Spec => []OneLifecycle
BY LifecycleInvariant, PTL DEF MenuInv

\* While a game is requested or followed neither monitor of the lobby runs, whatever
\* StartMenu, StopMenu, boot entry and reset_menu do meanwhile.
THEOREM QuietInGameAlways == Spec => []QuietInGame
BY LifecycleInvariant, PTL DEF MenuInv

\* GAME_STARTING always has somebody who will leave it.
THEOREM StartNeverStuck == Spec => []StartNotStuck
<1>1. MenuInv => StartNotStuck
  BY DEF MenuInv, StartOwed, StartNotStuck
<1> QED BY <1>1, LifecycleInvariant, PTL

\* Every reachable state is well typed.
THEOREM MenuTyped == Spec => []TypeOK
BY LifecycleInvariant, PTL DEF MenuInv

\* What a step that starts no task, ends none and leaves the current one leaves the pad.
LEMMA PadStays ==
  ASSUME UNCHANGED <<task, current, pad>>
  PROVE  (~GenerationMoves /\ pad' = pad)
BY DEF GenerationMoves, Live, Alive

\* A new task moves the generation, and the pad with it.
LEMMA PadSpawned ==
  ASSUME TasksTyped, NEW t \in Task, NEW kind \in Kind, NEW R, Spawn(t, kind, R)
  PROVE  GenerationMoves /\ Live'
BY SpawnEffect, MenuAssumption DEF GenerationMoves, Live, Alive, TasksTyped

\* A task that goes on does not move it.
LEMMA PadGoesOn ==
  ASSUME TasksTyped, NEW t \in Task, Alive(t), task'[t].pc # "free",
         \A u \in Task \ {t} : task'[u] = task[u], current' = current
  PROVE  ~GenerationMoves
BY DEF GenerationMoves, Live, Alive, TasksTyped

\* A pad start whose lobby has changed since the operator held it starts nothing: every
\* step that moves lifecycle_generation withdraws the hold or makes its start stale.
THEOREM StaleHoldRefused == Spec => PadStartsHeldLobby
<1> DEFINE Withdrawn ==
      /\ GenerationMoves => CASE pad = "held" -> pad' = "away"
                              [] pad = "roster" -> pad' = "stale" \/ (Live' /\ pad' = "away")
                              [] OTHER -> pad' = pad
      /\ pad = "stale" /\ ~GenerationMoves => pad' \in {"stale", "away"}
<1>1. ASSUME Typed, Inv, [Next]_vars
      PROVE  Withdrawn
  <2>0. TasksTyped
    BY <1>1 DEF Typed
  <2>1. ASSUME pad' = Moved(pad)
        PROVE  Withdrawn
    BY <2>1 DEF Moved
  <2>2. ASSUME ~GenerationMoves, pad' = pad
        PROVE  Withdrawn
    BY <2>2
  <2>3. ASSUME UNCHANGED <<task, current, pad>>
        PROVE  Withdrawn
    BY <2>2, <2>3, PadStays
  <2> HIDE DEF Withdrawn
  <2>4. CASE ReadyStart \/ WebStart \/ ForceStart
    BY <2>1, <2>3, <2>4 DEF ReadyStart, WebStart, ForceStart, Reject
  <2>5. CASE PadRosterDone
    <3>1. CASE UNCHANGED <<task, current>>
      BY <2>5, <3>1 DEF Withdrawn, GenerationMoves, Live, Alive, PadRosterDone
    <3>2. ASSUME NEW t \in Task, pad = "roster", Spawn(t, "other", Reset)
          PROVE  Withdrawn
      <4>1. GenerationMoves /\ Live'
        BY <2>0, <3>2, PadSpawned DEF Kind
      <4>2. pad' = "away"
        BY <2>5 DEF PadRosterDone
      <4> QED BY <3>2, <4>1, <4>2 DEF Withdrawn
    <3> QED BY <2>5, <3>1, <3>2 DEF PadRosterDone, Accept
  <2>6. CASE PadHold \/ PadForceStart
    BY <2>6 DEF Withdrawn, PadHold, PadForceStart, GenerationMoves, Live, Alive
  <2>7. CASE AllReady \/ GameAdmitted \/ GameOver
    BY <2>3, <2>7 DEF AllReady, GameAdmitted, GameOver, calls
  <2>8. ASSUME NEW t \in Task, NEW pc \in Step, pc # "free", Alive(t), Goto(t, pc)
        PROVE  Withdrawn
    <3>1. /\ task'[t].pc # "free" /\ \A u \in Task \ {t} : task'[u] = task[u]
          /\ current' = current /\ pad' = pad
      BY <2>0, <2>8, GotoEffect
    <3> QED BY <2>0, <2>2, <2>8, <3>1, PadGoesOn
  <2>9. ASSUME NEW t \in Task,
               \/ Begin(t) \/ RosterTooShort(t) \/ MusicStopped(t) \/ StartConfirmed(t)
               \/ StreamOver(t) \/ RestoreTask(t) \/ Reregister(t)
        PROVE  Withdrawn
    BY <2>8, <2>9
       DEF Begin, RosterTooShort, MusicStopped, StartConfirmed, StreamOver, RestoreTask,
           Reregister, BeginRestore, At, Alive, Step, Preparing, InGame, Restoring
  <2>10. ASSUME NEW t \in Task, Prepare(t) \/ Prepared(t)
         PROVE  Withdrawn
    <3>1. Alive(t) /\ UNCHANGED <<current, pad>>
      BY <2>10 DEF Prepare, Prepared, At, Alive, calls
    <3>2. task'[t].pc # "free" /\ \A u \in Task \ {t} : task'[u] = task[u]
      <4>1. PICK x \in TaskRecord : x.pc # "free" /\ task' = [task EXCEPT ![t] = x]
        <5>1. CASE Prepare(t)
          <6> DEFINE x == [pc |-> "music", kind |-> "other",
                           stoppedBefore |-> state = "STOPPED"]
          <6>1. x \in TaskRecord /\ x.pc # "free"
            BY DEF TaskRecord, Step, Preparing, Kind
          <6>2. task' = [task EXCEPT ![t] = x]
            BY <5>1 DEF Prepare
          <6> QED BY <6>1, <6>2
        <5>2. CASE Prepared(t)
          BY <5>2 DEF Prepared, NoTask, TaskRecord, Step, InGame, Restoring, Kind
        <5> QED BY <2>10, <5>1, <5>2
      <4> QED BY <2>0, <4>1, Replaced
    <3> QED BY <2>0, <2>2, <3>1, <3>2, PadGoesOn
  <2>11. ASSUME NEW t \in Task, Leave(t)
         PROVE  Withdrawn
    <3>1. CASE t = current
      BY <2>1, <2>11, <3>1 DEF Leave
    <3>2. CASE t # current
      <4>1. \A u \in Task \ {t} : task'[u] = task[u]
        BY <2>0, <2>11, LeaveEffect
      <4>2. current' = current /\ pad' = pad
        BY <2>11, <3>2 DEF Leave
      <4>3. ~GenerationMoves
        BY <2>0, <3>2, <4>1, <4>2 DEF GenerationMoves, Live, Alive, TasksTyped
      <4> QED BY <2>2, <4>2, <4>3
    <3> QED BY <3>1, <3>2
  <2>12. ASSUME NEW t \in Task,
                DropReadyStart(t) \/ RosterAborted(t) \/ Restored(t) \/ TaskCancelled(t)
         PROVE  Withdrawn
    BY <2>11, <2>12 DEF DropReadyStart, RosterAborted, Restored, TaskCancelled
  <2>13. CASE StartMenu \/ Boot \/ LobbyEntered \/ StartMenuHungUp \/ StopMenu
    BY <2>3, <2>13 DEF StartMenu, Boot, LobbyEntered, StartMenuHungUp, StopMenu, calls
  <2>14. ASSUME NEW r \in Reset,
                \/ ResetMenu(r) \/ LookupInactive(r) \/ ResetKept(r) \/ CancelLifecycle(r)
                \/ ResetHungUp(r)
         PROVE  Withdrawn
    BY <2>3, <2>14 DEF ResetMenu, LookupInactive, ResetKept, CancelLifecycle, ResetHungUp
  <2>15. ASSUME NEW r \in Reset, ResetDone(r)
         PROVE  Withdrawn
    BY <2>2, <2>15 DEF ResetDone, GenerationMoves, Live, Alive
  <2>16. ASSUME NEW r \in Reset, RestoreByReset(r)
         PROVE  Withdrawn
    BY <2>1, <2>16 DEF RestoreByReset
  <2>17. CASE UNCHANGED vars
    BY <2>3, <2>17 DEF vars
  <2> QED BY <1>1, <2>4, <2>5, <2>6, <2>7, <2>9, <2>10, <2>12, <2>13, <2>14, <2>15, <2>16,
             <2>17 DEF Next
<1>2. MenuInv => Typed /\ Inv
  BY TypeParts DEF MenuInv, Inv
<1>3. MenuInv /\ [Next]_vars => Withdrawn
  BY <1>1, <1>2
<1> QED BY <1>3, LifecycleInvariant, PTL DEF Spec, PadStartsHeldLobby, Withdrawn

\* A RUNNING menu at rest has its idle monitor, its button monitor and a free latch, and a
\* stopped one sleeps: at rest nobody is left who owes any of these.
THEOREM LobbyWholeAlways == Spec => []LobbyWhole
<1>1. OwedInv /\ AtRest => Followed
  BY DEF OwedInv, SecondTask, AtRest
<1>2. OwedInv /\ AtRest => ~RestoreDue
  BY DEF AtRest, RestoreDue, Alive
<1>3. ASSUME OwedInv, AtRest, state = "RUNNING", "hungUp" \notin accidents
      PROVE  idle /\ buttons /\ ~latch
  <2>1. Undisturbed
    BY <1>1, <1>3 DEF Followed, Undisturbed
  <2>2. ~RestoreDue /\ \A t \in Task : task[t].pc = "free"
    BY <1>2, <1>3 DEF AtRest, Alive
  <2>3. entering = 0 /\ ~readying
    BY <1>3 DEF AtRest
  <2> QED BY <1>3, <2>1, <2>2, <2>3
          DEF OwedInv, IdleOwed, ButtonsOwed, LatchOwed, Alive, Preparing, InGame, Restoring
<1>4. OwedInv => LobbyWhole
  BY <1>3 DEF LobbyWhole, OwedInv, IdleStopped
<1> QED BY <1>4, LifecycleInvariant, PTL DEF MenuInv

\* The operator's last StartMenu or StopMenu holds once its lifecycle is over, but for a
\* stop that came too late.
THEOREM LastWordAlways == Spec => []LastWordKept
<1>1. ASSUME StartOwed, AtRest, Undisturbed
      PROVE  state # "GAME_STARTING"
  BY <1>1 DEF StartOwed, AtRest
<1>2. ASSUME LobbyTyped, StartOwed, OwedInv
      PROVE  LastWordKept
  BY <1>1, <1>2 DEF LastWordKept, LastWordWins, LobbyTyped, OwedInv, StopHeld, MenuHeld
<1>3. MenuInv => LastWordKept
  BY <1>2, TypeParts DEF MenuInv, Typed
<1> QED BY <1>3, LifecycleInvariant, PTL
=============================================================================
