------------------------- MODULE InterventionEvents -------------------------
(***************************************************************************)
(* One-shot interventions from the flag service's event lists to a game:   *)
(* the lists and their snapshots (services/flag-service/state/write.go,    *)
(* games.go, state.go, subscription.go), the two sync held, one with    *)
(* the lists and one with the allow-list, and the coordinator's            *)
(* InterventionManager with its GameLoopDispatcher (services/              *)
(* game_coordinator/interventions.py, game_loop_dispatch.py).              *)
(*                                                                         *)
(* There is one one-shot flag, of one type, with a list for every game.    *)
(* The evaluation runs on the servicer's loop, one pass at a time, and     *)
(* suspends wherever it awaits an effect on a game's own loop.  What lies  *)
(* between the service and the coordinator's flag provider is a stream     *)
(* that delivers the newest snapshot, some time, and breaks.               *)
(***************************************************************************)
EXTENDS Integers, FiniteSets, Sequences

CONSTANTS
  Game,
  None,
  EventListLen,  \* K, the events a list keeps
  MaxEvents,     \* bound: events appended
  MaxFlips,      \* bound: changes of the allow-list
  MaxBoots,      \* bound: epochs of the flag service
  MaxStrays      \* bound: games whose scope is dropped under them

ASSUME EventsAssumption ==
  /\ None \notin Game /\ None \notin Nat
  /\ None \notin [epoch : Nat, seq : Nat] /\ None \notin [epoch : Nat, version : Nat]
  /\ EventListLen \in Nat \ {0}
  /\ MaxEvents \in Nat
  /\ MaxFlips \in Nat /\ MaxStrays \in Nat
  /\ MaxBoots \in Nat \ {0}

Stream == {"events", "allow"}
Event == 1..MaxEvents

VARIABLES
  epoch, version,
  list,       \* [seq, events] of each game; an event is [seq, id]
  allowed,    \* interventions_allowed names the type
  held,       \* the snapshot the coordinator's provider holds from it
  session,    \* the session of each game in the registry
  loop,       \* the game's own loop runs
  chain,      \* the effects that wait on each game's loop, in order
  running,    \* the event whose effect runs on it
  forgotten,  \* games whose dispatcher went with their session, and the chain with it
  last,       \* _last_event: [epoch, seq] read last, None without a bucket
  pass,       \* where the evaluation stands: its games to do, its game
  queue,      \* the fresh events of that game it has not finished
  effect,     \* the effect of the first that it awaits: queued or started
  allowSeen,  \* _pass_allow_snapshot
  dirty,      \* _eval_dirty
  scheduled,  \* an evaluate_all waits on the servicer's loop
  recheck,    \* _deferral_recheck is set
  flips,
  home,       \* the game each event was appended to, None before
  fate,       \* what the coordinator recorded of it
  starts,     \* history: how often its effect started
  forbidden,  \* history: appended while disallowed, and not allowed since
  strayed,    \* history: games whose scope was dropped under them
  haunted     \* history: games a pass made a bucket for after they were gone

service == <<epoch, version, list, allowed, home, flips, forbidden, strayed>>
loops == <<session, loop, chain, running, forgotten, starts>>
evaluation == <<last, pass, queue, effect, allowSeen, fate, haunted>>
wakes == <<dirty, scheduled, recheck>>
vars == <<service, held, loops, evaluation, wakes>>

Empty == [seq |-> 0, events |-> {}]
Idle == [at |-> "idle", todo |-> {}, game |-> None]

\* What a stream renders; every snapshot carries its stamp.
Snapshot(s) ==
  [epoch |-> epoch, version |-> version,
   value |-> IF s = "events" THEN list ELSE allowed]

Init ==
  /\ epoch = 1 /\ version = 1
  /\ list = [g \in Game |-> Empty]
  /\ allowed \in BOOLEAN
  /\ held = [s \in Stream |-> Snapshot(s)]
  /\ session = [g \in Game |-> "starting"]
  /\ loop = [g \in Game |-> FALSE]
  /\ chain = [g \in Game |-> <<>>]
  /\ running = [g \in Game |-> None] /\ forgotten = {}
  /\ last = [g \in Game |-> None]
  /\ pass = Idle /\ queue = {} /\ effect = "none" /\ allowSeen = None
  /\ dirty = FALSE /\ scheduled = FALSE /\ recheck = FALSE
  /\ flips = 0
  /\ home = [i \in Event |-> None]
  /\ fate = [i \in Event |-> "none"]
  /\ starts = [i \in Event |-> 0]
  /\ forbidden = {} /\ strayed = {} /\ haunted = {}

-----------------------------------------------------------------------------
(* The flag service *)

Changed == version' = version + 1

\* The last K events; their seqs have no gap.
KeepLast(events, seq) == {e \in events : e.seq > seq - EventListLen}

\* Append: to a game with a scope, which its session has; a write that no
\* stream would carry is refused and changes nothing.
AppendEvent(g, i) ==
  LET seq == list[g].seq + 1
  IN
  /\ session[g] \in {"starting", "live", "over"}
  /\ home[i] = None /\ \A j \in Event : j < i => home[j] # None
  /\ home' = [home EXCEPT ![i] = g]
  /\ list' = [list EXCEPT ![g] =
       [seq |-> seq,
        events |-> KeepLast(@.events \cup {[seq |-> seq, id |-> i]}, seq)]]
  /\ Changed
  /\ forbidden' = IF allowed THEN forbidden ELSE forbidden \cup {i}
  /\ UNCHANGED <<epoch, allowed, flips, strayed, held, loops, evaluation, wakes>>

\* A cleared list keeps its seq.
Cleared(l) == [l EXCEPT !.events = {}]

ClearList(g) ==
  /\ list[g].events # {}
  /\ list' = [list EXCEPT ![g] = Cleared(@)]
  /\ Changed
  /\ UNCHANGED <<epoch, allowed, home, flips, forbidden, strayed,
                 held, loops, evaluation, wakes>>

SetAllowed ==
  /\ flips < MaxFlips
  /\ flips' = flips + 1
  /\ allowed' = ~allowed
  /\ forbidden' = IF allowed' THEN {} ELSE forbidden
  /\ Changed
  /\ UNCHANGED <<epoch, list, home, strayed, held, loops, evaluation, wakes>>

\* The list goes with the scope: of a game that is gone or, by a reconcile with
\* an older list of games, under one that is not
DropScope(g) ==
  /\ list[g] # Empty
  /\ \/ session[g] = "gone" /\ UNCHANGED strayed
     \/ session[g] # "gone" /\ Cardinality(strayed) < MaxStrays
        /\ strayed' = strayed \cup {g}
  /\ list' = [list EXCEPT ![g] = Empty]
  /\ Changed
  /\ UNCHANGED <<epoch, allowed, home, flips, forbidden,
                 held, loops, evaluation, wakes>>

\* Lists live in memory; the allow-list may be persisted or not.
RestartService ==
  /\ epoch < MaxBoots
  /\ epoch' = epoch + 1 /\ version' = 1
  /\ list' = [g \in Game |-> Empty]
  /\ allowed' \in BOOLEAN
  /\ forbidden' = IF allowed' THEN {} ELSE forbidden
  /\ UNCHANGED <<home, flips, strayed, held, loops, evaluation, wakes>>

-----------------------------------------------------------------------------
(* The sync streams *)

\* SyncFlags and the provider: the newest snapshot, versions between skipped;
\* one that breaks delivers when it is back.  The provider tells the change
\* handler, which schedules an evaluation.
Deliver(s) ==
  /\ <<held[s].epoch, held[s].version>> # <<epoch, version>>
  /\ held' = [held EXCEPT ![s] = Snapshot(s)]
  /\ scheduled' = TRUE
  /\ UNCHANGED <<service, loops, evaluation, dirty, recheck>>

-----------------------------------------------------------------------------
(* The sessions and the effects on their games' loops *)

\* The game is built: the session has a current_game from here on.
Built(g) ==
  /\ session[g] = "starting"
  /\ session' = [session EXCEPT ![g] = "live"]
  /\ loop' = [loop EXCEPT ![g] = TRUE]
  /\ UNCHANGED <<service, held, chain, running, forgotten, starts, evaluation, wakes>>

\* Fault: the newest event comes first.
Newest(events) == CHOOSE e \in events : \A f \in events : e.seq >= f.seq

First(events) == CHOOSE e \in events : \A f \in events : e.seq <= f.seq

\* The first fresh event of the pass has its fate; the pass goes on behind it.
Finished(f) ==
  /\ fate' = [fate EXCEPT ![First(queue).id] = f]
  /\ queue' = queue \ {First(queue)}
  /\ effect' = "none"
  /\ pass' = IF queue' = {} THEN [pass EXCEPT !.at = "next", !.game = None]
                           ELSE pass

\* The pass awaits an effect on g's loop.
Awaits(g) == pass.game = g /\ effect # "none"

\* The game is over and its loop cancels what is left on it.
LoopStops(g) ==
  /\ loop[g]
  /\ loop' = [loop EXCEPT ![g] = FALSE]
  /\ session' = [session EXCEPT ![g] = IF @ = "live" THEN "over" ELSE @]
  /\ chain' = [chain EXCEPT ![g] = <<>>]
  /\ running' = [running EXCEPT ![g] = None]
  /\ IF Awaits(g)
       THEN Finished(IF effect = "started" THEN "applied" ELSE "blocked")
       ELSE UNCHANGED <<fate, queue, effect, pass>>
  /\ UNCHANGED <<service, held, forgotten, starts, last, allowSeen, haunted, wakes>>

\* A session leaves the registry with its bucket and its dispatcher: over, ended
\* while its loop still runs, or a start that failed.
Retire(g) ==
  /\ session[g] \in {"starting", "live", "over"}
  /\ session' = [session EXCEPT ![g] = "gone"]
  /\ last' = [last EXCEPT ![g] = None]
  /\ forgotten' = forgotten \cup {g}
  /\ UNCHANGED <<service, held, loop, chain, running, starts, pass, queue,
                 effect, allowSeen, fate, haunted, wakes>>

\* try_start
MayStart(entry) == ~entry.skip

\* The next effect of the chain, behind the end of the one before
EffectTurn(g) ==
  /\ chain[g] # <<>> /\ running[g] = None
  /\ LET entry == Head(chain[g])
     IN
     /\ chain' = [chain EXCEPT ![g] = Tail(@)]
     /\ IF MayStart(entry)
          THEN /\ running' = [running EXCEPT ![g] = entry.id]
               /\ starts' = [starts EXCEPT ![entry.id] = @ + 1]
               /\ effect' = IF Awaits(g) /\ Tail(chain[g]) = <<>> THEN "started"
                                                                 ELSE effect
          ELSE UNCHANGED <<running, starts, effect>>
  /\ UNCHANGED <<service, held, session, loop, forgotten, last, pass, queue,
                 allowSeen, fate, haunted, wakes>>

\* The handler returns, or raises: it did not apply, and is recorded with its reason.
EffectEnds(g) ==
  /\ running[g] # None
  /\ running' = [running EXCEPT ![g] = None]
  /\ IF Awaits(g) /\ effect = "started"
       THEN \E f \in {"applied", "refused"} : Finished(f)
       ELSE UNCHANGED <<fate, queue, effect, pass>>
  /\ UNCHANGED <<service, held, session, loop, chain, forgotten, starts, last,
                 allowSeen, haunted, wakes>>

\* try_skip: the last effect of a chain will not start.
SkipLast(s) == [k \in DOMAIN s |-> [s[k] EXCEPT !.skip = @ \/ k = Len(s)]]

\* Five seconds without an answer: an effect that has not started never will
\* (try_skip), one that has may still apply.
GiveUp ==
  /\ effect # "none"
  /\ Finished(IF effect = "started" THEN "applied" ELSE "blocked")
  /\ chain' = IF effect = "started" THEN chain
              ELSE [chain EXCEPT ![pass.game] = SkipLast(@)]
  /\ UNCHANGED <<service, held, session, loop, running, forgotten, starts, last,
                 allowSeen, haunted, wakes>>

-----------------------------------------------------------------------------
(* The evaluation *)

\* A pass begins with the live sessions; buckets of others are pruned, and
\* with no session there is nothing left to defer.
PassStarts ==
  LET live == {g \in Game : session[g] = "live"}
  IN
  /\ pass' = [at |-> "next", todo |-> live, game |-> None]
  /\ last' = [g \in Game |-> IF g \in live THEN last[g] ELSE None]
  /\ allowSeen' = None
  /\ recheck' = (recheck /\ live # {})
  /\ dirty' = FALSE

\* evaluate_all: one pass at a time, another one where it came meanwhile
EvaluateAll ==
  /\ scheduled
  /\ scheduled' = FALSE
  /\ IF pass.at = "idle"
       THEN PassStarts
       ELSE dirty' = TRUE /\ UNCHANGED <<pass, last, allowSeen, recheck>>
  /\ UNCHANGED <<service, held, loops, queue, effect, fate, haunted>>

\* The next session, live when the pass began: its bucket is there from here,
\* also where the session was retired since, and its bucket with it.
NextGame(g) ==
  /\ pass.at = "next" /\ g \in pass.todo
  /\ pass' = [at |-> "read", todo |-> pass.todo \ {g}, game |-> g]
  /\ last' = [last EXCEPT ![g] = IF @ = None THEN [epoch |-> 0, seq |-> 0] ELSE @]
  /\ haunted' = IF session[g] = "gone" THEN haunted \cup {g} ELSE haunted
  /\ UNCHANGED <<service, held, loops, queue, effect, allowSeen, fate,
                 wakes>>

\* Fault: only the epochs are compared.
CoversEpoch(allow, events) == allow # None /\ allow.epoch = events.epoch

\* The allow-list seen is at least as new as the lists held.
Covers(allow, events) ==
  /\ allow # None
  /\ allow.epoch = events.epoch /\ allow.version >= events.version

Stamp(s) == [epoch |-> held[s].epoch, version |-> held[s].version]

Lags == ~Covers(allowSeen, Stamp("events")) /\ ~Covers(Stamp("allow"), Stamp("events"))

\* Fault: a deferred read moves the bucket all the same.
MovesAlways == TRUE

\* A deferred read moves nothing.
Moves == ~Lags

\* Fault: the events kept are all fresh.
AllEvents(g) == held["events"].value[g].events

\* The events above the seq read last; an epoch starts over.
Fresh(g) ==
  LET since == IF last[g].epoch = held["events"].epoch THEN last[g].seq ELSE 0
  IN {e \in held["events"].value[g].events : e.seq > since}

\* Something to read: a list, and not the one read last.
Unread(g) ==
  LET l == held["events"].value[g]
  IN l.seq > 0 /\ (last[g].epoch = held["events"].epoch => l.seq > last[g].seq)

\* The list is read, the bucket moves, and only then the events are handled.
\* A deferral is read again after DEFERRAL_RECHECK_S; a read that is not
\* deferred cancels that.
ReadEvents ==
  LET g == pass.game
      reads == last[g] # None /\ Unread(g)
  IN
  /\ pass.at = "read"
  /\ recheck' = Lags
  /\ allowSeen' = IF Covers(allowSeen, Stamp("events")) THEN allowSeen
                                                        ELSE Stamp("allow")
  /\ last' = IF reads /\ Moves
               THEN [last EXCEPT ![g] = [epoch |-> held["events"].epoch,
                                         seq |-> held["events"].value[g].seq]]
               ELSE last
  /\ queue' = IF reads /\ ~Lags THEN Fresh(g) ELSE {}
  /\ pass' = IF queue' = {} THEN [pass EXCEPT !.at = "next", !.game = None]
                              ELSE [pass EXCEPT !.at = "events"]
  /\ UNCHANGED <<service, held, loops, effect, fate, haunted, dirty,
                 scheduled>>

\* The chain of checks blocks the event: the allow-list, or the mode, the
\* battery or the rate, which are left open.
Block ==
  /\ pass.at = "events" /\ effect = "none"
  /\ Finished("blocked")
  /\ UNCHANGED <<service, held, loops, last, allowSeen, haunted, wakes>>

\* It passes them and is put on the game's loop, where one runs: behind the chain, or
\* by a dispatcher of its own when the one before was forgotten, whose skipped effects
\* never start and whose running one goes on unwatched.
Dispatch ==
  LET g == pass.game
      entry == [id |-> First(queue).id, skip |-> FALSE]
  IN
  /\ pass.at = "events" /\ effect = "none"
  /\ held["allow"].value
  /\ IF loop[g]
       THEN /\ chain' = [chain EXCEPT ![g] =
                           Append(IF g \in forgotten THEN <<>> ELSE @, entry)]
            /\ running' = [running EXCEPT ![g] = IF g \in forgotten THEN None ELSE @]
            /\ forgotten' = forgotten \ {g}
            /\ effect' = "queued"
            /\ UNCHANGED <<fate, queue, pass>>
       ELSE /\ Finished("blocked")
            /\ UNCHANGED <<chain, running, forgotten>>
  /\ UNCHANGED <<service, held, session, loop, starts, last, allowSeen, haunted, wakes>>

\* Fault: a change during the pass is forgotten with it.
NeverAgain == FALSE

Again == dirty

\* No game is left: another pass, or rest until the next change.  The
\* allow-list seen, which each pass forgets when it begins, is forgotten here.
PassOver ==
  /\ pass.at = "next" /\ pass.todo = {}
  /\ IF Again
       THEN PassStarts
       ELSE pass' = Idle /\ dirty' = FALSE /\ allowSeen' = None
            /\ UNCHANGED <<last, recheck>>
  /\ UNCHANGED <<service, held, loops, queue, effect, fate, haunted,
                 scheduled>>

RecheckFires ==
  /\ recheck
  /\ recheck' = FALSE
  /\ scheduled' = TRUE
  /\ UNCHANGED <<service, held, loops, evaluation, dirty>>

-----------------------------------------------------------------------------
Next ==
  \/ \E g \in Game :
       \/ ClearList(g) \/ DropScope(g)
       \/ \E i \in Event : AppendEvent(g, i)
       \/ Built(g) \/ LoopStops(g) \/ Retire(g)
       \/ EffectTurn(g) \/ EffectEnds(g) \/ NextGame(g)
  \/ \E s \in Stream : Deliver(s)
  \/ SetAllowed \/ RestartService
  \/ EvaluateAll \/ ReadEvents \/ Block \/ Dispatch \/ GiveUp
  \/ PassOver \/ RecheckFires

Spec == Init /\ [][Next]_vars

\* The service's streams reconnect and deliver, the loops take turns, tasks on
\* the servicer's loop run and its timers fire.  Nothing makes anybody append,
\* clear, start or end a game; an effect need not end.
Fairness ==
  /\ \A s \in Stream : WF_vars(Deliver(s))
  /\ WF_vars(EvaluateAll) /\ WF_vars(ReadEvents)
  /\ WF_vars(\E g \in Game : NextGame(g)) /\ WF_vars(PassOver)
  /\ WF_vars(Block \/ Dispatch) /\ WF_vars(GiveUp) /\ WF_vars(RecheckFires)

FairSpec == Spec /\ Fairness

-----------------------------------------------------------------------------
(* Properties *)

\* The fates of an effect that ran: applied, maybe late, or refused by its handler
Ran == {"applied", "refused"}

Fates == {"none", "blocked"} \cup Ran
Entry == [seq : Nat, id : Event]
List == [seq : Nat, events : SUBSET Entry]

ServiceType ==
  /\ epoch \in 1..MaxBoots /\ version \in Nat \ {0}
  /\ list \in [Game -> List]
  /\ allowed \in BOOLEAN
  /\ flips \in 0..MaxFlips
  /\ home \in [Event -> Game \cup {None}]
  /\ forbidden \in SUBSET Event /\ strayed \in SUBSET Game

HeldType ==
  /\ held = [s \in Stream |-> held[s]]
  /\ held["events"] \in [epoch : 1..MaxBoots, version : Nat, value : [Game -> List]]
  /\ held["allow"] \in [epoch : 1..MaxBoots, version : Nat, value : BOOLEAN]

LoopType ==
  /\ session \in [Game -> {"starting", "live", "over", "gone"}]
  /\ loop \in [Game -> BOOLEAN]
  /\ chain \in [Game -> Seq([id : Event, skip : BOOLEAN])]
  /\ running \in [Game -> Event \cup {None}]
  /\ starts \in [Event -> Nat]
  /\ forgotten \in SUBSET Game

PassType ==
  /\ pass \in [at : {"idle", "next", "read", "events"},
               todo : SUBSET Game, game : Game \cup {None}]
  /\ (pass.at \in {"read", "events"} <=> pass.game # None)
  /\ queue \in SUBSET Entry /\ (pass.at = "events" <=> queue # {})
  /\ effect \in {"none", "queued", "started"}
  /\ effect # "none" => pass.at = "events"
  /\ fate \in [Event -> Fates]

\* Every variable has its type: the lists and snapshots of write.go and
\* render.go, the buckets and the pass of interventions.py.
TypeOK ==
  /\ ServiceType /\ HeldType /\ LoopType /\ PassType
  /\ last \in [Game -> [epoch : 0..MaxBoots, seq : Nat] \cup {None}]
  /\ allowSeen \in [epoch : 1..MaxBoots, version : Nat] \cup {None}
  /\ haunted \in SUBSET Game
  /\ dirty \in BOOLEAN /\ scheduled \in BOOLEAN /\ recheck \in BOOLEAN

\* What is recorded of an event is what happened, and it happens once: whatever lists,
\* snapshots, epochs, timeouts and passes overlap, its effect starts once at most; one
\* recorded as blocked, by a check, by a timeout or for want of a loop, has not started and
\* never will; one recorded as applied did, a late one, which may still apply, included,
\* and so did one recorded with its handler's refusal (_evaluate_event_list,
\* GameLoopDispatcher.run, try_skip).  Exempt: events of a game that was retired before
\* the pass came to it.
RecordTrue ==
  \A i \in Event : home[i] \notin haunted =>
    /\ starts[i] <= 1
    /\ fate[i] = "blocked" => starts[i] = 0
    /\ fate[i] \in Ran => starts[i] = 1

\* The kill switch holds across the two streams: an event appended while the
\* allow-list forbade its type, and not allowed since, never starts, however
\* far the stream with the allow-list is behind (_allow_list_lags).
KillSwitchHeld == \A i \in forbidden : starts[i] = 0

\* The effects of a game start in the order of its events, also behind one
\* that its caller gave up on (the dispatcher's chain).
InOrder ==
  [][\A i, j \in Event :
       i < j /\ starts'[i] > starts[i] /\ home[i] = home[j] /\ home[i] \notin haunted
         => starts[j] = 0]_vars

\* No change is lost between two passes: when the evaluation rests and nothing
\* will wake it, every live game it has seen has read the list held
\* (_eval_dirty, the recheck of a deferral).
NoLostWakeup ==
  pass.at = "idle" /\ ~scheduled /\ ~recheck =>
    \A g \in Game : session[g] = "live" /\ last[g] # None => ~Unread(g)

\* Nothing is skipped: an event of the list held at or below the seq the
\* bucket stands at was handled or is about to be, through deferrals, clears
\* and restarts, unless the scope itself was dropped under its game; and an
\* evaluation that rests leaves no list unread.
NothingSkipped ==
  /\ NoLostWakeup
  /\ \A g \in Game \ strayed :
       LET l == held["events"].value[g].events
       IN last[g] # None /\ last[g].epoch = held["events"].epoch =>
            \A e \in l : e.seq <= last[g].seq =>
              fate[e.id] # "none" \/ (pass.game = g /\ e \in queue)

\* An event of a live game the evaluation has seen is handled in the end,
\* unless its list loses it or its game ends: streams that break, an allow-list
\* that is behind and effects that hang only delay it.
InList(g, i) ==
  \E e \in list[g].events : e.id = i

Waits(g, i) ==
  InList(g, i) /\ session[g] = "live" /\ last[g] # None /\ g \notin strayed

EventuallyHandled ==
  \A g \in Game, i \in Event : Waits(g, i) ~> (fate[i] # "none" \/ ~Waits(g, i))

-----------------------------------------------------------------------------
(* What the properties rest on *)

\* The streams never show what is not there yet, nor two lists for one stamp;
\* a pass never saw a newer allow-list than the one held.
StampInv ==
  /\ \A s \in Stream :
       /\ held[s].epoch <= epoch
       /\ held[s].epoch = epoch => held[s].version <= version
       /\ Stamp(s) = [epoch |-> epoch, version |-> version] =>
            held[s].value = Snapshot(s).value
  /\ allowSeen # None =>
       /\ allowSeen.epoch <= held["allow"].epoch
       /\ allowSeen.epoch = held["allow"].epoch =>
            allowSeen.version <= held["allow"].version

\* One list numbers its events as they came.
Ordered(l, g) ==
  \A e \in l.events :
    /\ e.seq \in 1..l.seq /\ home[e.id] = g
    /\ \A f \in l.events : (e.seq < f.seq <=> e.id < f.id)

\* The list of a game may only be ahead of the one held.
Ahead(g) ==
  LET h == held["events"].value[g] IN
  \A e \in list[g].events, f \in h.events :
    e.id <= f.id =>
      /\ held["events"].epoch = epoch
      /\ e.id = f.id => e = f
      /\ e.id < f.id => e.seq < f.seq

ListInv ==
  /\ \A i, j \in Event : i < j /\ home[j] # None => home[i] # None
  /\ \A g \in Game :
       Ordered(list[g], g) /\ Ordered(held["events"].value[g], g) /\ Ahead(g)

\* Nothing has happened to the event.
Untouched(i) ==
  /\ fate[i] = "none" /\ starts[i] = 0
  /\ \A e \in queue : e.id # i
  /\ \A g \in Game : running[g] # i /\ \A k \in DOMAIN chain[g] : chain[g][k].id # i

\* An event that was not appended yet is nowhere.
NewInv ==
  \A i \in Event : home[i] = None =>
    /\ Untouched(i)
    /\ \A g \in Game : \A e \in list[g].events \cup held["events"].value[g].events : e.id # i

\* A forbidden event is never beside an allow-list that permits it, in what
\* may be read or what is read.
ForbiddenInv ==
  /\ forbidden # {} => ~allowed
  /\ \A i \in forbidden :
       /\ home[i] # None /\ starts[i] = 0
       /\ \A g \in Game : running[g] # i
                          /\ \A k \in DOMAIN chain[g] : chain[g][k].id # i
       /\ \A e \in queue : e.id = i => ~held["allow"].value
       /\ \A g \in Game : \A e \in held["events"].value[g].events :
            e.id = i /\ (Covers(Stamp("allow"), Stamp("events"))
                         \/ Covers(allowSeen, Stamp("events")))
              => ~held["allow"].value

\* Not read by the bucket of g yet
NotRead(g, at, e) == last[g].epoch = at => e.seq > last[g].seq

\* What the bucket has not read was not touched, and all that was is older.
Unspoilt(g, at, l) ==
  last[g] # None =>
    \A e \in l.events : NotRead(g, at, e) =>
      /\ Untouched(e.id)
      /\ \A i \in Event : home[i] = g /\ ~Untouched(i) => i < e.id

BucketInv ==
  /\ \A g \in Game : last[g] # None => last[g].epoch <= held["events"].epoch
  /\ \A g \in Game : session[g] = "starting" => g \notin pass.todo /\ last[g] = None
  /\ \A g \in Game \ haunted :
       /\ Unspoilt(g, epoch, list[g])
       /\ Unspoilt(g, held["events"].epoch, held["events"].value[g])
       /\ last[g] = None /\ session[g] # "gone"
            /\ (session[g] # "over" \/ g \in pass.todo) =>
            \A i \in Event : home[i] = g => Untouched(i)

\* Where the events of the pass stand
QueueInv ==
  LET g == pass.game IN
  /\ pass.todo \cap {g} = {}
  /\ \A e \in queue :
       /\ home[e.id] = g
       /\ \A f \in queue : (e.seq < f.seq <=> e.id < f.id)
       /\ g \notin haunted =>
            /\ fate[e.id] = "none"
            /\ \A i \in Event : home[i] = g /\ starts[i] > 0 => i <= e.id
            /\ e # First(queue) \/ effect # "started" => starts[e.id] = 0
            /\ e # First(queue) \/ effect # "started" => running[g] # e.id
            /\ \A k \in DOMAIN chain[g] :
                 chain[g][k].id = e.id => e = First(queue) /\ effect = "queued"
  /\ effect = "queued" =>
       /\ chain[g] # <<>>
       /\ chain[g][Len(chain[g])] = [id |-> First(queue).id, skip |-> FALSE]
  /\ effect = "started" => running[g] = First(queue).id /\ chain[g] = <<>>

\* Where the effects on the loops stand
LoopInv ==
  \A g \in Game :
    /\ ~loop[g] => chain[g] = <<>> /\ running[g] = None
    /\ \A k \in DOMAIN chain[g] :
         /\ home[chain[g][k].id] = g
         /\ IF chain[g][k].skip
              THEN g \notin haunted => fate[chain[g][k].id] = "blocked"
              ELSE k = Len(chain[g]) /\ pass.game = g /\ effect = "queued"
    /\ running[g] # None =>
         /\ home[running[g]] = g
         /\ g \notin haunted => starts[running[g]] = 1
    /\ g \notin haunted => \A i \in Event : home[i] = g =>
         /\ starts[i] <= 1
         /\ fate[i] = "blocked" => starts[i] = 0
         /\ fate[i] \in Ran => starts[i] = 1
         /\ starts[i] = 1 =>
              \/ fate[i] \in Ran
              \/ pass.game = g /\ effect = "started" /\ First(queue).id = i

\* What the bucket has passed was handled, or is in the pass.
HandledIn(g, e) == fate[e.id] # "none" \/ (pass.game = g /\ e \in queue)

SeqInv ==
  \A g \in Game \ strayed :
    LET h == held["events"] IN
    /\ \A e \in list[g].events :
         last[g] # None /\ last[g].epoch = epoch /\ e.seq <= last[g].seq =>
           HandledIn(g, e)
    /\ \A e \in h.value[g].events :
         last[g] # None /\ last[g].epoch = h.epoch /\ e.seq <= last[g].seq =>
           HandledIn(g, e)
    /\ h.epoch = epoch => \A e \in list[g].events :
         e.seq <= h.value[g].seq => e \in h.value[g].events
    /\ session[g] # "gone" =>
         /\ h.epoch = epoch => h.value[g].seq <= list[g].seq
         /\ last[g] # None /\ last[g].epoch = h.epoch =>
              last[g].seq <= h.value[g].seq

\* A list that is not read, of a game the evaluation has seen, keeps it awake.
WakeInv ==
  /\ pass.at = "idle" => ~dirty /\ pass.todo = {}
  /\ \A g \in Game :
       session[g] = "live" /\ last[g] # None /\ Unread(g) =>
         \/ scheduled \/ dirty
         \/ g \in pass.todo \/ (pass.at = "read" /\ pass.game = g)
         \/ recheck /\ (Lags \/ pass.at = "idle")

EventsInv ==
  /\ StampInv /\ ListInv /\ NewInv /\ ForbiddenInv /\ BucketInv /\ QueueInv /\ LoopInv
  /\ SeqInv /\ WakeInv

\* What the kill switch rests on
KillInv == TypeOK /\ StampInv /\ NewInv /\ ForbiddenInv
=============================================================================
