--------------------- MODULE InterventionEvents_proofs ---------------------
(***************************************************************************)
(* One-shot interventions for any games, events, list length, flips,       *)
(* restarts and dropped scopes: the types, and no event that was appended  *)
(* while its type was forbidden ever starts; what is recorded of an event  *)
(* is what happened, effects start in order, and nothing is skipped.       *)
(*                                                                         *)
(* The inductive invariant is WholeInv.  Its parts are proved in turn, the *)
(* stamps and the way of an event first (KillInv), then the lists, the     *)
(* buckets, the pass with the loops, and what the wakes rest on.           *)
(***************************************************************************)
EXTENDS InterventionEvents, SequenceTheorems, WellFoundedInduction, TLAPS

-----------------------------------------------------------------------------
(* Numbers and queues *)

LEMMA Least ==
  ASSUME NEW S \in SUBSET Nat, S # {}
  PROVE  \E n \in S : \A m \in S : n <= m
<1> DEFINE R == {p \in Nat \X Nat : p[1] < p[2]}
<1>1. IsWellFoundedOn(R, Nat)
  BY NatLessThanWellFounded DEF OpToRel
<1> HIDE DEF R
<1>2. PICK n \in S : \A m \in S : ~(<<m, n>> \in R)
  BY <1>1, WFMin, Zenon
<1>3. \A m \in S : ~(m < n)
  BY <1>2 DEF R
<1> QED BY <1>3

\* The first of some events is one of them.
LEMMA FirstIn ==
  ASSUME NEW events \in SUBSET Entry, events # {}
  PROVE  /\ First(events) \in events
         /\ \A f \in events : First(events).seq <= f.seq
<1> DEFINE S == {e.seq : e \in events}
<1>1. S \in SUBSET Nat /\ S # {}
  BY DEF Entry
<1>2. PICK n \in S : \A m \in S : n <= m
  BY <1>1, Least
<1>3. PICK e \in events : e.seq = n
  BY <1>2
<1>4. \A f \in events : e.seq <= f.seq
  BY <1>2, <1>3
<1> QED BY <1>3, <1>4 DEF First

-----------------------------------------------------------------------------
(* Type correctness *)

\* A finished event leaves the pass in shape.
LEMMA FinishedType ==
  ASSUME PassType, pass.at = "events", NEW f \in Fates, Finished(f)
  PROVE  PassType'
<1>1. First(queue) \in queue
  BY FirstIn DEF PassType
<1>2. First(queue).id \in Event
  BY <1>1 DEF PassType, Entry
<1>3. fate' \in [Event -> Fates]
  BY <1>2 DEF PassType, Finished
<1>4. queue' \in SUBSET Entry
  BY DEF PassType, Finished
<1>5. CASE queue' = {}
  <2>1. pass' = [pass EXCEPT !.at = "next", !.game = None]
    BY <1>5 DEF Finished
  <2>2. effect' = "none"
    BY DEF Finished
  <2> QED BY <1>3, <1>5, <2>1, <2>2 DEF PassType
<1>6. CASE queue' # {}
  BY <1>3, <1>4, <1>6, EventsAssumption DEF PassType, Finished
<1> QED BY <1>5, <1>6

LEMMA TypeInit == Init => TypeOK
<1> SUFFICES ASSUME Init PROVE TypeOK
  OBVIOUS
<1>1. held["events"] = [epoch |-> 1, version |-> 1, value |-> list]
  BY DEF Init, Snapshot, Stream
<1>2. held["allow"] = [epoch |-> 1, version |-> 1, value |-> allowed]
  BY DEF Init, Snapshot, Stream
<1>3. ServiceType
  BY EventsAssumption DEF Init, ServiceType, List, Empty
<1>4. list \in [Game -> List] /\ allowed \in BOOLEAN
  BY <1>3 DEF ServiceType
<1>5. HeldType
  BY <1>1, <1>2, <1>4, EventsAssumption DEF Init, HeldType
<1>6. LoopType
  BY DEF Init, LoopType
<1>7. PassType
  BY DEF Init, PassType, Idle, Fates, Ran
<1> QED
  BY <1>3, <1>5, <1>6, <1>7, EventsAssumption DEF Init, TypeOK

\* What is dispatched is an event that waits.
LEMMA FirstType ==
  ASSUME PassType, pass.at = "events"
  PROVE  /\ First(queue) \in queue /\ First(queue).id \in Event
         /\ pass.game \in Game
<1>1. First(queue) \in queue
  BY FirstIn DEF PassType
<1> QED BY <1>1 DEF PassType, Entry

\* What a stream shows has its type.
LEMMA SnapshotType ==
  ASSUME ServiceType, NEW s \in Stream
  PROVE  /\ s = "events" => Snapshot(s) \in [epoch : 1..MaxBoots, version : Nat,
                                              value : [Game -> List]]
         /\ s = "allow" => Snapshot(s) \in [epoch : 1..MaxBoots, version : Nat,
                                             value : BOOLEAN]
BY DEF ServiceType, Snapshot, Stream

\* What a pass begins with
LEMMA PassStartsType ==
  ASSUME TypeOK, pass.at \in {"idle", "next"}, PassStarts,
         UNCHANGED <<queue, effect, fate>>
  PROVE  /\ PassType'
         /\ last' \in [Game -> [epoch : 0..MaxBoots, seq : Nat] \cup {None}]
         /\ dirty' \in BOOLEAN /\ recheck' \in BOOLEAN
<1>1. pass' = [at |-> "next", todo |-> {g \in Game : session[g] = "live"}, game |-> None]
  BY DEF PassStarts
<1>2. PassType'
  BY <1>1 DEF TypeOK, PassType
<1>3. last' \in [Game -> [epoch : 0..MaxBoots, seq : Nat] \cup {None}]
  BY DEF PassStarts, TypeOK
<1> QED BY <1>2, <1>3 DEF PassStarts, TypeOK

\* Giving up on the last effect of a chain leaves a chain.
LEMMA SkipLastType ==
  ASSUME NEW s \in Seq([id : Event, skip : BOOLEAN])
  PROVE  /\ SkipLast(s) \in Seq([id : Event, skip : BOOLEAN])
         /\ Len(SkipLast(s)) = Len(s) /\ DOMAIN SkipLast(s) = DOMAIN s
         /\ \A k \in DOMAIN s :
              /\ SkipLast(s)[k].id = s[k].id
              /\ SkipLast(s)[k].skip <=> s[k].skip \/ k = Len(s)
<1>1. Len(s) \in Nat /\ DOMAIN s = 1..Len(s)
  BY LenProperties
<1>2. ASSUME NEW k \in 1..Len(s)
      PROVE  /\ [s[k] EXCEPT !.skip = @ \/ k = Len(s)] \in [id : Event, skip : BOOLEAN]
             /\ [s[k] EXCEPT !.skip = @ \/ k = Len(s)].id = s[k].id
             /\ [s[k] EXCEPT !.skip = @ \/ k = Len(s)].skip <=> s[k].skip \/ k = Len(s)
  <2>1. s[k] \in [id : Event, skip : BOOLEAN]
    BY ElementOfSeq
  <2> DEFINE b == s[k].skip \/ k = Len(s)
  <2>2. b \in BOOLEAN
    OBVIOUS
  <2>3. [s[k] EXCEPT !.skip = @ \/ k = Len(s)] = [s[k] EXCEPT !.skip = b]
    OBVIOUS
  <2> HIDE DEF b
  <2>4. [s[k] EXCEPT !.skip = b] \in [id : Event, skip : BOOLEAN]
    BY <2>1, <2>2
  <2>5. [s[k] EXCEPT !.skip = b].id = s[k].id
    BY <2>1
  <2>6. [s[k] EXCEPT !.skip = b].skip <=> b
    BY <2>1
  <2> QED BY <2>3, <2>4, <2>5, <2>6 DEF b
<1>3. SkipLast(s) \in [1..Len(s) -> [id : Event, skip : BOOLEAN]]
  BY <1>1, <1>2 DEF SkipLast
<1> QED BY <1>1, <1>2, <1>3, SeqDef DEF SkipLast

LEMMA TypeStep ==
  ASSUME TypeOK, [Next]_vars
  PROVE  TypeOK'
<1> USE EventsAssumption DEF TypeOK
<1>1. CASE UNCHANGED vars
  BY <1>1 DEF vars, service, loops, evaluation, wakes, ServiceType, HeldType,
     LoopType, PassType
<1>2. ASSUME NEW g \in Game, ClearList(g) PROVE TypeOK'
  <2>1. ServiceType'
    BY <1>2 DEF ClearList, Changed, Cleared, ServiceType, List
  <2> QED BY <1>2, <2>1 DEF ClearList, loops, evaluation, wakes, HeldType,
            LoopType, PassType
<1>3. ASSUME NEW g \in Game, DropScope(g) PROVE TypeOK'
  <2>1. ServiceType'
    BY <1>3 DEF DropScope, Changed, Empty, ServiceType, List
  <2> QED BY <1>3, <2>1 DEF DropScope, loops, evaluation, wakes, HeldType,
            LoopType, PassType
<1>4. ASSUME NEW g \in Game, NEW i \in Event, AppendEvent(g, i) PROVE TypeOK'
  <2>1. [seq |-> list[g].seq + 1, id |-> i] \in Entry /\ list[g].seq + 1 \in Nat
        /\ list[g].events \in SUBSET Entry
    BY DEF ServiceType, List, Entry
  <2>2. list' \in [Game -> List]
    BY <1>4, <2>1 DEF AppendEvent, KeepLast, ServiceType, List
  <2>3. ServiceType'
    BY <1>4, <2>2 DEF AppendEvent, Changed, ServiceType
  <2> QED BY <1>4, <2>3 DEF AppendEvent, loops, evaluation, wakes, HeldType,
            LoopType, PassType
<1>5. CASE SetAllowed
  <2>1. ServiceType'
    BY <1>5 DEF SetAllowed, Changed, ServiceType
  <2> QED BY <1>5, <2>1 DEF SetAllowed, loops, evaluation, wakes, HeldType,
            LoopType, PassType
<1>6. CASE RestartService
  <2>1. ServiceType'
    BY <1>6 DEF RestartService, ServiceType, List, Empty
  <2> QED BY <1>6, <2>1 DEF RestartService, loops, evaluation, wakes, HeldType,
            LoopType, PassType
<1>7. ASSUME NEW s \in Stream, Deliver(s) PROVE TypeOK'
  <2>1. HeldType'
    BY <1>7, SnapshotType DEF Deliver, HeldType, Stream
  <2> QED BY <1>7, <2>1 DEF Deliver, service, loops, evaluation, ServiceType,
            LoopType, PassType
<1>8. ASSUME NEW g \in Game, Built(g) PROVE TypeOK'
  BY <1>8 DEF Built, service, evaluation, wakes, ServiceType, HeldType, LoopType,
     PassType
<1>9. ASSUME NEW g \in Game, LoopStops(g) PROVE TypeOK'
  <2>1. PassType'
    <3>1. CASE Awaits(g)
      <4>1. pass.at = "events"
        BY <3>1 DEF Awaits, PassType
      <4> QED BY <1>9, <3>1, <4>1, FinishedType DEF LoopStops, Fates, Ran
    <3>2. CASE ~Awaits(g)
      BY <1>9, <3>2 DEF LoopStops, PassType
    <3> QED BY <3>1, <3>2
  <2>2. LoopType'
    <3>1. <<>> \in Seq([id : Event, skip : BOOLEAN])
      BY EmptySeq
    <3> QED BY <1>9, <3>1 DEF LoopStops, LoopType
  <2> QED BY <1>9, <2>1, <2>2 DEF LoopStops, service, wakes, ServiceType, HeldType
<1>10. ASSUME NEW g \in Game, Retire(g) PROVE TypeOK'
  BY <1>10 DEF Retire, service, wakes, ServiceType, HeldType, LoopType, PassType
<1>11. ASSUME NEW g \in Game, EffectTurn(g) PROVE TypeOK'
  <2>1. Head(chain[g]) \in [id : Event, skip : BOOLEAN]
        /\ Tail(chain[g]) \in Seq([id : Event, skip : BOOLEAN])
    BY <1>11, HeadTailProperties DEF EffectTurn, LoopType
  <2>2. chain' \in [Game -> Seq([id : Event, skip : BOOLEAN])]
    BY <1>11, <2>1 DEF EffectTurn, LoopType
  <2>3. running' \in [Game -> Event \cup {None}] /\ starts' \in [Event -> Nat]
    <3>1. CASE MayStart(Head(chain[g]))
      <4> DEFINE i == Head(chain[g]).id
      <4>1. i \in Event /\ running' = [running EXCEPT ![g] = i]
            /\ starts' = [starts EXCEPT ![i] = @ + 1]
        BY <1>11, <2>1, <3>1 DEF EffectTurn
      <4> HIDE DEF i
      <4> QED BY <4>1 DEF LoopType
    <3>2. CASE ~MayStart(Head(chain[g]))
      BY <1>11, <3>2 DEF EffectTurn, LoopType
    <3> QED BY <3>1, <3>2
  <2>4. LoopType'
    BY <1>11, <2>2, <2>3 DEF EffectTurn, LoopType
  <2>5. PassType'
    <3>1. effect' \in {effect, "started"} /\ (effect = "none" => effect' = "none")
      BY <1>11 DEF EffectTurn, Awaits
    <3> QED BY <1>11, <3>1 DEF EffectTurn, PassType
  <2> QED BY <1>11, <2>4, <2>5 DEF EffectTurn, service, wakes, ServiceType, HeldType
<1>12. ASSUME NEW g \in Game, EffectEnds(g) PROVE TypeOK'
  <2>1. PassType'
    <3>1. CASE Awaits(g) /\ effect = "started"
      <4>1. pass.at = "events"
        BY <3>1 DEF Awaits, PassType
      <4> QED BY <1>12, <3>1, <4>1, FinishedType DEF EffectEnds, Fates, Ran
    <3>2. CASE ~(Awaits(g) /\ effect = "started")
      BY <1>12, <3>2 DEF EffectEnds, PassType
    <3> QED BY <3>1, <3>2
  <2>2. LoopType'
    BY <1>12 DEF EffectEnds, LoopType
  <2> QED BY <1>12, <2>1, <2>2 DEF EffectEnds, service, wakes, ServiceType, HeldType
<1>13. CASE GiveUp
  <2>1. PassType'
    BY <1>13, FinishedType DEF GiveUp, PassType, Fates, Ran
  <2>2. LoopType'
    <3> DEFINE s == chain[pass.game]
    <3>1. pass.game \in Game /\ s \in Seq([id : Event, skip : BOOLEAN])
      BY <1>13 DEF GiveUp, PassType, LoopType
    <3>2. SkipLast(s) \in Seq([id : Event, skip : BOOLEAN])
      BY <3>1, SkipLastType
    <3>3. chain' \in {chain, [chain EXCEPT ![pass.game] = SkipLast(s)]}
      BY <1>13 DEF GiveUp
    <3> QED BY <1>13, <3>1, <3>2, <3>3 DEF GiveUp, LoopType
  <2> QED BY <1>13, <2>1, <2>2 DEF GiveUp, service, wakes, ServiceType, HeldType
<1>14. ASSUME NEW g \in Game, NextGame(g) PROVE TypeOK'
  <2>1. last' \in [Game -> [epoch : 0..MaxBoots, seq : Nat] \cup {None}]
    BY <1>14 DEF NextGame
  <2>2. PassType'
    BY <1>14 DEF NextGame, PassType
  <2> QED BY ZenonT(40), <1>14, <2>1, <2>2 DEF NextGame, service, loops, wakes, ServiceType,
            HeldType, LoopType
<1>15. CASE EvaluateAll
  <2>1. CASE pass.at = "idle"
    BY <1>15, <2>1, PassStartsType DEF EvaluateAll, PassStarts, service, loops,
       ServiceType, HeldType, LoopType
  <2>2. CASE pass.at # "idle"
    BY <1>15, <2>2 DEF EvaluateAll, service, loops, ServiceType, HeldType,
       LoopType, PassType
  <2> QED BY <2>1, <2>2
<1>16. CASE ReadEvents
  <2>1. Fresh(pass.game) \in SUBSET Entry
    BY <1>16 DEF ReadEvents, Fresh, HeldType, PassType, List
  <2>2. PassType'
    BY <1>16, <2>1 DEF ReadEvents, PassType
  <2>3. Stamp("allow") \in [epoch : 1..MaxBoots, version : Nat]
    BY DEF Stamp, HeldType
  <2>4. last' \in [Game -> [epoch : 0..MaxBoots, seq : Nat] \cup {None}]
    BY <1>16 DEF ReadEvents, HeldType, PassType, List
  <2>5. recheck' \in BOOLEAN
    BY <1>16 DEF ReadEvents, Lags, Covers
  <2> QED BY <1>16, <2>2, <2>3, <2>4, <2>5 DEF ReadEvents, service, loops,
            ServiceType, HeldType, LoopType
<1>17. CASE Block
  <2>1. PassType'
    BY <1>17, FinishedType DEF Block, Fates, Ran
  <2> QED BY <1>17, <2>1 DEF Block, service, loops, wakes, ServiceType, HeldType,
            LoopType
<1>18. CASE Dispatch
  <2>1. First(queue).id \in Event /\ pass.game \in Game
    BY <1>18, FirstType DEF Dispatch
  <2>2. LoopType'
    <3> DEFINE g == pass.game
               entry == [id |-> First(queue).id, skip |-> FALSE]
    <3>1. entry \in [id : Event, skip : BOOLEAN] /\ g \in Game
      BY <2>1
    <3> DEFINE old == IF g \in forgotten THEN <<>> ELSE chain[g]
    <3>2. Append(old, entry) \in Seq([id : Event, skip : BOOLEAN])
      <4>1. old \in Seq([id : Event, skip : BOOLEAN])
        BY <3>1, EmptySeq DEF LoopType
      <4> HIDE DEF entry, old
      <4> QED BY <3>1, <4>1, AppendProperties
    <3>3. chain' = chain \/ chain' = [chain EXCEPT ![g] = Append(old, entry)]
      BY <1>18 DEF Dispatch
    <3>4. chain' \in [Game -> Seq([id : Event, skip : BOOLEAN])]
      <4> HIDE DEF entry, g, old
      <4> QED BY <3>1, <3>2, <3>3 DEF LoopType
    <3>5. running' \in [Game -> Event \cup {None}] /\ forgotten' \in SUBSET Game
      BY <1>18 DEF Dispatch, LoopType
    <3> QED BY <1>18, <3>4, <3>5 DEF Dispatch, LoopType
  <2>3. PassType'
    <3>1. CASE loop[pass.game]
      BY <1>18, <3>1 DEF Dispatch, PassType
    <3>2. CASE ~loop[pass.game]
      BY <1>18, <3>2, FinishedType DEF Dispatch, Fates, Ran
    <3> QED BY <3>1, <3>2
  <2> QED BY <1>18, <2>2, <2>3 DEF Dispatch, service, wakes, ServiceType, HeldType
<1>19. CASE PassOver
  <2>1. CASE Again
    BY <1>19, <2>1, PassStartsType DEF PassOver, PassStarts, service, loops,
       ServiceType, HeldType, LoopType
  <2>2. CASE ~Again
    <3>1. PassType'
      BY <1>19, <2>2 DEF PassOver, Idle, PassType
    <3> QED BY <1>19, <2>2, <3>1 DEF PassOver, service, loops, ServiceType,
              HeldType, LoopType
  <2> QED BY <2>1, <2>2
<1>20. CASE RecheckFires
  BY <1>20 DEF RecheckFires, service, loops, evaluation, ServiceType, HeldType,
     LoopType, PassType
<1> QED
  BY <1>1, <1>2, <1>3, <1>4, <1>5, <1>6, <1>7, <1>8, <1>9, <1>10, <1>11, <1>12,
     <1>13, <1>14, <1>15, <1>16, <1>17, <1>18, <1>19, <1>20 DEF Next

\* The lists, the streams, the buckets, the pass and the loops keep their
\* types.
THEOREM TypeCorrect == Spec => []TypeOK
<1> QED BY TypeInit, TypeStep, PTL DEF Spec

-----------------------------------------------------------------------------
(* Stamps *)

Serving == <<epoch, version, list, allowed>>

LEMMA StampsOfStreams ==
  ASSUME TypeOK, NEW s \in Stream
  PROVE  /\ held[s].epoch \in Nat /\ held[s].version \in Nat
         /\ epoch \in Nat /\ version \in Nat
BY EventsAssumption DEF TypeOK, HeldType, ServiceType, Stream

\* The streams have nothing that the service has not had, nor two lists of one
\* stamp.
StreamInv ==
  \A s \in Stream :
       /\ held[s].epoch <= epoch
       /\ held[s].epoch = epoch => held[s].version <= version
       /\ Stamp(s) = [epoch |-> epoch, version |-> version] =>
            held[s].value = Snapshot(s).value

LEMMA StreamStep ==
  ASSUME TypeOK, StreamInv, [Next]_vars
  PROVE  StreamInv'
<1>1. CASE UNCHANGED <<Serving, held>>
  BY <1>1 DEF StreamInv, Serving, Stamp, Snapshot
<1>2. CASE Changed /\ UNCHANGED <<epoch, held>>
  BY <1>2, StampsOfStreams DEF StreamInv, Changed, Stamp
<1>3. CASE RestartService
  <2>1. epoch' = epoch + 1 /\ held' = held
    BY <1>3 DEF RestartService
  <2>2. \A s \in Stream : held[s].epoch <= epoch /\ held[s].epoch \in Nat /\ epoch \in Nat
    BY StampsOfStreams DEF StreamInv
  <2>3. \A s \in Stream : held'[s].epoch < epoch'
    BY <2>1, <2>2
  <2>4. \A s \in Stream : Stamp(s)'.epoch = held'[s].epoch
    BY DEF Stamp
  <2>5. \A s \in Stream : Stamp(s)' # [epoch |-> epoch', version |-> version']
    BY <2>3, <2>4, <2>1, <2>2
  <2> QED BY <2>1, <2>2, <2>3, <2>5 DEF StreamInv
<1>4. ASSUME NEW s \in Stream, Deliver(s) PROVE StreamInv'
  <2>1. held' = [held EXCEPT ![s] = Snapshot(s)] /\ UNCHANGED Serving
    BY <1>4 DEF Deliver, service, Serving
  <2>2. held'[s] = Snapshot(s) /\ \A t \in Stream : t # s => held'[t] = held[t]
    BY <2>1 DEF TypeOK, HeldType
  <2>3. Snapshot(s).epoch = epoch /\ Snapshot(s).version = version
    BY DEF Snapshot
  <2>4. \A t \in Stream : Snapshot(t)' = Snapshot(t)
    BY <2>1 DEF Snapshot, Serving
  <2> QED BY <2>1, <2>2, <2>3, <2>4, StampsOfStreams DEF StreamInv, Stamp, Serving
<1>5. CASE Next
  <2>1. \/ UNCHANGED <<Serving, held>>
        \/ Changed /\ UNCHANGED <<epoch, held>>
        \/ RestartService
        \/ \E s \in Stream : Deliver(s)
    BY ZenonT(40), <1>5 DEF Next, ClearList, DropScope, AppendEvent, Built, LoopStops, Retire, EffectTurn,
       EffectEnds, NextGame, SetAllowed, EvaluateAll, ReadEvents, Block, Dispatch, GiveUp,
       PassOver, RecheckFires, service, Serving
  <2> QED BY <2>1, <1>1, <1>2, <1>3, <1>4
<1>6. CASE UNCHANGED vars
  BY <1>1, <1>6 DEF vars, service, Serving
<1> QED BY <1>5, <1>6

\* A pass never saw a newer allow-list than the one held.
SeenInv ==
  allowSeen # None =>
    /\ allowSeen.epoch <= held["allow"].epoch
    /\ allowSeen.epoch = held["allow"].epoch => allowSeen.version <= held["allow"].version

LEMMA SeenStep ==
  ASSUME TypeOK, StreamInv, SeenInv, [Next]_vars
  PROVE  SeenInv'
<1>0. /\ "allow" \in Stream
      /\ allowSeen # None => allowSeen.epoch \in Nat /\ allowSeen.version \in Nat
  BY EventsAssumption DEF Stream, TypeOK
<1>1. CASE UNCHANGED <<allowSeen, held>>
  BY <1>1 DEF SeenInv
<1>2. CASE allowSeen' = None
  BY <1>2 DEF SeenInv
<1>3. CASE ReadEvents
  <2>1. held' = held /\ allowSeen' \in {allowSeen, Stamp("allow")}
    BY <1>3 DEF ReadEvents
  <2>2. Stamp("allow").epoch = held["allow"].epoch /\ Stamp("allow").version = held["allow"].version
    BY DEF Stamp
  <2> QED BY <1>0, <2>1, <2>2, StampsOfStreams DEF SeenInv
<1>4. ASSUME NEW s \in Stream, Deliver(s) PROVE SeenInv'
  <2>1. held' = [held EXCEPT ![s] = Snapshot(s)] /\ allowSeen' = allowSeen
    BY <1>4 DEF Deliver, evaluation
  <2>2. held'[s] = Snapshot(s) /\ \A t \in Stream : t # s => held'[t] = held[t]
    BY <2>1 DEF TypeOK, HeldType
  <2>3. Snapshot(s).epoch = epoch /\ Snapshot(s).version = version
    BY DEF Snapshot
  <2>4. /\ held["allow"].epoch <= epoch
        /\ held["allow"].epoch = epoch => held["allow"].version <= version
    BY <1>0 DEF StreamInv
  <2> QED BY <1>0, <2>1, <2>2, <2>3, <2>4, StampsOfStreams DEF SeenInv
<1>5. CASE Next
  <2>1. \/ UNCHANGED <<allowSeen, held>>
        \/ allowSeen' = None
        \/ ReadEvents
        \/ \E s \in Stream : Deliver(s)
    BY <1>5 DEF Next, ClearList, DropScope, AppendEvent, Built, LoopStops, Retire, EffectTurn,
       EffectEnds, NextGame, SetAllowed, RestartService, EvaluateAll, PassStarts, Block,
       Dispatch, GiveUp, PassOver, RecheckFires, evaluation
  <2> QED BY <2>1, <1>1, <1>2, <1>3, <1>4
<1>6. CASE UNCHANGED vars
  BY <1>1, <1>6 DEF vars, evaluation
<1> QED BY <1>5, <1>6

LEMMA StampParts == StampInv <=> StreamInv /\ SeenInv
BY DEF StampInv, StreamInv, SeenInv

-----------------------------------------------------------------------------
(* The way of an event: list, list held, queue, chain, loop *)

Listed(i) == \E g \in Game : \E e \in list[g].events : e.id = i
Shown(i) == \E g \in Game : \E e \in held["events"].value[g].events : e.id = i
Queued(i) == \E e \in queue : e.id = i
Chained(i) == \E g \in Game : \E k \in DOMAIN chain[g] : chain[g][k].id = i
Runs(i) == \E g \in Game : running[g] = i

\* A step of the coordinator moves an event on from where it is: nothing is
\* queued that is not shown beside an allow-list that is new enough, and
\* nothing chained that the allow-list held forbids.
MovesOn(i) ==
  /\ Queued(i)' => Queued(i) \/ (~Lags /\ Shown(i))
  /\ Chained(i)' => Chained(i) \/ (Queued(i) /\ held["allow"].value)
  /\ Runs(i)' => Runs(i) \/ Chained(i)
  /\ starts'[i] # starts[i] => Chained(i)
  /\ fate'[i] # fate[i] => Queued(i)

CoordinatorStep ==
  \/ \E g \in Game : Built(g) \/ LoopStops(g) \/ Retire(g) \/ EffectTurn(g) \/ EffectEnds(g)
                     \/ NextGame(g)
  \/ EvaluateAll \/ ReadEvents \/ Block \/ Dispatch \/ GiveUp \/ PassOver \/ RecheckFires

\* The pass finishes its first event and queues none.
LEMMA FinishedMoves ==
  ASSUME TypeOK, NEW f \in Fates, pass.at = "events", Finished(f), NEW i \in Event
  PROVE  /\ Queued(i)' => Queued(i)
         /\ fate'[i] # fate[i] => Queued(i)
<1>1. First(queue) \in queue /\ fate \in [Event -> Fates]
  BY FirstType DEF TypeOK, PassType
<1> QED BY <1>1 DEF Finished, Queued

LEMMA CoordinatorMoves ==
  ASSUME TypeOK, CoordinatorStep, NEW i \in Event
  PROVE  MovesOn(i)
<1> DEFINE Rest == UNCHANGED <<chain, running, starts>>
<1>0. PassType /\ LoopType
  BY DEF TypeOK
<1>1. CASE UNCHANGED <<queue, fate, chain, running, starts>>
  BY <1>1 DEF MovesOn, Queued, Chained, Runs
<1>2. ASSUME NEW g \in Game, LoopStops(g) PROVE MovesOn(i)
  <2>1. /\ \A h \in Game : h # g => chain'[h] = chain[h] /\ running'[h] = running[h]
        /\ chain'[g] = <<>> /\ running'[g] = None /\ starts' = starts
    BY <1>0, <1>2 DEF LoopStops, LoopType
  <2>2. /\ Queued(i)' => Queued(i)
        /\ fate'[i] # fate[i] => Queued(i)
    <3>1. CASE Awaits(g)
      <4>1. pass.at = "events"
        BY <1>0, <3>1 DEF Awaits, PassType
      <4>2. \E f \in Fates : Finished(f)
        BY <1>2, <3>1 DEF LoopStops, Fates, Ran
      <4> QED BY <4>1, <4>2, FinishedMoves
    <3>2. CASE ~Awaits(g)
      BY <1>2, <3>2 DEF LoopStops, Queued
    <3> QED BY <3>1, <3>2
  <2>3. i # None
    BY EventsAssumption DEF Event
  <2>4. Chained(i)' => Chained(i)
    BY <2>1 DEF Chained
  <2>5. Runs(i)' => Runs(i)
    BY <2>1, <2>3 DEF Runs
  <2> QED BY <2>1, <2>2, <2>4, <2>5 DEF MovesOn
<1>3. ASSUME NEW g \in Game, EffectTurn(g) PROVE MovesOn(i)
  <2>1. /\ chain[g] \in Seq([id : Event, skip : BOOLEAN]) /\ chain[g] # <<>>
        /\ queue' = queue /\ fate' = fate
    BY <1>0, <1>3 DEF EffectTurn, LoopType
  <2>2. /\ 1 \in DOMAIN chain[g] /\ Head(chain[g]) = chain[g][1]
        /\ \A k \in DOMAIN Tail(chain[g]) : k + 1 \in DOMAIN chain[g]
                                            /\ Tail(chain[g])[k] = chain[g][k + 1]
    BY <2>1, EmptySeq
  <2>3. \A h \in Game : chain'[h] = IF h = g THEN Tail(chain[g]) ELSE chain[h]
    BY <1>0, <1>3 DEF EffectTurn, LoopType
  <2>4. Chained(i)' => Chained(i)
    <3> SUFFICES ASSUME NEW h \in Game, NEW k \in DOMAIN chain'[h], chain'[h][k].id = i
                 PROVE  Chained(i)
      BY DEF Chained
    <3>1. CASE h = g
      <4>1. k + 1 \in DOMAIN chain[g] /\ chain[g][k + 1].id = i
        BY <2>2, <2>3, <3>1
      <4> QED BY <4>1 DEF Chained
    <3>2. CASE h # g
      BY <2>3, <3>2 DEF Chained
    <3> QED BY <3>1, <3>2
  <2>5. \A h \in Game : running'[h] # running[h] => h = g /\ running'[h] = Head(chain[g]).id
    BY <1>0, <1>3 DEF EffectTurn, LoopType
  <2>6. starts'[i] # starts[i] => i = Head(chain[g]).id
    BY <1>0, <1>3 DEF EffectTurn, LoopType
  <2>7. i = Head(chain[g]).id => Chained(i)
    BY <2>2 DEF Chained
  <2>8. Runs(i)' => Runs(i) \/ Chained(i)
    BY <2>5, <2>7 DEF Runs
  <2> QED BY <2>1, <2>4, <2>6, <2>7, <2>8 DEF MovesOn, Queued
<1>4. ASSUME NEW g \in Game, EffectEnds(g) PROVE MovesOn(i)
  <2>1. chain' = chain /\ starts' = starts /\ \A h \in Game : running'[h] \in {running[h], None}
    BY <1>0, <1>4 DEF EffectEnds, LoopType
  <2>2. /\ Queued(i)' => Queued(i)
        /\ fate'[i] # fate[i] => Queued(i)
    <3>1. CASE Awaits(g) /\ effect = "started"
      <4>1. pass.at = "events"
        BY <1>0, <3>1 DEF Awaits, PassType
      <4> QED BY <1>4, <3>1, <4>1, FinishedMoves DEF EffectEnds, Fates, Ran
    <3>2. CASE ~(Awaits(g) /\ effect = "started")
      BY <1>4, <3>2 DEF EffectEnds, Queued
    <3> QED BY <3>1, <3>2
  <2>3. i # None
    BY EventsAssumption DEF Event
  <2> QED BY <2>1, <2>2, <2>3 DEF MovesOn, Chained, Runs
<1>5. CASE GiveUp
  <2>1. starts' = starts /\ running' = running
    BY <1>5 DEF GiveUp
  <2>2. /\ Queued(i)' => Queued(i)
        /\ fate'[i] # fate[i] => Queued(i)
    <3>1. pass.at = "events" /\ \E f \in Fates : Finished(f)
      BY <1>0, <1>5 DEF GiveUp, PassType, Fates, Ran
    <3> QED BY <3>1, FinishedMoves
  <2>3. Chained(i)' => Chained(i)
    <3>1. \A h \in Game : chain'[h] = chain[h] \/ chain'[h] = SkipLast(chain[h])
      BY <1>0, <1>5 DEF GiveUp, LoopType
    <3>2. \A h \in Game : /\ DOMAIN SkipLast(chain[h]) = DOMAIN chain[h]
                          /\ \A k \in DOMAIN chain[h] : SkipLast(chain[h])[k].id = chain[h][k].id
      BY <1>0, SkipLastType DEF LoopType
    <3> QED BY <3>1, <3>2 DEF Chained
  <2> QED BY <2>1, <2>2, <2>3 DEF MovesOn, Runs
<1>6. CASE Block
  <2>1. pass.at = "events" /\ Finished("blocked") /\ "blocked" \in Fates
    BY <1>6 DEF Block, Fates, Ran
  <2>2. chain' = chain /\ running' = running /\ starts' = starts
    BY <1>6 DEF Block, loops
  <2>3. /\ Queued(i)' => Queued(i)
        /\ fate'[i] # fate[i] => Queued(i)
    BY <2>1, FinishedMoves
  <2> QED BY <2>2, <2>3 DEF MovesOn, Chained, Runs
<1>7. CASE Dispatch
  <2> DEFINE g == pass.game
             entry == [id |-> First(queue).id, skip |-> FALSE]
  <2> DEFINE old == IF g \in forgotten THEN <<>> ELSE chain[g]
  <2>1. /\ pass.at = "events" /\ held["allow"].value /\ starts' = starts
        /\ \A h \in Game : running'[h] \in {running[h], None}
    BY <1>0, <1>7 DEF Dispatch, LoopType
  <2>2. g \in Game /\ First(queue) \in queue /\ First(queue).id \in Event
    BY <1>0, <2>1, FirstType
  <2>3. CASE loop[g]
    <3>1. /\ chain' = [chain EXCEPT ![g] = Append(old, entry)]
          /\ UNCHANGED <<fate, queue>>
      BY <1>7, <2>3 DEF Dispatch
    <3>2. /\ DOMAIN Append(old, entry) = DOMAIN old \cup {Len(old) + 1}
          /\ \A k \in DOMAIN old : Append(old, entry)[k] = old[k]
          /\ Append(old, entry)[Len(old) + 1] = entry
      <4>1. old \in Seq([id : Event, skip : BOOLEAN])
        BY <1>0, <2>2, EmptySeq DEF LoopType
      <4>2. entry \in [id : Event, skip : BOOLEAN]
        BY <2>2
      <4> QED
        <5> HIDE DEF entry, g, old
        <5> QED BY <4>1, <4>2, AppendProperties, LenProperties
    <3>3. \A h \in Game : chain'[h] = IF h = g THEN Append(old, entry) ELSE chain[h]
      BY <1>0, <2>2, <3>1 DEF LoopType
    <3>6. \A k \in DOMAIN old : k \in DOMAIN chain[g] /\ old[k] = chain[g][k]
      BY EmptySeq
    <3>4. entry.id = i => Queued(i)
      BY <2>2 DEF Queued
    <3>5. Chained(i)' => Chained(i) \/ Queued(i)
      <4> SUFFICES ASSUME NEW h \in Game, NEW k \in DOMAIN chain'[h], chain'[h][k].id = i,
                          ~Queued(i)
                   PROVE  Chained(i)
        BY DEF Chained
      <4>1. CASE h = g /\ k = Len(old) + 1
        <5>1. entry.id = i
          <6> HIDE DEF entry, old
          <6> QED BY <3>2, <3>3, <4>1
        <5> QED BY <5>1, <3>4
      <4>2. CASE ~(h = g /\ k = Len(old) + 1)
        <5>1. k \in DOMAIN chain[h] /\ chain[h][k].id = i
          <6> HIDE DEF entry, old
          <6> QED BY <3>2, <3>3, <3>6, <4>2
        <5> QED BY <5>1 DEF Chained
      <4> QED BY <4>1, <4>2
    <3>7. Runs(i)' => Runs(i)
      BY <2>1, EventsAssumption DEF Runs, Event
    <3> QED BY <2>1, <3>1, <3>5, <3>7 DEF MovesOn, Queued
  <2>4. CASE ~loop[g]
    <3>1. Finished("blocked") /\ chain' = chain /\ running' = running
      BY <1>7, <2>4 DEF Dispatch
    <3> QED BY <2>1, <3>1, FinishedMoves DEF Fates, Ran, MovesOn, Chained, Runs
  <2> QED BY <2>3, <2>4
<1>8. CASE ReadEvents
  <2>1. Rest /\ fate' = fate
    BY <1>8 DEF ReadEvents, loops
  <2>2. queue' # {} => ~Lags /\ queue' = Fresh(pass.game) /\ pass.game \in Game
    BY <1>0, <1>8 DEF ReadEvents, PassType
  <2>3. Queued(i)' => ~Lags /\ Shown(i)
    BY <2>2 DEF Queued, Shown, Fresh
  <2> QED BY <2>1, <2>3 DEF MovesOn, Chained, Runs
<1>9. CASE \E g \in Game : Built(g) \/ Retire(g) \/ NextGame(g)
  BY <1>1, <1>9 DEF Built, Retire, NextGame, evaluation, loops
<1>10. CASE EvaluateAll \/ PassOver \/ RecheckFires
  BY <1>1, <1>10 DEF EvaluateAll, PassOver, RecheckFires, evaluation, loops
<1> QED BY <1>2, <1>3, <1>4, <1>5, <1>6, <1>7, <1>8, <1>9, <1>10 DEF CoordinatorStep

\* What a step of the coordinator leaves alone.
LEMMA CoordinatorLeaves ==
  ASSUME CoordinatorStep
  PROVE  UNCHANGED <<service, held>> /\ allowSeen' \in {allowSeen, None, Stamp("allow")}
BY DEF CoordinatorStep, Built, LoopStops, Retire, EffectTurn, EffectEnds, NextGame, EvaluateAll,
       PassStarts, ReadEvents, Block, Dispatch, GiveUp, PassOver, RecheckFires, evaluation

-----------------------------------------------------------------------------
(* The kill switch *)

\* Nothing is listed, shown, queued, chained or running of an event that was
\* not appended yet.
LEMMA NewInvParts ==
  NewInv <=> \A i \in Event : home[i] = None =>
    /\ fate[i] = "none" /\ starts[i] = 0
    /\ ~Queued(i) /\ ~Chained(i) /\ ~Runs(i) /\ ~Listed(i) /\ ~Shown(i)
BY DEF NewInv, Untouched, Queued, Chained, Runs, Listed, Shown

\* What a step of the service leaves alone
LEMMA ServiceLeaves ==
  ASSUME NEW i \in Event,
         UNCHANGED <<held, loops, evaluation>>
  PROVE  /\ Queued(i)' = Queued(i) /\ Chained(i)' = Chained(i) /\ Runs(i)' = Runs(i)
         /\ Shown(i)' = Shown(i) /\ starts'[i] = starts[i] /\ fate'[i] = fate[i]
BY DEF loops, evaluation, Queued, Chained, Runs, Shown

\* The steps of the service and of its streams
ServiceStep ==
  \/ \E g \in Game : ClearList(g) \/ DropScope(g) \/ \E i \in Event : AppendEvent(g, i)
  \/ SetAllowed \/ RestartService

LEMMA Steps ==
  Next <=> ServiceStep \/ CoordinatorStep \/ \E s \in Stream : Deliver(s)
BY DEF Next, ServiceStep, CoordinatorStep

\* What is in a list was appended.
LEMMA ServiceLists ==
  ASSUME TypeOK, ServiceStep, NEW i \in Event
  PROVE  /\ UNCHANGED <<held, loops, evaluation>>
         /\ home'[i] = None => home[i] = None /\ (Listed(i)' => Listed(i))
<1>0. /\ list \in [Game -> List] /\ home \in [Event -> Game \cup {None}] /\ None \notin Game
  BY EventsAssumption DEF TypeOK, ServiceType
<1>1. ASSUME NEW g \in Game, ClearList(g)
      PROVE  home'[i] = None => home[i] = None /\ (Listed(i)' => Listed(i))
  BY <1>0, <1>1 DEF ClearList, Cleared, Listed, List
<1>2. ASSUME NEW g \in Game, DropScope(g)
      PROVE  home'[i] = None => home[i] = None /\ (Listed(i)' => Listed(i))
  BY <1>0, <1>2 DEF DropScope, Empty, Listed
<1>3. ASSUME NEW g \in Game, NEW j \in Event, AppendEvent(g, j)
      PROVE  home'[i] = None => home[i] = None /\ (Listed(i)' => Listed(i))
  <2> SUFFICES ASSUME home'[i] = None
               PROVE  home[i] = None /\ (Listed(i)' => Listed(i))
    OBVIOUS
  <2>1. home' = [home EXCEPT ![j] = g]
    BY <1>3 DEF AppendEvent
  <2>2. i # j /\ home[i] = None
    BY <1>0, <2>1
  <2>3. \A h \in Game : \A e \in list'[h].events : e \in list[h].events \/ e.id = j
    BY <1>0, <1>3 DEF AppendEvent, KeepLast, List
  <2> QED BY <2>2, <2>3 DEF Listed
<1>4. CASE SetAllowed
  BY <1>4 DEF SetAllowed, Listed
<1>5. CASE RestartService
  BY <1>5 DEF RestartService, Empty, Listed
<1>6. UNCHANGED <<held, loops, evaluation>>
  BY DEF ServiceStep, ClearList, DropScope, AppendEvent, SetAllowed, RestartService
<1> QED BY <1>1, <1>2, <1>3, <1>4, <1>5, <1>6 DEF ServiceStep

\* A stream shows what is listed and moves nothing else.
LEMMA DeliverShows ==
  ASSUME TypeOK, NEW s \in Stream, Deliver(s), NEW i \in Event
  PROVE  /\ UNCHANGED <<service, loops, evaluation>>
         /\ Shown(i)' => Shown(i) \/ Listed(i)
<1>1. held' = [held EXCEPT ![s] = Snapshot(s)]
  BY DEF Deliver
<1>2. /\ held'[s] = Snapshot(s) /\ \A t \in Stream : t # s => held'[t] = held[t]
      /\ "events" \in Stream
  BY <1>1 DEF TypeOK, HeldType, Stream
<1>3. s = "events" => held'["events"].value = list
  BY <1>2 DEF Snapshot
<1>4. s # "events" => held'["events"] = held["events"]
  BY <1>2
<1> QED BY <1>3, <1>4 DEF Deliver, Shown, Listed

LEMMA NewStep ==
  ASSUME TypeOK, NewInv, [Next]_vars
  PROVE  NewInv'
<1> DEFINE Nowhere(i) ==
             /\ fate[i] = "none" /\ starts[i] = 0
             /\ ~Queued(i) /\ ~Chained(i) /\ ~Runs(i) /\ ~Listed(i) /\ ~Shown(i)
<1>1. \A i \in Event : home[i] = None => Nowhere(i)
  BY NewInvParts
<1>2. SUFFICES ASSUME NEW i \in Event, home'[i] = None
               PROVE  Nowhere(i)'
  BY DEF NewInv, Untouched, Queued, Chained, Runs, Listed, Shown
<1>3. CASE ServiceStep
  <2>1. UNCHANGED <<held, loops, evaluation>> /\ home[i] = None /\ (Listed(i)' => Listed(i))
    BY <1>2, <1>3, ServiceLists
  <2> QED BY <1>1, <2>1, ServiceLeaves
<1>4. CASE CoordinatorStep
  <2>1. MovesOn(i)
    BY <1>4, CoordinatorMoves
  <2>2. UNCHANGED <<service, held>>
    BY <1>4, CoordinatorLeaves
  <2>3. home' = home /\ list' = list /\ held' = held
    BY <2>2 DEF service
  <2>4. Nowhere(i)
    BY <1>1, <1>2, <2>3
  <2>5. Listed(i)' = Listed(i) /\ Shown(i)' = Shown(i)
    BY <2>3 DEF Listed, Shown
  <2> QED BY <2>1, <2>4, <2>5 DEF MovesOn
<1>5. ASSUME NEW s \in Stream, Deliver(s) PROVE Nowhere(i)'
  <2>1. UNCHANGED <<service, loops, evaluation>> /\ (Shown(i)' => Shown(i) \/ Listed(i))
    BY <1>5, DeliverShows
  <2>2. home' = home /\ list' = list
    BY <2>1 DEF service
  <2>3. Nowhere(i)
    BY <1>1, <1>2, <2>2
  <2>4. /\ Queued(i)' = Queued(i) /\ Chained(i)' = Chained(i) /\ Runs(i)' = Runs(i)
        /\ Listed(i)' = Listed(i) /\ starts'[i] = starts[i] /\ fate'[i] = fate[i]
    BY <2>1, <2>2 DEF loops, evaluation, Queued, Chained, Runs, Listed
  <2> QED BY <2>1, <2>3, <2>4
<1>6. CASE UNCHANGED vars
  <2>1. home[i] = None
    BY <1>2, <1>6 DEF vars, service
  <2>2. Nowhere(i)
    BY <1>1, <2>1
  <2> QED BY <1>6, <2>2 DEF vars, service, loops, evaluation, Queued, Chained, Runs, Listed, Shown
<1> QED BY <1>3, <1>4, <1>5, <1>6, Steps

\* What is known of a forbidden event
Dormant(i) ==
  /\ home[i] # None /\ starts[i] = 0 /\ ~Chained(i) /\ ~Runs(i)
  /\ Queued(i) => ~held["allow"].value
  /\ Shown(i) /\ (Covers(Stamp("allow"), Stamp("events"))
                   \/ Covers(allowSeen, Stamp("events"))) => ~held["allow"].value

LEMMA ForbiddenInvParts ==
  ForbiddenInv <=> (forbidden # {} => ~allowed) /\ \A i \in forbidden : Dormant(i)
BY DEF ForbiddenInv, Dormant, Queued, Chained, Runs, Shown

\* A step of the service forbids only what it appends while the type is
\* forbidden, and forgets all of it when the type is allowed.
LEMMA ServiceForbids ==
  ASSUME TypeOK, ServiceStep, forbidden # {} => ~allowed
  PROVE  /\ forbidden' # {} => ~allowed'
         /\ \A i \in forbidden' :
              i \in forbidden \/ (i \in Event /\ home[i] = None /\ home'[i] # None)
<1>0. home \in [Event -> Game \cup {None}] /\ None \notin Game
  BY EventsAssumption DEF TypeOK, ServiceType
<1>1. ASSUME NEW g \in Game, ClearList(g) \/ DropScope(g)
      PROVE  forbidden' = forbidden /\ allowed' = allowed
  BY <1>1 DEF ClearList, DropScope
<1>2. ASSUME NEW g \in Game, NEW j \in Event, AppendEvent(g, j)
      PROVE  /\ allowed' = allowed /\ home[j] = None /\ home'[j] # None
             /\ forbidden' = IF allowed THEN forbidden ELSE forbidden \cup {j}
  BY <1>0, <1>2 DEF AppendEvent
<1>3. CASE SetAllowed \/ RestartService
  BY <1>3 DEF SetAllowed, RestartService
<1> QED BY <1>1, <1>2, <1>3 DEF ServiceStep

LEMMA HomesKept ==
  ASSUME TypeOK, [Next]_vars, NEW i \in Event, home[i] # None
  PROVE  home'[i] # None
<1>1. home \in [Event -> Game \cup {None}] /\ None \notin Game
  BY EventsAssumption DEF TypeOK, ServiceType
<1>2. CASE ServiceStep
  BY <1>1, <1>2 DEF ServiceStep, ClearList, DropScope, AppendEvent, SetAllowed, RestartService
<1>3. CASE CoordinatorStep
  BY <1>3, CoordinatorLeaves DEF service
<1>4. ASSUME NEW s \in Stream, Deliver(s) PROVE home'[i] # None
  BY <1>4 DEF Deliver, service
<1>5. CASE UNCHANGED vars
  BY <1>5 DEF vars, service
<1> QED BY <1>2, <1>3, <1>4, <1>5, Steps

\* An allow-list as new as the newest lists forbids what is forbidden.
LEMMA DeliverForbids ==
  ASSUME TypeOK, StreamInv, SeenInv, ForbiddenInv, NEW s \in Stream, Deliver(s),
         NEW i \in forbidden
  PROVE  Dormant(i)'
<1>0. /\ "allow" \in Stream /\ "events" \in Stream
      /\ Dormant(i) /\ ~allowed /\ i \in Event
  BY ForbiddenInvParts DEF Stream, TypeOK, ServiceType
<1>1. UNCHANGED <<service, loops, evaluation>> /\ (Shown(i)' => Shown(i) \/ Listed(i))
  BY <1>0, DeliverShows
<1>2. /\ held'[s] = Snapshot(s) /\ \A t \in Stream : t # s => held'[t] = held[t]
  BY DEF Deliver, TypeOK, HeldType
<1>3. /\ Queued(i)' = Queued(i) /\ Chained(i)' = Chained(i) /\ Runs(i)' = Runs(i)
      /\ starts'[i] = starts[i] /\ home'[i] = home[i] /\ allowSeen' = allowSeen
  BY <1>1 DEF service, loops, evaluation, Queued, Chained, Runs
<1>4. CASE s = "allow"
  <2>1. ~held'["allow"].value
    BY <1>0, <1>2, <1>4 DEF Snapshot
  <2> QED BY <1>0, <1>3, <2>1 DEF Dormant
<1>5. CASE s = "events"
  <2>1. held'["allow"] = held["allow"]
    BY <1>0, <1>2, <1>5
  <2>2. held'["events"].epoch = epoch /\ held'["events"].version = version
    BY <1>2, <1>5 DEF Snapshot
  <2>3. /\ held["allow"].epoch <= epoch
        /\ held["allow"].epoch = epoch => held["allow"].version <= version
        /\ held["allow"].epoch = epoch /\ held["allow"].version = version =>
             ~held["allow"].value
    <3>1. Stamp("allow") = [epoch |-> held["allow"].epoch, version |-> held["allow"].version]
      BY DEF Stamp
    <3>2. Snapshot("allow").value = allowed
      BY DEF Snapshot
    <3> QED BY <1>0, <3>1, <3>2 DEF StreamInv
  <2>4. Stamp("events")' = [epoch |-> epoch, version |-> version]
    BY <2>2 DEF Stamp
  <2>5. Stamp("allow")' = [epoch |-> held["allow"].epoch, version |-> held["allow"].version]
    BY <2>1 DEF Stamp
  <2>6. /\ held["allow"].epoch \in Nat /\ held["allow"].version \in Nat
        /\ epoch \in Nat /\ version \in Nat
        /\ allowSeen # None => allowSeen.epoch \in Nat /\ allowSeen.version \in Nat
    BY <1>0, StampsOfStreams, EventsAssumption DEF TypeOK
  <2>7. Covers(Stamp("allow"), Stamp("events"))' => ~held["allow"].value
    BY <2>3, <2>4, <2>5, <2>6 DEF Covers
  <2>8. Covers(allowSeen, Stamp("events"))' => ~held["allow"].value
    BY <1>3, <2>3, <2>4, <2>6 DEF Covers, SeenInv
  <2> QED BY <1>0, <1>3, <2>1, <2>7, <2>8 DEF Dormant
<1> QED BY <1>4, <1>5 DEF Stream

\* The pass queues nothing forbidden beside an allow-list that permits it, and
\* puts nothing forbidden on a loop.
LEMMA CoordinatorForbids ==
  ASSUME TypeOK, ForbiddenInv, CoordinatorStep, NEW i \in forbidden
  PROVE  Dormant(i)'
<1>0. Dormant(i) /\ i \in Event
  BY ForbiddenInvParts DEF TypeOK, ServiceType
<1>1. MovesOn(i)
  BY <1>0, CoordinatorMoves
<1>2. /\ home' = home /\ held' = held
      /\ allowSeen' \in {allowSeen, None, Stamp("allow")}
  BY CoordinatorLeaves DEF service
<1>3. /\ Stamp("allow")' = Stamp("allow") /\ Stamp("events")' = Stamp("events")
      /\ Shown(i)' = Shown(i)
  BY <1>2 DEF Stamp, Shown
<1>4. ~Chained(i)' /\ ~Runs(i)' /\ starts'[i] = 0
  BY <1>0, <1>1 DEF MovesOn, Dormant
<1>5. Queued(i)' => ~held["allow"].value
  BY <1>0, <1>1 DEF MovesOn, Dormant, Lags
<1>6. Covers(allowSeen, Stamp("events"))' =>
        Covers(allowSeen, Stamp("events")) \/ Covers(Stamp("allow"), Stamp("events"))
  BY <1>2, <1>3 DEF Covers
<1> QED BY <1>0, <1>2, <1>3, <1>4, <1>5, <1>6 DEF Dormant, Covers

LEMMA ForbiddenStep ==
  ASSUME KillInv, [Next]_vars
  PROVE  ForbiddenInv'
<1>0. /\ TypeOK /\ StreamInv /\ SeenInv /\ NewInv /\ ForbiddenInv
      /\ forbidden \in SUBSET Event
  BY StampParts DEF KillInv, TypeOK, ServiceType
<1>1. CASE ServiceStep
  <2>1. /\ forbidden' # {} => ~allowed'
        /\ \A i \in forbidden' :
             i \in forbidden \/ (i \in Event /\ home[i] = None /\ home'[i] # None)
    BY <1>0, <1>1, ServiceForbids, ForbiddenInvParts
  <2>2. ASSUME NEW i \in forbidden' PROVE Dormant(i)'
    <3>1. i \in Event /\ home'[i] # None
      BY <1>0, <2>1, HomesKept, ForbiddenInvParts DEF Dormant
    <3>2. UNCHANGED <<held, loops, evaluation>>
      BY <1>0, <1>1, <3>1, ServiceLists
    <3>3. \/ Dormant(i)
          \/ starts[i] = 0 /\ ~Queued(i) /\ ~Chained(i) /\ ~Runs(i) /\ ~Shown(i)
      BY <1>0, <2>1, <3>1, ForbiddenInvParts, NewInvParts
    <3>4. /\ Stamp("allow")' = Stamp("allow") /\ Stamp("events")' = Stamp("events")
          /\ held' = held /\ allowSeen' = allowSeen
      BY <3>2 DEF Stamp, evaluation
    <3>5. Covers(allowSeen, Stamp("events"))' = Covers(allowSeen, Stamp("events"))
      BY <3>4 DEF Covers
    <3>6. Covers(Stamp("allow"), Stamp("events"))' = Covers(Stamp("allow"), Stamp("events"))
      BY <3>4 DEF Covers
    <3> QED BY <3>1, <3>2, <3>3, <3>4, <3>5, <3>6, ServiceLeaves DEF Dormant
  <2> QED BY <2>1, <2>2 DEF ForbiddenInv, Dormant, Queued, Chained, Runs, Shown
<1>2. CASE CoordinatorStep
  <2>1. forbidden' = forbidden /\ allowed' = allowed
    BY <1>2, CoordinatorLeaves DEF service
  <2>2. \A i \in forbidden' : Dormant(i)'
    BY <1>0, <1>2, <2>1, CoordinatorForbids
  <2> QED BY <1>0, <2>1, <2>2 DEF ForbiddenInv, Dormant, Queued, Chained, Runs, Shown
<1>3. ASSUME NEW s \in Stream, Deliver(s) PROVE ForbiddenInv'
  <2>1. forbidden' = forbidden /\ allowed' = allowed
    BY <1>3 DEF Deliver, service
  <2>2. \A i \in forbidden' : Dormant(i)'
    BY <1>0, <1>3, <2>1, DeliverForbids
  <2> QED BY <1>0, <2>1, <2>2 DEF ForbiddenInv, Dormant, Queued, Chained, Runs, Shown
<1>4. CASE UNCHANGED vars
  BY <1>0, <1>4 DEF ForbiddenInv, Covers, Stamp, vars, service, loops, evaluation
<1> QED BY <1>1, <1>2, <1>3, <1>4, Steps

LEMMA KillInit == Init => KillInv
<1> SUFFICES ASSUME Init PROVE KillInv
  OBVIOUS
<1>1. TypeOK
  BY TypeInit
<1>2. StampInv
  BY DEF Init, StampInv, Stamp, Snapshot, Stream
<1>3. NewInv
  BY EventsAssumption DEF Init, NewInv, Untouched, Empty, Snapshot, Event, Stream
<1>4. ForbiddenInv
  BY DEF Init, ForbiddenInv
<1> QED BY <1>1, <1>2, <1>3, <1>4 DEF KillInv

LEMMA KillStep == KillInv /\ [Next]_vars => KillInv'
<1> SUFFICES ASSUME KillInv, [Next]_vars PROVE KillInv'
  OBVIOUS
<1>1. TypeOK /\ StreamInv /\ SeenInv /\ NewInv
  BY StampParts DEF KillInv
<1>2. TypeOK'
  BY <1>1, TypeStep
<1>3. StampInv'
  BY <1>1, StreamStep, SeenStep DEF StampInv, StreamInv, SeenInv
<1>4. NewInv' /\ ForbiddenInv'
  BY <1>1, NewStep, ForbiddenStep
<1> QED BY <1>2, <1>3, <1>4 DEF KillInv

\* However the lists and the allow-list reach the coordinator, whatever breaks,
\* restarts or is delayed: an event appended while its type was forbidden, and
\* not allowed since, never starts.
THEOREM KillSwitchProved == Spec => []KillSwitchHeld
<1>1. KillInv => KillSwitchHeld
  BY DEF KillInv, ForbiddenInv, KillSwitchHeld
<1> QED BY KillInit, KillStep, <1>1, PTL DEF Spec

-----------------------------------------------------------------------------
(* The lists: one numbering, the same wherever it is shown *)

Shows(g) == held["events"].value[g]

LEMMA ListTypes ==
  ASSUME TypeOK
  PROVE  /\ \A e \in Entry : e.seq \in Nat /\ e.id \in Event /\ e.id \in Nat
         /\ \A g \in Game : /\ list[g].seq \in Nat /\ list[g].events \in SUBSET Entry
                            /\ Shows(g).seq \in Nat /\ Shows(g).events \in SUBSET Entry
         /\ home \in [Event -> Game \cup {None}] /\ None \notin Game
         /\ queue \in SUBSET Entry
<1>1. \A e \in Entry : e.seq \in Nat /\ e.id \in Event /\ e.id \in Nat
  BY EventsAssumption DEF Entry, Event
<1>2. list \in [Game -> List] /\ held["events"].value \in [Game -> List]
  BY DEF TypeOK, ServiceType, HeldType
<1>3. \A g \in Game : list[g] \in List /\ Shows(g) \in List
  BY <1>2 DEF Shows
<1>4. \A l \in List : l.seq \in Nat /\ l.events \in SUBSET Entry
  BY DEF List
<1> QED BY <1>1, <1>3, <1>4, EventsAssumption DEF TypeOK, ServiceType, PassType

\* Two events of one list are the same when they have one id.
LEMMA OneEntry ==
  ASSUME TypeOK, NEW g \in Game, NEW l \in List, Ordered(l, g), NEW e \in l.events,
         NEW f \in l.events
  PROVE  e.id = f.id => e = f
<1>1. e \in Entry /\ f \in Entry
  BY DEF List
<1>2. (e.seq < f.seq <=> e.id < f.id) /\ (f.seq < e.seq <=> f.id < e.id)
  BY DEF Ordered
<1>3. e.id = f.id => e.seq = f.seq
  BY <1>1, <1>2, ListTypes
<1> QED BY <1>1, <1>3 DEF Entry

\* What is in the lists was appended to them; what is not appended comes later.
LEMMA ListAppend ==
  ASSUME TypeOK, ListInv, NEW g \in Game, NEW i \in Event, AppendEvent(g, i)
  PROVE  ListInv'
<1>0. /\ home[i] = None /\ \A j \in Event : j < i => home[j] # None
      /\ home' = [home EXCEPT ![i] = g] /\ held' = held /\ epoch' = epoch
  BY DEF AppendEvent
<1> DEFINE new == [seq |-> list[g].seq + 1, id |-> i]
<1>1. /\ list' = [list EXCEPT ![g] = [seq |-> list[g].seq + 1,
                       events |-> KeepLast(@.events \cup {new}, list[g].seq + 1)]]
      /\ list \in [Game -> List]
  BY DEF AppendEvent, TypeOK, ServiceType
<1>2. /\ list'[g].seq = list[g].seq + 1
      /\ \A e \in list'[g].events : e \in list[g].events \/ e = new
      /\ \A h \in Game : h # g => list'[h] = list[h]
  BY <1>1 DEF KeepLast
<1>3. home'[i] = g /\ \A j \in Event : j # i => home'[j] = home[j]
  BY <1>0, ListTypes
<1>4. \A j \in Event : home[j] # None => j < i
  <2> SUFFICES ASSUME NEW j \in Event, home[j] # None PROVE j < i
    OBVIOUS
  <2>1. ~(i < j)
    BY <1>0 DEF ListInv
  <2>2. i # j
    BY <1>0
  <2> QED BY <2>1, <2>2, EventsAssumption DEF Event
<1>5. \A j, k \in Event : j < k /\ home'[k] # None => home'[j] # None
  <2> SUFFICES ASSUME NEW j \in Event, NEW k \in Event, j < k, home'[k] # None
               PROVE  home'[j] # None
    OBVIOUS
  <2>1. CASE j = i
    BY <1>3, <2>1, ListTypes
  <2>2. CASE j # i /\ k = i
    BY <1>0, <1>3, <2>2
  <2>3. CASE j # i /\ k # i
    BY <1>3, <2>3 DEF ListInv
  <2> QED BY <2>1, <2>2, <2>3
<1>6. \A h \in Game : \A e \in list[h].events \cup Shows(h).events :
        e \in Entry /\ home[e.id] = h /\ e.id < i
  <2> SUFFICES ASSUME NEW h \in Game, NEW e \in list[h].events \cup Shows(h).events
               PROVE  e \in Entry /\ home[e.id] = h /\ e.id < i
    OBVIOUS
  <2>1. e \in Entry /\ e.id \in Event
    BY ListTypes
  <2>2. home[e.id] = h
    BY DEF ListInv, Ordered, Shows
  <2> QED BY <1>4, <2>1, <2>2, ListTypes
<1>7. ASSUME NEW h \in Game PROVE Ordered(Shows(h), h)'
  <2>1. Ordered(Shows(h), h) /\ Shows(h)' = Shows(h)
    BY <1>0 DEF ListInv, Shows
  <2>2. \A e \in Shows(h).events : home'[e.id] = h
    BY <1>3, <1>6, ListTypes
  <2> QED BY <2>1, <2>2 DEF Ordered
<1>8. ASSUME NEW h \in Game PROVE Ordered(list[h], h)'
  <2>1. Ordered(list[h], h)
    BY DEF ListInv
  <2>2. \A e \in list[h].events : home'[e.id] = h
    BY <1>3, <1>6, ListTypes
  <2>3. CASE h # g
    BY <1>2, <2>1, <2>2, <2>3 DEF Ordered
  <2>4. CASE h = g
    <3>1. \A e \in list[g].events : e.seq < new.seq /\ e.seq \in 1..(list[g].seq + 1) /\ e.id < new.id
      BY <1>6, <2>1, <2>4, ListTypes DEF Ordered
    <3>2. new.id = i /\ new.seq = list[g].seq + 1 /\ i \in Nat
      BY ListTypes DEF Event
    <3>3. \A e \in list'[g].events : e.seq \in 1..(list[g].seq + 1) /\ home'[e.id] = g
      <4>1. list[g].seq + 1 \in 1..(list[g].seq + 1)
        BY ListTypes
      <4> QED BY <1>2, <1>3, <2>2, <2>4, <3>1, <3>2, <4>1
    <3>4. ASSUME NEW e \in list'[g].events, NEW f \in list'[g].events
          PROVE  e.seq < f.seq <=> e.id < f.id
      <4> HIDE DEF new
      <4>1. \A d \in list[g].events : d.seq \in Nat /\ d.id \in Nat
        BY ListTypes
      <4>2. CASE e \in list[g].events /\ f \in list[g].events
        BY <2>1, <2>4, <4>2 DEF Ordered
      <4>3. CASE e = new \/ f = new
        BY <1>2, <3>1, <3>2, <4>1, <4>3, ListTypes
      <4> QED BY <1>2, <4>2, <4>3
    <3> QED BY <1>2, <2>4, <3>3, <3>4 DEF Ordered
  <2> QED BY <2>3, <2>4
<1>9. ASSUME NEW h \in Game PROVE Ahead(h)'
  <2>1. Ahead(h)
    BY DEF ListInv
  <2>2. \A e \in list'[h].events : e \in list[h].events \/ e.id = i
    BY <1>2
  <2>3. \A f \in Shows(h).events : f.id < i /\ f.id \in Nat
    BY <1>6, ListTypes
  <2>4. i \in Nat
    BY DEF Event
  <2>5. \A e \in list'[h].events, f \in Shows(h).events : e.id <= f.id => e \in list[h].events
    BY <2>2, <2>3, <2>4
  <2> QED BY <1>0, <2>1, <2>5 DEF Ahead, Shows
<1> QED BY <1>5, <1>7, <1>8, <1>9 DEF ListInv, Shows

\* The steps that leave the events that are left where they were.
LEMMA ListShrinks ==
  ASSUME ListInv, UNCHANGED <<held, home>>,
         \A g \in Game : \/ list'[g] = list[g] /\ epoch' = epoch
                         \/ list'[g].events = {}
  PROVE  ListInv'
<1>1. ASSUME NEW g \in Game PROVE Ordered(list[g], g)' /\ Ahead(g)'
  <2>1. CASE list'[g] = list[g] /\ epoch' = epoch
    BY <2>1 DEF ListInv, Ordered, Ahead
  <2>2. CASE list'[g].events = {}
    BY <2>2 DEF Ordered, Ahead
  <2> QED BY <2>1, <2>2
<1>2. ASSUME NEW g \in Game PROVE Ordered(held["events"].value[g], g)'
  BY DEF ListInv, Ordered
<1> QED BY <1>1, <1>2 DEF ListInv

LEMMA ListDeliver ==
  ASSUME TypeOK, ListInv, NEW s \in Stream, Deliver(s)
  PROVE  ListInv'
<1>1. /\ held'[s] = Snapshot(s) /\ \A t \in Stream : t # s => held'[t] = held[t]
      /\ UNCHANGED <<epoch, list, home>> /\ "events" \in Stream
  BY DEF Deliver, service, TypeOK, HeldType, Stream
<1>2. CASE s = "events"
  <2>1. held'["events"].value = list /\ held'["events"].epoch = epoch
    BY <1>1, <1>2 DEF Snapshot
  <2>2. ASSUME NEW g \in Game
        PROVE  Ordered(list[g], g)' /\ Ordered(held["events"].value[g], g)' /\ Ahead(g)'
    <3>1. Ordered(list[g], g) /\ list[g] \in List
      BY DEF ListInv, TypeOK, ServiceType
    <3>2. Ordered(list[g], g)' /\ Ordered(held["events"].value[g], g)'
      BY <1>1, <2>1, <3>1 DEF Ordered
    <3>3. \A e, f \in list[g].events : (e.id = f.id => e = f) /\ (e.id < f.id => e.seq < f.seq)
      BY <3>1, OneEntry DEF Ordered
    <3> QED BY <1>1, <2>1, <3>2, <3>3 DEF Ahead
  <2> QED BY <1>1, <2>2 DEF ListInv
<1>3. CASE s # "events"
  <2>1. held'["events"] = held["events"]
    BY <1>1, <1>3
  <2> QED BY <1>1, <2>1 DEF ListInv, Ordered, Ahead
<1> QED BY <1>2, <1>3

LEMMA ListStep ==
  ASSUME TypeOK, ListInv, [Next]_vars
  PROVE  ListInv'
<1>0. list \in [Game -> List]
  BY DEF TypeOK, ServiceType
<1>1. ASSUME NEW g \in Game, ClearList(g) PROVE ListInv'
  BY <1>0, <1>1, ListShrinks DEF ClearList, Cleared
<1>2. ASSUME NEW g \in Game, DropScope(g) PROVE ListInv'
  BY <1>0, <1>2, ListShrinks DEF DropScope, Empty
<1>3. CASE SetAllowed
  BY <1>3, ListShrinks DEF SetAllowed
<1>4. CASE RestartService
  BY <1>4, ListShrinks DEF RestartService, Empty
<1>5. CASE CoordinatorStep \/ UNCHANGED vars
  <2>1. UNCHANGED <<service, held>>
    BY <1>5, CoordinatorLeaves DEF vars
  <2> QED BY <2>1, ListShrinks DEF service
<1> QED BY <1>1, <1>2, <1>3, <1>4, <1>5, ListAppend, ListDeliver, Steps DEF ServiceStep

-----------------------------------------------------------------------------
(* The buckets: what is not read yet is new *)

Touched(i) == ~Untouched(i)

LEMMA UntouchedParts ==
  ASSUME NEW i \in Event
  PROVE  Untouched(i) <=> /\ fate[i] = "none" /\ starts[i] = 0
                          /\ ~Queued(i) /\ ~Chained(i) /\ ~Runs(i)
BY DEF Untouched, Queued, Chained, Runs

LEMMA UntouchedKept ==
  ASSUME NEW i \in Event, UNCHANGED <<fate, starts, queue, chain, running>>
  PROVE  Untouched(i)' <=> Untouched(i)
BY DEF Untouched

\* Only what a pass reads is touched.
LEMMA ReadTouches ==
  ASSUME TypeOK, CoordinatorStep, NEW i \in Event, Untouched(i), ~Queued(i)'
  PROVE  Untouched(i)'
<1>1. MovesOn(i)
  BY CoordinatorMoves
<1>2. /\ fate[i] = "none" /\ starts[i] = 0 /\ ~Queued(i) /\ ~Chained(i) /\ ~Runs(i)
  BY UntouchedParts
<1>3. fate'[i] = "none" /\ starts'[i] = 0 /\ ~Chained(i)' /\ ~Runs(i)'
  BY <1>1, <1>2 DEF MovesOn
<1> QED BY <1>3 DEF Untouched, Queued, Chained, Runs

LEMMA OnlyReadQueues ==
  ASSUME CoordinatorStep, ~ReadEvents
  PROVE  queue' \in SUBSET queue
<1>1. \A f \in Fates : Finished(f) => queue' \in SUBSET queue
  BY DEF Finished
<1>2. ASSUME NEW g \in Game, LoopStops(g) PROVE queue' \in SUBSET queue
  BY <1>1, <1>2 DEF LoopStops, Fates, Ran
<1>3. ASSUME NEW g \in Game, EffectEnds(g) PROVE queue' \in SUBSET queue
  BY <1>1, <1>3 DEF EffectEnds, Fates, Ran
<1>4. CASE GiveUp \/ Block \/ Dispatch
  BY <1>1, <1>4 DEF GiveUp, Block, Dispatch, Fates, Ran
<1>5. ASSUME NEW g \in Game, Built(g) \/ Retire(g) \/ EffectTurn(g) \/ NextGame(g)
      PROVE  queue' = queue
  BY <1>5 DEF Built, Retire, EffectTurn, NextGame, evaluation
<1>6. CASE EvaluateAll \/ PassOver \/ RecheckFires
  BY <1>6 DEF EvaluateAll, PassOver, RecheckFires, evaluation
<1> QED BY <1>2, <1>3, <1>4, <1>5, <1>6 DEF CoordinatorStep

LEMMA QuietTouches ==
  ASSUME TypeOK, CoordinatorStep, ~ReadEvents, NEW i \in Event, Untouched(i)
  PROVE  Untouched(i)'
<1>1. ~Queued(i)'
  BY OnlyReadQueues, UntouchedParts DEF Queued
<1> QED BY <1>1, ReadTouches

\* No bucket stands for a game whose session was not looked at, nor ahead of
\* the lists; nothing of the game was handled yet.
Unseen(g) ==
  last[g] = None /\ session[g] # "gone" /\ (session[g] # "over" \/ g \in pass.todo) =>
    \A i \in Event : home[i] = g => Untouched(i)

Bucket(g) ==
  /\ last[g] # None => last[g].epoch <= held["events"].epoch
  /\ session[g] = "starting" => g \notin pass.todo /\ last[g] = None
  /\ g \notin haunted =>
       /\ Unspoilt(g, epoch, list[g])
       /\ Unspoilt(g, held["events"].epoch, Shows(g))
       /\ Unseen(g)

LEMMA BucketParts == BucketInv <=> \A g \in Game : Bucket(g)
BY DEF BucketInv, Bucket, Unseen, Shows

\* The steps that touch nothing of a game leave its bucket as it is or drop it.
LEMMA BucketKept ==
  ASSUME TypeOK, ListInv, UNCHANGED <<service, held>>, NEW g \in Game, Bucket(g),
         \A i \in Event : home[i] = g /\ Untouched(i) => Untouched(i)',
         haunted \subseteq haunted', last'[g] \in {last[g], None},
         session'[g] = "starting" => g \notin pass'.todo /\ last'[g] = None,
         last'[g] = None /\ session'[g] # "gone" /\ (session'[g] # "over" \/ g \in pass'.todo)
           => last[g] = None /\ session[g] # "gone" /\ (session[g] # "over" \/ g \in pass.todo)
  PROVE  Bucket(g)'
<1>2. epoch' = epoch /\ list' = list /\ home' = home /\ held' = held
  BY DEF service
<1>3. \A e \in list[g].events \cup Shows(g).events : home[e.id] = g
  BY DEF ListInv, Ordered, Shows
<1>4. ASSUME NEW l \in {list[g], Shows(g)}, NEW at, Unspoilt(g, at, l), last'[g] # None
      PROVE  \A e \in l.events : NotRead(g, at, e)' => 
               /\ Untouched(e.id)'
               /\ \A i \in Event : home'[i] = g /\ ~Untouched(i)' => i < e.id
  <2> SUFFICES ASSUME NEW e \in l.events, NotRead(g, at, e)'
               PROVE  /\ Untouched(e.id)'
                      /\ \A i \in Event : home'[i] = g /\ ~Untouched(i)' => i < e.id
    OBVIOUS
  <2>1. last'[g] = last[g]
    BY <1>4
  <2>2. NotRead(g, at, e) /\ e.id \in Event
    BY <2>1, ListTypes DEF NotRead
  <2>3. Untouched(e.id) /\ \A i \in Event : home[i] = g /\ ~Untouched(i) => i < e.id
    BY <1>4, <2>1, <2>2 DEF Unspoilt
  <2> QED BY <1>2, <1>3, <2>2, <2>3
<1>5. list[g] \in List /\ Shows(g) \in List /\ Shows(g)' = Shows(g)
  BY <1>2 DEF TypeOK, ServiceType, HeldType, Shows
<1>6. g \notin haunted' => Unspoilt(g, epoch, list[g])'
  <2>1. g \notin haunted' => Unspoilt(g, epoch, list[g])
    BY DEF Bucket
  <2> QED BY <1>2, <1>4, <1>5, <2>1 DEF Unspoilt, NotRead
<1>7. g \notin haunted' => Unspoilt(g, held["events"].epoch, Shows(g))'
  <2>1. g \notin haunted' => Unspoilt(g, held["events"].epoch, Shows(g))
    BY DEF Bucket
  <2> QED BY <1>2, <1>4, <1>5, <2>1 DEF Unspoilt, NotRead
<1>8. g \notin haunted' => Unseen(g)'
  <2>1. g \notin haunted' => Unseen(g)
    BY DEF Bucket
  <2> QED BY <1>2, <1>3, <2>1 DEF Unseen
<1>9. last'[g] # None => last'[g].epoch <= held'["events"].epoch
  BY <1>2 DEF Bucket
<1> QED BY <1>6, <1>7, <1>8, <1>9 DEF Bucket

\* So do all that read nothing.
LEMMA BucketQuiet ==
  ASSUME TypeOK, ListInv, CoordinatorStep, ~ReadEvents, NEW g \in Game, Bucket(g),
         haunted \subseteq haunted', last'[g] \in {last[g], None},
         session'[g] = "starting" => g \notin pass'.todo /\ last'[g] = None,
         last'[g] = None /\ session'[g] # "gone" /\ (session'[g] # "over" \/ g \in pass'.todo)
           => last[g] = None /\ session[g] # "gone" /\ (session[g] # "over" \/ g \in pass.todo)
  PROVE  Bucket(g)'
<1>1. UNCHANGED <<service, held>>
  BY CoordinatorLeaves
<1>2. \A i \in Event : home[i] = g /\ Untouched(i) => Untouched(i)'
  BY QuietTouches
<1> QED BY <1>1, <1>2, BucketKept

\* The pass comes to a game: a bucket that is new stands below everything.
LEMMA BucketNext ==
  ASSUME TypeOK, ListInv, BucketInv, NEW h \in Game, NextGame(h)
  PROVE  BucketInv'
<1>0. /\ pass' = [at |-> "read", todo |-> pass.todo \ {h}, game |-> h] /\ h \in pass.todo
      /\ last' = [last EXCEPT ![h] = IF @ = None THEN [epoch |-> 0, seq |-> 0] ELSE @]
      /\ haunted' = IF session[h] = "gone" THEN haunted \cup {h} ELSE haunted
      /\ session' = session /\ held' = held /\ home' = home /\ list' = list /\ epoch' = epoch
      /\ UNCHANGED <<fate, starts, queue, chain, running>>
  BY DEF NextGame, service, loops
<1>1. CoordinatorStep /\ ~ReadEvents
  <2>1. pass.at = "next"
    BY DEF NextGame
  <2> QED BY <2>1 DEF CoordinatorStep, ReadEvents
<1>2. ASSUME NEW g \in Game, g # h PROVE Bucket(g)'
  <2>1. last'[g] = last[g] /\ session'[g] = session[g] /\ pass'.todo \subseteq pass.todo
    BY <1>0, <1>2 DEF TypeOK
  <2>2. Bucket(g) /\ haunted \subseteq haunted'
    BY <1>0, BucketParts
  <2>3. session'[g] = "starting" => g \notin pass'.todo /\ last'[g] = None
    BY <2>1, <2>2 DEF Bucket
  <2> QED BY <1>1, <2>1, <2>2, <2>3, BucketQuiet
<1>3. ASSUME last[h] # None \/ session[h] = "gone" PROVE Bucket(h)'
  <2>1. Bucket(h) /\ haunted \subseteq haunted'
    BY <1>0, BucketParts
  <2>2. last'[h] # None
    BY <1>0, EventsAssumption DEF TypeOK
  <2>3. session[h] # "starting" /\ session'[h] = session[h]
    BY <1>0, <2>1 DEF Bucket
  <2>4. CASE last[h] # None
    <3>1. last'[h] \in {last[h], None}
      BY <1>0, <2>4 DEF TypeOK
    <3>2. session'[h] = "starting" => h \notin pass'.todo /\ last'[h] = None
      BY <2>3
    <3>3. last'[h] = None /\ session'[h] # "gone" /\ (session'[h] # "over" \/ h \in pass'.todo)
           => last[h] = None /\ session[h] # "gone" /\ (session[h] # "over" \/ h \in pass.todo)
      BY <2>2
    <3> QED BY <1>1, <2>1, <3>1, <3>2, <3>3, BucketQuiet
  <2>5. CASE last[h] = None /\ session[h] = "gone"
    <3>1. last'[h] = [epoch |-> 0, seq |-> 0] /\ h \in haunted'
      BY <1>0, <2>5 DEF TypeOK
    <3>2. held'["events"].epoch \in Nat
      BY <1>0, StampsOfStreams DEF Stream
    <3>3. last'[h].epoch <= held'["events"].epoch
      BY <3>1, <3>2
    <3> QED BY <2>3, <3>1, <3>3 DEF Bucket
  <2> QED BY <1>3, <2>4, <2>5
<1>4. ASSUME last[h] = None /\ session[h] # "gone" PROVE Bucket(h)'
  <2>1. Bucket(h) /\ haunted' = haunted
    BY <1>0, <1>4, BucketParts
  <2>2. last'[h] = [epoch |-> 0, seq |-> 0] /\ last'[h] # None
    BY <1>0, <1>4, EventsAssumption DEF TypeOK
  <2>3. session[h] # "starting" /\ session'[h] = session[h]
    BY <1>0, <2>1 DEF Bucket
  <2>4. last'[h].epoch <= held'["events"].epoch
    <3>1. held'["events"].epoch \in Nat
      BY <1>0, StampsOfStreams DEF Stream
    <3> QED BY <2>2, <3>1
  <2>5. h \notin haunted => \A i \in Event : home[i] = h => Untouched(i)'
    <3>1. h \notin haunted => \A i \in Event : home[i] = h => Untouched(i)
      BY <1>0, <1>4, <2>1 DEF Bucket, Unseen
    <3> QED BY <1>0, <3>1, UntouchedKept
  <2>6. \A e \in list[h].events \cup Shows(h).events : e.id \in Event /\ home[e.id] = h
    BY ListTypes DEF ListInv, Ordered, Shows
  <2>7. h \notin haunted' => Unspoilt(h, epoch, list[h])'
    BY <1>0, <2>1, <2>5, <2>6 DEF Unspoilt
  <2>8. Shows(h)' = Shows(h)
    BY <1>0 DEF Shows
  <2>9. h \notin haunted' => Unspoilt(h, held["events"].epoch, Shows(h))'
    BY <1>0, <2>1, <2>5, <2>6, <2>8 DEF Unspoilt
  <2> QED BY <2>2, <2>3, <2>4, <2>7, <2>9 DEF Bucket, Unseen
<1> QED BY <1>2, <1>3, <1>4 DEF BucketInv, Bucket, Unseen, Shows

\* A pass begins: the live games keep their buckets.
LEMMA BucketBegins ==
  ASSUME TypeOK, ListInv, BucketInv, CoordinatorStep, ~ReadEvents, PassStarts,
         UNCHANGED <<session, haunted>>
  PROVE  BucketInv'
<1>1. ASSUME NEW g \in Game PROVE Bucket(g)'
  <2>1. Bucket(g)
    BY BucketParts
  <2>2. /\ g \in pass'.todo <=> session[g] = "live"
        /\ last'[g] = IF session[g] = "live" THEN last[g] ELSE None
    BY DEF PassStarts
  <2>3. session[g] = "starting" => last[g] = None
    BY <2>1 DEF Bucket
  <2>4. session'[g] = "starting" => g \notin pass'.todo /\ last'[g] = None
    BY <2>2
  <2>5. last'[g] = None /\ session'[g] # "gone" /\ (session'[g] # "over" \/ g \in pass'.todo)
           => last[g] = None /\ session[g] # "gone" /\ (session[g] # "over" \/ g \in pass.todo)
    <3>1. session[g] \in {"starting", "live", "over", "gone"}
      BY DEF TypeOK, LoopType
    <3> QED BY <2>2, <2>3, <3>1
  <2> QED BY <2>1, <2>2, <2>4, <2>5, BucketQuiet
<1> QED BY <1>1 DEF BucketInv, Bucket, Unseen, Shows

\* A finished event leaves the games of the pass alone.
LEMMA FinishedTodo ==
  ASSUME TypeOK, NEW f, Finished(f)
  PROVE  pass'.todo = pass.todo
BY DEF Finished, TypeOK, PassType

LEMMA BucketRests ==
  ASSUME TypeOK, ListInv, BucketInv, CoordinatorStep, ~ReadEvents
  PROVE  BucketInv'
<1>0. \A g \in Game : Bucket(g)
  BY BucketParts
<1>1. CASE pass'.todo = pass.todo /\ UNCHANGED <<last, haunted>>
           /\ \A g \in Game : \/ session'[g] = session[g]
                              \/ session[g] = "live" /\ session'[g] = "over"
                              \/ session[g] = "starting" /\ session'[g] = "live"
  <2>1. ASSUME NEW g \in Game PROVE Bucket(g)'
    <3>1. Bucket(g)
      BY <1>0
    <3>2. session'[g] = "starting" => g \notin pass'.todo /\ last'[g] = None
      BY <1>1, <3>1 DEF Bucket
    <3>3. last'[g] = None /\ session'[g] # "gone" /\ (session'[g] # "over" \/ g \in pass'.todo)
           => last[g] = None /\ session[g] # "gone" /\ (session[g] # "over" \/ g \in pass.todo)
      BY <1>1
    <3> QED BY <1>1, <3>1, <3>2, <3>3, BucketQuiet
  <2> QED BY <2>1 DEF BucketInv, Bucket, Unseen, Shows
<1>2. ASSUME NEW h \in Game, Built(h) \/ EffectTurn(h) \/ EffectEnds(h) \/ LoopStops(h)
      PROVE  BucketInv'
  <2>1. UNCHANGED <<last, haunted>>
    BY <1>2 DEF Built, EffectTurn, EffectEnds, LoopStops, evaluation
  <2>2. pass'.todo = pass.todo
    BY <1>2, FinishedTodo DEF Built, EffectTurn, EffectEnds, LoopStops, evaluation
  <2>3. session \in [Game -> {"starting", "live", "over", "gone"}]
    BY DEF TypeOK, LoopType
  <2>4. \A g \in Game : \/ session'[g] = session[g]
                        \/ session[g] = "live" /\ session'[g] = "over"
                        \/ session[g] = "starting" /\ session'[g] = "live"
    <3>1. CASE Built(h)
      BY <2>3, <3>1 DEF Built
    <3>2. CASE LoopStops(h)
      BY <2>3, <3>2 DEF LoopStops
    <3>3. CASE EffectTurn(h) \/ EffectEnds(h)
      BY <3>3 DEF EffectTurn, EffectEnds
    <3> QED BY <1>2, <3>1, <3>2, <3>3
  <2> QED BY <1>1, <2>1, <2>2, <2>4
<1>3. CASE Block \/ Dispatch \/ GiveUp \/ RecheckFires
  <2>1. UNCHANGED <<last, haunted, session>>
    BY <1>3 DEF Block, Dispatch, GiveUp, RecheckFires, evaluation, loops
  <2>2. pass'.todo = pass.todo
    BY <1>3, FinishedTodo DEF Block, Dispatch, GiveUp, RecheckFires, evaluation
  <2>3. \A g \in Game : session'[g] = session[g]
    BY <2>1
  <2> QED BY <1>1, <2>1, <2>2, <2>3
<1>4. ASSUME NEW h \in Game, Retire(h) PROVE BucketInv'
  <2>1. ASSUME NEW g \in Game PROVE Bucket(g)'
    <3>1. Bucket(g) /\ haunted' = haunted /\ pass' = pass
      BY <1>0, <1>4 DEF Retire
    <3>2. /\ session'[g] = IF g = h THEN "gone" ELSE session[g]
          /\ last'[g] = IF g = h THEN None ELSE last[g]
      BY <1>4 DEF Retire, TypeOK, LoopType
    <3>3. session'[g] = "starting" => g \notin pass'.todo /\ last'[g] = None
      BY <3>1, <3>2 DEF Bucket
    <3> QED BY <3>1, <3>2, <3>3, BucketQuiet
  <2> QED BY <2>1 DEF BucketInv, Bucket, Unseen, Shows
<1>5. CASE EvaluateAll
  <2>1. UNCHANGED <<session, haunted>>
    BY <1>5 DEF EvaluateAll, loops
  <2>2. CASE pass.at = "idle"
    BY <1>5, <2>1, <2>2, BucketBegins DEF EvaluateAll
  <2>3. CASE pass.at # "idle"
    <3>1. pass' = pass /\ last' = last /\ \A g \in Game : session'[g] = session[g]
      BY <1>5, <2>1, <2>3 DEF EvaluateAll
    <3> QED BY <1>1, <2>1, <3>1
  <2> QED BY <2>2, <2>3
<1>6. CASE PassOver
  <2>1. UNCHANGED <<session, haunted>>
    BY <1>6 DEF PassOver, loops
  <2>2. CASE Again
    BY <1>6, <2>1, <2>2, BucketBegins DEF PassOver
  <2>3. CASE ~Again
    <3>1. pass'.todo = pass.todo /\ last' = last /\ \A g \in Game : session'[g] = session[g]
      BY <1>6, <2>1, <2>3 DEF PassOver, Idle
    <3> QED BY <1>1, <2>1, <3>1
  <2> QED BY <2>2, <2>3
<1> QED BY <1>2, <1>3, <1>4, <1>5, <1>6, BucketNext DEF CoordinatorStep

\* The pass reads a list.  What comes to the list later was appended later.
LEMMA BucketReads ==
  ASSUME TypeOK, StreamInv, ListInv, BucketInv, ReadEvents
  PROVE  BucketInv'
<1> SUFFICES ASSUME NEW p \in Game, p = pass.game, NEW at, at = held["events"].epoch
             PROVE  BucketInv'
  BY DEF ReadEvents, TypeOK, PassType
<1> DEFINE reads == last[p] # None /\ Unread(p) /\ ~Lags
<1>0. /\ Bucket(p) /\ pass'.todo = pass.todo
      /\ UNCHANGED <<service, held, session, fate, starts, chain, running, haunted>>
  BY BucketParts DEF ReadEvents, loops, TypeOK, PassType
<1>1. /\ epoch' = epoch /\ list' = list /\ home' = home /\ held' = held /\ session' = session
      /\ haunted' = haunted
  BY <1>0 DEF service
<1>2. /\ reads => last' = [last EXCEPT ![p] = [epoch |-> at, seq |-> Shows(p).seq]]
      /\ ~reads => last' = last
      /\ queue' = IF reads THEN Fresh(p) ELSE {}
  BY DEF ReadEvents, Moves, Shows
<1>3. last \in [Game -> [epoch : 0..MaxBoots, seq : Nat] \cup {None}]
  BY DEF TypeOK
<1>4. \A e \in queue' : e \in Shows(p).events /\ home[e.id] = p
  BY <1>0, <1>2 DEF Fresh, Shows, ListInv, Ordered
<1>5. \A i \in Event : Untouched(i) /\ ~Queued(i)' => Untouched(i)'
  BY ReadTouches DEF CoordinatorStep
<1>6. \A i \in Event : home[i] # p => ~Queued(i)'
  BY <1>4 DEF Queued
<1>7. ASSUME NEW g \in Game, g # p \/ ~reads
      PROVE  Bucket(g)'
  <2>1. Bucket(g) /\ last'[g] \in {last[g], None}
    BY <1>0, <1>2, <1>3, <1>7, BucketParts
  <2>2. \A i \in Event : home[i] = g /\ Untouched(i) => Untouched(i)'
    BY <1>2, <1>5, <1>6, <1>7 DEF Queued
  <2>3. session'[g] = "starting" => g \notin pass'.todo /\ last'[g] = None
    BY <1>0, <1>1, <2>1 DEF Bucket
  <2>4. last'[g] = last[g]
    BY <1>2, <1>3, <1>7
  <2>5. last'[g] = None /\ session'[g] # "gone" /\ (session'[g] # "over" \/ g \in pass'.todo)
           => last[g] = None /\ session[g] # "gone" /\ (session[g] # "over" \/ g \in pass.todo)
    BY <1>0, <1>1, <2>4
  <2>6. haunted \subseteq haunted' /\ UNCHANGED <<service, held>>
    BY <1>0
  <2> HIDE DEF reads
  <2> QED BY <2>1, <2>2, <2>3, <2>5, <2>6, BucketKept
<1>8. ASSUME reads PROVE Bucket(p)'
  <2>1. last'[p] = [epoch |-> at, seq |-> Shows(p).seq] /\ last'[p] # None
    <3>1. last'[p] = [epoch |-> at, seq |-> Shows(p).seq]
      BY <1>2, <1>3, <1>8
    <3>2. at \in Nat /\ Shows(p).seq \in Nat
      BY StampsOfStreams, ListTypes DEF Stream
    <3>3. [epoch |-> at, seq |-> Shows(p).seq] \in [epoch : Nat, seq : Nat]
      BY <3>2
    <3> QED BY <3>1, <3>3, EventsAssumption
  <2>2. /\ at \in Nat /\ epoch \in Nat /\ at <= epoch
        /\ list[p].seq \in Nat /\ Shows(p).seq \in Nat
        /\ last[p].epoch \in Nat /\ last[p].seq \in Nat /\ last[p].epoch <= at
    BY <1>0, <1>3, <1>8, StampsOfStreams, ListTypes DEF Stream, StreamInv, Bucket
  <2>3. session[p] # "starting"
    BY <1>0, <1>8 DEF Bucket
  <2>4. ASSUME NEW e \in Shows(p).events, NotRead(p, at, e)'
        PROVE  FALSE
    <3>1. e.seq \in 1..Shows(p).seq /\ e.seq \in Nat
      BY <1>0, ListTypes DEF ListInv, Ordered, Shows
    <3>2. e.seq > Shows(p).seq
      BY <1>1, <2>1, <2>4 DEF NotRead
    <3> QED BY <3>1, <3>2, <2>2
  <2>5. ASSUME NEW e \in list[p].events, NotRead(p, epoch, e)', p \notin haunted
        PROVE  /\ Untouched(e.id)'
               /\ \A i \in Event : home[i] = p /\ ~Untouched(i)' => i < e.id
    <3>1. e.id \in Event /\ e.seq \in Nat /\ e.id \in Nat
      BY <1>0, ListTypes
    <3>2. at = epoch => e.seq > Shows(p).seq
      BY <1>1, <2>1, <2>5 DEF NotRead
    <3>3. at = epoch /\ last[p].epoch = at => Shows(p).seq > last[p].seq
      BY <1>8 DEF Unread, Shows
    <3>4. last[p].epoch = epoch => e.seq > last[p].seq
      BY <2>2, <3>1, <3>2, <3>3
    <3>5. /\ Untouched(e.id)
          /\ \A i \in Event : home[i] = p /\ ~Untouched(i) => i < e.id
      <4>1. Unspoilt(p, epoch, list[p])
        BY <1>0, <2>5 DEF Bucket
      <4>2. last[p] # None
        BY <1>8
      <4> QED BY <3>4, <4>1, <4>2 DEF Unspoilt, NotRead
    <3>6. \A f \in Shows(p).events : f.id < e.id
      <4> SUFFICES ASSUME NEW f \in Shows(p).events, ~(f.id < e.id) PROVE FALSE
        OBVIOUS
      <4>1. f.id \in Nat /\ f.seq \in Nat /\ f.seq \in 1..Shows(p).seq
        BY <1>0, ListTypes DEF ListInv, Ordered, Shows
      <4>2. e.id <= f.id
        BY <3>1, <4>1
      <4>3. at = epoch /\ (e.id = f.id => e = f) /\ (e.id < f.id => e.seq < f.seq)
        BY <1>0, <4>2 DEF ListInv, Ahead, Shows
      <4>4. e.seq <= f.seq
        BY <3>1, <4>1, <4>2, <4>3
      <4> QED BY <2>2, <3>1, <3>2, <4>1, <4>3, <4>4
    <3>7. \A f \in queue' : f.id < e.id /\ f.id \in Nat
      BY <1>0, <1>4, <3>6, ListTypes
    <3>8. Untouched(e.id)'
      BY <1>5, <3>1, <3>5, <3>7 DEF Queued
    <3>9. ASSUME NEW i \in Event, home[i] = p, ~Untouched(i)'
          PROVE  i < e.id
      BY <1>5, <3>5, <3>7, <3>9 DEF Queued
    <3> QED BY <3>8, <3>9
  <2>6. p \notin haunted => Unspoilt(p, epoch, list[p])'
    BY <1>1, <2>5 DEF Unspoilt
  <2>7. Unspoilt(p, held["events"].epoch, Shows(p))'
    BY <1>1, <2>4 DEF Unspoilt, Shows
  <2>8. last'[p].epoch <= held'["events"].epoch
    BY <1>1, <2>1, <2>2
  <2> QED BY <1>1, <2>1, <2>3, <2>6, <2>7, <2>8 DEF Bucket, Unseen
<1>9. \A g \in Game : Bucket(g)'
  <2>1. ASSUME NEW g \in Game PROVE Bucket(g)'
    <3>1. CASE g # p \/ ~reads
      BY <1>7, <3>1
    <3>2. ASSUME g = p, reads PROVE Bucket(g)'
      BY <1>8, <3>2
    <3> QED BY <3>1, <3>2
  <2> QED BY <2>1
<1> QED BY <1>9 DEF BucketInv, Bucket, Unseen, Shows

\* What a game gets is new and comes behind all it had.
LEMMA BucketAppend ==
  ASSUME TypeOK, ListInv, NewInv, BucketInv, NEW g \in Game, NEW i \in Event,
         AppendEvent(g, i)
  PROVE  BucketInv'
<1>0. /\ home[i] = None /\ \A j \in Event : j < i => home[j] # None
      /\ home' = [home EXCEPT ![i] = g] /\ epoch' = epoch
      /\ UNCHANGED <<held, loops, evaluation>>
  BY DEF AppendEvent
<1>1. /\ UNCHANGED <<last, session, pass, haunted, held>>
      /\ UNCHANGED <<fate, starts, queue, chain, running>>
  BY <1>0 DEF loops, evaluation
<1>2. /\ \A e \in list'[g].events : e \in list[g].events \/ e.id = i
      /\ \A h \in Game : h # g => list'[h] = list[h]
  BY DEF AppendEvent, TypeOK, ServiceType, List, KeepLast
<1>3. home'[i] = g /\ \A j \in Event : j # i => home'[j] = home[j]
  BY <1>0, ListTypes
<1>4. \A j \in Event : Untouched(j)' <=> Untouched(j)
  BY <1>1, UntouchedKept
<1>5. \A j \in Event : ~Untouched(j) => j # i /\ home'[j] = home[j] /\ j < i
  <2> SUFFICES ASSUME NEW j \in Event, ~Untouched(j)
               PROVE  j # i /\ home'[j] = home[j] /\ j < i
    OBVIOUS
  <2>1. home[j] # None
    BY DEF NewInv
  <2>2. j # i /\ ~(i < j)
    BY <1>0, <2>1 DEF ListInv
  <2>3. j < i
    BY <2>2, EventsAssumption DEF Event
  <2> QED BY <1>3, <2>2, <2>3
<1>6. Untouched(i)
  BY <1>0 DEF NewInv
<1>7. ASSUME NEW h \in Game, NEW at, NEW l \in List, NEW m, Unspoilt(h, at, l),
             \A e \in m.events : e \in l.events \/ e.id = i,
             last[h] # None, NEW e \in m.events, NotRead(h, at, e)
      PROVE  /\ Untouched(e.id)'
             /\ \A j \in Event : home'[j] = h /\ ~Untouched(j)' => j < e.id
  <2>1. CASE e \in l.events
    <3>1. /\ Untouched(e.id) /\ e.id \in Event
          /\ \A j \in Event : home[j] = h /\ ~Untouched(j) => j < e.id
      BY <1>7, <2>1 DEF Unspoilt, List, Entry
    <3> QED BY <1>4, <1>5, <3>1
  <2>2. CASE e.id = i
    BY <1>4, <1>5, <1>6, <2>2
  <2> QED BY <1>7, <2>1, <2>2
<1>8. ASSUME NEW h \in Game PROVE Bucket(h)'
  <2>1. Bucket(h) /\ list[h] \in List /\ Shows(h) \in List /\ Shows(h)' = Shows(h)
    BY <1>1, BucketParts DEF TypeOK, ServiceType, HeldType, Shows
  <2>2. h \notin haunted => Unspoilt(h, epoch, list[h])'
    <3>1. h \notin haunted => Unspoilt(h, epoch, list[h])
      BY <2>1 DEF Bucket
    <3>2. \A e \in list'[h].events : e \in list[h].events \/ e.id = i
      BY <1>2
    <3> QED BY <1>0, <1>1, <1>7, <2>1, <3>1, <3>2 DEF Unspoilt, NotRead
  <2>3. h \notin haunted => Unspoilt(h, held["events"].epoch, Shows(h))'
    <3>1. h \notin haunted => Unspoilt(h, held["events"].epoch, Shows(h))
      BY <2>1 DEF Bucket
    <3>2. ASSUME h \notin haunted, last[h] # None, NEW e \in Shows(h).events,
                 NotRead(h, held["events"].epoch, e)
          PROVE  /\ Untouched(e.id)'
                 /\ \A j \in Event : home'[j] = h /\ ~Untouched(j)' => j < e.id
      BY <1>7, <2>1, <3>1, <3>2
    <3> QED BY <1>1, <2>1, <3>2 DEF Unspoilt, NotRead
  <2>4. h \notin haunted => Unseen(h)'
    <3>1. h \notin haunted => Unseen(h)
      BY <2>1 DEF Bucket
    <3>2. \A j \in Event : home'[j] = h /\ ~Untouched(j) => home[j] = h
      BY <1>5
    <3> QED BY <1>1, <1>4, <3>1, <3>2 DEF Unseen
  <2> QED BY <1>1, <2>1, <2>2, <2>3, <2>4 DEF Bucket
<1> QED BY <1>8 DEF BucketInv, Bucket, Unseen, Shows

\* What the service does else leaves fewer events.
LEMMA BucketShrinks ==
  ASSUME TypeOK, BucketInv, UNCHANGED <<held, home, loops, evaluation>>,
         \A g \in Game : \/ list'[g] = list[g] /\ epoch' = epoch
                         \/ list'[g].events = {}
  PROVE  BucketInv'
<1>1. /\ UNCHANGED <<last, session, pass, haunted, held, home>>
      /\ \A i \in Event : Untouched(i)' <=> Untouched(i)
  BY UntouchedKept DEF loops, evaluation
<1>2. ASSUME NEW g \in Game PROVE Bucket(g)'
  <2>1. Bucket(g) /\ Shows(g)' = Shows(g)
    BY <1>1, BucketParts DEF Shows
  <2>2. \A e \in list[g].events \cup Shows(g).events : e.id \in Event
    BY ListTypes
  <2>3. Unspoilt(g, epoch, list[g]) => Unspoilt(g, epoch, list[g])'
    <3>1. CASE list'[g] = list[g] /\ epoch' = epoch
      BY <1>1, <2>2, <3>1 DEF Unspoilt, NotRead
    <3>2. CASE list'[g].events = {}
      BY <3>2 DEF Unspoilt
    <3> QED BY <3>1, <3>2
  <2>4. Unspoilt(g, held["events"].epoch, Shows(g))
          => Unspoilt(g, held["events"].epoch, Shows(g))'
    BY <1>1, <2>1, <2>2 DEF Unspoilt, NotRead
  <2>5. Unseen(g) => Unseen(g)'
    BY <1>1 DEF Unseen
  <2> QED BY <1>1, <2>1, <2>3, <2>4, <2>5 DEF Bucket
<1> QED BY <1>2 DEF BucketInv, Bucket, Unseen, Shows

\* A stream shows the lists as they are.
LEMMA BucketDeliver ==
  ASSUME TypeOK, StreamInv, BucketInv, NEW s \in Stream, Deliver(s)
  PROVE  BucketInv'
<1>1. /\ UNCHANGED <<epoch, list, home, last, session, pass, haunted>>
      /\ \A i \in Event : Untouched(i)' <=> Untouched(i)
  BY UntouchedKept DEF Deliver, service, loops, evaluation
<1>2. /\ held'[s] = Snapshot(s) /\ \A t \in Stream : t # s => held'[t] = held[t]
      /\ "events" \in Stream
  BY DEF Deliver, TypeOK, HeldType, Stream
<1>3. \A g \in Game : \A e \in list[g].events \cup Shows(g).events : e.id \in Event
  BY ListTypes
<1>4. ASSUME NEW g \in Game PROVE Bucket(g)'
  <2>1. Bucket(g)
    BY BucketParts
  <2>2. Unspoilt(g, epoch, list[g]) => Unspoilt(g, epoch, list[g])'
    BY <1>1, <1>3 DEF Unspoilt, NotRead
  <2>3. Unseen(g) => Unseen(g)'
    BY <1>1 DEF Unseen
  <2>4. CASE s = "events"
    <3>1. held'["events"].epoch = epoch /\ Shows(g)' = list[g]
      BY <1>2, <2>4 DEF Snapshot, Shows
    <3>2. last[g] # None => last[g].epoch <= epoch
      <4>1. held["events"].epoch <= epoch
        BY <1>2 DEF StreamInv
      <4>2. last[g] # None => last[g].epoch \in Nat /\ last[g].epoch <= held["events"].epoch
        BY <2>1 DEF Bucket, TypeOK
      <4> QED BY <1>2, <4>1, <4>2, StampsOfStreams
    <3>3. Unspoilt(g, epoch, list[g]) => Unspoilt(g, held["events"].epoch, Shows(g))'
      BY <1>1, <1>3, <3>1 DEF Unspoilt, NotRead
    <3> QED BY <1>1, <2>1, <2>2, <2>3, <3>1, <3>2, <3>3 DEF Bucket
  <2>5. CASE s # "events"
    <3>1. held'["events"] = held["events"] /\ Shows(g)' = Shows(g)
      BY <1>2, <2>5 DEF Shows
    <3>2. Unspoilt(g, held["events"].epoch, Shows(g))
            => Unspoilt(g, held["events"].epoch, Shows(g))'
      BY <1>1, <1>3, <3>1 DEF Unspoilt, NotRead
    <3> QED BY <1>1, <2>1, <2>2, <2>3, <3>1, <3>2 DEF Bucket
  <2> QED BY <2>4, <2>5
<1> QED BY <1>4 DEF BucketInv, Bucket, Unseen, Shows

LEMMA BucketStep ==
  ASSUME TypeOK, StreamInv, ListInv, NewInv, BucketInv, [Next]_vars
  PROVE  BucketInv'
<1>0. list \in [Game -> List]
  BY DEF TypeOK, ServiceType
<1>1. ASSUME NEW g \in Game, ClearList(g) PROVE BucketInv'
  BY <1>0, <1>1, BucketShrinks DEF ClearList, Cleared
<1>2. ASSUME NEW g \in Game, DropScope(g) PROVE BucketInv'
  BY <1>0, <1>2, BucketShrinks DEF DropScope, Empty
<1>3. CASE SetAllowed
  BY <1>3, BucketShrinks DEF SetAllowed
<1>4. CASE RestartService
  BY <1>4, BucketShrinks DEF RestartService, Empty
<1>5. CASE UNCHANGED vars
  <2>1. /\ UNCHANGED <<held, home, loops, evaluation>>
        /\ \A g \in Game : list'[g] = list[g] /\ epoch' = epoch
    BY <1>5 DEF vars, service
  <2> QED BY <2>1, BucketShrinks
<1>6. CASE CoordinatorStep
  BY <1>6, BucketReads, BucketRests
<1> QED BY <1>1, <1>2, <1>3, <1>4, <1>5, <1>6, BucketAppend, BucketDeliver, Steps DEF ServiceStep

-----------------------------------------------------------------------------
(* The pass and the loops: what is recorded is what happened *)

\* The parts of QueueInv and LoopInv, each of one game
Fore(g) ==
  \A e \in queue :
    /\ home[e.id] = g
    /\ \A f \in queue : (e.seq < f.seq <=> e.id < f.id)
    /\ g \notin haunted =>
         /\ fate[e.id] = "none"
         /\ \A i \in Event : home[i] = g /\ starts[i] > 0 => i <= e.id
         /\ e # First(queue) \/ effect # "started" => starts[e.id] = 0
         /\ e # First(queue) \/ effect # "started" => running[g] # e.id
         /\ \A k \in DOMAIN chain[g] :
              chain[g][k].id = e.id => e = First(queue) /\ effect = "queued"

Awaited(g) ==
  /\ effect = "queued" =>
       /\ chain[g] # <<>>
       /\ chain[g][Len(chain[g])] = [id |-> First(queue).id, skip |-> FALSE]
  /\ effect = "started" => running[g] = First(queue).id /\ chain[g] = <<>>

LEMMA QueueParts ==
  QueueInv <=> pass.todo \cap {pass.game} = {} /\ Fore(pass.game) /\ Awaited(pass.game)
BY DEF QueueInv, Fore, Awaited

Rests(g) == ~loop[g] => chain[g] = <<>> /\ running[g] = None

Waiting(g) ==
  \A k \in DOMAIN chain[g] :
    /\ home[chain[g][k].id] = g
    /\ IF chain[g][k].skip
         THEN g \notin haunted => fate[chain[g][k].id] = "blocked"
         ELSE k = Len(chain[g]) /\ pass.game = g /\ effect = "queued"

Playing(g) ==
  running[g] # None =>
    /\ home[running[g]] = g
    /\ g \notin haunted => starts[running[g]] = 1

Recorded(g) ==
  g \notin haunted => \A i \in Event : home[i] = g =>
    /\ starts[i] <= 1
    /\ fate[i] = "blocked" => starts[i] = 0
    /\ fate[i] \in Ran => starts[i] = 1
    /\ starts[i] = 1 =>
         \/ fate[i] \in Ran
         \/ pass.game = g /\ effect = "started" /\ First(queue).id = i

LEMMA LoopParts ==
  LoopInv <=> \A g \in Game : Rests(g) /\ Waiting(g) /\ Playing(g) /\ Recorded(g)
BY DEF LoopInv, Rests, Waiting, Playing, Recorded

LEMMA LoopTypes ==
  ASSUME TypeOK, NEW g \in Game
  PROVE  /\ chain[g] \in Seq([id : Event, skip : BOOLEAN])
         /\ Len(chain[g]) \in Nat /\ DOMAIN chain[g] = 1..Len(chain[g])
         /\ \A k \in DOMAIN chain[g] : chain[g][k] \in [id : Event, skip : BOOLEAN]
         /\ running[g] \in Event \cup {None} /\ None \notin Event
<1>1. chain[g] \in Seq([id : Event, skip : BOOLEAN])
  BY DEF TypeOK, LoopType
<1>2. None \notin Event
  BY EventsAssumption DEF Event
<1>3. Len(chain[g]) \in Nat /\ DOMAIN chain[g] = 1..Len(chain[g])
  BY <1>1, LenProperties
<1>4. \A k \in DOMAIN chain[g] : chain[g][k] \in [id : Event, skip : BOOLEAN]
  BY <1>1, <1>3, ElementOfSeq
<1>5. running[g] \in Event \cup {None}
  BY DEF TypeOK, LoopType
<1> QED BY <1>1, <1>2, <1>3, <1>4, <1>5

\* The first event of a pass has the lowest id.
LEMMA QueueOrder ==
  ASSUME TypeOK, QueueInv, pass.at = "events"
  PROVE  /\ First(queue) \in queue /\ First(queue).id \in Event /\ pass.game \in Game
         /\ home[First(queue).id] = pass.game
         /\ \A e \in queue : /\ e.id \in Event
                             /\ e # First(queue) => First(queue).id < e.id
                             /\ e.id = First(queue).id => e = First(queue)
<1>1. First(queue) \in queue /\ First(queue).id \in Event /\ pass.game \in Game
  BY FirstType DEF TypeOK
<1>2. queue \in SUBSET Entry /\ queue # {}
  BY <1>1, ListTypes
<1>3. \A e \in queue : First(queue).seq <= e.seq
  BY <1>2, FirstIn
<1>4. ASSUME NEW e \in queue
      PROVE  /\ e.id \in Event
             /\ e # First(queue) => First(queue).id < e.id
             /\ e.id = First(queue).id => e = First(queue)
  <2> DEFINE F == First(queue)
  <2>1. e \in Entry /\ F \in Entry
    BY <1>1, <1>2
  <2>2. /\ F.seq < e.seq <=> F.id < e.id
        /\ e.seq < F.seq <=> e.id < F.id
    BY <1>1 DEF QueueInv
  <2>3. /\ e.seq \in Nat /\ F.seq \in Nat /\ e.id \in Nat /\ F.id \in Nat /\ e.id \in Event
        /\ F.seq <= e.seq
    BY <1>3, <2>1, ListTypes
  <2>4. e.seq = F.seq /\ e.id = F.id => e = F
    BY <2>1 DEF Entry
  <2> HIDE DEF F
  <2>5. F.id < e.id \/ (e.seq = F.seq /\ e.id = F.id)
    BY <2>2, <2>3
  <2>6. e # F => F.id < e.id
    BY <2>4, <2>5
  <2>7. e.id = F.id => e = F
    BY <2>3, <2>4, <2>5
  <2> QED BY <2>3, <2>6, <2>7 DEF F
<1>5. home[First(queue).id] = pass.game
  BY <1>1 DEF QueueInv
<1> QED BY <1>1, <1>4, <1>5

\* The first event of the pass gets its fate: applied or refused where it started, and
\* where it did not, blocked, with nothing left on the chain that may start.
LEMMA FinishKeeps ==
  ASSUME TypeOK, QueueInv, LoopInv, pass.at = "events",
         NEW g \in Game, g = pass.game, NEW F, F = First(queue),
         NEW f, f \in (IF effect = "started" THEN Ran ELSE {"blocked"}), Finished(f),
         UNCHANGED <<starts, home, haunted>>,
         \A h \in Game : Rests(h)',
         \A h \in Game : running'[h] \in {running[h], None},
         \A h \in Game : h # g => chain'[h] = chain[h],
         \A k \in DOMAIN chain'[g] :
           /\ k \in DOMAIN chain[g] /\ chain'[g][k].id = chain[g][k].id
           /\ chain'[g][k].skip
           /\ chain[g][k].skip \/ (effect # "started" /\ chain[g][k].id = F.id)
  PROVE  QueueInv' /\ LoopInv'
<1>1. /\ F \in queue /\ F.id \in Event /\ home[F.id] = g
      /\ \A e \in queue : /\ e.id \in Event
                          /\ e # F => F.id < e.id
                          /\ e.id = F.id => e = F
  BY QueueOrder
<1>2. /\ fate' = [fate EXCEPT ![F.id] = f] /\ queue' = queue \ {F} /\ effect' = "none"
      /\ pass' = IF queue' = {} THEN [pass EXCEPT !.at = "next", !.game = None] ELSE pass
  BY DEF Finished
<1>3. fate'[F.id] = f /\ \A i \in Event : i # F.id => fate'[i] = fate[i]
  BY <1>1, <1>2 DEF TypeOK, PassType
<1>4. /\ Fore(g) /\ Awaited(g) /\ g \notin pass.todo
      /\ \A h \in Game : Rests(h) /\ Waiting(h) /\ Playing(h) /\ Recorded(h)
  BY QueueParts, LoopParts
<1>5. pass'.todo = pass.todo /\ (queue' # {} => pass'.game = g) /\ (queue' = {} => pass'.game = None)
  BY <1>2 DEF TypeOK, PassType
<1>6. pass'.todo \cap {pass'.game} = {}
  BY <1>4, <1>5, EventsAssumption DEF TypeOK, PassType
<1>7. ASSUME NEW e \in queue'
      PROVE  /\ home'[e.id] = g
             /\ \A d \in queue' : (e.seq < d.seq <=> e.id < d.id)
             /\ g \notin haunted' =>
                  /\ fate'[e.id] = "none"
                  /\ \A i \in Event : home'[i] = g /\ starts'[i] > 0 => i <= e.id
                  /\ starts'[e.id] = 0
                  /\ running'[g] # e.id
                  /\ \A k \in DOMAIN chain'[g] : chain'[g][k].id # e.id
  <2>1. e \in queue /\ e # F /\ e.id # F.id /\ e.id \in Event
    BY <1>1, <1>2
  <2>2. /\ home[e.id] = g
        /\ \A d \in queue : (e.seq < d.seq <=> e.id < d.id)
    BY <1>4, <2>1 DEF Fore
  <2>3. g \notin haunted =>
          /\ fate[e.id] = "none"
          /\ \A i \in Event : home[i] = g /\ starts[i] > 0 => i <= e.id
          /\ starts[e.id] = 0
          /\ running[g] # e.id
          /\ \A k \in DOMAIN chain[g] : chain[g][k].id # e.id
    BY <1>4, <2>1 DEF Fore
  <2>4. running'[g] = e.id => running[g] = e.id
    BY <2>1, LoopTypes
  <2> QED BY <1>2, <1>3, <2>1, <2>2, <2>3, <2>4
<1>8. QueueInv'
  BY <1>2, <1>5, <1>6, <1>7 DEF QueueInv
<1>9. ASSUME NEW h \in Game PROVE Waiting(h)'
  <2> SUFFICES ASSUME NEW k \in DOMAIN chain'[h]
               PROVE  /\ home'[chain'[h][k].id] = h
                      /\ chain'[h][k].skip
                      /\ h \notin haunted' => fate'[chain'[h][k].id] = "blocked"
    BY DEF Waiting
  <2>1. CASE h = g
    <3>1. /\ k \in DOMAIN chain[g] /\ chain'[g][k].id = chain[g][k].id /\ chain'[g][k].skip
          /\ chain[g][k].skip \/ (effect # "started" /\ chain[g][k].id = F.id)
      BY <2>1
    <3>2. chain[g][k].id \in Event
      BY <3>1, LoopTypes
    <3>3. home[chain[g][k].id] = g
      BY <1>4, <3>1 DEF Waiting
    <3>4. g \notin haunted => fate[F.id] = "none"
      BY <1>1, <1>4 DEF Fore
    <3>5. g \notin haunted => fate'[chain[g][k].id] = "blocked"
      <4>1. CASE chain[g][k].skip
        <5>1. g \notin haunted => fate[chain[g][k].id] = "blocked"
          BY <1>4, <3>1, <4>1 DEF Waiting
        <5> QED BY <1>3, <3>2, <3>4, <5>1
      <4>2. CASE effect # "started" /\ chain[g][k].id = F.id
        BY <1>3, <4>2
      <4> QED BY <3>1, <4>1, <4>2
    <3> QED BY <2>1, <3>1, <3>3, <3>5
  <2>2. CASE h # g
    <3>1. chain'[h] = chain[h] /\ k \in DOMAIN chain[h]
      BY <2>2
    <3>2. home[chain[h][k].id] = h /\ chain[h][k].id \in Event
      BY <1>4, <3>1, LoopTypes DEF Waiting
    <3>3. chain[h][k].skip /\ (h \notin haunted => fate[chain[h][k].id] = "blocked")
      BY <1>4, <2>2, <3>1 DEF Waiting
    <3> QED BY <1>1, <1>3, <2>2, <3>1, <3>2, <3>3
  <2> QED BY <2>1, <2>2
<1>10. ASSUME NEW h \in Game PROVE Playing(h)'
  BY <1>4 DEF Playing
<1>11. ASSUME NEW h \in Game PROVE Recorded(h)'
  <2> SUFFICES ASSUME NEW i \in Event, home[i] = h, h \notin haunted
               PROVE  /\ starts[i] <= 1
                      /\ fate'[i] = "blocked" => starts[i] = 0
                      /\ fate'[i] \in Ran => starts[i] = 1
                      /\ starts[i] = 1 => fate'[i] \in Ran
    BY DEF Recorded
  <2>1. /\ starts[i] <= 1
        /\ fate[i] = "blocked" => starts[i] = 0
        /\ fate[i] \in Ran => starts[i] = 1
        /\ starts[i] = 1 => \/ fate[i] \in Ran
                            \/ pass.game = h /\ effect = "started" /\ F.id = i
    BY <1>4 DEF Recorded
  <2>2. CASE i # F.id
    BY <1>3, <2>1, <2>2
  <2>0. "blocked" \notin Ran
    BY DEF Ran
  <2>3. CASE i = F.id /\ effect = "started"
    <3>1. running[g] = F.id /\ h = g
      BY <1>1, <1>4, <2>3 DEF Awaited
    <3>2. starts[i] = 1
      BY <1>1, <1>4, <2>3, <3>1, LoopTypes DEF Playing
    <3> QED BY <1>3, <2>0, <2>3, <3>2
  <2>4. CASE i = F.id /\ effect # "started"
    <3>1. h = g /\ starts[i] = 0
      BY <1>1, <1>4, <2>4 DEF Fore
    <3> QED BY <1>3, <2>0, <2>4, <3>1
  <2> QED BY <2>2, <2>3, <2>4
<1>12. LoopInv'
  BY <1>9, <1>10, <1>11 DEF LoopInv, Rests, Waiting, Playing, Recorded
<1> QED BY <1>8, <1>12

\* What leaves the pass where it is and starts nothing
LEMMA LoopsKeep ==
  ASSUME TypeOK, QueueInv, LoopInv,
         UNCHANGED <<pass, queue, effect, fate, starts, home>>, haunted \subseteq haunted',
         \A h \in Game : Rests(h)',
         \A h \in Game : /\ running'[h] \in {running[h], None}
                         /\ chain'[h] \in {chain[h], <<>>},
         \A h \in Game : h = pass.game /\ effect = "queued" => chain'[h] = chain[h],
         \A h \in Game : h = pass.game /\ effect = "started" => running'[h] = running[h]
  PROVE  QueueInv' /\ LoopInv'
<1>1. /\ Fore(pass.game) /\ Awaited(pass.game) /\ pass.todo \cap {pass.game} = {}
      /\ \A h \in Game : Rests(h) /\ Waiting(h) /\ Playing(h) /\ Recorded(h)
  BY QueueParts, LoopParts
<1>2. effect # "none" \/ queue # {} => pass.game \in Game
  BY DEF TypeOK, PassType
<1>3. \A h \in Game : \A k \in DOMAIN chain'[h] :
        k \in DOMAIN chain[h] /\ chain'[h] = chain[h]
  BY EmptySeq
<1>4. ASSUME NEW e \in queue, pass.game \notin haunted'
      PROVE  /\ effect = "started" => running'[pass.game] = running[pass.game]
             /\ running'[pass.game] = e.id => running[pass.game] = e.id
             /\ \A k \in DOMAIN chain'[pass.game] :
                  chain'[pass.game][k].id = e.id => e = First(queue) /\ effect = "queued"
  <2>1. pass.game \in Game /\ e.id \in Event
    BY <1>2, ListTypes
  <2>2. running'[pass.game] = e.id => running[pass.game] = e.id
    BY <2>1, LoopTypes
  <2>3. \A k \in DOMAIN chain'[pass.game] :
          chain'[pass.game][k].id = e.id => e = First(queue) /\ effect = "queued"
    BY <1>1, <1>3, <1>4, <2>1 DEF Fore
  <2> QED BY <2>1, <2>2, <2>3
<1>5. Fore(pass.game)'
  BY <1>1, <1>4 DEF Fore
<1>6. Awaited(pass.game)'
  <2>1. effect = "queued" => chain'[pass.game] = chain[pass.game]
    BY <1>2
  <2>2. effect = "started" => /\ running'[pass.game] = running[pass.game]
                              /\ chain'[pass.game] = <<>>
    BY <1>1, <1>2 DEF Awaited
  <2> QED BY <1>1, <2>1, <2>2 DEF Awaited
<1>7. QueueInv'
  BY <1>1, <1>5, <1>6 DEF QueueInv, Fore, Awaited
<1>8. ASSUME NEW h \in Game PROVE Waiting(h)' /\ Playing(h)' /\ Recorded(h)'
  <2>1. Waiting(h)'
    BY <1>1, <1>3 DEF Waiting
  <2>2. Playing(h)'
    BY <1>1 DEF Playing
  <2>3. Recorded(h)'
    BY <1>1 DEF Recorded
  <2> QED BY <2>1, <2>2, <2>3
<1> QED BY <1>7, <1>8 DEF LoopInv, Rests, Waiting, Playing, Recorded

\* What moves a pass that has no events in hand
LEMMA PassKeeps ==
  ASSUME TypeOK, LoopInv, queue = {}, effect = "none", queue' = {}, effect' = "none",
         UNCHANGED <<fate, starts, home, loop, chain, running>>, haunted \subseteq haunted',
         pass'.game \notin pass'.todo
  PROVE  QueueInv' /\ LoopInv'
<1>1. QueueInv'
  BY DEF QueueInv
<1>2. \A h \in Game : Rests(h) /\ Waiting(h) /\ Playing(h) /\ Recorded(h)
  BY LoopParts
<1>3. ASSUME NEW h \in Game PROVE Rests(h)' /\ Waiting(h)' /\ Playing(h)' /\ Recorded(h)'
  BY <1>2 DEF Rests, Waiting, Playing, Recorded
<1> QED BY <1>1, <1>3 DEF LoopInv, Rests, Waiting, Playing, Recorded

LEMMA LoopStopsKeep ==
  ASSUME TypeOK, QueueInv, LoopInv, NEW g \in Game, LoopStops(g)
  PROVE  QueueInv' /\ LoopInv'
<1>1. /\ loop' = [loop EXCEPT ![g] = FALSE] /\ chain' = [chain EXCEPT ![g] = <<>>]
      /\ running' = [running EXCEPT ![g] = None]
      /\ UNCHANGED <<starts, home, haunted>>
  BY DEF LoopStops, service
<1>2. ASSUME NEW h \in Game
      PROVE  /\ h = g => chain'[h] = <<>> /\ running'[h] = None
             /\ h # g => loop'[h] = loop[h] /\ chain'[h] = chain[h] /\ running'[h] = running[h]
  BY <1>1 DEF TypeOK, LoopType
<1>3. ASSUME NEW h \in Game PROVE Rests(h)'
  BY <1>2, LoopParts DEF Rests
<1>4. CASE Awaits(g)
  <2>1. pass.at = "events" /\ g = pass.game
    BY <1>4 DEF Awaits, TypeOK, PassType
  <2>2. PICK f \in (IF effect = "started" THEN Ran ELSE {"blocked"}) : Finished(f)
    BY <1>4 DEF LoopStops, Ran
  <2>3. \A k \in DOMAIN chain'[g] : FALSE
    BY <1>2, EmptySeq
  <2> QED BY <1>1, <1>2, <1>3, <2>1, <2>2, <2>3, FinishKeeps
<1>5. CASE ~Awaits(g)
  <2>1. UNCHANGED <<pass, queue, effect, fate, starts, home>> /\ haunted \subseteq haunted'
    BY <1>1, <1>5 DEF LoopStops
  <2>2. g = pass.game => effect = "none"
    BY <1>5 DEF Awaits
  <2> QED BY <1>2, <1>3, <2>1, <2>2, LoopsKeep
<1> QED BY <1>4, <1>5

LEMMA EffectEndsKeep ==
  ASSUME TypeOK, QueueInv, LoopInv, NEW g \in Game, EffectEnds(g)
  PROVE  QueueInv' /\ LoopInv'
<1>1. /\ running' = [running EXCEPT ![g] = None]
      /\ UNCHANGED <<loop, chain, starts, home, haunted>>
  BY DEF EffectEnds, service
<1>2. \A h \in Game : /\ running'[h] = IF h = g THEN None ELSE running[h]
                      /\ chain'[h] = chain[h] /\ loop'[h] = loop[h]
  BY <1>1 DEF TypeOK, LoopType
<1>3. ASSUME NEW h \in Game PROVE Rests(h)'
  BY <1>2, LoopParts DEF Rests
<1>4. CASE Awaits(g) /\ effect = "started"
  <2>1. pass.at = "events" /\ g = pass.game
    BY <1>4 DEF Awaits, TypeOK, PassType
  <2>2. PICK f \in (IF effect = "started" THEN Ran ELSE {"blocked"}) : Finished(f)
    BY <1>4 DEF EffectEnds, Ran
  <2>3. \A k \in DOMAIN chain'[g] : FALSE
    BY <1>2, <1>4, <2>1, EmptySeq, QueueParts DEF Awaited
  <2>4. \A h \in Game : running'[h] \in {running[h], None} /\ (h # g => chain'[h] = chain[h])
    BY <1>2
  <2> QED BY <1>1, <1>3, <1>4, <2>1, <2>2, <2>3, <2>4, FinishKeeps
<1>5. CASE ~(Awaits(g) /\ effect = "started")
  <2>1. UNCHANGED <<pass, queue, effect, fate, starts, home>> /\ haunted \subseteq haunted'
    BY <1>1, <1>5 DEF EffectEnds
  <2>2. g = pass.game => effect # "started"
    BY <1>5 DEF Awaits
  <2>3. \A h \in Game : /\ running'[h] \in {running[h], None}
                        /\ chain'[h] \in {chain[h], <<>>}
    BY <1>2
  <2> QED BY <1>2, <1>3, <2>1, <2>2, <2>3, LoopsKeep
<1> QED BY <1>4, <1>5

LEMMA GiveUpKeeps ==
  ASSUME TypeOK, QueueInv, LoopInv, GiveUp
  PROVE  QueueInv' /\ LoopInv'
<1>1. pass.at = "events" /\ effect # "none"
  BY DEF GiveUp, TypeOK, PassType
<1>2. PICK g \in Game : g = pass.game
  BY <1>1, QueueOrder
<1>9. PICK f \in (IF effect = "started" THEN Ran ELSE {"blocked"}) : Finished(f)
  BY DEF GiveUp, Ran
<1>3. /\ UNCHANGED <<loop, running, starts, home, haunted>>
      /\ chain' = IF effect = "started" THEN chain ELSE [chain EXCEPT ![g] = SkipLast(@)]
  BY <1>2 DEF GiveUp, service
<1>4. Fore(g) /\ Awaited(g) /\ \A h \in Game : Rests(h) /\ Waiting(h)
  BY <1>2, QueueParts, LoopParts
<1>5. \A h \in Game : h # g => chain'[h] = chain[h]
  BY <1>3 DEF TypeOK, LoopType
<1>6. effect \in {"queued", "started"}
  BY <1>1 DEF TypeOK, PassType
<1>7. CASE effect = "started"
  <2>1. \A k \in DOMAIN chain'[g] : FALSE
    BY <1>3, <1>4, <1>7, EmptySeq DEF Awaited
  <2>2. \A h \in Game : Rests(h)'
    BY <1>3, <1>4, <1>7 DEF Rests
  <2> QED BY <1>1, <1>2, <1>3, <1>5, <1>7, <1>9, <2>1, <2>2, FinishKeeps
<1>8. CASE effect = "queued"
  <2>1. chain'[g] = SkipLast(chain[g])
    BY <1>3, <1>8 DEF TypeOK, LoopType
  <2>2. /\ DOMAIN chain'[g] = DOMAIN chain[g] /\ chain[g] # <<>>
        /\ \A k \in DOMAIN chain[g] : /\ chain'[g][k].id = chain[g][k].id
                                      /\ chain'[g][k].skip <=> chain[g][k].skip \/ k = Len(chain[g])
    <3>1. chain[g] # <<>> /\ chain[g] \in Seq([id : Event, skip : BOOLEAN])
      BY <1>4, <1>8, LoopTypes DEF Awaited
    <3> QED BY <2>1, <3>1, SkipLastType
  <2>3. ASSUME NEW k \in DOMAIN chain'[g]
        PROVE  /\ k \in DOMAIN chain[g] /\ chain'[g][k].id = chain[g][k].id
               /\ chain'[g][k].skip
               /\ chain[g][k].skip \/ (effect # "started" /\ chain[g][k].id = First(queue).id)
    <3>1. chain[g][k].skip \/ k = Len(chain[g])
      BY <1>4, <2>2 DEF Waiting
    <3>2. chain[g][Len(chain[g])].id = First(queue).id
      BY <1>4, <1>8 DEF Awaited
    <3> QED BY <1>8, <2>2, <3>1, <3>2
  <2>4. ASSUME NEW h \in Game PROVE Rests(h)'
    <3>1. loop[g]
      BY <1>4, <2>2 DEF Rests
    <3> QED BY <1>3, <1>4, <1>5, <3>1 DEF Rests
  <2> QED BY <1>1, <1>2, <1>3, <1>5, <1>8, <1>9, <2>3, <2>4, FinishKeeps
<1> QED BY <1>6, <1>7, <1>8

\* An event that never came to a loop
LEMMA BlockedKeeps ==
  ASSUME TypeOK, QueueInv, LoopInv, pass.at = "events", effect = "none", Finished("blocked"),
         UNCHANGED <<loop, chain, running, starts, home, haunted>>
  PROVE  QueueInv' /\ LoopInv'
<1>1. PICK g \in Game : g = pass.game
  BY QueueOrder
<1>2. \A h \in Game : Rests(h) /\ Waiting(h)
  BY LoopParts
<1>3. \A k \in DOMAIN chain'[g] : k \in DOMAIN chain[g] /\ chain[g][k].skip
  BY <1>2 DEF Waiting
<1>4. \A h \in Game : Rests(h)'
  BY <1>2 DEF Rests
<1> QED BY <1>1, <1>3, <1>4, FinishKeeps

\* The effect at the head of a chain has its turn.
LEMMA TurnSkips ==
  ASSUME TypeOK, QueueInv, LoopInv, NEW g \in Game, EffectTurn(g), Head(chain[g]).skip
  PROVE  QueueInv' /\ LoopInv'
<1>0. /\ chain[g] # <<>> /\ UNCHANGED <<running, starts, effect, fate, queue, pass, home, loop, haunted>>
      /\ chain' = [chain EXCEPT ![g] = Tail(@)]
  BY DEF EffectTurn, MayStart, service
<1>1. /\ Fore(pass.game) /\ Awaited(pass.game) /\ pass.todo \cap {pass.game} = {}
      /\ \A h \in Game : Rests(h) /\ Waiting(h) /\ Playing(h) /\ Recorded(h)
  BY QueueParts, LoopParts
<1>2. \A h \in Game : chain'[h] = IF h = g THEN Tail(chain[g]) ELSE chain[h]
  BY <1>0 DEF TypeOK, LoopType
<1>3. /\ 1 \in DOMAIN chain[g] /\ Head(chain[g]) = chain[g][1]
      /\ Len(Tail(chain[g])) = Len(chain[g]) - 1 /\ Len(chain[g]) \in Nat \ {0}
      /\ DOMAIN Tail(chain[g]) = 1..(Len(chain[g]) - 1)
      /\ \A k \in DOMAIN Tail(chain[g]) : k + 1 \in DOMAIN chain[g]
                                          /\ Tail(chain[g])[k] = chain[g][k + 1]
  BY <1>0, LoopTypes, EmptySeq
<1>4. ASSUME NEW h \in Game PROVE Rests(h)'
  BY <1>0, <1>1, <1>2 DEF Rests
<1>5. ASSUME NEW h \in Game PROVE Waiting(h)'
  <2>1. CASE h # g
    BY <1>0, <1>1, <1>2, <2>1 DEF Waiting
  <2>2. CASE h = g
    <3> SUFFICES ASSUME NEW k \in DOMAIN Tail(chain[g])
                 PROVE  /\ home[Tail(chain[g])[k].id] = g
                        /\ IF Tail(chain[g])[k].skip
                             THEN g \notin haunted => fate[Tail(chain[g])[k].id] = "blocked"
                             ELSE k = Len(Tail(chain[g])) /\ pass.game = g /\ effect = "queued"
      BY <1>0, <1>2, <2>2 DEF Waiting
    <3>1. k + 1 \in DOMAIN chain[g] /\ Tail(chain[g])[k] = chain[g][k + 1] /\ k \in Nat
      BY <1>3
    <3>2. /\ home[chain[g][k + 1].id] = g
          /\ IF chain[g][k + 1].skip
               THEN g \notin haunted => fate[chain[g][k + 1].id] = "blocked"
               ELSE k + 1 = Len(chain[g]) /\ pass.game = g /\ effect = "queued"
      BY <1>1, <3>1 DEF Waiting
    <3>3. k + 1 = Len(chain[g]) => k = Len(Tail(chain[g]))
      BY <1>3, <3>1
    <3> QED BY <3>1, <3>2, <3>3
  <2> QED BY <2>1, <2>2
<1>6. ASSUME NEW h \in Game PROVE Playing(h)' /\ Recorded(h)'
  BY <1>0, <1>1 DEF Playing, Recorded
<1>7. Fore(pass.game)'
  <2> SUFFICES ASSUME NEW e \in queue, pass.game \notin haunted, NEW k \in DOMAIN chain'[pass.game],
                      chain'[pass.game][k].id = e.id
               PROVE  e = First(queue) /\ effect = "queued"
    BY <1>0, <1>1 DEF Fore
  <2>1. pass.game \in Game
    BY DEF TypeOK, PassType
  <2>2. \E j \in DOMAIN chain[pass.game] : chain[pass.game][j].id = e.id
    <3>1. CASE pass.game = g
      <4>1. k \in DOMAIN Tail(chain[g]) /\ Tail(chain[g])[k].id = e.id
        BY <1>0, <1>2, <3>1
      <4>2. k + 1 \in DOMAIN chain[g] /\ chain[g][k + 1].id = e.id
        BY <1>3, <4>1
      <4> QED BY <3>1, <4>2
    <3>2. CASE pass.game # g
      BY <1>0, <1>2, <2>1, <3>2
    <3> QED BY <3>1, <3>2
  <2> QED BY <1>1, <2>2 DEF Fore
<1>8. Awaited(pass.game)'
  <2>1. effect # "none" => pass.game \in Game
    BY DEF TypeOK, PassType
  <2>2. CASE pass.game = g /\ effect = "queued"
    <3>1. chain[g][Len(chain[g])] = [id |-> First(queue).id, skip |-> FALSE]
      BY <1>1, <2>2 DEF Awaited
    <3>2. Len(chain[g]) # 1
      BY <1>3, <3>1
    <3>3. Len(chain[g]) - 1 \in DOMAIN Tail(chain[g]) /\ Len(Tail(chain[g])) = Len(chain[g]) - 1
      <4>1. PICK n \in Nat \ {0} : n = Len(chain[g])
        BY <1>3
      <4>2. n \in Nat /\ n # 0 /\ n # 1
        BY <3>2, <4>1
      <4>3. n - 1 \in 1..(n - 1)
        BY ONLY <4>2
      <4> QED BY <1>3, <4>1, <4>3
    <3>4. Tail(chain[g])[Len(Tail(chain[g]))] = chain[g][Len(chain[g])]
      BY <1>3, <3>3
    <3>5. Tail(chain[g]) # <<>>
      <4>1. DOMAIN << >> = {}
        OBVIOUS
      <4> QED BY <3>3, <4>1
    <3> QED BY <1>0, <1>2, <2>2, <3>1, <3>4, <3>5 DEF Awaited
  <2>3. CASE pass.game = g /\ effect = "started"
    BY <1>0, <1>1, <2>3 DEF Awaited
  <2>4. CASE pass.game # g \/ effect = "none"
    BY <1>0, <1>1, <1>2, <2>1, <2>4 DEF Awaited
  <2>5. effect \in {"none", "queued", "started"}
    BY DEF TypeOK, PassType
  <2> QED BY <2>2, <2>3, <2>4, <2>5
<1>9. QueueInv'
  BY <1>0, <1>1, <1>7, <1>8 DEF QueueInv, Fore, Awaited
<1> QED BY <1>4, <1>5, <1>6, <1>9 DEF LoopInv, Rests, Waiting, Playing, Recorded

\* What starts is the event the pass awaits, the only one on its chain.
LEMMA TurnStarts ==
  ASSUME TypeOK, QueueInv, LoopInv, NEW g \in Game, EffectTurn(g), ~Head(chain[g]).skip
  PROVE  /\ g = pass.game /\ pass.at = "events" /\ effect = "queued" /\ loop[g]
         /\ running[g] = None /\ effect' = "started"
         /\ chain' = [chain EXCEPT ![g] = <<>>]
         /\ running' = [running EXCEPT ![g] = First(queue).id]
         /\ starts' = [starts EXCEPT ![First(queue).id] = @ + 1]
<1>1. Awaited(pass.game) /\ Rests(g) /\ Waiting(g)
  BY QueueParts, LoopParts
<1>2. chain[g] # <<>> /\ running[g] = None
  BY DEF EffectTurn
<1>3. 1 \in DOMAIN chain[g] /\ Head(chain[g]) = chain[g][1] /\ Len(chain[g]) \in Nat
  BY <1>2, LoopTypes, EmptySeq
<1>4. Len(chain[g]) = 1 /\ pass.game = g /\ effect = "queued"
  BY <1>1, <1>3 DEF Waiting
<1>5. Head(chain[g]).id = First(queue).id
  BY <1>1, <1>3, <1>4 DEF Awaited
<1>6. Tail(chain[g]) = <<>>
  <2>1. Tail(chain[g]) \in Seq([id : Event, skip : BOOLEAN]) /\ Len(Tail(chain[g])) = 0
    <3>1. chain[g] \in Seq([id : Event, skip : BOOLEAN])
      BY LoopTypes
    <3>2. /\ Tail(chain[g]) \in Seq([id : Event, skip : BOOLEAN])
          /\ Len(Tail(chain[g])) = Len(chain[g]) - 1
      BY <1>2, <3>1, HeadTailProperties
    <3> QED BY <1>4, <3>2
  <2> QED BY <2>1, EmptySeq
<1>7. pass.at = "events" /\ loop[g]
  BY <1>1, <1>2, <1>4 DEF TypeOK, PassType, Rests
<1> QED BY <1>2, <1>4, <1>5, <1>6, <1>7 DEF EffectTurn, MayStart, Awaits

LEMMA TurnKeeps ==
  ASSUME TypeOK, QueueInv, LoopInv, NEW g \in Game, EffectTurn(g), ~Head(chain[g]).skip
  PROVE  QueueInv' /\ LoopInv'
<1> SUFFICES ASSUME NEW F \in queue, F = First(queue)
             PROVE  QueueInv' /\ LoopInv'
  BY TurnStarts, QueueOrder
<1>0. /\ g = pass.game /\ pass.at = "events" /\ effect = "queued" /\ loop[g]
      /\ running[g] = None /\ effect' = "started"
      /\ chain' = [chain EXCEPT ![g] = <<>>]
      /\ running' = [running EXCEPT ![g] = F.id]
      /\ starts' = [starts EXCEPT ![F.id] = @ + 1]
      /\ UNCHANGED <<fate, queue, pass, home, loop, haunted>>
  <2>1. UNCHANGED <<fate, queue, pass, home, loop, haunted>>
    BY DEF EffectTurn, service
  <2> QED BY <2>1, TurnStarts
<1>1. /\ F.id \in Event /\ home[F.id] = g
      /\ \A e \in queue : /\ e.id \in Event
                          /\ e # F => F.id < e.id
                          /\ e.id = F.id => e = F
  BY <1>0, QueueOrder
<1>2. /\ Fore(g) /\ Awaited(g) /\ pass.todo \cap {g} = {}
      /\ \A h \in Game : Rests(h) /\ Waiting(h) /\ Playing(h) /\ Recorded(h)
  BY <1>0, QueueParts, LoopParts
<1>3. /\ chain'[g] = <<>> /\ running'[g] = F.id
      /\ \A h \in Game : h # g => chain'[h] = chain[h] /\ running'[h] = running[h]
  BY <1>0 DEF TypeOK, LoopType
<1>4. /\ starts'[F.id] = starts[F.id] + 1
      /\ \A i \in Event : i # F.id => starts'[i] = starts[i]
      /\ \A i \in Event : starts[i] \in Nat
  BY <1>0, <1>1 DEF TypeOK, LoopType
<1>5. g \notin haunted => starts[F.id] = 0 /\ fate[F.id] = "none"
  BY <1>0, <1>2 DEF Fore
<1>6. ASSUME NEW e \in queue, g \notin haunted
      PROVE  /\ fate'[e.id] = "none"
             /\ \A i \in Event : home[i] = g /\ starts'[i] > 0 => i <= e.id
             /\ e # F => starts'[e.id] = 0 /\ running'[g] # e.id
  <2>1. /\ fate[e.id] = "none"
        /\ \A i \in Event : home[i] = g /\ starts[i] > 0 => i <= e.id
        /\ starts[e.id] = 0
    BY <1>0, <1>2, <1>6 DEF Fore
  <2>2. F.id <= e.id
    <3>1. F.id \in Nat /\ e.id \in Nat
      BY <1>1, EventsAssumption DEF Event
    <3> QED BY <1>1, <3>1
  <2>3. \A i \in Event : home[i] = g /\ starts'[i] > 0 => i <= e.id
    BY <1>4, <2>1, <2>2
  <2>4. e # F => starts'[e.id] = 0 /\ running'[g] # e.id
    BY <1>1, <1>3, <1>4, <2>1
  <2> QED BY <1>0, <2>1, <2>3, <2>4
<1>7. Fore(g)'
  <2>1. \A k \in DOMAIN chain'[g] : FALSE
    BY <1>3, EmptySeq
  <2>2. \A e \in queue : home[e.id] = g /\ \A f \in queue : (e.seq < f.seq <=> e.id < f.id)
    BY <1>2 DEF Fore
  <2> QED BY <1>0, <1>6, <2>1, <2>2 DEF Fore
<1>8. Awaited(g)'
  BY <1>0, <1>3 DEF Awaited
<1>9. QueueInv'
  BY <1>0, <1>2, <1>7, <1>8 DEF QueueInv, Fore, Awaited
<1>10. ASSUME NEW h \in Game PROVE Rests(h)' /\ Waiting(h)'
  <2>1. CASE h = g
    <3>1. \A k \in DOMAIN chain'[g] : FALSE
      BY <1>3, EmptySeq
    <3> QED BY <1>0, <2>1, <3>1 DEF Rests, Waiting
  <2>2. CASE h # g
    <3>1. \A k \in DOMAIN chain[h] : chain[h][k].skip
      BY <1>0, <1>2, <2>2 DEF Waiting
    <3> QED BY <1>0, <1>2, <1>3, <2>2, <3>1 DEF Rests, Waiting
  <2> QED BY <2>1, <2>2
<1>11. ASSUME NEW h \in Game PROVE Playing(h)'
  <2>1. CASE h = g
    BY <1>0, <1>1, <1>3, <1>4, <1>5, <2>1 DEF Playing
  <2>2. CASE h # g
    <3>1. running[h] # None => running[h] \in Event /\ running[h] # F.id
      BY <1>1, <1>2, <2>2, LoopTypes DEF Playing
    <3> QED BY <1>0, <1>2, <1>3, <1>4, <2>2, <3>1 DEF Playing
  <2> QED BY <2>1, <2>2
<1>12. ASSUME NEW h \in Game PROVE Recorded(h)'
  <2> SUFFICES ASSUME NEW i \in Event, home[i] = h, h \notin haunted
               PROVE  /\ starts'[i] <= 1
                      /\ fate[i] = "blocked" => starts'[i] = 0
                      /\ fate[i] \in Ran => starts'[i] = 1
                      /\ starts'[i] = 1 =>
                           \/ fate[i] \in Ran
                           \/ pass.game = h /\ F.id = i
    BY <1>0 DEF Recorded
  <2>1. CASE i = F.id
    BY <1>0, <1>1, <1>4, <1>5, <2>1 DEF Ran
  <2>2. CASE i # F.id
    BY <1>0, <1>2, <1>4, <2>2 DEF Recorded
  <2> QED BY <2>1, <2>2
<1> QED BY <1>9, <1>10, <1>11, <1>12 DEF LoopInv, Rests, Waiting, Playing, Recorded

\* The first event of the pass is put on the loop of its game.
LEMMA DispatchKeeps ==
  ASSUME TypeOK, QueueInv, LoopInv, Dispatch
  PROVE  QueueInv' /\ LoopInv'
<1> SUFFICES ASSUME NEW g \in Game, g = pass.game, NEW F \in queue, F = First(queue)
             PROVE  QueueInv' /\ LoopInv'
  BY QueueOrder DEF Dispatch
<1>0. pass.at = "events" /\ effect = "none"
      /\ UNCHANGED <<loop, starts, home, haunted>>
  BY DEF Dispatch, service
<1>1. CASE ~loop[g]
  BY <1>0, <1>1, BlockedKeeps DEF Dispatch
<1>2. CASE loop[g]
  <2> DEFINE entry == [id |-> F.id, skip |-> FALSE]
             old == IF g \in forgotten THEN <<>> ELSE chain[g]
  <2>1. /\ chain' = [chain EXCEPT ![g] = Append(old, entry)] /\ effect' = "queued"
        /\ UNCHANGED <<fate, queue, pass>>
    BY <1>2 DEF Dispatch
  <2>13. \A h \in Game : running'[h] \in {running[h], None}
                         /\ (h # g => running'[h] = running[h])
    BY <1>2 DEF Dispatch, TypeOK, LoopType
  <2>2. /\ F.id \in Event /\ home[F.id] = g
        /\ \A e \in queue : e.id \in Event /\ (e.id = F.id => e = F)
    BY <1>0, QueueOrder
  <2>3. entry \in [id : Event, skip : BOOLEAN] /\ entry.id = F.id /\ entry.skip = FALSE
    BY <2>2
  <2>5. old \in Seq([id : Event, skip : BOOLEAN])
        /\ \A k \in DOMAIN old : k \in DOMAIN chain[g] /\ old[k] = chain[g][k]
    <3>1. chain[g] \in Seq([id : Event, skip : BOOLEAN])
      BY LoopTypes
    <3>2. CASE g \in forgotten
      <4>1. old = <<>>
        BY <3>2
      <4> HIDE DEF old
      <4> QED BY <4>1, EmptySeq
    <3>3. CASE g \notin forgotten
      <4>1. old = chain[g]
        BY <3>3
      <4> HIDE DEF old
      <4> QED BY <3>1, <4>1
    <3> QED BY <3>2, <3>3
  <2> HIDE DEF entry, old
  <2>4. /\ chain'[g] = Append(old, entry)
        /\ \A h \in Game : h # g => chain'[h] = chain[h]
    BY <2>1 DEF TypeOK, LoopType
  <2>6. /\ Append(old, entry) # <<>> /\ Len(Append(old, entry)) = Len(old) + 1
        /\ Append(old, entry)[Len(old) + 1] = entry
        /\ \A k \in DOMAIN Append(old, entry) :
             \/ k = Len(old) + 1
             \/ k \in DOMAIN old /\ Append(old, entry)[k] = old[k]
    <3>1. DOMAIN Append(old, entry) = DOMAIN old \cup {Len(old) + 1}
      BY <2>3, <2>5, AppendProperties, LenProperties
    <3> QED BY <2>3, <2>5, <3>1, AppendProperties
  <2>7. /\ Fore(g) /\ pass.todo \cap {g} = {}
        /\ \A h \in Game : Rests(h) /\ Waiting(h) /\ Playing(h) /\ Recorded(h)
    BY QueueParts, LoopParts
  <2>8. Awaited(g)'
    BY <2>1, <2>3, <2>4, <2>6 DEF Awaited, entry
  <2>9. Fore(g)'
    <3>1. ASSUME NEW e \in queue, g \notin haunted, NEW k \in DOMAIN chain'[g],
                 chain'[g][k].id = e.id
          PROVE  e = F
      <4>1. CASE k = Len(old) + 1
        BY <2>2, <2>3, <2>4, <2>6, <3>1, <4>1
      <4>2. CASE k \in DOMAIN chain[g] /\ chain'[g][k] = chain[g][k]
        BY <1>0, <2>7, <3>1, <4>2 DEF Fore
      <4> QED BY <2>4, <2>5, <2>6, <3>1, <4>1, <4>2
    <3>2. ASSUME NEW e \in queue, running'[g] = e.id PROVE running[g] = e.id
      BY <2>2, <2>13, <3>2, LoopTypes
    <3> QED BY <1>0, <2>1, <2>7, <3>1, <3>2 DEF Fore
  <2>10. QueueInv'
    BY <2>1, <2>7, <2>8, <2>9 DEF QueueInv, Fore, Awaited
  <2>11. ASSUME NEW h \in Game PROVE Waiting(h)'
    <3>1. \A k \in DOMAIN chain[h] :
            /\ home[chain[h][k].id] = h /\ chain[h][k].skip
            /\ h \notin haunted => fate[chain[h][k].id] = "blocked"
      BY <1>0, <2>7 DEF Waiting
    <3>2. CASE h # g
      BY <1>0, <2>1, <2>4, <3>1, <3>2 DEF Waiting
    <3>3. CASE h = g
      <4> SUFFICES ASSUME NEW k \in DOMAIN chain'[g]
                   PROVE  /\ home[chain'[g][k].id] = g
                          /\ IF chain'[g][k].skip
                               THEN g \notin haunted => fate[chain'[g][k].id] = "blocked"
                               ELSE k = Len(chain'[g]) /\ pass.game = g
        BY <1>0, <2>1, <3>3 DEF Waiting
      <4>1. CASE k = Len(old) + 1
        BY <2>2, <2>3, <2>4, <2>6, <4>1
      <4>2. CASE k \in DOMAIN chain[g] /\ chain'[g][k] = chain[g][k]
        BY <3>1, <3>3, <4>2
      <4> QED BY <2>4, <2>5, <2>6, <4>1, <4>2
    <3> QED BY <3>2, <3>3
  <2>12. ASSUME NEW h \in Game PROVE Rests(h)' /\ Playing(h)' /\ Recorded(h)'
    <3>1. Rests(h)'
      BY <1>0, <1>2, <2>4, <2>7, <2>13 DEF Rests
    <3>2. Playing(h)'
      BY <1>0, <2>7, <2>13 DEF Playing
    <3> QED BY <1>0, <2>1, <2>7, <3>1, <3>2 DEF Recorded
  <2> QED BY <2>10, <2>11, <2>12 DEF LoopInv, Rests, Waiting, Playing, Recorded
<1> QED BY <1>1, <1>2

\* What the pass reads is new.
LEMMA ReadKeeps ==
  ASSUME TypeOK, ListInv, BucketInv, QueueInv, LoopInv, ReadEvents
  PROVE  QueueInv' /\ LoopInv'
<1> SUFFICES ASSUME NEW g \in Game, g = pass.game
             PROVE  QueueInv' /\ LoopInv'
  BY DEF ReadEvents, TypeOK, PassType
<1>0. /\ pass.at = "read" /\ effect = "none" /\ effect' = "none"
      /\ UNCHANGED <<fate, starts, home, loop, chain, running, haunted>>
      /\ pass'.todo = pass.todo /\ pass'.game = IF queue' = {} THEN None ELSE g
      /\ queue' # {} => last[g] # None /\ queue' = Fresh(g)
  BY DEF ReadEvents, TypeOK, PassType, service, loops
<1>1. /\ pass.todo \cap {g} = {}
      /\ \A h \in Game : Rests(h) /\ Waiting(h) /\ Playing(h) /\ Recorded(h)
  BY QueueParts, LoopParts
<1>2. ASSUME NEW e \in queue'
      PROVE  /\ home[e.id] = g
             /\ \A f \in queue' : (e.seq < f.seq <=> e.id < f.id)
             /\ g \notin haunted =>
                  /\ Untouched(e.id)
                  /\ \A i \in Event : home[i] = g /\ starts[i] > 0 => i <= e.id
  <2>1. \A f \in queue' : f \in Shows(g).events /\ NotRead(g, held["events"].epoch, f)
    <3>1. last[g].epoch = held["events"].epoch => \A f \in queue' : f.seq > last[g].seq
      BY <1>0, <1>2 DEF Fresh
    <3> QED BY <1>0, <1>2, <3>1 DEF Fresh, Shows, NotRead
  <2>2. home[e.id] = g /\ \A f \in queue' : (e.seq < f.seq <=> e.id < f.id)
    BY <2>1 DEF ListInv, Ordered, Shows
  <2>3. g \notin haunted => Unspoilt(g, held["events"].epoch, Shows(g))
    BY BucketParts DEF Bucket
  <2>4. g \notin haunted =>
          /\ Untouched(e.id)
          /\ \A i \in Event : home[i] = g /\ ~Untouched(i) => i < e.id
    BY <1>0, <1>2, <2>1, <2>3 DEF Unspoilt
  <2>5. ASSUME g \notin haunted, NEW i \in Event, home[i] = g, starts[i] > 0
        PROVE  i <= e.id
    <3>1. ~Untouched(i)
      BY <2>5 DEF Untouched
    <3>2. e.id \in Nat /\ i \in Nat
      BY <2>1, ListTypes, EventsAssumption DEF Event
    <3> QED BY <2>4, <2>5, <3>1, <3>2
  <2> QED BY <2>2, <2>4, <2>5
<1>3. ASSUME NEW e \in queue'
      PROVE  /\ home[e.id] = g
             /\ \A f \in queue' : (e.seq < f.seq <=> e.id < f.id)
             /\ g \notin haunted =>
                  /\ fate[e.id] = "none" /\ starts[e.id] = 0 /\ running[g] # e.id
                  /\ \A k \in DOMAIN chain[g] : chain[g][k].id # e.id
                  /\ \A i \in Event : home[i] = g /\ starts[i] > 0 => i <= e.id
  BY <1>2 DEF Untouched
<1>4. Fore(g)'
  BY <1>0, <1>3 DEF Fore
<1>5. QueueInv'
  <2>1. CASE queue' = {}
    BY <1>0, <2>1, EventsAssumption DEF QueueInv, TypeOK, PassType
  <2>2. CASE queue' # {}
    BY <1>0, <1>1, <1>4, <2>2 DEF QueueInv, Fore
  <2> QED BY <2>1, <2>2
<1>6. ASSUME NEW h \in Game PROVE Rests(h)' /\ Waiting(h)' /\ Playing(h)' /\ Recorded(h)'
  BY <1>0, <1>1 DEF Rests, Waiting, Playing, Recorded
<1> QED BY <1>5, <1>6 DEF LoopInv, Rests, Waiting, Playing, Recorded

\* The service gives a home only to an event of which nothing is known.
LEMMA ServiceHomes ==
  ASSUME TypeOK, ServiceStep, NEW i \in Event, home[i] # None
  PROVE  home'[i] = home[i]
<1>1. home \in [Event -> Game \cup {None}]
  BY DEF TypeOK, ServiceType
<1> QED BY <1>1 DEF ServiceStep, ClearList, DropScope, AppendEvent, SetAllowed, RestartService

LEMMA ServiceKeeps ==
  ASSUME TypeOK, NewInv, QueueInv, LoopInv, ServiceStep
  PROVE  QueueInv' /\ LoopInv'
<1>1. UNCHANGED <<held, loops, evaluation>>
  <2>1. CASE Event = {}
    BY <2>1 DEF ServiceStep, ClearList, DropScope, AppendEvent, SetAllowed, RestartService
  <2>2. CASE Event # {}
    BY <2>2, ServiceLists
  <2> QED BY <2>1, <2>2
<1>2. UNCHANGED <<loop, chain, running, starts, pass, queue, effect, fate, haunted>>
  BY <1>1 DEF loops, evaluation
<1>3. \A i \in Event : home[i] # None => home'[i] = home[i]
  BY ServiceHomes
<1>4. \A i \in Event : home[i] = None => fate[i] = "none" /\ starts[i] = 0
  BY NewInvParts
<1>5. /\ Fore(pass.game) /\ Awaited(pass.game) /\ pass.todo \cap {pass.game} = {}
      /\ \A h \in Game : Rests(h) /\ Waiting(h) /\ Playing(h) /\ Recorded(h)
  BY QueueParts, LoopParts
<1>6. ASSUME NEW h \in Game PROVE Waiting(h)' /\ Playing(h)' /\ Recorded(h)'
  <2>1. Waiting(h)'
    <3>1. \A k \in DOMAIN chain[h] : chain[h][k].id \in Event /\ home[chain[h][k].id] = h
      BY <1>5, LoopTypes DEF Waiting
    <3>2. \A k \in DOMAIN chain[h] : home'[chain[h][k].id] = h
      BY <1>3, <3>1, EventsAssumption
    <3> QED BY <1>2, <1>5, <3>2 DEF Waiting
  <2>2. Playing(h)'
    <3>1. running[h] # None => running[h] \in Event /\ home[running[h]] = h
      BY <1>5, LoopTypes DEF Playing
    <3>2. running[h] # None => home'[running[h]] = h
      BY <1>3, <3>1, EventsAssumption
    <3> QED BY <1>2, <1>5, <3>2 DEF Playing
  <2>3. Recorded(h)'
    <3>1. ASSUME h \notin haunted, NEW i \in Event, home'[i] = h
          PROVE  /\ starts[i] <= 1
                 /\ fate[i] = "blocked" => starts[i] = 0
                 /\ fate[i] \in Ran => starts[i] = 1
                 /\ starts[i] = 1 =>
                      \/ fate[i] \in Ran
                      \/ pass.game = h /\ effect = "started" /\ First(queue).id = i
      <4>1. CASE home[i] = None
        BY <1>4, <4>1 DEF Ran
      <4>2. CASE home[i] # None
        BY <1>3, <1>5, <3>1, <4>2 DEF Recorded
      <4> QED BY <4>1, <4>2
    <3> QED BY <1>2, <3>1 DEF Recorded
  <2> QED BY <2>1, <2>2, <2>3
<1>7. ASSUME NEW e \in queue
      PROVE  /\ home'[e.id] = pass.game
             /\ pass.game \notin haunted =>
                  \A i \in Event : home'[i] = pass.game /\ starts[i] > 0 => i <= e.id
  <2>1. pass.game \in Game /\ e.id \in Event /\ home[e.id] = pass.game
    BY <1>5, ListTypes DEF TypeOK, PassType, Fore
  <2>2. home'[e.id] = pass.game
    BY <1>3, <2>1, EventsAssumption
  <2>3. ASSUME pass.game \notin haunted, NEW i \in Event, home'[i] = pass.game, starts[i] > 0
        PROVE  i <= e.id
    <3>1. home[i] = pass.game
      BY <1>3, <1>4, <2>3
    <3> QED BY <1>5, <2>3, <3>1 DEF Fore
  <2> QED BY <2>2, <2>3
<1>8. Fore(pass.game)'
  BY <1>2, <1>5, <1>7 DEF Fore
<1>9. QueueInv'
  BY <1>2, <1>5, <1>8 DEF QueueInv, Fore, Awaited
<1>10. \A h \in Game : Rests(h)'
  BY <1>2, <1>5 DEF Rests
<1> QED BY <1>6, <1>9, <1>10 DEF LoopInv, Rests, Waiting, Playing, Recorded

LEMMA CoordinatorKeeps ==
  ASSUME TypeOK, ListInv, BucketInv, QueueInv, LoopInv, CoordinatorStep
  PROVE  QueueInv' /\ LoopInv'
<1>0. \A h \in Game : Rests(h)
  BY LoopParts
<1>1. CASE UNCHANGED <<pass, queue, effect, fate, starts, home, haunted, chain, running>>
           /\ \A h \in Game : loop[h] => loop'[h]
  <2>1. \A h \in Game : Rests(h)'
    BY <1>0, <1>1 DEF Rests
  <2>2. haunted \subseteq haunted'
    BY <1>1
  <2> QED BY <1>1, <2>1, <2>2, LoopsKeep
<1>2. ASSUME NEW g \in Game, Built(g) \/ Retire(g) PROVE QueueInv' /\ LoopInv'
  <2>1. UNCHANGED <<pass, queue, effect, fate, starts, home, haunted, chain, running>>
    BY <1>2 DEF Built, Retire, service, evaluation
  <2>2. \A h \in Game : loop[h] => loop'[h]
    BY <1>2 DEF Built, Retire, TypeOK, LoopType
  <2> QED BY <1>1, <2>1, <2>2
<1>3. CASE RecheckFires
  <2>1. UNCHANGED <<pass, queue, effect, fate, starts, home, haunted, chain, running, loop>>
    BY <1>3 DEF RecheckFires, service, evaluation, loops
  <2> QED BY <1>1, <2>1
<1>4. ASSUME NEW g \in Game, EffectTurn(g) PROVE QueueInv' /\ LoopInv'
  BY <1>4, TurnSkips, TurnKeeps
<1>5. CASE Block
  <2>1. UNCHANGED <<loop, chain, running, starts, home, haunted>>
    BY <1>5 DEF Block, loops, service
  <2> QED BY <1>5, <2>1, BlockedKeeps DEF Block
<1>6. ASSUME pass.at \in {"idle", "next"}
      PROVE  queue = {} /\ effect = "none"
  BY <1>6 DEF TypeOK, PassType
<1>7. ASSUME NEW g \in Game, NextGame(g) PROVE QueueInv' /\ LoopInv'
  <2>1. /\ UNCHANGED <<fate, starts, home, loop, chain, running, queue, effect>>
        /\ haunted \subseteq haunted'
    BY <1>7 DEF NextGame, service, loops
  <2>2. pass.at = "next" /\ pass'.game \notin pass'.todo
    BY <1>7 DEF NextGame
  <2> QED BY <1>6, <2>1, <2>2, PassKeeps
<1>8. ASSUME PassStarts, pass.at \in {"idle", "next"},
             UNCHANGED <<service, loops, queue, effect, fate, haunted>>
      PROVE  QueueInv' /\ LoopInv'
  <2>1. UNCHANGED <<fate, starts, home, loop, chain, running>> /\ haunted \subseteq haunted'
    BY <1>8 DEF service, loops
  <2>2. pass'.game \notin pass'.todo
    BY <1>8, EventsAssumption DEF PassStarts
  <2> QED BY <1>6, <1>8, <2>1, <2>2, PassKeeps
<1>9. CASE EvaluateAll
  <2>1. CASE pass.at = "idle"
    BY <1>8, <1>9, <2>1 DEF EvaluateAll
  <2>2. CASE pass.at # "idle"
    <3>1. UNCHANGED <<pass, queue, effect, fate, starts, home, haunted, chain, running, loop>>
      BY <1>9, <2>2 DEF EvaluateAll, service, loops
    <3> QED BY <1>1, <3>1
  <2> QED BY <2>1, <2>2
<1>10. CASE PassOver
  <2>1. pass.at = "next" /\ UNCHANGED <<service, loops, queue, effect, fate, haunted>>
    BY <1>10 DEF PassOver
  <2>2. CASE Again
    BY <1>8, <1>10, <2>1, <2>2 DEF PassOver
  <2>3. CASE ~Again
    <3>1. pass' = Idle
      BY <1>10, <2>3 DEF PassOver
    <3>2. UNCHANGED <<fate, starts, home, loop, chain, running>> /\ haunted \subseteq haunted'
      BY <2>1 DEF service, loops
    <3>3. pass'.game \notin pass'.todo
      BY <3>1 DEF Idle
    <3> QED BY <1>6, <2>1, <3>2, <3>3, PassKeeps
  <2> QED BY <2>2, <2>3
<1> QED BY <1>2, <1>3, <1>4, <1>5, <1>7, <1>9, <1>10, LoopStopsKeep, EffectEndsKeep, GiveUpKeeps,
           DispatchKeeps, ReadKeeps DEF CoordinatorStep

LEMMA LoopStep ==
  ASSUME TypeOK, ListInv, NewInv, BucketInv, QueueInv, LoopInv, [Next]_vars
  PROVE  QueueInv' /\ LoopInv'
<1>1. ASSUME UNCHANGED <<service, loops, evaluation>> PROVE QueueInv' /\ LoopInv'
  <2>1. /\ UNCHANGED <<pass, queue, effect, fate, starts, home, haunted, chain, running, loop>>
        /\ haunted \subseteq haunted'
    BY <1>1 DEF service, loops, evaluation
  <2>2. \A h \in Game : Rests(h)'
    BY <2>1, LoopParts DEF Rests
  <2> QED BY <2>1, <2>2, LoopsKeep
<1>2. ASSUME NEW s \in Stream, Deliver(s) PROVE QueueInv' /\ LoopInv'
  BY <1>1, <1>2 DEF Deliver
<1>3. CASE UNCHANGED vars
  BY <1>1, <1>3 DEF vars
<1> QED BY <1>2, <1>3, ServiceKeeps, CoordinatorKeeps, Steps

-----------------------------------------------------------------------------
(* Nothing is skipped *)

\* The parts of SeqInv, of one game
Handled(g, at, l) ==
  \A e \in l.events :
    last[g] # None /\ last[g].epoch = at /\ e.seq <= last[g].seq => HandledIn(g, e)

Carried(g) ==
  held["events"].epoch = epoch =>
    \A e \in list[g].events : e.seq <= Shows(g).seq => e \in Shows(g).events

Behind(g) ==
  session[g] # "gone" =>
    /\ held["events"].epoch = epoch => Shows(g).seq <= list[g].seq
    /\ last[g] # None /\ last[g].epoch = held["events"].epoch => last[g].seq <= Shows(g).seq

InSeq(g) ==
  /\ Handled(g, epoch, list[g]) /\ Handled(g, held["events"].epoch, Shows(g))
  /\ Carried(g) /\ Behind(g)

LEMMA SeqParts == SeqInv <=> \A g \in Game \ strayed : InSeq(g)
BY DEF SeqInv, InSeq, Handled, Carried, Behind, Shows

\* An event that is handled stays so; one of the pass stays there or is.
LEMMA FinishedHandles ==
  ASSUME TypeOK, pass.at = "events", NEW f \in Ran \cup {"blocked"}, Finished(f),
         NEW g \in Game, NEW e \in Entry, HandledIn(g, e)
  PROVE  HandledIn(g, e)'
<1>1. First(queue) \in queue /\ First(queue).id \in Event /\ e.id \in Event
  BY FirstType, ListTypes DEF TypeOK
<1>2. /\ fate' = [fate EXCEPT ![First(queue).id] = f] /\ queue' = queue \ {First(queue)}
      /\ queue' # {} => pass' = pass
  BY DEF Finished
<1>3. fate'[e.id] = IF e.id = First(queue).id THEN f ELSE fate[e.id]
  BY <1>1, <1>2 DEF TypeOK, PassType
<1>4. CASE fate[e.id] # "none"
  BY <1>3, <1>4 DEF HandledIn, Ran
<1>5. CASE pass.game = g /\ e \in queue
  BY <1>2, <1>3, <1>5 DEF HandledIn, Ran
<1> QED BY <1>4, <1>5 DEF HandledIn

LEMMA HandledKept ==
  ASSUME TypeOK, CoordinatorStep, NEW g \in Game, NEW e \in Entry, HandledIn(g, e)
  PROVE  HandledIn(g, e)'
<1>1. \A f \in Ran \cup {"blocked"} : pass.at = "events" /\ Finished(f) => HandledIn(g, e)'
  BY FinishedHandles
<1>2. ASSUME UNCHANGED <<fate, queue>>, pass'.game = pass.game \/ queue = {}
      PROVE  HandledIn(g, e)'
  BY <1>2 DEF HandledIn
<1>3. pass.at # "events" => queue = {} /\ effect = "none"
  BY DEF TypeOK, PassType
<1>4. ASSUME NEW h \in Game, LoopStops(h) PROVE HandledIn(g, e)'
  <2>1. CASE Awaits(h)
    BY <1>1, <1>3, <1>4, <2>1 DEF LoopStops, Awaits, Ran
  <2>2. CASE ~Awaits(h)
    BY <1>2, <1>4, <2>2 DEF LoopStops
  <2> QED BY <2>1, <2>2
<1>5. ASSUME NEW h \in Game, EffectEnds(h) PROVE HandledIn(g, e)'
  <2>1. CASE Awaits(h) /\ effect = "started"
    BY <1>1, <1>3, <1>5, <2>1 DEF EffectEnds, Awaits, Ran
  <2>2. CASE ~(Awaits(h) /\ effect = "started")
    BY <1>2, <1>5, <2>2 DEF EffectEnds
  <2> QED BY <2>1, <2>2
<1>6. CASE GiveUp \/ Block
  BY <1>1, <1>3, <1>6 DEF GiveUp, Block, Ran
<1>7. CASE Dispatch
  <2>1. CASE loop[pass.game]
    BY <1>2, <1>7, <2>1 DEF Dispatch
  <2>2. CASE ~loop[pass.game]
    BY <1>1, <1>7, <2>2 DEF Dispatch
  <2> QED BY <2>1, <2>2
<1>8. ASSUME NEW h \in Game, Built(h) \/ Retire(h) \/ EffectTurn(h) PROVE HandledIn(g, e)'
  BY <1>2, <1>8 DEF Built, Retire, EffectTurn, evaluation
<1>9. ASSUME NEW h \in Game, NextGame(h) PROVE HandledIn(g, e)'
  BY <1>2, <1>3, <1>9 DEF NextGame
<1>10. CASE EvaluateAll
  BY <1>2, <1>3, <1>10 DEF EvaluateAll
<1>11. CASE PassOver
  BY <1>2, <1>3, <1>11 DEF PassOver
<1>12. CASE RecheckFires
  BY <1>2, <1>12 DEF RecheckFires, evaluation
<1>13. CASE ReadEvents
  <2>1. queue = {} /\ fate' = fate
    BY <1>3, <1>13 DEF ReadEvents
  <2> QED BY <2>1 DEF HandledIn
<1> QED BY <1>4, <1>5, <1>6, <1>7, <1>8, <1>9, <1>10, <1>11, <1>12, <1>13 DEF CoordinatorStep

\* What happens to a bucket without a read
LEMMA BucketMoves ==
  ASSUME TypeOK, CoordinatorStep, ~ReadEvents, NEW g \in Game
  PROVE  /\ last'[g] \in {last[g], None, [epoch |-> 0, seq |-> 0]}
         /\ session[g] = "gone" => session'[g] = "gone"
<1>0. /\ last \in [Game -> [epoch : 0..MaxBoots, seq : Nat] \cup {None}]
      /\ session \in [Game -> {"starting", "live", "over", "gone"}]
  BY DEF TypeOK, LoopType
<1>1. ASSUME NEW h \in Game, Built(h) \/ EffectTurn(h) \/ EffectEnds(h) \/ LoopStops(h)
      PROVE  last' = last /\ (session[g] = "gone" => session'[g] = "gone")
  <2>1. CASE Built(h) \/ EffectTurn(h)
    BY <1>0, <2>1 DEF Built, EffectTurn, evaluation
  <2>2. CASE LoopStops(h)
    BY <1>0, <2>2 DEF LoopStops
  <2>3. CASE EffectEnds(h)
    BY <1>0, <2>3 DEF EffectEnds
  <2> QED BY <1>1, <2>1, <2>2, <2>3
<1>2. ASSUME NEW h \in Game, Retire(h) \/ NextGame(h)
      PROVE  /\ last'[g] \in {last[g], None, [epoch |-> 0, seq |-> 0]}
             /\ session[g] = "gone" => session'[g] = "gone"
  BY <1>0, <1>2 DEF Retire, NextGame, loops
<1>3. CASE Block \/ Dispatch \/ GiveUp \/ RecheckFires
  BY <1>3 DEF Block, Dispatch, GiveUp, RecheckFires, evaluation, loops
<1>4. CASE EvaluateAll \/ PassOver
  BY <1>0, <1>4 DEF EvaluateAll, PassOver, PassStarts, loops
<1> QED BY <1>1, <1>2, <1>3, <1>4 DEF CoordinatorStep

LEMMA SeqCoordinates ==
  ASSUME TypeOK, SeqInv, CoordinatorStep, ~ReadEvents
  PROVE  SeqInv'
<1>1. /\ epoch' = epoch /\ list' = list /\ held' = held /\ strayed' = strayed
      /\ \A g \in Game : Shows(g)' = Shows(g)
  BY CoordinatorLeaves DEF service, Shows
<1>2. ASSUME NEW g \in Game \ strayed PROVE InSeq(g)'
  <2>1. InSeq(g)
    BY SeqParts
  <2>2. \A e \in Entry : HandledIn(g, e) => HandledIn(g, e)'
    BY HandledKept
  <2>3. list[g].events \in SUBSET Entry /\ Shows(g).events \in SUBSET Entry
    BY ListTypes
  <2>4. /\ last'[g] \in {last[g], None, [epoch |-> 0, seq |-> 0]}
        /\ session[g] = "gone" => session'[g] = "gone"
    BY BucketMoves
  <2>5. epoch # 0 /\ held["events"].epoch # 0
    BY DEF TypeOK, ServiceType, HeldType
  <2>6. last'[g] = last[g] \/ last'[g] = None
        \/ (last'[g].epoch # epoch /\ last'[g].epoch # held["events"].epoch)
    BY <2>4, <2>5
  <2>7. Handled(g, epoch, list[g])' /\ Handled(g, held["events"].epoch, Shows(g))'
    BY <1>1, <2>1, <2>2, <2>3, <2>6 DEF InSeq, Handled
  <2>8. Carried(g)' /\ Behind(g)'
    BY <1>1, <2>1, <2>4, <2>6 DEF InSeq, Carried, Behind
  <2> QED BY <2>7, <2>8 DEF InSeq
<1> QED BY <1>1, <1>2 DEF SeqInv, InSeq, Handled, Carried, Behind, Shows

\* What a read passes is in the pass.
LEMMA SeqReads ==
  ASSUME TypeOK, ListInv, SeqInv, ReadEvents
  PROVE  SeqInv'
<1> SUFFICES ASSUME NEW p \in Game, p = pass.game
             PROVE  SeqInv'
  BY DEF ReadEvents, TypeOK, PassType
<1> DEFINE reads == last[p] # None /\ Unread(p) /\ ~Lags
<1>1. /\ epoch' = epoch /\ list' = list /\ held' = held /\ strayed' = strayed
      /\ session' = session /\ \A g \in Game : Shows(g)' = Shows(g)
  BY DEF ReadEvents, service, loops, Shows
<1>2. /\ reads => last' = [last EXCEPT ![p] = [epoch |-> held["events"].epoch,
                                               seq |-> Shows(p).seq]]
      /\ ~reads => last' = last
      /\ queue' = IF reads THEN Fresh(p) ELSE {}
      /\ queue' # {} => pass'.game = p
      /\ fate' = fate /\ queue = {}
  BY DEF ReadEvents, Moves, Shows, TypeOK, PassType
<1>3. \A g \in Game : \A e \in Entry : HandledIn(g, e) => HandledIn(g, e)'
  BY HandledKept DEF CoordinatorStep
<1>4. \A g \in Game : list[g].events \in SUBSET Entry /\ Shows(g).events \in SUBSET Entry
  BY ListTypes
<1>5. ASSUME NEW g \in Game \ strayed, g # p \/ ~reads PROVE InSeq(g)'
  <2>1. InSeq(g) /\ last'[g] = last[g]
    BY <1>2, <1>5, SeqParts DEF TypeOK
  <2>2. Handled(g, epoch, list[g])' /\ Handled(g, held["events"].epoch, Shows(g))'
    BY <1>1, <1>3, <1>4, <2>1 DEF InSeq, Handled
  <2>3. Carried(g)' /\ Behind(g)'
    BY <1>1, <2>1 DEF InSeq, Carried, Behind
  <2> QED BY <2>2, <2>3 DEF InSeq
<1>6. ASSUME reads, p \notin strayed PROVE InSeq(p)'
  <2>1. InSeq(p) /\ last'[p] = [epoch |-> held["events"].epoch, seq |-> Shows(p).seq]
    BY <1>2, <1>6, SeqParts DEF TypeOK
  <2>2. ASSUME NEW e \in Shows(p).events PROVE HandledIn(p, e)'
    <3>1. CASE last[p].epoch = held["events"].epoch /\ e.seq <= last[p].seq
      <4>1. HandledIn(p, e)
        BY <1>6, <2>1, <3>1 DEF InSeq, Handled
      <4> QED BY <1>3, <1>4, <4>1
    <3>2. CASE ~(last[p].epoch = held["events"].epoch /\ e.seq <= last[p].seq)
      <4>1. e.seq \in Nat /\ e.seq > 0
        BY <1>4, ListTypes DEF ListInv, Ordered, Shows
      <4>2. last[p].seq \in Nat
        BY <1>6 DEF TypeOK
      <4>3. e \in queue'
        BY <1>2, <1>6, <3>2, <4>1, <4>2 DEF Fresh, Shows
      <4> QED BY <1>2, <4>3 DEF HandledIn
    <3> QED BY <3>1, <3>2
  <2>3. Handled(p, held["events"].epoch, Shows(p))'
    BY <1>1, <2>2 DEF Handled
  <2>4. Handled(p, epoch, list[p])'
    <3> SUFFICES ASSUME NEW e \in list[p].events, last'[p].epoch = epoch, e.seq <= last'[p].seq
                 PROVE  HandledIn(p, e)'
      BY <1>1 DEF Handled
    <3>1. e \in Shows(p).events
      BY <2>1 DEF InSeq, Carried
    <3> QED BY <2>2, <3>1
  <2>5. Carried(p)'
    BY <1>1, <2>1 DEF InSeq, Carried
  <2>6. Behind(p)'
    <3>1. Shows(p).seq \in Nat
      BY ListTypes
    <3> QED BY <1>1, <2>1, <3>1 DEF InSeq, Behind
  <2> QED BY <2>3, <2>4, <2>5, <2>6 DEF InSeq
<1>7. \A g \in Game \ strayed : InSeq(g)'
  BY <1>5, <1>6
<1> QED BY <1>1, <1>7 DEF SeqInv, InSeq, Handled, Carried, Behind, Shows

\* The buckets are no newer than the lists held, nor these than the lists.
LEMMA Epochs ==
  ASSUME TypeOK, StreamInv, BucketInv, NEW g \in Game, last[g] # None
  PROVE  /\ last[g].epoch \in Nat /\ last[g].seq \in Nat
         /\ last[g].epoch = epoch => held["events"].epoch = epoch
<1>1. last[g].epoch \in Nat /\ last[g].seq \in Nat
  BY DEF TypeOK
<1>2. last[g].epoch <= held["events"].epoch
  BY BucketParts DEF Bucket
<1>3. held["events"].epoch <= epoch /\ held["events"].epoch \in Nat /\ epoch \in Nat
  BY StampsOfStreams DEF StreamInv, Stream
<1> QED BY <1>1, <1>2, <1>3

\* A list that a game with a session gets an event in is ahead of its bucket.
LEMMA SeqAppend ==
  ASSUME TypeOK, StreamInv, BucketInv, SeqInv, NEW g \in Game, NEW i \in Event,
         AppendEvent(g, i)
  PROVE  SeqInv'
<1> DEFINE new == [seq |-> list[g].seq + 1, id |-> i]
<1>1. /\ epoch' = epoch /\ held' = held /\ strayed' = strayed
      /\ UNCHANGED <<session, last, pass, queue, fate>> /\ session[g] # "gone"
      /\ \A h \in Game : Shows(h)' = Shows(h)
  BY DEF AppendEvent, loops, evaluation, Shows
<1>2. /\ list'[g].seq = list[g].seq + 1
      /\ \A e \in list'[g].events : e \in list[g].events \/ e = new
      /\ \A h \in Game : h # g => list'[h] = list[h]
  BY DEF AppendEvent, TypeOK, ServiceType, KeepLast
<1>3. \A h \in Game, e \in Entry : HandledIn(h, e)' <=> HandledIn(h, e)
  BY <1>1 DEF HandledIn
<1>4. \A h \in Game : list[h].events \in SUBSET Entry /\ Shows(h).events \in SUBSET Entry
  BY ListTypes
<1>5. ASSUME NEW h \in Game \ strayed PROVE InSeq(h)'
  <2>1. InSeq(h)
    BY SeqParts
  <2>2. Handled(h, held["events"].epoch, Shows(h))'
    BY <1>1, <1>3, <1>4, <2>1 DEF InSeq, Handled
  <2>3. CASE h # g
    <3>1. Handled(h, epoch, list[h])'
      BY <1>1, <1>2, <1>3, <1>4, <2>1, <2>3 DEF InSeq, Handled
    <3>2. Carried(h)' /\ Behind(h)'
      BY <1>1, <1>2, <2>1, <2>3 DEF InSeq, Carried, Behind
    <3> QED BY <2>2, <3>1, <3>2 DEF InSeq
  <2>4. CASE h = g
    <3>1. list[g].seq \in Nat /\ Shows(g).seq \in Nat /\ new.seq = list[g].seq + 1
      BY ListTypes
    <3> HIDE DEF new
    <3>2. held["events"].epoch = epoch => Shows(g).seq <= list[g].seq
      BY <1>1, <2>1, <2>4 DEF InSeq, Behind
    <3>3. last[g] # None /\ last[g].epoch = epoch => last[g].seq <= Shows(g).seq /\ last[g].seq \in Nat
      BY <1>1, <2>1, <2>4, Epochs DEF InSeq, Behind
    <3>4. last[g] # None /\ last[g].epoch = epoch => ~(new.seq <= last[g].seq)
      BY <3>1, <3>2, <3>3, Epochs
    <3>5. held["events"].epoch = epoch => ~(new.seq <= Shows(g).seq)
      BY <3>1, <3>2
    <3>6. Handled(g, epoch, list[g])'
      BY <1>1, <1>2, <1>3, <1>4, <2>1, <2>4, <3>4 DEF InSeq, Handled
    <3>7. Carried(g)'
      BY <1>1, <1>2, <2>1, <2>4, <3>5 DEF InSeq, Carried
    <3>8. Behind(g)'
      BY <1>1, <1>2, <2>1, <2>4, <3>1, <3>2 DEF InSeq, Behind
    <3> QED BY <2>2, <2>4, <3>6, <3>7, <3>8 DEF InSeq
  <2> QED BY <2>3, <2>4
<1> QED BY <1>1, <1>5 DEF SeqInv, InSeq, Handled, Carried, Behind, Shows

\* The list of a game may be emptied, or go with a scope nobody needs.
LEMMA SeqShrinks ==
  ASSUME TypeOK, SeqInv, strayed \subseteq strayed',
         UNCHANGED <<held, loops, evaluation, epoch>>,
         \A g \in Game \ strayed' : \/ list'[g] = list[g]
                                    \/ list'[g].events = {} /\ list'[g].seq = list[g].seq
                                    \/ list'[g].events = {} /\ session[g] = "gone"
  PROVE  SeqInv'
<1>1. /\ UNCHANGED <<session, last, pass, queue, fate>>
      /\ \A h \in Game : Shows(h)' = Shows(h)
  BY DEF loops, evaluation, Shows
<1>2. \A h \in Game, e \in Entry : HandledIn(h, e)' <=> HandledIn(h, e)
  BY <1>1 DEF HandledIn
<1>3. ASSUME NEW g \in Game \ strayed' PROVE InSeq(g)'
  <2>1. InSeq(g) /\ list[g].events \in SUBSET Entry /\ Shows(g).events \in SUBSET Entry
    BY SeqParts, ListTypes
  <2>2. Handled(g, held["events"].epoch, Shows(g))'
    BY <1>1, <1>2, <2>1 DEF InSeq, Handled
  <2>3. Handled(g, epoch, list[g])'
    BY <1>1, <1>2, <1>3, <2>1 DEF InSeq, Handled
  <2>4. Carried(g)'
    BY <1>1, <1>3, <2>1 DEF InSeq, Carried
  <2>5. Behind(g)'
    BY <1>1, <1>3, <2>1 DEF InSeq, Behind
  <2> QED BY <2>2, <2>3, <2>4, <2>5 DEF InSeq
<1> QED BY <1>3 DEF SeqInv, InSeq, Handled, Carried, Behind, Shows

\* After a restart no list held is of the epoch.
LEMMA SeqRestarts ==
  ASSUME TypeOK, StreamInv, SeqInv, RestartService
  PROVE  SeqInv'
<1>1. /\ UNCHANGED <<session, last, pass, queue, fate, held, strayed>>
      /\ \A h \in Game : Shows(h)' = Shows(h) /\ list'[h].events = {}
      /\ epoch' = epoch + 1
  BY DEF RestartService, Empty, loops, evaluation, Shows
<1>2. \A h \in Game, e \in Entry : HandledIn(h, e)' <=> HandledIn(h, e)
  BY <1>1 DEF HandledIn
<1>3. held'["events"].epoch # epoch'
  <2>1. held["events"].epoch <= epoch /\ held["events"].epoch \in Nat /\ epoch \in Nat
    BY StampsOfStreams DEF StreamInv, Stream
  <2> QED BY <1>1, <2>1
<1>4. ASSUME NEW g \in Game \ strayed PROVE InSeq(g)'
  <2>1. InSeq(g) /\ Shows(g).events \in SUBSET Entry
    BY SeqParts, ListTypes
  <2>2. Handled(g, held["events"].epoch, Shows(g))'
    BY <1>1, <1>2, <2>1 DEF InSeq, Handled
  <2>3. Handled(g, epoch, list[g])' /\ Carried(g)' /\ Behind(g)'
    BY <1>1, <1>3, <2>1 DEF InSeq, Handled, Carried, Behind
  <2> QED BY <2>2, <2>3 DEF InSeq
<1> QED BY <1>1, <1>4 DEF SeqInv, InSeq, Handled, Carried, Behind, Shows

LEMMA SeqDelivers ==
  ASSUME TypeOK, StreamInv, BucketInv, SeqInv, NEW s \in Stream, Deliver(s)
  PROVE  SeqInv'
<1>1. UNCHANGED <<epoch, list, strayed, session, last, pass, queue, fate>>
  BY DEF Deliver, service, loops, evaluation
<1>2. \A h \in Game, e \in Entry : HandledIn(h, e)' <=> HandledIn(h, e)
  BY <1>1 DEF HandledIn
<1>3. /\ held'[s] = Snapshot(s) /\ \A t \in Stream : t # s => held'[t] = held[t]
      /\ "events" \in Stream
  BY DEF Deliver, TypeOK, HeldType, Stream
<1>4. ASSUME NEW g \in Game \ strayed PROVE InSeq(g)'
  <2>1. InSeq(g) /\ list[g].events \in SUBSET Entry /\ Shows(g).events \in SUBSET Entry
    BY SeqParts, ListTypes
  <2>2. Handled(g, epoch, list[g])'
    BY <1>1, <1>2, <2>1 DEF InSeq, Handled
  <2>3. CASE s = "events"
    <3>1. held'["events"].epoch = epoch /\ Shows(g)' = list[g]
      BY <1>3, <2>3 DEF Snapshot, Shows
    <3>2. Handled(g, held["events"].epoch, Shows(g))'
      BY <1>1, <1>2, <2>1, <3>1 DEF InSeq, Handled
    <3>3. list[g].seq \in Nat /\ Shows(g).seq \in Nat
      BY ListTypes
    <3>4. ASSUME session[g] # "gone", last[g] # None, last[g].epoch = epoch
          PROVE  last[g].seq <= list[g].seq
      <4>1. held["events"].epoch = epoch /\ last[g].seq \in Nat
        BY <3>4, Epochs
      <4>2. Shows(g).seq <= list[g].seq /\ last[g].seq <= Shows(g).seq
        BY <2>1, <3>4, <4>1 DEF InSeq, Behind
      <4> QED BY <3>3, <4>1, <4>2
    <3>5. Carried(g)'
      BY <1>1, <3>1 DEF Carried
    <3>6. list[g].seq <= list[g].seq
      BY <3>3
    <3>7. Behind(g)'
      BY <1>1, <3>1, <3>4, <3>6 DEF Behind
    <3> QED BY <2>2, <3>2, <3>5, <3>7 DEF InSeq
  <2>4. CASE s # "events"
    <3>1. held'["events"] = held["events"] /\ Shows(g)' = Shows(g)
      BY <1>3, <2>4 DEF Shows
    <3>2. Handled(g, held["events"].epoch, Shows(g))'
      BY <1>1, <1>2, <2>1, <3>1 DEF InSeq, Handled
    <3>3. Carried(g)' /\ Behind(g)'
      BY <1>1, <2>1, <3>1 DEF InSeq, Carried, Behind
    <3> QED BY <2>2, <3>2, <3>3 DEF InSeq
  <2> QED BY <2>3, <2>4
<1> QED BY <1>1, <1>4 DEF SeqInv, InSeq, Handled, Carried, Behind, Shows

LEMMA SeqStep ==
  ASSUME TypeOK, StreamInv, ListInv, BucketInv, SeqInv, [Next]_vars
  PROVE  SeqInv'
<1>0. list \in [Game -> List]
  BY DEF TypeOK, ServiceType
<1>1. ASSUME NEW h \in Game, ClearList(h) PROVE SeqInv'
  <2>1. /\ UNCHANGED <<held, loops, evaluation, epoch>> /\ strayed \subseteq strayed'
    BY <1>1 DEF ClearList
  <2>2. \A g \in Game : \/ list'[g] = list[g]
                        \/ list'[g].events = {} /\ list'[g].seq = list[g].seq
    BY <1>0, <1>1 DEF ClearList, Cleared, List
  <2> QED BY <2>1, <2>2, SeqShrinks
<1>2. ASSUME NEW h \in Game, DropScope(h) PROVE SeqInv'
  <2>1. /\ UNCHANGED <<held, loops, evaluation, epoch>> /\ strayed \subseteq strayed'
        /\ session[h] = "gone" \/ h \in strayed'
    BY <1>2 DEF DropScope
  <2>2. \A g \in Game : \/ list'[g] = list[g]
                        \/ list'[g].events = {} /\ g = h
    BY <1>0, <1>2 DEF DropScope, Empty
  <2>3. \A g \in Game \ strayed' : \/ list'[g] = list[g]
                                   \/ list'[g].events = {} /\ list'[g].seq = list[g].seq
                                   \/ list'[g].events = {} /\ session[g] = "gone"
    BY <2>1, <2>2
  <2> QED BY <2>1, <2>3, SeqShrinks
<1>3. CASE SetAllowed \/ UNCHANGED vars
  <2>1. UNCHANGED <<held, loops, evaluation, epoch, list, strayed>>
    BY <1>3 DEF SetAllowed, vars, service
  <2>2. strayed \subseteq strayed' /\ \A g \in Game : list'[g] = list[g]
    BY <2>1
  <2> QED BY <2>1, <2>2, SeqShrinks
<1>4. CASE CoordinatorStep
  BY <1>4, SeqCoordinates, SeqReads
<1> QED BY <1>1, <1>2, <1>3, <1>4, SeqAppend, SeqRestarts, SeqDelivers, Steps DEF ServiceStep

\* A list that is not read keeps the evaluation awake.
Awake(g) ==
  session[g] = "live" /\ last[g] # None /\ Unread(g) =>
    \/ scheduled \/ dirty
    \/ g \in pass.todo \/ (pass.at = "read" /\ pass.game = g)
    \/ recheck /\ (Lags \/ pass.at = "idle")

LEMMA WakeParts ==
  WakeInv <=> (pass.at = "idle" => ~dirty /\ pass.todo = {}) /\ \A g \in Game : Awake(g)
BY DEF WakeInv, Awake

\* What leaves the wakes of the evaluation as they are
LEMMA WakeKept ==
  ASSUME TypeOK, WakeInv, UNCHANGED <<held, allowSeen, wakes>>,
         pass'.todo = pass.todo, pass' = pass \/ (pass.at = "events" /\ pass'.at = "next"),
         \A g \in Game : session'[g] = "live" =>
                          last'[g] = last[g] /\ (session[g] = "live" \/ last[g] = None)
  PROVE  WakeInv'
<1>1. \A g \in Game : Awake(g)
  BY WakeParts
<1>2. UNCHANGED <<dirty, scheduled, recheck>>
  BY DEF wakes
<1>3. ASSUME NEW g \in Game PROVE Awake(g)'
  <2>1. last'[g] = last[g] => (Unread(g)' <=> Unread(g))
    BY DEF Unread
  <2>2. Lags' <=> Lags
    BY DEF Lags, Covers, Stamp
  <2>3. Awake(g)
    BY <1>1
  <2>4. (pass.at = "read" \/ pass.at = "idle") => pass' = pass
    OBVIOUS
  <2> QED BY <1>2, <2>1, <2>2, <2>3, <2>4 DEF Awake
<1>4. pass'.at = "idle" => ~dirty' /\ pass'.todo = {}
  BY <1>2, WakeParts
<1> QED BY <1>3, <1>4 DEF WakeInv, Awake

\* A pass begins: every live game is before it.
LEMMA WakeBegins ==
  ASSUME PassStarts, UNCHANGED session
  PROVE  WakeInv'
<1>1. pass'.at = "next" /\ pass'.todo = {g \in Game : session[g] = "live"}
  BY DEF PassStarts
<1> QED BY <1>1 DEF WakeInv

LEMMA WakeNext ==
  ASSUME TypeOK, WakeInv, NEW h \in Game, NextGame(h)
  PROVE  WakeInv'
<1>1. /\ pass.at = "next" /\ pass' = [at |-> "read", todo |-> pass.todo \ {h}, game |-> h]
      /\ last' = [last EXCEPT ![h] = IF @ = None THEN [epoch |-> 0, seq |-> 0] ELSE @]
      /\ UNCHANGED <<session, held, allowSeen, dirty, scheduled, recheck>>
  BY DEF NextGame, loops, wakes
<1>2. ASSUME NEW g \in Game PROVE Awake(g)'
  <2>1. CASE g = h
    BY <1>1, <2>1 DEF Awake
  <2>2. CASE g # h
    <3>1. last'[g] = last[g]
      BY <1>1, <2>2 DEF TypeOK
    <3>2. (Unread(g)' <=> Unread(g)) /\ (Lags' <=> Lags)
      BY <1>1, <3>1 DEF Unread, Lags, Covers, Stamp
    <3>3. Awake(g)
      BY WakeParts
    <3> QED BY <1>1, <2>2, <3>1, <3>2, <3>3 DEF Awake
  <2> QED BY <2>1, <2>2
<1> QED BY <1>1, <1>2 DEF WakeInv, Awake

\* A read that is deferred is read again, any other has read the list.
LEMMA WakeReads ==
  ASSUME TypeOK, WakeInv, ReadEvents
  PROVE  WakeInv'
<1> SUFFICES ASSUME NEW p \in Game, p = pass.game
             PROVE  WakeInv'
  BY DEF ReadEvents, TypeOK, PassType
<1>1. /\ pass.at = "read" /\ pass'.at # "idle" /\ pass'.todo = pass.todo
      /\ recheck' = Lags
      /\ allowSeen' = IF Covers(allowSeen, Stamp("events")) THEN allowSeen ELSE Stamp("allow")
      /\ last' = IF last[p] # None /\ Unread(p) /\ ~Lags
                   THEN [last EXCEPT ![p] = [epoch |-> held["events"].epoch,
                                             seq |-> Shows(p).seq]]
                   ELSE last
      /\ UNCHANGED <<session, held, dirty, scheduled>>
  BY DEF ReadEvents, Moves, Shows, loops, TypeOK, PassType
<1>2. Lags => Lags'
  <2> SUFFICES ASSUME Lags PROVE Lags'
    OBVIOUS
  <2>1. ~Covers(allowSeen, Stamp("events")) /\ ~Covers(Stamp("allow"), Stamp("events"))
    BY DEF Lags
  <2>2. /\ allowSeen' = Stamp("allow") /\ Stamp("allow")' = Stamp("allow")
        /\ Stamp("events")' = Stamp("events")
    BY <1>1, <2>1 DEF Stamp
  <2>3. ~Covers(Stamp("allow"), Stamp("events"))' /\ ~Covers(allowSeen, Stamp("events"))'
    BY <2>1, <2>2 DEF Covers
  <2> QED BY <2>3 DEF Lags
<1>3. ASSUME NEW g \in Game PROVE Awake(g)'
  <2>1. Awake(g)
    BY WakeParts
  <2>2. CASE Lags
    <3>1. last' = last
      BY <1>1, <2>2
    <3>2. Unread(g)' <=> Unread(g)
      BY <1>1, <3>1 DEF Unread
    <3> QED BY <1>1, <1>2, <2>2 DEF Awake
  <2>3. CASE ~Lags /\ g # p
    <3>1. last'[g] = last[g]
      BY <1>1, <2>3 DEF TypeOK
    <3>2. Unread(g)' <=> Unread(g)
      BY <1>1, <3>1 DEF Unread
    <3>3. session[g] = "live" /\ last[g] # None /\ Unread(g) =>
            scheduled \/ dirty \/ g \in pass.todo
      BY <1>1, <2>1, <2>3 DEF Awake
    <3> QED BY <1>1, <3>1, <3>2, <3>3 DEF Awake
  <2>4. CASE ~Lags /\ g = p
    <3>1. CASE last[p] # None /\ Unread(p)
      <4>1. last'[p] = [epoch |-> held["events"].epoch, seq |-> Shows(p).seq]
        BY <1>1, <2>4, <3>1 DEF TypeOK
      <4>2. Shows(p).seq \in Nat
        BY ListTypes
      <4>3. ~Unread(p)'
        BY <1>1, <4>1, <4>2 DEF Unread, Shows
      <4> QED BY <2>4, <4>3 DEF Awake
    <3>2. CASE ~(last[p] # None /\ Unread(p))
      <4>1. last' = last
        BY <1>1, <3>2
      <4>2. Unread(p)' <=> Unread(p)
        BY <1>1, <4>1 DEF Unread
      <4> QED BY <2>4, <3>2, <4>1, <4>2 DEF Awake
    <3> QED BY <3>1, <3>2
  <2> QED BY <2>2, <2>3, <2>4
<1> QED BY <1>1, <1>3 DEF WakeInv, Awake

\* The evaluation rests only where nothing is before it or has come meanwhile.
LEMMA WakeOver ==
  ASSUME TypeOK, WakeInv, PassOver
  PROVE  WakeInv'
<1>1. /\ pass.at = "next" /\ pass.todo = {}
      /\ UNCHANGED <<session, held, scheduled>>
  BY DEF PassOver, loops
<1>2. CASE Again
  BY <1>1, <1>2, WakeBegins DEF PassOver
<1>3. CASE ~Again
  <2>1. /\ pass'.at = "idle" /\ pass'.todo = {} /\ ~dirty' /\ ~dirty
        /\ last' = last /\ recheck' = recheck
    BY <1>3 DEF PassOver, Idle, Again
  <2>2. ASSUME NEW g \in Game PROVE Awake(g)'
    <3>1. Unread(g)' <=> Unread(g)
      BY <1>1, <2>1 DEF Unread
    <3>2. Awake(g)
      BY WakeParts
    <3> QED BY <1>1, <2>1, <3>1, <3>2 DEF Awake
  <2> QED BY <2>1, <2>2 DEF WakeInv, Awake
<1> QED BY <1>2, <1>3

LEMMA FinishedPass ==
  ASSUME TypeOK, pass.at = "events", NEW f, Finished(f)
  PROVE  /\ pass'.todo = pass.todo
         /\ pass' = pass \/ (pass.at = "events" /\ pass'.at = "next")
BY DEF Finished, TypeOK, PassType

LEMMA WakeStep ==
  ASSUME TypeOK, BucketInv, WakeInv, [Next]_vars
  PROVE  WakeInv'
<1>1. ASSUME UNCHANGED <<held, allowSeen, wakes, last, session>>, pass'.todo = pass.todo,
             pass' = pass \/ (pass.at = "events" /\ pass'.at = "next")
      PROVE  WakeInv'
  BY <1>1, WakeKept
<1>2. CASE ServiceStep \/ UNCHANGED vars
  <2>1. UNCHANGED <<held, loops, evaluation, wakes>>
    BY <1>2 DEF ServiceStep, ClearList, DropScope, AppendEvent, SetAllowed, RestartService, vars
  <2>2. UNCHANGED <<allowSeen, last, session, pass>>
    BY <2>1 DEF loops, evaluation
  <2> QED BY <1>1, <2>1, <2>2
<1>3. ASSUME scheduled', UNCHANGED <<pass, dirty>> PROVE WakeInv'
  BY <1>3 DEF WakeInv
<1>4. ASSUME NEW s \in Stream, Deliver(s) PROVE WakeInv'
  BY <1>3, <1>4 DEF Deliver, evaluation
<1>5. CASE RecheckFires
  BY <1>3, <1>5 DEF RecheckFires, evaluation
<1>6. pass.at = "events" <=> queue # {}
  BY DEF TypeOK, PassType
<1>7. effect # "none" => pass.at = "events"
  BY DEF TypeOK, PassType
<1>8. ASSUME NEW h \in Game, LoopStops(h) PROVE WakeInv'
  <2>1. UNCHANGED <<held, allowSeen, wakes, last>>
    BY <1>8 DEF LoopStops
  <2>2. pass'.todo = pass.todo /\ (pass' = pass \/ (pass.at = "events" /\ pass'.at = "next"))
    BY <1>7, <1>8, FinishedPass DEF LoopStops, Awaits
  <2>3. \A g \in Game : session'[g] = "live" => session[g] = "live"
    BY <1>8 DEF LoopStops, TypeOK, LoopType
  <2> QED BY <2>1, <2>2, <2>3, WakeKept
<1>9. ASSUME NEW h \in Game, EffectEnds(h) \/ EffectTurn(h) PROVE WakeInv'
  <2>1. UNCHANGED <<held, allowSeen, wakes, last, session>>
    BY <1>9 DEF EffectEnds, EffectTurn
  <2>2. pass'.todo = pass.todo /\ (pass' = pass \/ (pass.at = "events" /\ pass'.at = "next"))
    BY <1>7, <1>9, FinishedPass DEF EffectEnds, EffectTurn
  <2> QED BY <1>1, <2>1, <2>2
<1>10. CASE Block \/ Dispatch \/ GiveUp
  <2>1. UNCHANGED <<held, allowSeen, wakes, last, session>>
    BY <1>10 DEF Block, Dispatch, GiveUp, loops
  <2>2. pass'.todo = pass.todo /\ (pass' = pass \/ (pass.at = "events" /\ pass'.at = "next"))
    BY <1>7, <1>10, FinishedPass DEF Block, Dispatch, GiveUp
  <2> QED BY <1>1, <2>1, <2>2
<1>11. ASSUME NEW h \in Game, Built(h) PROVE WakeInv'
  <2>1. UNCHANGED <<held, allowSeen, wakes, last, pass>>
    BY <1>11 DEF Built, evaluation
  <2>2. session[h] = "starting" /\ last[h] = None
    BY <1>11, BucketParts DEF Built, Bucket
  <2>3. \A g \in Game : g # h => session'[g] = session[g]
    BY <1>11 DEF Built, TypeOK, LoopType
  <2>4. \A g \in Game : session'[g] = "live" =>
                          last'[g] = last[g] /\ (session[g] = "live" \/ last[g] = None)
    BY <2>1, <2>2, <2>3
  <2> QED BY <2>1, <2>4, WakeKept
<1>12. ASSUME NEW h \in Game, Retire(h) PROVE WakeInv'
  <2>1. UNCHANGED <<held, allowSeen, wakes, pass>>
    BY <1>12 DEF Retire
  <2>2. \A g \in Game : session'[g] = "live" =>
                          last'[g] = last[g] /\ (session[g] = "live" \/ last[g] = None)
    BY <1>12 DEF Retire, TypeOK, LoopType
  <2> QED BY <2>1, <2>2, WakeKept
<1>13. CASE EvaluateAll
  <2>1. CASE pass.at = "idle"
    BY <1>13, <2>1, WakeBegins DEF EvaluateAll, loops
  <2>2. CASE pass.at # "idle"
    BY <1>13, <2>2 DEF EvaluateAll, WakeInv
  <2> QED BY <2>1, <2>2
<1> QED BY <1>2, <1>4, <1>5, <1>8, <1>9, <1>10, <1>11, <1>12, <1>13, WakeNext, WakeReads, WakeOver,
           Steps DEF CoordinatorStep

-----------------------------------------------------------------------------
(* What the module promises of an event *)

WholeInv == TypeOK /\ EventsInv

LEMMA WholeInit == Init => WholeInv
<1> SUFFICES ASSUME Init PROVE WholeInv
  OBVIOUS
<1>1. TypeOK /\ StampInv /\ NewInv /\ ForbiddenInv
  BY KillInit DEF KillInv
<1>2. /\ home = [i \in Event |-> None] /\ list = [g \in Game |-> Empty]
      /\ held["events"].value = list /\ held["events"].epoch = 1 /\ epoch = 1
      /\ Empty.events = {} /\ Empty.seq = 0
  BY DEF Init, Snapshot, Stream, Empty
<1>3. ListInv
  BY <1>2 DEF ListInv, Ordered, Ahead
<1>4. \A i \in Event : Untouched(i)
  BY <1>1, <1>2 DEF NewInv
<1>5. BucketInv
  BY <1>4 DEF Init, BucketInv, Unspoilt, Idle
<1>6. QueueInv
  BY DEF Init, QueueInv, Idle
<1>7. LoopInv
  BY <1>2, EventsAssumption, EmptySeq DEF Init, LoopInv
<1>8. SeqInv
  BY <1>2 DEF SeqInv, Init
<1>9. WakeInv
  BY DEF Init, WakeInv, Idle
<1> QED BY <1>1, <1>3, <1>5, <1>6, <1>7, <1>8, <1>9 DEF WholeInv, EventsInv

LEMMA WholeStep == WholeInv /\ [Next]_vars => WholeInv'
<1> SUFFICES ASSUME WholeInv, [Next]_vars PROVE WholeInv'
  OBVIOUS
<1>1. /\ TypeOK /\ StampInv /\ ListInv /\ NewInv /\ ForbiddenInv /\ BucketInv /\ QueueInv /\ LoopInv
      /\ SeqInv /\ WakeInv
  BY DEF WholeInv, EventsInv
<1>2. StreamInv
  BY <1>1, StampParts
<1>3. TypeOK' /\ StampInv' /\ NewInv' /\ ForbiddenInv'
  BY <1>1, KillStep DEF KillInv
<1>4. ListInv'
  BY <1>1, ListStep
<1>5. BucketInv'
  BY <1>1, <1>2, BucketStep
<1>6. QueueInv' /\ LoopInv'
  BY <1>1, LoopStep
<1>7. SeqInv'
  BY <1>1, <1>2, SeqStep
<1>8. WakeInv'
  BY <1>1, WakeStep
<1> QED BY <1>3, <1>4, <1>5, <1>6, <1>7, <1>8 DEF WholeInv, EventsInv

\* What the lists, the buckets, the pass, the loops and the wakes keep true of
\* each other (write.go, _evaluate_event_list, game_loop_dispatch.py).
THEOREM EventsHold == Spec => []WholeInv
<1> QED BY WholeInit, WholeStep, PTL DEF Spec

\* An effect starts once at most; an event recorded as blocked never started,
\* one recorded as applied or as refused by its handler did.
THEOREM RecordsTrue == Spec => []RecordTrue
<1>1. WholeInv => RecordTrue
  <2> SUFFICES ASSUME WholeInv, NEW i \in Event, home[i] \notin haunted
               PROVE  /\ starts[i] <= 1
                      /\ fate[i] = "blocked" => starts[i] = 0
                      /\ fate[i] \in Ran => starts[i] = 1
    BY DEF RecordTrue
  <2>1. CASE home[i] = None
    BY <2>1 DEF WholeInv, EventsInv, NewInv, Untouched, Ran
  <2>2. CASE home[i] \in Game
    BY <2>2, LoopParts DEF WholeInv, EventsInv, Recorded
  <2> QED BY <2>1, <2>2, ListTypes DEF WholeInv
<1> QED BY EventsHold, <1>1, PTL

\* An evaluation that rests has read every list of a live game it has seen,
\* and no event at or below what a bucket has read is left behind.
THEOREM NoneSkipped == Spec => []NothingSkipped
<1>1. WholeInv => NothingSkipped
  <2> SUFFICES ASSUME WholeInv PROVE NothingSkipped
    OBVIOUS
  <2>1. NoLostWakeup
    BY DEF WholeInv, EventsInv, WakeInv, NoLostWakeup
  <2>2. \A g \in Game \ strayed : Handled(g, held["events"].epoch, Shows(g))
    BY SeqParts DEF WholeInv, EventsInv, InSeq
  <2> QED BY <2>1, <2>2 DEF NothingSkipped, Handled, HandledIn, Shows
<1> QED BY EventsHold, <1>1, PTL

\* No effect of a game starts behind one of a later event of that game.
THEOREM StartsInOrder == Spec => InOrder
<1> DEFINE Later ==
      \A i, j \in Event :
        i < j /\ starts'[i] > starts[i] /\ home[i] = home[j] /\ home[i] \notin haunted
          => starts[j] = 0
<1>1. WholeInv /\ [Next]_vars => [Later]_vars
  <2> SUFFICES ASSUME WholeInv, Next, NEW i \in Event, NEW j \in Event, i < j,
                      starts'[i] > starts[i], home[i] = home[j], home[i] \notin haunted
               PROVE  starts[j] = 0
    OBVIOUS
  <2>1. TypeOK /\ QueueInv /\ LoopInv
    BY DEF WholeInv, EventsInv
  <2>2. starts \in [Event -> Nat] /\ ~(starts[i] > starts[i])
    BY <2>1 DEF TypeOK, LoopType
  <2>3. PICK g \in Game : EffectTurn(g)
    <3>1. starts' # starts
      BY <2>2
    <3> QED BY <3>1 DEF Next, ClearList, DropScope, AppendEvent, Built, LoopStops, Retire, EffectEnds,
                        NextGame, Deliver, SetAllowed, RestartService, EvaluateAll, ReadEvents,
                        Block, Dispatch, GiveUp, PassOver, RecheckFires, loops
  <2>4. ~Head(chain[g]).skip
    BY <2>2, <2>3 DEF EffectTurn, MayStart
  <2>5. /\ g = pass.game /\ pass.at = "events"
        /\ starts' = [starts EXCEPT ![First(queue).id] = @ + 1]
    BY <2>1, <2>3, <2>4, TurnStarts
  <2>6. i = First(queue).id
    BY <2>2, <2>5
  <2>7. First(queue) \in queue /\ home[i] = g
    BY <2>1, <2>5, <2>6, QueueOrder
  <2>8. starts[j] > 0 => j <= i
    BY <2>1, <2>5, <2>6, <2>7, QueueParts DEF Fore
  <2>9. i \in Nat /\ j \in Nat /\ starts[j] \in Nat
    BY <2>2, EventsAssumption DEF Event
  <2> QED BY <2>8, <2>9
<1> QED BY EventsHold, <1>1, PTL DEF Spec, InOrder
=============================================================================
