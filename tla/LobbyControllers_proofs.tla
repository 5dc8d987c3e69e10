---------------------- MODULE LobbyControllers_proofs ----------------------
(***************************************************************************)
(* Whatever holds a start back, shows a state or sleeps in the lobby has   *)
(* its owner or its reason, for any number of controllers and sentinels.   *)
(***************************************************************************)
EXTENDS LobbyControllers, TLAPS

-----------------------------------------------------------------------------
(* The controllers and the admin session as one record                     *)

State == {"gone", "CONNECTED", "READY", "ADMIN", "IDLE"}
Lamp == {"dark", "dim", "bright", "white", "pulse", "left"}
HoldStep == {"none"} \cup Timing \cup Starting
Record == [ctl : [Controller -> State], lamp : [Controller -> Lamp],
           session : Controller \cup {None}, timer : Controller \cup {None},
           hold : [Controller -> HoldStep], holdTask : Controller \cup {None}]

Timed(m) == m.timer = m.session
Lit(m) ==
  stream => \A s \in Controller :
    /\ m.ctl[s] = "CONNECTED" => m.lamp[s] \in {"dim", "left"}
    /\ m.ctl[s] = "READY" => m.lamp[s] \in {"bright", "left"}
    /\ m.ctl[s] = "IDLE" => m.lamp[s] \in {"dark", "pulse", "left"}
Forced(m) == forcing => \E s \in Controller : m.hold[s] \in Starting
Held(m) ==
  \A s \in Controller :
    /\ m.hold[s] \in {"timing", "loose"} => m.holdTask = s /\ m.session # None
    /\ m.hold[s] = "loose" => m.session # s

\* What the invariant says of the record.
Good(m) == m \in Record /\ Timed(m) /\ Lit(m) /\ Forced(m) /\ Held(m)

\* No handler but the idle monitor puts anybody to sleep.
Awake(m, n) == \A s \in Controller : n.ctl[s] = "IDLE" => m.ctl[s] = "IDLE"

\* Only a hold that fires asks for the roster.
Quiet(m, n) == \A s \in Controller : n.hold[s] = "roster" => m.hold[s] = "roster"

RecordTyped ==
  /\ ctl \in [Controller -> State] /\ lamp \in [Controller -> Lamp]
  /\ session \in Controller \cup {None} /\ timer \in Controller \cup {None}
  /\ hold \in [Controller -> HoldStep] /\ holdTask \in Controller \cup {None}

\* The record is good where the invariant says so of the variables in it.
LEMMA LobbyIsGood ==
  Good(Lobby) <=> RecordTyped /\ SessionTimed /\ LampsKept /\ ForcingOwned /\ HoldsOwned
<1>1. Lobby \in Record <=> RecordTyped
  BY DEF Lobby, Record, RecordTyped
<1>2. Timed(Lobby) <=> SessionTimed
  BY DEF Lobby, Timed, SessionTimed
<1>3. Lit(Lobby) <=> LampsKept
  BY DEF Lobby, Lit, LampsKept
<1>4. Forced(Lobby) <=> ForcingOwned
  BY DEF Lobby, Forced, ForcingOwned
<1>5. Held(Lobby) <=> HoldsOwned
  BY DEF Lobby, Held, HoldsOwned
<1> QED BY <1>1, <1>2, <1>3, <1>4, <1>5 DEF Good

\* So it is behind a step.
LEMMA LobbyIsGoodNext ==
  Good(Lobby)' <=> (RecordTyped /\ SessionTimed /\ LampsKept /\ ForcingOwned /\ HoldsOwned)'
<1>1. (Lobby \in Record)' <=> RecordTyped'
  BY DEF Lobby, Record, RecordTyped
<1>2. Timed(Lobby)' <=> SessionTimed'
  BY DEF Lobby, Timed, SessionTimed
<1>3. Lit(Lobby)' <=> LampsKept'
  BY DEF Lobby, Lit, LampsKept
<1>4. Forced(Lobby)' <=> ForcingOwned'
  BY DEF Lobby, Forced, ForcingOwned
<1>5. Held(Lobby)' <=> HoldsOwned'
  BY DEF Lobby, Held, HoldsOwned
<1> QED BY <1>1, <1>2, <1>3, <1>4, <1>5 DEF Good

\* HoldHonest of one step.
Honest == \A s \in Controller : hold[s] = "loose" => hold'[s] # "roster"

\* A handler leaves a good record behind.
LEMMA GoodBecomes ==
  ASSUME NEW m, Good(m), Quiet(Lobby, m), Becomes(m), UNCHANGED <<forcing, stream>>
  PROVE  Good(Lobby)' /\ Honest
<1> USE DEF Lobby, Becomes, Good
<1>1. (Lobby \in Record)'
  BY DEF Record
<1>2. Timed(Lobby)'
  BY DEF Timed
<1>3. Lit(Lobby)'
  BY DEF Lit
<1>4. Forced(Lobby)'
  BY DEF Forced
<1>5. Held(Lobby)'
  BY DEF Held
<1>6. Honest
  BY DEF Quiet, Honest
<1> QED BY <1>1, <1>2, <1>3, <1>4, <1>5, <1>6

\* A step that leaves the controllers and the admin session alone.
LEMMA GoodStays ==
  ASSUME Good(Lobby), UNCHANGED <<controllers, admin>>, stream' \in {stream, FALSE}
  PROVE  Good(Lobby)' /\ Honest
<1> USE DEF controllers, admin
<1>1. RecordTyped /\ SessionTimed /\ LampsKept /\ ForcingOwned /\ HoldsOwned
  BY LobbyIsGood
<1>2. RecordTyped'
  BY <1>1 DEF RecordTyped
<1>3. SessionTimed' /\ ForcingOwned' /\ HoldsOwned'
  BY <1>1 DEF SessionTimed, ForcingOwned, HoldsOwned
<1>4. LampsKept'
  BY <1>1 DEF LampsKept
<1>5. Honest
  BY DEF Honest
<1> QED BY <1>2, <1>3, <1>4, <1>5, LobbyIsGoodNext

-----------------------------------------------------------------------------
(* What the handlers' operators do to it                                   *)

\* A colour is sent, and shows if the stream is open.
LEMMA PaintEffect ==
  ASSUME NEW m \in Record, NEW s \in Controller, NEW colour \in Lamp
  PROVE  LET n == Paint(m, s, colour)
         IN  /\ n \in Record
             /\ n.ctl = m.ctl /\ n.session = m.session /\ n.timer = m.timer
             /\ n.hold = m.hold /\ n.holdTask = m.holdTask
             /\ \A r \in Controller \ {s} : n.lamp[r] = m.lamp[r]
             /\ stream => n.lamp[s] = colour
BY DEF Paint, Record

\* exit and abandon_session: nothing of the session is left, nor its hold, but a force start.
LEMMA ClosedEffect ==
  ASSUME NEW m \in Record
  PROVE  LET n == Closed(m)
         IN  /\ n \in Record
             /\ n.ctl = m.ctl /\ n.lamp = m.lamp
             /\ n.session = None
             /\ m.session # None => n.timer = None /\ n.holdTask = None
             /\ m.session = None => n = m
             /\ m.session # None => \A s \in Controller :
                  n.hold[s] = IF s # m.holdTask THEN m.hold[s]
                              ELSE IF ~forcing THEN "none"
                              ELSE IF m.hold[s] \in Timing THEN "stray"
                              ELSE m.hold[s]
<1>1. CASE m.session = None
  BY <1>1 DEF Closed
<1>2. CASE m.session # None
  <2> DEFINE h == [s \in Controller |-> IF s # m.holdTask THEN m.hold[s]
                                        ELSE IF ~forcing THEN "none"
                                        ELSE IF m.hold[s] \in Timing THEN "stray"
                                        ELSE m.hold[s]]
  <2>1. h \in [Controller -> HoldStep]
    BY DEF Record, HoldStep, Timing
  <2>2. Closed(m) = [m EXCEPT !.session = None, !.timer = None, !.holdTask = None,
                              !.hold = h]
    BY <1>2 DEF Closed
  <2> HIDE DEF h
  <2>3. /\ Closed(m) \in Record /\ Closed(m).hold = h
        /\ Closed(m).ctl = m.ctl /\ Closed(m).lamp = m.lamp /\ Closed(m).session = None
        /\ Closed(m).timer = None /\ Closed(m).holdTask = None
    BY <2>1, <2>2 DEF Record
  <2> QED BY <1>2, <2>3 DEF h
<1> QED BY <1>1, <1>2

\* They leave a good record, wake nobody and fire no hold.
LEMMA ClosedGood ==
  ASSUME NEW m, Good(m)
  PROVE  /\ Good(Closed(m)) /\ Quiet(m, Closed(m))
         /\ Closed(m).session = None /\ Closed(m).ctl = m.ctl
<1> DEFINE n == Closed(m)
<1>0. m \in Record
  BY DEF Good
<1>1. /\ n \in Record
      /\ n.ctl = m.ctl /\ n.lamp = m.lamp
      /\ n.session = None
      /\ m.session # None => n.timer = None /\ n.holdTask = None
      /\ m.session = None => n = m
      /\ m.session # None => \A s \in Controller :
           n.hold[s] = IF s # m.holdTask THEN m.hold[s]
                       ELSE IF ~forcing THEN "none"
                       ELSE IF m.hold[s] \in Timing THEN "stray"
                       ELSE m.hold[s]
  BY <1>0, ClosedEffect
<1> HIDE DEF n
<1>2. CASE m.session = None
  BY <1>1, <1>2 DEF n, Quiet
<1>3. CASE m.session # None
  <2>1. Timed(n) /\ Lit(n)
    BY <1>1, <1>3 DEF Good, Timed, Lit
  <2>2. Forced(n)
    BY <1>1, <1>3 DEF Good, Forced, Starting, Timing
  <2>3. Held(n)
    BY <1>1, <1>3 DEF Good, Held, Timing
  <2>4. Quiet(m, n)
    BY <1>1, <1>3 DEF Quiet
  <2> QED BY <1>1, <2>1, <2>2, <2>3, <2>4 DEF Good, n
<1> QED BY <1>2, <1>3

\* AdminModeHandler.on_exit ends at most the session there is.
LEMMA ExitedGood ==
  ASSUME NEW m, Good(m), NEW s \in Controller
  PROVE  /\ Good(Exited(m, s)) /\ Quiet(m, Exited(m, s)) /\ Exited(m, s).ctl = m.ctl
         /\ Exited(m, s).session \in {None, m.session}
<1>1. Quiet(m, m)
  BY DEF Quiet
<1> QED BY <1>1, ClosedGood DEF Exited

\* A controller changes its state in a record, and is painted in the state's colour.
LEMMA ChangedGood ==
  ASSUME NEW m, Good(m), NEW s \in Controller, NEW new \in State \ {"ADMIN"},
         NEW colour \in Lamp,
         new = "CONNECTED" => colour = "dim", new = "READY" => colour = "bright",
         new = "IDLE" => colour = "dark"
  PROVE  /\ Good(Paint([m EXCEPT !.ctl[s] = new], s, colour))
         /\ Paint([m EXCEPT !.ctl[s] = new], s, colour).ctl = [m.ctl EXCEPT ![s] = new]
         /\ Paint([m EXCEPT !.ctl[s] = new], s, colour).session = m.session
         /\ Paint([m EXCEPT !.ctl[s] = new], s, colour).hold = m.hold
<1> DEFINE a == [m EXCEPT !.ctl[s] = new]
           n == Paint(a, s, colour)
<1>1. /\ a \in Record /\ a.ctl = [m.ctl EXCEPT ![s] = new] /\ a.lamp = m.lamp
      /\ a.session = m.session /\ a.timer = m.timer /\ a.hold = m.hold
      /\ a.holdTask = m.holdTask /\ m.ctl \in [Controller -> State]
  BY DEF Good, Record
<1> HIDE DEF a
<1>2. /\ n \in Record
      /\ n.ctl = a.ctl /\ n.session = a.session /\ n.timer = a.timer
      /\ n.hold = a.hold /\ n.holdTask = a.holdTask
      /\ \A r \in Controller \ {s} : n.lamp[r] = a.lamp[r]
      /\ stream => n.lamp[s] = colour
  BY <1>1, PaintEffect
<1> HIDE DEF n
<1>3. Timed(n) /\ Forced(n) /\ Held(n)
  BY <1>1, <1>2 DEF Good, Timed, Forced, Held
<1>4. Lit(n)
  BY <1>1, <1>2 DEF Good, Lit
<1> QED BY <1>1, <1>2, <1>3, <1>4 DEF Good, n, a

\* AdminModeHandler.enter, by the one who has the session or finds none.
LEMMA EnteredGood ==
  ASSUME NEW m, Good(m), NEW s \in Controller, m.session \in {None, s}
  PROVE  /\ Good(Entered([m EXCEPT !.ctl[s] = "ADMIN"], s))
         /\ Entered([m EXCEPT !.ctl[s] = "ADMIN"], s).ctl = [m.ctl EXCEPT ![s] = "ADMIN"]
         /\ Entered([m EXCEPT !.ctl[s] = "ADMIN"], s).hold = m.hold
<1> DEFINE a == [[m EXCEPT !.ctl[s] = "ADMIN"] EXCEPT !.session = s, !.timer = s]
           n == Paint(a, s, "white")
<1>1. /\ a \in Record /\ a.ctl = [m.ctl EXCEPT ![s] = "ADMIN"] /\ a.lamp = m.lamp
      /\ a.session = s /\ a.timer = s /\ a.hold = m.hold
      /\ a.holdTask = m.holdTask /\ m.ctl \in [Controller -> State]
  BY DEF Good, Record, State
<1> HIDE DEF a
<1>2. "white" \in Lamp
  BY DEF Lamp
<1>3. /\ n \in Record
      /\ n.ctl = a.ctl /\ n.session = a.session /\ n.timer = a.timer
      /\ n.hold = a.hold /\ n.holdTask = a.holdTask
      /\ \A r \in Controller \ {s} : n.lamp[r] = a.lamp[r]
  BY <1>1, <1>2, PaintEffect
<1> HIDE DEF n
<1>4. Timed(n) /\ Forced(n)
  BY <1>1, <1>3 DEF Good, Timed, Forced
<1>5. Held(n)
  BY <1>1, <1>3, LobbyAssumption DEF Good, Held
<1>6. Lit(n)
  BY <1>1, <1>3 DEF Good, Lit
<1>7. n = Entered([m EXCEPT !.ctl[s] = "ADMIN"], s)
  BY DEF n, a, Entered
<1> QED BY <1>1, <1>3, <1>4, <1>5, <1>6, <1>7 DEF Good

\* transition_to, by whoever may take the state.
LEMMA MovedGood ==
  ASSUME NEW m, Good(m), NEW s \in Controller, NEW new \in {"CONNECTED", "READY", "ADMIN"},
         new = "ADMIN" => m.session \in {None, s}
  PROVE  /\ Good(Moved(m, s, new)) /\ Awake(m, Moved(m, s, new))
         /\ Quiet(m, Moved(m, s, new))
         /\ \A r \in Controller \ {s} : Moved(m, s, new).ctl[r] = m.ctl[r]
         /\ Moved(m, s, new).ctl[s] \in {m.ctl[s], new}
         /\ m.ctl[s] \in State \ {"gone", new} => Moved(m, s, new).ctl[s] = new
<1> DEFINE old == IF m.ctl[s] = "gone" THEN "CONNECTED" ELSE m.ctl[s]
           e == Exited(m, s)
<1>1. m.ctl \in [Controller -> State]
  BY DEF Good, Record
<1>2. Good(e) /\ Quiet(m, e) /\ e.ctl = m.ctl /\ e.session \in {None, m.session}
  BY ExitedGood
<1>3. CASE old = new
  BY <1>1, <1>3 DEF Moved, Awake, Quiet
<1>4. CASE old # new /\ new = "ADMIN"
  <2>1. Moved(m, s, new) = Entered([e EXCEPT !.ctl[s] = "ADMIN"], s)
    BY <1>4 DEF Moved
  <2> HIDE DEF e
  <2>2. e.session \in {None, s}
    BY <1>2, <1>4
  <2>3. /\ Good(Moved(m, s, new))
        /\ Moved(m, s, new).ctl = [e.ctl EXCEPT ![s] = "ADMIN"]
        /\ Moved(m, s, new).hold = e.hold
    BY <1>2, <2>1, <2>2, EnteredGood
  <2> QED BY <1>1, <1>2, <1>4, <2>3 DEF Awake, State, Quiet
<1>5. CASE old # new /\ new = "CONNECTED"
  <2>1. Moved(m, s, new) = Paint([e EXCEPT !.ctl[s] = new], s, "dim")
    BY <1>5 DEF Moved
  <2> HIDE DEF e
  <2>2. /\ Good(Moved(m, s, new))
        /\ Moved(m, s, new).ctl = [e.ctl EXCEPT ![s] = new]
        /\ Moved(m, s, new).hold = e.hold
    BY <1>2, <1>5, <2>1, ChangedGood DEF State, Lamp
  <2> QED BY <1>1, <1>2, <1>5, <2>2 DEF Awake, State, Quiet
<1>6. CASE old # new /\ new = "READY"
  <2>1. Moved(m, s, new) = Paint([e EXCEPT !.ctl[s] = new], s, "bright")
    BY <1>6 DEF Moved
  <2> HIDE DEF e
  <2>2. /\ Good(Moved(m, s, new))
        /\ Moved(m, s, new).ctl = [e.ctl EXCEPT ![s] = new]
        /\ Moved(m, s, new).hold = e.hold
    BY <1>2, <1>6, <2>1, ChangedGood DEF State, Lamp
  <2> QED BY <1>1, <1>2, <1>6, <2>2 DEF Awake, State, Quiet
<1> QED BY <1>3, <1>4, <1>5, <1>6

\* Several controllers take one state, and what it shows.
LEMMA EveryoneEffect ==
  ASSUME NEW m \in Record, NEW S \in SUBSET Controller,
         NEW new \in {"gone", "CONNECTED", "IDLE"}
  PROVE  LET n == Everyone(m, S, new)
         IN  /\ n \in Record
             /\ n.session = m.session /\ n.timer = m.timer
             /\ n.hold = m.hold /\ n.holdTask = m.holdTask
             /\ \A s \in Controller : n.ctl[s] = IF s \in S THEN new ELSE m.ctl[s]
             /\ \A s \in Controller \ S : n.lamp[s] = m.lamp[s]
             /\ stream => \A s \in S : /\ new = "CONNECTED" => n.lamp[s] = "dim"
                                       /\ new = "IDLE" => n.lamp[s] = "dark"
<1> DEFINE c == [s \in Controller |-> IF s \in S THEN new ELSE m.ctl[s]]
           l == [s \in Controller |->
                   CASE s \notin S -> m.lamp[s]
                     [] s \in S /\ new = "gone" -> "dark"
                     [] s \in S /\ new = "CONNECTED" /\ stream -> "dim"
                     [] s \in S /\ new = "IDLE" /\ stream -> "dark"
                     [] OTHER -> m.lamp[s]]
<1>1. m.ctl \in [Controller -> State] /\ m.lamp \in [Controller -> Lamp]
  BY DEF Record
<1>2. c \in [Controller -> State]
  BY <1>1 DEF State
<1>3. ASSUME NEW s \in Controller
      PROVE  /\ l[s] \in Lamp
             /\ s \notin S => l[s] = m.lamp[s]
             /\ stream /\ s \in S => /\ new = "CONNECTED" => l[s] = "dim"
                                     /\ new = "IDLE" => l[s] = "dark"
  BY <1>1 DEF Lamp
<1>4. l \in [Controller -> Lamp]
  BY <1>3
<1>5. Everyone(m, S, new) = [m EXCEPT !.ctl = c, !.lamp = l]
  BY DEF Everyone
<1>6. \A s \in Controller : c[s] = IF s \in S THEN new ELSE m.ctl[s]
  OBVIOUS
<1> HIDE DEF c, l
<1>7. /\ Everyone(m, S, new) \in Record
      /\ Everyone(m, S, new).ctl = c /\ Everyone(m, S, new).lamp = l
      /\ Everyone(m, S, new).session = m.session /\ Everyone(m, S, new).timer = m.timer
      /\ Everyone(m, S, new).hold = m.hold /\ Everyone(m, S, new).holdTask = m.holdTask
  BY <1>2, <1>4, <1>5 DEF Record
<1> QED BY <1>3, <1>6, <1>7

\* They are all painted in it, and the session stays what it was.
LEMMA EveryoneGood ==
  ASSUME NEW m, Good(m), NEW S \in SUBSET Controller,
         NEW new \in {"gone", "CONNECTED", "IDLE"}
  PROVE  /\ Good(Everyone(m, S, new)) /\ Quiet(m, Everyone(m, S, new))
         /\ \A s \in Controller :
              Everyone(m, S, new).ctl[s] = IF s \in S THEN new ELSE m.ctl[s]
<1> DEFINE n == Everyone(m, S, new)
<1>1. m \in Record
  BY DEF Good
<1>2. /\ n \in Record
      /\ n.session = m.session /\ n.timer = m.timer
      /\ n.hold = m.hold /\ n.holdTask = m.holdTask
      /\ \A s \in Controller : n.ctl[s] = IF s \in S THEN new ELSE m.ctl[s]
      /\ \A s \in Controller \ S : n.lamp[s] = m.lamp[s]
      /\ stream => \A s \in S : /\ new = "CONNECTED" => n.lamp[s] = "dim"
                                /\ new = "IDLE" => n.lamp[s] = "dark"
  BY <1>1, EveryoneEffect
<1> HIDE DEF n
<1>3. Timed(n) /\ Forced(n) /\ Held(n)
  BY <1>2 DEF Good, Timed, Forced, Held
<1>4. Lit(n)
  BY <1>2 DEF Good, Lit
<1> QED BY <1>2, <1>3, <1>4 DEF Good, n, Quiet

\* StateManager.reset leaves nobody asleep.
LEMMA ResetGood ==
  ASSUME NEW m, Good(m)
  PROVE  Good(Reset(m)) /\ Quiet(m, Reset(m)) /\ \A s \in Controller : Reset(m).ctl[s] # "IDLE"
<1> DEFINE S == {s \in Controller : m.ctl[s] # "gone"}
<1>1. Good(Closed(m)) /\ Quiet(m, Closed(m)) /\ Closed(m).ctl = m.ctl
  BY ClosedGood
<1>2. S \in SUBSET Controller
  OBVIOUS
<1>3. /\ Good(Everyone(Closed(m), S, "CONNECTED"))
      /\ Quiet(Closed(m), Everyone(Closed(m), S, "CONNECTED"))
      /\ \A s \in Controller : Everyone(Closed(m), S, "CONNECTED").ctl[s]
                                 = IF s \in S THEN "CONNECTED" ELSE Closed(m).ctl[s]
  <2> HIDE DEF S
  <2> QED BY <1>1, <1>2, EveryoneGood
<1> QED BY <1>1, <1>3 DEF Reset, Quiet

\* on_controller_disconnected, with the session of one that had it.
LEMMA DroppedGood ==
  ASSUME NEW m, Good(m), NEW S \in SUBSET Controller
  PROVE  Good(Dropped(m, S)) /\ Awake(m, Dropped(m, S)) /\ Quiet(m, Dropped(m, S))
<1> DEFINE a == IF \E s \in S : m.ctl[s] = "ADMIN" /\ ~OwnedByOther(m, s)
                THEN Closed(m) ELSE m
<1>1. Good(a) /\ Quiet(m, a) /\ a.ctl = m.ctl
  BY ClosedGood DEF Quiet
<1>2. Dropped(m, S) = Everyone(a, S, "gone")
  BY DEF Dropped
<1> HIDE DEF a
<1>3. /\ Good(Dropped(m, S)) /\ Quiet(a, Dropped(m, S))
      /\ \A s \in Controller : Dropped(m, S).ctl[s] = IF s \in S THEN "gone" ELSE a.ctl[s]
  BY <1>1, <1>2, EveryoneGood
<1> QED BY <1>1, <1>3 DEF Awake, Quiet

\* show_lobby_colors.
LEMMA RepaintedGood ==
  ASSUME NEW m, Good(m)
  PROVE  Good(Repainted(m)) /\ Awake(m, Repainted(m)) /\ Quiet(m, Repainted(m))
<1> DEFINE l == [s \in Controller |->
                   CASE stream /\ m.ctl[s] = "CONNECTED" -> "dim"
                     [] stream /\ m.ctl[s] = "READY" -> "bright"
                     [] OTHER -> m.lamp[s]]
           n == [m EXCEPT !.lamp = l]
<1>1. m.ctl \in [Controller -> State] /\ m.lamp \in [Controller -> Lamp] /\ m \in Record
  BY DEF Good, Record
<1>2. ASSUME NEW s \in Controller
      PROVE  /\ l[s] \in Lamp
             /\ stream /\ m.ctl[s] = "CONNECTED" => l[s] = "dim"
             /\ stream /\ m.ctl[s] = "READY" => l[s] = "bright"
             /\ m.ctl[s] = "IDLE" => l[s] = m.lamp[s]
  BY <1>1 DEF Lamp
<1>3. l \in [Controller -> Lamp] /\ n = Repainted(m)
  BY <1>2 DEF Repainted
<1> HIDE DEF l
<1>4. /\ n \in Record /\ n.lamp = l /\ n.ctl = m.ctl
      /\ n.session = m.session /\ n.timer = m.timer
      /\ n.hold = m.hold /\ n.holdTask = m.holdTask
  BY <1>1, <1>3 DEF Record
<1> HIDE DEF n
<1>5. Timed(n) /\ Forced(n) /\ Held(n)
  BY <1>4 DEF Good, Timed, Forced, Held
<1>6. Lit(n)
  BY <1>2, <1>4 DEF Good, Lit
<1> QED BY <1>3, <1>4, <1>5, <1>6 DEF Good, Awake, Quiet

-----------------------------------------------------------------------------
(* The actions that touch a hold, a lamp or the stream by themselves        *)

\* A hold begins in the place of another.
LEMMA HoldTriggerGood ==
  ASSUME TypeOK, Good(Lobby), NEW s \in Controller, HoldTrigger(s)
  PROVE  Good(Lobby)' /\ Honest
<1> DEFINE a == IF holdTask = None THEN hold ELSE [hold EXCEPT ![holdTask] = "none"]
<1>1. RecordTyped /\ SessionTimed /\ LampsKept /\ ForcingOwned /\ HoldsOwned
  BY LobbyIsGood
<1>2. /\ session # None /\ a[s] = "none"
      /\ hold' = [a EXCEPT ![s] = "timing"] /\ holdTask' = s
      /\ forcing' = (forcing /\ (holdTask # None => hold[holdTask] \notin Starting))
      /\ UNCHANGED <<ctl, lamp, session, timer, stream>>
  BY DEF HoldTrigger, controllers, wire
<1>3. a \in [Controller -> HoldStep]
  BY <1>1 DEF RecordTyped, HoldStep
<1>4. \A r \in Controller : hold'[r] = IF r = s THEN "timing" ELSE a[r]
  BY <1>2, <1>3
<1>5. \A r \in Controller : a[r] = IF r = holdTask THEN "none" ELSE hold[r]
  BY <1>1, LobbyAssumption DEF RecordTyped
<1>6. RecordTyped'
  BY <1>1, <1>2, <1>3 DEF RecordTyped, HoldStep, Timing
<1>7. SessionTimed' /\ LampsKept'
  BY <1>1, <1>2 DEF SessionTimed, LampsKept
<1>8. ForcingOwned'
  <2> SUFFICES ASSUME forcing'
               PROVE  \E r \in Controller : hold'[r] \in Starting
    BY DEF ForcingOwned
  <2>1. forcing /\ (holdTask # None => hold[holdTask] \notin Starting)
    BY <1>2
  <2>2. PICK r \in Controller : hold[r] \in Starting
    BY <1>1, <2>1 DEF ForcingOwned
  <2>3. r # holdTask
    BY <2>1, <2>2, LobbyAssumption
  <2>4. r # s
    BY <1>2, <1>5, <2>2, <2>3 DEF Starting
  <2> QED BY <1>4, <1>5, <2>2, <2>3, <2>4
<1>9. HoldsOwned'
  <2>1. ASSUME NEW r \in Controller, hold'[r] \in {"timing", "loose"}
        PROVE  r = s
    <3>1. r # s => hold[r] \in {"timing", "loose"} /\ r # holdTask
      BY <1>4, <1>5, <2>1
    <3> QED BY <1>1, <3>1 DEF HoldsOwned
  <2>2. hold'[s] = "timing" /\ holdTask' = s /\ session' # None
    BY <1>2, <1>4
  <2> QED BY <2>1, <2>2 DEF HoldsOwned
<1>10. Honest
  BY <1>4, <1>5 DEF Honest
<1> QED BY <1>6, <1>7, <1>8, <1>9, <1>10, LobbyIsGoodNext

\* A released trigger ends its hold, or leaves it to a session that is not its owner's.
LEMMA ReleaseTriggerGood ==
  ASSUME TypeOK, Good(Lobby), NEW s \in Controller, ReleaseTrigger(s)
  PROVE  Good(Lobby)' /\ Honest
<1> DEFINE ends == ctl[s] = "ADMIN" /\ session = s /\ holdTask # None /\ ~forcing
           heard == IF forcing \/ Stale(Lobby) THEN "stray" ELSE "loose"
           a == [Lobby EXCEPT !.hold[holdTask] = "none", !.holdTask = None]
           b == [Lobby EXCEPT !.hold[s] = heard]
<1>1. RecordTyped /\ SessionTimed /\ LampsKept /\ ForcingOwned /\ HoldsOwned
  BY LobbyIsGood
<1>2. UNCHANGED <<forcing, stream>>
  BY DEF ReleaseTrigger, wire
<1>3. CASE ends /\ Becomes(Paint(a, s, "white"))
  <2> DEFINE n == Paint(a, s, "white")
  <2>1. /\ a \in Record /\ a.ctl = ctl /\ a.lamp = lamp /\ a.session = session
        /\ a.timer = timer /\ a.holdTask = None
        /\ a.hold = [hold EXCEPT ![holdTask] = "none"]
    BY <1>1, <1>3 DEF Lobby, Record, RecordTyped, HoldStep
  <2> HIDE DEF a
  <2>2. "white" \in Lamp
    BY DEF Lamp
  <2>3. /\ n \in Record
        /\ n.ctl = a.ctl /\ n.session = a.session /\ n.timer = a.timer
        /\ n.hold = a.hold /\ n.holdTask = a.holdTask
        /\ \A r \in Controller \ {s} : n.lamp[r] = a.lamp[r]
    BY <2>1, <2>2, PaintEffect
  <2> HIDE DEF n
  <2>4. \A r \in Controller : n.hold[r] = IF r = holdTask THEN "none" ELSE hold[r]
    BY <1>1, <2>1, <2>3 DEF RecordTyped
  <2>5. Timed(n)
    BY <1>1, <2>1, <2>3 DEF Timed, SessionTimed
  <2>6. Lit(n)
    BY <1>1, <1>3, <2>1, <2>3 DEF Lit, LampsKept
  <2>7. Forced(n)
    BY <1>3 DEF Forced
  <2>8. Held(n)
    BY <1>1, <2>4 DEF Held, HoldsOwned
  <2>9. Quiet(Lobby, n)
    BY <2>4 DEF Quiet, Lobby
  <2>10. Becomes(n)
    BY <1>3 DEF n
  <2>11. Good(n)
    BY <2>3, <2>5, <2>6, <2>7, <2>8 DEF Good
  <2> QED BY <1>2, <2>9, <2>10, <2>11, GoodBecomes
<1>4. CASE ~ends /\ hold[s] = "timing" /\ Becomes(b)
  <2>1. holdTask = s /\ session # None
    BY <1>1, <1>4 DEF HoldsOwned
  <2>2. heard \in {"stray", "loose"}
    OBVIOUS
  <2>3. heard = "loose" => session # s
    <3> SUFFICES ASSUME heard = "loose", session = s
                 PROVE  FALSE
      OBVIOUS
    <3>1. ~forcing /\ ~Stale(Lobby)
      OBVIOUS
    <3>2. ctl[s] = "ADMIN"
      BY <2>1, <3>1 DEF Stale, Lobby
    <3> QED BY <1>4, <2>1, <3>1, <3>2
  <2> HIDE DEF heard
  <2>4. /\ b \in Record /\ b.ctl = ctl /\ b.lamp = lamp /\ b.session = session
        /\ b.timer = timer /\ b.holdTask = holdTask
        /\ b.hold = [hold EXCEPT ![s] = heard]
    BY <1>1, <2>2 DEF Lobby, Record, RecordTyped, HoldStep, Timing
  <2> HIDE DEF b
  <2>5. \A r \in Controller : b.hold[r] = IF r = s THEN heard ELSE hold[r]
    BY <1>1, <2>4 DEF RecordTyped
  <2>6. Timed(b)
    BY <1>1, <2>4 DEF Timed, SessionTimed
  <2>7. Lit(b)
    BY <1>1, <2>4 DEF Lit, LampsKept
  <2>8. Forced(b)
    BY <1>1, <1>4, <2>5 DEF Forced, ForcingOwned, Starting
  <2>9. Held(b)
    BY <1>1, <2>1, <2>3, <2>4, <2>5 DEF Held, HoldsOwned
  <2>10. Quiet(Lobby, b)
    BY <2>2, <2>5 DEF Quiet, Lobby
  <2>11. Good(b)
    BY <2>4, <2>6, <2>7, <2>8, <2>9 DEF Good
  <2> QED BY <1>2, <1>4, <2>10, <2>11, GoodBecomes
<1> QED BY <1>3, <1>4 DEF ReleaseTrigger

\* A hold fires for its session's owner only.
LEMMA HoldFiresGood ==
  ASSUME TypeOK, Good(Lobby), NEW s \in Controller, HoldFires(s)
  PROVE  Good(Lobby)' /\ Honest
<1>1. RecordTyped /\ SessionTimed /\ LampsKept /\ ForcingOwned /\ HoldsOwned
  BY LobbyIsGood
<1>2. hold[s] \in Timing /\ UNCHANGED <<ctl, lamp, session, timer, stream>>
  BY DEF HoldFires, controllers, wire
<1>3. SessionTimed' /\ LampsKept'
  BY <1>1, <1>2 DEF SessionTimed, LampsKept
<1>4. CASE session = s
  <2>1. /\ hold' = [hold EXCEPT ![s] = "roster"] /\ forcing' = TRUE
        /\ holdTask' = holdTask
    BY <1>4 DEF HoldFires
  <2>2. \A r \in Controller : hold'[r] = IF r = s THEN "roster" ELSE hold[r]
    BY <1>1, <2>1 DEF RecordTyped
  <2>3. RecordTyped'
    BY <1>1, <1>2, <2>1 DEF RecordTyped, HoldStep, Starting
  <2>4. ForcingOwned' /\ HoldsOwned'
    BY <1>1, <1>2, <2>1, <2>2 DEF ForcingOwned, HoldsOwned, Starting
  <2>5. Honest
    BY <1>1, <1>4, <2>2 DEF Honest, HoldsOwned
  <2> QED BY <1>3, <2>3, <2>4, <2>5, LobbyIsGoodNext
<1>5. CASE session # s
  <2>1. /\ hold' = [hold EXCEPT ![s] = "none"] /\ forcing' = forcing
        /\ holdTask' = IF holdTask = s THEN None ELSE holdTask
    BY <1>5 DEF HoldFires
  <2>2. \A r \in Controller : hold'[r] = IF r = s THEN "none" ELSE hold[r]
    BY <1>1, <2>1 DEF RecordTyped
  <2>3. RecordTyped'
    BY <1>1, <1>2, <2>1 DEF RecordTyped, HoldStep
  <2>4. ForcingOwned'
    BY <1>1, <1>2, <2>1, <2>2 DEF ForcingOwned, Starting, Timing
  <2>5. HoldsOwned'
    BY <1>1, <1>2, <2>1, <2>2 DEF HoldsOwned
  <2>6. Honest
    BY <2>2 DEF Honest
  <2> QED BY <1>3, <2>3, <2>4, <2>5, <2>6, LobbyIsGoodNext
<1> QED BY <1>4, <1>5

\* The session ends when the roster is there; the force start goes on.
LEMMA RosterBackGood ==
  ASSUME TypeOK, Good(Lobby), NEW s \in Controller, RosterBack(s)
  PROVE  Good(Lobby)' /\ Honest
<1> DEFINE c == Closed(Lobby)
           n == [c EXCEPT !.hold[s] = "pause"]
<1>1. Good(c) /\ Quiet(Lobby, c)
  BY ClosedGood
<1>2. Becomes(n) /\ UNCHANGED <<forcing, stream>>
  BY DEF RosterBack, wire
<1> HIDE DEF c
<1>3. /\ n \in Record /\ n.ctl = c.ctl /\ n.lamp = c.lamp /\ n.session = c.session
      /\ n.timer = c.timer /\ n.holdTask = c.holdTask
      /\ n.hold = [c.hold EXCEPT ![s] = "pause"] /\ c.hold \in [Controller -> HoldStep]
  BY <1>1 DEF Good, Record, HoldStep, Starting
<1> HIDE DEF n
<1>4. \A r \in Controller : n.hold[r] = IF r = s THEN "pause" ELSE c.hold[r]
  BY <1>3
<1>5. Timed(n) /\ Lit(n)
  BY <1>1, <1>3 DEF Good, Timed, Lit
<1>6. Forced(n)
  BY <1>4 DEF Forced, Starting
<1>7. Held(n)
  BY <1>1, <1>3, <1>4 DEF Good, Held
<1>8. Quiet(Lobby, n)
  BY <1>1, <1>4 DEF Quiet
<1>9. Good(n)
  BY <1>3, <1>5, <1>6, <1>7 DEF Good
<1> QED BY <1>2, <1>8, <1>9, GoodBecomes

\* The force start is over, whatever becomes of the game.
LEMMA PauseOverGood ==
  ASSUME TypeOK, Good(Lobby), NEW s \in Controller, PauseOver(s)
  PROVE  Good(Lobby)' /\ Honest
<1>1. RecordTyped /\ SessionTimed /\ LampsKept /\ ForcingOwned /\ HoldsOwned
  BY LobbyIsGood
<1>2. /\ hold' = [hold EXCEPT ![s] = "none"] /\ forcing' = FALSE /\ hold[s] = "pause"
      /\ holdTask' = IF holdTask = s THEN None ELSE holdTask
      /\ UNCHANGED <<ctl, lamp, session, timer, stream>>
  BY DEF PauseOver, controllers, wire
<1>3. \A r \in Controller : hold'[r] = IF r = s THEN "none" ELSE hold[r]
  BY <1>1, <1>2 DEF RecordTyped
<1>4. RecordTyped'
  BY <1>1, <1>2 DEF RecordTyped, HoldStep
<1>5. SessionTimed' /\ LampsKept' /\ ForcingOwned'
  BY <1>1, <1>2 DEF SessionTimed, LampsKept, ForcingOwned
<1>6. HoldsOwned'
  BY <1>1, <1>2, <1>3 DEF HoldsOwned
<1>7. Honest
  BY <1>3 DEF Honest
<1> QED BY <1>4, <1>5, <1>6, <1>7, LobbyIsGoodNext

\* A sentinel's colour is an IDLE controller's, or nobody's.
LEMMA PaintedGood ==
  ASSUME Good(Lobby), NEW S, NEW colour \in {"pulse", "dark"}, Painted(S, colour),
         UNCHANGED <<ctl, admin, stream>>
  PROVE  Good(Lobby)' /\ Honest
<1>1. RecordTyped /\ SessionTimed /\ LampsKept /\ ForcingOwned /\ HoldsOwned
  BY LobbyIsGood
<1>2. UNCHANGED <<session, timer, hold, holdTask, forcing>>
  BY DEF admin
<1>3. ASSUME NEW s \in Controller
      PROVE  lamp'[s] = lamp[s] \/ lamp'[s] = "left" \/ (ctl[s] = "IDLE" /\ lamp'[s] = colour)
  BY DEF Painted, Shown
<1>4. lamp' \in [Controller -> Lamp]
  BY <1>1 DEF Painted, Shown, RecordTyped, Lamp
<1>5. RecordTyped'
  BY <1>1, <1>2, <1>4 DEF RecordTyped
<1>6. SessionTimed' /\ ForcingOwned' /\ HoldsOwned' /\ Honest
  BY <1>1, <1>2 DEF SessionTimed, ForcingOwned, HoldsOwned, Honest
<1>7. LampsKept'
  BY <1>1, <1>2, <1>3 DEF LampsKept
<1> QED BY <1>5, <1>6, <1>7, LobbyIsGoodNext

\* A stop paints nobody it takes out of a state.
LEMMA StopMenuGood ==
  ASSUME Good(Lobby), StopMenu
  PROVE  /\ Good(Lobby)' /\ Honest
         /\ \A s \in Controller : ctl'[s] # "IDLE"
<1> DEFINE m == Closed(Lobby)
           kept == {s \in Controller : ctl[s] \in {"gone", "CONNECTED"}}
           c == [s \in Controller |-> IF s \in kept THEN ctl[s] ELSE "CONNECTED"]
           l == [s \in Controller |-> IF s \in kept THEN lamp[s] ELSE "left"]
           n == [m EXCEPT !.ctl = c, !.lamp = l]
<1>1. Good(m) /\ Quiet(Lobby, m) /\ m.ctl = ctl
  BY ClosedGood DEF Lobby
<1>2. m.lamp = lamp
  BY ClosedEffect DEF Lobby, Good
<1>3. Becomes(n) /\ UNCHANGED <<forcing, stream>>
  BY DEF StopMenu, wire
<1> HIDE DEF m
<1>4. ctl \in [Controller -> State] /\ lamp \in [Controller -> Lamp]
  BY <1>1, <1>2 DEF Good, Record
<1>5. c \in [Controller -> State] /\ l \in [Controller -> Lamp]
  BY <1>4 DEF State, Lamp
<1>6. \A s \in Controller : /\ c[s] \in {"gone", "CONNECTED"}
                            /\ (l[s] = lamp[s] /\ c[s] = ctl[s]) \/ l[s] = "left"
  OBVIOUS
<1> HIDE DEF c, l
<1>7. /\ n \in Record /\ n.ctl = c /\ n.lamp = l /\ n.session = m.session
      /\ n.timer = m.timer /\ n.hold = m.hold /\ n.holdTask = m.holdTask
  BY <1>1, <1>5 DEF Good, Record
<1> HIDE DEF n
<1>8. Timed(n) /\ Forced(n) /\ Held(n) /\ Quiet(Lobby, n)
  BY <1>1, <1>7 DEF Good, Timed, Forced, Held, Quiet
<1>9. Lit(n)
  BY <1>1, <1>2, <1>6, <1>7 DEF Good, Lit
<1>10. Good(n)
  BY <1>7, <1>8, <1>9 DEF Good
<1>11. Good(Lobby)' /\ Honest
  BY <1>3, <1>8, <1>10, GoodBecomes
<1>12. ctl' = c
  BY <1>3, <1>7 DEF Becomes
<1> QED BY <1>6, <1>11, <1>12

\* on_stream_reconnected: nobody is left to show anything.
LEMMA ReconnectGood ==
  ASSUME Good(Lobby), Reconnect
  PROVE  Good(Lobby)' /\ Honest /\ \A s \in Controller : ctl'[s] # "IDLE"
<1> DEFINE m == Closed(Lobby)
           n == Everyone(m, Controller, "gone")
<1>1. Good(m) /\ Quiet(Lobby, m)
  BY ClosedGood
<1> HIDE DEF m
<1>2. /\ Good(n) /\ Quiet(m, n)
      /\ \A s \in Controller : n.ctl[s] = IF s \in Controller THEN "gone" ELSE m.ctl[s]
  BY <1>1, EveryoneGood
<1>3. Becomes(n) /\ forcing' = forcing
  BY DEF Reconnect, m, n
<1> HIDE DEF n
<1>4. /\ ctl' = n.ctl /\ lamp' = n.lamp /\ session' = n.session /\ timer' = n.timer
      /\ hold' = n.hold /\ holdTask' = n.holdTask
  BY <1>3 DEF Becomes
<1>5. RecordTyped'
  BY <1>2, <1>4 DEF RecordTyped, Good, Record
<1>6. SessionTimed' /\ ForcingOwned' /\ HoldsOwned'
  BY <1>2, <1>3, <1>4 DEF SessionTimed, ForcingOwned, HoldsOwned, Good, Timed, Forced, Held
<1>7. LampsKept'
  BY <1>2, <1>4 DEF LampsKept
<1>8. Honest
  BY <1>1, <1>2, <1>4 DEF Honest, Quiet, Lobby
<1> QED BY <1>2, <1>4, <1>5, <1>6, <1>7, <1>8, LobbyIsGoodNext

-----------------------------------------------------------------------------
(* Every action leaves good controllers behind                             *)

\* Nobody falls asleep in this step.
NoSleeper == \A s \in Controller : ctl'[s] = "IDLE" => ctl[s] = "IDLE"
Sound == Good(Lobby)' /\ Honest /\ NoSleeper

\* A handler that puts nobody to sleep.
LEMMA HandlerSound ==
  ASSUME NEW m, Good(m), Quiet(Lobby, m), Awake(Lobby, m), Becomes(m),
         UNCHANGED <<forcing, stream>>
  PROVE  Sound
<1>1. NoSleeper
  BY DEF NoSleeper, Awake, Becomes, Lobby
<1> QED BY <1>1, GoodBecomes DEF Sound

\* A step that leaves the controllers and the session alone.
LEMMA StillSound ==
  ASSUME Good(Lobby), UNCHANGED <<controllers, admin>>, stream' \in {stream, FALSE}
  PROVE  Sound
BY GoodStays DEF Sound, NoSleeper, controllers

\* One that only the admin session's holds are touched by.
LEMMA HoldSound ==
  ASSUME Good(Lobby)' /\ Honest, UNCHANGED ctl
  PROVE  Sound
BY DEF Sound, NoSleeper

\* A handler that does nothing to the record.
LEMMA QuietSelf ==
  ASSUME NEW m
  PROVE  Quiet(m, m) /\ Awake(m, m)
BY DEF Quiet, Awake

\* transition_to of a button's handler.
LEMMA MoveSound ==
  ASSUME Good(Lobby), NEW s \in Controller, NEW new \in {"CONNECTED", "READY"},
         Becomes(Moved(Lobby, s, new)), UNCHANGED <<forcing, stream>>
  PROVE  Sound
<1>1. /\ Good(Moved(Lobby, s, new)) /\ Awake(Lobby, Moved(Lobby, s, new))
      /\ Quiet(Lobby, Moved(Lobby, s, new))
  BY MovedGood
<1> QED BY <1>1, HandlerSound

\* A mode repaints the lobby.
LEMMA RepaintSound ==
  ASSUME Good(Lobby), Becomes(Repainted(Lobby)), UNCHANGED <<forcing, stream>>
  PROVE  Sound
BY RepaintedGood, HandlerSound

\* A reset of the lobby.
LEMMA ResetSound ==
  ASSUME Good(Lobby), Becomes(Reset(Lobby)), UNCHANGED <<forcing, stream>>
  PROVE  Sound /\ \A s \in Controller : ctl'[s] # "IDLE"
<1>1. /\ Good(Reset(Lobby)) /\ Quiet(Lobby, Reset(Lobby))
      /\ \A s \in Controller : Reset(Lobby).ctl[s] # "IDLE"
  BY ResetGood
<1>2. Awake(Lobby, Reset(Lobby))
  BY <1>1 DEF Awake
<1>3. ctl' = Reset(Lobby).ctl
  BY DEF Becomes
<1> QED BY <1>1, <1>2, <1>3, HandlerSound

\* A button wakes its controller, and all of them while idle mode is on.
LEMMA WakeUpSound ==
  ASSUME Good(Lobby), NEW s \in Controller, WakeUp(s)
  PROVE  /\ Sound
         /\ idle' = idle \/ \A r \in Controller : ctl'[r] # "IDLE"
<1> DEFINE m == Moved(Lobby, s, "CONNECTED")
           sleepers == {r \in Controller : m.ctl[r] = "IDLE"}
           n == Everyone(m, sleepers, "CONNECTED")
<1>1. Good(m) /\ Awake(Lobby, m) /\ Quiet(Lobby, m)
  BY MovedGood
<1>2. UNCHANGED <<forcing, stream>>
  BY DEF WakeUp, wire
<1>3. CASE idle.active
  <2>1. Becomes(n)
    BY <1>3 DEF WakeUp
  <2>2. sleepers \in SUBSET Controller
    OBVIOUS
  <2>3. \A r \in Controller : r \in sleepers <=> m.ctl[r] = "IDLE"
    OBVIOUS
  <2> HIDE DEF sleepers, m
  <2>4. /\ Good(n) /\ Quiet(m, n)
        /\ \A r \in Controller : n.ctl[r] = IF r \in sleepers THEN "CONNECTED" ELSE m.ctl[r]
    BY <1>1, <2>2, EveryoneGood
  <2> HIDE DEF n
  <2>5. \A r \in Controller : n.ctl[r] # "IDLE"
    BY <2>3, <2>4
  <2>6. Quiet(Lobby, n) /\ Awake(Lobby, n)
    BY <1>1, <2>4, <2>5 DEF Quiet, Awake
  <2>7. ctl' = n.ctl
    BY <2>1 DEF Becomes
  <2> QED BY <1>2, <2>1, <2>4, <2>5, <2>6, <2>7, HandlerSound
<1>4. CASE ~idle.active
  <2>1. Becomes(m) /\ idle' = idle
    BY <1>4 DEF WakeUp
  <2> HIDE DEF m
  <2> QED BY <1>1, <1>2, <2>1, HandlerSound
<1> QED BY <1>3, <1>4

\* The combo enters ADMIN only where no other's session runs.
LEMMA ComboSound ==
  ASSUME Good(Lobby), NEW s \in Controller, Combo(s)
  PROVE  Sound
<1> DEFINE a == IF Stale(Lobby) THEN Closed(Lobby) ELSE Lobby
           m == Moved(a, s, "ADMIN")
<1>1. /\ ~HeldByOther(Lobby, s) /\ UNCHANGED <<forcing, stream>>
      /\ \/ Becomes(Moved(m, s, "CONNECTED"))
         \/ Becomes(m)
         \/ Becomes(Repainted(m))
         \/ Becomes(a)
  BY DEF Combo, wire
<1>2. Good(a) /\ Quiet(Lobby, a) /\ Awake(Lobby, a)
  BY ClosedGood, QuietSelf DEF Awake
<1>3. a.session \in {None, s}
  BY <1>1, ClosedGood DEF HeldByOther, OwnedByOther
<1> HIDE DEF a
<1>4. Good(m) /\ Quiet(a, m) /\ Awake(a, m)
  BY <1>2, <1>3, MovedGood
<1> HIDE DEF m
<1>5. Quiet(Lobby, m) /\ Awake(Lobby, m)
  BY <1>2, <1>4 DEF Quiet, Awake
<1>6. CASE Becomes(Moved(m, s, "CONNECTED"))
  <2> DEFINE n == Moved(m, s, "CONNECTED")
  <2>1. Good(n) /\ Quiet(m, n) /\ Awake(m, n)
    BY <1>4, MovedGood
  <2>2. Becomes(n)
    BY <1>6
  <2> HIDE DEF n
  <2>3. Quiet(Lobby, n) /\ Awake(Lobby, n)
    BY <1>5, <2>1 DEF Quiet, Awake
  <2> QED BY <1>1, <2>1, <2>2, <2>3, HandlerSound
<1>7. CASE Becomes(m)
  BY <1>1, <1>4, <1>5, <1>7, HandlerSound
<1>8. CASE Becomes(Repainted(m))
  <2> DEFINE n == Repainted(m)
  <2>1. Good(n) /\ Quiet(m, n) /\ Awake(m, n)
    BY <1>4, RepaintedGood
  <2>2. Becomes(n)
    BY <1>8
  <2> HIDE DEF n
  <2>3. Quiet(Lobby, n) /\ Awake(Lobby, n)
    BY <1>5, <2>1 DEF Quiet, Awake
  <2> QED BY <1>1, <2>1, <2>2, <2>3, HandlerSound
<1>9. CASE Becomes(a)
  BY <1>1, <1>2, <1>9, HandlerSound
<1> QED BY <1>1, <1>6, <1>7, <1>8, <1>9

\* The 60 s are over.
LEMMA TimeoutExitSound ==
  ASSUME TypeOK, Good(Lobby), TimeoutExit
  PROVE  Sound
<1> DEFINE m == Moved(Lobby, timer, "CONNECTED")
<1>1. session = timer /\ timer # None /\ timer \in Controller
  BY DEF TimeoutExit, Good, Timed, Lobby, TypeOK
<1>2. Good(m) /\ Quiet(Lobby, m) /\ Awake(Lobby, m)
  BY <1>1, MovedGood
<1>3. /\ Becomes(CASE session # timer -> [Lobby EXCEPT !.timer = None]
                   [] session = timer /\ m.session = timer -> Closed(m)
                   [] OTHER -> m)
      /\ UNCHANGED <<forcing, stream>>
  BY DEF TimeoutExit, wire
<1> HIDE DEF m
<1>4. CASE m.session = timer
  <2>1. Becomes(Closed(m))
    BY <1>1, <1>3, <1>4
  <2>2. Good(Closed(m)) /\ Quiet(m, Closed(m)) /\ Closed(m).ctl = m.ctl
    BY <1>2, ClosedGood
  <2>3. Quiet(Lobby, Closed(m)) /\ Awake(Lobby, Closed(m))
    BY <1>2, <2>2 DEF Quiet, Awake
  <2> QED BY <1>3, <2>1, <2>2, <2>3, HandlerSound
<1>5. CASE m.session # timer
  <2>1. Becomes(m)
    BY <1>1, <1>3, <1>5
  <2> QED BY <1>2, <1>3, <2>1, HandlerSound
<1> QED BY <1>4, <1>5

\* The CONNECTED ones fall asleep, and idle mode is on.
LEMMA EnterIdleGood ==
  ASSUME Good(Lobby), EnterIdle
  PROVE  Good(Lobby)' /\ Honest
<1> DEFINE waiting == {s \in Controller : ctl[s] = "CONNECTED"}
           n == Everyone(Lobby, waiting, "IDLE")
<1>1. Becomes(n) /\ UNCHANGED <<forcing, stream>>
  BY DEF EnterIdle, wire, admin
<1>2. waiting \in SUBSET Controller
  OBVIOUS
<1> HIDE DEF waiting
<1>3. Good(n) /\ Quiet(Lobby, n)
  BY <1>2, EveryoneGood
<1> HIDE DEF n
<1> QED BY <1>1, <1>3, GoodBecomes

\* The ghosts of a roster leave behind whatever a CONNECT or DISCONNECT did.
LEMMA ReconciledSound ==
  ASSUME NEW m, Good(m), Quiet(Lobby, m), Awake(Lobby, m), Reconciled(m),
         UNCHANGED <<forcing, stream>>
  PROVE  Sound
<1>1. PICK ghosts \in SUBSET {s \in Controller : m.ctl[s] # "gone" /\ s \notin told'} :
        Becomes(Dropped(m, ghosts))
  BY DEF Reconciled
<1>2. ghosts \in SUBSET Controller
  BY <1>1
<1>3. /\ Good(Dropped(m, ghosts)) /\ Awake(m, Dropped(m, ghosts))
      /\ Quiet(m, Dropped(m, ghosts))
  BY <1>2, DroppedGood
<1>4. Awake(Lobby, Dropped(m, ghosts)) /\ Quiet(Lobby, Dropped(m, ghosts))
  BY <1>3 DEF Awake, Quiet
<1> QED BY <1>1, <1>3, <1>4, HandlerSound

\* A controller connects.
LEMMA ConnectSound ==
  ASSUME Good(Lobby), NEW s \in Controller, Connect(s)
  PROVE  Sound
<1> DEFINE n == Everyone(Lobby, {s}, "CONNECTED")
<1>1. Reconciled(n) /\ UNCHANGED <<forcing, stream>>
  BY DEF Connect
<1>2. /\ Good(n) /\ Quiet(Lobby, n)
      /\ \A r \in Controller : n.ctl[r] = IF r \in {s} THEN "CONNECTED" ELSE Lobby.ctl[r]
  <2>1. {s} \in SUBSET Controller
    OBVIOUS
  <2> QED BY <2>1, EveryoneGood
<1> HIDE DEF n
<1>3. Awake(Lobby, n)
  BY <1>2 DEF Awake
<1> QED BY <1>1, <1>2, <1>3, ReconciledSound

\* A controller disconnects.
LEMMA DisconnectSound ==
  ASSUME Good(Lobby), NEW s \in Controller, Disconnect(s)
  PROVE  Sound
<1> DEFINE n == Dropped(Lobby, {s})
<1>1. Reconciled(n) /\ UNCHANGED <<forcing, stream>>
  BY DEF Disconnect
<1>2. Good(n) /\ Quiet(Lobby, n) /\ Awake(Lobby, n)
  <2>1. {s} \in SUBSET Controller
    OBVIOUS
  <2> QED BY <2>1, DroppedGood
<1> HIDE DEF n
<1> QED BY <1>1, <1>2, ReconciledSound

\* Whatever happens in the lobby.
LEMMA ControllersNext ==
  ASSUME TypeOK, Good(Lobby), Next
  PROVE  Good(Lobby)' /\ Honest /\ (NoSleeper \/ EnterIdle)
<1>1. CASE WebStart \/ PadStart
  BY <1>1, StillSound DEF WebStart, PadStart, wire, Sound
<1>2. CASE PadTakesOver
  <2>1. Good(Closed(Lobby)) /\ Quiet(Lobby, Closed(Lobby)) /\ Awake(Lobby, Closed(Lobby))
    BY ClosedGood DEF Awake
  <2>2. Becomes(Closed(Lobby)) /\ UNCHANGED <<forcing, stream>>
    BY <1>2 DEF PadTakesOver, wire
  <2> QED BY <2>1, <2>2, HandlerSound DEF Sound
<1>3. ASSUME NEW s \in Controller, ReadyUp(s)  PROVE Sound
  BY <1>3, MoveSound DEF ReadyUp, wire
<1>4. CASE FeedbackOver \/ OptionOver
  BY <1>4, StillSound DEF FeedbackOver, OptionOver, wire, Sound
<1>5. ASSUME NEW s \in Controller, TriggerAgain(s)  PROVE Sound
  BY <1>5, StillSound DEF TriggerAgain, wire
<1>6. ASSUME NEW s \in Controller, Unready(s)  PROVE Sound
  BY <1>6, MoveSound DEF Unready, wire
<1>7. ASSUME NEW s \in Controller, SelectMode(s)  PROVE Sound
  BY <1>7, RepaintSound DEF SelectMode, wire
<1>8. ASSUME NEW s \in Controller, WakeUp(s)  PROVE Sound
  BY <1>8, WakeUpSound
<1>9. ASSUME NEW s \in Controller, AdminLeaves(s)  PROVE Sound
  BY <1>9, MoveSound DEF AdminLeaves, wire
<1>10. ASSUME NEW s \in Controller, AdminOption(s)  PROVE Sound
  BY <1>10, StillSound DEF AdminOption, wire
<1>11. ASSUME NEW s \in Controller, AdminMode(s)  PROVE Sound
  BY <1>11, RepaintSound DEF AdminMode, wire
<1>12. ASSUME NEW s \in Controller, HoldTrigger(s)  PROVE Sound
  <2>1. UNCHANGED ctl
    BY <1>12 DEF HoldTrigger, controllers
  <2> QED BY <1>12, <2>1, HoldTriggerGood, HoldSound
<1>13. ASSUME NEW s \in Controller, ReleaseTrigger(s)  PROVE Sound
  <2>1. UNCHANGED ctl
    BY <1>13 DEF ReleaseTrigger, Becomes, Paint, Lobby
  <2> QED BY <1>13, <2>1, ReleaseTriggerGood, HoldSound
<1>14. ASSUME NEW s \in Controller, Combo(s)  PROVE Sound
  BY <1>14, ComboSound
<1>15. ASSUME NEW s \in Controller, FaceReleased(s)  PROVE Sound
  BY <1>15, StillSound DEF FaceReleased, wire
<1>16. CASE TimeoutExit
  BY <1>16, TimeoutExitSound DEF Sound
<1>17. ASSUME NEW s \in Controller, HoldFires(s)  PROVE Sound
  <2>1. UNCHANGED ctl
    BY <1>17 DEF HoldFires, controllers
  <2> QED BY <1>17, <2>1, HoldFiresGood, HoldSound
<1>18. ASSUME NEW s \in Controller, RosterBack(s)  PROVE Sound
  <2>1. UNCHANGED ctl
    BY <1>18, ClosedGood DEF RosterBack, Becomes, Lobby
  <2> QED BY <1>18, <2>1, RosterBackGood, HoldSound
<1>19. ASSUME NEW s \in Controller, PauseOver(s)  PROVE Sound
  <2>1. UNCHANGED ctl
    BY <1>19 DEF PauseOver, controllers
  <2> QED BY <1>19, <2>1, PauseOverGood, HoldSound
<1>20. CASE EnterIdle
  BY <1>20, EnterIdleGood
<1>21. CASE Pulse \/ RotateSentinels
  <2>1. UNCHANGED <<ctl, admin, stream>>
    BY <1>21 DEF Pulse, RotateSentinels, wire
  <2>2. \E S : \E colour \in {"pulse", "dark"} : Painted(S, colour)
    BY <1>21 DEF Pulse, RotateSentinels
  <2> QED BY <2>1, <2>2, PaintedGood, HoldSound DEF Sound
<1>22. ASSUME NEW s \in Controller, LoseDisconnect(s)  PROVE Sound
  BY <1>22, StillSound DEF LoseDisconnect
<1>23. ASSUME NEW s \in Controller, Connect(s)  PROVE Sound
  BY <1>23, ConnectSound
<1>24. ASSUME NEW s \in Controller, Disconnect(s)  PROVE Sound
  BY <1>24, DisconnectSound
<1>25. CASE StreamBreaks \/ Prepared
  BY <1>25, StillSound DEF StreamBreaks, Prepared, Sound
<1>26. CASE Reconnect
  BY <1>26, ReconnectGood DEF NoSleeper
<1>27. CASE DropReadyStart \/ TooFew \/ Prepare \/ GameOver \/ ResetMenu \/ Restored
            \/ LobbyEntered
  BY <1>27, StillSound
     DEF DropReadyStart, TooFew, Prepare, GameOver, ResetMenu, Restored, LobbyEntered, wire,
         Sound
<1>28. CASE ShortOver \/ Reregister
  BY <1>28, ResetSound DEF ShortOver, Reregister, wire, Sound
<1>29. CASE StartMenu
  <2>1. CASE Becomes(Reset(Lobby)) /\ UNCHANGED <<forcing, wire>>
    BY <2>1, ResetSound DEF wire, Sound
  <2>2. CASE UNCHANGED <<controllers, admin, wire>>
    BY <2>2, StillSound DEF wire, Sound
  <2> QED BY <1>29, <2>1, <2>2 DEF StartMenu
<1>30. CASE StopMenu
  BY <1>30, StopMenuGood DEF NoSleeper
<1>31. CASE ModeSelected
  BY <1>31, RepaintSound DEF ModeSelected, wire, Sound
<1> QED BY <1>1, <1>2, <1>3, <1>4, <1>5, <1>6, <1>7, <1>8, <1>9, <1>10, <1>11, <1>12,
           <1>13, <1>14, <1>15, <1>16, <1>17, <1>18, <1>19, <1>20, <1>21, <1>22, <1>23,
           <1>24, <1>25, <1>26, <1>27, <1>28, <1>29, <1>30, <1>31 DEF Next, Sound

-----------------------------------------------------------------------------
(* The latch, idle mode, the stream and the lifecycle                      *)

Stages == {"none", "readyDelay", "delay", "short", "leaving", "leavingStopped", "game"}
          \cup Restarting
IdleRecord == [on : BOOLEAN, active : BOOLEAN, sentinels : SUBSET Controller,
               pulsing : BOOLEAN]
WireTyped == stream \in BOOLEAN /\ told \subseteq Controller
FlagsTyped == forcing \in BOOLEAN /\ shown \in BOOLEAN /\ latch \in BOOLEAN
LifeTyped ==
  /\ busy \in {"free", "option", "feedback"} /\ menu \in {"STOPPED", "RUNNING", "GAME_STARTING"}
  /\ stage \in Stages /\ entering \in BOOLEAN
IdleTyped == idle \in IdleRecord /\ ActiveIsOn

\* What the parts of the type say together.
LEMMA Typed ==
  /\ TypeOK <=> RecordTyped /\ FlagsTyped /\ idle \in IdleRecord /\ WireTyped /\ LifeTyped
  /\ TypeOK' <=> (RecordTyped /\ FlagsTyped /\ idle \in IdleRecord /\ WireTyped /\ LifeTyped)'
<1> USE DEF RecordTyped, FlagsTyped, WireTyped, LifeTyped, State, Lamp, HoldStep, Stages,
            IdleRecord
<1>1. TypeOK <=> RecordTyped /\ FlagsTyped /\ idle \in IdleRecord /\ WireTyped /\ LifeTyped
  BY DEF TypeOK
<1>2. TypeOK' <=> (RecordTyped /\ FlagsTyped /\ idle \in IdleRecord /\ WireTyped /\ LifeTyped)'
  BY DEF TypeOK
<1> QED BY <1>1, <1>2

\* The monitor that starts keeps what runs.
LEMMA StartedIdle ==
  ASSUME IdleTyped
  PROVE  /\ Started(idle) \in IdleRecord /\ Started(idle).on
         /\ Started(idle).active = idle.active
BY DEF Started, IdleTyped, IdleRecord, ActiveIsOn

\* Sentinels are controllers.
LEMMA SentinelsTyped ==
  ASSUME NEW S \in SUBSET Controller, NEW T \in Sentinels(S)
  PROVE  T \in SUBSET Controller
BY DEF Sentinels

\* What a step does to idle mode: nothing, or the monitor starts or stops, or the lobby
\* falls asleep or is woken.
LEMMA IdleNext ==
  ASSUME IdleTyped, Next
  PROVE  /\ IdleTyped'
         /\ \/ idle'.active = idle.active \/ idle'.active
            \/ Prepare \/ StopMenu \/ \E s \in Controller : WakeUp(s) /\ idle' # idle
<1>1. /\ IdleOff \in IdleRecord /\ ~IdleOff.active
      /\ [IdleOff EXCEPT !.on = idle.on] \in IdleRecord
      /\ ~[IdleOff EXCEPT !.on = idle.on].active
  BY DEF IdleOff, IdleRecord, IdleTyped
<1>2. CASE idle' = idle
  BY <1>2 DEF IdleTyped, ActiveIsOn
<1>3. CASE idle' = Started(idle)
  BY <1>3, StartedIdle DEF IdleTyped, ActiveIsOn
<1>4. CASE Prepare \/ StopMenu
  BY <1>1, <1>4 DEF Prepare, StopMenu, IdleTyped, ActiveIsOn
<1>5. ASSUME NEW s \in Controller, WakeUp(s)
      PROVE  idle' = idle \/ IdleTyped'
  BY <1>1, <1>5 DEF WakeUp, IdleTyped, ActiveIsOn
<1>6. CASE EnterIdle
  <2>1. PICK S \in Sentinels({s \in Controller : ctl[s] = "CONNECTED"}) :
          idle' = [on |-> TRUE, active |-> TRUE, sentinels |-> S, pulsing |-> S # {}]
    BY <1>6 DEF EnterIdle
  <2>2. S \in SUBSET Controller
    BY SentinelsTyped
  <2> QED BY <2>1, <2>2 DEF IdleTyped, IdleRecord, ActiveIsOn
<1>7. CASE RotateSentinels
  <2> DEFINE sleepers == {s \in Controller : ctl[s] = "IDLE"}
             others == sleepers \ idle.sentinels
             pool == IF others = {} THEN sleepers ELSE others
  <2>1. PICK S \in Sentinels(pool) : idle' = [idle EXCEPT !.sentinels = S]
    BY <1>7 DEF RotateSentinels
  <2>2. S \in SUBSET Controller
    <3>1. pool \in SUBSET Controller
      OBVIOUS
    <3> QED BY <3>1, SentinelsTyped
  <2> QED BY <2>1, <2>2 DEF IdleTyped, IdleRecord, ActiveIsOn
<1>8. CASE WebStart \/ PadTakesOver \/ PadStart \/ FeedbackOver \/ OptionOver \/ TimeoutExit
           \/ Pulse \/ StreamBreaks \/ Reconnect \/ DropReadyStart \/ Prepared \/ GameOver
           \/ ResetMenu \/ Reregister \/ ModeSelected \/ StartMenu
  BY <1>2, <1>8
     DEF WebStart, PadTakesOver, PadStart, FeedbackOver, OptionOver, TimeoutExit, Pulse,
         StreamBreaks, Reconnect, DropReadyStart, Prepared, GameOver, ResetMenu, Reregister,
         ModeSelected, StartMenu
<1>9. CASE TooFew \/ ShortOver \/ Restored \/ LobbyEntered
  BY <1>2, <1>3, <1>9 DEF TooFew, ShortOver, Restored, LobbyEntered
<1>10. ASSUME NEW s \in Controller,
              ReadyUp(s) \/ TriggerAgain(s) \/ Unready(s) \/ SelectMode(s) \/ AdminLeaves(s)
                \/ AdminOption(s) \/ AdminMode(s) \/ HoldTrigger(s) \/ ReleaseTrigger(s)
                \/ Combo(s) \/ FaceReleased(s) \/ HoldFires(s) \/ RosterBack(s)
                \/ PauseOver(s) \/ LoseDisconnect(s) \/ Connect(s) \/ Disconnect(s)
       PROVE  idle' = idle
  BY <1>10
     DEF ReadyUp, TriggerAgain, Unready, SelectMode, AdminLeaves, AdminOption, AdminMode,
         HoldTrigger, ReleaseTrigger, Combo, FaceReleased, HoldFires, RosterBack, PauseOver,
         LoseDisconnect, Connect, Disconnect
<1> QED BY <1>2, <1>3, <1>4, <1>5, <1>6, <1>7, <1>8, <1>9, <1>10 DEF Next

\* The stream carries what the menu is told.
LEMMA WireNext ==
  ASSUME WireTyped, Next
  PROVE  WireTyped'
<1>1. CASE UNCHANGED wire
  BY <1>1 DEF WireTyped, wire
<1>2. CASE StreamBreaks \/ Reconnect \/ Prepared
  BY <1>2 DEF WireTyped, StreamBreaks, Reconnect, Prepared
<1>3. ASSUME NEW s \in Controller, LoseDisconnect(s) \/ Connect(s) \/ Disconnect(s)
      PROVE  WireTyped'
  BY <1>3 DEF WireTyped, LoseDisconnect, Connect, Disconnect
<1>4. CASE WebStart \/ PadTakesOver \/ PadStart \/ FeedbackOver \/ OptionOver \/ TimeoutExit
           \/ EnterIdle \/ Pulse \/ RotateSentinels \/ DropReadyStart \/ TooFew \/ ShortOver
           \/ Prepare \/ GameOver \/ ResetMenu \/ Reregister \/ Restored \/ StartMenu
           \/ LobbyEntered \/ StopMenu \/ ModeSelected
  BY <1>1, <1>4
     DEF WebStart, PadTakesOver, PadStart, FeedbackOver, OptionOver, TimeoutExit, EnterIdle,
         Pulse, RotateSentinels, DropReadyStart, TooFew, ShortOver, Prepare, GameOver,
         ResetMenu, Reregister, Restored, StartMenu, LobbyEntered, StopMenu, ModeSelected
<1>5. ASSUME NEW s \in Controller,
             ReadyUp(s) \/ TriggerAgain(s) \/ Unready(s) \/ SelectMode(s) \/ WakeUp(s)
               \/ AdminLeaves(s) \/ AdminOption(s) \/ AdminMode(s) \/ HoldTrigger(s)
               \/ ReleaseTrigger(s) \/ Combo(s) \/ FaceReleased(s) \/ HoldFires(s)
               \/ RosterBack(s) \/ PauseOver(s)
      PROVE  UNCHANGED wire
  BY <1>5
     DEF ReadyUp, TriggerAgain, Unready, SelectMode, WakeUp, AdminLeaves, AdminOption,
         AdminMode, HoldTrigger, ReleaseTrigger, Combo, FaceReleased, HoldFires, RosterBack,
         PauseOver
<1> QED BY <1>1, <1>2, <1>3, <1>4, <1>5 DEF Next

LifeInv == FlagsTyped /\ LifeTyped /\ LatchOwned /\ LatchFresh /\ GameNotRunning

\* The steps of a start, of the lifecycle and of the calls on the menu.
LEMMA LifecycleNext ==
  ASSUME LifeInv,
         \/ WebStart \/ PadStart \/ FeedbackOver \/ DropReadyStart \/ TooFew \/ ShortOver
         \/ Prepare \/ Prepared \/ GameOver \/ ResetMenu \/ Reregister \/ Restored
         \/ StartMenu \/ LobbyEntered \/ StopMenu
         \/ \E s \in Controller : TriggerAgain(s) \/ PauseOver(s)
  PROVE  LifeInv'
<1> USE DEF LifeInv, FlagsTyped, LifeTyped, LatchOwned, LatchFresh, GameNotRunning, Live,
            Stages, Restarting, Start, ReadyStart, Restore, Delayed
<1>1. CASE WebStart \/ PadStart
  BY <1>1 DEF WebStart, PadStart, admin
<1>2. CASE FeedbackOver
  BY <1>2 DEF FeedbackOver, admin
<1>3. CASE DropReadyStart \/ TooFew \/ ShortOver
  BY <1>3 DEF DropReadyStart, TooFew, ShortOver, admin
<1>4. CASE Prepare \/ Prepared
  BY <1>4 DEF Prepare, Prepared, admin
<1>5. CASE GameOver
  BY <1>5 DEF GameOver, admin
<1>6. CASE ResetMenu
  BY <1>6 DEF ResetMenu, admin
<1>7. CASE Reregister
  BY <1>7 DEF Reregister, admin
<1>8. CASE Restored
  BY <1>8 DEF Restored, admin
<1>9. CASE StartMenu
  <2>1. CASE ~Live /\ menu' = "RUNNING" /\ latch' = FALSE
             /\ UNCHANGED <<forcing, shown, busy, stage>>
    BY <1>9, <2>1 DEF StartMenu
  <2>2. CASE /\ menu' = IF stage \in Restarting THEN "RUNNING" ELSE "GAME_STARTING"
             /\ UNCHANGED <<admin, shown, latch, busy, stage, entering>>
    BY <2>2 DEF admin
  <2> QED BY <1>9, <2>1, <2>2 DEF StartMenu
<1>10. CASE LobbyEntered
  BY <1>10 DEF LobbyEntered, admin
<1>11. CASE StopMenu
  BY <1>11 DEF StopMenu, admin
<1>12. ASSUME NEW s \in Controller, TriggerAgain(s) \/ PauseOver(s)
      PROVE  LifeInv'
  BY <1>12 DEF TriggerAgain, PauseOver, Heard, admin
<1> QED BY <1>1, <1>2, <1>3, <1>4, <1>5, <1>6, <1>7, <1>8, <1>9, <1>10, <1>11, <1>12

\* The steps that leave the lifecycle alone.
LEMMA ButtonsNext ==
  ASSUME LifeInv, UNCHANGED life,
         shown' \in BOOLEAN /\ forcing' \in BOOLEAN,
         \/ latch' = latch /\ busy' = busy
         \/ latch' = latch /\ busy # "feedback" /\ busy' \in {"free", "option"}
         \/ latch' \in BOOLEAN /\ busy' = "feedback"
  PROVE  LifeInv'
BY DEF LifeInv, FlagsTyped, LifeTyped, LatchOwned, LatchFresh, GameNotRunning, Live, life

\* A step keeps the latch with its start, and a game apart from a RUNNING menu.
LEMMA LifeNext ==
  ASSUME LifeInv, Next
  PROVE  LifeInv'
<1>0. shown \in BOOLEAN /\ forcing \in BOOLEAN /\ latch \in BOOLEAN
  BY DEF LifeInv, FlagsTyped
<1>1. CASE \/ WebStart \/ PadStart \/ FeedbackOver \/ DropReadyStart \/ TooFew \/ ShortOver
           \/ Prepare \/ Prepared \/ GameOver \/ ResetMenu \/ Reregister \/ Restored
           \/ StartMenu \/ LobbyEntered \/ StopMenu
           \/ \E s \in Controller : TriggerAgain(s) \/ PauseOver(s)
  BY <1>1, LifecycleNext
<1>2. CASE PadTakesOver \/ TimeoutExit \/ EnterIdle \/ Pulse \/ RotateSentinels \/ StreamBreaks
           \/ Reconnect \/ ModeSelected
  <2>1. UNCHANGED <<forcing, shown, latch, busy>> /\ UNCHANGED life
    BY <1>2
       DEF PadTakesOver, TimeoutExit, EnterIdle, Pulse, RotateSentinels, StreamBreaks,
           Reconnect, ModeSelected, admin
  <2> QED BY <1>0, <2>1, ButtonsNext
<1>3. ASSUME NEW s \in Controller,
             Unready(s) \/ WakeUp(s) \/ AdminLeaves(s) \/ HoldTrigger(s) \/ ReleaseTrigger(s)
               \/ FaceReleased(s) \/ HoldFires(s) \/ RosterBack(s) \/ LoseDisconnect(s)
               \/ Connect(s) \/ Disconnect(s)
      PROVE  LifeInv'
  <2>1. UNCHANGED <<latch, busy>> /\ UNCHANGED life
    BY <1>3
       DEF Unready, WakeUp, AdminLeaves, HoldTrigger, ReleaseTrigger, FaceReleased, HoldFires,
           RosterBack, LoseDisconnect, Connect, Disconnect
  <2>2. shown' \in BOOLEAN
    BY <1>0, <1>3
       DEF Unready, WakeUp, AdminLeaves, HoldTrigger, ReleaseTrigger, FaceReleased, HoldFires,
           RosterBack, LoseDisconnect, Connect, Disconnect
  <2>3. forcing' \in BOOLEAN
    BY <1>0, <1>3
       DEF Unready, WakeUp, AdminLeaves, HoldTrigger, ReleaseTrigger, FaceReleased, HoldFires,
           RosterBack, LoseDisconnect, Connect, Disconnect, admin
  <2> QED BY <2>1, <2>2, <2>3, ButtonsNext
<1>4. CASE OptionOver
  BY <1>0, <1>4, ButtonsNext DEF OptionOver, admin
<1>5. ASSUME NEW s \in Controller,
             SelectMode(s) \/ AdminOption(s) \/ AdminMode(s) \/ Combo(s)
      PROVE  LifeInv'
  <2>1. /\ UNCHANGED <<forcing, latch>> /\ UNCHANGED life /\ busy = "free"
        /\ busy' \in {"free", "option"} /\ shown' \in BOOLEAN
    BY <1>0, <1>5 DEF SelectMode, AdminOption, AdminMode, Combo, Heard, admin
  <2> QED BY <1>0, <2>1, ButtonsNext
<1>6. ASSUME NEW s \in Controller, ReadyUp(s)
      PROVE  LifeInv'
  <2>1. /\ UNCHANGED <<forcing, shown>> /\ UNCHANGED life
        /\ (latch' = latch /\ busy' = busy) \/ (latch' \in BOOLEAN /\ busy' = "feedback")
    <3> DEFINE starts == AllReady(Moved(Lobby, s, "READY")) /\ ~latch
    <3>1. /\ UNCHANGED <<forcing, shown>> /\ UNCHANGED life
          /\ latch' = (latch \/ starts)
          /\ busy' = IF starts THEN "feedback" ELSE busy
      BY <1>6 DEF ReadyUp
    <3> HIDE DEF starts
    <3>2. CASE starts
      BY <3>1, <3>2
    <3>3. CASE ~starts
      <4>1. latch' = latch
        BY <1>0, <3>1, <3>3, Zenon
      <4> QED BY <3>1, <3>3, <4>1
    <3> QED BY <3>2, <3>3
  <2> QED BY <1>0, <2>1, ButtonsNext
<1> QED BY <1>1, <1>2, <1>3, <1>4, <1>5, <1>6 DEF Next

-----------------------------------------------------------------------------
(* Sleepers                                                                *)

Away == {"leaving", "leavingStopped", "game", "restore"}

\* A lifecycle that left the lobby comes back by its reset only.
LEMMA AwayNext ==
  ASSUME stage \in Away, Next
  PROVE  stage' \in Away \/ Reregister
<1> USE DEF Away, Live, Start, ReadyStart, Restore, Delayed, Restarting
<1>1. CASE stage' = stage
  BY <1>1
<1>2. CASE WebStart \/ PadStart \/ FeedbackOver
  BY <1>2 DEF WebStart, PadStart, FeedbackOver
<1>3. CASE DropReadyStart \/ TooFew \/ ShortOver \/ Prepare \/ Restored
  BY <1>3 DEF DropReadyStart, TooFew, ShortOver, Prepare, Restored
<1>4. CASE Prepared \/ GameOver \/ ResetMenu
  BY <1>4 DEF Prepared, GameOver, ResetMenu
<1>5. ASSUME NEW s \in Controller, TriggerAgain(s) \/ PauseOver(s)
      PROVE  stage' = stage
  BY <1>5 DEF TriggerAgain, PauseOver
<1>6. CASE PadTakesOver \/ OptionOver \/ TimeoutExit \/ EnterIdle \/ Pulse \/ RotateSentinels
           \/ StreamBreaks \/ Reconnect \/ StartMenu \/ LobbyEntered \/ StopMenu
           \/ ModeSelected
  BY <1>1, <1>6
     DEF PadTakesOver, OptionOver, TimeoutExit, EnterIdle, Pulse, RotateSentinels,
         StreamBreaks, Reconnect, StartMenu, LobbyEntered, StopMenu, ModeSelected, life
<1>7. ASSUME NEW s \in Controller,
             ReadyUp(s) \/ Unready(s) \/ SelectMode(s) \/ WakeUp(s) \/ AdminLeaves(s)
               \/ AdminOption(s) \/ AdminMode(s) \/ HoldTrigger(s) \/ ReleaseTrigger(s)
               \/ Combo(s) \/ FaceReleased(s) \/ HoldFires(s) \/ RosterBack(s)
               \/ LoseDisconnect(s) \/ Connect(s) \/ Disconnect(s)
      PROVE  stage' = stage
  BY <1>7
     DEF ReadyUp, Unready, SelectMode, WakeUp, AdminLeaves, AdminOption, AdminMode,
         HoldTrigger, ReleaseTrigger, Combo, FaceReleased, HoldFires, RosterBack,
         LoseDisconnect, Connect, Disconnect, life
<1> QED BY <1>1, <1>2, <1>3, <1>4, <1>5, <1>6, <1>7 DEF Next

\* Idle mode goes with its sleepers.
LEMMA SleepersNext ==
  ASSUME TypeOK, Good(Lobby), IdleTyped, SleepersWake, Next
  PROVE  SleepersWake'
<1>1. CASE \A s \in Controller : ctl'[s] # "IDLE"
  BY <1>1 DEF SleepersWake
<1>2. CASE EnterIdle
  <2>1. idle'.active
    BY <1>2 DEF EnterIdle
  <2> QED BY <2>1 DEF SleepersWake
<1>3. CASE NoSleeper
  <2> SUFFICES ASSUME stage' \notin Away, NEW s \in Controller, ctl'[s] = "IDLE"
               PROVE  idle'.active
    BY DEF SleepersWake, Away
  <2>1. ctl[s] = "IDLE"
    BY <1>3 DEF NoSleeper
  <2>2. ~Reregister
    BY ResetSound DEF Reregister, wire
  <2>3. stage \notin Away
    BY <2>2, AwayNext
  <2>4. idle.active
    BY <2>1, <2>3 DEF SleepersWake, Away
  <2>5. ~StopMenu
    BY StopMenuGood
  <2>6. ~Prepare
    BY DEF Prepare, Away
  <2>7. \A r \in Controller : WakeUp(r) => idle' = idle
    BY WakeUpSound
  <2> QED BY <2>4, <2>5, <2>6, <2>7, IdleNext
<1> QED BY <1>2, <1>3, ControllersNext

-----------------------------------------------------------------------------
(* The invariant and what follows                                          *)

\* It holds of a menu that boots.
LEMMA LobbyInit == Init => LobbyInv
<1> SUFFICES ASSUME Init  PROVE LobbyInv
  OBVIOUS
<1> USE DEF Init
<1>1. TypeOK
  BY DEF TypeOK, IdleOff
<1>2. LatchOwned /\ LatchFresh /\ ForcingOwned /\ SessionTimed
  BY DEF LatchOwned, LatchFresh, ForcingOwned, SessionTimed
<1>3. SleepersWake /\ GameNotRunning /\ LampsKept /\ HoldsOwned
  BY DEF SleepersWake, GameNotRunning, LampsKept, HoldsOwned
<1>4. ActiveIsOn
  BY DEF ActiveIsOn, IdleOff
<1> QED BY <1>1, <1>2, <1>3, <1>4 DEF LobbyInv

\* It outlives every step, and no step makes a released hold a force start.
LEMMA LobbyNext == LobbyInv /\ [Next]_vars => LobbyInv' /\ Honest
<1> SUFFICES ASSUME LobbyInv, [Next]_vars
             PROVE  LobbyInv' /\ Honest
  OBVIOUS
<1>1. /\ TypeOK /\ Good(Lobby) /\ IdleTyped /\ WireTyped /\ LifeInv /\ SleepersWake
  BY Typed, LobbyIsGood DEF LobbyInv, IdleTyped, LifeInv
<1>2. CASE Next
  <2>1. Good(Lobby)' /\ Honest
    BY <1>1, <1>2, ControllersNext
  <2>2. IdleTyped' /\ WireTyped' /\ LifeInv' /\ SleepersWake'
    BY <1>1, <1>2, IdleNext, WireNext, LifeNext, SleepersNext
  <2>3. (RecordTyped /\ SessionTimed /\ LampsKept /\ ForcingOwned /\ HoldsOwned)'
    BY <2>1, LobbyIsGoodNext
  <2>4. TypeOK'
    BY <2>2, <2>3, Typed DEF IdleTyped, LifeInv
  <2> QED BY <2>1, <2>2, <2>3, <2>4 DEF LobbyInv, IdleTyped, LifeInv
<1>3. CASE UNCHANGED vars
  <2> USE <1>3 DEF vars
  <2>1. TypeOK'
    BY <1>1 DEF TypeOK
  <2>2. (LatchOwned /\ LatchFresh /\ GameNotRunning /\ ActiveIsOn)'
    BY DEF LobbyInv, LatchOwned, LatchFresh, GameNotRunning, ActiveIsOn, Live
  <2>3. (ForcingOwned /\ SessionTimed /\ HoldsOwned)'
    BY DEF LobbyInv, ForcingOwned, SessionTimed, HoldsOwned
  <2>4. (SleepersWake /\ LampsKept)'
    BY DEF LobbyInv, SleepersWake, LampsKept
  <2>5. Honest
    BY DEF Honest
  <2> QED BY <2>1, <2>2, <2>3, <2>4, <2>5 DEF LobbyInv
<1> QED BY <1>2, <1>3

\* In every lobby, the latch, the force start, the hold and the timer have their owners, and
\* what shows or sleeps has its reason: LobbyInv for any number of controllers.
THEOREM LobbyHolds == Spec => []LobbyInv
<1>1. LobbyInv /\ [Next]_vars => LobbyInv'
  BY LobbyNext
<1> QED BY LobbyInit, <1>1, PTL DEF Spec

\* A lobby at rest shows the states behind its lamps (LampTrue).
THEOREM LampsTrue == Spec => []LampTrue
<1>1. LobbyInv => LampTrue
  BY DEF LobbyInv, LampsKept, LampTrue, AtRest
<1> QED BY <1>1, LobbyHolds, PTL

\* A sleeper of a RUNNING lobby has its idle mode (IdleWakes).
THEOREM IdleAlwaysWakes == Spec => []IdleWakes
<1>1. LobbyInv => IdleWakes
  BY DEF LobbyInv, SleepersWake, GameNotRunning, IdleWakes
<1> QED BY <1>1, LobbyHolds, PTL

\* A released hold never becomes a force start (HoldHonest).
THEOREM HoldsHonest == Spec => HoldHonest
<1>1. LobbyInv /\ [Next]_vars
        => [\A s \in Controller : hold[s] = "loose" => hold'[s] # "roster"]_vars
  BY LobbyNext DEF Honest
<1> QED BY <1>1, LobbyHolds, PTL DEF Spec, HoldHonest
=============================================================================
