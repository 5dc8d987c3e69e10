----------------------- MODULE ControllerLinks_proofs ------------------------
(***************************************************************************)
(* Every disconnect reaches its game once, and a controller that returns   *)
(* shows what its owner wants it to show: for any controllers and streams. *)
(***************************************************************************)
EXTENDS ControllerLinks, SequenceTheorems, TLAPS

-----------------------------------------------------------------------------
(* Commands under way                                                      *)

HasDeath(q, c) == \E i \in 1 .. Len(q) : q[i] = Death(c)
Keeps(q, S) == \A i \in 1 .. Len(q) : q[i].kind = "filter" => S \subseteq q[i].keep

\* A command is sent behind the others.
LEMMA Sent ==
  ASSUME NEW q \in Seq(Command), NEW m \in Command
  PROVE  /\ Append(q, m) \in Seq(Command) /\ Append(q, m) # << >>
         /\ \A c : HasDeath(Append(q, m), c) <=> HasDeath(q, c) \/ m = Death(c)
         /\ \A S : Keeps(Append(q, m), S)
                     <=> Keeps(q, S) /\ (m.kind = "filter" => S \subseteq m.keep)
         /\ q # << >> => Head(Append(q, m)) = Head(q)
<1> DEFINE p == Append(q, m)
<1>a. p \in Seq(Command) /\ Len(p) = Len(q) + 1 /\ Len(q) \in Nat
  OBVIOUS
<1>b. p[Len(q) + 1] = m
  OBVIOUS
<1>c. \A i \in 1 .. Len(q) : p[i] = q[i]
  OBVIOUS
<1>d. p # << >>
  BY <1>a
<1>e. q # << >> => Head(p) = Head(q)
  BY <1>c, <1>d
<1>1. /\ p \in Seq(Command) /\ Len(p) = Len(q) + 1 /\ p # << >>
      /\ p[Len(q) + 1] = m /\ \A i \in 1 .. Len(q) : p[i] = q[i]
      /\ Len(q) \in Nat /\ (q # << >> => Head(p) = Head(q))
  BY <1>a, <1>b, <1>c, <1>d, <1>e
<1> HIDE DEF p
<1>2. ASSUME NEW c
      PROVE  HasDeath(p, c) <=> HasDeath(q, c) \/ m = Death(c)
  <2>1. HasDeath(p, c) => HasDeath(q, c) \/ m = Death(c)
    BY <1>1 DEF HasDeath
  <2>2. HasDeath(q, c) => HasDeath(p, c)
    BY <1>1 DEF HasDeath
  <2>3. m = Death(c) => HasDeath(p, c)
    BY <1>1 DEF HasDeath
  <2> QED BY <2>1, <2>2, <2>3
<1>3. ASSUME NEW S
      PROVE  Keeps(p, S) <=> Keeps(q, S) /\ (m.kind = "filter" => S \subseteq m.keep)
  BY <1>1 DEF Keeps
<1> QED BY <1>1, <1>2, <1>3 DEF p

\* The first command is taken.
LEMMA Taken ==
  ASSUME NEW q \in Seq(Command), q # << >>
  PROVE  /\ Tail(q) \in Seq(Command) /\ Head(q) \in Command
         /\ \A c : HasDeath(q, c) <=> HasDeath(Tail(q), c) \/ Head(q) = Death(c)
         /\ \A S : Keeps(q, S)
              <=> Keeps(Tail(q), S) /\ (Head(q).kind = "filter" => S \subseteq Head(q).keep)
<1> DEFINE p == Tail(q)
           h == Head(q)
<1>1. /\ p \in Seq(Command) /\ Len(q) \in Nat \ {0} /\ Len(p) = Len(q) - 1
      /\ h = q[1] /\ h \in Command
      /\ \A i \in 1 .. Len(p) : p[i] = q[i + 1]
  OBVIOUS
<1> HIDE DEF p, h
<1>2. \A i \in 1 .. Len(q) : i = 1 \/ (i - 1 \in 1 .. Len(p) /\ q[i] = p[i - 1])
  BY <1>1
<1>3. \A i \in 1 .. Len(p) : i + 1 \in 1 .. Len(q)
  BY <1>1
<1>4. 1 \in 1 .. Len(q)
  BY <1>1
<1>5. ASSUME NEW c
      PROVE  HasDeath(q, c) <=> HasDeath(p, c) \/ h = Death(c)
  <2>1. HasDeath(q, c) => HasDeath(p, c) \/ h = Death(c)
    BY <1>1, <1>2 DEF HasDeath
  <2>2. HasDeath(p, c) => HasDeath(q, c)
    BY <1>1, <1>3 DEF HasDeath
  <2>3. h = Death(c) => HasDeath(q, c)
    BY <1>1, <1>4 DEF HasDeath
  <2> QED BY <2>1, <2>2, <2>3
<1>6. ASSUME NEW S
      PROVE  Keeps(q, S) <=> Keeps(p, S) /\ (h.kind = "filter" => S \subseteq h.keep)
  <2>1. Keeps(q, S) => Keeps(p, S)
    BY <1>1, <1>3 DEF Keeps
  <2>2. Keeps(q, S) => (h.kind = "filter" => S \subseteq h.keep)
    BY <1>1, <1>4 DEF Keeps
  <2>3. Keeps(p, S) /\ (h.kind = "filter" => S \subseteq h.keep) => Keeps(q, S)
    BY <1>1, <1>2 DEF Keeps
  <2> QED BY <2>1, <2>2, <2>3
<1> QED BY <1>1, <1>5, <1>6 DEF p, h

\* What a broken call still delivers is the beginning of what was under way.
LEMMA Cut ==
  ASSUME NEW q \in Seq(Command), NEW n \in 0 .. Len(q)
  PROVE  /\ SubSeq(q, 1, n) \in Seq(Command)
         /\ \A c : HasDeath(SubSeq(q, 1, n), c) => HasDeath(q, c)
         /\ \A S : Keeps(q, S) => Keeps(SubSeq(q, 1, n), S)
         /\ n > 0 => SubSeq(q, 1, n) # << >>
         /\ q = << >> => SubSeq(q, 1, n) = << >>
<1> DEFINE p == SubSeq(q, 1, n)
<1>1. /\ p \in Seq(Command) /\ Len(p) = n /\ Len(q) \in Nat /\ n \in Nat /\ n <= Len(q)
      /\ \A i \in 1 .. n : p[i] = q[i]
  OBVIOUS
<1>2. n > 0 => p # << >>
  BY <1>1
<1>3. q = << >> => p = << >>
  BY <1>1
<1> HIDE DEF p
<1>4. \A c : HasDeath(p, c) => HasDeath(q, c)
  BY <1>1 DEF HasDeath
<1>5. \A S : Keeps(q, S) => Keeps(p, S)
  BY <1>1 DEF Keeps
<1> QED BY <1>1, <1>2, <1>3, <1>4, <1>5 DEF p

\* The commands a game sends are commands.
LEMMA Commands ==
  /\ \A S \in SUBSET Controller : /\ Config(S) \in Command /\ Config(S).kind = "config"
                                  /\ Config(S).lit = S
                                  /\ Filter(S) \in Command /\ Filter(S).kind = "filter"
                                  /\ Filter(S).keep = S
  /\ \A c \in Controller : /\ Death(c) \in Command /\ Death(c).kind = "death"
                           /\ Death(c).of = c
BY DEF Command, Config, Filter, Death

\* And a command is of one of three kinds.
LEMMA Kinds ==
  ASSUME NEW m \in Command
  PROVE  /\ m.kind = "config" => m.lit \in SUBSET Controller
         /\ m.kind = "filter" => m.keep \in SUBSET Controller
         /\ m.kind = "death" => m.of \in Controller /\ m = Death(m.of)
         /\ \A c : m = Death(c) => m.kind = "death" /\ m.of = c
BY DEF Command, Death

-----------------------------------------------------------------------------
(* Type correctness                                                        *)

\* What a game sends makes a sequence of commands.
LEMMA Openings ==
  ASSUME NEW S \in SUBSET Controller
  PROVE  /\ <<Config(S)>> \in Seq(Command) /\ <<Config(S), Filter(S)>> \in Seq(Command)
         /\ <<Config(S)>> # << >> /\ <<Config(S), Filter(S)>> # << >>
         /\ Head(<<Config(S)>>) = Config(S) /\ Head(<<Config(S), Filter(S)>>) = Config(S)
         /\ \A c : ~HasDeath(<<Config(S)>>, c) /\ ~HasDeath(<<Config(S), Filter(S)>>, c)
         /\ \A T : T \subseteq S => Keeps(<<Config(S)>>, T) /\ Keeps(<<Config(S), Filter(S)>>, T)
<1> DEFINE a == Config(S)
           b == Filter(S)
<1>1. /\ a \in Command /\ b \in Command /\ a.kind = "config" /\ b.kind = "filter" /\ b.keep = S
  BY Commands
<1>2. \A c : Death(c) # a /\ Death(c) # b
  BY DEF Death, Config, Filter
<1> HIDE DEF a, b
<1>3. /\ <<a>> \in Seq(Command) /\ <<a, b>> \in Seq(Command)
      /\ <<a>> # << >> /\ <<a, b>> # << >>
      /\ Head(<<a>>) = a /\ Head(<<a, b>>) = a
  BY <1>1
<1>4. \A c : ~HasDeath(<<a>>, c) /\ ~HasDeath(<<a, b>>, c)
  BY <1>2 DEF HasDeath
<1>5. \A T : T \subseteq S => Keeps(<<a>>, T) /\ Keeps(<<a, b>>, T)
  BY <1>1 DEF Keeps
<1> QED BY <1>3, <1>4, <1>5 DEF a, b

\* A colour written leaves the output well-typed.
LEMMA WrittenType ==
  ASSUME want \in [Controller -> Lamp], held \subseteq Controller,
         NEW S \in SUBSET Controller, NEW paint \in [S -> Colour], Written(paint, want)
  PROVE  /\ want' \in [Controller -> Lamp] /\ held' \subseteq Controller
         /\ \A c \in Controller : want'[c] = IF c \in S THEN paint[c] ELSE want[c]
         /\ held' = held \cup (S \ routed)
BY DEF Written, Lamp

\* What is noted of a controller or of a stream stays a set.
LEMMA Noted ==
  ASSUME NEW D, NEW R, NEW f \in [D -> SUBSET R], NEW d \in D, NEW S \in SUBSET R
  PROVE  /\ [f EXCEPT ![d] = @ \cup S] \in [D -> SUBSET R]
         /\ [f EXCEPT ![d] = @ \ S] \in [D -> SUBSET R]
OBVIOUS

\* TypeOK survives every step.
LEMMA TypeStep ==
  ASSUME TypeOK, HandedOnce, StreamInv, Next
  PROVE  TypeOK'
<1> USE LinksAssumption
<1>1. ASSUME PassLists PROVE TypeOK'
  BY <1>1 DEF TypeOK, PassLists, streams, game, history, Lamp
<1>2. ASSUME PassDrops PROVE TypeOK'
  BY <1>2 DEF TypeOK, PassDrops, DropOutput, LeftLit, streams, game, Lamp
<1>3. ASSUME PassEnds PROVE TypeOK'
  BY <1>3 DEF TypeOK, PassEnds, backend, streams, game, history
<1>4. ASSUME NEW c \in Controller, PassRegisters(c) PROVE TypeOK'
  <2>1. ReconnectColor(c) \in Lamp
    BY DEF TypeOK, ReconnectColor, Lamp, Colour
  <2>2. CASE Register(c)
    <3>1. want' \in [Controller -> Lamp]
      BY <2>1, <2>2 DEF TypeOK, Register
    <3>2. slipped' \in [Controller -> SUBSET {"lit", "late", "claim"}]
      BY <2>2 DEF TypeOK, Register
    <3>3. pass' \in [step : {"idle", "listed", "registering"}, todo : SUBSET Controller]
      BY <1>4 DEF TypeOK, PassRegisters
    <3>4. /\ tracked' \subseteq Controller /\ silenced' \subseteq Controller \ tracked'
          /\ held' \subseteq Controller /\ known' \subseteq Controller
      BY <2>2 DEF TypeOK, Register
    <3> QED BY <1>4, <3>1, <3>2, <3>3, <3>4 DEF TypeOK, PassRegisters, streams, game
  <2>3. CASE UNCHANGED <<tracked, silenced, held, want, known, slipped>>
    BY <1>4, <2>3 DEF TypeOK, PassRegisters, streams, game
  <2> QED BY <1>4, <2>2, <2>3 DEF PassRegisters
<1>5. ASSUME NEW c \in Controller, LinkMoves(c) PROVE TypeOK'
  BY <1>5 DEF TypeOK, LinkMoves, backend, manager, streams, game, history
<1>6. ASSUME NEW c \in Controller, LobbyPaints(c) PROVE TypeOK'
  <2>1. want' \in [Controller -> Lamp] /\ held' \subseteq Controller
    <3>1. [x \in {c} |-> "lobby"] \in [{c} -> Colour] /\ {c} \in SUBSET Controller
      BY DEF Colour
    <3> QED BY <1>6, <3>1, WrittenType DEF TypeOK, LobbyPaints
  <2> QED BY <1>6, <2>1 DEF TypeOK, LobbyPaints, streams, game, history, Lamp, Colour
<1>7. ASSUME NEW c \in Controller, IdentifyAsked(c) PROVE TypeOK'
  BY <1>7 DEF TypeOK, IdentifyAsked, backend, manager, streams, game, history
<1>8. ASSUME NEW c \in Controller, IdentifyStarts(c) PROVE TypeOK'
  <2>1. /\ ident' \in [Controller -> {"none", "starting", "running"}]
        /\ slipped' \in [Controller -> SUBSET {"lit", "late", "claim"}]
    <3>1. CASE InGame(c)
      BY ZenonT(40), <1>8, <3>1 DEF TypeOK, IdentifyStarts
    <3>2. CASE ~InGame(c)
      <4>1. ident' = [ident EXCEPT ![c] = "running"]
        BY <1>8, <3>2 DEF IdentifyStarts
      <4>2. \/ slipped' = [slipped EXCEPT ![c] = @ \cup {"claim"}]
            \/ slipped' = [slipped EXCEPT ![c] = @]
        BY <1>8, <3>2 DEF IdentifyStarts
      <4>3. {"claim"} \in SUBSET {"lit", "late", "claim"}
        OBVIOUS
      <4>4. slipped \in [Controller -> SUBSET {"lit", "late", "claim"}]
        BY DEF TypeOK
      <4>5. [slipped EXCEPT ![c] = @ \cup {"claim"}]
              \in [Controller -> SUBSET {"lit", "late", "claim"}]
        BY <4>3, <4>4, Noted
      <4>6. [slipped EXCEPT ![c] = @] = slipped
        BY <4>4
      <4>7. ident' \in [Controller -> {"none", "starting", "running"}]
        BY <4>1 DEF TypeOK
      <4> QED BY <4>2, <4>4, <4>5, <4>6, <4>7
    <3> QED BY <3>1, <3>2
  <2> QED BY <1>8, <2>1 DEF TypeOK, IdentifyStarts, backend, manager, streams, game
<1>9. ASSUME NEW c \in Controller, IdentifyEnds(c) PROVE TypeOK'
  BY <1>9 DEF TypeOK, IdentifyEnds, backend, manager, streams, game
<1>10. ASSUME NEW s \in Stream, NEW c \in Controller, GameHandles(s, c) PROVE TypeOK'
  <2>1. Append(wire[s], Death(c)) \in Seq(Command)
    BY Sent, Commands DEF TypeOK
  <2>2. CASE c \in roster[s] \ out[s] /\ Out(s, c)
    BY <1>10, <2>1, <2>2 DEF TypeOK, GameHandles, Out, backend, manager, streams, history
  <2>3. CASE UNCHANGED <<out, wire>>
    BY <1>10, <2>3 DEF TypeOK, GameHandles, backend, manager, streams, history
  <2> QED BY <1>10, <2>2, <2>3 DEF GameHandles
<1>11. ASSUME NEW s \in Stream, NEW c \in Controller, GameKills(s, c) PROVE TypeOK'
  <2>1. Append(wire[s], Death(c)) \in Seq(Command)
    BY Sent, Commands DEF TypeOK
  <2> QED BY <1>11, <2>1 DEF TypeOK, GameKills, Out, backend, manager, streams, history
<1>12. ASSUME NEW s \in Stream, Claim(s) PROVE TypeOK'
  BY <1>12 DEF TypeOK, Claim, backend, manager, game
<1>13. ASSUME NEW s \in Stream, wire[s] # << >>, Open(s) PROVE TypeOK'
  <2> DEFINE paint == [c \in roster[s] |-> IF c \in Head(wire[s]).lit THEN s ELSE "off"]
             first == [c \in roster[s] \cap tracked |-> paint[c]]
  <2>1. paint \in [roster[s] -> Colour] /\ first \in [roster[s] \cap tracked -> Colour]
    BY DEF Colour
  <2>2. /\ Written(first, want)
        /\ base' = [c \in Controller |-> IF c \in roster[s] THEN paint[c] ELSE base[c]]
    BY <1>13 DEF Open
  <2> HIDE DEF paint, first
  <2>3. want' \in [Controller -> Lamp] /\ held' \subseteq Controller
    BY <2>1, <2>2, WrittenType DEF TypeOK
  <2>4. base' \in [Controller -> Lamp]
    BY <2>1, <2>2 DEF TypeOK, Lamp
  <2>5. wire' \in [Stream -> Seq(Command)]
    BY <1>13, Taken DEF TypeOK, Open
  <2>6. pending' \in [Stream -> [Controller -> Nat]] /\ queue' \in [Controller -> Nat]
    BY <1>13 DEF TypeOK, Open, Extended, Emptied
  <2>7. owed' \in [Stream -> [Controller -> Nat]] /\ dropped' \subseteq Controller
    BY <1>13 DEF TypeOK, Open, Collected
  <2>8. /\ phase' \in [Stream -> {"new", "claiming", "open", "closed"}]
        /\ alive' \in [Stream -> SUBSET Controller]
    BY <1>13 DEF TypeOK, Open
  <2> QED BY <1>13, <2>3, <2>4, <2>5, <2>6, <2>7, <2>8 DEF TypeOK, Open
<1>14. ASSUME NEW s \in Stream, Dies(s) PROVE TypeOK'
  <2> DEFINE c == Head(wire[s]).of
  <2>1. wire' \in [Stream -> Seq(Command)] /\ c \in Controller
    BY <1>14, Taken, Kinds DEF TypeOK, Dies
  <2>2. \/ /\ base' = [base EXCEPT ![c] = "off"] /\ Written([x \in {c} |-> "off"], want)
           /\ ident' = [ident EXCEPT ![c] = "none"]
           /\ slipped' = [slipped EXCEPT ![c] = @ \ {"claim"}]
           /\ refused' = refused
        \/ /\ refused' = [refused EXCEPT ![s] = @ \cup {c}]
           /\ UNCHANGED <<base, want, held, ident, slipped>>
    BY <1>14 DEF Dies
  <2> HIDE DEF c
  <2>3. [x \in {c} |-> "off"] \in [{c} -> Colour] /\ {c} \in SUBSET Controller
    BY <2>1 DEF Colour
  <2>4. want' \in [Controller -> Lamp] /\ held' \subseteq Controller
    BY <2>2, <2>3, WrittenType DEF TypeOK
  <2>5. base' \in [Controller -> Lamp]
    BY <2>1, <2>2 DEF TypeOK, Lamp, Colour
  <2>6. ident' \in [Controller -> {"none", "starting", "running"}]
    BY <2>1, <2>2 DEF TypeOK
  <2>7. slipped' \in [Controller -> SUBSET {"lit", "late", "claim"}]
    <3>1. slipped \in [Controller -> SUBSET {"lit", "late", "claim"}]
      BY DEF TypeOK
    <3>2. {"claim"} \in SUBSET {"lit", "late", "claim"}
      OBVIOUS
    <3> QED BY <2>1, <2>2, <3>1, <3>2, Noted
  <2>8. refused' \in [Stream -> SUBSET Controller]
    <3>1. refused \in [Stream -> SUBSET Controller]
      BY DEF TypeOK
    <3>2. {c} \in SUBSET Controller
      BY <2>1
    <3>3. [refused EXCEPT ![s] = @ \cup {c}] \in [Stream -> SUBSET Controller]
      BY <3>1, <3>2, Noted
    <3> QED BY <2>2, <3>1, <3>3
  <2> QED BY <1>14, <2>1, <2>4, <2>5, <2>6, <2>7, <2>8 DEF TypeOK, Dies, streams
<1>15. ASSUME NEW s \in Stream, Filters(s) PROVE TypeOK'
  <2>1. /\ wire' \in [Stream -> Seq(Command)] /\ Head(wire[s]).keep \in SUBSET Controller
    BY <1>15, Taken, Kinds DEF TypeOK, Filters
  <2> QED BY <1>15, <2>1 DEF TypeOK, Filters, backend, manager, history
<1>16. ASSUME NEW s \in Stream, Frame(s) PROVE TypeOK'
  <2>1. /\ pending' \in [Stream -> [Controller -> Nat]] /\ queue' \in [Controller -> Nat]
        /\ dropped' \subseteq Controller
    <3>1. Extended \in [Stream -> [Controller -> Nat]]
      BY DEF TypeOK, Extended
    <3>2. Emptied \in [Controller -> Nat]
      BY DEF Emptied
    <3>3. Collected \subseteq Controller
      BY DEF Collected
    <3> QED BY <1>16, <3>1, <3>2, <3>3 DEF TypeOK, Frame
  <2>2. \A c \in Controller : Extended[s][c] = owed[s][c]
    BY <1>16 DEF TypeOK, Frame, Extended, HandedOnce
  <2>3. owed' = [owed EXCEPT ![s] = [c \in Controller |-> 0]]
    <3>1. [c \in Controller |-> owed[s][c] - Extended[s][c]] = [c \in Controller |-> 0]
      BY <2>2 DEF TypeOK
    <3> QED BY <1>16, <3>1 DEF Frame
  <2>4. owed' \in [Stream -> [Controller -> Nat]]
    BY <2>3 DEF TypeOK
  <2>5. /\ handed' \in [Stream -> SUBSET Controller] /\ mail' \in [Stream -> SUBSET Controller]
    BY <1>16 DEF TypeOK, Frame
  <2> QED BY <1>16, <2>1, <2>4, <2>5 DEF TypeOK, Frame, backend
<1>17. ASSUME NEW s \in Stream, Release(s) PROVE TypeOK'
  BY <1>17 DEF TypeOK, Release, Emptied, DropOutput, Lamp, game
<1>18. ASSUME NEW s \in Stream, NewGame(s) PROVE TypeOK'
  <2>1. PICK players \in SUBSET Controller :
          /\ roster' = [roster EXCEPT ![s] = players] /\ asked' = [asked EXCEPT ![s] = players]
          /\ wire' = [wire EXCEPT ![s] = <<Config(players)>>]
          /\ \A t \in Stream : GoesOn(t) \/ phase[t] # "closed" => players \cap roster[t] = {}
    BY <1>18 DEF NewGame
  <2>3. /\ wire' \in [Stream -> Seq(Command)] /\ roster' \in [Stream -> SUBSET Controller]
        /\ asked' \in [Stream -> SUBSET Controller]
    BY <2>1, Openings DEF TypeOK
  <2>4. /\ play' \in [Stream -> {"none", "running", "failed", "ended"}] /\ intro' \subseteq Stream
    BY <1>18 DEF TypeOK, NewGame
  <2>5. \A t \in Stream : out[t] \subseteq roster'[t]
    BY <1>18, <2>1 DEF TypeOK, NewGame, StreamInv
  <2> QED BY <1>18, <2>3, <2>4, <2>5 DEF TypeOK, NewGame, backend, manager, streams, history
<1>19. ASSUME NEW s \in Stream, GameBegins(s) PROVE TypeOK'
  BY <1>19 DEF TypeOK, GameBegins, backend, manager, streams, history
<1>20. ASSUME NEW s \in Stream, GameFilters(s) PROVE TypeOK'
  <2>1. Append(wire[s], Filter(roster[s] \ out[s])) \in Seq(Command)
    BY Sent, Commands DEF TypeOK
  <2> QED BY <1>20, <2>1 DEF TypeOK, GameFilters, backend, manager, streams, history
<1>21. ASSUME NEW s \in Stream, GameEnds(s) PROVE TypeOK'
  BY <1>21 DEF TypeOK, GameEnds, backend, manager, streams, history
<1>22. ASSUME NEW s \in Stream, StreamFails(s) PROVE TypeOK'
  <2>1. \A n \in 0 .. Len(wire[s]) : SubSeq(wire[s], 1, n) \in Seq(Command)
    BY Cut DEF TypeOK
  <2>2. wire' \in [Stream -> Seq(Command)]
    BY <1>22, <2>1 DEF TypeOK, StreamFails
  <2>3. mail' \in [Stream -> SUBSET Controller]
    BY ZenonT(40), <1>22 DEF TypeOK, StreamFails
  <2> QED BY <1>22, <2>2, <2>3 DEF TypeOK, StreamFails, backend, manager, streams, history
<1>23. ASSUME NEW s \in Stream, NEW t \in Stream, Reopen(s, t) PROVE TypeOK'
  <2>1. /\ <<Config(roster[t] \ out[t])>> \in Seq(Command)
        /\ <<Config(roster[t] \ out[t]), Filter(roster[t] \ out[t])>> \in Seq(Command)
    BY Openings DEF TypeOK
  <2> QED BY <1>23, <2>1 DEF TypeOK, Reopen, backend, manager, streams, history
<1> QED
  BY <1>1, <1>2, <1>3, <1>4, <1>5, <1>6, <1>7, <1>8, <1>9, <1>10, <1>11, <1>12, <1>13, <1>14,
     <1>15, <1>16, <1>17, <1>18, <1>19, <1>20, <1>21, <1>22, <1>23
  DEF Next, Discovery, Applies, Configures

-----------------------------------------------------------------------------
(* Steps                                                                   *)

\* The steps of the game at the other end, of Identify, and of a config.
GameStep(s) ==
  \/ NewGame(s) \/ GameBegins(s) \/ GameFilters(s) \/ GameEnds(s) \/ StreamFails(s)
  \/ \E c \in Controller : GameHandles(s, c) \/ GameKills(s, c)
  \/ \E t \in Stream : Reopen(s, t)
IdentStep(c) == IdentifyAsked(c) \/ IdentifyStarts(c) \/ IdentifyEnds(c)
ConfigFirst(s) == wire[s] # << >> /\ Head(wire[s]).kind = "config"
Claims(s) == ConfigFirst(s) /\ phase[s] = "new" /\ Claim(s)
Opens(s) ==
  /\ ConfigFirst(s) /\ phase[s] \in {"new", "claiming"}
  /\ phase[s] = "new" => Claimed(s) = {}
  /\ Open(s)

\* Every step is one of these.
LEMMA Steps ==
  ASSUME Next
  PROVE  \/ PassLists \/ PassDrops \/ PassEnds
         \/ \E c \in Controller : PassRegisters(c) \/ LinkMoves(c) \/ LobbyPaints(c)
                                    \/ IdentStep(c)
         \/ \E s \in Stream : \/ Claims(s) \/ Opens(s) \/ Dies(s) \/ Filters(s)
                              \/ Frame(s) \/ Release(s) \/ GameStep(s)
<1>1. ASSUME NEW s \in Stream, Configures(s) PROVE Claims(s) \/ Opens(s)
  BY <1>1 DEF Configures, Claims, Opens, ConfigFirst
<1> QED BY <1>1 DEF Next, Discovery, Applies, GameStep, IdentStep

\* The game at the other end changes nothing in the manager.
LEMMA GameStepKeeps ==
  ASSUME NEW s \in Stream, GameStep(s)
  PROVE  UNCHANGED <<backend, manager, ident, streams, known, owed, refused, slipped>>
BY DEF GameStep, NewGame, GameBegins, GameFilters, GameEnds, StreamFails, GameHandles,
   GameKills, Reopen, history, manager

\* Identify changes who is identified, and what slipped into a claim.
LEMMA IdentStepKeeps ==
  ASSUME NEW c \in Controller, IdentStep(c)
  PROVE  /\ UNCHANGED <<backend, manager, streams, game, known, owed, refused>>
         /\ TypeOK => \A x \in Controller : /\ "late" \in slipped'[x] <=> "late" \in slipped[x]
                                            /\ "lit" \in slipped'[x] <=> "lit" \in slipped[x]
<1>1. UNCHANGED <<backend, manager, streams, game, known, owed, refused>>
  BY DEF IdentStep, IdentifyAsked, IdentifyStarts, IdentifyEnds, history
<1>2. \/ slipped' = slipped
      \/ slipped' = [slipped EXCEPT ![c] = @ \cup {"claim"}]
      \/ slipped' = [slipped EXCEPT ![c] = @]
      \/ slipped' = [slipped EXCEPT ![c] = @ \ {"claim"}]
  BY DEF IdentStep, IdentifyAsked, IdentifyStarts, IdentifyEnds, history
<1>3. ASSUME TypeOK
      PROVE  \A x \in Controller : /\ "late" \in slipped'[x] <=> "late" \in slipped[x]
                                   /\ "lit" \in slipped'[x] <=> "lit" \in slipped[x]
  <2>1. slipped \in [Controller -> SUBSET {"lit", "late", "claim"}]
    BY <1>3 DEF TypeOK
  <2> QED BY <1>2, <2>1
<1> QED BY <1>1, <1>3

\* What a pass drops was tracked, and one that is muted has no output left.
LEMMA Drops ==
  ASSUME TypeOK, PassDrops
  PROVE  \E lost \in SUBSET tracked, mute \in SUBSET Controller :
           /\ pass.step = "listed" /\ pass'.step = "registering"
           /\ pass'.todo = pass.todo \ tracked'
           /\ mute \subseteq lost /\ tracked \ lost \subseteq pass.todo
           /\ lost \cap pass.todo = mute
           /\ tracked' = tracked \ lost
           /\ want' = [c \in Controller |-> IF c \in mute THEN None ELSE want[c]]
           /\ held' = held \ mute
           /\ queue' = [c \in Controller |-> queue[c] + (IF c \in lost THEN 1 ELSE 0)]
           /\ ident' = [c \in Controller |-> IF c \in lost THEN "none" ELSE ident[c]]
           /\ owed' = [s \in Stream |-> [c \in Controller |->
                         owed[s][c] + (IF phase[s] = "open" /\ c \in lost THEN 1 ELSE 0)]]
           /\ slipped' = [c \in Controller |->
                            IF c \notin lost THEN slipped[c]
                            ELSE (slipped[c] \ {"claim", "late"})
                                   \cup (IF LeftLit(c) THEN {"late"} ELSE {})]
<1>1. PICK mute \in SUBSET {c \in tracked \cap pass.todo : link[c] # "live"} :
        LET lost == (tracked \ pass.todo) \cup mute
        IN  /\ tracked' = tracked \ lost
            /\ silenced' = (silenced \cap pass.todo) \cup mute
            /\ DropOutput(mute)
            /\ queue' = [c \in Controller |-> queue[c] + (IF c \in lost THEN 1 ELSE 0)]
            /\ ident' = [c \in Controller |-> IF c \in lost THEN "none" ELSE ident[c]]
            /\ pass' = [step |-> "registering", todo |-> pass.todo \ tracked']
            /\ owed' = [s \in Stream |-> [c \in Controller |->
                          owed[s][c] + (IF phase[s] = "open" /\ c \in lost THEN 1 ELSE 0)]]
            /\ slipped' = [c \in Controller |->
                             IF c \notin lost THEN slipped[c]
                             ELSE (slipped[c] \ {"claim", "late"})
                                    \cup (IF LeftLit(c) THEN {"late"} ELSE {})]
  BY DEF PassDrops
<1> DEFINE gone == (tracked \ pass.todo) \cup mute
<1>2. /\ gone \in SUBSET tracked /\ mute \in SUBSET Controller /\ mute \subseteq gone
      /\ tracked \ gone \subseteq pass.todo /\ gone \cap pass.todo = mute
  BY DEF TypeOK
<1>3. /\ pass.step = "listed" /\ pass'.step = "registering"
      /\ pass'.todo = pass.todo \ tracked'
  BY <1>1 DEF PassDrops
<1>4. /\ want' = [c \in Controller |-> IF c \in mute THEN None ELSE want[c]]
      /\ held' = held \ mute
  BY <1>1 DEF DropOutput
<1> QED BY <1>1, <1>2, <1>3, <1>4

\* Registering lights one controller and tracks it.
LEMMA Registers ==
  ASSUME TypeOK, NEW c \in Controller, PassRegisters(c)
  PROVE  /\ c \in pass.todo /\ pass.step = "registering"
         /\ pass'.step = "registering" /\ pass'.todo = pass.todo \ {c}
         /\ UNCHANGED <<link, routed, base, queue, dropped, ident, streams, game, owed, refused>>
         /\ \/ UNCHANGED <<tracked, held, want, known, slipped>>
            \/ /\ tracked' = tracked \cup {c} /\ known' = known \cup {c} /\ held' = held \ {c}
               /\ \A x \in Controller \ {c} : want'[x] = want[x] /\ slipped'[x] = slipped[x]
               /\ ReconnectColor(c) = None => want'[c] = want[c]
               /\ ReconnectColor(c) # None => want'[c] = ReconnectColor(c)
               /\ "late" \in slipped'[c] <=> "late" \in slipped[c]
               /\ "claim" \in slipped'[c] <=> "claim" \in slipped[c]
               /\ \/ "lit" \in slipped'[c]
                  \/ \A s \in Stream : c \in refused[s] => c \in handed[s] \ alive[s]
<1>1. /\ c \in pass.todo /\ pass.step = "registering"
      /\ UNCHANGED <<link, routed, base, queue, dropped, ident, streams, game, owed, refused>>
      /\ pass' = [pass EXCEPT !.todo = @ \ {c}]
      /\ Register(c) \/ UNCHANGED <<tracked, held, want, known, slipped>>
  BY DEF PassRegisters
<1>2. pass'.step = "registering" /\ pass'.todo = pass.todo \ {c}
  BY <1>1 DEF TypeOK
<1>3. ASSUME Register(c)
      PROVE  /\ tracked' = tracked \cup {c} /\ known' = known \cup {c} /\ held' = held \ {c}
             /\ \A x \in Controller \ {c} : want'[x] = want[x]
             /\ ReconnectColor(c) = None => want'[c] = want[c]
             /\ ReconnectColor(c) # None => want'[c] = ReconnectColor(c)
  BY <1>3 DEF Register, TypeOK
<1>4. ASSUME Register(c)
      PROVE  /\ \A x \in Controller \ {c} : slipped'[x] = slipped[x]
             /\ "late" \in slipped'[c] <=> "late" \in slipped[c]
             /\ "claim" \in slipped'[c] <=> "claim" \in slipped[c]
             /\ \/ "lit" \in slipped'[c]
                \/ \A s \in Stream : c \in refused[s] => c \in handed[s] \ alive[s]
  <2>1. slipped \in [Controller -> SUBSET {"lit", "late", "claim"}]
    BY DEF TypeOK
  <2>2. \/ slipped' = [slipped EXCEPT ![c] = @ \cup {"lit"}]
        \/ /\ slipped' = [slipped EXCEPT ![c] = @ \ {"lit"}]
           /\ \A s \in Stream : c \in refused[s] => c \in handed[s] \ alive[s]
    <3>1. CASE \E s \in Stream : c \in refused[s] /\ ~(c \in handed[s] \ alive[s])
      BY <1>4, <3>1 DEF Register
    <3>2. CASE ~ \E s \in Stream : c \in refused[s] /\ ~(c \in handed[s] \ alive[s])
      BY <1>4, <3>2 DEF Register
    <3> QED BY <3>1, <3>2
  <2> QED BY <2>1, <2>2
<1> QED BY <1>1, <1>2, <1>3, <1>4

\* A death is applied to a player that is out, or refused.
LEMMA Deaths ==
  ASSUME TypeOK, WireInv, NEW s \in Stream, Dies(s)
  PROVE  \E c \in out[s] :
           /\ Head(wire[s]) = Death(c) /\ wire' = [wire EXCEPT ![s] = Tail(@)]
           /\ phase[s] = "open" /\ wire[s] # << >> /\ c \in roster[s]
           /\ UNCHANGED <<routed, tracked, pass, queue, dropped, streams, play, roster, out,
                          known, owed>>
           /\ \/ /\ c \in tracked /\ base' = [base EXCEPT ![c] = "off"]
                 /\ want' = [want EXCEPT ![c] = "off"] /\ held' = held \cup ({c} \ routed)
                 /\ ident' = [ident EXCEPT ![c] = "none"]
                 /\ slipped' = [slipped EXCEPT ![c] = @ \ {"claim"}] /\ refused' = refused
              \/ /\ c \notin tracked /\ refused' = [refused EXCEPT ![s] = @ \cup {c}]
                 /\ UNCHANGED <<base, want, held, ident, slipped>>
<1> DEFINE c == Head(wire[s]).of
<1>1. wire[s] \in Seq(Command) /\ wire[s] # << >> /\ Head(wire[s]).kind = "death"
  BY DEF TypeOK, Dies
<1>2. Head(wire[s]) = Death(c) /\ c \in Controller
  BY <1>1, Taken, Kinds
<1>3. HasDeath(wire[s], c)
  BY <1>1, <1>2, Taken
<1>4. c \in out[s] /\ c \in roster[s]
  BY <1>2, <1>3 DEF WireInv, DeathSent, HasDeath, TypeOK
<1>5. /\ wire' = [wire EXCEPT ![s] = Tail(@)] /\ phase[s] = "open"
      /\ UNCHANGED <<routed, tracked, pass, queue, dropped, streams, play, roster, out,
                     known, owed>>
      /\ \/ /\ c \in tracked /\ base' = [base EXCEPT ![c] = "off"]
            /\ Written([x \in {c} |-> "off"], want)
            /\ ident' = [ident EXCEPT ![c] = "none"]
            /\ slipped' = [slipped EXCEPT ![c] = @ \ {"claim"}] /\ refused' = refused
         \/ /\ c \notin tracked /\ refused' = [refused EXCEPT ![s] = @ \cup {c}]
            /\ UNCHANGED <<base, want, held, ident, slipped>>
  BY DEF Dies
<1> HIDE DEF c
<1>6. ASSUME Written([x \in {c} |-> "off"], want)
      PROVE  want' = [want EXCEPT ![c] = "off"] /\ held' = held \cup ({c} \ routed)
  BY <1>2, <1>6 DEF Written, TypeOK
<1> QED BY <1>1, <1>2, <1>4, <1>5, <1>6

\* Opening paints the players, and counts what the stream has to be handed.
LEMMA Opened ==
  ASSUME TypeOK, NEW s \in Stream, Opens(s)
  PROVE  /\ wire[s] # << >> /\ Head(wire[s]).kind = "config" /\ phase[s] \in {"new", "claiming"}
         /\ wire' = [wire EXCEPT ![s] = Tail(@)]
         /\ phase' = [phase EXCEPT ![s] = "open"] /\ alive' = [alive EXCEPT ![s] = roster[s]]
         /\ dropped' = (dropped \cup Collected) \ tracked /\ queue' = Emptied
         /\ pending' = [Extended EXCEPT ![s] = [c \in Controller |-> IF c \in Away(s) THEN 1 ELSE 0]]
         /\ owed' = [owed EXCEPT ![s] = [c \in Controller |->
                       IF c \in (roster[s] \cap known) \ tracked THEN 1 ELSE 0]]
         /\ held' = held \cup ((roster[s] \cap tracked) \ routed)
         /\ \A c \in Controller :
              /\ c \in roster[s] /\ c \in Head(wire[s]).lit => base'[c] = s
              /\ c \in roster[s] /\ c \notin Head(wire[s]).lit => base'[c] = "off"
              /\ c \notin roster[s] => base'[c] = base[c]
              /\ c \in roster[s] \cap tracked => want'[c] = base'[c]
              /\ c \notin roster[s] \cap tracked => want'[c] = want[c]
         /\ UNCHANGED <<link, routed, tracked, silenced, pass, ident, handed, play, roster,
                        out, intro, mail, asked, known, refused, slipped, moves>>
<1> DEFINE paint == [c \in roster[s] |-> IF c \in Head(wire[s]).lit THEN s ELSE "off"]
           first == [c \in roster[s] \cap tracked |-> paint[c]]
<1>1. /\ base' = [c \in Controller |-> IF c \in roster[s] THEN paint[c] ELSE base[c]]
      /\ want' = [c \in Controller |-> IF c \in DOMAIN first THEN first[c] ELSE want[c]]
      /\ held' = held \cup (DOMAIN first \ routed)
  BY DEF Opens, Open, Written
<1>2. DOMAIN first = roster[s] \cap tracked
  OBVIOUS
<1>3. held' = held \cup ((roster[s] \cap tracked) \ routed)
  BY <1>1, <1>2
<1>4. \A c \in Controller :
        /\ c \in roster[s] => base'[c] = paint[c]
        /\ c \notin roster[s] => base'[c] = base[c]
        /\ c \in roster[s] \cap tracked => want'[c] = paint[c]
        /\ c \notin roster[s] \cap tracked => want'[c] = want[c]
  BY <1>1, <1>2
<1>5. \A c \in roster[s] : /\ c \in Head(wire[s]).lit => paint[c] = s
                           /\ c \notin Head(wire[s]).lit => paint[c] = "off"
  OBVIOUS
<1> HIDE DEF paint, first
<1>6. \A c \in Controller :
        /\ c \in roster[s] /\ c \in Head(wire[s]).lit => base'[c] = s
        /\ c \in roster[s] /\ c \notin Head(wire[s]).lit => base'[c] = "off"
        /\ c \notin roster[s] => base'[c] = base[c]
        /\ c \in roster[s] \cap tracked => want'[c] = base'[c]
        /\ c \notin roster[s] \cap tracked => want'[c] = want[c]
  BY <1>4, <1>5
<1> QED BY <1>3, <1>6 DEF Opens, Open, ConfigFirst

\* A stream with commands under way shares no player with another one that goes on.
LEMMA Apart ==
  ASSUME TypeOK, SharedInv, NEW s \in Stream, NEW t \in Stream, s # t, GoesOn(s),
         phase[t] # "closed", wire[t] # << >> \/ GoesOn(t)
  PROVE  \A c \in roster[s] : c \notin roster[t]
BY DEF SharedInv, Present, GoesOn

-----------------------------------------------------------------------------
(* Disconnects                                                             *)

\* KnownInv survives every step.
LEMMA KnownStep ==
  ASSUME TypeOK, KnownInv, Next
  PROVE  KnownInv'
<1> USE DEF KnownInv, Collected, Emptied
<1>1. ASSUME UNCHANGED <<tracked, known, dropped, queue>> PROVE KnownInv'
  BY <1>1
<1>2. ASSUME PassLists \/ PassEnds \/ (\E c \in Controller : LinkMoves(c) \/ LobbyPaints(c))
      PROVE KnownInv'
  BY <1>1, <1>2 DEF PassLists, PassEnds, LinkMoves, LobbyPaints, manager, history
<1>3. ASSUME PassDrops PROVE KnownInv'
  <2>1. PICK lost \in SUBSET tracked :
          /\ tracked' = tracked \ lost
          /\ queue' = [c \in Controller |-> queue[c] + (IF c \in lost THEN 1 ELSE 0)]
    BY <1>3, Drops
  <2>2. dropped' = dropped /\ known' = known
    BY <1>3 DEF PassDrops
  <2>3. \A c \in Controller : queue'[c] > 0 <=> queue[c] > 0 \/ c \in lost
    BY <2>1 DEF TypeOK
  <2>4. Collected' = Collected \cup lost
    BY <2>1, <2>3 DEF TypeOK
  <2> HIDE DEF Collected
  <2> QED BY <2>1, <2>2, <2>4 DEF TypeOK
<1>4. ASSUME NEW c \in Controller, PassRegisters(c) PROVE KnownInv'
  <2>1. /\ UNCHANGED <<queue, dropped>>
        /\ UNCHANGED <<tracked, known>> \/ (tracked' = tracked \cup {c} /\ known' = known \cup {c})
    BY <1>4, Registers
  <2>2. Collected' = Collected
    BY <2>1
  <2> HIDE DEF Collected
  <2> QED BY <2>1, <2>2
<1>5. ASSUME NEW c \in Controller, IdentStep(c) PROVE KnownInv'
  BY <1>1, <1>5, IdentStepKeeps DEF manager
<1>6. ASSUME NEW s \in Stream, Claims(s) \/ Dies(s) \/ Filters(s) \/ Release(s) PROVE KnownInv'
  BY <1>1, <1>6 DEF Claims, Claim, Dies, Filters, Release, manager, history
<1>7. ASSUME NEW s \in Stream, Opens(s) PROVE KnownInv'
  <2>1. /\ UNCHANGED <<tracked, known>> /\ dropped' = (dropped \cup Collected) \ tracked
        /\ queue' = Emptied
    BY <1>7, Opened
  <2>2. Collected' = {}
    BY <2>1
  <2> HIDE DEF Collected
  <2> QED BY <2>1, <2>2
<1>8. ASSUME NEW s \in Stream, Frame(s) PROVE KnownInv'
  <2>1. UNCHANGED <<tracked, known>> /\ dropped' = dropped \cup Collected /\ queue' = Emptied
    BY <1>8 DEF Frame
  <2>2. Collected' = {}
    BY <2>1
  <2> HIDE DEF Collected
  <2> QED BY <2>1, <2>2
<1>9. ASSUME NEW s \in Stream, GameStep(s) PROVE KnownInv'
  BY <1>1, <1>9, GameStepKeeps DEF manager
<1> QED BY Steps, <1>2, <1>3, <1>4, <1>5, <1>6, <1>7, <1>8, <1>9

\* HandedOnce survives every step.
LEMMA HandedStep ==
  ASSUME TypeOK, TypeOK', KnownInv, HandedOnce, Next
  PROVE  HandedOnce'
<1>1. ASSUME UNCHANGED <<phase, pending, queue, owed>> PROVE HandedOnce'
  BY <1>1 DEF HandedOnce
<1>2. ASSUME PassLists \/ PassEnds \/ (\E c \in Controller : LinkMoves(c) \/ LobbyPaints(c))
      PROVE HandedOnce'
  BY <1>1, <1>2 DEF PassLists, PassEnds, LinkMoves, LobbyPaints, manager, history, streams
<1>3. ASSUME PassDrops PROVE HandedOnce'
  <2>1. PICK lost \in SUBSET tracked :
          /\ queue' = [c \in Controller |-> queue[c] + (IF c \in lost THEN 1 ELSE 0)]
          /\ owed' = [s \in Stream |-> [c \in Controller |->
                        owed[s][c] + (IF phase[s] = "open" /\ c \in lost THEN 1 ELSE 0)]]
    BY <1>3, Drops
  <2>2. UNCHANGED <<phase, pending>>
    BY <1>3 DEF PassDrops, streams
  <2> SUFFICES ASSUME NEW s \in Stream, phase[s] = "open", NEW c \in Controller
               PROVE  pending[s][c] + queue'[c] = owed'[s][c]
    BY <2>2 DEF HandedOnce
  <2>3. /\ pending[s][c] + queue[c] = owed[s][c]
        /\ pending[s][c] \in Nat /\ queue[c] \in Nat /\ owed[s][c] \in Nat
    BY DEF HandedOnce, TypeOK
  <2>4. CASE c \in lost
    <3>1. queue'[c] = queue[c] + 1 /\ owed'[s][c] = owed[s][c] + 1
      BY <2>1, <2>4
    <3> QED BY <2>3, <3>1
  <2>5. CASE c \notin lost
    <3>1. queue'[c] = queue[c] + 0 /\ owed'[s][c] = owed[s][c] + 0
      BY <2>1, <2>5
    <3> QED BY <2>3, <3>1
  <2> QED BY <2>4, <2>5
<1>4. ASSUME NEW c \in Controller, PassRegisters(c) PROVE HandedOnce'
  BY <1>1, <1>4, Registers DEF streams
<1>5. ASSUME NEW c \in Controller, IdentStep(c) PROVE HandedOnce'
  BY <1>1, <1>5, IdentStepKeeps DEF manager, streams
<1>6. ASSUME NEW s \in Stream, Dies(s) \/ Filters(s) PROVE HandedOnce'
  BY <1>1, <1>6 DEF Dies, Filters, manager, history, streams
<1>7. ASSUME NEW s \in Stream, Claims(s) PROVE HandedOnce'
  BY <1>7 DEF HandedOnce, TypeOK, Claims, Claim, manager
<1>8. ASSUME NEW s \in Stream, Release(s) PROVE HandedOnce'
  <2>1. /\ phase' = [phase EXCEPT ![s] = "closed"] /\ UNCHANGED <<queue, owed>>
        /\ \A t \in Stream \ {s} : pending'[t] = pending[t]
    BY <1>8 DEF Release, TypeOK
  <2> QED BY <2>1 DEF HandedOnce, TypeOK
<1>9. ASSUME NEW s \in Stream, Opens(s) PROVE HandedOnce'
  <2> SUFFICES ASSUME NEW t \in Stream, phase'[t] = "open", NEW c \in Controller
               PROVE  pending'[t][c] + queue'[c] = owed'[t][c]
    BY DEF HandedOnce
  <2>0. queue'[c] = 0
    BY <1>9, Opened DEF Emptied
  <2>a. /\ owed' = [owed EXCEPT ![s] = [x \in Controller |->
                      IF x \in (roster[s] \cap known) \ tracked THEN 1 ELSE 0]]
        /\ pending' = [Extended EXCEPT ![s] = [x \in Controller |-> IF x \in Away(s) THEN 1 ELSE 0]]
        /\ phase' = [phase EXCEPT ![s] = "open"]
    BY <1>9, Opened
  <2>b. /\ owed \in [Stream -> [Controller -> Nat]] /\ DOMAIN Extended = Stream
        /\ phase \in [Stream -> {"new", "claiming", "open", "closed"}]
    BY DEF TypeOK, Extended
  <2>1. CASE t = s
    <3>1. c \in Away(s) <=> c \in (roster[s] \cap known) \ tracked
      BY DEF Away, KnownInv, TypeOK
    <3>2. pending'[s][c] = IF c \in Away(s) THEN 1 ELSE 0
      BY <1>9, Opened DEF Extended
    <3>3. owed'[s][c] = IF c \in (roster[s] \cap known) \ tracked THEN 1 ELSE 0
      BY <2>a, <2>b
    <3> QED BY <2>0, <2>1, <3>1, <3>2, <3>3
  <2>2. CASE t # s
    <3>1. phase[t] = "open" /\ owed'[t] = owed[t] /\ pending'[t] = Extended[t]
      BY <2>2, <2>a, <2>b
    <3>2. Extended[t][c] = pending[t][c] + queue[c]
      BY <3>1 DEF Extended
    <3>3. pending[t][c] + queue[c] = owed[t][c] /\ owed[t][c] \in Nat
      BY <3>1 DEF HandedOnce, TypeOK
    <3> QED BY <2>0, <3>1, <3>2, <3>3
  <2> QED BY <2>1, <2>2
<1>10. ASSUME NEW s \in Stream, Frame(s) PROVE HandedOnce'
  <2> SUFFICES ASSUME NEW t \in Stream, phase[t] = "open", NEW c \in Controller
               PROVE  pending'[t][c] + queue'[c] = owed'[t][c]
    BY <1>10 DEF HandedOnce, Frame
  <2>1. /\ phase[s] = "open" /\ queue'[c] = 0
        /\ pending' = [Extended EXCEPT ![s] = Emptied]
        /\ owed' = [owed EXCEPT ![s] = [x \in Controller |-> @[x] - Extended[s][x]]]
    BY <1>10 DEF Frame, Emptied
  <2>2. Extended[t][c] = pending[t][c] + queue[c]
    BY DEF Extended
  <2>3. pending[t][c] + queue[c] = owed[t][c] /\ owed[t][c] \in Nat
    BY DEF HandedOnce, TypeOK
  <2>4. CASE t = s
    <3>1. pending'[s][c] = 0
      BY <2>1 DEF Extended, Emptied
    <3>2. owed'[s][c] = owed[s][c] - Extended[s][c]
      BY <2>1 DEF TypeOK
    <3> QED BY <2>1, <2>2, <2>3, <2>4, <3>1, <3>2
  <2>5. CASE t # s
    <3>1. pending'[t] = Extended[t] /\ owed'[t] = owed[t]
      BY <2>1, <2>5 DEF TypeOK, Extended
    <3> QED BY <2>1, <2>2, <2>3, <3>1
  <2> QED BY <2>4, <2>5
<1>11. ASSUME NEW s \in Stream, GameStep(s) PROVE HandedOnce'
  BY <1>1, <1>11, GameStepKeeps DEF manager, streams
<1> QED BY Steps, <1>2, <1>3, <1>4, <1>5, <1>6, <1>7, <1>8, <1>9, <1>10, <1>11

\* Nothing is sent to a controller that has not registered, nor kept for one without a route
\* or an output that waits: both survive every step.
LEMMA RouteStep ==
  ASSUME TypeOK, RouteInv, NothingSentWhileAway, WireInv, Next
  PROVE  RouteInv' /\ NothingSentWhileAway'
<1> DEFINE Both == RouteInv /\ NothingSentWhileAway
<1> USE DEF RouteInv, NothingSentWhileAway, Sends
<1>1. ASSUME UNCHANGED <<pass, routed, want, held, tracked>> PROVE Both'
  BY <1>1
<1>2. ASSUME PassLists PROVE Both'
  <2>1. /\ pass.step = "idle" /\ pass' = [step |-> "listed", todo |-> routed']
        /\ held' = held /\ tracked' = tracked
        /\ want' = [c \in Controller |-> IF c \in routed' \cup held THEN want[c] ELSE None]
    BY <1>2 DEF PassLists
  <2>2. pass'.step = "listed" /\ pass'.todo = routed'
    BY <2>1
  <2>3. \A c \in Controller : want'[c] # None => want[c] # None /\ c \in routed' \cup held
    BY <2>1
  <2>4. \A c \in Controller : c \in routed' \ held /\ want'[c] # None => c \in tracked
    BY <2>1, <2>3
  <2> QED BY <2>1, <2>2, <2>3, <2>4
<1>3. ASSUME PassDrops PROVE Both'
  <2>1. PICK lost \in SUBSET tracked, mute \in SUBSET Controller :
          /\ pass.step = "listed" /\ pass'.step = "registering"
          /\ pass'.todo = pass.todo \ tracked'
          /\ mute \subseteq lost /\ tracked \ lost \subseteq pass.todo
          /\ lost \cap pass.todo = mute
          /\ tracked' = tracked \ lost
          /\ want' = [c \in Controller |-> IF c \in mute THEN None ELSE want[c]]
          /\ held' = held \ mute
    BY <1>3, Drops
  <2>2. routed' = routed
    BY <1>3 DEF PassDrops
  <2>3. \A c \in Controller : want'[c] # None => want[c] # None /\ c \notin mute
    BY <2>1
  <2>4. RouteInv'
    BY <2>1, <2>2, <2>3
  <2>5. NothingSentWhileAway'
    BY <2>1, <2>2, <2>3
  <2> QED BY <2>4, <2>5
<1>4. ASSUME PassEnds PROVE Both'
  <2>1. /\ pass.step = "registering" /\ pass'.step = "idle" /\ pass'.todo = {}
        /\ UNCHANGED <<routed, want, held, tracked>>
    BY <1>4 DEF PassEnds, backend
  <2> QED BY <2>1
<1>5. ASSUME NEW c \in Controller, PassRegisters(c) PROVE Both'
  <2>1. /\ c \in pass.todo /\ pass.step = "registering"
        /\ pass'.step = "registering" /\ pass'.todo = pass.todo \ {c} /\ routed' = routed
        /\ \/ UNCHANGED <<tracked, held, want>>
           \/ /\ tracked' = tracked \cup {c} /\ held' = held \ {c}
              /\ \A x \in Controller \ {c} : want'[x] = want[x]
    BY <1>5, Registers
  <2>2. CASE UNCHANGED <<tracked, held, want>>
    BY <2>1, <2>2
  <2>3. CASE /\ tracked' = tracked \cup {c} /\ held' = held \ {c}
             /\ \A x \in Controller \ {c} : want'[x] = want[x]
    <3>1. RouteInv'
      BY <2>1, <2>3
    <3>2. NothingSentWhileAway'
      BY <2>1, <2>3
    <3> QED BY <3>1, <3>2
  <2> QED BY <2>1, <2>2, <2>3
<1>6. ASSUME NEW c \in Controller, LobbyPaints(c) PROVE Both'
  <2>1. /\ UNCHANGED <<pass, routed, tracked>> /\ c \in tracked
        /\ Written([x \in {c} |-> "lobby"], want)
    BY <1>6 DEF LobbyPaints
  <2>2. /\ \A x \in Controller \ {c} : want'[x] = want[x]
        /\ held' = held \cup ({c} \ routed)
    BY <2>1 DEF Written
  <2> QED BY <2>1, <2>2
<1>7. ASSUME NEW c \in Controller, LinkMoves(c) \/ IdentStep(c) PROVE Both'
  <2>1. UNCHANGED <<pass, routed, want, held, tracked>>
    BY <1>7, IdentStepKeeps DEF LinkMoves, backend, manager
  <2> QED BY <1>1, <2>1
<1>8. ASSUME NEW s \in Stream, Claims(s) \/ Filters(s) \/ Frame(s) \/ GameStep(s) PROVE Both'
  <2>1. UNCHANGED <<pass, routed, want, held, tracked>>
    BY <1>8, GameStepKeeps DEF Claims, Claim, Filters, Frame, backend, manager
  <2> QED BY <1>1, <2>1
<1>9. ASSUME NEW s \in Stream, Opens(s) PROVE Both'
  <2>1. /\ UNCHANGED <<pass, routed, tracked>>
        /\ held' = held \cup ((roster[s] \cap tracked) \ routed)
        /\ \A c \in Controller : c \notin roster[s] \cap tracked => want'[c] = want[c]
    BY <1>9, Opened
  <2> QED BY <2>1
<1>10. ASSUME NEW s \in Stream, Release(s) PROVE Both'
  <2>1. UNCHANGED <<pass, routed, tracked>>
    BY <1>10 DEF Release
  <2>2. \/ UNCHANGED <<want, held>>
        \/ DropOutput(Forgotten(s))
    BY <1>10 DEF Release
  <2>3. Forgotten(s) \cap tracked = {}
    BY DEF Forgotten
  <2>4. CASE DropOutput(Forgotten(s))
    <3>1. /\ \A c \in Controller : want'[c] # None => want[c] # None /\ c \notin Forgotten(s)
          /\ held' = held \ Forgotten(s)
      BY <2>4 DEF DropOutput
    <3> QED BY <2>1, <2>3, <3>1
  <2> QED BY <1>1, <2>1, <2>2, <2>4
<1>11. ASSUME NEW s \in Stream, Dies(s) PROVE Both'
  <2>1. PICK c \in out[s] :
           /\ UNCHANGED <<routed, tracked, pass>>
           /\ \/ /\ c \in tracked /\ want' = [want EXCEPT ![c] = "off"]
                 /\ held' = held \cup ({c} \ routed)
              \/ UNCHANGED <<want, held>>
    BY <1>11, Deaths
  <2> QED BY <2>1 DEF TypeOK
<1> QED BY Steps, <1>2, <1>3, <1>4, <1>5, <1>6, <1>7, <1>8, <1>9, <1>10, <1>11

\* AwayIsOut survives every step.
LEMMA AwayStep ==
  ASSUME TypeOK, TypeOK', KnownInv, StreamInv, AwayIsOut, Next
  PROVE  AwayIsOut'
<1>1. ASSUME PassLists \/ PassEnds \/ (\E c \in Controller : LinkMoves(c) \/ LobbyPaints(c))
      PROVE AwayIsOut'
  <2>1. UNCHANGED <<phase, play, roster, out, mail, pending, queue, known, tracked>>
    BY <1>1 DEF PassLists, PassEnds, LinkMoves, LobbyPaints, manager, history, streams, game
  <2> QED BY <2>1 DEF AwayIsOut
<1>2. ASSUME PassDrops PROVE AwayIsOut'
  <2>1. PICK lost \in SUBSET tracked :
          /\ tracked' = tracked \ lost
          /\ queue' = [c \in Controller |-> queue[c] + (IF c \in lost THEN 1 ELSE 0)]
    BY <1>2, Drops
  <2>2. UNCHANGED <<phase, pending, play, roster, out, mail, known>>
    BY <1>2 DEF PassDrops, streams, game
  <2> SUFFICES ASSUME NEW s \in Stream, phase[s] = "open", play[s] = "running",
                      NEW c \in (roster[s] \cap known) \ tracked',
                      c \notin out[s] \cup mail[s]
               PROVE  pending[s][c] + queue'[c] > 0
    BY <2>2 DEF AwayIsOut
  <2>3. c \in Controller /\ pending[s][c] \in Nat /\ queue[c] \in Nat
    BY DEF TypeOK
  <2>4. CASE c \in lost
    <3>1. queue'[c] = queue[c] + 1
      BY <2>1, <2>3, <2>4
    <3> QED BY <2>3, <3>1
  <2>5. CASE c \notin lost
    <3>1. queue'[c] = queue[c] + 0 /\ c \notin tracked
      BY <2>1, <2>3, <2>5
    <3>2. pending[s][c] + queue[c] > 0
      BY <3>1 DEF AwayIsOut
    <3> QED BY <2>3, <3>1, <3>2
  <2> QED BY <2>4, <2>5
<1>3. ASSUME NEW c \in Controller, PassRegisters(c) PROVE AwayIsOut'
  <2>1. /\ UNCHANGED <<phase, play, roster, out, mail, pending, queue>>
        /\ \/ UNCHANGED <<tracked, known>>
           \/ tracked' = tracked \cup {c} /\ known' = known \cup {c}
    BY <1>3, Registers DEF streams, game
  <2> QED BY <2>1 DEF AwayIsOut
<1>4. ASSUME NEW c \in Controller, IdentStep(c) PROVE AwayIsOut'
  <2>1. UNCHANGED <<phase, play, roster, out, mail, pending, queue, known, tracked>>
    BY <1>4, IdentStepKeeps DEF manager, streams, game
  <2> QED BY <2>1 DEF AwayIsOut
<1>5. ASSUME NEW s \in Stream, Dies(s) \/ Filters(s) PROVE AwayIsOut'
  <2>1. UNCHANGED <<phase, play, roster, out, mail, pending, queue, known, tracked>>
    BY <1>5 DEF Dies, Filters, manager, history, streams
  <2> QED BY <2>1 DEF AwayIsOut
<1>6. ASSUME NEW s \in Stream, Claims(s) PROVE AwayIsOut'
  <2>1. UNCHANGED <<play, roster, out, mail, pending, queue, known, tracked>>
    BY <1>6 DEF Claims, Claim, manager, game
  <2>2. phase' = [phase EXCEPT ![s] = "claiming"]
    BY <1>6 DEF Claims, Claim
  <2>3. \A t \in Stream : phase'[t] = "open" => phase[t] = "open"
    BY <2>2 DEF TypeOK
  <2> QED BY <2>1, <2>3 DEF AwayIsOut
<1>7. ASSUME NEW s \in Stream, Release(s) PROVE AwayIsOut'
  <2>1. /\ UNCHANGED <<play, roster, out, mail, queue, known, tracked>>
        /\ phase' = [phase EXCEPT ![s] = "closed"] /\ pending' = [pending EXCEPT ![s] = Emptied]
    BY <1>7 DEF Release, game
  <2>2. \A t \in Stream : phase'[t] = "open" => phase[t] = "open" /\ pending'[t] = pending[t]
    BY <2>1 DEF TypeOK
  <2> QED BY <2>1, <2>2 DEF AwayIsOut
<1>8. ASSUME NEW s \in Stream, Opens(s) PROVE AwayIsOut'
  <2>1. /\ UNCHANGED <<play, roster, out, mail, known, tracked>>
        /\ pending' = [Extended EXCEPT ![s] = [x \in Controller |-> IF x \in Away(s) THEN 1 ELSE 0]]
        /\ phase' = [phase EXCEPT ![s] = "open"] /\ queue' = Emptied
    BY <1>8, Opened
  <2> SUFFICES ASSUME NEW t \in Stream, phase'[t] = "open", play[t] = "running",
                      NEW c \in (roster[t] \cap known) \ tracked,
                      c \notin out[t] \cup mail[t]
               PROVE  pending'[t][c] + queue'[c] > 0
    BY <2>1 DEF AwayIsOut
  <2>2. c \in Controller /\ queue'[c] = 0
    BY <2>1 DEF TypeOK, Emptied
  <2>3. CASE t = s
    <3>1. c \in Away(s)
      BY <2>3 DEF Away, KnownInv
    <3>2. pending'[s][c] = 1
      BY <2>1, <2>2, <3>1 DEF Extended
    <3> QED BY <2>2, <2>3, <3>2
  <2>4. CASE t # s
    <3>1. phase[t] = "open" /\ pending'[t] = Extended[t]
      BY <2>1, <2>4 DEF TypeOK, Extended
    <3>2. Extended[t][c] = pending[t][c] + queue[c]
      BY <2>2, <3>1 DEF Extended
    <3>3. pending[t][c] + queue[c] > 0 /\ pending[t][c] \in Nat /\ queue[c] \in Nat
      BY <2>2, <3>1 DEF AwayIsOut, TypeOK
    <3> QED BY <2>2, <3>1, <3>2, <3>3
  <2> QED BY <2>3, <2>4
<1>9. ASSUME NEW s \in Stream, Frame(s) PROVE AwayIsOut'
  <2> DEFINE new == {c \in Controller : Extended[s][c] > 0}
             back == IF s \in intro THEN tracked \cap alive[s] ELSE {}
  <2>1. /\ UNCHANGED <<phase, play, roster, out, known, tracked>> /\ phase[s] = "open"
        /\ pending' = [Extended EXCEPT ![s] = Emptied] /\ queue' = Emptied
        /\ mail' = [mail EXCEPT ![s] = IF play[s] = "running" THEN (@ \cup new) \ back ELSE @]
    BY <1>9 DEF Frame
  <2> SUFFICES ASSUME NEW t \in Stream, phase[t] = "open", play[t] = "running",
                      NEW c \in (roster[t] \cap known) \ tracked,
                      c \notin out[t] \cup mail'[t]
               PROVE  pending'[t][c] + queue'[c] > 0
    BY <2>1 DEF AwayIsOut
  <2>2. c \in Controller /\ queue'[c] = 0 /\ Extended[t][c] = pending[t][c] + queue[c]
    BY <2>1 DEF TypeOK, Emptied, Extended
  <2>3. CASE t = s
    <3>1. mail'[s] = (mail[s] \cup new) \ back
      BY <2>1, <2>3 DEF TypeOK
    <3>2. c \notin back
      OBVIOUS
    <3>3. c \notin mail[s] /\ c \notin new
      BY <2>3, <3>1, <3>2
    <3>4. pending[s][c] + queue[c] > 0
      BY <2>3, <3>3 DEF AwayIsOut
    <3> QED BY <2>2, <2>3, <3>3, <3>4
  <2>4. CASE t # s
    <3>1. mail'[t] = mail[t] /\ pending'[t] = Extended[t]
      BY <2>1, <2>4 DEF TypeOK, Extended
    <3>2. pending[t][c] + queue[c] > 0 /\ pending[t][c] \in Nat /\ queue[c] \in Nat
      BY <2>2, <3>1 DEF AwayIsOut, TypeOK
    <3> QED BY <2>2, <3>1, <3>2
  <2> QED BY <2>3, <2>4
<1>10. ASSUME NEW s \in Stream, GameStep(s) PROVE AwayIsOut'
  <2>1. UNCHANGED <<phase, pending, queue, known, tracked>>
    BY <1>10, GameStepKeeps DEF streams, manager
  <2> DEFINE Stays ==
        \A t \in Stream : phase[t] = "open" /\ play'[t] = "running" =>
          /\ play[t] = "running" /\ roster'[t] = roster[t]
          /\ \A c \in roster[t] : c \in out[t] \cup mail[t] => c \in out'[t] \cup mail'[t]
  <2>2. Stays
    <3>1. CASE NewGame(s)
      BY <3>1 DEF NewGame, TypeOK, StreamInv
    <3>2. CASE GameBegins(s) \/ GameFilters(s)
      BY <3>2 DEF GameBegins, GameFilters
    <3>3. CASE GameEnds(s)
      BY <3>3 DEF GameEnds, TypeOK
    <3>4. CASE StreamFails(s)
      BY <3>4 DEF StreamFails, TypeOK
    <3>5. ASSUME NEW x \in Controller, GameHandles(s, x) \/ GameKills(s, x) PROVE Stays
      <4>1. /\ UNCHANGED <<play, roster>>
            /\ \/ out' = [out EXCEPT ![s] = @ \cup {x}]
               \/ out' = out /\ x \notin roster[s] \ out[s]
            /\ mail' = mail \/ mail' = [mail EXCEPT ![s] = @ \ {x}]
        BY <3>5 DEF GameHandles, GameKills, Out
      <4>2. out \in [Stream -> SUBSET Controller] /\ mail \in [Stream -> SUBSET Controller]
        BY DEF TypeOK
      <4>3. ASSUME NEW t \in Stream, NEW c \in roster[t], c \in out[t] PROVE c \in out'[t]
        BY <4>1, <4>2, <4>3
      <4>4. ASSUME NEW t \in Stream, NEW c \in roster[t], c \in mail[t]
            PROVE  c \in out'[t] \cup mail'[t]
        <5>1. CASE t = s /\ c = x
          BY <4>1, <4>2, <4>3, <4>4, <5>1
        <5>2. CASE ~(t = s /\ c = x)
          BY <4>1, <4>2, <4>4, <5>2
        <5> QED BY <5>1, <5>2
      <4> QED BY <4>1, <4>3, <4>4
    <3>6. ASSUME NEW t \in Stream, Reopen(s, t) PROVE Stays
      <4>1. /\ play[s] = "none" /\ play' = [play EXCEPT ![s] = "running", ![t] = "ended"]
            /\ roster' = [roster EXCEPT ![s] = roster[t]] /\ out' = [out EXCEPT ![s] = out[t]]
            /\ mail' = [mail EXCEPT ![s] = mail[t], ![t] = {}]
        BY <3>6 DEF Reopen
      <4>2. phase[s] = "new"
        BY <4>1 DEF StreamInv
      <4>3. \A u \in Stream \ {s, t} : /\ play'[u] = play[u] /\ roster'[u] = roster[u]
                                       /\ out'[u] = out[u] /\ mail'[u] = mail[u]
        BY <4>1 DEF TypeOK
      <4>4. s # t => play'[t] = "ended"
        BY <4>1 DEF TypeOK
      <4> QED BY <4>2, <4>3, <4>4
    <3> QED BY <1>10, <3>1, <3>2, <3>3, <3>4, <3>5, <3>6 DEF GameStep
  <2> QED BY <2>1, <2>2 DEF AwayIsOut
<1> QED BY Steps, <1>1, <1>2, <1>3, <1>4, <1>5, <1>6, <1>7, <1>8, <1>9, <1>10

-----------------------------------------------------------------------------
(* Identify and the claim of a game                                        *)

\* Which players a stream has changes only before it opens.
LEMMA RosterKept ==
  ASSUME TypeOK, StreamInv, NEW s \in Stream, GameStep(s)
  PROVE  \A t \in Stream : phase[t] # "new" => roster'[t] = roster[t]
<1>1. ASSUME roster' # roster
      PROVE  phase[s] = "new" /\ \A t \in Stream \ {s} : roster'[t] = roster[t]
  <2>1. play[s] = "none" /\ \E players : roster' = [roster EXCEPT ![s] = players]
    BY <1>1 DEF GameStep, NewGame, GameBegins, GameFilters, GameEnds, StreamFails,
       GameHandles, GameKills, Reopen
  <2> QED BY <2>1 DEF StreamInv, TypeOK
<1> QED BY <1>1

\* A controller that is identified while its game claims or has it slipped in.
IdentKept(S) ==
  \A s \in S : phase[s] \in {"claiming", "open"} =>
    \A c \in roster[s] : ident[c] = "running" => "claim" \in slipped[c]

\* The two parts say just that.
LEMMA IdentParts ==
  ASSUME TypeOK
  PROVE  ClaimInv /\ NoIdentifyInGame <=> IdentKept(Stream)
BY DEF TypeOK, ClaimInv, NoIdentifyInGame, InGame, IdentKept

\* ClaimInv and NoIdentifyInGame survive every step.
LEMMA ClaimStep ==
  ASSUME TypeOK, TypeOK', StreamInv, WireInv, ClaimInv, NoIdentifyInGame, Next
  PROVE  ClaimInv' /\ NoIdentifyInGame'
<1>0. IdentKept(Stream)
  BY IdentParts
<1>1. TypeOK' => (ClaimInv' /\ NoIdentifyInGame' <=> IdentKept(Stream)')
  BY DEF TypeOK, ClaimInv, NoIdentifyInGame, InGame, IdentKept
<1> SUFFICES IdentKept(Stream)'
  BY <1>1
<1> HIDE DEF ClaimInv, NoIdentifyInGame
<1>2. ASSUME UNCHANGED <<phase, roster, ident, slipped>> PROVE IdentKept(Stream)'
  BY <1>0, <1>2 DEF IdentKept
<1>3. ASSUME PassLists \/ PassEnds \/ (\E c \in Controller : LinkMoves(c) \/ LobbyPaints(c))
      PROVE IdentKept(Stream)'
  BY <1>2, <1>3 DEF PassLists, PassEnds, LinkMoves, LobbyPaints, history, streams, game
<1>4. ASSUME PassDrops PROVE IdentKept(Stream)'
  <2>1. PICK lost \in SUBSET tracked :
          /\ ident' = [c \in Controller |-> IF c \in lost THEN "none" ELSE ident[c]]
          /\ slipped' = [c \in Controller |->
                           IF c \notin lost THEN slipped[c]
                           ELSE (slipped[c] \ {"claim", "late"})
                                  \cup (IF LeftLit(c) THEN {"late"} ELSE {})]
    BY <1>4, Drops
  <2>2. UNCHANGED <<phase, roster>>
    BY <1>4 DEF PassDrops, streams, game
  <2>3. \A c \in Controller : ident'[c] = "running" => ident[c] = "running" /\ slipped'[c] = slipped[c]
    BY <2>1
  <2> QED BY <1>0, <2>2, <2>3 DEF IdentKept, TypeOK
<1>5. ASSUME NEW c \in Controller, PassRegisters(c) PROVE IdentKept(Stream)'
  <2>1. /\ UNCHANGED <<phase, roster, ident>>
        /\ \/ slipped' = slipped
           \/ /\ \A x \in Controller \ {c} : slipped'[x] = slipped[x]
              /\ "claim" \in slipped'[c] <=> "claim" \in slipped[c]
    BY <1>5, Registers DEF streams, game
  <2> QED BY <1>0, <2>1 DEF IdentKept, TypeOK
<1>6. ASSUME NEW c \in Controller, IdentStep(c) PROVE IdentKept(Stream)'
  <2>1. UNCHANGED <<phase, roster>>
    BY <1>6, IdentStepKeeps DEF streams, game
  <2>2. CASE IdentifyAsked(c)
    <3>1. ident' = [ident EXCEPT ![c] = "starting"] /\ slipped' = slipped
      BY <2>2 DEF IdentifyAsked, history
    <3> QED BY <1>0, <2>1, <3>1 DEF IdentKept, TypeOK
  <2>3. CASE IdentifyStarts(c) /\ InGame(c)
    <3>1. ident' = [ident EXCEPT ![c] = "none"] /\ slipped' = slipped
      BY <2>3 DEF IdentifyStarts
    <3> QED BY <1>0, <2>1, <3>1 DEF IdentKept, TypeOK
  <2>4. CASE IdentifyStarts(c) /\ ~InGame(c)
    <3>1. /\ ident' = [ident EXCEPT ![c] = "running"]
          /\ \A s \in Stream : ~(phase[s] = "open" /\ c \in roster[s])
          /\ slipped' = [slipped EXCEPT ![c] =
               IF \E s \in Stream : phase[s] = "claiming" /\ c \in roster[s]
               THEN @ \cup {"claim"} ELSE @]
      BY <2>4 DEF IdentifyStarts, InGame
    <3>2. slipped \in [Controller -> SUBSET {"lit", "late", "claim"}]
      BY DEF TypeOK
    <3>3. \A x \in Controller \ {c} : slipped'[x] = slipped[x] /\ ident'[x] = ident[x]
      BY <3>1, <3>2 DEF TypeOK
    <3>4. (\E s \in Stream : phase[s] = "claiming" /\ c \in roster[s]) => "claim" \in slipped'[c]
      BY <3>1, <3>2
    <3> QED BY <1>0, <2>1, <3>1, <3>3, <3>4 DEF IdentKept, TypeOK
  <2>5. CASE IdentifyEnds(c)
    <3>1. ident' = [ident EXCEPT ![c] = "none"] /\ slipped' = [slipped EXCEPT ![c] = @ \ {"claim"}]
      BY <2>5 DEF IdentifyEnds
    <3> QED BY <1>0, <2>1, <3>1 DEF IdentKept, TypeOK
  <2> QED BY <1>6, <2>2, <2>3, <2>4, <2>5 DEF IdentStep
<1>7. ASSUME NEW s \in Stream, Filters(s) \/ Frame(s) PROVE IdentKept(Stream)'
  BY <1>2, <1>7 DEF Filters, Frame, history
<1>8. ASSUME NEW s \in Stream, Dies(s) PROVE IdentKept(Stream)'
  <2>1. PICK c \in out[s] :
          /\ UNCHANGED <<phase, roster>> /\ c \in roster[s]
          /\ \/ /\ ident' = [ident EXCEPT ![c] = "none"]
                /\ slipped' = [slipped EXCEPT ![c] = @ \ {"claim"}]
             \/ UNCHANGED <<ident, slipped>>
    BY <1>8, Deaths DEF streams
  <2>2. slipped \in [Controller -> SUBSET {"lit", "late", "claim"}]
        /\ ident \in [Controller -> {"none", "starting", "running"}]
    BY DEF TypeOK
  <2>3. \A x \in Controller : ident'[x] = "running" =>
          ident[x] = "running" /\ ("claim" \in slipped[x] => "claim" \in slipped'[x])
    BY <2>1, <2>2
  <2> QED BY <1>0, <2>1, <2>3 DEF IdentKept, TypeOK
<1>9. ASSUME NEW s \in Stream, Release(s) PROVE IdentKept(Stream)'
  <2>1. /\ UNCHANGED <<roster, ident, slipped>> /\ phase' = [phase EXCEPT ![s] = "closed"]
    BY <1>9 DEF Release, game
  <2> QED BY <1>0, <2>1 DEF IdentKept, TypeOK
<1>10. ASSUME NEW s \in Stream, Claims(s) PROVE IdentKept(Stream)'
  <2>1. /\ roster' = roster /\ phase' = [phase EXCEPT ![s] = "claiming"]
        /\ ident' = [c \in Controller |-> IF c \in Claimed(s) THEN "none" ELSE ident[c]]
        /\ slipped' = [c \in Controller |-> IF c \in Claimed(s) THEN slipped[c] \ {"claim"}
                                            ELSE slipped[c]]
    BY <1>10 DEF Claims, Claim, game
  <2>2. \A c \in roster[s] : ident'[c] # "running"
    BY <2>1 DEF Claimed, TypeOK
  <2>3. \A c \in Controller : ident'[c] = "running" => ident[c] = "running" /\ slipped'[c] = slipped[c]
    BY <2>1
  <2>4. \A t \in Stream \ {s} : phase'[t] = phase[t]
    BY <2>1 DEF TypeOK
  <2> QED BY <1>0, <2>1, <2>2, <2>3, <2>4 DEF IdentKept, TypeOK
<1>11. ASSUME NEW s \in Stream, Opens(s) PROVE IdentKept(Stream)'
  <2>1. /\ UNCHANGED <<roster, ident, slipped>> /\ phase' = [phase EXCEPT ![s] = "open"]
        /\ phase[s] \in {"new", "claiming"}
    BY <1>11, Opened
  <2>2. phase[s] = "new" => \A c \in roster[s] : ident[c] # "running"
    BY <1>11 DEF Opens, Claimed
  <2>3. \A t \in Stream \ {s} : phase'[t] = phase[t]
    BY <2>1 DEF TypeOK
  <2> QED BY <1>0, <2>1, <2>2, <2>3 DEF IdentKept
<1>12. ASSUME NEW s \in Stream, GameStep(s) PROVE IdentKept(Stream)'
  <2>1. UNCHANGED <<phase, ident, slipped>>
    BY <1>12, GameStepKeeps DEF streams
  <2>2. \A t \in Stream : phase[t] \in {"claiming", "open"} => roster'[t] = roster[t]
    BY <1>12, RosterKept
  <2> QED BY <1>0, <2>1, <2>2 DEF IdentKept
<1> QED BY Steps, <1>3, <1>4, <1>5, <1>6, <1>7, <1>8, <1>9, <1>10, <1>11, <1>12

-----------------------------------------------------------------------------
(* Streams in the manager and in the coordinator                           *)

\* StreamInv survives every step.
LEMMA StreamStep ==
  ASSUME TypeOK, StreamInv, WireInv, Next
  PROVE  StreamInv'
<1>1. ASSUME UNCHANGED <<phase, play, wire, roster, refused>> PROVE StreamInv'
  BY <1>1 DEF StreamInv
<1>2. ASSUME PassLists \/ PassDrops \/ PassEnds \/ (\E c \in Controller : LinkMoves(c) \/ LobbyPaints(c))
      PROVE StreamInv'
  BY <1>1, <1>2 DEF PassLists, PassDrops, PassEnds, LinkMoves, LobbyPaints, history, streams, game
<1>3. ASSUME NEW c \in Controller, PassRegisters(c) PROVE StreamInv'
  BY <1>1, <1>3, Registers DEF streams, game
<1>4. ASSUME NEW c \in Controller, IdentStep(c) PROVE StreamInv'
  BY <1>1, <1>4, IdentStepKeeps DEF streams, game
<1>5. ASSUME NEW s \in Stream, Claims(s) PROVE StreamInv'
  <2>1. /\ UNCHANGED <<play, wire, roster, refused>> /\ wire[s] # << >>
        /\ phase' = [phase EXCEPT ![s] = "claiming"] /\ phase[s] = "new"
    BY <1>5 DEF Claims, Claim, ConfigFirst, game
  <2> QED BY <2>1 DEF StreamInv, TypeOK
<1>6. ASSUME NEW s \in Stream, Opens(s) PROVE StreamInv'
  <2>1. /\ UNCHANGED <<play, roster, refused>> /\ wire[s] # << >>
        /\ phase' = [phase EXCEPT ![s] = "open"] /\ wire' = [wire EXCEPT ![s] = Tail(@)]
    BY <1>6, Opened
  <2>2. play[s] # "none"
    BY <2>1 DEF StreamInv
  <2>3. \A t \in Stream \ {s} : phase'[t] = phase[t] /\ wire'[t] = wire[t]
    BY <2>1 DEF TypeOK
  <2>4. phase'[s] = "open"
    BY <2>1 DEF TypeOK
  <2> QED BY <2>1, <2>2, <2>3, <2>4 DEF StreamInv
<1>7. ASSUME NEW s \in Stream, Dies(s) \/ Filters(s) PROVE StreamInv'
  <2>1. /\ UNCHANGED <<phase, play, roster>> /\ wire[s] # << >> /\ phase[s] = "open"
        /\ wire' = [wire EXCEPT ![s] = Tail(@)]
        /\ refused' = refused \/ \E x : refused' = [refused EXCEPT ![s] = x]
    BY <1>7 DEF Dies, Filters, streams, history
  <2>2. play[s] # "none"
    BY <2>1 DEF StreamInv
  <2>3. \A t \in Stream \ {s} : wire'[t] = wire[t] /\ refused'[t] = refused[t]
    BY <2>1 DEF TypeOK
  <2> QED BY <2>1, <2>2, <2>3 DEF StreamInv
<1>8. ASSUME NEW s \in Stream, Frame(s) PROVE StreamInv'
  BY <1>1, <1>8 DEF Frame
<1>9. ASSUME NEW s \in Stream, Release(s) PROVE StreamInv'
  <2>1. /\ UNCHANGED <<play, roster, wire>> /\ play[s] \in {"failed", "ended"} /\ wire[s] = << >>
        /\ phase' = [phase EXCEPT ![s] = "closed"] /\ refused' = [refused EXCEPT ![s] = {}]
    BY <1>9 DEF Release, game
  <2>2. \A t \in Stream \ {s} : phase'[t] = phase[t] /\ refused'[t] = refused[t]
    BY <2>1 DEF TypeOK
  <2>3. phase'[s] = "closed" /\ refused'[s] = {}
    BY <2>1 DEF TypeOK
  <2> QED BY <2>1, <2>2, <2>3 DEF StreamInv
<1>10. ASSUME NEW s \in Stream, GameStep(s) PROVE StreamInv'
  <2>1. UNCHANGED <<phase, refused>>
    BY <1>10, GameStepKeeps DEF streams
  <2>2. CASE NewGame(s)
    <3>1. /\ play[s] = "none" /\ play' = [play EXCEPT ![s] = "running"]
          /\ \E x : roster' = [roster EXCEPT ![s] = x] /\ wire' = [wire EXCEPT ![s] = <<Config(x)>>]
      BY <2>2 DEF NewGame
    <3>2. \A t \in Stream \ {s} : play'[t] = play[t] /\ wire'[t] = wire[t] /\ roster'[t] = roster[t]
      BY <3>1 DEF TypeOK
    <3>3. play'[s] = "running" /\ phase[s] = "new"
      BY <3>1 DEF TypeOK, StreamInv
    <3> QED BY <2>1, <3>2, <3>3 DEF StreamInv
  <2>3. CASE GameBegins(s)
    BY <1>1, <2>1, <2>3 DEF GameBegins
  <2>4. CASE GameFilters(s) \/ \E c \in Controller : GameHandles(s, c) \/ GameKills(s, c)
    <3>1. /\ UNCHANGED <<play, roster>> /\ play[s] = "running"
          /\ wire' = wire \/ \E x : wire' = [wire EXCEPT ![s] = x]
      BY <2>4 DEF GameFilters, GameHandles, GameKills, Out, CanSend
    <3>2. \A t \in Stream \ {s} : wire'[t] = wire[t]
      BY <3>1 DEF TypeOK
    <3> QED BY <2>1, <3>1, <3>2 DEF StreamInv
  <2>5. CASE GameEnds(s)
    <3>1. UNCHANGED <<wire, roster>> /\ GoesOn(s) /\ play' = [play EXCEPT ![s] = "ended"]
      BY <2>5 DEF GameEnds
    <3> QED BY <2>1, <3>1 DEF StreamInv, TypeOK, GoesOn
  <2>6. CASE StreamFails(s)
    <3>1. /\ roster' = roster /\ play[s] = "running" /\ play' = [play EXCEPT ![s] = "failed"]
          /\ \E x : wire' = [wire EXCEPT ![s] = x]
      BY <2>6 DEF StreamFails
    <3>2. \A t \in Stream \ {s} : wire'[t] = wire[t] /\ play'[t] = play[t]
      BY <3>1 DEF TypeOK
    <3>3. phase[s] # "closed" /\ play'[s] = "failed"
      BY <3>1 DEF StreamInv, TypeOK
    <3> QED BY <2>1, <3>1, <3>2, <3>3 DEF StreamInv
  <2>7. ASSUME NEW t \in Stream, Reopen(s, t) PROVE StreamInv'
    <3>1. /\ play[s] = "none" /\ play[t] = "failed" /\ wire[t] = << >>
          /\ play' = [play EXCEPT ![s] = "running", ![t] = "ended"]
          /\ \E x : roster' = [roster EXCEPT ![s] = x]
          /\ \E x : wire' = [wire EXCEPT ![s] = x]
      BY <2>7 DEF Reopen
    <3>2. phase[s] = "new" /\ s # t
      BY <3>1 DEF StreamInv
    <3>3. \A u \in Stream \ {s} : roster'[u] = roster[u] /\ wire'[u] = wire[u]
      BY <3>1 DEF TypeOK
    <3>4. /\ \A u \in Stream \ {s, t} : play'[u] = play[u]
          /\ play'[s] = "running" /\ play'[t] = "ended"
      BY <3>1, <3>2 DEF TypeOK
    <3>5. /\ play[t] # "none" /\ wire'[t] = << >>
      BY <3>1, <3>2, <3>3
    <3> SUFFICES ASSUME NEW u \in Stream
                 PROVE  /\ play'[u] = "none" =>
                             phase[u] = "new" /\ wire'[u] = << >> /\ roster'[u] = {}
                        /\ phase[u] = "closed" => play'[u] \in {"failed", "ended"} /\ wire'[u] = << >>
                        /\ phase[u] # "open" => refused[u] = {}
      BY <2>1 DEF StreamInv
    <3>6. CASE u = s
      BY <3>2, <3>4, <3>6 DEF StreamInv
    <3>7. CASE u = t
      BY <3>4, <3>5, <3>7 DEF StreamInv
    <3>8. CASE u \notin {s, t}
      BY <3>3, <3>4, <3>8 DEF StreamInv
    <3> QED BY <3>6, <3>7, <3>8
  <2> QED BY <1>10, <2>2, <2>3, <2>4, <2>5, <2>6, <2>7 DEF GameStep
<1> QED BY Steps, <1>2, <1>3, <1>4, <1>5, <1>6, <1>7, <1>8, <1>9, <1>10

-----------------------------------------------------------------------------
(* Colours                                                                 *)

\* None, the lobby's colour and darkness are no game's colour.
LEMMA NotAGames == None \notin Stream /\ "lobby" \notin Stream /\ "off" \notin Stream /\ None # "off"
                   /\ None # "lobby"
BY LinksAssumption

\* A controller whose colours, stream and absence stay keeps its part of both invariants.
LEMMA ColourSame ==
  ASSUME ColourInv, GameColourForgotten, NEW c \in Controller,
         want'[c] = want[c] \/ want'[c] \notin Stream, base'[c] = base[c],
         c \in tracked' <=> c \in tracked, InGame(c)' <=> InGame(c),
         "late" \in slipped'[c] <=> "late" \in slipped[c]
  PROVE  /\ want'[c] \in Stream => base'[c] # None
         /\ c \in tracked' /\ want'[c] \in Stream => base'[c] = want'[c]
         /\ c \notin tracked' /\ ~InGame(c)' /\ "late" \notin slipped'[c] =>
              base'[c] \notin Stream /\ want'[c] \notin Stream
BY DEF ColourInv, GameColourForgotten

\* ColourInv and GameColourForgotten survive every step.
LEMMA ColourStep ==
  ASSUME TypeOK, TypeOK', StreamInv, WireInv, ColourInv, GameColourForgotten, Next
  PROVE  ColourInv' /\ GameColourForgotten'
<1> DEFINE Good(c) ==
             /\ want'[c] \in Stream => base'[c] # None
             /\ c \in tracked' /\ want'[c] \in Stream => base'[c] = want'[c]
             /\ c \notin tracked' /\ ~InGame(c)' /\ "late" \notin slipped'[c] =>
                  base'[c] \notin Stream /\ want'[c] \notin Stream
<1> SUFFICES \A c \in Controller : Good(c)
  BY DEF ColourInv, GameColourForgotten, TypeOK
<1>1. ASSUME NEW c \in Controller,
             want'[c] = want[c] \/ want'[c] \notin Stream, base'[c] = base[c],
             c \in tracked' <=> c \in tracked, InGame(c)' <=> InGame(c),
             "late" \in slipped'[c] <=> "late" \in slipped[c]
      PROVE  Good(c)
  BY <1>1, ColourSame
<1>2. ASSUME UNCHANGED <<phase, roster>> PROVE \A c \in Controller : InGame(c)' <=> InGame(c)
  BY <1>2 DEF InGame
<1>3. /\ want \in [Controller -> Lamp] /\ base \in [Controller -> Lamp]
      /\ slipped \in [Controller -> SUBSET {"lit", "late", "claim"}]
      /\ phase \in [Stream -> {"new", "claiming", "open", "closed"}]
  BY DEF TypeOK
<1> HIDE DEF Good
<1>4. ASSUME PassLists PROVE \A c \in Controller : Good(c)
  <2>1. /\ UNCHANGED <<phase, roster, base, tracked, slipped>>
        /\ want' = [c \in Controller |-> IF c \in routed' \cup held THEN want[c] ELSE None]
    BY <1>4 DEF PassLists, streams, game, history
  <2>2. \A c \in Controller : want'[c] = want[c] \/ want'[c] \notin Stream
    BY <2>1, NotAGames
  <2> QED BY <1>1, <1>2, <2>1, <2>2
<1>5. ASSUME PassEnds \/ \E c \in Controller : LinkMoves(c) \/ IdentStep(c)
      PROVE  \A c \in Controller : Good(c)
  <2>1. /\ UNCHANGED <<phase, roster, base, tracked, want>>
        /\ \A c \in Controller : "late" \in slipped'[c] <=> "late" \in slipped[c]
    BY <1>5, IdentStepKeeps DEF PassEnds, LinkMoves, streams, game, history, backend, manager
  <2> QED BY <1>1, <1>2, <2>1
<1>6. ASSUME PassDrops PROVE \A c \in Controller : Good(c)
  <2>1. PICK lost \in SUBSET tracked, mute \in SUBSET Controller :
          /\ mute \subseteq lost /\ tracked' = tracked \ lost
          /\ want' = [c \in Controller |-> IF c \in mute THEN None ELSE want[c]]
          /\ slipped' = [c \in Controller |->
                           IF c \notin lost THEN slipped[c]
                           ELSE (slipped[c] \ {"claim", "late"})
                                  \cup (IF LeftLit(c) THEN {"late"} ELSE {})]
    BY <1>6, Drops
  <2>2. UNCHANGED <<phase, roster, base>>
    BY <1>6 DEF PassDrops, streams, game
  <2>3. \A c \in Controller : want'[c] = want[c] \/ want'[c] \notin Stream
    BY <2>1, NotAGames
  <2> SUFFICES ASSUME NEW c \in Controller PROVE Good(c)
    OBVIOUS
  <2>4. CASE c \notin lost
    BY <1>1, <1>2, <2>1, <2>2, <2>3, <2>4
  <2>5. CASE c \in lost
    <3>1. c \notin tracked' /\ c \in tracked
      BY <2>1, <2>5
    <3>2. want[c] \in Stream => base[c] = want[c] /\ base[c] # None
      BY <3>1 DEF ColourInv
    <3>3. "late" \notin slipped'[c] => ~LeftLit(c)
      BY <2>1, <2>5
    <3>4. InGame(c)' <=> InGame(c)
      BY <1>2, <2>2
    <3> QED BY <2>2, <2>3, <3>1, <3>2, <3>3, <3>4 DEF Good, LeftLit
  <2> QED BY <2>4, <2>5
<1>7. ASSUME NEW c \in Controller, PassRegisters(c) PROVE \A x \in Controller : Good(x)
  <2>1. UNCHANGED <<phase, roster, base>>
    BY <1>7, Registers DEF streams, game
  <2>2. CASE UNCHANGED <<tracked, want, slipped>>
    BY <1>1, <1>2, <2>1, <2>2
  <2>3. CASE /\ tracked' = tracked \cup {c}
             /\ \A x \in Controller \ {c} : want'[x] = want[x] /\ slipped'[x] = slipped[x]
             /\ ReconnectColor(c) = None => want'[c] = want[c]
             /\ ReconnectColor(c) # None => want'[c] = ReconnectColor(c)
    <3>1. \A x \in Controller \ {c} : Good(x)
      BY <1>1, <1>2, <2>1, <2>3
    <3>2. ReconnectColor(c) \in {"off", base[c]}
      BY DEF ReconnectColor
    <3>3. ReconnectColor(c) = None => base[c] = None /\ want[c] \notin Stream
      BY <3>2, NotAGames DEF ColourInv
    <3>4. want'[c] \in Stream => want'[c] = base[c]
      BY <2>3, <3>2, <3>3, NotAGames
    <3>5. c \in tracked'
      BY <2>3
    <3>6. Good(c)
      BY <2>1, <3>4, <3>5, NotAGames DEF Good
    <3> QED BY <3>1, <3>6
  <2> QED BY <1>7, <2>2, <2>3, Registers
<1>8. ASSUME NEW c \in Controller, LobbyPaints(c) PROVE \A x \in Controller : Good(x)
  <2>1. /\ UNCHANGED <<phase, roster, tracked, slipped>> /\ c \in tracked
        /\ base' = [base EXCEPT ![c] = "lobby"] /\ Written([x \in {c} |-> "lobby"], want)
    BY <1>8 DEF LobbyPaints, streams, game, history
  <2>2. want'[c] = "lobby" /\ \A x \in Controller \ {c} : want'[x] = want[x]
    BY <2>1 DEF Written
  <2>3. \A x \in Controller \ {c} : base'[x] = base[x]
    BY <2>1
  <2>4. \A x \in Controller \ {c} : Good(x)
    BY <1>1, <1>2, <2>1, <2>2, <2>3
  <2>5. Good(c)
    BY <2>1, <2>2, NotAGames DEF Good
  <2> QED BY <2>4, <2>5
<1>9. ASSUME NEW s \in Stream, Claims(s) PROVE \A c \in Controller : Good(c)
  <2>1. /\ UNCHANGED <<roster, base, tracked, want>> /\ phase' = [phase EXCEPT ![s] = "claiming"]
        /\ phase[s] = "new"
        /\ slipped' = [c \in Controller |-> IF c \in Claimed(s) THEN slipped[c] \ {"claim"}
                                            ELSE slipped[c]]
    BY <1>9 DEF Claims, Claim, backend, manager, game
  <2>2. \A c \in Controller : "late" \in slipped'[c] <=> "late" \in slipped[c]
    BY <2>1
  <2>3. \A t \in Stream : phase'[t] = "open" <=> phase[t] = "open"
    BY <1>3, <2>1
  <2>4. \A c \in Controller : InGame(c)' <=> InGame(c)
    BY <2>1, <2>3 DEF InGame
  <2> QED BY <1>1, <2>1, <2>2, <2>4
<1>10. ASSUME NEW s \in Stream, Opens(s) PROVE \A c \in Controller : Good(c)
  <2>1. /\ UNCHANGED <<roster, tracked, slipped>> /\ phase' = [phase EXCEPT ![s] = "open"]
        /\ phase[s] \in {"new", "claiming"}
        /\ \A c \in Controller :
             /\ c \in roster[s] /\ c \in Head(wire[s]).lit => base'[c] = s
             /\ c \in roster[s] /\ c \notin Head(wire[s]).lit => base'[c] = "off"
             /\ c \notin roster[s] => base'[c] = base[c]
             /\ c \in roster[s] \cap tracked => want'[c] = base'[c]
             /\ c \notin roster[s] \cap tracked => want'[c] = want[c]
    BY <1>10, Opened
  <2> SUFFICES ASSUME NEW c \in Controller PROVE Good(c)
    OBVIOUS
  <2>2. phase'[s] = "open" /\ \A t \in Stream \ {s} : phase'[t] = phase[t]
    BY <1>3, <2>1
  <2>3. CASE c \in roster[s]
    <3>1. InGame(c)'
      BY <2>1, <2>2, <2>3 DEF InGame
    <3>2. base'[c] # None
      BY <2>1, <2>3, NotAGames
    <3>3. c \in tracked' => base'[c] = want'[c]
      BY <2>1, <2>3
    <3> QED BY <3>1, <3>2, <3>3 DEF Good
  <2>4. CASE c \notin roster[s]
    <3>1. InGame(c)' <=> InGame(c)
      BY <2>1, <2>2, <2>4 DEF InGame
    <3> QED BY <1>1, <2>1, <2>4, <3>1
  <2> QED BY <2>3, <2>4
<1>11. ASSUME NEW s \in Stream, Dies(s) PROVE \A x \in Controller : Good(x)
  <2>1. PICK c \in out[s] :
          /\ UNCHANGED <<phase, roster, tracked>> /\ c \in roster[s]
          /\ \/ /\ c \in tracked /\ base' = [base EXCEPT ![c] = "off"]
                /\ want' = [want EXCEPT ![c] = "off"]
                /\ slipped' = [slipped EXCEPT ![c] = @ \ {"claim"}]
             \/ UNCHANGED <<base, want, slipped>>
    BY <1>11, Deaths DEF streams
  <2>2. c \in Controller
    BY <2>1 DEF TypeOK
  <2>3. CASE UNCHANGED <<base, want, slipped>>
    BY <1>1, <1>2, <2>1, <2>3
  <2>4. CASE /\ c \in tracked /\ base' = [base EXCEPT ![c] = "off"]
             /\ want' = [want EXCEPT ![c] = "off"]
             /\ slipped' = [slipped EXCEPT ![c] = @ \ {"claim"}]
    <3>1. \A x \in Controller \ {c} : /\ base'[x] = base[x] /\ want'[x] = want[x]
                                      /\ slipped'[x] = slipped[x]
      BY <1>3, <2>4
    <3>2. \A x \in Controller \ {c} : Good(x)
      BY <1>1, <1>2, <2>1, <3>1
    <3>3. base'[c] = "off" /\ want'[c] = "off" /\ c \in tracked'
      BY <1>3, <2>1, <2>2, <2>4
    <3>4. Good(c)
      BY <3>3, NotAGames DEF Good
    <3> QED BY <3>2, <3>4
  <2> QED BY <2>1, <2>3, <2>4
<1>12. ASSUME NEW s \in Stream, Filters(s) \/ Frame(s) PROVE \A c \in Controller : Good(c)
  <2>1. UNCHANGED <<phase, roster, base, tracked, want, slipped>>
    BY <1>12 DEF Filters, Frame, backend, manager, history
  <2> QED BY <1>1, <1>2, <2>1
<1>13. ASSUME NEW s \in Stream, Release(s) PROVE \A c \in Controller : Good(c)
  <2>1. /\ UNCHANGED <<roster, tracked, slipped>> /\ phase' = [phase EXCEPT ![s] = "closed"]
    BY <1>13 DEF Release, game
  <2>2. \A t \in Stream : phase'[t] = "open" <=> t # s /\ phase[t] = "open"
    BY <1>3, <2>1
  <2> SUFFICES ASSUME NEW c \in Controller PROVE Good(c)
    OBVIOUS
  <2>3. CASE phase[s] = "new"
    <3>1. UNCHANGED <<base, want>>
      BY <1>13, <2>3 DEF Release
    <3>2. InGame(c)' <=> InGame(c)
      BY <2>1, <2>2, <2>3 DEF InGame
    <3> QED BY <1>1, <2>1, <3>1, <3>2
  <2>4. CASE phase[s] # "new"
    <3>1. /\ base' = [x \in Controller |-> IF x \in Forgotten(s) THEN None ELSE base[x]]
          /\ want' = [x \in Controller |-> IF x \in Forgotten(s) THEN None ELSE want[x]]
      BY <1>13, <2>4 DEF Release, DropOutput
    <3>2. CASE c \in Forgotten(s)
      <4>1. base'[c] = None /\ want'[c] = None
        BY <3>1, <3>2
      <4> QED BY <4>1, NotAGames DEF Good
    <3>3. CASE c \notin Forgotten(s)
      <4>1. base'[c] = base[c] /\ want'[c] = want[c]
        BY <3>1, <3>3
      <4>2. c \notin tracked => (InGame(c)' <=> InGame(c))
        BY <2>1, <2>2, <3>3 DEF InGame, Forgotten
      <4>3. CASE c \in tracked
        BY <2>1, <4>1, <4>3 DEF Good, ColourInv
      <4>4. CASE c \notin tracked
        BY <1>1, <2>1, <4>1, <4>2, <4>4
      <4> QED BY <4>3, <4>4
    <3> QED BY <3>2, <3>3
  <2> QED BY <2>3, <2>4
<1>14. ASSUME NEW s \in Stream, GameStep(s) PROVE \A c \in Controller : Good(c)
  <2>1. UNCHANGED <<phase, base, tracked, want, slipped>>
    BY <1>14, GameStepKeeps DEF streams, backend, manager
  <2>2. \A t \in Stream : phase[t] = "open" => roster'[t] = roster[t]
    BY <1>14, RosterKept
  <2>3. \A c \in Controller : InGame(c)' <=> InGame(c)
    BY <2>1, <2>2 DEF InGame
  <2> QED BY <1>1, <2>1, <2>3
<1> QED BY Steps, <1>4, <1>5, <1>6, <1>7, <1>8, <1>9, <1>10, <1>11, <1>12, <1>13, <1>14

-----------------------------------------------------------------------------
(* Streams that share players                                              *)

Pair(s, t) ==
  s # t /\ GoesOn(s) /\ Present(t) /\ roster[s] \cap roster[t] # {} =>
    play[t] = "ended" /\ wire[t] = << >> /\ roster[t] = roster[s] /\ out[t] \subseteq out[s]

\* SharedInv survives every step.
LEMMA SharedStep ==
  ASSUME TypeOK, StreamInv, SharedInv, WireInv, Next
  PROVE  SharedInv'
<1>0. \A s, t \in Stream : Pair(s, t)
  BY DEF SharedInv, Pair
<1> SUFFICES \A s, t \in Stream : Pair(s, t)'
  BY DEF SharedInv, Pair
<1> HIDE DEF SharedInv
<1>1. ASSUME UNCHANGED <<play, roster, out>>,
             \A t \in Stream : /\ phase[t] = "closed" => phase'[t] = "closed"
                               /\ wire[t] = << >> => wire'[t] = << >>
      PROVE  \A s, t \in Stream : Pair(s, t)'
  BY <1>0, <1>1 DEF Pair, Present, GoesOn
<1>2. ASSUME PassLists \/ PassDrops \/ PassEnds \/ (\E c \in Controller : LinkMoves(c) \/ LobbyPaints(c))
      PROVE  \A s, t \in Stream : Pair(s, t)'
  BY <1>1, <1>2 DEF PassLists, PassDrops, PassEnds, LinkMoves, LobbyPaints, streams, game
<1>3. ASSUME NEW c \in Controller, PassRegisters(c) \/ IdentStep(c)
      PROVE  \A s, t \in Stream : Pair(s, t)'
  BY <1>1, <1>3, Registers, IdentStepKeeps DEF streams, game
<1>4. ASSUME NEW s \in Stream, Claims(s) PROVE \A u, v \in Stream : Pair(u, v)'
  <2>1. /\ UNCHANGED <<play, roster, out, wire>>
        /\ phase' = [phase EXCEPT ![s] = "claiming"] /\ phase[s] = "new"
    BY <1>4 DEF Claims, Claim, game
  <2> QED BY <1>1, <2>1 DEF TypeOK
<1>5. ASSUME NEW s \in Stream, Opens(s) PROVE \A u, v \in Stream : Pair(u, v)'
  <2>1. /\ UNCHANGED <<play, roster, out>> /\ phase[s] \in {"new", "claiming"} /\ wire[s] # << >>
        /\ phase' = [phase EXCEPT ![s] = "open"] /\ wire' = [wire EXCEPT ![s] = Tail(@)]
    BY <1>5, Opened
  <2> QED BY <1>1, <2>1 DEF TypeOK
<1>6. ASSUME NEW s \in Stream, Dies(s) \/ Filters(s) PROVE \A u, v \in Stream : Pair(u, v)'
  <2>1. /\ UNCHANGED <<play, roster, out, phase>> /\ wire[s] # << >>
        /\ wire' = [wire EXCEPT ![s] = Tail(@)]
    BY <1>6 DEF Dies, Filters, streams
  <2> QED BY <1>1, <2>1 DEF TypeOK
<1>7. ASSUME NEW s \in Stream, Frame(s) PROVE \A u, v \in Stream : Pair(u, v)'
  BY <1>1, <1>7 DEF Frame
<1>8. ASSUME NEW s \in Stream, Release(s) PROVE \A u, v \in Stream : Pair(u, v)'
  <2>1. UNCHANGED <<play, roster, out, wire>> /\ phase' = [phase EXCEPT ![s] = "closed"]
    BY <1>8 DEF Release, game
  <2> QED BY <1>1, <2>1 DEF TypeOK
<1>9. ASSUME NEW s \in Stream, GameStep(s) PROVE \A u, v \in Stream : Pair(u, v)'
  <2>1. phase' = phase
    BY <1>9, GameStepKeeps DEF streams
  <2>2. CASE NewGame(s)
    <3>1. /\ play[s] = "none" /\ play' = [play EXCEPT ![s] = "running"] /\ out' = out
          /\ \E x : /\ roster' = [roster EXCEPT ![s] = x]
                    /\ wire' = [wire EXCEPT ![s] = <<Config(x)>>]
                    /\ \A t \in Stream : GoesOn(t) \/ phase[t] # "closed" => x \cap roster[t] = {}
      BY <2>2 DEF NewGame
    <3>2. \A t \in Stream \ {s} : play'[t] = play[t] /\ wire'[t] = wire[t] /\ roster'[t] = roster[t]
      BY <3>1 DEF TypeOK
    <3>3. \A t \in Stream \ {s} : Present(t) => roster'[s] \cap roster[t] = {}
      BY <3>1 DEF TypeOK, Present
    <3>4. \A t \in Stream \ {s} : (GoesOn(t)' <=> GoesOn(t)) /\ (Present(t)' <=> Present(t))
      BY <2>1, <3>2 DEF GoesOn, Present
    <3> SUFFICES ASSUME NEW u \in Stream, NEW v \in Stream PROVE Pair(u, v)'
      OBVIOUS
    <3>5. CASE u # s /\ v # s
      BY <1>0, <3>1, <3>2, <3>4, <3>5 DEF Pair
    <3>6. CASE u = s /\ v # s
      BY <3>2, <3>3, <3>4, <3>6 DEF Pair
    <3>7. CASE v = s /\ u # s
      <4>1. GoesOn(u) => Present(u)
        BY DEF Present
      <4> QED BY <3>2, <3>3, <3>4, <3>7, <4>1 DEF Pair
    <3>8. CASE u = s /\ v = s
      BY <3>8 DEF Pair
    <3> QED BY <3>5, <3>6, <3>7, <3>8
  <2>3. CASE GameBegins(s)
    BY <1>1, <2>1, <2>3 DEF GameBegins
  <2>4. CASE GameFilters(s) \/ \E c \in Controller : GameHandles(s, c) \/ GameKills(s, c)
    <3>1. /\ UNCHANGED <<play, roster>> /\ play[s] = "running"
          /\ wire' = wire \/ \E x : wire' = [wire EXCEPT ![s] = x]
          /\ out' = out \/ \E c : out' = [out EXCEPT ![s] = @ \cup {c}]
      BY <2>4 DEF GameFilters, GameHandles, GameKills, Out, CanSend
    <3>2. /\ \A t \in Stream \ {s} : wire'[t] = wire[t] /\ out'[t] = out[t]
          /\ \A t \in Stream : out[t] \subseteq out'[t]
      <4>1. DOMAIN wire = Stream /\ DOMAIN out = Stream
        BY DEF TypeOK
      <4>2. CASE out' = out
        BY <3>1, <4>1, <4>2
      <4>3. ASSUME NEW c, out' = [out EXCEPT ![s] = @ \cup {c}]
            PROVE  \A t \in Stream : out[t] \subseteq out'[t] /\ (t # s => out'[t] = out[t])
        BY <4>1, <4>3
      <4> QED BY <3>1, <4>1, <4>2, <4>3
    <3> QED BY <1>0, <2>1, <3>1, <3>2 DEF Pair, GoesOn, Present
  <2>5. CASE GameEnds(s)
    <3>1. UNCHANGED <<wire, roster, out>> /\ GoesOn(s) /\ play' = [play EXCEPT ![s] = "ended"]
      BY <2>5 DEF GameEnds
    <3>2. play'[s] = "ended" /\ \A t \in Stream \ {s} : play'[t] = play[t]
      BY <3>1 DEF TypeOK
    <3> QED BY <1>0, <2>1, <3>1, <3>2 DEF Pair, GoesOn, Present
  <2>6. CASE StreamFails(s)
    <3>1. /\ UNCHANGED <<roster, out>> /\ play[s] = "running" /\ play' = [play EXCEPT ![s] = "failed"]
          /\ \E x : wire' = [wire EXCEPT ![s] = x]
      BY <2>6 DEF StreamFails
    <3>2. \A t \in Stream \ {s} : wire'[t] = wire[t] /\ play'[t] = play[t]
      BY <3>1 DEF TypeOK
    <3>3. play'[s] = "failed"
      BY <3>1 DEF TypeOK
    <3> QED BY <1>0, <2>1, <3>1, <3>2, <3>3 DEF Pair, GoesOn, Present
  <2>7. ASSUME NEW t \in Stream, Reopen(s, t) PROVE \A u, v \in Stream : Pair(u, v)'
    <3>1. /\ play[s] = "none" /\ play[t] = "failed" /\ wire[t] = << >>
          /\ play' = [play EXCEPT ![s] = "running", ![t] = "ended"]
          /\ roster' = [roster EXCEPT ![s] = roster[t]] /\ out' = [out EXCEPT ![s] = out[t]]
          /\ \E x : wire' = [wire EXCEPT ![s] = x]
      BY <2>7 DEF Reopen
    <3>2. /\ s # t /\ play'[s] = "running" /\ play'[t] = "ended"
          /\ roster'[s] = roster[t] /\ out'[s] = out[t]
      BY <3>1 DEF TypeOK
    <3>3. \A u \in Stream \ {s} : roster'[u] = roster[u] /\ wire'[u] = wire[u] /\ out'[u] = out[u]
      BY <3>1 DEF TypeOK
    <3>4. \A u \in Stream \ {s, t} : play'[u] = play[u]
      BY <3>1 DEF TypeOK
    <3>5. \A u \in Stream \ {s, t} : /\ GoesOn(u)' <=> GoesOn(u)
                                     /\ Present(u)' <=> Present(u)
      BY <2>1, <3>4 DEF GoesOn, Present
    <3>6. GoesOn(t) /\ Present(t) /\ ~GoesOn(t)' /\ play[t] # "ended"
      BY <3>1, <3>2 DEF GoesOn, Present
    <3> SUFFICES ASSUME NEW u \in Stream, NEW v \in Stream PROVE Pair(u, v)'
      OBVIOUS
    <3>7. CASE u = t
      BY <3>6, <3>7 DEF Pair
    <3>8. CASE u = s /\ v = t
      BY <3>1, <3>2, <3>3, <3>8 DEF Pair
    <3>9. CASE u = s /\ v # t
      <4>1. Pair(t, v)
        BY <1>0
      <4> QED BY <3>2, <3>3, <3>4, <3>5, <3>6, <3>9, <4>1 DEF Pair
    <3>10. CASE u \notin {s, t} /\ v \in {s, t}
      <4>1. Pair(u, t)
        BY <1>0
      <4>2. GoesOn(u) => roster[u] \cap roster[t] = {}
        BY <3>6, <3>10, <4>1 DEF Pair
      <4> QED BY <3>2, <3>3, <3>5, <3>10, <4>2 DEF Pair
    <3>11. CASE u \notin {s, t} /\ v \notin {s, t}
      BY <1>0, <3>3, <3>4, <3>5, <3>11 DEF Pair
    <3> QED BY <3>7, <3>8, <3>9, <3>10, <3>11
  <2> QED BY <1>9, <2>2, <2>3, <2>4, <2>5, <2>6, <2>7 DEF GameStep
<1> QED BY Steps, <1>2, <1>3, <1>4, <1>5, <1>6, <1>7, <1>8, <1>9

-----------------------------------------------------------------------------
(* Commands under way, and the game they come from                         *)

Wired(s) ==
  /\ \A c \in Controller : HasDeath(wire[s], c) => c \in out[s]
  /\ Keeps(wire[s], roster[s] \ out[s])
  /\ phase[s] = "open" => roster[s] \ out[s] \subseteq alive[s]
  /\ phase[s] \in {"new", "claiming"} /\ play[s] = "running" =>
       /\ wire[s] # << >> /\ Head(wire[s]).kind = "config"
       /\ roster[s] \ out[s] \subseteq Head(wire[s]).lit
       /\ \A c \in out[s] \cap Head(wire[s]).lit : HasDeath(wire[s], c)

LEMMA WireParts == WireInv <=> \A s \in Stream : Wired(s)
BY DEF WireInv, Wired, HasDeath, Keeps, DeathSent

\* WireInv survives every step.
LEMMA WireStep ==
  ASSUME TypeOK, TypeOK', StreamInv, WireInv, Next
  PROVE  WireInv'
<1>0. \A s \in Stream : Wired(s)
  BY WireParts
<1> SUFFICES \A s \in Stream : Wired(s)'
  BY DEF WireInv, Wired, HasDeath, Keeps, DeathSent
<1>1. ASSUME UNCHANGED <<phase, alive, play, roster, out, wire>> PROVE \A s \in Stream : Wired(s)'
  BY <1>0, <1>1 DEF Wired
<1>2. ASSUME PassLists \/ PassDrops \/ PassEnds \/ (\E c \in Controller : LinkMoves(c) \/ LobbyPaints(c))
      PROVE  \A s \in Stream : Wired(s)'
  BY <1>1, <1>2 DEF PassLists, PassDrops, PassEnds, LinkMoves, LobbyPaints, streams, game
<1>3. ASSUME NEW c \in Controller, PassRegisters(c) \/ IdentStep(c)
      PROVE  \A s \in Stream : Wired(s)'
  BY <1>1, <1>3, Registers, IdentStepKeeps DEF streams, game
<1>4. ASSUME NEW s \in Stream, Claims(s) PROVE \A t \in Stream : Wired(t)'
  <2>1. /\ UNCHANGED <<play, roster, out, wire, alive>>
        /\ phase' = [phase EXCEPT ![s] = "claiming"] /\ phase[s] = "new"
    BY <1>4 DEF Claims, Claim, game
  <2>2. \A t \in Stream : \/ phase'[t] = phase[t]
                          \/ phase'[t] = "claiming" /\ phase[t] = "new"
    <3>1. DOMAIN phase = Stream
      BY DEF TypeOK
    <3>2. phase'[s] = "claiming" /\ \A t \in Stream \ {s} : phase'[t] = phase[t]
      BY <2>1, <3>1
    <3>3. phase[s] = "new"
      BY <2>1
    <3> QED BY <3>2, <3>3
  <2> QED BY <1>0, <2>1, <2>2 DEF Wired
<1>5. ASSUME NEW s \in Stream, Opens(s) PROVE \A t \in Stream : Wired(t)'
  <2>1. /\ UNCHANGED <<play, roster, out>> /\ wire[s] # << >>
        /\ phase' = [phase EXCEPT ![s] = "open"] /\ wire' = [wire EXCEPT ![s] = Tail(@)]
        /\ alive' = [alive EXCEPT ![s] = roster[s]]
    BY <1>5, Opened
  <2>2. \A t \in Stream \ {s} : phase'[t] = phase[t] /\ wire'[t] = wire[t] /\ alive'[t] = alive[t]
    BY <2>1 DEF TypeOK
  <2>3. phase'[s] = "open" /\ wire'[s] = Tail(wire[s]) /\ alive'[s] = roster[s]
    BY <2>1 DEF TypeOK
  <2>4. \A t \in Stream \ {s} : Wired(t)'
    BY ZenonT(40), <1>0, <2>1, <2>2 DEF Wired
  <2>5. /\ \A c : HasDeath(Tail(wire[s]), c) => HasDeath(wire[s], c)
        /\ \A S : Keeps(wire[s], S) => Keeps(Tail(wire[s]), S)
    BY <2>1, Taken DEF TypeOK
  <2>6. Wired(s)'
    BY <1>0, <2>1, <2>3, <2>5 DEF Wired
  <2> QED BY <2>4, <2>6
<1>6. ASSUME NEW s \in Stream, Dies(s) \/ Filters(s) PROVE \A t \in Stream : Wired(t)'
  <2>1. /\ UNCHANGED <<phase, play, roster, out>> /\ wire[s] # << >> /\ phase[s] = "open"
        /\ wire' = [wire EXCEPT ![s] = Tail(@)]
        /\ \/ alive' = alive
           \/ Head(wire[s]).kind = "filter" /\ alive' = [alive EXCEPT ![s] = Head(wire[s]).keep]
    BY <1>6 DEF Dies, Filters, streams
  <2>2. \A t \in Stream \ {s} : wire'[t] = wire[t] /\ alive'[t] = alive[t]
    BY <2>1 DEF TypeOK
  <2>3. wire'[s] = Tail(wire[s])
    BY <2>1 DEF TypeOK
  <2>4. \A t \in Stream \ {s} : Wired(t)'
    BY <1>0, <2>1, <2>2 DEF Wired
  <2>5. /\ \A c : HasDeath(Tail(wire[s]), c) => HasDeath(wire[s], c)
        /\ \A S : Keeps(wire[s], S) => Keeps(Tail(wire[s]), S)
                    /\ (Head(wire[s]).kind = "filter" => S \subseteq Head(wire[s]).keep)
    BY <2>1, Taken DEF TypeOK
  <2>6. alive'[s] = alive[s] \/ (Head(wire[s]).kind = "filter" /\ alive'[s] = Head(wire[s]).keep)
    BY <2>1 DEF TypeOK
  <2>7. roster[s] \ out[s] \subseteq alive'[s]
    BY <1>0, <2>1, <2>5, <2>6 DEF Wired
  <2>8. Wired(s)'
    BY <1>0, <2>1, <2>3, <2>5, <2>7 DEF Wired
  <2> QED BY <2>4, <2>8
<1>7. ASSUME NEW s \in Stream, Frame(s) PROVE \A t \in Stream : Wired(t)'
  BY <1>1, <1>7 DEF Frame
<1>8. ASSUME NEW s \in Stream, Release(s) PROVE \A t \in Stream : Wired(t)'
  <2>1. /\ UNCHANGED <<play, roster, out, wire>> /\ phase' = [phase EXCEPT ![s] = "closed"]
        /\ alive' = [alive EXCEPT ![s] = {}]
    BY <1>8 DEF Release, game
  <2>2. /\ phase'[s] = "closed"
        /\ \A t \in Stream \ {s} : phase'[t] = phase[t] /\ alive'[t] = alive[t]
    BY <2>1 DEF TypeOK
  <2> QED BY <1>0, <2>1, <2>2 DEF Wired
<1>9. ASSUME NEW s \in Stream, GameStep(s) PROVE \A t \in Stream : Wired(t)'
  <2>1. UNCHANGED <<phase, alive>>
    BY <1>9, GameStepKeeps DEF streams
  <2>2. CASE NewGame(s)
    <3>1. PICK x \in SUBSET Controller :
            /\ roster' = [roster EXCEPT ![s] = x] /\ wire' = [wire EXCEPT ![s] = <<Config(x)>>]
            /\ play[s] = "none" /\ play' = [play EXCEPT ![s] = "running"] /\ out' = out
      BY <2>2 DEF NewGame
    <3>2. \A t \in Stream \ {s} : play'[t] = play[t] /\ wire'[t] = wire[t] /\ roster'[t] = roster[t]
      BY <3>1 DEF TypeOK
    <3>3. roster'[s] = x /\ wire'[s] = <<Config(x)>> /\ phase[s] = "new" /\ out[s] = {}
      BY <3>1 DEF TypeOK, StreamInv
    <3>4. \A t \in Stream \ {s} : Wired(t)'
      BY <1>0, <2>1, <3>1, <3>2 DEF Wired
    <3>5. Wired(s)'
      <4>1. /\ wire'[s] # << >> /\ Head(wire'[s]) = Config(x) /\ \A c : ~HasDeath(wire'[s], c)
            /\ Keeps(wire'[s], x)
        BY <3>3, Openings
      <4>2. Config(x).kind = "config" /\ Config(x).lit = x
        BY DEF Config
      <4>3. out'[s] = {} /\ roster'[s] \ out'[s] = x /\ phase'[s] = "new"
        BY <2>1, <3>1, <3>3
      <4> QED BY <4>1, <4>2, <4>3 DEF Wired
    <3> QED BY <3>4, <3>5
  <2>3. CASE GameBegins(s)
    BY <1>1, <2>1, <2>3 DEF GameBegins
  <2>4. ASSUME NEW c \in roster[s] \ out[s], Out(s, c), UNCHANGED <<play, roster>>, play[s] = "running"
        PROVE  \A t \in Stream : Wired(t)'
    <3>1. /\ out' = [out EXCEPT ![s] = @ \cup {c}]
          /\ wire' = [wire EXCEPT ![s] = Append(@, Death(c))] /\ c \in Controller
      BY <2>4 DEF Out, TypeOK
    <3>2. \A t \in Stream \ {s} : out'[t] = out[t] /\ wire'[t] = wire[t]
      BY <3>1 DEF TypeOK
    <3>3. out'[s] = out[s] \cup {c} /\ wire'[s] = Append(wire[s], Death(c))
      BY <3>1 DEF TypeOK
    <3>4. \A t \in Stream \ {s} : Wired(t)'
      BY <1>0, <2>1, <2>4, <3>2 DEF Wired
    <3>5. /\ Append(wire[s], Death(c)) # << >>
          /\ \A x : HasDeath(Append(wire[s], Death(c)), x) <=> HasDeath(wire[s], x) \/ Death(c) = Death(x)
          /\ \A S : Keeps(Append(wire[s], Death(c)), S)
                      <=> Keeps(wire[s], S) /\ (Death(c).kind = "filter" => S \subseteq Death(c).keep)
          /\ wire[s] # << >> => Head(Append(wire[s], Death(c))) = Head(wire[s])
      BY <3>1, Sent, Commands DEF TypeOK
    <3>6. Death(c).kind = "death" /\ \A x : Death(c) = Death(x) <=> x = c
      BY DEF Death
    <3>7. \A S : Keeps(wire[s], S) => Keeps(wire'[s], S)
      BY <3>3, <3>5, <3>6
    <3>8. \A x : HasDeath(wire'[s], x) <=> HasDeath(wire[s], x) \/ x = c
      BY <3>3, <3>5, <3>6
    <3>9. wire'[s] # << >> /\ (wire[s] # << >> => Head(wire'[s]) = Head(wire[s]))
      BY <3>3, <3>5
    <3>10. \A S, T : S \subseteq T /\ Keeps(wire'[s], T) => Keeps(wire'[s], S)
      BY DEF Keeps
    <3>11. Keeps(wire[s], roster[s] \ out[s])
      BY <1>0 DEF Wired
    <3>12. roster'[s] \ out'[s] \subseteq roster[s] \ out[s]
      BY <2>4, <3>3
    <3>13. Keeps(wire'[s], roster'[s] \ out'[s])
      BY <3>7, <3>10, <3>11, <3>12
    <3>14. \A x \in Controller : HasDeath(wire'[s], x) => x \in out'[s]
      BY <1>0, <3>3, <3>8 DEF Wired
    <3>15. phase[s] = "open" => roster'[s] \ out'[s] \subseteq alive[s]
      BY <1>0, <3>12 DEF Wired
    <3>16. phase[s] \in {"new", "claiming"} =>
             /\ Head(wire'[s]).kind = "config"
             /\ roster'[s] \ out'[s] \subseteq Head(wire'[s]).lit
             /\ \A x \in out'[s] \cap Head(wire'[s]).lit : HasDeath(wire'[s], x)
      <4>1. ASSUME phase[s] \in {"new", "claiming"}
            PROVE  /\ wire[s] # << >> /\ Head(wire[s]).kind = "config"
                   /\ roster[s] \ out[s] \subseteq Head(wire[s]).lit
                   /\ \A x \in out[s] \cap Head(wire[s]).lit : HasDeath(wire[s], x)
        BY <1>0, <2>4, <4>1 DEF Wired
      <4> QED BY <3>3, <3>8, <3>9, <3>12, <4>1
    <3>17. Wired(s)'
      BY <2>1, <3>9, <3>13, <3>14, <3>15, <3>16 DEF Wired
    <3> QED BY <3>4, <3>17
  <2>5. ASSUME NEW c \in Controller, GameHandles(s, c) \/ GameKills(s, c)
        PROVE  \A t \in Stream : Wired(t)'
    <3>1. /\ UNCHANGED <<play, roster>> /\ play[s] = "running"
          /\ \/ c \in roster[s] \ out[s] /\ Out(s, c)
             \/ UNCHANGED <<out, wire>>
      BY <2>5 DEF GameHandles, GameKills, CanSend
    <3> QED BY <1>1, <2>1, <2>4, <3>1
  <2>6. CASE GameFilters(s)
    <3> DEFINE m == Filter(roster[s] \ out[s])
    <3>1. /\ UNCHANGED <<play, roster, out>> /\ play[s] = "running"
          /\ wire' = [wire EXCEPT ![s] = Append(@, m)]
      BY <2>6 DEF GameFilters, CanSend
    <3>2. m \in Command /\ m.kind = "filter" /\ m.keep = roster[s] \ out[s]
      BY Commands DEF TypeOK
    <3>3. \A x : m # Death(x)
      BY DEF Filter, Death
    <3> HIDE DEF m
    <3>4. wire'[s] = Append(wire[s], m) /\ \A t \in Stream \ {s} : wire'[t] = wire[t]
      BY <3>1 DEF TypeOK
    <3>5. \A t \in Stream \ {s} : Wired(t)'
      BY <1>0, <2>1, <3>1, <3>4 DEF Wired
    <3>6. /\ wire'[s] # << >> /\ (wire[s] # << >> => Head(wire'[s]) = Head(wire[s]))
          /\ \A x : HasDeath(wire'[s], x) <=> HasDeath(wire[s], x) \/ m = Death(x)
          /\ \A S : Keeps(wire'[s], S) <=> Keeps(wire[s], S) /\ (m.kind = "filter" => S \subseteq m.keep)
      <4>1. wire[s] \in Seq(Command)
        BY DEF TypeOK
      <4>2. /\ Append(wire[s], m) # << >>
            /\ \A x : HasDeath(Append(wire[s], m), x) <=> HasDeath(wire[s], x) \/ m = Death(x)
            /\ \A S : Keeps(Append(wire[s], m), S)
                        <=> Keeps(wire[s], S) /\ (m.kind = "filter" => S \subseteq m.keep)
            /\ wire[s] # << >> => Head(Append(wire[s], m)) = Head(wire[s])
        BY <3>2, <4>1, Sent
      <4> QED BY <3>4, <4>2
    <3>7. Keeps(wire'[s], roster[s] \ out[s])
      BY <1>0, <3>2, <3>6 DEF Wired
    <3>8. \A x : HasDeath(wire'[s], x) <=> HasDeath(wire[s], x)
      BY <3>3, <3>6
    <3>9. Wired(s)'
      BY <1>0, <2>1, <3>1, <3>6, <3>7, <3>8 DEF Wired
    <3> QED BY <3>5, <3>9
  <2>7. CASE GameEnds(s)
    <3>1. UNCHANGED <<wire, roster, out>> /\ play' = [play EXCEPT ![s] = "ended"]
      BY <2>7 DEF GameEnds
    <3>2. play'[s] = "ended" /\ \A t \in Stream \ {s} : play'[t] = play[t]
      BY <3>1 DEF TypeOK
    <3>3. Wired(s)'
      BY <1>0, <2>1, <3>1, <3>2 DEF Wired
    <3>4. \A t \in Stream \ {s} : Wired(t)'
      BY <1>0, <2>1, <3>1, <3>2 DEF Wired
    <3> QED BY <3>3, <3>4
  <2>8. CASE StreamFails(s)
    <3>1. PICK n \in 0 .. Len(wire[s]) :
            /\ UNCHANGED <<roster, out>> /\ play' = [play EXCEPT ![s] = "failed"]
            /\ wire' = [wire EXCEPT ![s] = SubSeq(@, 1, n)]
      BY <2>8 DEF StreamFails
    <3>2. /\ \A t \in Stream \ {s} : wire'[t] = wire[t] /\ play'[t] = play[t]
          /\ wire'[s] = SubSeq(wire[s], 1, n) /\ play'[s] = "failed"
      BY <3>1 DEF TypeOK
    <3>3. /\ \A c : HasDeath(wire'[s], c) => HasDeath(wire[s], c)
          /\ \A S : Keeps(wire[s], S) => Keeps(wire'[s], S)
      BY <3>2, Cut DEF TypeOK
    <3>4. Wired(s)'
      BY <1>0, <2>1, <3>1, <3>2, <3>3 DEF Wired
    <3>5. \A t \in Stream \ {s} : Wired(t)'
      BY <1>0, <2>1, <3>1, <3>2 DEF Wired
    <3> QED BY <3>4, <3>5
  <2>9. ASSUME NEW t \in Stream, Reopen(s, t) PROVE \A u \in Stream : Wired(u)'
    <3> DEFINE lit == roster[t] \ out[t]
    <3>1. /\ play[s] = "none" /\ play[t] = "failed"
          /\ play' = [play EXCEPT ![s] = "running", ![t] = "ended"]
          /\ roster' = [roster EXCEPT ![s] = roster[t]] /\ out' = [out EXCEPT ![s] = out[t]]
          /\ wire' = [wire EXCEPT ![s] = IF out[t] = {} THEN <<Config(lit)>>
                                                          ELSE <<Config(lit), Filter(lit)>>]
      BY <2>9 DEF Reopen
    <3>2. s # t /\ phase[s] = "new"
      BY <3>1 DEF StreamInv
    <3>3. /\ roster'[s] = roster[t] /\ out'[s] = out[t] /\ play'[t] = "ended"
          /\ wire'[s] \in {<<Config(lit)>>, <<Config(lit), Filter(lit)>>}
      BY <3>1, <3>2 DEF TypeOK
    <3>4. \A u \in Stream \ {s} : roster'[u] = roster[u] /\ wire'[u] = wire[u] /\ out'[u] = out[u]
      BY <3>1 DEF TypeOK
    <3>5. \A u \in Stream \ {s, t} : play'[u] = play[u]
      BY <3>1 DEF TypeOK
    <3>6. \A u \in Stream \ {s, t} : Wired(u)'
      BY <1>0, <2>1, <3>4, <3>5 DEF Wired
    <3>7. Wired(t)'
      BY <1>0, <2>1, <3>2, <3>3, <3>4 DEF Wired
    <3>8. lit \in SUBSET Controller
      BY DEF TypeOK
    <3>9. roster'[s] \ out'[s] = lit /\ out'[s] \cap lit = {}
      BY <3>3
    <3> HIDE DEF lit
    <3>10. /\ wire'[s] # << >> /\ Head(wire'[s]).kind = "config" /\ Head(wire'[s]).lit = lit
           /\ \A c : ~HasDeath(wire'[s], c)
           /\ Keeps(wire'[s], lit)
      <4>1. Config(lit).kind = "config" /\ Config(lit).lit = lit
        BY DEF Config
      <4>2. /\ wire'[s] # << >> /\ Head(wire'[s]) = Config(lit)
            /\ \A c : ~HasDeath(wire'[s], c)
        BY <3>3, <3>8, Openings
      <4>3. Keeps(wire'[s], lit)
        BY <3>3, <3>8, Openings
      <4> QED BY <4>1, <4>2, <4>3
    <3>11. Wired(s)'
      BY <2>1, <3>2, <3>9, <3>10 DEF Wired
    <3> QED BY <3>6, <3>7, <3>11
  <2> QED BY <1>9, <2>2, <2>3, <2>5, <2>6, <2>7, <2>8, <2>9 DEF GameStep
<1> QED BY Steps, <1>2, <1>3, <1>4, <1>5, <1>6, <1>7, <1>8, <1>9

-----------------------------------------------------------------------------
(* What a player shows                                                     *)

Shows(s, c) ==
  /\ c \notin out[s] => base[c] = s /\ (c \in tracked \cap routed => want[c] = s)
  /\ c \in out[s] /\ ~HasDeath(wire[s], c) =>
       /\ c \notin refused[s] => base[c] = "off"
       /\ c \in tracked /\ (c \in refused[s] => "lit" \notin slipped[c]) => want[c] \notin Stream

\* LitInv and DarkInv say what every player of an open stream of a running game shows.
LEMMA ShowsParts ==
  ASSUME TypeOK
  PROVE  LitInv /\ DarkInv <=>
           \A s \in Stream : phase[s] = "open" /\ play[s] = "running" =>
             \A c \in roster[s] : Shows(s, c)
BY DEF LitInv, DarkInv, Shows, HasDeath, DeathSent, TypeOK

\* A player whose game, colours and presence stay as they are shows what it showed.
LEMMA ShowsSame ==
  ASSUME NEW s \in Stream, NEW c, Shows(s, c),
         c \in out'[s] <=> c \in out[s], HasDeath(wire'[s], c) <=> HasDeath(wire[s], c),
         c \in refused'[s] <=> c \in refused[s], base'[c] = base[c],
         c \in tracked' => /\ c \in tracked
                           /\ "lit" \in slipped[c] => "lit" \in slipped'[c]
                           /\ \/ want'[c] = want[c] /\ (c \in routed' => c \in routed)
                              \/ want'[c] \notin Stream /\ c \notin routed'
  PROVE  Shows(s, c)'
<1>1. Shows(s, c)' <=>
        /\ c \notin out'[s] => base'[c] = s /\ (c \in tracked' \cap routed' => want'[c] = s)
        /\ c \in out'[s] /\ ~HasDeath(wire'[s], c) =>
             /\ c \notin refused'[s] => base'[c] = "off"
             /\ c \in tracked' /\ (c \in refused'[s] => "lit" \notin slipped'[c])
                  => want'[c] \notin Stream
  BY DEF Shows, HasDeath
<1> QED BY <1>1 DEF Shows

\* What the game at the other end does, a player either does not notice, or is out by it.
LEMMA GameLeaves ==
  ASSUME TypeOK, StreamInv, NEW x \in Stream, GameStep(x),
         NEW s \in Stream, phase[s] = "open", play'[s] = "running"
  PROVE  /\ play[s] = "running" /\ roster'[s] = roster[s]
         /\ \A c \in Controller :
              \/ c \in out'[s] /\ HasDeath(wire'[s], c)
              \/ /\ c \in out'[s] <=> c \in out[s]
                 /\ HasDeath(wire'[s], c) <=> HasDeath(wire[s], c)
<1>1. roster'[s] = roster[s]
  BY RosterKept
<1> DEFINE Left == \A c \in Controller :
                     \/ c \in out'[s] /\ HasDeath(wire'[s], c)
                     \/ /\ c \in out'[s] <=> c \in out[s]
                        /\ HasDeath(wire'[s], c) <=> HasDeath(wire[s], c)
<1>2. ASSUME out'[s] = out[s], wire'[s] = wire[s] PROVE Left
  BY <1>2
<1> HIDE DEF Left
<1>3. ASSUME NewGame(x) PROVE play[s] = "running" /\ Left
  <2>1. /\ play[x] = "none" /\ out' = out /\ play' = [play EXCEPT ![x] = "running"]
        /\ \E q : wire' = [wire EXCEPT ![x] = q]
    BY <1>3 DEF NewGame
  <2>2. x # s
    BY <2>1 DEF StreamInv
  <2> QED BY <1>2, <2>1, <2>2 DEF TypeOK
<1>4. ASSUME GameBegins(x) PROVE play[s] = "running" /\ Left
  <2>1. UNCHANGED <<play, out, wire>>
    BY <1>4 DEF GameBegins
  <2> QED BY <1>2, <2>1
<1>5. ASSUME GameFilters(x) PROVE play[s] = "running" /\ Left
  <2> DEFINE m == Filter(roster[x] \ out[x])
  <2>1. UNCHANGED <<play, out>> /\ wire' = [wire EXCEPT ![x] = Append(@, m)]
    BY <1>5 DEF GameFilters
  <2>2. m \in Command /\ wire[x] \in Seq(Command) /\ DOMAIN wire = Stream
    BY Commands DEF TypeOK
  <2>3. \A c : m # Death(c)
    BY DEF Filter, Death
  <2> HIDE DEF m
  <2>4. \A c : HasDeath(Append(wire[x], m), c) <=> HasDeath(wire[x], c) \/ m = Death(c)
    BY <2>2, Sent
  <2>5. \A c : HasDeath(Append(wire[x], m), c) <=> HasDeath(wire[x], c)
    BY <2>3, <2>4
  <2>6. CASE x = s
    <3>1. wire'[s] = Append(wire[x], m)
      BY <2>1, <2>2, <2>6
    <3> QED BY <2>1, <2>5, <2>6, <3>1 DEF Left
  <2>7. CASE x # s
    BY <1>2, <2>1, <2>2, <2>7
  <2> QED BY <2>6, <2>7
<1>6. ASSUME GameEnds(x) PROVE play[s] = "running" /\ Left
  <2>1. UNCHANGED <<out, wire>> /\ play' = [play EXCEPT ![x] = "ended"]
    BY <1>6 DEF GameEnds
  <2> QED BY <1>2, <2>1 DEF TypeOK
<1>7. ASSUME StreamFails(x) PROVE play[s] = "running" /\ Left
  <2>1. /\ out' = out /\ play' = [play EXCEPT ![x] = "failed"]
        /\ \E q : wire' = [wire EXCEPT ![x] = q]
    BY <1>7 DEF StreamFails
  <2>2. x # s
    BY <2>1 DEF TypeOK
  <2> QED BY <1>2, <2>1, <2>2 DEF TypeOK
<1>8. ASSUME NEW d \in Controller, GameHandles(x, d) \/ GameKills(x, d)
      PROVE  play[s] = "running" /\ Left
  <2>1. play' = play /\ (Out(x, d) \/ UNCHANGED <<out, wire>>)
    BY <1>8 DEF GameHandles, GameKills
  <2>2. CASE UNCHANGED <<out, wire>>
    BY <1>2, <2>1, <2>2
  <2>3. CASE Out(x, d)
    <3>1. /\ out' = [out EXCEPT ![x] = @ \cup {d}]
          /\ wire' = [wire EXCEPT ![x] = Append(@, Death(d))]
      BY <2>3 DEF Out
    <3>2. /\ wire[x] \in Seq(Command) /\ DOMAIN wire = Stream /\ DOMAIN out = Stream
          /\ Death(d) \in Command
      BY Commands DEF TypeOK
    <3>3. \A c : HasDeath(Append(wire[x], Death(d)), c) <=> HasDeath(wire[x], c) \/ Death(d) = Death(c)
      BY <3>2, Sent
    <3>4. \A c : Death(d) = Death(c) <=> c = d
      BY DEF Death
    <3>5. CASE x = s
      <4>1. out'[s] = out[s] \cup {d} /\ wire'[s] = Append(wire[x], Death(d))
        BY <3>1, <3>2, <3>5
      <4> QED BY <2>1, <3>3, <3>4, <3>5, <4>1 DEF Left
    <3>6. CASE x # s
      BY <1>2, <2>1, <3>1, <3>2, <3>6
    <3> QED BY <3>5, <3>6
  <2> QED BY <2>1, <2>2, <2>3
<1>9. ASSUME NEW t \in Stream, Reopen(x, t) PROVE play[s] = "running" /\ Left
  <2>1. /\ play[x] = "none" /\ play' = [play EXCEPT ![x] = "running", ![t] = "ended"]
        /\ \E q : wire' = [wire EXCEPT ![x] = q]
        /\ \E q : out' = [out EXCEPT ![x] = q]
    BY <1>9 DEF Reopen
  <2>2. x # s
    BY <2>1 DEF StreamInv
  <2>3. t # s
    BY <2>1 DEF TypeOK
  <2>4. play'[s] = play[s] /\ wire'[s] = wire[s] /\ out'[s] = out[s]
    BY <2>1, <2>2, <2>3 DEF TypeOK
  <2> QED BY <1>2, <2>4
<1>10. play[s] = "running" /\ Left
  BY <1>3, <1>4, <1>5, <1>6, <1>7, <1>8, <1>9 DEF GameStep
<1> QED BY <1>1, <1>10 DEF Left

\* LitInv and DarkInv survive every step.
LEMMA ShowsStep ==
  ASSUME TypeOK, TypeOK', RouteInv, StreamInv, SharedInv, WireInv, LitInv, DarkInv, Next
  PROVE  LitInv' /\ DarkInv'
<1>0. \A s \in Stream : phase[s] = "open" /\ play[s] = "running" =>
        \A c \in roster[s] : Shows(s, c)
  BY ShowsParts
<1> SUFFICES ASSUME NEW s \in Stream, phase'[s] = "open", play'[s] = "running",
                    NEW c \in roster'[s]
             PROVE  Shows(s, c)'
  BY DEF LitInv, DarkInv, Shows, HasDeath, DeathSent, TypeOK
<1>1. c \in Controller
  BY DEF TypeOK
<1>2. /\ slipped \in [Controller -> SUBSET {"lit", "late", "claim"}]
      /\ want \in [Controller -> Lamp] /\ base \in [Controller -> Lamp]
      /\ DOMAIN wire = Stream /\ DOMAIN phase = Stream /\ DOMAIN refused = Stream
      /\ wire \in [Stream -> Seq(Command)]
  BY DEF TypeOK
<1>3. ASSUME UNCHANGED <<phase, play, roster, out, wire, refused>>
      PROVE  /\ Shows(s, c) /\ GoesOn(s)
             /\ c \in out'[s] <=> c \in out[s]
             /\ HasDeath(wire'[s], c) <=> HasDeath(wire[s], c)
             /\ c \in refused'[s] <=> c \in refused[s]
  BY <1>0, <1>3 DEF GoesOn
<1>4. ASSUME PassLists PROVE Shows(s, c)'
  <2>1. /\ UNCHANGED <<phase, play, roster, out, wire, refused, base, tracked, slipped>>
        /\ pass.step = "idle"
        /\ want' = [x \in Controller |-> IF x \in routed' \cup held THEN want[x] ELSE None]
    BY <1>4 DEF PassLists, streams, game, history
  <2>2. c \in tracked => c \in routed
    BY <2>1 DEF RouteInv
  <2>3. \/ want'[c] = want[c]
        \/ want'[c] = None /\ c \notin routed'
    BY <1>1, <2>1
  <2> QED BY <1>3, <2>1, <2>2, <2>3, ShowsSame, NotAGames
<1>5. ASSUME PassDrops PROVE Shows(s, c)'
  <2>1. PICK lost \in SUBSET tracked, mute \in SUBSET Controller :
          /\ mute \subseteq lost /\ tracked' = tracked \ lost
          /\ want' = [x \in Controller |-> IF x \in mute THEN None ELSE want[x]]
          /\ slipped' = [x \in Controller |->
                           IF x \notin lost THEN slipped[x]
                           ELSE (slipped[x] \ {"claim", "late"})
                                  \cup (IF LeftLit(x) THEN {"late"} ELSE {})]
    BY <1>5, Drops
  <2>2. UNCHANGED <<phase, play, roster, out, wire, refused, base, routed>>
    BY <1>5 DEF PassDrops, streams, game
  <2>3. c \in tracked' => c \in tracked /\ want'[c] = want[c] /\ slipped'[c] = slipped[c]
    BY <1>1, <2>1
  <2> QED BY <1>3, <2>2, <2>3, ShowsSame
<1>6. ASSUME NEW x \in Controller, PassEnds \/ LinkMoves(x) \/ IdentStep(x) PROVE Shows(s, c)'
  <2>1. /\ UNCHANGED <<phase, play, roster, out, wire, refused, base, routed, want, tracked>>
        /\ "lit" \in slipped'[c] <=> "lit" \in slipped[c]
    BY <1>1, <1>6, IdentStepKeeps DEF PassEnds, LinkMoves, streams, game, history, backend, manager
  <2> QED BY <1>3, <2>1, ShowsSame
<1>7. ASSUME NEW x \in Controller, LobbyPaints(x) PROVE Shows(s, c)'
  <2>1. /\ UNCHANGED <<phase, play, roster, out, wire, refused, routed, tracked, slipped>>
        /\ \A t \in Stream : GoesOn(t) => x \notin roster[t]
        /\ base' = [base EXCEPT ![x] = "lobby"] /\ Written([y \in {x} |-> "lobby"], want)
    BY <1>7 DEF LobbyPaints, streams, game, history
  <2>2. c # x
    BY <1>3, <2>1
  <2>3. base'[c] = base[c] /\ want'[c] = want[c]
    BY <1>1, <2>1, <2>2 DEF Written
  <2> QED BY <1>3, <2>1, <2>3, ShowsSame
<1>8. ASSUME NEW x \in Controller, PassRegisters(x) PROVE Shows(s, c)'
  <2>1. UNCHANGED <<phase, play, roster, out, wire, refused, routed, base, handed, alive>>
    BY <1>8, Registers DEF streams, game
  <2>2. CASE UNCHANGED <<tracked, want, slipped>>
    BY <1>3, <2>1, <2>2, ShowsSame
  <2>3. ASSUME tracked' = tracked \cup {x},
               \A y \in Controller \ {x} : want'[y] = want[y] /\ slipped'[y] = slipped[y],
               ReconnectColor(x) # None => want'[x] = ReconnectColor(x),
               \/ "lit" \in slipped'[x]
               \/ \A t \in Stream : x \in refused[t] => x \in handed[t] \ alive[t]
        PROVE  Shows(s, c)'
    <3>1. CASE c # x
      BY <1>1, <1>3, <2>1, <2>3, <3>1, ShowsSame
    <3>2. CASE c = x /\ c \notin out[s]
      <4>1. base[c] = s
        BY <1>3, <2>1, <3>2 DEF Shows
      <4>2. ASSUME NEW t \in Stream, phase[t] = "open", c \in roster[t] PROVE c \in alive[t]
        <5>1. c \in roster[t] \ out[t]
          <6>1. CASE t = s
            BY <3>2, <4>2, <6>1
          <6>2. CASE t # s
            BY <1>3, <2>1, <3>2, <4>2, <6>2 DEF SharedInv, Present
          <6> QED BY <6>1, <6>2
        <5> QED BY <4>2, <5>1 DEF WireInv
      <4>3. ReconnectColor(c) = s
        BY <4>1, <4>2 DEF ReconnectColor, OutOfGame
      <4>4. want'[c] = s
        BY <2>3, <3>2, <4>3, NotAGames
      <4> QED BY <2>1, <3>2, <4>1, <4>4 DEF Shows
    <3>3. CASE c = x /\ c \in out[s] /\ ~HasDeath(wire[s], c)
      <4>1. c \notin refused[s] => base[c] = "off"
        BY <1>3, <2>1, <3>3 DEF Shows
      <4>2. ReconnectColor(c) \in {"off", base[c]}
        BY DEF ReconnectColor
      <4>3. c \notin refused[s] => want'[c] = "off"
        BY <2>3, <3>3, <4>1, <4>2, NotAGames
      <4>4. ASSUME c \in refused[s], "lit" \notin slipped'[c] PROVE want'[c] = "off"
        <5>1. c \in handed[s] \ alive[s]
          BY <2>3, <3>3, <4>4
        <5>2. OutOfGame(c)
          BY <2>1, <5>1 DEF OutOfGame
        <5>3. ReconnectColor(c) = "off"
          BY <5>2 DEF ReconnectColor
        <5> QED BY <2>3, <3>3, <5>3, NotAGames
      <4> QED BY <2>1, <3>3, <4>1, <4>3, <4>4, NotAGames DEF Shows
    <3>4. CASE c = x /\ c \in out[s] /\ HasDeath(wire[s], c)
      BY <2>1, <3>4 DEF Shows, HasDeath
    <3> QED BY <3>1, <3>2, <3>3, <3>4
  <2> QED BY <1>8, <2>2, <2>3, Registers
<1>9. ASSUME NEW x \in Stream, Claims(x) PROVE Shows(s, c)'
  <2>1. /\ UNCHANGED <<play, roster, out, wire, refused, base, routed, want, tracked>>
        /\ phase' = [phase EXCEPT ![x] = "claiming"]
        /\ slipped' = [y \in Controller |-> IF y \in Claimed(x) THEN slipped[y] \ {"claim"}
                                            ELSE slipped[y]]
    BY <1>9 DEF Claims, Claim, game, backend, manager
  <2>2. phase[s] = "open"
    BY <1>2, <2>1
  <2>3. Shows(s, c)
    BY <1>0, <2>1, <2>2
  <2>4. "lit" \in slipped'[c] <=> "lit" \in slipped[c]
    BY <1>1, <2>1
  <2> QED BY <2>1, <2>3, <2>4, ShowsSame
<1>10. ASSUME NEW x \in Stream, Opens(x) PROVE Shows(s, c)'
  <2>1. /\ UNCHANGED <<routed, tracked, play, roster, out, refused, slipped>>
        /\ wire[x] # << >> /\ Head(wire[x]).kind = "config" /\ phase[x] \in {"new", "claiming"}
        /\ wire' = [wire EXCEPT ![x] = Tail(@)] /\ phase' = [phase EXCEPT ![x] = "open"]
        /\ c \in roster[x] /\ c \in Head(wire[x]).lit => base'[c] = x
        /\ c \in roster[x] /\ c \notin Head(wire[x]).lit => base'[c] = "off"
        /\ c \notin roster[x] => base'[c] = base[c]
        /\ c \in roster[x] \cap tracked => want'[c] = base'[c]
        /\ c \notin roster[x] \cap tracked => want'[c] = want[c]
    BY <1>1, <1>10, Opened
  <2>2. CASE x = s
    <3>1. wire'[s] = Tail(wire[s])
      BY <1>2, <2>1, <2>2
    <3>2. HasDeath(wire[s], c) <=> HasDeath(wire'[s], c)
      <4>1. HasDeath(wire[s], c) <=> HasDeath(Tail(wire[s]), c) \/ Head(wire[s]) = Death(c)
        BY <1>2, <2>1, <2>2, Taken
      <4>2. Head(wire[s]) # Death(c)
        BY <2>1, <2>2 DEF Death
      <4> QED BY <3>1, <4>1, <4>2
    <3>3. /\ roster[s] \ out[s] \subseteq Head(wire[s]).lit
          /\ c \in out[s] \cap Head(wire[s]).lit => HasDeath(wire[s], c)
      <4>1. phase[s] \in {"new", "claiming"} /\ play[s] = "running"
        BY <2>1, <2>2
      <4> QED BY <1>1, <4>1 DEF WireInv, HasDeath, DeathSent
    <3>4. c \in roster[s]
      BY <2>1
    <3>5. CASE c \notin out[s]
      <4>1. base'[c] = s /\ (c \in tracked => want'[c] = s)
        BY <2>1, <2>2, <3>3, <3>4, <3>5
      <4> QED BY <2>1, <3>5, <4>1 DEF Shows
    <3>6. CASE c \in out[s] /\ ~HasDeath(wire[s], c)
      <4>1. base'[c] = "off" /\ (c \in tracked => want'[c] = "off")
        BY <2>1, <2>2, <3>3, <3>4, <3>6
      <4> QED BY <2>1, <3>6, <4>1, NotAGames DEF Shows
    <3>7. CASE c \in out[s] /\ HasDeath(wire[s], c)
      BY <2>1, <3>2, <3>7 DEF Shows, HasDeath
    <3> QED BY <3>5, <3>6, <3>7
  <2>3. CASE x # s
    <3>1. phase[s] = "open" /\ wire'[s] = wire[s]
      BY <1>2, <2>1, <2>3
    <3>2. Shows(s, c) /\ GoesOn(s)
      BY <1>0, <2>1, <3>1 DEF GoesOn
    <3>3. c \notin roster[x]
      BY <2>1, <2>3, <3>2, Apart
    <3> QED BY <2>1, <3>1, <3>2, <3>3, ShowsSame
  <2> QED BY <2>2, <2>3
<1>11. ASSUME NEW x \in Stream, Dies(x) PROVE Shows(s, c)'
  <2>1. PICK d \in out[x] :
          /\ Head(wire[x]) = Death(d) /\ wire' = [wire EXCEPT ![x] = Tail(@)]
          /\ wire[x] # << >> /\ d \in roster[x] /\ phase[x] = "open"
          /\ UNCHANGED <<routed, tracked, phase, play, roster, out>>
          /\ \/ /\ d \in tracked /\ base' = [base EXCEPT ![d] = "off"]
                /\ want' = [want EXCEPT ![d] = "off"]
                /\ slipped' = [slipped EXCEPT ![d] = @ \ {"claim"}] /\ refused' = refused
             \/ /\ d \notin tracked /\ refused' = [refused EXCEPT ![x] = @ \cup {d}]
                /\ UNCHANGED <<base, want, slipped>>
    BY <1>11, Deaths DEF streams
  <2>2. Shows(s, c) /\ GoesOn(s) /\ d \in Controller
    BY <1>0, <2>1 DEF GoesOn, TypeOK
  <2>3. CASE c # d
    <3>1. base'[c] = base[c] /\ want'[c] = want[c] /\ slipped'[c] = slipped[c]
      BY <1>1, <1>2, <2>1, <2>2, <2>3
    <3>2. c \in refused'[s] <=> c \in refused[s]
      BY <1>2, <2>1, <2>3
    <3>3. HasDeath(wire'[s], c) <=> HasDeath(wire[s], c)
      <4>1. CASE x = s
        <5>1. HasDeath(wire[s], c) <=> HasDeath(Tail(wire[s]), c) \/ Head(wire[s]) = Death(c)
          BY <1>2, <2>1, <4>1, Taken
        <5>2. Head(wire[s]) # Death(c)
          BY <2>1, <2>3, <4>1 DEF Death
        <5>3. wire'[s] = Tail(wire[s])
          BY <1>2, <2>1, <4>1
        <5> QED BY <5>1, <5>2, <5>3
      <4>2. CASE x # s
        BY <1>2, <2>1, <4>2
      <4> QED BY <4>1, <4>2
    <3> QED BY <2>1, <2>2, <3>1, <3>2, <3>3, ShowsSame
  <2>4. CASE c = d
    <3>1. x = s
      <4>1. c \in roster[s] /\ c \in roster[x]
        BY <2>1, <2>4
      <4>2. phase[x] # "closed"
        BY <2>1
      <4> QED BY <2>1, <2>2, <4>1, <4>2, Apart
    <3>2. c \in out'[s]
      BY <2>1, <2>4, <3>1
    <3>3. CASE d \in tracked
      <4>1. base'[c] = "off" /\ want'[c] = "off"
        BY <1>1, <1>2, <2>1, <2>4, <3>3
      <4> QED BY <3>2, <4>1, NotAGames DEF Shows
    <3>4. CASE d \notin tracked
      <4>1. c \in refused'[s] /\ c \notin tracked'
        BY <1>2, <2>1, <2>4, <3>1, <3>4
      <4> QED BY <3>2, <4>1 DEF Shows
    <3> QED BY <3>3, <3>4
  <2> QED BY <2>3, <2>4
<1>12. ASSUME NEW x \in Stream, Filters(x) PROVE Shows(s, c)'
  <2>1. /\ UNCHANGED <<phase, play, roster, out, refused, base, routed, want, tracked, slipped>>
        /\ wire[x] # << >> /\ Head(wire[x]).kind = "filter"
        /\ wire' = [wire EXCEPT ![x] = Tail(@)]
    BY <1>12 DEF Filters, backend, manager, history
  <2>2. HasDeath(wire'[s], c) <=> HasDeath(wire[s], c)
    <3>1. CASE x = s
      <4>1. HasDeath(wire[s], c) <=> HasDeath(Tail(wire[s]), c) \/ Head(wire[s]) = Death(c)
        BY <1>2, <2>1, <3>1, Taken
      <4>2. Head(wire[s]) # Death(c)
        BY <2>1, <3>1 DEF Death
      <4>3. wire'[s] = Tail(wire[s])
        BY <1>2, <2>1, <3>1
      <4> QED BY <4>1, <4>2, <4>3
    <3>2. CASE x # s
      BY <1>2, <2>1, <3>2
    <3> QED BY <3>1, <3>2
  <2>3. Shows(s, c)
    BY <1>0, <2>1
  <2> QED BY <2>1, <2>2, <2>3, ShowsSame
<1>13. ASSUME NEW x \in Stream, Frame(x) PROVE Shows(s, c)'
  <2>1. UNCHANGED <<phase, play, roster, out, wire, refused, base, routed, want, tracked, slipped>>
    BY <1>13 DEF Frame, backend
  <2> QED BY <1>3, <2>1, ShowsSame
<1>14. ASSUME NEW x \in Stream, Release(x) PROVE Shows(s, c)'
  <2>1. /\ UNCHANGED <<play, roster, out, wire, routed, tracked, slipped>>
        /\ phase' = [phase EXCEPT ![x] = "closed"] /\ refused' = [refused EXCEPT ![x] = {}]
    BY <1>14 DEF Release, game
  <2>2. x # s
    BY <1>2, <2>1
  <2>3. phase[s] = "open" /\ refused'[s] = refused[s]
    BY <1>2, <2>1, <2>2
  <2>4. Shows(s, c)
    BY <1>0, <2>1, <2>3
  <2>5. c \notin Forgotten(x)
    BY <2>1, <2>2, <2>3 DEF Forgotten
  <2>6. base'[c] = base[c] /\ want'[c] = want[c]
    BY <1>1, <1>14, <2>5 DEF Release, DropOutput
  <2> QED BY <2>1, <2>3, <2>4, <2>6, ShowsSame
<1>15. ASSUME NEW x \in Stream, GameStep(x) PROVE Shows(s, c)'
  <2>1. UNCHANGED <<phase, base, want, routed, tracked, slipped, refused>>
    BY <1>15, GameStepKeeps DEF streams, backend, manager
  <2>2. /\ play[s] = "running" /\ roster'[s] = roster[s]
        /\ \/ c \in out'[s] /\ HasDeath(wire'[s], c)
           \/ /\ c \in out'[s] <=> c \in out[s]
              /\ HasDeath(wire'[s], c) <=> HasDeath(wire[s], c)
    BY <1>1, <1>15, <2>1, GameLeaves
  <2>3. Shows(s, c)
    BY <1>0, <2>1, <2>2
  <2>4. CASE c \in out'[s] /\ HasDeath(wire'[s], c)
    BY <2>4 DEF Shows, HasDeath
  <2>5. CASE /\ c \in out'[s] <=> c \in out[s]
             /\ HasDeath(wire'[s], c) <=> HasDeath(wire[s], c)
    BY <2>1, <2>3, <2>5, ShowsSame
  <2> QED BY <2>2, <2>4, <2>5
<1> QED BY Steps, <1>1, <1>4, <1>5, <1>6, <1>7, <1>8, <1>9, <1>10, <1>11, <1>12, <1>13, <1>14, <1>15

-----------------------------------------------------------------------------
(* The theorems                                                            *)

\* LinksInv is inductive together with what waits for a stream and what is forgotten.
Kept == LinksInv /\ HandedOnce /\ GameColourForgotten

\* It holds at first.
LEMMA KeptInit == Init => Kept
<1> SUFFICES ASSUME Init PROVE Kept
  OBVIOUS
<1>1. TypeOK
  BY LinksAssumption DEF Init, TypeOK, Lamp
<1>2. /\ KnownInv /\ RouteInv /\ NothingSentWhileAway /\ ColourInv
  BY NotAGames DEF Init, KnownInv, Collected, RouteInv, NothingSentWhileAway, Sends, ColourInv
<1>3. /\ AwayIsOut /\ ClaimInv /\ NoIdentifyInGame /\ StreamInv /\ SharedInv /\ LitInv /\ DarkInv
  BY DEF Init, AwayIsOut, ClaimInv, NoIdentifyInGame, InGame, StreamInv, SharedInv, GoesOn,
     LitInv, DarkInv
<1>4. WireInv
  <2>1. \A s \in Stream : wire[s] = << >> /\ phase[s] = "new" /\ play[s] = "none"
    BY DEF Init
  <2>2. Len(<< >>) = 0 /\ 1 .. 0 = {}
    OBVIOUS
  <2> QED BY <2>1, <2>2 DEF WireInv, DeathSent
<1>5. HandedOnce /\ GameColourForgotten
  BY NotAGames DEF Init, HandedOnce, GameColourForgotten
<1> QED BY <1>1, <1>2, <1>3, <1>4, <1>5 DEF Kept, LinksInv

\* And survives every step.
LEMMA KeptStep == Kept /\ [Next]_vars => Kept'
<1> SUFFICES ASSUME Kept, [Next]_vars PROVE Kept'
  OBVIOUS
<1> USE DEF Kept, LinksInv
<1>1. CASE Next
  <2>1. TypeOK'
    BY <1>1, TypeStep
  <2>2. KnownInv' /\ HandedOnce' /\ AwayIsOut'
    BY <1>1, <2>1, KnownStep, HandedStep, AwayStep
  <2>3. RouteInv' /\ NothingSentWhileAway'
    BY <1>1, RouteStep
  <2>4. ClaimInv' /\ NoIdentifyInGame' /\ ColourInv' /\ GameColourForgotten'
    BY <1>1, <2>1, ClaimStep, ColourStep
  <2>5. StreamInv' /\ SharedInv' /\ WireInv'
    BY <1>1, <2>1, StreamStep, SharedStep, WireStep
  <2>6. LitInv' /\ DarkInv'
    BY <1>1, <2>1, ShowsStep
  <2> QED BY <2>1, <2>2, <2>3, <2>4, <2>5, <2>6
<1>2. CASE UNCHANGED vars
  <2>1. UNCHANGED <<link, backend, manager, ident, streams, game, history, moves>>
    BY <1>2 DEF vars, backend, manager, streams, game, history
  <2>2. /\ TypeOK' /\ KnownInv' /\ HandedOnce' /\ AwayIsOut' /\ RouteInv' /\ NothingSentWhileAway'
    BY <1>2 DEF vars, TypeOK, KnownInv, Collected, HandedOnce, AwayIsOut, RouteInv,
       NothingSentWhileAway, Sends
  <2>3. /\ ClaimInv' /\ NoIdentifyInGame' /\ ColourInv' /\ GameColourForgotten'
    BY <1>2 DEF vars, ClaimInv, NoIdentifyInGame, InGame, ColourInv, GameColourForgotten
  <2>4. /\ StreamInv' /\ SharedInv' /\ WireInv' /\ LitInv' /\ DarkInv'
    BY <1>2 DEF vars, StreamInv, SharedInv, GoesOn, Present, WireInv, DeathSent, LitInv, DarkInv
  <2> QED BY <2>2, <2>3, <2>4
<1> QED BY <1>1, <1>2

\* The inductive invariant holds in every reachable state: types, routes and outputs, who is
\* known, claimed and painted, and what the two ends of a stream say of one player.
THEOREM LinksHold == Spec => []LinksInv
<1>1. Kept => LinksInv
  BY DEF Kept
<1> QED BY <1>1, KeptInit, KeptStep, PTL DEF Spec

\* UC-002 BR-004: what waits for an open stream is exactly what it is still owed, so each
\* disconnect is handed to it once, whichever stream's frame emptied the queue.
THEOREM EachHandedOnce == Spec => []HandedOnce
<1>1. Kept => HandedOnce
  BY DEF Kept
<1> QED BY <1>1, KeptInit, KeptStep, PTL DEF Spec

\* UC-002 BR-008: a controller that is away when its game's streams close keeps no colour of
\* that game.
THEOREM ColourForgotten == Spec => []GameColourForgotten
<1>1. Kept => GameColourForgotten
  BY DEF Kept
<1> QED BY <1>1, KeptInit, KeptStep, PTL DEF Spec

\* UC-002 BR-008: a connected player its game counts as alive shows its game's colour.
THEOREM LivePlayersLit == Spec => []LivePlayerLit
<1>1. LinksInv => LivePlayerLit
  BY DEF LinksInv, LitInv, LivePlayerLit, Quiet
<1> QED BY <1>1, LinksHold, PTL

\* UC-002 BR-008: a player that is out does not get its game colour back by reconnecting.
THEOREM OutStaysDark == Spec => []OutStaysOut
<1>1. LinksInv => OutStaysOut
  <2> SUFFICES ASSUME LinksInv, NEW s \in Stream, Quiet(s), NEW c \in out[s] \cap tracked,
                      "lit" \notin slipped[c]
               PROVE  want[c] \notin Stream
    BY DEF OutStaysOut
  <2>1. ~DeathSent(s, c)
    <3>1. wire[s] = << >>
      BY DEF Quiet
    <3>2. Len(<< >>) = 0 /\ 1 .. 0 = {}
      OBVIOUS
    <3> QED BY <3>1, <3>2 DEF DeathSent
  <2> QED BY <2>1 DEF LinksInv, DarkInv, Quiet
<1> QED BY <1>1, LinksHold, PTL
=============================================================================
