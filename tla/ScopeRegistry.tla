--------------------------- MODULE ScopeRegistry ---------------------------
(***************************************************************************)
(* The flag service's registry of live game scopes                         *)
(* (services/flag-service/state/games.go): which games are registered, and *)
(* which coordinator instance holds each.  Every operation runs under the  *)
(* state's mutex, so it is one action; its caller may be any instance.     *)
(*                                                                         *)
(* The age of a scope is abstracted to whether it has passed the maximum   *)
(* game age; its serials and values go with the scope and are left out.    *)
(***************************************************************************)
EXTENDS Integers, FiniteSets

CONSTANTS
  Instance,   \* coordinator instance ids
  Game,       \* game ids
  None,       \* the holder of a game that is not registered
  MaxGames,   \* FLAG_SERVICE_MAX_GAMES
  MaxBoots    \* bound: how often the service starts

ASSUME RegistryAssumption ==
  /\ None \notin Instance
  /\ IsFiniteSet(Game)
  /\ MaxGames \in Nat
  /\ MaxBoots \in Nat

VARIABLES
  scope,      \* the instance that registered each game, or None
  aged,       \* the scopes not seen for the maximum game age
  epoch       \* the boot epoch of the service

registryVars == <<scope, aged, epoch>>

\* The registered games of a registry sc.
Scopes(sc) == {g \in Game : sc[g] # None}

\* The age belongs to the registration: a game that is not registered has none,
\* so a later registration of it never inherits the age of an earlier one.
RegistryTypeOK ==
  /\ scope \in [Game -> Instance \cup {None}]
  /\ aged \subseteq Scopes(scope)
  /\ epoch \in Nat

RegistryInit ==
  /\ scope = [g \in Game |-> None]
  /\ aged = {}
  /\ epoch = 1

-----------------------------------------------------------------------------
\* A registration is refused for a game another instance holds, and for a new
\* game at the cap.
RegisterOk(i, g) ==
  /\ scope[g] \in {None, i}
  /\ scope[g] = None => Cardinality(Scopes(scope)) < MaxGames

\* PUT /games/{g}: a refused registration changes nothing.
RegisterGame(i, g) ==
  /\ IF RegisterOk(i, g)
     THEN scope' = [scope EXCEPT ![g] = i] /\ aged' = aged \ {g}
     ELSE UNCHANGED <<scope, aged>>
  /\ UNCHANGED epoch

\* DELETE /games/{g}: whoever registered it.
EndGame(g) ==
  /\ scope' = [scope EXCEPT ![g] = None]
  /\ aged' = aged \ {g}
  /\ UNCHANGED epoch

\* The registry once instance i holds exactly the games gs.
AfterReconcile(i, gs) ==
  [g \in Game |-> IF g \in gs THEN i
                  ELSE IF scope[g] = i THEN None ELSE scope[g]]

\* A batch that names another instance's game, or that would leave more scopes
\* than the cap, is refused whole.
ReconcileOk(i, gs) ==
  /\ \A g \in gs : scope[g] \in {None, i}
  /\ Cardinality(Scopes(AfterReconcile(i, gs))) <= MaxGames

\* PUT /coordinators/{i}/games
Reconcile(i, gs) ==
  /\ IF ReconcileOk(i, gs)
     THEN /\ scope' = AfterReconcile(i, gs)
          /\ aged' = aged \ {g \in Game : g \in gs \/ scope[g] = i}
     ELSE UNCHANGED <<scope, aged>>
  /\ UNCHANGED epoch

\* The maximum game age passes without a registration or reconcile of g.
GrowOld(g) ==
  /\ scope[g] # None
  /\ aged' = aged \cup {g}
  /\ UNCHANGED <<scope, epoch>>

\* The sweep of the service: every aged scope is dropped.
ExpireGames ==
  /\ aged # {}
  /\ scope' = [g \in Game |-> IF g \in aged THEN None ELSE scope[g]]
  /\ aged' = {}
  /\ UNCHANGED epoch

\* A restarted service has a new epoch and no scopes.
Restart ==
  /\ epoch < MaxBoots
  /\ scope' = [g \in Game |-> None]
  /\ aged' = {}
  /\ epoch' = epoch + 1

RegistryNext ==
  \/ \E i \in Instance, g \in Game : RegisterGame(i, g)
  \/ \E g \in Game : EndGame(g) \/ GrowOld(g)
  \/ \E i \in Instance, gs \in SUBSET Game : Reconcile(i, gs)
  \/ ExpireGames
  \/ Restart

RegistrySpec == RegistryInit /\ [][RegistryNext]_registryVars

-----------------------------------------------------------------------------
\* The registry never holds more scopes than the cap (NFR-051), however
\* registrations and whole-set reconciles of several instances follow each
\* other (the count before a registration, the count after a reconcile).
CapKept == Cardinality(Scopes(scope)) <= MaxGames

\* A scope is never handed from one instance to another without being dropped
\* first (UC-053 A10): neither PUT nor a reconcile re-homes a game.
NeverRehomed ==
  [][\A g \in Game : scope[g] # None /\ scope'[g] # None => scope'[g] = scope[g]]_registryVars
=============================================================================
