--------------------------- MODULE AdminSettings ---------------------------
(***************************************************************************)
(* The host's admin settings in the flag service                           *)
(* (services/flag-service/state/write.go and persist.go): the in-memory    *)
(* stack overlay, the admin value beneath it, and the state file that      *)
(* keeps the admin values across restarts.  Every operation holds the      *)
(* state's mutex, so it is one action; the service may die at any point of *)
(* one, and any save of the file may fail.                                 *)
(*                                                                         *)
(* An overlay is abstracted to its presence; scopes other than the stack   *)
(* and the checks of a request come before the part modelled here.         *)
(***************************************************************************)
CONSTANTS
  Flag,        \* flag keys
  Value,       \* the values the flags may take
  KillSwitch,  \* the flags of registry.killSwitches
  Builds,      \* the releases of the service: the <<flag, value>> pairs each
               \* accepts for persistence
  NoValue,     \* no value
  Absent,      \* there is no state file
  Damaged,     \* a state file that does not parse
  Newer,       \* a state file of a later format
  Unknown,     \* history: no answer says what the file holds
  Claimed      \* history: a 204 without proof said the value is gone

ASSUME SettingsAssumption ==
  /\ KillSwitch \subseteq Flag
  /\ Builds \subseteq SUBSET (Flag \X Value)
  /\ NoValue \notin Value /\ Unknown \notin Value /\ Claimed \notin Value
  /\ NoValue # Unknown /\ NoValue # Claimed /\ Unknown # Claimed
  /\ \A x \in {Absent, Damaged, Newer} : x \notin [Flag -> Value \cup {NoValue}]
  /\ Absent # Damaged /\ Absent # Newer /\ Damaged # Newer

VARIABLES
  running,        \* the service is up
  build,          \* the pairs the running release accepts
  mode,           \* persistence: "on", "off" (no file), "blocked" (persistBlocked)
  admin,          \* the admin value of each flag in memory
  persisted,      \* the flags whose admin value carries the Persisted mark
  stack,          \* the flags with an in-memory stack overlay
  lastPersistOK,
  file,           \* the state file
  told            \* history: what the last answer for each flag says is on file

settingsVars == <<running, build, mode, admin, persisted, stack, lastPersistOK, file, told>>

Contents == [Flag -> Value \cup {NoValue}]
Nothing == [f \in Flag |-> NoValue]
Set(a) == {f \in Flag : a[f] # NoValue}

SettingsTypeOK ==
  /\ running \in BOOLEAN
  /\ build \in Builds
  /\ mode \in {"on", "off", "blocked"}
  /\ admin \in Contents
  /\ persisted \subseteq Set(admin)
  /\ stack \subseteq Flag
  /\ lastPersistOK \in BOOLEAN
  /\ file \in Contents \cup {Absent, Damaged, Newer}
  /\ told \in [Flag -> Value \cup {NoValue, Unknown, Claimed}]

SettingsInit ==
  /\ running = FALSE
  /\ build \in Builds
  /\ mode = "off"
  /\ admin = Nothing
  /\ persisted = {}
  /\ stack = {}
  /\ lastPersistOK = FALSE
  /\ file = Absent
  /\ told = [f \in Flag |-> Unknown]

-----------------------------------------------------------------------------
(* Saving and loading the state file                                       *)

\* Fault: a file that could not be read at start is written over.
SavesOverUnread(a) ==
  /\ file' = IF mode = "off" THEN file ELSE a
  /\ lastPersistOK' = (mode # "off")
  /\ persisted' = Set(a)

\* saveAdminLocked succeeds with the admin values a: all of them are on file
\* now, or persistence is off and nothing is written.
Saves(a) ==
  /\ mode # "blocked"
  /\ file' = IF mode = "on" THEN a ELSE file
  /\ lastPersistOK' = (mode = "on")
  /\ persisted' = Set(a)

\* saveAdminLocked fails: the file was not readable at start, or the write of
\* the temporary file or the rename fails and leaves the file as it was.
SaveFails ==
  /\ mode # "off"
  /\ lastPersistOK' = FALSE
  /\ UNCHANGED file

\* The entries of the file's contents c that release b restores.
Restored(c, b) ==
  [f \in Flag |-> IF c \in Contents /\ <<f, c[f]>> \in b THEN c[f] ELSE NoValue]

\* The service starts as release b over a readable file.
LoadAdmin(b) ==
  /\ mode' = IF file = Newer THEN "blocked" ELSE "on"
  /\ admin' = Restored(file, b)
  /\ persisted' = Set(Restored(file, b))
  /\ lastPersistOK' = (file \in Contents \cup {Absent})
  /\ told' = [f \in Flag |-> IF file \in Contents /\ file[f] # NoValue
                                /\ <<f, file[f]>> \notin b
                             THEN Unknown ELSE told[f]]
  /\ file' \in IF file = Damaged THEN {Absent, Damaged} ELSE {file}

\* The file exists and cannot be read, or persistence is switched off.
StartWithoutFile(m) ==
  /\ m = "blocked" => file # Absent
  /\ mode' = m
  /\ admin' = Nothing
  /\ persisted' = {}
  /\ lastPersistOK' = FALSE
  /\ UNCHANGED <<file, told>>

Start(b) ==
  /\ ~running
  /\ running' = TRUE
  /\ build' = b
  /\ stack' = {}
  /\ LoadAdmin(b) \/ \E m \in {"blocked", "off"} : StartWithoutFile(m)

-----------------------------------------------------------------------------
(* Requests                                                                *)

\* Fault: a refused write stays in memory.
RefusePutKeepingIt(f, v) ==
  /\ SaveFails
  /\ f \notin KillSwitch
  /\ admin' = [admin EXCEPT ![f] = v]
  /\ persisted' = persisted \cup {f}
  /\ stack' = stack \ {f}
  /\ UNCHANGED told

\* The save failed: the write is rolled back and answered 500.
RefusePut(f, v) ==
  /\ SaveFails
  /\ f \notin KillSwitch
  /\ UNCHANGED <<admin, persisted, stack, told>>

\* PUT with "persist": true, saved.
PutPersisted(f, v) ==
  /\ Saves([admin EXCEPT ![f] = v])
  /\ admin' = [admin EXCEPT ![f] = v]
  /\ stack' = stack \ {f}
  /\ told' = [told EXCEPT ![f] = IF lastPersistOK' THEN v ELSE Unknown]

\* Fault: the mark of a value that is in memory only is kept.
PutKillSwitchMarked(f, v) ==
  /\ SaveFails
  /\ f \in KillSwitch
  /\ admin' = [admin EXCEPT ![f] = v]
  /\ persisted' = persisted \cup {f}
  /\ stack' = stack \ {f}
  /\ told' = [told EXCEPT ![f] = Unknown]

\* A kill switch applies in memory; the answer says persisted: false.
PutKillSwitch(f, v) ==
  /\ SaveFails
  /\ f \in KillSwitch
  /\ admin' = [admin EXCEPT ![f] = v]
  /\ persisted' = persisted \ {f}
  /\ stack' = stack \ {f}
  /\ told' = [told EXCEPT ![f] = Unknown]

Put(f, v) ==
  /\ running
  /\ <<f, v>> \in build
  /\ PutPersisted(f, v) \/ PutKillSwitch(f, v) \/ RefusePut(f, v)
  /\ UNCHANGED <<running, build, mode>>

\* PUT without persist: the value goes to the stack overlay.
PutOverlay(f) ==
  /\ running
  /\ stack' = stack \cup {f}
  /\ UNCHANGED <<running, build, mode, admin, persisted, lastPersistOK, file, told>>

\* DELETE ?persist=true of an admin value: removed from memory and file; the
\* answer carries X-Flag-Persisted: true (which says nothing with persistence
\* off).
ClearPersisted(f) ==
  /\ Saves([admin EXCEPT ![f] = NoValue])
  /\ admin' = [admin EXCEPT ![f] = NoValue]
  /\ told' = [told EXCEPT ![f] = IF mode = "on" THEN NoValue ELSE Unknown]

\* A kill switch is cleared in memory only: X-Flag-Persisted: false.
ClearKillSwitch(f) ==
  /\ SaveFails
  /\ f \in KillSwitch
  /\ admin' = [admin EXCEPT ![f] = NoValue]
  /\ persisted' = persisted \ {f}
  /\ told' = [told EXCEPT ![f] = Unknown]

\* Any other value is kept and the clear is answered 500.
RefuseClear(f) ==
  /\ SaveFails
  /\ f \notin KillSwitch
  /\ UNCHANGED <<admin, persisted, told>>

\* Whether a flag takes persisted values at all (policy.Persist).
Persistable(f) == \E v \in Value : <<f, v>> \in build

\* There is no admin value to clear.  Only an unread file makes that a failure
\* (counted, X-Flag-Persisted: false or 500); otherwise a plain 204.
ClearAbsent(f) ==
  /\ UNCHANGED <<admin, persisted, file>>
  /\ IF mode = "blocked" /\ Persistable(f)
     THEN /\ lastPersistOK' = FALSE
          /\ told' = [told EXCEPT ![f] = IF f \in KillSwitch THEN Unknown ELSE @]
     ELSE /\ UNCHANGED lastPersistOK
          /\ told' = [told EXCEPT ![f] = IF mode = "off" \/ @ = NoValue THEN @ ELSE Claimed]

Clear(f) ==
  /\ running
  /\ IF admin[f] # NoValue
     THEN ClearPersisted(f) \/ ClearKillSwitch(f) \/ RefuseClear(f)
     ELSE ClearAbsent(f)
  /\ UNCHANGED <<running, build, mode, stack>>

\* DELETE without persist, ClearWriter and ExpireOverlays: overlays go, the
\* admin values beneath them stay.
DropOverlays(fs) ==
  /\ running
  /\ fs # {}
  /\ fs \subseteq stack
  /\ stack' = stack \ fs
  /\ UNCHANGED <<running, build, mode, admin, persisted, lastPersistOK, file, told>>

-----------------------------------------------------------------------------
(* Faults of the environment                                               *)

Down ==
  /\ running
  /\ running' = FALSE
  /\ admin' = Nothing
  /\ persisted' = {}
  /\ stack' = {}
  /\ mode' = "off"
  /\ lastPersistOK' = FALSE
  /\ UNCHANGED build

\* The service stops between two requests.
Stop == Down /\ UNCHANGED <<file, told>>

\* The service dies while a request for f saves the admin values a: the rename
\* has taken effect or not, and nobody gets an answer.
DieInSave(f, a) ==
  /\ mode = "on"
  /\ Down
  /\ file' = a
  /\ told' = [told EXCEPT ![f] = Unknown]

DieInPut(f, v) ==
  /\ <<f, v>> \in build
  /\ DieInSave(f, [admin EXCEPT ![f] = v])

DieInClear(f) ==
  /\ admin[f] # NoValue
  /\ DieInSave(f, [admin EXCEPT ![f] = NoValue])

\* While the service is down its file is damaged, rewritten by a later release
\* or removed.
Tamper ==
  /\ ~running
  /\ file' \in {Absent, Damaged, Newer} \ {file}
  /\ told' = [f \in Flag |-> Unknown]
  /\ UNCHANGED <<running, build, mode, admin, persisted, stack, lastPersistOK>>

SettingsNext ==
  \/ \E b \in Builds : Start(b)
  \/ \E f \in Flag, v \in Value : Put(f, v) \/ DieInPut(f, v)
  \/ \E f \in Flag : PutOverlay(f) \/ Clear(f) \/ DieInClear(f)
  \/ \E fs \in SUBSET Flag : DropOverlays(fs)
  \/ Stop
  \/ Tamper

SettingsSpec == SettingsInit /\ [][SettingsNext]_settingsVars

-----------------------------------------------------------------------------
\* What the next start of this release would restore is what the service uses
\* now, for every flag but a kill switch whose save failed (persist.go: "memory
\* and disk never disagree, except for a kill switch").
MemoryMatchesFile ==
  running /\ mode = "on" =>
    \A f \in Flag \ KillSwitch : admin[f] = Restored(file, build)[f]

\* An admin value counted as persisted is on file, kill switches included: the
\* gauge never counts a value that a restart would lose.
MarkedOnFile ==
  running /\ mode = "on" =>
    \A f \in persisted : file \in Contents /\ file[f] = admin[f]

\* The answer "persisted: true", and X-Flag-Persisted: true with a state file,
\* stay true across failed saves of this and other flags, crashes in a save,
\* unreadable starts and other releases, until the flag is written again, its
\* entry is dropped as stale with a warning, or the file itself is lost.
AnswersKept ==
  \A f \in Flag : told[f] \in Value \cup {NoValue} =>
    file \in Contents /\ file[f] = told[f]

\* A new admin value is never hidden: the host's setting takes effect at once,
\* whatever overlay was there and whether or not a save failed (UC-053 A2).
HostSettingSeen ==
  [][\A f \in Flag : running /\ admin'[f] \notin {admin[f], NoValue} => f \notin stack']_settingsVars
=============================================================================
