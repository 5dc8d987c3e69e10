----------------------------- MODULE Experiments -----------------------------
(***************************************************************************)
(* The agent's experiment registry: what an experiment goes through from   *)
(* its declaration to its end, in memory (Registry.entries), in its        *)
(* journal (one append-only file each) and on the flag service (the shadow *)
(* targeting branch its arms resolve).  Sources:                           *)
(*   services/agent/experiment/registry.go, registry_sink.go               *)
(*   services/agent/experiment/journal/journal.go, store.go                *)
(*   services/agent/experiment_loop.go, experiment_seed.go                 *)
(*                                                                         *)
(* Every entry is read and written under Registry.mu, so one locked        *)
(* section is one step; the calls made outside the lock (the targeting     *)
(* write and strip, the promoter) are steps of their own, and what a       *)
(* worker does after one of them starts from the state it then finds.      *)
(* The workers: the loop (ticks, restore, shutdown), the declarer (every   *)
(* declarer holds one mutex over check, Declare, Start and Abort), the     *)
(* keeper (an allocation pass that writes the arm value again), and per    *)
(* experiment the game end that concludes it.                              *)
(***************************************************************************)
EXTENDS Naturals, Sequences, FiniteSets

CONSTANTS
    Experiment,   \* experiment ids (never minted twice)
    FlagOf,       \* the flag an experiment is about
    NoOne,        \* a worker with no experiment
    Budget        \* how much of each kind of trouble a run may meet (see used)

ASSUME ExperimentAssumption ==
    /\ NoOne \notin Experiment
    /\ {"loop", "declarer", "keeper"} \cap Experiment = {}

Live == {"PROPOSED", "RUNNING"}
Terminal == {"DONE", "DISCARDED", "ABORTED"}
Status == Live \cup {"CONCLUDED", "PROMOTING"} \cup Terminal

\* What a promotion came to: `applied` and `deferred` acted (promotionActed).
Acting == {"applied", "deferred"}
Result == Acting \cup {"refused"}
Later == {"applied", "refused", "reverted", "lost"}

Decision(st) == <<"decision", st>>
Outcome(st) == <<"outcome", st>>
Own(r) == <<"promotion", r>>
After(r) == <<"later", r>>
Leaked == <<"note", "leaked">>
Merged == <<"bad", "merged">>
Line == {Decision(st) : st \in Status} \cup {Outcome(st) : st \in Terminal}
        \cup {Own(r) : r \in Result} \cup {After(r) : r \in Later}
        \cup {Leaked, Merged}

\* What becomes of a line: written, not written at all, or written in part.
How == {"ok", "refused", "torn"}

Worker == Experiment \cup {"loop", "declarer", "keeper"}
Place == {"idle", "chosen", "start", "sent", "landed", "restrip", "abort",
          "begin", "strip", "record", "verdict", "acting", "result", "finish"}

VARIABLES
    entry,     \* Registry.entries[id].status, "absent" when not registered
    begun,     \* entries with teardownBegun
    journal,   \* per experiment: made, its lines, torn: a partial last line
    branch,    \* experiments with a targeting branch on the flag service
    gate,      \* agent `enabled` and experiments_enabled
    life,      \* "running", "stopping", "closing" (AbortAll), "stopped"
    booted,    \* startedOnce: this process has restored the journals
    job,       \* what each worker is doing
    todo,      \* the loop's remaining ends: <<experiment, why>>
    inFlight,  \* promotionInFlight: its own promotion event is not journaled
    held,      \* laterPromotions
    queue,     \* what the promoter still owns: nothing, a deferred write, a default
    \* history
    acted,     \* how often the promoter acted for an experiment
    leak,      \* experiments whose strip failed since their last good one
    spoiled,   \* the worst that happened to a journal: "ok", "refused" or "torn"
    beside,    \* <<e, f>>: e was restored beside f, live or about to be declared
    used       \* how much of the budget is used

vars == <<entry, begun, journal, branch, gate, life, booted, job, todo, inFlight,
          held, queue, acted, leak, spoiled, beside, used>>

Idle == [at |-> "idle", exp |-> NoOne, end |-> "ABORTED", res |-> "refused"]

\* The bound: experiments declared, ends of the process, failed strips and
\* appends, switches of the gates, restarts of the flag service.
Unused == [exp |-> 0, crash |-> 0, fault |-> 0, flip |-> 0, drop |-> 0,
           stop |-> 0, discard |-> 0, later |-> 0]
Spent(kind) == [used EXCEPT ![kind] = @ + 1]
Spend(kind) == Spent(kind) \in Budget /\ used' = Spent(kind)
Blank == [made |-> FALSE, lines |-> <<>>, torn |-> FALSE]

Open(e) == entry[e] \notin Terminal \cup {"absent"}
Up == life # "stopped"
Stopping == life # "running"

-----------------------------------------------------------------------------
(* The journal file. *)

\* One append: the line is written, refused whole, or torn.  A line written
\* after a torn one continues it: the two become one line nobody can read.
AppendTo(j, line, how) ==
    CASE how = "refused" -> j
      [] how = "torn" -> [j EXCEPT !.torn = TRUE]
      [] how = "ok" /\ j.torn -> [j EXCEPT !.lines = Append(@, Merged), !.torn = FALSE]
      [] OTHER -> [j EXCEPT !.lines = Append(@, line)]

\* The worst that has happened to a journal.
Worse(was, how) == IF "torn" \in {was, how} THEN "torn" ELSE IF how = "ok" THEN was ELSE how

Log(e, line, how) ==
    /\ journal' = [journal EXCEPT ![e] = AppendTo(@, line, how)]
    /\ spoiled' = [spoiled EXCEPT ![e] = Worse(@, how)]
    /\ IF how = "ok" THEN UNCHANGED used ELSE Spend("fault")

\* Load: a bad last line is dropped (and truncated), a bad line before it is
\* an error and the experiment is not restored.
Readable(j) ==
    \A i \in DOMAIN j.lines : j.lines[i] = Merged => i = Len(j.lines) /\ ~j.torn
Recovered(j) ==
    [j EXCEPT !.torn = FALSE,
              !.lines = IF @ # <<>> /\ @[Len(@)] = Merged
                        THEN SubSeq(@, 1, Len(@) - 1) ELSE @]

\* The line with the highest number that satisfies the test, as a status.
LastOf(lines, kinds) ==
    LET at == {i \in DOMAIN lines : lines[i][1] \in kinds}
    IN  IF at = {} THEN "none"
        ELSE lines[CHOOSE i \in at : \A k \in at : k <= i][2]

\* The summary's status; Create starts it as running.
Folded(lines) ==
    LET last == LastOf(lines, {"decision", "outcome"})
    IN  IF last = "none" THEN "RUNNING" ELSE last

LastPromotion(lines) == LastOf(lines, {"promotion", "later"})

\* The first promotion event after the last concluded decision.
JournaledPromotion(lines) ==
    LET concluded == {i \in DOMAIN lines : lines[i] = Decision("CONCLUDED")}
        start == CHOOSE i \in concluded : \A k \in concluded : k <= i
        found == {i \in DOMAIN lines : i > start /\ lines[i][1] \in {"promotion", "later"}}
    IN  IF concluded = {} \/ found = {} THEN "none"
        ELSE lines[CHOOSE i \in found : \A k \in found : i <= k][2]

-----------------------------------------------------------------------------
Init ==
    /\ entry = [e \in Experiment |-> "absent"]
    /\ begun = {}
    /\ journal = [e \in Experiment |-> Blank]
    /\ branch = {}
    /\ gate \in BOOLEAN
    /\ life = "running"
    /\ booted = FALSE
    /\ job = [w \in Worker |-> Idle]
    /\ todo = {}
    /\ inFlight = {}
    /\ held = [e \in Experiment |-> <<>>]
    /\ queue = [e \in Experiment |-> "none"]
    /\ acted = [e \in Experiment |-> 0]
    /\ leak = {} /\ beside = {}
    /\ spoiled = [e \in Experiment |-> "ok"]
    /\ used = Unused

Move(w, at) == job' = [job EXCEPT ![w].at = at]
Rest(w) == job' = [job EXCEPT ![w] = Idle]

-----------------------------------------------------------------------------
(* Declaring and starting: the declarer. *)

\* The flags under test: a live experiment's, or one whose deferred write waits.
Waiting(flag) == \E f \in Experiment : FlagOf[f] = flag /\ queue[f] = "waits"
Busy(flag) == Waiting(flag) \/ \E f \in Experiment : FlagOf[f] = flag /\ Open(f)

\* The declarer is about to declare e.
Chosen(e) == job["declarer"].at = "chosen" /\ job["declarer"].exp = e

\* A declarer passes the gates, takes the mutex and finds the flag free.  The mutex
\* keeps other declarers out between that and the Declare, but not the restore.
Choose(e) ==
    /\ life = "running" /\ gate
    /\ job["declarer"] = Idle
    /\ ~journal[e].made
    /\ ~Busy(FlagOf[e])
    /\ job' = [job EXCEPT !["declarer"] = [@ EXCEPT !.at = "chosen", !.exp = e]]
    /\ UNCHANGED <<entry, begun, journal, branch, gate, life, booted, todo, inFlight,
                   held, queue, acted, leak, spoiled, beside, used>>

SpendDeclare(faults) ==
    LET cost == [used EXCEPT !.exp = @ + 1, !.fault = @ + faults]
    IN  cost \in Budget /\ used' = cost

\* Declare: the journal and the entry in one section.  The line of the
\* proposal may be lost, and so may the whole call once the intent is written.
Declare(e) ==
    /\ Chosen(e)
    /\ life = "running"
    /\ ~journal[e].made
    /\ ~Waiting(FlagOf[e])
    /\ entry' = [entry EXCEPT ![e] = "PROPOSED"]
    /\ Move("declarer", "start")
    /\ \E how \in How :
            /\ SpendDeclare(IF how = "ok" THEN 0 ELSE 1)
            /\ journal' = [journal EXCEPT ![e] = AppendTo([@ EXCEPT !.made = TRUE],
                                                          Decision("PROPOSED"), how)]
            /\ spoiled' = [spoiled EXCEPT ![e] = Worse(@, how)]
    /\ UNCHANGED <<begun, branch, gate, life, booted, todo, inFlight, held, queue,
                   acted, leak, beside>>

DeclareFails(e) ==
    /\ Chosen(e)
    /\ life = "running"
    /\ ~journal[e].made
    /\ ~Waiting(FlagOf[e])
    /\ journal' = [journal EXCEPT ![e].made = TRUE]
    /\ SpendDeclare(1)
    /\ spoiled' = [spoiled EXCEPT ![e] = Worse(@, "refused")]
    /\ Rest("declarer")
    /\ UNCHANGED <<entry, begun, branch, gate, life, booted, todo, inFlight, held,
                   queue, acted, leak, beside>>

\* Refused: no capacity, a deferred write waits, or the agent is stopping.
Decline ==
    /\ job["declarer"].at = "chosen"
    /\ Rest("declarer")
    /\ UNCHANGED <<entry, begun, journal, branch, gate, life, booted, todo, inFlight,
                   held, queue, acted, leak, spoiled, beside, used>>

\* Start up to the targeting write; its refusals go to the caller's Abort.
Start ==
    /\ job["declarer"].at = "start"
    /\ Move("declarer", IF entry[job["declarer"].exp] = "PROPOSED" /\ ~Stopping
                        THEN "sent" ELSE "abort")
    /\ UNCHANGED <<entry, begun, journal, branch, gate, life, booted, todo, inFlight,
                   held, queue, acted, leak, spoiled, beside, used>>

\* The flag service applies a targeting write that is under way.
Land(w) ==
    /\ job[w].at = "sent"
    /\ branch' = branch \cup {job[w].exp}
    /\ Move(w, "landed")
    /\ UNCHANGED <<entry, begun, journal, gate, life, booted, todo, inFlight, held,
                   queue, acted, leak, spoiled, beside, used>>

\* Fault: a teardown that has not recorded its end yet is not noticed.
OvertakenOnceOver(e) == ~Open(e)

\* Fault: nobody looks.
NeverOvertaken(e) == FALSE

\* A teardown overtook the write.
Overtaken(e) == e \in begun \/ ~Open(e)

\* The write came back: the experiment runs, unless a teardown has begun.
Started ==
    LET e == job["declarer"].exp IN
    /\ job["declarer"].at = "landed"
    /\ IF Overtaken(e)
       THEN /\ job' = [job EXCEPT !["declarer"] = [@ EXCEPT !.at = "restrip", !.res = "applied"]]
            /\ UNCHANGED <<entry, journal, used, spoiled>>
       ELSE /\ entry' = [entry EXCEPT ![e] = "RUNNING"]
            /\ \E how \in How : Log(e, Decision("RUNNING"), how)
            /\ Rest("declarer")
    /\ UNCHANGED <<begun, branch, gate, life, booted, todo, inFlight, held, queue,
                   acted, leak, beside>>

\* An error, whether or not the write landed.
StartErred ==
    LET e == job["declarer"].exp IN
    /\ job["declarer"].at \in {"sent", "landed"}
    /\ job' = [job EXCEPT !["declarer"] =
                 [@ EXCEPT !.at = IF Overtaken(e) THEN "restrip" ELSE "abort",
                           !.res = "refused"]]
    /\ UNCHANGED <<entry, begun, journal, branch, gate, life, booted, todo, inFlight,
                   held, queue, acted, leak, spoiled, beside, used>>

\* The compensating strip; when all three attempts fail a note is journaled.
\* A Start that stripped cleanly returns no error, any other is aborted.
Restrip(w) ==
    LET e == job[w].exp IN
    /\ w \in {"declarer", "keeper"}
    /\ job[w].at = "restrip"
    /\ \/ /\ branch' = branch \ {e}
          /\ leak' = leak \ {e}
          /\ IF w = "declarer" /\ job[w].res = "refused" THEN Move(w, "abort") ELSE Rest(w)
          /\ UNCHANGED <<journal, used, spoiled>>
       \/ /\ Spend("fault")
          /\ leak' = leak \cup {e}
          /\ journal' = [journal EXCEPT ![e] = AppendTo(@, Leaked, "ok")]
          /\ IF w = "declarer" THEN Move(w, "abort") ELSE Rest(w)
          /\ UNCHANGED <<branch, spoiled>>
    /\ UNCHANGED <<entry, begun, gate, life, booted, todo, inFlight, held, queue,
                   acted, beside>>

\* Abort of a failed start: a terminal experiment needs nothing.
AbortStart ==
    LET e == job["declarer"].exp IN
    /\ job["declarer"].at = "abort"
    /\ IF Open(e)
       THEN job' = [job EXCEPT !["declarer"] = [@ EXCEPT !.at = "begin", !.end = "ABORTED"]]
       ELSE Rest("declarer")
    /\ UNCHANGED <<entry, begun, journal, branch, gate, life, booted, todo, inFlight,
                   held, queue, acted, leak, spoiled, beside, used>>

-----------------------------------------------------------------------------
(* teardown: mark, strip outside the lock, record unless already terminal. *)

Begin(w) ==
    /\ job[w].at = "begin"
    /\ begun' = begun \cup {job[w].exp}
    /\ Move(w, "strip")
    /\ UNCHANGED <<entry, journal, branch, gate, life, booted, todo, inFlight, held,
                   queue, acted, leak, spoiled, beside, used>>

Strip(w) ==
    LET e == job[w].exp IN
    /\ job[w].at = "strip"
    /\ \/ branch' = branch \ {e} /\ leak' = leak \ {e} /\ UNCHANGED used
       \/ /\ Spend("fault")
          /\ leak' = leak \cup {e}
          /\ UNCHANGED branch
    /\ Move(w, "record")
    /\ UNCHANGED <<entry, begun, journal, gate, life, booted, todo, inFlight, held,
                   queue, acted, spoiled, beside>>

\* Fault: an end that is already recorded is overwritten.
RecordAlways(w) ==
    LET e == job[w].exp IN
    /\ job[w].at = "record"
    /\ Rest(w)
    /\ entry' = [entry EXCEPT ![e] = job[w].end]
    /\ \E how \in How : Log(e, Outcome(job[w].end), how)
    /\ UNCHANGED <<begun, branch, gate, life, booted, todo, inFlight, held, queue,
                   acted, leak, beside>>

Record(w) ==
    LET e == job[w].exp IN
    /\ job[w].at = "record"
    /\ Rest(w)
    /\ IF Open(e)
       THEN /\ entry' = [entry EXCEPT ![e] = job[w].end]
            /\ \E how \in How : Log(e, Outcome(job[w].end), how)
       ELSE UNCHANGED <<entry, journal, used, spoiled>>
    /\ UNCHANGED <<begun, branch, gate, life, booted, todo, inFlight, held, queue,
                   acted, leak, beside>>

-----------------------------------------------------------------------------
(* An allocation pass: the arm value is written again before a pair spawns. *)

\* Reassert writes only what the flag service no longer serves.
Reassert(e) ==
    /\ Up /\ booted
    /\ job["keeper"] = Idle
    /\ Open(e) /\ entry[e] # "PROPOSED"
    /\ e \notin begun
    /\ e \notin branch
    /\ job' = [job EXCEPT !["keeper"] = [@ EXCEPT !.at = "sent", !.exp = e]]
    /\ UNCHANGED <<entry, begun, journal, branch, gate, life, booted, todo, inFlight,
                   held, queue, acted, leak, spoiled, beside, used>>

\* Written or not: a teardown that began meanwhile gets a second strip.
Reasserted ==
    /\ job["keeper"].at \in {"sent", "landed"}
    /\ IF Overtaken(job["keeper"].exp) THEN Move("keeper", "restrip") ELSE Rest("keeper")
    /\ UNCHANGED <<entry, begun, journal, branch, gate, life, booted, todo, inFlight,
                   held, queue, acted, leak, spoiled, beside, used>>

\* The flag left the catalogue, or its hold condition flipped: discarded.
Discard(e) ==
    /\ Up /\ booted
    /\ job["keeper"] = Idle
    /\ entry[e] = "RUNNING" /\ e \notin begun
    /\ job' = [job EXCEPT !["keeper"] = [@ EXCEPT !.at = "begin", !.exp = e, !.end = "DISCARDED"]]
    /\ Spend("discard")
    /\ UNCHANGED <<entry, begun, journal, branch, gate, life, booted, todo, inFlight,
                   held, queue, acted, leak, spoiled, beside>>

-----------------------------------------------------------------------------
(* Conclusion and promotion: the game end that decides. *)

\* Only a live experiment concludes; a promote verdict goes on to the promoter.
Conclude(e) ==
    /\ Up
    /\ job[e] = Idle
    /\ entry[e] = "RUNNING"
    /\ entry' = [entry EXCEPT ![e] = "CONCLUDED"]
    /\ \E how \in How : Log(e, Decision("CONCLUDED"), how)
    /\ \E at \in {"verdict", "finish"} :
          job' = [job EXCEPT ![e] = [@ EXCEPT !.at = at, !.exp = e]]
    /\ UNCHANGED <<begun, branch, gate, life, booted, todo, inFlight, held, queue,
                   acted, leak, beside>>

\* Fault: the promoter is called whatever became of the promoting decision.
PromoteAnyway(e) ==
    /\ job[e].at = "verdict" /\ Open(e) /\ ~Stopping
    /\ entry' = [entry EXCEPT ![e] = "PROMOTING"]
    /\ inFlight' = inFlight \cup {e}
    /\ \E how \in How : Log(e, Decision("PROMOTING"), how)
    /\ Move(e, "acting")
    /\ UNCHANGED <<begun, branch, gate, life, booted, todo, held, queue, acted, leak,
                   beside>>

\* promote: not for an experiment that ended meanwhile, nor while stopping; and
\* the promoter is called only once the promoting decision is on disk.
Promote(e) ==
    /\ job[e].at = "verdict"
    /\ CASE ~Open(e) ->
              /\ Move(e, "finish")
              /\ UNCHANGED <<entry, inFlight, journal, used, spoiled>>
         [] Open(e) /\ Stopping ->
              /\ \E how \in How : Log(e, Own("refused"), how)
              /\ Move(e, "finish")
              /\ UNCHANGED <<entry, inFlight>>
         [] OTHER ->
              /\ entry' = [entry EXCEPT ![e] = "PROMOTING"]
              /\ inFlight' = inFlight \cup {e}
              /\ \E how \in How :
                   /\ Log(e, Decision("PROMOTING"), how)
                   /\ Move(e, IF how = "ok" THEN "acting" ELSE "result")
    /\ UNCHANGED <<begun, branch, gate, life, booted, todo, held, queue, acted, leak,
                   beside>>

\* The promoter acts (external here): a deferred write is queued in memory,
\* which the promoter refuses once the shutdown has emptied its queue.
Act(e) ==
    /\ job[e].at = "acting"
    /\ \E res \in Result :
        /\ res = "deferred" => life \in {"running", "stopping"}
        /\ job' = [job EXCEPT ![e] = [@ EXCEPT !.at = "result", !.res = res]]
        /\ acted' = [acted EXCEPT ![e] = @ + IF res \in Acting THEN 1 ELSE 0]
        /\ queue' = [queue EXCEPT ![e] = CASE res = "deferred" -> "waits"
                                            [] res = "applied" -> "applied"
                                            [] OTHER -> @]
    /\ UNCHANGED <<entry, begun, journal, branch, gate, life, booted, todo, inFlight,
                   held, leak, spoiled, beside, used>>

\* Its own event first, then what RecordPromotion held back for it.
JournalResult(e) ==
    /\ job[e].at = "result"
    /\ \E how \in How :
        LET own == AppendTo(journal[e], Own(job[e].res), how)
            one == IF Len(held[e]) > 0 THEN AppendTo(own, held[e][1], "ok") ELSE own
            two == IF Len(held[e]) > 1 THEN AppendTo(one, held[e][2], "ok") ELSE one
        IN  /\ journal' = [journal EXCEPT ![e] = two]
            /\ IF how = "ok" THEN UNCHANGED used ELSE Spend("fault")
            /\ spoiled' = [spoiled EXCEPT ![e] = Worse(@, how)]
    /\ inFlight' = inFlight \ {e}
    /\ held' = [held EXCEPT ![e] = <<>>]
    /\ Move(e, "finish")
    /\ UNCHANGED <<entry, begun, branch, gate, life, booted, todo, queue, acted, leak,
                   beside>>

\* The end: done when the promotion acted; an end somebody else recorded stays.
Finish(e) ==
    /\ job[e].at = "finish"
    /\ job' = [job EXCEPT ![e] =
                 [@ EXCEPT !.at = "begin",
                           !.end = CASE ~Open(e) -> entry[e]
                                     [] Open(e) /\ job[e].res \in Acting -> "DONE"
                                     [] OTHER -> "DISCARDED"]]
    /\ UNCHANGED <<entry, begun, journal, branch, gate, life, booted, todo, inFlight,
                   held, queue, acted, leak, spoiled, beside, used>>

\* RecordPromotion: the deferred queue or the kill switch settles what the
\* promoter still owns; held back while the promotion's own event is not out.
RecordPromotion(e) ==
    /\ Up
    /\ queue[e] # "none"
    /\ \E res \in IF queue[e] = "waits" THEN {"applied", "refused"} ELSE {"reverted"} :
        /\ queue' = [queue EXCEPT ![e] = IF res = "applied" THEN "applied" ELSE "none"]
        /\ IF e \in inFlight
           THEN /\ held' = [held EXCEPT ![e] = Append(@, After(res))]
                /\ UNCHANGED journal
           ELSE /\ journal' = [journal EXCEPT ![e] = AppendTo(@, After(res), "ok")]
                /\ UNCHANGED held
    /\ Spend("later")
    /\ UNCHANGED <<entry, begun, branch, gate, life, booted, job, todo, inFlight, acted,
                   leak, spoiled, beside>>

-----------------------------------------------------------------------------
(* The loop. *)

LoopFree == job["loop"] = Idle /\ todo = {}

\* Fault: a process that has not restored the journals yet aborts nothing.
TickOffBooted ==
    /\ life = "running" /\ ~gate /\ booted /\ LoopFree
    /\ \E e \in Experiment : Open(e)
    /\ todo' = {<<e, "abort">> : e \in {f \in Experiment : Open(f)}}
    /\ UNCHANGED <<entry, begun, journal, branch, gate, life, booted, job, inFlight,
                   held, queue, acted, leak, spoiled, beside, used>>

\* A tick with a gate closed: AbortAll over what is live now.
TickOff ==
    /\ life = "running" /\ ~gate /\ LoopFree
    /\ \E e \in Experiment : Open(e)
    /\ todo' = {<<e, "abort">> : e \in {f \in Experiment : Open(f)}}
    /\ UNCHANGED <<entry, begun, journal, branch, gate, life, booted, job, inFlight,
                   held, queue, acted, leak, spoiled, beside, used>>

\* What Rehydrate reads of each journal this process does not hold.
Foreign == {e \in Experiment : journal[e].made /\ entry[e] = "absent"
                               /\ Readable(journal[e])}
Found(e) == Recovered(journal[e]).lines

\* A done journal whose deferred write nobody holds any more is told so.
Swept(e) ==
    IF Folded(Found(e)) \in Terminal /\ LastPromotion(Found(e)) = "deferred"
    THEN AppendTo(Recovered(journal[e]), After("lost"), "ok")
    ELSE Recovered(journal[e])

\* What the restore does with it: an experiment that never started is aborted,
\* a concluded one finished; a running one resumes, or loses its pin.
Why(e) ==
    CASE Folded(Found(e)) = "PROPOSED" -> {"unstarted"}
      [] Folded(Found(e)) \in {"CONCLUDED", "PROMOTING"} -> {"unfinished"}
      [] OTHER -> {"resumes", "lost"}

\* The first tick with the gates open: Rehydrate, all journals in one section.
Rehydrate ==
    LET back == {e \in Foreign : Folded(Found(e)) \notin Terminal} IN
    /\ life = "running" /\ gate /\ ~booted /\ LoopFree
    /\ booted' = TRUE
    /\ journal' = [e \in Experiment |-> IF e \in Foreign THEN Swept(e) ELSE journal[e]]
    /\ entry' = [e \in Experiment |-> IF e \in back THEN Folded(Found(e)) ELSE entry[e]]
    /\ beside' = beside \cup
         {p \in back \X Experiment : p[1] # p[2] /\ FlagOf[p[1]] = FlagOf[p[2]]
                                     /\ (p[2] \in back \/ Open(p[2]) \/ Chosen(p[2]))}
    /\ \E pick \in [back -> {"unstarted", "unfinished", "resumes", "lost"}] :
        /\ \A e \in back : pick[e] \in Why(e)
        /\ todo' = {<<e, pick[e]>> : e \in {f \in back : pick[f] # "resumes"}}
    /\ UNCHANGED <<begun, branch, gate, life, job, inFlight, held, queue, acted, leak,
                   spoiled, used>>

\* finishRestored: from the journaled promotion, never by calling the promoter.
RestoredEnd(e) ==
    LET res == JournaledPromotion(journal[e].lines) IN
    CASE res \in Acting \cup {"reverted"} -> "DONE"
      [] res = "none" /\ entry[e] = "PROMOTING" -> "ABORTED"
      [] OTHER -> "DISCARDED"

\* The next experiment of the list; one that has ended meanwhile is passed over.
TakeNext(e, why) ==
    /\ job["loop"] = Idle
    /\ <<e, why>> \in todo
    /\ todo' = todo \ {<<e, why>>}
    /\ LET due == CASE why = "abort" -> Open(e)
                    [] why = "unfinished" -> entry[e] \in {"CONCLUDED", "PROMOTING"}
                    [] OTHER -> TRUE
           end == CASE why \in {"abort", "unstarted"} -> "ABORTED"
                    [] why = "unfinished" -> RestoredEnd(e)
                    [] OTHER -> "DISCARDED"
       IN  IF due
           THEN job' = [job EXCEPT !["loop"] = [@ EXCEPT !.at = "begin", !.exp = e, !.end = end]]
           ELSE UNCHANGED job
    /\ UNCHANGED <<entry, begun, journal, branch, gate, life, booted, inFlight, held,
                   queue, acted, leak, spoiled, beside, used>>

\* The graceful stop: the context is cancelled; the loop, when it gets there,
\* drops the deferred writes and aborts what is live; then run returns.
Stop ==
    /\ life = "running"
    /\ Spend("stop")
    /\ life' = "stopping"
    /\ UNCHANGED <<entry, begun, journal, branch, gate, booted, job, todo, inFlight,
                   held, queue, acted, leak, spoiled, beside>>

LoopStops ==
    LET waiting == {e \in Experiment : queue[e] = "waits"} IN
    /\ life = "stopping" /\ LoopFree
    /\ life' = "closing"
    /\ queue' = [e \in Experiment |-> IF e \in waiting THEN "none" ELSE queue[e]]
    /\ held' = [e \in Experiment |-> IF e \in waiting \cap inFlight
                                     THEN Append(held[e], After("refused")) ELSE held[e]]
    /\ journal' = [e \in Experiment |-> IF e \in waiting \ inFlight
                                        THEN AppendTo(journal[e], After("refused"), "ok")
                                        ELSE journal[e]]
    /\ todo' = {<<e, "abort">> : e \in {f \in Experiment : Open(f)}}
    /\ UNCHANGED <<entry, begun, branch, gate, booted, job, inFlight, acted, leak,
                   spoiled, beside, used>>

LoopReturns ==
    /\ life = "closing" /\ LoopFree
    /\ life' = "stopped"
    /\ UNCHANGED <<entry, begun, journal, branch, gate, booted, job, todo, inFlight,
                   held, queue, acted, leak, spoiled, beside, used>>

-----------------------------------------------------------------------------
(* The world. *)

\* The process ends, by the stop or by a crash, and starts again: what it held
\* in memory is gone.  A targeting write under way may still land.
Crash ==
    /\ Spend("crash")
    /\ entry' = [e \in Experiment |-> "absent"]
    /\ begun' = {} /\ todo' = {} /\ inFlight' = {} /\ beside' = {}
    /\ life' = "running" /\ booted' = FALSE
    /\ job' = [w \in Worker |-> Idle]
    /\ held' = [e \in Experiment |-> <<>>]
    /\ queue' = [e \in Experiment |-> "none"]
    /\ \E late \in SUBSET {job[w].exp : w \in {v \in Worker : job[v].at = "sent"}} :
          branch' = branch \cup late
    /\ UNCHANGED <<journal, gate, acted, leak, spoiled>>

Flip ==
    /\ Spend("flip")
    /\ gate' = ~gate
    /\ UNCHANGED <<entry, begun, journal, branch, life, booted, job, todo, inFlight,
                   held, queue, acted, leak, spoiled, beside>>

\* The flag service restarts: it served the branches from memory.
FlagServiceRestarts ==
    /\ branch # {}
    /\ Spend("drop")
    /\ branch' = {} /\ leak' = {}
    /\ UNCHANGED <<entry, begun, journal, gate, life, booted, job, todo, inFlight,
                   held, queue, acted, spoiled, beside>>

-----------------------------------------------------------------------------
DeclarerStep ==
    \/ Decline \/ Start \/ Started \/ StartErred \/ AbortStart
    \/ \E e \in Experiment : Choose(e) \/ Declare(e) \/ DeclareFails(e)
KeeperStep == Reasserted \/ \E e \in Experiment : Reassert(e) \/ Discard(e)
CloserStep(e) == Promote(e) \/ Act(e) \/ JournalResult(e) \/ Finish(e)
LoopStep ==
    \/ TickOff \/ Rehydrate \/ LoopStops \/ LoopReturns
    \/ \E e \in Experiment, why \in {"abort", "unstarted", "unfinished", "lost"} :
          TakeNext(e, why)
Teardown(w) == Begin(w) \/ Strip(w) \/ Record(w)

Next ==
    \/ DeclarerStep \/ KeeperStep \/ LoopStep
    \/ \E e \in Experiment : Conclude(e) \/ CloserStep(e) \/ RecordPromotion(e)
    \/ \E w \in Worker : Teardown(w) \/ Land(w) \/ Restrip(w)
    \/ Stop \/ Crash \/ Flip \/ FlagServiceRestarts

Spec == Init /\ [][Next]_vars

\* Calls return, and a loop that runs ticks.  Nothing obliges an experiment to
\* be declared, to conclude, or its deferred write to be settled.
FairSpec ==
    /\ Spec
    /\ \A w \in Worker : WF_vars(Teardown(w) \/ Restrip(w))
    /\ \A e \in Experiment : WF_vars(CloserStep(e))
    /\ WF_vars(Decline \/ Start \/ Started \/ StartErred \/ AbortStart)
    /\ WF_vars(Reasserted)
    /\ WF_vars(LoopStep)

-----------------------------------------------------------------------------
(* Properties. *)

Job == [at : Place, exp : Experiment \cup {NoOne}, end : Terminal, res : Result]
Journal == [made : BOOLEAN, lines : Seq(Line), torn : BOOLEAN]

\* Every variable has its type, and a worker that does something does it to an
\* experiment.
TypeOK ==
    /\ entry \in [Experiment -> Status \cup {"absent"}]
    /\ begun \subseteq Experiment
    /\ journal \in [Experiment -> Journal]
    /\ branch \subseteq Experiment
    /\ gate \in BOOLEAN /\ booted \in BOOLEAN
    /\ life \in {"running", "stopping", "closing", "stopped"}
    /\ job \in [Worker -> Job]
    /\ \A w \in Worker : job[w].at # "idle" => job[w].exp \in Experiment
    /\ todo \subseteq Experiment \X {"abort", "unstarted", "unfinished", "lost"}
    /\ inFlight \subseteq Experiment
    /\ held \in [Experiment -> Seq(Line)]
    /\ queue \in [Experiment -> {"none", "waits", "applied"}]
    /\ acted \in [Experiment -> Nat]
    /\ leak \subseteq Experiment
    /\ spoiled \in [Experiment -> How]
    /\ beside \subseteq Experiment \X Experiment

Count(e, line) == Cardinality({i \in DOMAIN journal[e].lines : journal[e].lines[i] = line})

\* A journal that missed no line tells one life: every decision at most once, one
\* end, nothing decided after it, and the status the registry holds (conclude,
\* promote and teardown write to one file from three workers).
JournalTrue ==
    \A e \in {f \in Experiment : spoiled[f] = "ok"} :
        /\ \A st \in Status : Count(e, Decision(st)) <= 1
        /\ Cardinality({i \in DOMAIN journal[e].lines :
                          journal[e].lines[i][1] = "outcome"}) <= 1
        /\ entry[e] # "absent" => Folded(journal[e].lines) = entry[e]

\* A later outcome of a promotion never stands before the promotion's own event
\* (RecordPromotion holds it back, flushLaterPromotionsLocked lets it go).
OwnFirst ==
    \A e \in {f \in Experiment : spoiled[f] = "ok"} : \A i \in DOMAIN journal[e].lines :
        journal[e].lines[i][1] = "later" =>
            \E k \in 1..(i - 1) : journal[e].lines[k][1] = "promotion"

\* Two experiments of one flag are never live at once, whichever declarers, ends,
\* crashes and restores meet (ActiveFlags, read by every declarer under the mutex),
\* but for a pair of which a restore brought one beside the other: live already, about
\* to be declared, or live in its own journal (Rehydrate looks at no flags).
OneLivePerFlag ==
    \A e, f \in Experiment :
        e # f /\ FlagOf[e] = FlagOf[f] /\ Open(e) /\ Open(f) =>
            <<e, f>> \in beside \/ <<f, e>> \in beside

\* What the journals and the registry say of one another.
ExperimentsInv == TypeOK /\ JournalTrue /\ OwnFirst /\ OneLivePerFlag

\* Whoever is still going to take a branch of e away.
Minding(w, e) ==
    job[w].exp = e /\ job[w].at \in {"start", "sent", "landed", "restrip", "abort",
                                     "begin", "strip"}

\* No targeting branch outlives its experiment, in whatever order a late write,
\* a teardown and its strip come (stripLateTargetingWrite, #2340), unless the
\* strip itself failed or the experiment's process died and no successor has
\* taken it over.
BranchOwned ==
    \A e \in branch \ leak :
        \/ Open(e)
        \/ entry[e] = "absent"
        \/ \E w \in Worker : Minding(w, e)

\* A promoter acts for an experiment at most once, crashes included, and only
\* behind a promoting decision on disk, as long as the journal's lines are whole
\* (the write-ahead of promote, finishRestored).
PromotedOnce ==
    \A e \in Experiment :
        spoiled[e] # "torn" =>
            acted[e] <= 1 /\ (acted[e] = 1 => Count(e, Decision("PROMOTING")) = 1)

\* Once the loop has returned from a stop and the calls under way have too,
\* nothing is live: no start, write or conclusion outlived the AbortAll.
StopClean ==
    life = "stopped" /\ (\A w \in Worker : job[w] = Idle) =>
        \A e \in Experiment : ~Open(e)

\* With a gate closed for good in a process that runs, every experiment ends,
\* whatever was under way when it closed (allocateIfEnabled's AbortAll at every
\* tick, also before the first restore).
OffSettles ==
    <>[](~gate /\ life = "running") => <>[](\A e \in Experiment : ~Open(e))
-----------------------------------------------------------------------------
(* What the properties rest on. *)

\* Whatever a worker or the loop still has to do is about an experiment that the
\* registry holds; the game end of e is about e.
PresentInv ==
    /\ \A w \in Worker : job[w].at \notin {"idle", "chosen"} => entry[job[w].exp] # "absent"
    /\ \A t \in todo : entry[t[1]] # "absent"
    /\ \A e \in Experiment : job[e].at # "idle" => job[e].exp = e
    /\ \A e \in begun : entry[e] # "absent"

\* The flag that a declarer found free is free, but for what was restored since.
ChosenInv ==
    \A e, f \in Experiment :
        Chosen(f) /\ e # f /\ FlagOf[e] = FlagOf[f] /\ Open(e) => <<e, f>> \in beside

\* Who wrote or may have written the branch of e, or is about to strip it.
Writing(w, e) == job[w].exp = e /\ job[w].at \in {"sent", "landed", "restrip", "strip"}

\* A branch belongs to an experiment no teardown has begun for, or to a worker
\* that will strip it; a teardown past its mark has set the mark.
BranchInv ==
    /\ \A w \in Worker : job[w].at \in {"strip", "record"} => job[w].exp \in begun
    /\ \A e \in branch \ leak :
        \/ entry[e] = "absent"
        \/ Open(e) /\ e \notin begun
        \/ \E w \in Worker : Writing(w, e)

\* Who is going to end e.
Ending(w, e) == job[w].exp = e /\ job[w].at \in {"begin", "strip", "record"}

\* Behind the stop's AbortAll every live experiment has somebody who ends it.
ClosingInv ==
    /\ life \in {"closing", "stopped"} =>
         \A e \in Experiment : Open(e) =>
            <<e, "abort">> \in todo \/ \E w \in Worker : Ending(w, e)
    /\ life = "stopped" => todo = {}

RegistryInv ==
    TypeOK /\ PresentInv /\ ChosenInv /\ OneLivePerFlag /\ BranchInv /\ ClosingInv
=============================================================================
