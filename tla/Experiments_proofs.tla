------------------------- MODULE Experiments_proofs -------------------------
(***************************************************************************)
(* What holds of the experiment registry for any experiments, flags and    *)
(* any amount of trouble: the types, one live experiment per flag, no      *)
(* branch without an owner, nothing live behind a stop, and journals that  *)
(* tell the truth of registry and promoter, whatever was lost or crashed.  *)
(***************************************************************************)
EXTENDS Experiments, SequenceTheorems, FiniteSetTheorems, WellFoundedInduction, TLAPS

-----------------------------------------------------------------------------
(* Lines and journals *)

LEMMA Lines ==
  /\ \A st \in Status : Decision(st) \in Line
  /\ \A st \in Terminal : Outcome(st) \in Line
  /\ \A r \in Result : Own(r) \in Line
  /\ \A r \in Later : After(r) \in Line
  /\ Leaked \in Line /\ Merged \in Line
BY DEF Line

\* A decision or an outcome carries a status.
LEMMA StatusLine ==
  ASSUME NEW line \in Line, line[1] \in {"decision", "outcome"}
  PROVE  line[2] \in Status
BY DEF Line, Status, Decision, Outcome, Own, After, Leaked, Merged

LEMMA Appended ==
  ASSUME NEW j \in Journal, NEW line \in Line, NEW how \in How
  PROVE  AppendTo(j, line, how) \in Journal
<1>1. Merged \in Line
  BY Lines
<1>2. /\ Append(j.lines, line) \in Seq(Line)
      /\ Append(j.lines, Merged) \in Seq(Line)
  BY <1>1 DEF Journal
<1>3. CASE how = "refused"
  BY <1>3 DEF AppendTo
<1>4. CASE how = "torn"
  BY <1>4 DEF AppendTo, Journal
<1>5. CASE how = "ok" /\ j.torn
  BY <1>2, <1>5 DEF AppendTo, Journal
<1>6. CASE how = "ok" /\ ~j.torn
  BY <1>2, <1>6 DEF AppendTo, Journal
<1> QED BY <1>3, <1>4, <1>5, <1>6 DEF How

LEMMA Logged ==
  ASSUME NEW e \in Experiment, NEW line \in Line, NEW how \in How,
         journal \in [Experiment -> Journal], spoiled \in [Experiment -> How],
         Log(e, line, how)
  PROVE  journal' \in [Experiment -> Journal] /\ spoiled' \in [Experiment -> How]
<1>1. AppendTo(journal[e], line, how) \in Journal
  BY Appended
<1>2. Worse(spoiled[e], how) \in How
  BY DEF Worse, How
<1> QED BY <1>1, <1>2 DEF Log

LEMMA RecoveredType ==
  ASSUME NEW j \in Journal
  PROVE  Recovered(j) \in Journal
<1>1. CASE j.lines # <<>> /\ j.lines[Len(j.lines)] = Merged
  <2>1. Len(j.lines) \in Nat /\ Len(j.lines) >= 1
    BY <1>1, EmptySeq DEF Journal
  <2>2. SubSeq(j.lines, 1, Len(j.lines) - 1) \in Seq(Line)
    BY <2>1 DEF Journal
  <2> QED BY <1>1, <2>2 DEF Recovered, Journal
<1>2. CASE ~(j.lines # <<>> /\ j.lines[Len(j.lines)] = Merged)
  BY <1>2 DEF Recovered, Journal
<1> QED BY <1>1, <1>2

LEMMA Least ==
  ASSUME NEW S \in SUBSET Nat, S # {}
  PROVE  \E n \in S : \A m \in S : n <= m
<1> DEFINE R == {p \in Nat \X Nat : p[1] < p[2]}
<1>1. IsWellFoundedOn(R, Nat)
  BY NatLessThanWellFounded DEF OpToRel
<1> HIDE DEF R
<1>2. PICK n \in S : \A m \in S : <<m, n>> \notin R
  BY <1>1, WFMin, Zenon
<1>3. \A m \in S : ~(m < n)
  BY <1>2 DEF R
<1> QED BY <1>3

\* A nonempty set of line numbers has a largest one.
LEMMA Largest ==
  ASSUME NEW n \in Nat, NEW S \in SUBSET (1..n), S # {}
  PROVE  \E m \in S : \A k \in S : k <= m
<1> DEFINE T == {t \in Nat : n - t \in S}
<1>1. T \in SUBSET Nat
  OBVIOUS
<1>2. T # {}
  <2>1. PICK i \in S : TRUE
    OBVIOUS
  <2>2. n - i \in Nat /\ n - (n - i) = i
    OBVIOUS
  <2> QED BY <2>1, <2>2
<1>3. PICK t \in T : \A u \in T : t <= u
  <2> HIDE DEF T
  <2> QED BY <1>1, <1>2, Least
<1>4. \A k \in S : k <= n - t
  <2> SUFFICES ASSUME NEW k \in S PROVE k <= n - t
    OBVIOUS
  <2>1. n - k \in Nat /\ n - (n - k) = k
    OBVIOUS
  <2>2. n - k \in T
    BY <2>1
  <2>3. t <= n - k
    BY <1>3, <2>2
  <2> QED BY <2>1, <2>3
<1> QED BY <1>3, <1>4

\* The summary of a journal holds a status.
LEMMA FoldedStatus ==
  ASSUME NEW lines \in Seq(Line)
  PROVE  Folded(lines) \in Status
<1> DEFINE at == {i \in DOMAIN lines : lines[i][1] \in {"decision", "outcome"}}
           last == CHOOSE i \in at : \A k \in at : k <= i
<1>1. CASE at = {}
  BY <1>1 DEF Folded, LastOf, Status, Live
<1>2. CASE at # {}
  <2>1. at \in SUBSET (1..Len(lines)) /\ Len(lines) \in Nat
    OBVIOUS
  <2>2. \E m \in at : \A k \in at : k <= m
    <3> HIDE DEF at
    <3> QED BY <1>2, <2>1, Largest
  <2>3. last \in at
    <3> HIDE DEF at
    <3> QED BY <2>2
  <2>4. lines[last] \in Line /\ lines[last][1] \in {"decision", "outcome"}
    <3> HIDE DEF last
    <3> QED BY <2>3
  <2>5. lines[last][2] \in Status
    <3> HIDE DEF last
    <3> QED BY <2>4, StatusLine
  <2>6. LastOf(lines, {"decision", "outcome"}) = lines[last][2]
    BY <1>2 DEF LastOf
  <2> QED BY <2>5, <2>6 DEF Folded, Status, Live, Terminal
<1> QED BY <1>1, <1>2

-----------------------------------------------------------------------------
(* Type correctness *)

USE DEF TypeOK

LEMMA Workers ==
  /\ \A e \in Experiment : e \in Worker
  /\ "loop" \in Worker /\ "declarer" \in Worker /\ "keeper" \in Worker
BY DEF Worker

\* The jobs have their type, and whoever does something does it to an experiment.
Jobs ==
  /\ job \in [Worker -> Job]
  /\ \A w \in Worker : job[w].at # "idle" => job[w].exp \in Experiment

\* What giving a worker a job, moving it on and sending it to rest does to the jobs.
LEMMA Given ==
  ASSUME NEW w \in Worker, NEW r \in Job, Jobs, job' = [job EXCEPT ![w] = r],
         r.at # "idle" => r.exp \in Experiment
  PROVE  Jobs'
BY DEF Jobs

LEMMA Moved ==
  ASSUME NEW w \in Worker, NEW at \in Place, Jobs, Move(w, at),
         at # "idle" => job[w].exp \in Experiment
  PROVE  Jobs'
<1> DEFINE r == [job[w] EXCEPT !.at = at]
<1>1. r \in Job /\ r.at = at /\ r.exp = job[w].exp
  BY DEF Jobs, Job
<1>2. job' = [job EXCEPT ![w] = r]
  BY DEF Move
<1> QED BY <1>1, <1>2, Given

LEMMA Rested ==
  ASSUME NEW w \in Worker, Jobs, Rest(w)
  PROVE  Jobs'
<1>1. Idle \in Job /\ Idle.at = "idle"
  BY DEF Idle, Job, Place, Terminal, Result
<1> QED BY <1>1, Given DEF Rest

LEMMA DeclarerType ==
  ASSUME TypeOK, DeclarerStep
  PROVE  TypeOK'
<1> DEFINE e == job["declarer"].exp
           old == job["declarer"]
<1>0. "declarer" \in Worker /\ Jobs /\ old \in Job
  BY Workers DEF Jobs
<1>1. ASSUME NEW d \in Experiment, Choose(d)
      PROVE  TypeOK'
  <2> DEFINE r == [old EXCEPT !.at = "chosen", !.exp = d]
  <2>1. r \in Job /\ r.exp = d
    BY <1>0 DEF Job, Place
  <2>2. Jobs'
    <3>1. job' = [job EXCEPT !["declarer"] = r]
      BY <1>1 DEF Choose
    <3> QED BY <1>0, <2>1, <3>1, Given
  <2> QED BY <1>1, <2>2 DEF Choose, Jobs
<1>2. CASE Decline
  BY <1>0, <1>2, Rested DEF Decline, Jobs
<1>3. CASE Start
  <2>1. PICK at \in {"sent", "abort"} : Move("declarer", at)
    BY <1>3 DEF Start
  <2>2. at \in Place
    BY DEF Place
  <2>3. e \in Experiment
    BY <1>0, <1>3 DEF Start
  <2> QED BY <1>0, <1>3, <2>1, <2>2, <2>3, Moved DEF Start, Jobs
<1>4. CASE Started
  <2>1. e \in Experiment
    BY <1>0, <1>4 DEF Started
  <2>2. CASE Overtaken(e)
    <3> DEFINE r == [old EXCEPT !.at = "restrip", !.res = "applied"]
    <3>1. r \in Job /\ r.exp = e
      BY <1>0 DEF Job, Place, Result, Acting
    <3>2. job' = [job EXCEPT !["declarer"] = r]
      BY <1>4, <2>2 DEF Started
    <3>3. Jobs'
      BY <1>0, <2>1, <3>1, <3>2, Given
    <3> QED BY <1>4, <2>2, <3>3 DEF Started, Jobs
  <2>3. CASE ~Overtaken(e)
    <3>1. PICK how \in How : Log(e, Decision("RUNNING"), how)
      BY <1>4, <2>3 DEF Started
    <3>2. Decision("RUNNING") \in Line
      BY Lines DEF Status, Live
    <3>3. journal' \in [Experiment -> Journal] /\ spoiled' \in [Experiment -> How]
      BY <2>1, <3>1, <3>2, Logged
    <3>4. entry' \in [Experiment -> Status \cup {"absent"}]
      BY <1>4, <2>1, <2>3 DEF Started, Status, Live
    <3> QED BY <1>0, <1>4, <2>3, <3>3, <3>4, Rested DEF Started, Jobs
  <2> QED BY <2>2, <2>3
<1>5. CASE StartErred
  <2>1. PICK at \in {"restrip", "abort"} :
          job' = [job EXCEPT !["declarer"] = [old EXCEPT !.at = at, !.res = "refused"]]
    BY <1>5 DEF StartErred
  <2> DEFINE r == [old EXCEPT !.at = at, !.res = "refused"]
  <2>2. r \in Job /\ r.exp = e
    BY <1>0 DEF Job, Place, Result
  <2>3. e \in Experiment
    BY <1>0, <1>5 DEF StartErred
  <2>4. Jobs'
    BY <1>0, <2>1, <2>2, <2>3, Given
  <2> QED BY <1>5, <2>4 DEF StartErred, Jobs
<1>6. CASE AbortStart
  <2>1. CASE Open(e)
    <3> DEFINE r == [old EXCEPT !.at = "begin", !.end = "ABORTED"]
    <3>1. r \in Job /\ r.exp = e
      BY <1>0 DEF Job, Place, Terminal
    <3>2. job' = [job EXCEPT !["declarer"] = r] /\ e \in Experiment
      BY <1>0, <1>6, <2>1 DEF AbortStart
    <3>3. Jobs'
      BY <1>0, <3>1, <3>2, Given
    <3> QED BY <1>6, <3>3 DEF AbortStart, Jobs
  <2>2. CASE ~Open(e)
    BY <1>0, <1>6, <2>2, Rested DEF AbortStart, Jobs
  <2> QED BY <2>1, <2>2
<1>7. ASSUME NEW d \in Experiment, Declare(d)
      PROVE  TypeOK'
  <2>1. Decision("PROPOSED") \in Line
    BY Lines DEF Status, Live
  <2>2. [journal[d] EXCEPT !.made = TRUE] \in Journal
    BY ZenonT(40) DEF Journal
  <2>3. PICK how \in How :
          /\ journal' = [journal EXCEPT ![d] = AppendTo([@ EXCEPT !.made = TRUE],
                                                        Decision("PROPOSED"), how)]
          /\ spoiled' = [spoiled EXCEPT ![d] = Worse(@, how)]
    BY <1>7 DEF Declare
  <2>4. AppendTo([journal[d] EXCEPT !.made = TRUE], Decision("PROPOSED"), how) \in Journal
    BY <2>1, <2>2, Appended
  <2>5. journal' \in [Experiment -> Journal]
    BY <2>3, <2>4
  <2>6. spoiled' \in [Experiment -> How]
    BY <2>3 DEF Worse, How
  <2>7. entry' \in [Experiment -> Status \cup {"absent"}]
    BY <1>7 DEF Declare, Status, Live
  <2>8. "start" \in Place /\ job["declarer"].exp = d /\ Move("declarer", "start")
    BY <1>7 DEF Place, Declare, Chosen
  <2>9. Jobs'
    BY <1>0, <2>8, Moved
  <2> QED BY <1>7, <2>5, <2>6, <2>7, <2>9 DEF Declare, Jobs
<1>8. ASSUME NEW d \in Experiment, DeclareFails(d)
      PROVE  TypeOK'
  <2>1. journal' \in [Experiment -> Journal]
    BY <1>8 DEF DeclareFails, Journal
  <2>2. spoiled' \in [Experiment -> How]
    BY <1>8 DEF DeclareFails, Worse, How
  <2> QED BY <1>0, <1>8, <2>1, <2>2, Rested DEF DeclareFails, Jobs
<1> QED BY <1>1, <1>2, <1>3, <1>4, <1>5, <1>6, <1>7, <1>8 DEF DeclarerStep

LEMMA KeeperType ==
  ASSUME TypeOK, KeeperStep
  PROVE  TypeOK'
<1> DEFINE old == job["keeper"]
<1>0. "keeper" \in Worker /\ Jobs /\ old \in Job
  BY Workers DEF Jobs
<1>1. CASE Reasserted
  <2>1. old.exp \in Experiment /\ {"restrip", "idle"} \subseteq Place
    BY <1>0, <1>1 DEF Reasserted, Place
  <2>2. CASE Overtaken(old.exp)
    BY <1>0, <1>1, <2>1, <2>2, Moved DEF Reasserted, Jobs
  <2>3. CASE ~Overtaken(old.exp)
    BY <1>0, <1>1, <2>3, Rested DEF Reasserted, Jobs
  <2> QED BY <2>2, <2>3
<1>2. ASSUME NEW e \in Experiment, Reassert(e)
      PROVE  TypeOK'
  <2> DEFINE r == [old EXCEPT !.at = "sent", !.exp = e]
  <2>1. r \in Job /\ r.exp = e
    BY <1>0 DEF Job, Place
  <2>2. Jobs'
    <3>1. job' = [job EXCEPT !["keeper"] = r]
      BY <1>2 DEF Reassert
    <3> QED BY <1>0, <2>1, <3>1, Given
  <2> QED BY <1>2, <2>2 DEF Reassert, Jobs
<1>3. ASSUME NEW e \in Experiment, Discard(e)
      PROVE  TypeOK'
  <2> DEFINE r == [old EXCEPT !.at = "begin", !.exp = e, !.end = "DISCARDED"]
  <2>1. r \in Job /\ r.exp = e
    BY <1>0 DEF Job, Place, Terminal
  <2>2. Jobs'
    <3>1. job' = [job EXCEPT !["keeper"] = r]
      BY <1>3 DEF Discard
    <3> QED BY <1>0, <2>1, <3>1, Given
  <2> QED BY <1>3, <2>2 DEF Discard, Jobs
<1> QED BY <1>1, <1>2, <1>3 DEF KeeperStep

LEMMA TeardownType ==
  ASSUME TypeOK, NEW w \in Worker, Teardown(w)
  PROVE  TypeOK'
<1> DEFINE e == job[w].exp
<1>0. Jobs /\ job[w] \in Job /\ e \in Experiment
  BY DEF Jobs, Teardown, Begin, Strip, Record
<1>1. {"strip", "record"} \subseteq Place
  BY DEF Place
<1>2. CASE Begin(w)
  BY <1>0, <1>1, <1>2, Moved DEF Begin, Jobs
<1>3. CASE Strip(w)
  BY <1>0, <1>1, <1>3, Moved DEF Strip, Jobs
<1>4. CASE Record(w)
  <2>1. Jobs'
    BY <1>0, <1>4, Rested DEF Record
  <2>2. CASE Open(e)
    <3>1. PICK how \in How : Log(e, Outcome(job[w].end), how)
      BY <1>4, <2>2 DEF Record
    <3>2. job[w].end \in Terminal
      BY <1>0 DEF Job
    <3>3. journal' \in [Experiment -> Journal] /\ spoiled' \in [Experiment -> How]
      BY <1>0, <3>1, <3>2, Lines, Logged
    <3>4. entry' \in [Experiment -> Status \cup {"absent"}]
      BY <1>0, <1>4, <2>2, <3>2 DEF Record, Status
    <3> QED BY <1>4, <2>1, <3>3, <3>4 DEF Record, Jobs
  <2>3. CASE ~Open(e)
    BY <1>4, <2>1, <2>3 DEF Record, Jobs
  <2> QED BY <2>2, <2>3
<1> QED BY <1>2, <1>3, <1>4 DEF Teardown

LEMMA WriteType ==
  ASSUME TypeOK, NEW w \in Worker, Land(w) \/ Restrip(w)
  PROVE  TypeOK'
<1> DEFINE e == job[w].exp
<1>0. Jobs /\ e \in Experiment /\ {"landed", "abort"} \subseteq Place
  BY DEF Jobs, Land, Restrip, Place
<1>1. CASE Land(w)
  BY <1>0, <1>1, Moved DEF Land, Jobs
<1>2. CASE Restrip(w)
  <2>1. Jobs'
    BY <1>0, <1>2, Moved, Rested DEF Restrip
  <2>2. journal' \in [Experiment -> Journal]
    <3>1. CASE UNCHANGED journal
      BY <3>1
    <3>2. CASE journal' = [journal EXCEPT ![e] = AppendTo(@, Leaked, "ok")]
      <4>1. AppendTo(journal[e], Leaked, "ok") \in Journal
        BY <1>0, Lines, Appended DEF How
      <4> QED BY <3>2, <4>1
    <3> QED BY <1>2, <3>1, <3>2 DEF Restrip
  <2>3. branch' \subseteq Experiment /\ leak' \subseteq Experiment
    BY <1>0, <1>2 DEF Restrip
  <2> QED BY <1>2, <2>1, <2>2, <2>3 DEF Restrip, Jobs
<1> QED BY <1>1, <1>2

\* A later outcome of a promotion, appended to a journal or held back.
LEMMA LaterType ==
  ASSUME TypeOK, NEW e \in Experiment, NEW r \in Later
  PROVE  /\ AppendTo(journal[e], After(r), "ok") \in Journal
         /\ Append(held[e], After(r)) \in Seq(Line)
BY Lines, Appended DEF How

LEMMA CloserType ==
  ASSUME TypeOK, PresentInv, NEW e \in Experiment,
         Conclude(e) \/ CloserStep(e) \/ RecordPromotion(e)
  PROVE  TypeOK'
<1>0. e \in Worker /\ Jobs /\ job[e] \in Job /\ (job[e].at # "idle" => job[e].exp = e)
  BY Workers DEF Jobs, PresentInv
<1>p. {"verdict", "finish", "acting", "result", "begin"} \subseteq Place
  BY DEF Place
<1>1. CASE Conclude(e)
  <2>1. PICK how \in How : Log(e, Decision("CONCLUDED"), how)
    BY <1>1 DEF Conclude
  <2>2. Decision("CONCLUDED") \in Line
    BY Lines DEF Status
  <2>3. journal' \in [Experiment -> Journal] /\ spoiled' \in [Experiment -> How]
    BY <2>1, <2>2, Logged
  <2>4. PICK at \in {"verdict", "finish"} :
          job' = [job EXCEPT ![e] = [job[e] EXCEPT !.at = at, !.exp = e]]
    BY <1>1 DEF Conclude
  <2> DEFINE r == [job[e] EXCEPT !.at = at, !.exp = e]
  <2>5. r \in Job /\ r.exp = e
    BY <1>0, <1>p DEF Job
  <2>6. Jobs'
    BY <1>0, <2>4, <2>5, Given
  <2>7. entry' \in [Experiment -> Status \cup {"absent"}]
    BY <1>1 DEF Conclude, Status
  <2> QED BY <1>1, <2>3, <2>6, <2>7 DEF Conclude, Jobs
<1>2. CASE Promote(e)
  <2>1. Decision("PROMOTING") \in Line /\ Own("refused") \in Line
    BY Lines DEF Status, Result
  <2>2. \/ UNCHANGED <<journal, spoiled>>
        \/ \E how \in How, line \in {Decision("PROMOTING"), Own("refused")} : Log(e, line, how)
    BY <1>2 DEF Promote
  <2>3. journal' \in [Experiment -> Journal] /\ spoiled' \in [Experiment -> How]
    BY <2>1, <2>2, Logged
  <2>4. \E at \in {"finish", "acting", "result"} : Move(e, at)
    BY <1>2 DEF Promote
  <2>5. Jobs'
    BY <1>0, <1>2, <1>p, <2>4, Moved DEF Promote
  <2>6. /\ entry' \in [Experiment -> Status \cup {"absent"}]
        /\ inFlight' \subseteq Experiment
    BY <1>2 DEF Promote, Status
  <2> QED BY <1>2, <2>3, <2>5, <2>6 DEF Promote, Jobs
<1>3. CASE Act(e)
  <2>1. PICK res \in Result : /\ job' = [job EXCEPT ![e] = [@ EXCEPT !.at = "result", !.res = res]]
                              /\ acted' = [acted EXCEPT ![e] = @ + IF res \in Acting THEN 1 ELSE 0]
                              /\ queue' = [queue EXCEPT ![e] = CASE res = "deferred" -> "waits"
                                            [] res = "applied" -> "applied"
                                            [] OTHER -> @]
    BY <1>3 DEF Act
  <2> DEFINE r == [job[e] EXCEPT !.at = "result", !.res = res]
  <2>2. r \in Job /\ r.exp = e
    BY <1>0, <1>3, <1>p DEF Job, Act
  <2>3. Jobs'
    BY <1>0, <2>1, <2>2, Given
  <2>4. acted' \in [Experiment -> Nat]
    BY <2>1
  <2>5. queue' \in [Experiment -> {"none", "waits", "applied"}]
    BY <2>1
  <2> QED BY <1>3, <2>3, <2>4, <2>5 DEF Act, Jobs
<1>4. CASE JournalResult(e)
  <2>1. job[e].res \in Result /\ held[e] \in Seq(Line)
    BY <1>0 DEF Job
  <2>2. PICK how \in How :
          LET own == AppendTo(journal[e], Own(job[e].res), how)
              one == IF Len(held[e]) > 0 THEN AppendTo(own, held[e][1], "ok") ELSE own
              two == IF Len(held[e]) > 1 THEN AppendTo(one, held[e][2], "ok") ELSE one
          IN  /\ journal' = [journal EXCEPT ![e] = two]
              /\ spoiled' = [spoiled EXCEPT ![e] = Worse(@, how)]
    BY <1>4 DEF JournalResult
  <2> DEFINE own == AppendTo(journal[e], Own(job[e].res), how)
             one == IF Len(held[e]) > 0 THEN AppendTo(own, held[e][1], "ok") ELSE own
             two == IF Len(held[e]) > 1 THEN AppendTo(one, held[e][2], "ok") ELSE one
  <2>3. own \in Journal
    BY <2>1, Lines, Appended
  <2>4. one \in Journal
    <3>1. CASE Len(held[e]) > 0
      <4>1. held[e][1] \in Line
        BY <2>1, <3>1
      <4> HIDE DEF own
      <4> QED BY <2>3, <4>1, Appended DEF How
    <3>2. CASE ~(Len(held[e]) > 0)
      BY <2>3, <3>2
    <3> QED BY <3>1, <3>2
  <2>5. two \in Journal
    <3>1. CASE Len(held[e]) > 1
      <4>1. held[e][2] \in Line
        BY <2>1, <3>1
      <4> HIDE DEF one
      <4> QED BY <2>4, <4>1, Appended DEF How
    <3>2. CASE ~(Len(held[e]) > 1)
      BY <2>4, <3>2
    <3> QED BY <3>1, <3>2
  <2>6. journal' \in [Experiment -> Journal]
    <3>1. journal' = [journal EXCEPT ![e] = two]
      BY <2>2
    <3> HIDE DEF two
    <3> QED BY <2>5, <3>1
  <2>7. spoiled' \in [Experiment -> How]
    BY <2>2 DEF Worse, How
  <2>8. held' \in [Experiment -> Seq(Line)]
    BY <1>4 DEF JournalResult
  <2>9. Jobs'
    BY <1>0, <1>4, <1>p, Moved DEF JournalResult
  <2> QED BY <1>4, <2>6, <2>7, <2>8, <2>9 DEF JournalResult, Jobs
<1>5. CASE Finish(e)
  <2> DEFINE end == CASE ~Open(e) -> entry[e]
                      [] Open(e) /\ job[e].res \in Acting -> "DONE"
                      [] OTHER -> "DISCARDED"
             r == [job[e] EXCEPT !.at = "begin", !.end = end]
  <2>1. entry[e] # "absent"
    BY <1>0, <1>5 DEF Finish, PresentInv
  <2>2. end \in Terminal
    BY <2>1 DEF Open, Terminal
  <2>3. r \in Job /\ r.exp = e
    <3> HIDE DEF end
    <3> QED BY <1>0, <1>5, <1>p, <2>2 DEF Job, Finish
  <2>4. Jobs'
    <3>1. job' = [job EXCEPT ![e] = r]
      BY <1>5 DEF Finish
    <3> QED BY <1>0, <2>3, <3>1, Given
  <2> QED BY <1>5, <2>4 DEF Finish, Jobs
<1>6. CASE RecordPromotion(e)
  <2>1. PICK res \in {"applied", "refused", "reverted"} :
          /\ queue' = [queue EXCEPT ![e] = IF res = "applied" THEN "applied" ELSE "none"]
          /\ IF e \in inFlight
             THEN /\ held' = [held EXCEPT ![e] = Append(@, After(res))]
                  /\ UNCHANGED journal
             ELSE /\ journal' = [journal EXCEPT ![e] = AppendTo(@, After(res), "ok")]
                  /\ UNCHANGED held
    BY <1>6 DEF RecordPromotion
  <2>2. /\ AppendTo(journal[e], After(res), "ok") \in Journal
        /\ Append(held[e], After(res)) \in Seq(Line)
    BY LaterType DEF Later
  <2>3. journal' \in [Experiment -> Journal] /\ held' \in [Experiment -> Seq(Line)]
    BY <2>1, <2>2
  <2>4. queue' \in [Experiment -> {"none", "waits", "applied"}]
    BY <2>1
  <2> QED BY <1>6, <2>3, <2>4 DEF RecordPromotion
<1> QED BY <1>1, <1>2, <1>3, <1>4, <1>5, <1>6 DEF CloserStep

\* What Rehydrate makes of a journal has its type.
LEMMA SweptType ==
  ASSUME TypeOK, NEW e \in Experiment
  PROVE  /\ Swept(e) \in Journal
         /\ Folded(Found(e)) \in Status
<1>1. Recovered(journal[e]) \in Journal
  BY RecoveredType
<1>2. Found(e) \in Seq(Line)
  BY <1>1 DEF Found, Journal
<1>3. After("lost") \in Line /\ "ok" \in How
  BY Lines DEF Later, How
<1> QED BY <1>1, <1>2, <1>3, Appended, FoldedStatus DEF Swept

LEMMA RestoredEndType ==
  ASSUME NEW e \in Experiment
  PROVE  RestoredEnd(e) \in Terminal
BY DEF RestoredEnd, Terminal

LEMMA RehydrateType ==
  ASSUME TypeOK, Rehydrate
  PROVE  TypeOK'
<1> DEFINE back == {e \in Foreign : Folded(Found(e)) \notin Terminal}
<1>1. back \subseteq Experiment /\ Foreign \subseteq Experiment
  BY DEF Foreign
<1>2. journal' \in [Experiment -> Journal]
  <2>1. journal' = [e \in Experiment |-> IF e \in Foreign THEN Swept(e) ELSE journal[e]]
    BY DEF Rehydrate
  <2> QED BY <2>1, SweptType
<1>3. entry' \in [Experiment -> Status \cup {"absent"}]
  <2>1. entry' = [e \in Experiment |-> IF e \in back THEN Folded(Found(e)) ELSE entry[e]]
    BY DEF Rehydrate
  <2> HIDE DEF back
  <2> QED BY <2>1, SweptType
<1>4. todo' \subseteq Experiment \X {"abort", "unstarted", "unfinished", "lost"}
  <2>1. PICK pick \in [back -> {"unstarted", "unfinished", "resumes", "lost"}] :
          todo' = {<<e, pick[e]>> : e \in {f \in back : pick[f] # "resumes"}}
    BY DEF Rehydrate
  <2> HIDE DEF back
  <2> QED BY <1>1, <2>1
<1>5. beside' \subseteq Experiment \X Experiment
  <2>1. PICK new : /\ new \subseteq back \X Experiment
                   /\ beside' = beside \cup new
    BY DEF Rehydrate
  <2> HIDE DEF back
  <2> QED BY <1>1, <2>1
<1> QED BY <1>2, <1>3, <1>4, <1>5 DEF Rehydrate

LEMMA LoopType ==
  ASSUME TypeOK, LoopStep
  PROVE  TypeOK'
<1>1. CASE TickOff
  BY <1>1 DEF TickOff
<1>2. CASE Rehydrate
  BY <1>2, RehydrateType
<1>3. CASE LoopStops
  <2> DEFINE waiting == {e \in Experiment : queue[e] = "waits"}
  <2>1. /\ queue' = [e \in Experiment |-> IF e \in waiting THEN "none" ELSE queue[e]]
        /\ held' = [e \in Experiment |-> IF e \in waiting \cap inFlight
                                         THEN Append(held[e], After("refused")) ELSE held[e]]
        /\ journal' = [e \in Experiment |-> IF e \in waiting \ inFlight
                                            THEN AppendTo(journal[e], After("refused"), "ok")
                                            ELSE journal[e]]
    BY <1>3 DEF LoopStops
  <2> HIDE DEF waiting
  <2>2. \A e \in Experiment : /\ AppendTo(journal[e], After("refused"), "ok") \in Journal
                              /\ Append(held[e], After("refused")) \in Seq(Line)
    BY LaterType DEF Later
  <2>3. journal' \in [Experiment -> Journal] /\ held' \in [Experiment -> Seq(Line)]
    BY <2>1, <2>2
  <2>4. queue' \in [Experiment -> {"none", "waits", "applied"}]
    BY <2>1
  <2> QED BY <1>3, <2>3, <2>4 DEF LoopStops
<1>4. CASE LoopReturns
  BY <1>4 DEF LoopReturns
<1>5. ASSUME NEW e \in Experiment, NEW why \in {"abort", "unstarted", "unfinished", "lost"},
             TakeNext(e, why)
      PROVE  TypeOK'
  <2>1. \/ UNCHANGED job
        \/ \E end \in Terminal :
             job' = [job EXCEPT !["loop"] = [@ EXCEPT !.at = "begin", !.exp = e, !.end = end]]
    BY <1>5, RestoredEndType DEF TakeNext, Terminal
  <2>2. Jobs'
    <3>1. CASE UNCHANGED job
      BY <3>1 DEF Jobs
    <3>2. ASSUME NEW end \in Terminal,
                 job' = [job EXCEPT !["loop"] = [@ EXCEPT !.at = "begin", !.exp = e, !.end = end]]
          PROVE  Jobs'
      <4> DEFINE r == [job["loop"] EXCEPT !.at = "begin", !.exp = e, !.end = end]
      <4>1. "loop" \in Worker /\ Jobs /\ job["loop"] \in Job
        BY Workers DEF Jobs
      <4>2. r \in Job /\ r.exp = e
        BY <4>1 DEF Job, Place
      <4> QED BY <3>2, <4>1, <4>2, Given
    <3> QED BY <2>1, <3>1, <3>2
  <2> QED BY <1>5, <2>2 DEF TakeNext, Jobs
<1> QED BY <1>1, <1>2, <1>3, <1>4, <1>5 DEF LoopStep

LEMMA WorldType ==
  ASSUME TypeOK, Stop \/ Crash \/ Flip \/ FlagServiceRestarts
  PROVE  TypeOK'
<1>1. CASE Stop
  BY <1>1 DEF Stop
<1>2. CASE Crash
  <2>1. Idle \in Job /\ Idle.at = "idle"
    BY DEF Idle, Job, Place, Terminal, Result
  <2>2. Jobs'
    BY <1>2, <2>1 DEF Crash, Jobs
  <2>3. {job[w].exp : w \in {v \in Worker : job[v].at = "sent"}} \subseteq Experiment
    <3>1. \A v \in Worker : job[v].at = "sent" => job[v].exp \in Experiment
      OBVIOUS
    <3> QED BY <3>1
  <2>4. branch' \subseteq Experiment
    BY <1>2, <2>3 DEF Crash
  <2>5. held' \in [Experiment -> Seq(Line)]
    BY <1>2 DEF Crash
  <2> QED BY <1>2, <2>2, <2>4, <2>5 DEF Crash, Jobs
<1>3. CASE Flip
  BY <1>3 DEF Flip
<1>4. CASE FlagServiceRestarts
  BY <1>4 DEF FlagServiceRestarts
<1> QED BY <1>1, <1>2, <1>3, <1>4

LEMMA TypeStep ==
  ASSUME TypeOK, PresentInv, [Next]_vars
  PROVE  TypeOK'
<1>1. CASE Next
  BY <1>1, DeclarerType, KeeperType, LoopType, CloserType, TeardownType, WriteType, WorldType
     DEF Next
<1>2. CASE UNCHANGED vars
  BY <1>2 DEF vars
<1> QED BY <1>1, <1>2

-----------------------------------------------------------------------------
(* Work is about experiments the registry holds *)

LEMMA ApartFromExperiments ==
  "loop" \notin Experiment /\ "declarer" \notin Experiment /\ "keeper" \notin Experiment
BY ExperimentAssumption

\* A step that makes no entry absent, adds no end to do, begins no teardown,
\* and gives a worker a job about an experiment the registry holds.
LEMMA PresentKept ==
  ASSUME TypeOK, PresentInv, NEW w \in Worker,
         \A e \in Experiment : entry[e] # "absent" => entry'[e] # "absent",
         todo' \subseteq todo, begun' \subseteq begun,
         \A v \in Worker : v # w => job'[v] = job[v],
         job'[w].at \notin {"idle", "chosen"} =>
             job'[w].exp \in Experiment /\ entry'[job'[w].exp] # "absent",
         w \in Experiment /\ job'[w].at # "idle" => job'[w].exp = w
  PROVE  PresentInv'
<1>1. \A v \in Worker : job'[v].at \notin {"idle", "chosen"} => entry'[job'[v].exp] # "absent"
  BY DEF PresentInv
<1>2. \A t \in todo : t[1] \in Experiment
  OBVIOUS
<1>3. \A t \in todo' : entry'[t[1]] # "absent"
  BY <1>2 DEF PresentInv
<1>4. \A e \in Experiment : job'[e].at # "idle" => job'[e].exp = e
  BY DEF PresentInv, Worker
<1>5. \A e \in begun' : entry'[e] # "absent"
  BY DEF PresentInv
<1> QED BY <1>1, <1>3, <1>4, <1>5 DEF PresentInv

LEMMA MoveFrame ==
  ASSUME job \in [Worker -> Job], NEW w \in Worker, NEW at, Move(w, at)
  PROVE  /\ \A v \in Worker : v # w => job'[v] = job[v]
         /\ job'[w].at = at /\ job'[w].exp = job[w].exp
         /\ job'[w].end = job[w].end /\ job'[w].res = job[w].res
BY DEF Move, Job

LEMMA RestFrame ==
  ASSUME job \in [Worker -> Job], NEW w \in Worker, Rest(w)
  PROVE  /\ \A v \in Worker : v # w => job'[v] = job[v]
         /\ job'[w].at = "idle"
BY DEF Rest, Idle

LEMMA PresentDeclarer ==
  ASSUME TypeOK, PresentInv, DeclarerStep
  PROVE  PresentInv'
<1>0. /\ "declarer" \in Worker /\ "declarer" \notin Experiment
      /\ job["declarer"].at \notin {"idle", "chosen"} =>
           job["declarer"].exp \in Experiment /\ entry[job["declarer"].exp] # "absent"
      /\ job["declarer"] \in Job
  BY Workers, ApartFromExperiments DEF PresentInv
<1>1. ASSUME NEW d \in Experiment, Choose(d)
      PROVE  PresentInv'
  BY <1>0, <1>1, PresentKept DEF Choose, Job
<1>2. CASE Decline
  BY <1>0, <1>2, PresentKept DEF Decline, Rest, Idle
<1>3. CASE Start
  BY <1>0, <1>3, PresentKept DEF Start, Move, Job
<1>4. CASE Started
  <2>1. /\ \A v \in Worker : v # "declarer" => job'[v] = job[v]
        /\ job'["declarer"].at = "idle" \/ job'["declarer"].exp = job["declarer"].exp
    <3>1. CASE Rest("declarer")
      BY <1>0, <3>1, RestFrame
    <3>2. CASE job' = [job EXCEPT !["declarer"] = [@ EXCEPT !.at = "restrip", !.res = "applied"]]
      BY <1>0, <3>2 DEF Job
    <3> QED BY <1>4, <3>1, <3>2 DEF Started
  <2>2. \A f \in Experiment : entry[f] # "absent" => entry'[f] # "absent"
    BY <1>0, <1>4 DEF Started
  <2>3. todo' = todo /\ begun' = begun
    BY <1>4 DEF Started
  <2>4. job["declarer"].exp \in Experiment /\ entry[job["declarer"].exp] # "absent"
    BY <1>0, <1>4 DEF Started
  <2> QED BY <1>0, <2>1, <2>2, <2>3, <2>4, PresentKept
<1>5. CASE StartErred
  BY <1>0, <1>5, PresentKept DEF StartErred, Job
<1>6. CASE AbortStart
  <2>1. /\ \A v \in Worker : v # "declarer" => job'[v] = job[v]
        /\ job'["declarer"].at = "idle" \/ job'["declarer"].exp = job["declarer"].exp
    <3>1. CASE Rest("declarer")
      BY <1>0, <3>1, RestFrame
    <3>2. CASE job' = [job EXCEPT !["declarer"] = [@ EXCEPT !.at = "begin", !.end = "ABORTED"]]
      BY <1>0, <3>2 DEF Job
    <3> QED BY <1>6, <3>1, <3>2 DEF AbortStart
  <2>2. entry' = entry /\ todo' = todo /\ begun' = begun
    BY <1>6 DEF AbortStart
  <2>3. job["declarer"].exp \in Experiment /\ entry[job["declarer"].exp] # "absent"
    BY <1>0, <1>6 DEF AbortStart
  <2> QED BY <1>0, <2>1, <2>2, <2>3, PresentKept
<1>7. ASSUME NEW d \in Experiment, Declare(d)
      PROVE  PresentInv'
  BY <1>0, <1>7, PresentKept DEF Declare, Chosen, Move, Job
<1>8. ASSUME NEW d \in Experiment, DeclareFails(d)
      PROVE  PresentInv'
  BY <1>0, <1>8, PresentKept DEF DeclareFails, Rest, Idle
<1> QED BY <1>1, <1>2, <1>3, <1>4, <1>5, <1>6, <1>7, <1>8 DEF DeclarerStep

LEMMA PresentWorkers ==
  ASSUME TypeOK, PresentInv, NEW w \in Worker, Teardown(w) \/ Land(w) \/ Restrip(w)
  PROVE  PresentInv'
<1> DEFINE e == job[w].exp
<1>0. /\ job[w].at \notin {"idle", "chosen"}
      /\ e \in Experiment /\ entry[e] # "absent"
      /\ w \in Experiment => e = w
      /\ job[w] \in Job
  BY DEF PresentInv, Teardown, Begin, Strip, Record, Land, Restrip
<1>1. CASE Begin(w)
  <2>1. /\ \A v \in Worker : v # w => job'[v] = job[v]
        /\ job'[w].exp = e /\ job'[w].at = "strip"
    BY <1>0, <1>1 DEF Begin, Move, Job
  <2>2. entry' = entry /\ todo' = todo /\ begun' = begun \cup {e}
    BY <1>1 DEF Begin
  <2> QED BY ZenonT(40), <1>0, <2>1, <2>2 DEF PresentInv, Worker
<1>2. CASE Strip(w)
  BY <1>0, <1>2, PresentKept DEF Strip, Move, Job
<1>3. CASE Record(w)
  <2>1. \A f \in Experiment : entry[f] # "absent" => entry'[f] # "absent"
    BY <1>0, <1>3 DEF Record, Job, Terminal
  <2> QED BY <1>0, <1>3, <2>1, PresentKept DEF Record, Rest, Idle
<1>4. CASE Land(w)
  BY <1>0, <1>4, PresentKept DEF Land, Move, Job
<1>5. CASE Restrip(w)
  <2>1. /\ \A v \in Worker : v # w => job'[v] = job[v]
        /\ job'[w].at = "idle" \/ job'[w].exp = e
    BY <1>0, <1>5 DEF Restrip, Move, Rest, Idle, Job
  <2>2. entry' = entry /\ todo' = todo /\ begun' = begun
    BY <1>5 DEF Restrip
  <2> QED BY <1>0, <2>1, <2>2, PresentKept
<1> QED BY <1>1, <1>2, <1>3, <1>4, <1>5 DEF Teardown

LEMMA PresentKeeper ==
  ASSUME TypeOK, PresentInv, KeeperStep
  PROVE  PresentInv'
<1>0. "keeper" \in Worker /\ "keeper" \notin Experiment /\ job["keeper"] \in Job
  BY Workers, ApartFromExperiments
<1>1. CASE Reasserted
  <2>1. job["keeper"].exp \in Experiment /\ entry[job["keeper"].exp] # "absent"
    BY <1>0, <1>1 DEF Reasserted, PresentInv
  <2>2. /\ \A v \in Worker : v # "keeper" => job'[v] = job[v]
        /\ job'["keeper"].at = "idle" \/ job'["keeper"].exp = job["keeper"].exp
    BY <1>0, <1>1 DEF Reasserted, Move, Rest, Idle, Job
  <2>3. entry' = entry /\ todo' = todo /\ begun' = begun
    BY <1>1 DEF Reasserted
  <2> QED BY <1>0, <2>1, <2>2, <2>3, PresentKept
<1>2. ASSUME NEW e \in Experiment, Reassert(e)
      PROVE  PresentInv'
  BY <1>0, <1>2, PresentKept DEF Reassert, Open, Job
<1>3. ASSUME NEW e \in Experiment, Discard(e)
      PROVE  PresentInv'
  BY <1>0, <1>3, PresentKept DEF Discard, Job
<1> QED BY <1>1, <1>2, <1>3 DEF KeeperStep

LEMMA PresentCloser ==
  ASSUME TypeOK, PresentInv, NEW e \in Experiment,
         Conclude(e) \/ CloserStep(e) \/ RecordPromotion(e)
  PROVE  PresentInv'
<1>0. e \in Worker /\ job[e] \in Job
  BY Workers
<1>1. CASE Conclude(e)
  BY <1>0, <1>1, PresentKept DEF Conclude, Job
<1>2. CASE RecordPromotion(e)
  BY <1>2, PresentKept, <1>0 DEF RecordPromotion, PresentInv
<1>3. CASE CloserStep(e)
  <2>1. /\ job[e].at \notin {"idle", "chosen"} /\ job[e].exp = e /\ entry[e] # "absent"
    BY <1>0, <1>3 DEF PresentInv, CloserStep, Promote, Act, JournalResult, Finish
  <2>2. CASE Promote(e)
    <3>1. /\ \A v \in Worker : v # e => job'[v] = job[v]
          /\ job'[e].exp = e
      BY <1>0, <2>1, <2>2 DEF Promote, Move, Job
    <3>2. \A f \in Experiment : entry[f] # "absent" => entry'[f] # "absent"
      BY <2>2 DEF Promote
    <3>3. todo' = todo /\ begun' = begun
      BY <2>2 DEF Promote
    <3> QED BY <1>0, <2>1, <3>1, <3>2, <3>3, PresentKept
  <2>3. CASE Act(e)
    BY <1>0, <2>1, <2>3, PresentKept DEF Act, Job
  <2>4. CASE JournalResult(e)
    BY <1>0, <2>1, <2>4, PresentKept DEF JournalResult, Move, Job
  <2>5. CASE Finish(e)
    BY <1>0, <2>1, <2>5, PresentKept DEF Finish, Job
  <2> QED BY <1>3, <2>2, <2>3, <2>4, <2>5 DEF CloserStep
<1> QED BY <1>1, <1>2, <1>3

\* What Rehydrate does to the entries, in this and the following proofs.
LEMMA Rehydrated ==
  ASSUME TypeOK, Rehydrate
  PROVE  \E back \in SUBSET Experiment :
           /\ \A e \in back : /\ entry[e] = "absent"
                              /\ entry'[e] \in Status \ Terminal
           /\ \A e \in Experiment \ back : entry'[e] = entry[e]
           /\ beside' = beside \cup
                {p \in back \X Experiment : p[1] # p[2] /\ FlagOf[p[1]] = FlagOf[p[2]]
                                            /\ (p[2] \in back \/ Open(p[2]) \/ Chosen(p[2]))}
           /\ \A t \in todo' : t[1] \in back
           /\ UNCHANGED <<begun, branch, leak, job, life>>
<1> DEFINE back == {e \in Foreign : Folded(Found(e)) \notin Terminal}
<1>1. back \in SUBSET Experiment /\ \A e \in back : entry[e] = "absent"
  BY DEF Foreign
<1>2. \A e \in back : Folded(Found(e)) \in Status \ Terminal
  <2> SUFFICES ASSUME NEW e \in back PROVE Folded(Found(e)) \in Status \ Terminal
    OBVIOUS
  <2> QED BY <1>1, SweptType
<1>3. entry' = [e \in Experiment |-> IF e \in back THEN Folded(Found(e)) ELSE entry[e]]
  BY DEF Rehydrate
<1>4. \A t \in todo' : t[1] \in back
  <2>1. PICK pick \in [back -> {"unstarted", "unfinished", "resumes", "lost"}] :
          todo' = {<<e, pick[e]>> : e \in {f \in back : pick[f] # "resumes"}}
    BY DEF Rehydrate
  <2> HIDE DEF back
  <2> QED BY <2>1
<1>5. /\ beside' = beside \cup
           {p \in back \X Experiment : p[1] # p[2] /\ FlagOf[p[1]] = FlagOf[p[2]]
                                       /\ (p[2] \in back \/ Open(p[2]) \/ Chosen(p[2]))}
      /\ UNCHANGED <<begun, branch, leak, job, life>>
  BY DEF Rehydrate
<1> HIDE DEF back
<1> QED BY <1>1, <1>2, <1>3, <1>4, <1>5

LEMMA PresentLoop ==
  ASSUME TypeOK, PresentInv, LoopStep
  PROVE  PresentInv'
<1>0. "loop" \in Worker /\ "loop" \notin Experiment /\ job["loop"] \in Job
  BY Workers, ApartFromExperiments
<1>1. CASE TickOff
  BY <1>1 DEF TickOff, PresentInv, Open
<1>2. CASE Rehydrate
  <2>1. PICK back \in SUBSET Experiment :
           /\ \A e \in back : /\ entry[e] = "absent"
                              /\ entry'[e] \in Status \ Terminal
           /\ \A e \in Experiment \ back : entry'[e] = entry[e]
           /\ \A t \in todo' : t[1] \in back
           /\ UNCHANGED <<begun, branch, leak, job, life>>
    BY <1>2, Rehydrated
  <2>2. \A e \in back : entry'[e] # "absent"
    BY <2>1 DEF Status, Live, Terminal
  <2>3. \A e \in Experiment : entry[e] # "absent" => entry'[e] # "absent"
    BY <2>1
  <2> QED BY <2>1, <2>2, <2>3 DEF PresentInv
<1>3. CASE LoopStops
  BY <1>3 DEF LoopStops, PresentInv, Open
<1>4. CASE LoopReturns
  BY <1>4 DEF LoopReturns, PresentInv
<1>5. ASSUME NEW e \in Experiment, NEW why \in {"abort", "unstarted", "unfinished", "lost"},
             TakeNext(e, why)
      PROVE  PresentInv'
  <2>1. /\ entry' = entry /\ begun' = begun /\ todo' \subseteq todo
        /\ job["loop"].at = "idle" /\ entry[e] # "absent"
    BY <1>5 DEF TakeNext, PresentInv, Idle
  <2>2. CASE UNCHANGED job
    BY <2>1, <2>2 DEF PresentInv
  <2>3. CASE job' # job
    <3>1. PICK end :
            job' = [job EXCEPT !["loop"] = [@ EXCEPT !.at = "begin", !.exp = e, !.end = end]]
      BY <1>5, <2>3 DEF TakeNext
    <3>2. /\ \A v \in Worker : v # "loop" => job'[v] = job[v]
          /\ job'["loop"].exp = e
      BY <1>0, <3>1 DEF Job
    <3> QED BY <1>0, <2>1, <3>2, PresentKept
  <2> QED BY <2>2, <2>3
<1> QED BY <1>1, <1>2, <1>3, <1>4, <1>5 DEF LoopStep

LEMMA PresentWorld ==
  ASSUME TypeOK, PresentInv, Stop \/ Crash \/ Flip \/ FlagServiceRestarts
  PROVE  PresentInv'
<1>1. CASE Stop
  BY <1>1 DEF Stop, PresentInv
<1>2. CASE Crash
  BY <1>2 DEF Crash, PresentInv, Idle, Worker
<1>3. CASE Flip
  BY <1>3 DEF Flip, PresentInv
<1>4. CASE FlagServiceRestarts
  BY <1>4 DEF FlagServiceRestarts, PresentInv
<1> QED BY <1>1, <1>2, <1>3, <1>4

LEMMA PresentStep ==
  ASSUME TypeOK, PresentInv, [Next]_vars
  PROVE  PresentInv'
<1>1. CASE Next
  BY <1>1, PresentDeclarer, PresentKeeper, PresentLoop, PresentCloser, PresentWorkers,
     PresentWorld DEF Next
<1>2. CASE UNCHANGED vars
  BY <1>2 DEF vars, PresentInv
<1> QED BY <1>1, <1>2

-----------------------------------------------------------------------------
(* One live experiment per flag *)

\* A step that opens nothing and chooses nothing keeps it.
LEMMA FlagKept ==
  ASSUME ChosenInv, OneLivePerFlag, beside \subseteq beside',
         \A e \in Experiment : Open(e)' => Open(e),
         \A e \in Experiment : Chosen(e)' => Chosen(e)
  PROVE  ChosenInv' /\ OneLivePerFlag'
BY DEF ChosenInv, OneLivePerFlag

\* What a worker that is not the declarer, or one past its choice, does to the choice.
LEMMA NotChosen ==
  ASSUME TypeOK, NEW w \in Worker, NEW e \in Experiment, Chosen(e)',
         \A v \in Worker : v # w => job'[v] = job[v],
         job'[w].at # "chosen"
  PROVE  Chosen(e)
<1>1. w # "declarer"
  BY DEF Chosen
<1> QED BY <1>1, Workers DEF Chosen

LEMMA FlagStep ==
  ASSUME TypeOK, PresentInv, ChosenInv, OneLivePerFlag, [Next]_vars
  PROVE  ChosenInv' /\ OneLivePerFlag'
<1>0. "declarer" \in Worker /\ job["declarer"] \in Job /\ job \in [Worker -> Job]
  BY Workers
<1>1. ASSUME UNCHANGED <<entry, beside>>, NEW w \in Worker, job'[w].at # "chosen",
             \A v \in Worker : v # w => job'[v] = job[v]
      PROVE  ChosenInv' /\ OneLivePerFlag'
  <2>1. \A e \in Experiment : Open(e)' => Open(e)
    BY <1>1 DEF Open
  <2> QED BY <1>1, <2>1, FlagKept, NotChosen
<1>2. ASSUME NEW d \in Experiment, Choose(d)
      PROVE  ChosenInv' /\ OneLivePerFlag'
  <2>1. UNCHANGED <<entry, beside>> /\ \A f \in Experiment : FlagOf[f] = FlagOf[d] => ~Open(f)
    BY <1>2 DEF Choose, Busy
  <2>2. job'["declarer"].exp = d
    BY <1>0, <1>2 DEF Choose, Job
  <2>3. \A e \in Experiment : Chosen(e)' => e = d
    BY <2>2 DEF Chosen
  <2> QED BY <2>1, <2>3 DEF ChosenInv, OneLivePerFlag, Open
<1>3. ASSUME NEW d \in Experiment, Declare(d)
      PROVE  ChosenInv' /\ OneLivePerFlag'
  <2>1. Chosen(d) /\ beside' = beside /\ \A f \in Experiment : f # d => entry'[f] = entry[f]
    BY <1>3 DEF Declare
  <2>2. \A f \in Experiment : f # d => (Open(f)' <=> Open(f))
    BY <2>1 DEF Open
  <2>3. job'["declarer"].at = "start"
    BY <1>0, <1>3, MoveFrame DEF Declare
  <2>4. ChosenInv'
    BY <2>3 DEF ChosenInv, Chosen
  <2>5. SUFFICES ASSUME NEW e \in Experiment, NEW f \in Experiment, e # f,
                        FlagOf[e] = FlagOf[f], Open(e)', Open(f)'
                 PROVE  <<e, f>> \in beside \/ <<f, e>> \in beside
    BY <2>1, <2>4 DEF OneLivePerFlag
  <2>6. CASE e = d
    BY <2>1, <2>2, <2>5, <2>6 DEF ChosenInv
  <2>7. CASE f = d
    BY <2>1, <2>2, <2>5, <2>7 DEF ChosenInv
  <2>8. CASE e # d /\ f # d
    BY <2>2, <2>5, <2>8 DEF OneLivePerFlag
  <2> QED BY <2>6, <2>7, <2>8
<1>4. CASE Started
  <2>1. entry' = entry \/ /\ Open(job["declarer"].exp)
                          /\ entry' = [entry EXCEPT ![job["declarer"].exp] = "RUNNING"]
    BY <1>4 DEF Started, Overtaken
  <2>2. job'["declarer"].at # "chosen"
    <3>1. CASE Rest("declarer")
      BY <1>0, <3>1, RestFrame
    <3>2. CASE job' = [job EXCEPT !["declarer"] = [@ EXCEPT !.at = "restrip", !.res = "applied"]]
      BY <1>0, <3>2 DEF Job
    <3> QED BY <1>4, <3>1, <3>2 DEF Started
  <2>3. \A e \in Experiment : ~Chosen(e)'
    BY <2>2 DEF Chosen
  <2>4. \A e \in Experiment : Open(e)' => Open(e)
    BY <2>1 DEF Open
  <2> QED BY <1>4, <2>3, <2>4, FlagKept DEF Started
<1>5. ASSUME NEW w \in Worker, Record(w)
      PROVE  ChosenInv' /\ OneLivePerFlag'
  <2>1. job[w].exp \in Experiment /\ job[w].end \in Terminal
    BY <1>5 DEF Record, Job
  <2>2. \A e \in Experiment : Open(e)' => Open(e)
    BY <1>5, <2>1 DEF Record, Open
  <2>3. /\ \A v \in Worker : v # w => job'[v] = job[v]
        /\ job'[w].at = "idle"
    BY <1>0, <1>5, RestFrame DEF Record
  <2> QED BY <1>5, <2>2, <2>3, FlagKept, NotChosen DEF Record
<1>6. ASSUME NEW e \in Experiment, Conclude(e) \/ Promote(e)
      PROVE  ChosenInv' /\ OneLivePerFlag'
  <2>1. beside' = beside
    BY <1>6 DEF Conclude, Promote
  <2>2. Open(e) \/ entry' = entry
    BY <1>6 DEF Conclude, Promote, Open, Terminal
  <2>3. \A f \in Experiment : f # e => entry'[f] = entry[f]
    BY <1>6 DEF Conclude, Promote
  <2>4. job'["declarer"] = job["declarer"]
    BY <1>0, <1>6, ApartFromExperiments DEF Conclude, Promote, Move
  <2> QED BY <2>1, <2>2, <2>3, <2>4, FlagKept DEF Open, Chosen
<1>7. CASE Rehydrate
  <2>1. PICK back \in SUBSET Experiment :
           /\ \A e \in Experiment \ back : entry'[e] = entry[e]
           /\ beside' = beside \cup
                {p \in back \X Experiment : p[1] # p[2] /\ FlagOf[p[1]] = FlagOf[p[2]]
                                            /\ (p[2] \in back \/ Open(p[2]) \/ Chosen(p[2]))}
           /\ job' = job
    BY <1>7, Rehydrated
  <2>2. ASSUME NEW e \in back, NEW f \in Experiment, e # f, FlagOf[e] = FlagOf[f],
               f \in back \/ Open(f) \/ Chosen(f)
        PROVE  <<e, f>> \in beside'
    BY <2>1, <2>2
  <2>3. \A e \in Experiment : Open(e)' => Open(e) \/ e \in back
    BY <2>1 DEF Open
  <2>4. \A e \in Experiment : Chosen(e)' => Chosen(e)
    BY <2>1 DEF Chosen
  <2>5. beside \subseteq beside'
    BY <2>1
  <2>6. ChosenInv'
    BY <2>2, <2>3, <2>4, <2>5 DEF ChosenInv
  <2>7. OneLivePerFlag'
    BY <2>2, <2>3, <2>5 DEF OneLivePerFlag
  <2> QED BY <2>6, <2>7
<1>8. CASE Crash
  <2>1. \A e \in Experiment : ~Open(e)'
    BY <1>8 DEF Crash, Open
  <2> QED BY <2>1 DEF ChosenInv, OneLivePerFlag
<1>9. CASE UNCHANGED <<entry, beside, job>>
  BY <1>9, FlagKept DEF Open, Chosen
<1>10. CASE DeclarerStep
  <2>1. CASE Decline \/ Start \/ StartErred \/ AbortStart \/ \E d \in Experiment : DeclareFails(d)
    <3>1. UNCHANGED <<entry, beside>>
      BY <2>1 DEF Decline, Start, StartErred, AbortStart, DeclareFails
    <3>2. \A v \in Worker : v # "declarer" => job'[v] = job[v]
      BY <1>0, <2>1 DEF Decline, Start, StartErred, AbortStart, DeclareFails, Move, Rest
    <3>3. job'["declarer"].at # "chosen"
      <4>1. CASE Decline \/ \E d \in Experiment : DeclareFails(d)
        BY <1>0, <4>1, RestFrame DEF Decline, DeclareFails
      <4>2. CASE Start
        <5>1. \E at \in {"sent", "abort"} : Move("declarer", at)
          BY <4>2 DEF Start
        <5> QED BY <1>0, <5>1, MoveFrame
      <4>3. CASE StartErred
        BY <1>0, <4>3 DEF StartErred, Job
      <4>4. CASE AbortStart
        <5>1. CASE Rest("declarer")
          BY <1>0, <5>1, RestFrame
        <5>2. CASE job' = [job EXCEPT !["declarer"] = [@ EXCEPT !.at = "begin", !.end = "ABORTED"]]
          BY <1>0, <5>2 DEF Job
        <5> QED BY <4>4, <5>1, <5>2 DEF AbortStart
      <4> QED BY <2>1, <4>1, <4>2, <4>3, <4>4
    <3> QED BY <1>0, <1>1, <3>1, <3>2, <3>3
  <2> QED BY <1>2, <1>3, <1>4, <1>10, <2>1 DEF DeclarerStep
<1>11. ASSUME NEW w \in Worker, w # "declarer", UNCHANGED <<entry, beside>>,
              \A v \in Worker : v # w => job'[v] = job[v]
       PROVE  ChosenInv' /\ OneLivePerFlag'
  <2>1. job'["declarer"] = job["declarer"]
    BY <1>0, <1>11
  <2> QED BY <1>11, <2>1, FlagKept DEF Open, Chosen
<1>12. CASE KeeperStep
  <2>1. UNCHANGED <<entry, beside>> /\ \A v \in Worker : v # "keeper" => job'[v] = job[v]
    BY <1>0, <1>12 DEF KeeperStep, Reasserted, Reassert, Discard, Move, Rest
  <2> QED BY <1>11, <2>1, Workers
<1>13. ASSUME NEW e \in Experiment, Act(e) \/ JournalResult(e) \/ Finish(e) \/ RecordPromotion(e)
       PROVE  ChosenInv' /\ OneLivePerFlag'
  <2>1. UNCHANGED <<entry, beside>> /\ \A v \in Worker : v # e => job'[v] = job[v]
    BY <1>0, <1>13 DEF Act, JournalResult, Finish, RecordPromotion, Move
  <2> QED BY <1>11, <2>1, Workers, ApartFromExperiments
<1>14. CASE LoopStep
  <2>1. ASSUME ~Rehydrate
        PROVE  UNCHANGED <<entry, beside>> /\ \A v \in Worker : v # "loop" => job'[v] = job[v]
    BY <1>0, <1>14, <2>1 DEF LoopStep, TickOff, LoopStops, LoopReturns, TakeNext
  <2> QED BY <1>7, <1>11, <2>1, Workers
<1>15. ASSUME NEW w \in Worker, Begin(w) \/ Strip(w) \/ Land(w) \/ Restrip(w)
       PROVE  ChosenInv' /\ OneLivePerFlag'
  <2>1. UNCHANGED <<entry, beside>> /\ \A v \in Worker : v # w => job'[v] = job[v]
    BY <1>0, <1>15 DEF Begin, Strip, Land, Restrip, Move, Rest
  <2>2. job'[w].at # "chosen"
    BY <1>0, <1>15 DEF Begin, Strip, Land, Restrip, Move, Rest, Idle, Job
  <2> QED BY <1>1, <2>1, <2>2
<1>16. CASE Stop \/ Flip \/ FlagServiceRestarts
  BY <1>9, <1>16 DEF Stop, Flip, FlagServiceRestarts
<1>17. CASE Next
  BY <1>5, <1>6, <1>8, <1>10, <1>12, <1>13, <1>14, <1>15, <1>16, <1>17
     DEF Next, CloserStep, Teardown
<1>18. CASE UNCHANGED vars
  BY <1>9, <1>18 DEF vars
<1> QED BY <1>17, <1>18

-----------------------------------------------------------------------------
(* Branches *)

\* No teardown has begun for e: its branch is its own.
Undisturbed(e) == entry[e] = "absent" \/ (Open(e) /\ e \notin begun)

\* A step of one worker that keeps what the branches rest on.
LEMMA BranchKept ==
  ASSUME TypeOK, BranchInv, NEW w \in Worker, begun \subseteq begun',
         \A v \in Worker : v # w => job'[v] = job[v],
         job'[w].at \in {"strip", "record"} => job'[w].exp \in begun',
         branch' \subseteq Experiment,
         \A e \in branch' \ leak' :
            /\ e \in branch \ leak \/ Writing(w, e)'
            /\ Undisturbed(e) => Undisturbed(e)' \/ Writing(w, e)'
            /\ Writing(w, e) => Undisturbed(e)' \/ Writing(w, e)'
  PROVE  BranchInv'
<1>1. \A v \in Worker : job'[v].at \in {"strip", "record"} => job'[v].exp \in begun'
  BY DEF BranchInv
<1>2. ASSUME NEW e \in branch' \ leak'
      PROVE  Undisturbed(e)' \/ \E v \in Worker : Writing(v, e)'
  <2>1. Writing(w, e)' \/ Undisturbed(e) \/ \E v \in Worker : Writing(v, e)
    BY <1>2 DEF BranchInv, Undisturbed
  <2>2. \A v \in Worker : v # w /\ Writing(v, e) => Writing(v, e)'
    BY DEF Writing
  <2> QED BY <1>2, <2>1, <2>2
<1> QED BY <1>1, <1>2 DEF BranchInv, Undisturbed

\* A step that moves nobody and touches no branch.
LEMMA BranchQuiet ==
  ASSUME BranchInv, UNCHANGED <<entry, begun, branch, leak, job>>
  PROVE  BranchInv'
BY DEF BranchInv, Open, Writing

LEMMA BranchDeclarer ==
  ASSUME TypeOK, PresentInv, BranchInv, DeclarerStep
  PROVE  BranchInv'
<1>e. PICK e : e = job["declarer"].exp
  OBVIOUS
<1>0. "declarer" \in Worker /\ job["declarer"] \in Job
  BY Workers
<1>f. branch' = branch /\ leak' = leak /\ begun' = begun
  BY DEF DeclarerStep, Choose, Decline, Start, Started, StartErred, AbortStart, Declare,
         DeclareFails
<1>1. CASE Start
  <2>1. entry' = entry /\ job["declarer"].at = "start"
    BY <1>1 DEF Start
  <2>2. PICK at \in {"sent", "abort"} : Move("declarer", at)
    BY <1>1 DEF Start
  <2>3. /\ \A v \in Worker : v # "declarer" => job'[v] = job[v]
        /\ job'["declarer"].at = at
    BY <1>0, <2>2, MoveFrame
  <2> QED BY <1>0, <1>f, <2>1, <2>3, BranchKept DEF Writing, Undisturbed, Open
<1>7. ASSUME NEW d \in Experiment, Choose(d)
      PROVE  BranchInv'
  <2>1. entry' = entry /\ job["declarer"].at = "idle"
    BY <1>7 DEF Choose, Idle
  <2>2. /\ \A v \in Worker : v # "declarer" => job'[v] = job[v]
        /\ job'["declarer"].at = "chosen"
    BY <1>0, <1>7 DEF Choose, Job
  <2> QED BY <1>0, <1>f, <2>1, <2>2, BranchKept DEF Writing, Undisturbed, Open
<1>2. CASE Decline \/ \E d \in Experiment : DeclareFails(d)
  <2>1. entry' = entry /\ job["declarer"].at = "chosen" /\ Rest("declarer")
    BY <1>2 DEF Decline, DeclareFails, Chosen
  <2>2. /\ \A v \in Worker : v # "declarer" => job'[v] = job[v]
        /\ job'["declarer"].at = "idle"
    BY <1>0, <2>1, RestFrame
  <2> QED BY <1>0, <1>f, <2>1, <2>2, BranchKept DEF Writing, Undisturbed, Open
<1>3. CASE Started
  <2>1. job["declarer"].at = "landed" /\ e \in Experiment
    BY <1>0, <1>3, <1>e DEF Started
  <2>2. CASE Overtaken(e)
    <3>1. /\ entry' = entry
          /\ job' = [job EXCEPT !["declarer"] = [@ EXCEPT !.at = "restrip", !.res = "applied"]]
      BY <1>3, <1>e, <2>2 DEF Started
    <3>2. /\ \A v \in Worker : v # "declarer" => job'[v] = job[v]
          /\ job'["declarer"].at = "restrip" /\ job'["declarer"].exp = e
      BY <1>0, <1>e, <3>1 DEF Job
    <3>3. \A f \in Experiment : Undisturbed(f) => Undisturbed(f)'
      BY <1>f, <3>1 DEF Undisturbed, Open
    <3>4. \A f \in Experiment : Writing("declarer", f) => f = e
      BY <1>e DEF Writing
    <3> QED BY <1>0, <1>e, <1>f, <2>1, <3>2, <3>3, <3>4, BranchKept DEF Writing
  <2>3. CASE ~Overtaken(e)
    <3>1. Rest("declarer") /\ entry' = [entry EXCEPT ![e] = "RUNNING"]
      BY <1>3, <1>e, <2>3 DEF Started
    <3>2. /\ \A v \in Worker : v # "declarer" => job'[v] = job[v]
          /\ job'["declarer"].at = "idle"
      BY <1>0, <3>1, RestFrame
    <3>3. e \notin begun /\ Open(e)
      BY <2>3 DEF Overtaken
    <3>4. Undisturbed(e)'
      BY <1>f, <2>1, <3>1, <3>3 DEF Undisturbed, Open, Terminal
    <3>5. \A f \in Experiment : f # e => (Undisturbed(f) => Undisturbed(f)')
      BY <1>f, <3>1 DEF Undisturbed, Open
    <3>6. \A f \in Experiment : Undisturbed(f) => Undisturbed(f)'
      BY <3>4, <3>5
    <3>7. \A f \in Experiment : Writing("declarer", f) => f = e
      BY <1>e DEF Writing
    <3> QED BY <1>0, <1>f, <3>2, <3>4, <3>6, <3>7, BranchKept
  <2> QED BY <2>2, <2>3
<1>4. CASE StartErred
  <2>1. entry' = entry /\ job["declarer"].at \in {"sent", "landed"} /\ e \in Experiment
    BY <1>0, <1>4, <1>e DEF StartErred
  <2>2. /\ \A v \in Worker : v # "declarer" => job'[v] = job[v]
        /\ job'["declarer"].at = IF Overtaken(e) THEN "restrip" ELSE "abort"
        /\ job'["declarer"].exp = e
    BY <1>0, <1>4, <1>e DEF StartErred, Job
  <2>3. CASE Overtaken(e)
    <3>1. job'["declarer"].at = "restrip"
      BY <2>2, <2>3
    <3>2. \A f \in Experiment : Undisturbed(f) => Undisturbed(f)'
      BY <1>f, <2>1 DEF Undisturbed, Open
    <3>3. \A f \in Experiment : Writing("declarer", f) => f = e
      BY <1>e DEF Writing
    <3> QED BY <1>0, <1>e, <1>f, <2>1, <2>2, <3>1, <3>2, <3>3, BranchKept DEF Writing
  <2>4. CASE ~Overtaken(e)
    <3>1. Undisturbed(e)'
      BY <1>f, <2>1, <2>4 DEF Undisturbed, Open, Overtaken
    <3>2. \A f \in Experiment : Undisturbed(f) => Undisturbed(f)'
      BY <1>f, <2>1 DEF Undisturbed, Open
    <3>3. \A f \in Experiment : Writing("declarer", f) => f = e
      BY <1>e DEF Writing
    <3> QED BY <1>0, <1>f, <2>2, <2>4, <3>1, <3>2, <3>3, BranchKept
  <2> QED BY <2>3, <2>4
<1>5. CASE AbortStart
  <2>1. entry' = entry /\ job["declarer"].at = "abort"
    BY <1>5 DEF AbortStart
  <2>2. /\ \A v \in Worker : v # "declarer" => job'[v] = job[v]
        /\ job'["declarer"].at \in {"begin", "idle"}
    <3>1. CASE Rest("declarer")
      BY <1>0, <3>1, RestFrame
    <3>2. CASE job' = [job EXCEPT !["declarer"] = [@ EXCEPT !.at = "begin", !.end = "ABORTED"]]
      BY <1>0, <3>2 DEF Job
    <3> QED BY <1>5, <3>1, <3>2 DEF AbortStart
  <2> QED BY <1>0, <1>f, <2>1, <2>2, BranchKept DEF Writing, Undisturbed, Open
<1>6. ASSUME NEW d \in Experiment, Declare(d)
      PROVE  BranchInv'
  <2>1. /\ entry' = [entry EXCEPT ![d] = "PROPOSED"]
        /\ job["declarer"].at = "chosen"
        /\ \A v \in Worker : v # "declarer" => job'[v] = job[v]
        /\ job'["declarer"].at = "start"
    BY <1>0, <1>6, MoveFrame DEF Declare, Chosen
  <2>2. entry[d] = "absent" => d \notin begun
    BY DEF PresentInv
  <2>3. \A f \in Experiment : Undisturbed(f) => Undisturbed(f)'
    BY <1>f, <2>1, <2>2 DEF Undisturbed, Open, Terminal
  <2> QED BY <1>0, <1>f, <2>1, <2>3, BranchKept DEF Writing
<1> QED BY <1>1, <1>2, <1>3, <1>4, <1>5, <1>6, <1>7 DEF DeclarerStep

LEMMA BranchWorkers ==
  ASSUME TypeOK, PresentInv, BranchInv, NEW w \in Worker,
         Teardown(w) \/ Land(w) \/ Restrip(w)
  PROVE  BranchInv'
<1> DEFINE e == job[w].exp
<1>0. e \in Experiment /\ job[w] \in Job
  BY DEF Teardown, Begin, Strip, Record, Land, Restrip
<1>1. CASE Begin(w)
  <2>1. /\ begun' = begun \cup {e} /\ entry' = entry /\ branch' = branch /\ leak' = leak
        /\ Move(w, "strip")
    BY <1>1 DEF Begin
  <2>2. /\ \A v \in Worker : v # w => job'[v] = job[v]
        /\ job'[w].at = "strip" /\ job'[w].exp = e
    BY <2>1, MoveFrame
  <2>3. Writing(w, e)'
    BY <2>2 DEF Writing
  <2>4. \A f \in Experiment : f # e => (Undisturbed(f) => Undisturbed(f)')
    BY <2>1 DEF Undisturbed, Open
  <2>5. \A f \in Experiment : ~Writing(w, f)
    BY <1>1 DEF Begin, Writing
  <2> QED BY <2>1, <2>2, <2>3, <2>4, <2>5, BranchKept
<1>2. CASE Strip(w)
  <2>1. /\ begun' = begun /\ entry' = entry
        /\ branch' \ leak' \subseteq (branch \ leak) \ {e}
        /\ branch' \subseteq branch
        /\ Move(w, "record") /\ job[w].at = "strip"
    BY <1>2 DEF Strip
  <2>2. /\ \A v \in Worker : v # w => job'[v] = job[v]
        /\ job'[w].at = "record" /\ job'[w].exp = e
    BY <2>1, MoveFrame
  <2>3. e \in begun
    BY <2>1 DEF BranchInv
  <2>4. \A f \in Experiment : Undisturbed(f) => Undisturbed(f)'
    BY <2>1 DEF Undisturbed, Open
  <2>5. \A f \in branch' \ leak' : ~Writing(w, f)
    BY <2>1 DEF Writing
  <2> QED BY <2>1, <2>2, <2>3, <2>4, <2>5, BranchKept
<1>3. CASE Record(w)
  <2>1. /\ begun' = begun /\ branch' = branch /\ leak' = leak
        /\ job[w].at = "record" /\ Rest(w)
    BY <1>3 DEF Record
  <2>2. /\ \A v \in Worker : v # w => job'[v] = job[v]
        /\ job'[w].at = "idle"
    BY <2>1, RestFrame
  <2>3. e \in begun /\ entry[e] # "absent"
    BY <1>0, <2>1 DEF BranchInv, PresentInv
  <2>4. \A f \in Experiment : f # e => entry'[f] = entry[f]
    BY <1>3 DEF Record
  <2>5. \A f \in Experiment : Undisturbed(f) => Undisturbed(f)'
    BY <2>1, <2>3, <2>4 DEF Undisturbed, Open
  <2>6. \A f \in Experiment : ~Writing(w, f)
    BY <2>1 DEF Writing
  <2> QED BY <2>1, <2>2, <2>5, <2>6, BranchKept
<1>4. CASE Land(w)
  <2>1. /\ begun' = begun /\ entry' = entry /\ leak' = leak /\ branch' = branch \cup {e}
        /\ Move(w, "landed")
    BY <1>4 DEF Land
  <2>2. /\ \A v \in Worker : v # w => job'[v] = job[v]
        /\ job'[w].at = "landed" /\ job'[w].exp = e
    BY <2>1, MoveFrame
  <2>3. Writing(w, e)' /\ \A f \in Experiment : Writing(w, f) => f = e
    BY <2>2 DEF Writing
  <2>4. \A f \in Experiment : Undisturbed(f) => Undisturbed(f)'
    BY <2>1 DEF Undisturbed, Open
  <2> QED BY <1>0, <2>1, <2>2, <2>3, <2>4, BranchKept
<1>5. CASE Restrip(w)
  <2>1. /\ begun' = begun /\ entry' = entry
        /\ branch' \ leak' \subseteq (branch \ leak) \ {e}
        /\ branch' \subseteq branch
        /\ job[w].at = "restrip"
        /\ Move(w, "abort") \/ Rest(w)
    BY <1>5 DEF Restrip
  <2>2. /\ \A v \in Worker : v # w => job'[v] = job[v]
        /\ job'[w].at \in {"abort", "idle"}
    BY <2>1, MoveFrame, RestFrame
  <2>3. \A f \in Experiment : Undisturbed(f) => Undisturbed(f)'
    BY <2>1 DEF Undisturbed, Open
  <2>4. \A f \in branch' \ leak' : ~Writing(w, f)
    BY <2>1 DEF Writing
  <2> QED BY <2>1, <2>2, <2>3, <2>4, BranchKept
<1> QED BY <1>1, <1>2, <1>3, <1>4, <1>5 DEF Teardown

LEMMA BranchKeeper ==
  ASSUME TypeOK, PresentInv, BranchInv, KeeperStep
  PROVE  BranchInv'
<1>e. PICK old : old = job["keeper"].exp
  OBVIOUS
<1>0. "keeper" \in Worker /\ job["keeper"] \in Job
  BY Workers
<1>f. branch' = branch /\ leak' = leak /\ begun' = begun /\ entry' = entry
  BY DEF KeeperStep, Reasserted, Reassert, Discard
<1>u. \A f \in Experiment : Undisturbed(f) => Undisturbed(f)'
  BY <1>f DEF Undisturbed, Open
<1>1. CASE Reasserted
  <2>1. old \in Experiment /\ entry[old] # "absent"
    BY <1>0, <1>1, <1>e DEF Reasserted, PresentInv
  <2>2. \A f \in Experiment : Writing("keeper", f) => f = old
    BY <1>e DEF Writing
  <2>3. CASE Overtaken(old)
    <3>1. Move("keeper", "restrip")
      BY <1>1, <1>e, <2>3 DEF Reasserted
    <3>2. /\ \A v \in Worker : v # "keeper" => job'[v] = job[v]
          /\ job'["keeper"].at = "restrip" /\ job'["keeper"].exp = old
      BY <1>0, <1>e, <3>1, MoveFrame
    <3>3. Writing("keeper", old)'
      BY <3>2 DEF Writing
    <3> QED BY <1>0, <1>f, <1>u, <2>2, <3>2, <3>3, BranchKept
  <2>4. CASE ~Overtaken(old)
    <3>1. Rest("keeper")
      BY <1>1, <1>e, <2>4 DEF Reasserted
    <3>2. /\ \A v \in Worker : v # "keeper" => job'[v] = job[v]
          /\ job'["keeper"].at = "idle"
      BY <1>0, <3>1, RestFrame
    <3>3. Undisturbed(old)'
      BY <1>f, <2>4 DEF Undisturbed, Overtaken, Open
    <3> QED BY <1>0, <1>f, <1>u, <2>2, <3>2, <3>3, BranchKept
  <2> QED BY <2>3, <2>4
<1>2. CASE \E e \in Experiment : Reassert(e) \/ Discard(e)
  <2>1. job["keeper"].at = "idle"
    BY <1>2 DEF Reassert, Discard, Idle
  <2>2. /\ \A v \in Worker : v # "keeper" => job'[v] = job[v]
        /\ job'["keeper"].at \in {"sent", "begin"}
    <3>1. ASSUME NEW e \in Experiment, Reassert(e)
          PROVE  /\ \A v \in Worker : v # "keeper" => job'[v] = job[v]
                 /\ job'["keeper"].at \in {"sent", "begin"}
      BY <1>0, <3>1 DEF Reassert, Job
    <3>2. ASSUME NEW e \in Experiment, Discard(e)
          PROVE  /\ \A v \in Worker : v # "keeper" => job'[v] = job[v]
                 /\ job'["keeper"].at \in {"sent", "begin"}
      BY <1>0, <3>2 DEF Discard, Job
    <3> QED BY <1>2, <3>1, <3>2
  <2>3. \A f \in Experiment : ~Writing("keeper", f)
    BY <2>1 DEF Writing
  <2> QED BY <1>0, <1>f, <1>u, <2>2, <2>3, BranchKept
<1> QED BY <1>1, <1>2 DEF KeeperStep

LEMMA BranchCloser ==
  ASSUME TypeOK, PresentInv, BranchInv, NEW e \in Experiment,
         Conclude(e) \/ CloserStep(e) \/ RecordPromotion(e)
  PROVE  BranchInv'
<1>0. e \in Worker /\ job[e] \in Job
  BY Workers
<1>1. CASE RecordPromotion(e)
  BY <1>1, BranchQuiet DEF RecordPromotion
<1>2. CASE Conclude(e) \/ CloserStep(e)
  <2>1. branch' = branch /\ leak' = leak /\ begun' = begun
    BY <1>2 DEF CloserStep, Conclude, Promote, Act, JournalResult, Finish
  <2>2. \A f \in Experiment : Undisturbed(f) => Undisturbed(f)'
    <3>1. entry' = entry \/ \E st \in {"CONCLUDED", "PROMOTING"} :
                              Open(e) /\ entry' = [entry EXCEPT ![e] = st]
      BY <1>2 DEF CloserStep, Conclude, Promote, Act, JournalResult, Finish, Open, Terminal
    <3> QED BY <2>1, <3>1 DEF Undisturbed, Open, Terminal
  <2>3. job[e].at \notin {"sent", "landed", "restrip", "strip"}
    <3>1. CASE Conclude(e)
      BY <3>1 DEF Conclude, Idle
    <3>2. CASE CloserStep(e)
      BY <3>2 DEF CloserStep, Promote, Act, JournalResult, Finish
    <3> QED BY <1>2, <3>1, <3>2
  <2>4. \A f \in Experiment : ~Writing(e, f)
    BY <2>3 DEF Writing
  <2>5. /\ \A v \in Worker : v # e => job'[v] = job[v]
        /\ job'[e].at \in {"verdict", "finish", "acting", "result", "begin"}
    <3>1. CASE Conclude(e)
      BY <1>0, <3>1 DEF Conclude, Job
    <3>2. CASE Promote(e)
      <4>1. \E at \in {"finish", "acting", "result"} : Move(e, at)
        BY <3>2 DEF Promote
      <4> QED BY <1>0, <4>1, MoveFrame
    <3>3. CASE Act(e)
      BY <1>0, <3>3 DEF Act, Job
    <3>4. CASE JournalResult(e)
      BY <1>0, <3>4, MoveFrame DEF JournalResult
    <3>5. CASE Finish(e)
      BY <1>0, <3>5 DEF Finish, Job
    <3> QED BY <1>2, <3>1, <3>2, <3>3, <3>4, <3>5 DEF CloserStep
  <2> QED BY <1>0, <2>1, <2>2, <2>4, <2>5, BranchKept
<1> QED BY <1>1, <1>2

LEMMA BranchLoop ==
  ASSUME TypeOK, PresentInv, BranchInv, LoopStep
  PROVE  BranchInv'
<1>0. "loop" \in Worker /\ job["loop"] \in Job
  BY Workers
<1>1. CASE TickOff \/ LoopStops \/ LoopReturns
  BY <1>1, BranchQuiet DEF TickOff, LoopStops, LoopReturns
<1>2. CASE Rehydrate
  <2>1. PICK back \in SUBSET Experiment :
           /\ \A e \in back : /\ entry[e] = "absent"
                              /\ entry'[e] \in Status \ Terminal
           /\ \A e \in Experiment \ back : entry'[e] = entry[e]
           /\ UNCHANGED <<begun, branch, leak, job, life>>
    BY <1>2, Rehydrated
  <2>2. \A e \in back : e \notin begun
    BY <2>1 DEF PresentInv
  <2>3. \A e \in back : Undisturbed(e)'
    BY <2>1, <2>2 DEF Undisturbed, Open, Status, Live, Terminal
  <2>4. \A e \in Experiment : Undisturbed(e) => Undisturbed(e)'
    BY <2>1, <2>3 DEF Undisturbed, Open
  <2> QED BY <1>0, <2>1, <2>4, BranchKept DEF Writing, BranchInv
<1>3. ASSUME NEW e \in Experiment, NEW why \in {"abort", "unstarted", "unfinished", "lost"},
             TakeNext(e, why)
      PROVE  BranchInv'
  <2>1. /\ UNCHANGED <<entry, begun, branch, leak>>
        /\ job["loop"].at = "idle"
    BY <1>3 DEF TakeNext, Idle
  <2>2. CASE UNCHANGED job
    BY <2>1, <2>2, BranchQuiet
  <2>3. CASE job' # job
    <3>1. PICK end :
            job' = [job EXCEPT !["loop"] = [@ EXCEPT !.at = "begin", !.exp = e, !.end = end]]
      BY <1>3, <2>3 DEF TakeNext
    <3>2. /\ \A v \in Worker : v # "loop" => job'[v] = job[v]
          /\ job'["loop"].at = "begin"
      BY <1>0, <3>1 DEF Job
    <3>3. \A f \in Experiment : Undisturbed(f) => Undisturbed(f)'
      BY <2>1 DEF Undisturbed, Open
    <3>4. \A f \in Experiment : ~Writing("loop", f)
      BY <2>1 DEF Writing
    <3> QED BY <1>0, <2>1, <3>2, <3>3, <3>4, BranchKept
  <2> QED BY <2>2, <2>3
<1> QED BY <1>1, <1>2, <1>3 DEF LoopStep

LEMMA BranchWorld ==
  ASSUME TypeOK, BranchInv, Stop \/ Crash \/ Flip \/ FlagServiceRestarts
  PROVE  BranchInv'
<1>1. CASE Stop \/ Flip
  BY <1>1, BranchQuiet DEF Stop, Flip
<1>2. CASE Crash
  <2>1. /\ \A w \in Worker : job'[w].at = "idle"
        /\ \A e \in Experiment : entry'[e] = "absent"
    BY <1>2 DEF Crash, Idle
  <2>2. branch' \subseteq Experiment
    BY <1>2, WorldType
  <2> QED BY <2>1, <2>2 DEF BranchInv
<1>3. CASE FlagServiceRestarts
  BY <1>3 DEF FlagServiceRestarts, BranchInv
<1> QED BY <1>1, <1>2, <1>3

LEMMA BranchStep ==
  ASSUME TypeOK, PresentInv, BranchInv, [Next]_vars
  PROVE  BranchInv'
<1>1. CASE Next
  BY <1>1, BranchDeclarer, BranchKeeper, BranchLoop, BranchCloser, BranchWorkers,
     BranchWorld DEF Next
<1>2. CASE UNCHANGED vars
  BY <1>2, BranchQuiet DEF vars
<1> QED BY <1>1, <1>2

-----------------------------------------------------------------------------
(* Nothing live behind a stop *)

\* A step that opens nothing, adds or keeps the ends to do, and takes the end
\* of no experiment away from its worker, unless it is over.
LEMMA ClosingKept ==
  ASSUME ClosingInv, life' = life, todo' = todo, NEW w \in Worker,
         \A e \in Experiment : Open(e)' => Open(e),
         \A v \in Worker : v # w => job'[v] = job[v],
         \A e \in Experiment : Ending(w, e) /\ Open(e)' => Ending(w, e)'
  PROVE  ClosingInv'
<1>1. \A v \in Worker, e \in Experiment : Ending(v, e) /\ Open(e)' => Ending(v, e)'
  BY DEF Ending
<1> QED BY <1>1 DEF ClosingInv

LEMMA ClosingDeclarer ==
  ASSUME TypeOK, PresentInv, ClosingInv, DeclarerStep
  PROVE  ClosingInv'
<1>0. "declarer" \in Worker /\ job["declarer"] \in Job
  BY Workers
<1>1. ASSUME NEW d \in Experiment, Declare(d)
      PROVE  ClosingInv'
  BY <1>1 DEF Declare, ClosingInv
<1>2. ASSUME ~\E d \in Experiment : Declare(d)
      PROVE  ClosingInv'
  <2>1. life' = life /\ todo' = todo
    BY <1>2 DEF DeclarerStep, Choose, Decline, Start, Started, StartErred, AbortStart, DeclareFails
  <2>2. job["declarer"].at \in {"idle", "chosen", "start", "sent", "landed", "abort"}
    <3>1. CASE \E d \in Experiment : Choose(d)
      BY <3>1 DEF Choose, Idle
    <3>2. CASE ~\E d \in Experiment : Choose(d)
      BY <1>2, <3>2 DEF DeclarerStep, Decline, Start, Started, StartErred, AbortStart, DeclareFails,
                        Chosen
    <3> QED BY <3>1, <3>2
  <2>3. \A e \in Experiment : ~Ending("declarer", e)
    BY <2>2 DEF Ending
  <2>4. \A v \in Worker : v # "declarer" => job'[v] = job[v]
    BY <1>0, <1>2 DEF DeclarerStep, Choose, Decline, Start, Started, StartErred, AbortStart,
                      DeclareFails, Move, Rest
  <2>5. \A e \in Experiment : Open(e)' => Open(e)
    <3>1. entry' = entry \/ /\ Open(job["declarer"].exp)
                            /\ entry' = [entry EXCEPT ![job["declarer"].exp] = "RUNNING"]
      BY <1>2 DEF DeclarerStep, Choose, Decline, Start, Started, StartErred, AbortStart,
                  DeclareFails, Overtaken
    <3> QED BY <3>1 DEF Open
  <2> QED BY <1>0, <2>1, <2>3, <2>4, <2>5, ClosingKept
<1> QED BY <1>1, <1>2

LEMMA ClosingWorkers ==
  ASSUME TypeOK, PresentInv, ClosingInv, NEW w \in Worker,
         Teardown(w) \/ Land(w) \/ Restrip(w)
  PROVE  ClosingInv'
<1> DEFINE e == job[w].exp
<1>0. e \in Experiment /\ job[w] \in Job /\ life' = life /\ todo' = todo
  BY DEF Teardown, Begin, Strip, Record, Land, Restrip
<1>1. CASE Begin(w) \/ Strip(w)
  <2>1. entry' = entry /\ \E at \in {"strip", "record"} : Move(w, at)
    BY <1>1 DEF Begin, Strip
  <2>2. /\ \A v \in Worker : v # w => job'[v] = job[v]
        /\ job'[w].at \in {"strip", "record"} /\ job'[w].exp = e
    BY <2>1, MoveFrame
  <2>3. \A f \in Experiment : Ending(w, f) => Ending(w, f)'
    BY <2>2 DEF Ending
  <2>4. \A f \in Experiment : Open(f)' => Open(f)
    BY <2>1 DEF Open
  <2> QED BY <1>0, <2>2, <2>3, <2>4, ClosingKept
<1>2. CASE Record(w)
  <2>1. \A v \in Worker : v # w => job'[v] = job[v]
    BY <1>2, RestFrame DEF Record
  <2>2. job[w].end \in Terminal
    BY <1>0 DEF Job
  <2>3. /\ entry'[e] \in Terminal \cup {"absent"}
        /\ \A f \in Experiment : f # e => entry'[f] = entry[f]
    BY <1>0, <1>2, <2>2 DEF Record, Open
  <2>4. \A f \in Experiment : Open(f)' => Open(f) /\ f # e
    BY <2>3 DEF Open
  <2>5. \A f \in Experiment : Ending(w, f) => f = e
    BY DEF Ending
  <2> QED BY <1>0, <2>1, <2>4, <2>5, ClosingKept
<1>3. CASE Land(w) \/ Restrip(w)
  <2>1. /\ entry' = entry /\ job[w].at \in {"sent", "restrip"}
        /\ (\E at \in {"landed", "abort"} : Move(w, at)) \/ Rest(w)
    BY <1>3 DEF Land, Restrip
  <2>2. \A v \in Worker : v # w => job'[v] = job[v]
    BY <2>1, MoveFrame, RestFrame
  <2>3. \A f \in Experiment : ~Ending(w, f)
    BY <2>1 DEF Ending
  <2>4. \A f \in Experiment : Open(f)' => Open(f)
    BY <2>1 DEF Open
  <2> QED BY <1>0, <2>2, <2>3, <2>4, ClosingKept
<1> QED BY <1>1, <1>2, <1>3 DEF Teardown

LEMMA ClosingKeeper ==
  ASSUME TypeOK, ClosingInv, KeeperStep
  PROVE  ClosingInv'
<1>0. "keeper" \in Worker /\ job["keeper"] \in Job
  BY Workers
<1>1. life' = life /\ todo' = todo /\ entry' = entry
  BY DEF KeeperStep, Reasserted, Reassert, Discard
<1>2. job["keeper"].at \in {"idle", "sent", "landed"}
  <2>1. CASE Reasserted
    BY <2>1 DEF Reasserted
  <2>2. CASE \E e \in Experiment : Reassert(e) \/ Discard(e)
    BY <2>2 DEF Reassert, Discard, Idle
  <2> QED BY <2>1, <2>2 DEF KeeperStep
<1>3. \A v \in Worker : v # "keeper" => job'[v] = job[v]
  BY <1>0 DEF KeeperStep, Reasserted, Reassert, Discard, Move, Rest
<1>4. \A f \in Experiment : ~Ending("keeper", f)
  BY <1>2 DEF Ending
<1>5. \A f \in Experiment : Open(f)' => Open(f)
  BY <1>1 DEF Open
<1> QED BY <1>0, <1>1, <1>3, <1>4, <1>5, ClosingKept

LEMMA ClosingCloser ==
  ASSUME TypeOK, ClosingInv, NEW e \in Experiment,
         Conclude(e) \/ CloserStep(e) \/ RecordPromotion(e)
  PROVE  ClosingInv'
<1>0. e \in Worker /\ job[e] \in Job
  BY Workers
<1>1. life' = life /\ todo' = todo
  BY DEF CloserStep, Conclude, Promote, Act, JournalResult, Finish, RecordPromotion
<1>2. \A f \in Experiment : Open(f)' => Open(f)
  <2>1. entry' = entry \/ \E st \in {"CONCLUDED", "PROMOTING"} :
                            Open(e) /\ entry' = [entry EXCEPT ![e] = st]
    BY DEF CloserStep, Conclude, Promote, Act, JournalResult, Finish, RecordPromotion, Open, Terminal
  <2> QED BY <2>1 DEF Open
<1>3. CASE RecordPromotion(e)
  <2>1. job' = job
    BY <1>3 DEF RecordPromotion
  <2> QED BY <1>0, <1>1, <1>2, <2>1, ClosingKept DEF Ending
<1>4. CASE Conclude(e) \/ CloserStep(e)
  <2>1. job[e].at \notin {"begin", "strip", "record"}
    <3>1. CASE Conclude(e)
      BY <3>1 DEF Conclude, Idle
    <3>2. CASE CloserStep(e)
      BY <3>2 DEF CloserStep, Promote, Act, JournalResult, Finish
    <3> QED BY <1>4, <3>1, <3>2
  <2>2. \A f \in Experiment : ~Ending(e, f)
    BY <2>1 DEF Ending
  <2>3. \A v \in Worker : v # e => job'[v] = job[v]
    BY <1>0, <1>4 DEF CloserStep, Conclude, Promote, Act, JournalResult, Finish, Move
  <2> QED BY <1>0, <1>1, <1>2, <2>2, <2>3, ClosingKept
<1> QED BY <1>3, <1>4

LEMMA ClosingLoop ==
  ASSUME TypeOK, ClosingInv, LoopStep
  PROVE  ClosingInv'
<1>1. CASE TickOff \/ Rehydrate
  BY <1>1 DEF TickOff, Rehydrate, ClosingInv
<1>2. CASE LoopStops
  <2>1. /\ todo' = {<<e, "abort">> : e \in {f \in Experiment : Open(f)}}
        /\ entry' = entry /\ life' = "closing"
    BY <1>2 DEF LoopStops
  <2> QED BY <2>1 DEF ClosingInv, Open
<1>3. CASE LoopReturns
  <2>1. /\ life = "closing" /\ todo = {}
        /\ life' = "stopped" /\ UNCHANGED <<entry, todo, job>>
    BY <1>3 DEF LoopReturns, LoopFree
  <2> QED BY <2>1 DEF ClosingInv, Open, Ending
<1>4. ASSUME NEW e \in Experiment, NEW why \in {"abort", "unstarted", "unfinished", "lost"},
             TakeNext(e, why)
      PROVE  ClosingInv'
  <2>0. "loop" \in Worker /\ job["loop"] \in Job /\ job["loop"].at = "idle"
    BY <1>4, Workers DEF TakeNext, Idle
  <2>1. life' = life /\ entry' = entry /\ todo' = todo \ {<<e, why>>}
    BY <1>4 DEF TakeNext
  <2>2. \A f \in Experiment : (Open(f)' <=> Open(f))
    BY <2>1 DEF Open
  <2>3. \A v \in Worker : v # "loop" => job'[v] = job[v]
    BY <2>0, <1>4 DEF TakeNext
  <2>4. \A v \in Worker, f \in Experiment : Ending(v, f) => Ending(v, f)'
    BY <2>0, <2>3 DEF Ending
  <2>5. why = "abort" /\ Open(e) => Ending("loop", e)'
    <3> SUFFICES ASSUME why = "abort", Open(e) PROVE Ending("loop", e)'
      OBVIOUS
    <3>1. PICK end :
            job' = [job EXCEPT !["loop"] = [@ EXCEPT !.at = "begin", !.exp = e, !.end = end]]
      BY <1>4 DEF TakeNext
    <3>2. job'["loop"].at = "begin" /\ job'["loop"].exp = e
      BY <2>0, <3>1 DEF Job
    <3> QED BY <3>2 DEF Ending
  <2>6. ASSUME NEW f \in Experiment, Open(f)', life \in {"closing", "stopped"}
        PROVE  <<f, "abort">> \in todo' \/ \E v \in Worker : Ending(v, f)'
    <3>1. <<f, "abort">> \in todo \/ \E v \in Worker : Ending(v, f)
      BY <2>2, <2>6 DEF ClosingInv
    <3>2. CASE <<f, "abort">> = <<e, why>>
      BY <2>0, <2>2, <2>5, <2>6, <3>2
    <3>3. CASE <<f, "abort">> # <<e, why>>
      BY <2>1, <2>4, <3>1, <3>3
    <3> QED BY <3>2, <3>3
  <2>7. life = "stopped" => todo' = {}
    BY <2>1 DEF ClosingInv
  <2> QED BY <2>1, <2>6, <2>7 DEF ClosingInv
<1> QED BY <1>1, <1>2, <1>3, <1>4 DEF LoopStep

LEMMA ClosingWorld ==
  ASSUME ClosingInv, Stop \/ Crash \/ Flip \/ FlagServiceRestarts
  PROVE  ClosingInv'
<1>1. CASE Stop \/ Crash
  BY <1>1 DEF Stop, Crash, ClosingInv
<1>2. CASE Flip \/ FlagServiceRestarts
  BY <1>2 DEF Flip, FlagServiceRestarts, ClosingInv, Open, Ending
<1> QED BY <1>1, <1>2

LEMMA ClosingStep ==
  ASSUME TypeOK, PresentInv, ClosingInv, [Next]_vars
  PROVE  ClosingInv'
<1>1. CASE Next
  BY <1>1, ClosingDeclarer, ClosingKeeper, ClosingLoop, ClosingCloser, ClosingWorkers,
     ClosingWorld DEF Next
<1>2. CASE UNCHANGED vars
  BY <1>2 DEF vars, ClosingInv, Open, Ending
<1> QED BY <1>1, <1>2

-----------------------------------------------------------------------------
(* The theorems *)

LEMMA InitInv == Init => RegistryInv
<1> SUFFICES ASSUME Init PROVE RegistryInv
  OBVIOUS
<1>1. Idle \in Job /\ Idle.at = "idle"
  BY DEF Idle, Job, Place, Terminal, Result
<1>2. Blank \in Journal
  BY DEF Blank, Journal
<1>3. TypeOK
  <2>1. Jobs
    BY <1>1 DEF Init, Jobs
  <2>2. journal \in [Experiment -> Journal] /\ held \in [Experiment -> Seq(Line)]
    BY <1>2 DEF Init
  <2> QED BY <2>1, <2>2 DEF Init, How, Jobs
<1>4. \A w \in Worker : job[w].at = "idle"
  BY <1>1 DEF Init
<1>5. PresentInv
  BY <1>4, Workers DEF Init, PresentInv
<1>6. ChosenInv /\ OneLivePerFlag /\ BranchInv /\ ClosingInv
  BY <1>4 DEF Init, ChosenInv, OneLivePerFlag, BranchInv, ClosingInv, Open
<1> QED BY <1>3, <1>5, <1>6 DEF RegistryInv

\* The inductive invariant: what the registry, the workers and the flag service
\* know of one another, in every state of every run.
THEOREM Registry == Spec => []RegistryInv
<1>1. RegistryInv /\ [Next]_vars => RegistryInv'
  BY TypeStep, PresentStep, FlagStep, BranchStep, ClosingStep DEF RegistryInv
<1> QED BY <1>1, InitInv, PTL DEF Spec

\* Every variable keeps its type, whatever the journals' lines become.
THEOREM TypeCorrect == Spec => []TypeOK
<1>1. RegistryInv => TypeOK
  BY DEF RegistryInv
<1> QED BY <1>1, Registry, PTL

\* Two experiments of one flag are never live at once, except for a pair that a restore
\* brought together (ActiveFlags, read by every declarer under the declarers' mutex).
THEOREM OneLiveExperiment == Spec => []OneLivePerFlag
<1>1. RegistryInv => OneLivePerFlag
  BY DEF RegistryInv
<1> QED BY <1>1, Registry, PTL

\* No targeting branch outlives its experiment, in whatever order a late write,
\* a teardown and its strip come (stripLateTargetingWrite).
THEOREM NoOrphanBranch == Spec => []BranchOwned
<1>1. RegistryInv => BranchOwned
  <2>1. \A w \in Worker, e \in Experiment : Writing(w, e) => Minding(w, e)
    BY DEF Writing, Minding
  <2>2. RegistryInv => branch \subseteq Experiment /\ BranchInv
    BY DEF RegistryInv
  <2> QED BY <2>1, <2>2 DEF BranchInv, BranchOwned
<1> QED BY <1>1, Registry, PTL

\* Nothing is live behind a stop whose loop and whose calls have returned: no
\* start, write or conclusion outlives the AbortAll.
THEOREM StopsClean == Spec => []StopClean
<1>1. RegistryInv => StopClean
  <2> SUFFICES ASSUME RegistryInv, life = "stopped", \A w \in Worker : job[w] = Idle
               PROVE  \A e \in Experiment : ~Open(e)
    BY DEF StopClean
  <2>1. \A w \in Worker, e \in Experiment : ~Ending(w, e)
    BY DEF Ending, Idle
  <2> QED BY <2>1 DEF RegistryInv, ClosingInv
<1> QED BY <1>1, Registry, PTL

-----------------------------------------------------------------------------
(* What the lines of a journal tell *)

\* A line that tells a status, and how far along an experiment is in it
Tells(line) == line[1] \in {"decision", "outcome"}

Rank(st) ==
  CASE st = "PROPOSED" -> 0
    [] st = "RUNNING" -> 1
    [] st = "CONCLUDED" -> 2
    [] st = "PROMOTING" -> 3
    [] OTHER -> 4

Promised == Decision("PROMOTING")

\* Of some lines: one is this one; none is two in one; each status is further on than those
\* before; the promoting decision stands there once; a promotion is reported; and nothing of a
\* promotion is reported before its own event.
Has(s, line) == \E i \in DOMAIN s : s[i] = line
Whole(s) == ~Has(s, Merged)
Ascends(s) == \A i, k \in DOMAIN s :
  i < k /\ Tells(s[i]) /\ Tells(s[k]) => Rank(s[i][2]) < Rank(s[k][2])
PromisedOnce(s) == \A i, k \in DOMAIN s : s[i] = Promised /\ s[k] = Promised => i = k
Reported(s) == \E i \in DOMAIN s : s[i][1] = "promotion"
OwnLeads(s) == \A i \in DOMAIN s : s[i][1] = "later" => \E k \in 1..(i - 1) : s[k][1] = "promotion"

LEMMA Appends ==
  ASSUME NEW s \in Seq(Line), NEW line \in Line, NEW t, t = Append(s, line)
  PROVE  /\ t \in Seq(Line) /\ Len(s) \in Nat /\ DOMAIN s = 1..Len(s) /\ DOMAIN t = 1..(Len(s) + 1)
         /\ t[Len(s) + 1] = line
         /\ \A i \in 1..Len(s) : t[i] = s[i]
BY AppendProperties

\* What the lines tell last, of some kinds.
LEMMA LastIs ==
  ASSUME NEW s \in Seq(Line), NEW kinds, NEW m \in DOMAIN s, s[m][1] \in kinds,
         \A i \in DOMAIN s : s[i][1] \in kinds => i <= m
  PROVE  LastOf(s, kinds) = s[m][2]
<1> DEFINE at == {i \in DOMAIN s : s[i][1] \in kinds}
           last == CHOOSE i \in at : \A k \in at : k <= i
<1>1. m \in at /\ \A k \in at : k <= m
  OBVIOUS
<1>2. last \in at /\ \A k \in at : k <= last
  <2> HIDE DEF at
  <2> QED BY <1>1
<1>3. last \in 1..Len(s) /\ m \in 1..Len(s) /\ Len(s) \in Nat
  BY <1>2
<1>4. last <= m /\ m <= last
  BY <1>1, <1>2
<1>5. last = m
  <2> HIDE DEF last
  <2> QED BY <1>3, <1>4
<1>6. LastOf(s, kinds) = s[last][2]
  BY <1>1 DEF LastOf
<1> QED BY <1>5, <1>6

LEMMA LastFound ==
  ASSUME NEW s \in Seq(Line), NEW kinds
  PROVE  \/ (\A i \in DOMAIN s : s[i][1] \notin kinds) /\ LastOf(s, kinds) = "none"
         \/ \E m \in DOMAIN s : /\ s[m][1] \in kinds /\ LastOf(s, kinds) = s[m][2]
                                /\ \A i \in DOMAIN s : s[i][1] \in kinds => i <= m
<1> DEFINE at == {i \in DOMAIN s : s[i][1] \in kinds}
<1>1. CASE at = {}
  BY <1>1 DEF LastOf
<1>2. CASE at # {}
  <2>1. at \in SUBSET (1..Len(s)) /\ Len(s) \in Nat
    OBVIOUS
  <2>2. PICK m \in at : \A k \in at : k <= m
    <3> HIDE DEF at
    <3> QED BY <1>2, <2>1, Largest
  <2>3. LastOf(s, kinds) = s[m][2]
    BY <2>2, LastIs
  <2> QED BY <2>2, <2>3
<1> QED BY <1>1, <1>2

LEMMA Ranked == \A st : Rank(st) \in 0..4 /\ (st \in Terminal => Rank(st) = 4)
BY DEF Rank, Terminal

\* No status is none.
LEMMA TellsStatus ==
  ASSUME NEW line \in Line, Tells(line)
  PROVE  line[2] \in Status /\ line[2] # "none" /\ line # Merged
BY DEF Tells, Line, Status, Live, Terminal, Decision, Outcome, Own, After, Leaked, Merged

\* A line that tells no status changes nothing of what is told.
LEMMA NeutralLine ==
  ASSUME NEW s \in Seq(Line), NEW line \in Line, ~Tells(line), line # Merged,
         NEW t, t = Append(s, line)
  PROVE  /\ t \in Seq(Line) /\ Folded(t) = Folded(s)
         /\ Whole(s) => Whole(t)
         /\ Ascends(s) => Ascends(t)
         /\ Has(t, Promised) <=> Has(s, Promised)
         /\ PromisedOnce(s) => PromisedOnce(t)
         /\ Reported(s) \/ line[1] = "promotion" => Reported(t)
         /\ OwnLeads(s) /\ (line[1] = "later" => Reported(s)) => OwnLeads(t)
<1>1. /\ t \in Seq(Line) /\ Len(s) \in Nat /\ DOMAIN s = 1..Len(s) /\ DOMAIN t = 1..(Len(s) + 1)
      /\ t[Len(s) + 1] = line /\ \A i \in 1..Len(s) : t[i] = s[i]
  BY Appends
<1>2. line # Promised
  BY DEF Tells, Promised, Decision
<1>3. Folded(t) = Folded(s)
  <2> DEFINE kinds == {"decision", "outcome"}
  <2>1. CASE (\A i \in DOMAIN s : s[i][1] \notin kinds) /\ LastOf(s, kinds) = "none"
    <3>1. \A i \in DOMAIN t : t[i][1] \notin kinds
      BY <1>1, <2>1 DEF Tells
    <3>2. LastOf(t, kinds) = "none"
      BY <3>1 DEF LastOf
    <3> QED BY <2>1, <3>2 DEF Folded
  <2>2. ASSUME NEW m \in DOMAIN s, s[m][1] \in kinds, LastOf(s, kinds) = s[m][2],
               \A i \in DOMAIN s : s[i][1] \in kinds => i <= m
        PROVE  Folded(t) = Folded(s)
    <3>1. m \in DOMAIN t /\ t[m] = s[m] /\ \A i \in DOMAIN t : t[i][1] \in kinds => i <= m
      BY <1>1, <2>2 DEF Tells
    <3>2. LastOf(t, kinds) = t[m][2]
      BY <1>1, <2>2, <3>1, LastIs
    <3> QED BY <2>2, <3>1, <3>2 DEF Folded
  <2> QED BY <2>1, <2>2, LastFound
<1>4. (Whole(s) => Whole(t)) /\ (Has(t, Promised) <=> Has(s, Promised))
  BY <1>1, <1>2 DEF Whole, Has
<1>5. Ascends(s) => Ascends(t)
  BY <1>1 DEF Ascends
<1>6. PromisedOnce(s) => PromisedOnce(t)
  BY <1>1, <1>2 DEF PromisedOnce
<1>7. Reported(s) \/ line[1] = "promotion" => Reported(t)
  BY <1>1 DEF Reported
<1>8. OwnLeads(s) /\ (line[1] = "later" => Reported(s)) => OwnLeads(t)
  <2> SUFFICES ASSUME OwnLeads(s), line[1] = "later" => Reported(s), NEW i \in DOMAIN t,
                      t[i][1] = "later"
               PROVE  \E k \in 1..(i - 1) : t[k][1] = "promotion"
    BY DEF OwnLeads
  <2>1. CASE i \in DOMAIN s
    BY <1>1, <2>1 DEF OwnLeads
  <2>2. CASE i = Len(s) + 1
    BY <1>1, <2>2 DEF Reported
  <2> QED BY <1>1, <2>1, <2>2
<1> QED BY <1>1, <1>3, <1>4, <1>5, <1>6, <1>7, <1>8

\* A line that tells a status, further on than the last.
LEMMA TellingLine ==
  ASSUME NEW s \in Seq(Line), NEW line \in Line, Tells(line), NEW t, t = Append(s, line)
  PROVE  /\ t \in Seq(Line) /\ Folded(t) = line[2]
         /\ Whole(s) => Whole(t)
         /\ Ascends(s) /\ (s = <<>> \/ Rank(Folded(s)) < Rank(line[2])) => Ascends(t)
         /\ Has(t, Promised) <=> Has(s, Promised) \/ line = Promised
         /\ PromisedOnce(s) /\ (line = Promised => ~Has(s, Promised)) => PromisedOnce(t)
         /\ Reported(s) => Reported(t)
         /\ OwnLeads(s) => OwnLeads(t)
<1> DEFINE kinds == {"decision", "outcome"}
<1>1. /\ t \in Seq(Line) /\ Len(s) \in Nat /\ DOMAIN s = 1..Len(s) /\ DOMAIN t = 1..(Len(s) + 1)
      /\ t[Len(s) + 1] = line /\ \A i \in 1..Len(s) : t[i] = s[i]
  BY Appends
<1>2. line[2] # "none" /\ line # Merged /\ line[1] # "later"
  BY TellsStatus DEF Tells
<1>3. Folded(t) = line[2]
  <2> DEFINE m == Len(s) + 1
  <2>1. m \in DOMAIN t /\ t[m] = line /\ t[m][1] \in kinds
    BY <1>1 DEF Tells
  <2>2. \A i \in DOMAIN t : t[i][1] \in kinds => i <= m
    BY <1>1
  <2>3. LastOf(t, kinds) = t[m][2]
    <3> HIDE DEF m
    <3> QED BY <1>1, <2>1, <2>2, LastIs
  <2> QED BY <1>2, <2>1, <2>3 DEF Folded
<1>4. (Whole(s) => Whole(t)) /\ (Has(t, Promised) <=> Has(s, Promised) \/ line = Promised)
  BY <1>1, <1>2 DEF Whole, Has
<1>5. ASSUME Ascends(s), s = <<>> \/ Rank(Folded(s)) < Rank(line[2])
      PROVE  Ascends(t)
  <2>1. ASSUME NEW i \in DOMAIN s, Tells(s[i]) PROVE Rank(s[i][2]) < Rank(line[2])
    <3>1. PICK m \in DOMAIN s : /\ s[m][1] \in kinds /\ LastOf(s, kinds) = s[m][2]
                                /\ \A k \in DOMAIN s : s[k][1] \in kinds => k <= m
      BY <2>1, LastFound DEF Tells
    <3>2. s[m] \in Line /\ Tells(s[m])
      BY <3>1 DEF Tells
    <3>3. Folded(s) = s[m][2]
      BY <3>1, <3>2, TellsStatus DEF Folded
    <3>4. Rank(s[m][2]) < Rank(line[2])
      BY <1>1, <1>5, <3>3, EmptySeq
    <3>5. i = m \/ i < m
      BY <1>1, <2>1, <3>1 DEF Tells
    <3>6. CASE i < m
      <4>1. Rank(s[i][2]) < Rank(s[m][2])
        BY <1>5, <2>1, <3>2, <3>6 DEF Ascends
      <4> QED BY <3>4, <4>1, Ranked
    <3> QED BY <3>4, <3>5, <3>6
  <2> SUFFICES ASSUME NEW i \in DOMAIN t, NEW k \in DOMAIN t, i < k, Tells(t[i]), Tells(t[k])
               PROVE  Rank(t[i][2]) < Rank(t[k][2])
    BY DEF Ascends
  <2>2. i \in DOMAIN s /\ t[i] = s[i]
    BY <1>1
  <2>3. CASE k \in DOMAIN s
    BY <1>1, <1>5, <2>2, <2>3 DEF Ascends
  <2>4. CASE k = Len(s) + 1
    BY <1>1, <2>1, <2>2, <2>4
  <2> QED BY <1>1, <2>3, <2>4
<1>6. PromisedOnce(s) /\ (line = Promised => ~Has(s, Promised)) => PromisedOnce(t)
  BY <1>1 DEF PromisedOnce, Has
<1>7. Reported(s) => Reported(t)
  BY <1>1 DEF Reported
<1>8. OwnLeads(s) => OwnLeads(t)
  BY <1>1, <1>2 DEF OwnLeads
<1> QED BY <1>1, <1>3, <1>4, <1>5, <1>6, <1>7, <1>8

-----------------------------------------------------------------------------
(* What a journal says of its experiment *)

HIDE DEF TypeOK

\* A journal that is not made is empty, and its experiment is not registered.
MadeInv(e) ==
  ~journal[e].made => journal[e].lines = <<>> /\ entry[e] = "absent" /\ queue[e] = "none"

\* Unless an append was torn, every line can be read and promises at most once.
WholeInv(e) ==
  spoiled[e] # "torn" =>
    ~journal[e].torn /\ Whole(journal[e].lines) /\ PromisedOnce(journal[e].lines)

\* A journal that missed no line tells a life that only goes on, up to the registry's status.
ToldInv(e) ==
  spoiled[e] = "ok" =>
    /\ Ascends(journal[e].lines)
    /\ entry[e] # "absent" => entry[e] = Folded(journal[e].lines)

\* What each worker found it still finds, unless the experiment has ended meanwhile.
StartInv(e) ==
  job["declarer"].at \in {"sent", "landed"} /\ job["declarer"].exp = e =>
    entry[e] \in {"PROPOSED"} \cup Terminal
CloserInv(e) ==
  /\ job[e].at = "verdict" => entry[e] \in {"CONCLUDED"} \cup Terminal
  /\ job[e].at \in {"acting", "result"} => entry[e] \in {"PROMOTING"} \cup Terminal
  /\ e \in inFlight <=> job[e].at \in {"acting", "result"}

\* The promoter acts once, behind the decision; and behind that decision nothing leads back.
OnceInv(e) ==
  spoiled[e] # "torn" =>
    /\ acted[e] <= 1
    /\ acted[e] = 1 => Has(journal[e].lines, Promised)
    /\ job[e].at = "acting" => acted[e] = 0 /\ Has(journal[e].lines, Promised)
    /\ Has(journal[e].lines, Promised) =>
         /\ entry[e] \in {"absent", "PROMOTING"} \cup Terminal
         /\ Folded(journal[e].lines) \in {"PROMOTING"} \cup Terminal

\* Later outcomes wait for the promotion's own event, in memory as on disk.
LaterInv(e) ==
  /\ held[e] # <<>> => e \in inFlight
  /\ \A i \in DOMAIN held[e] : held[e][i][1] = "later"
  /\ spoiled[e] = "ok" =>
       /\ queue[e] # "none" /\ e \notin inFlight => Reported(journal[e].lines)
       /\ OwnLeads(journal[e].lines)

TaleInv(e) ==
  /\ MadeInv(e) /\ WholeInv(e) /\ ToldInv(e) /\ StartInv(e) /\ CloserInv(e) /\ OnceInv(e)
  /\ LaterInv(e)
JournalInv == \A e \in Experiment : TaleInv(e)

\* The types that what follows needs.
LEMMA Typed ==
  ASSUME TypeOK
  PROVE  /\ job \in [Worker -> Job] /\ \A w \in Worker : job[w] \in Job
         /\ \A e \in Experiment :
              /\ entry[e] \in Status \cup {"absent"} /\ journal[e] \in Journal
              /\ spoiled[e] \in How /\ acted[e] \in Nat /\ held[e] \in Seq(Line)
              /\ job[e] \in Job /\ journal[e].lines \in Seq(Line) /\ journal[e].made \in BOOLEAN
              /\ journal[e].torn \in BOOLEAN
         /\ entry \in [Experiment -> Status \cup {"absent"}]
         /\ journal \in [Experiment -> Journal] /\ spoiled \in [Experiment -> How]
         /\ acted \in [Experiment -> Nat] /\ held \in [Experiment -> Seq(Line)]
         /\ queue \in [Experiment -> {"none", "waits", "applied"}]
<1>1. \A j \in Journal : j.lines \in Seq(Line) /\ j.made \in BOOLEAN /\ j.torn \in BOOLEAN
  BY DEF Journal
<1> QED BY <1>1, Workers DEF TypeOK, Jobs

\* What each worker of an experiment is doing that the journal depends on.
Closing(at) == at \in {"verdict", "acting", "result"}

\* A step that leaves e where it was.
LEMMA TaleStays ==
  ASSUME NEW e \in Experiment, TaleInv(e),
         journal'[e] = journal[e], spoiled'[e] = spoiled[e], entry'[e] = entry[e],
         queue'[e] = queue[e], held'[e] = held[e], acted'[e] = acted[e],
         e \in inFlight' <=> e \in inFlight,
         job'[e].at = job[e].at \/ (~Closing(job'[e].at) /\ ~Closing(job[e].at)),
         \/ job'["declarer"].at \notin {"sent", "landed"} \/ job'["declarer"].exp # e
         \/ job["declarer"].at \in {"sent", "landed"} /\ job["declarer"].exp = e
         \/ entry[e] = "PROPOSED"
  PROVE  TaleInv(e)'
<1>1. MadeInv(e)' /\ WholeInv(e)' /\ ToldInv(e)'
  BY DEF TaleInv, MadeInv, WholeInv, ToldInv
<1>2. StartInv(e)'
  BY DEF TaleInv, StartInv
<1>3. CloserInv(e)'
  BY DEF TaleInv, CloserInv, Closing
<1>4. OnceInv(e)'
  BY DEF TaleInv, OnceInv, Closing
<1>5. LaterInv(e)'
  BY DEF TaleInv, LaterInv
<1> QED BY <1>1, <1>2, <1>3, <1>4, <1>5 DEF TaleInv

\* An append to a journal without a torn line, that is not torn itself.
LEMMA CleanAppend ==
  ASSUME NEW j \in Journal, NEW line \in Line, NEW how \in {"ok", "refused"}, ~j.torn
  PROVE  /\ AppendTo(j, line, how) \in Journal
         /\ AppendTo(j, line, how).torn = FALSE
         /\ AppendTo(j, line, how).made = j.made
         /\ AppendTo(j, line, how).lines = IF how = "ok" THEN Append(j.lines, line) ELSE j.lines
<1>1. CASE how = "ok"
  BY <1>1, Appended DEF AppendTo, Journal, How
<1>2. CASE how = "refused"
  BY <1>2, Appended DEF AppendTo, Journal, How
<1> QED BY <1>1, <1>2

LEMMA AppendMade ==
  ASSUME NEW j \in Journal, NEW line, NEW how
  PROVE  AppendTo(j, line, how).made = j.made
BY DEF AppendTo, Journal

\* The worst that happened is torn if it was, and unspoiled only if it was and is.
LEMMA Worst ==
  ASSUME NEW was \in How, NEW how \in How
  PROVE  /\ Worse(was, how) # "torn" => was # "torn" /\ how # "torn"
         /\ Worse(was, how) = "ok" => was = "ok" /\ how = "ok"
         /\ how = "ok" => Worse(was, how) = was
         /\ how = "refused" => Worse(was, how) # "ok"
BY DEF Worse, How

\* What a line that tells no status keeps of the lines before it.
Kept(s, t) ==
  /\ Folded(t) = Folded(s)
  /\ Whole(s) => Whole(t)
  /\ Ascends(s) => Ascends(t)
  /\ Has(t, Promised) <=> Has(s, Promised)
  /\ PromisedOnce(s) => PromisedOnce(t)
  /\ Reported(s) => Reported(t)

LEMMA NeutralAppend ==
  ASSUME NEW j \in Journal, NEW line \in Line, NEW how \in {"ok", "refused"}, ~j.torn,
         ~Tells(line), line # Merged, NEW k, k = AppendTo(j, line, how)
  PROVE  /\ k \in Journal /\ ~k.torn /\ k.made = j.made
         /\ Kept(j.lines, k.lines)
         /\ OwnLeads(j.lines) /\ (line[1] = "later" => Reported(j.lines)) => OwnLeads(k.lines)
         /\ how = "ok" /\ line[1] = "promotion" => Reported(k.lines)
<1>1. /\ k \in Journal /\ ~k.torn /\ k.made = j.made
      /\ k.lines = IF how = "ok" THEN Append(j.lines, line) ELSE j.lines
  BY CleanAppend
<1>2. CASE how = "ok"
  <2>1. j.lines \in Seq(Line) /\ k.lines = Append(j.lines, line)
    BY <1>1, <1>2 DEF Journal
  <2> QED BY <1>1, <2>1, NeutralLine DEF Kept
<1>3. CASE how = "refused"
  BY <1>1, <1>3 DEF Kept
<1> QED BY <1>2, <1>3

LEMMA NeutralLines ==
  /\ \A r \in Result : Own(r) \in Line /\ ~Tells(Own(r)) /\ Own(r) # Merged
                       /\ Own(r)[1] = "promotion"
  /\ \A r \in Later : After(r) \in Line /\ ~Tells(After(r)) /\ After(r) # Merged
                      /\ After(r)[1] = "later"
  /\ Leaked \in Line /\ ~Tells(Leaked) /\ Leaked # Merged /\ Leaked[1] = "note"
BY Lines DEF Tells, Own, After, Leaked, Merged

\* A step after which the journal of e tells no other status than before.
LEMMA TaleKept ==
  ASSUME NEW e \in Experiment, TaleInv(e), journal'[e].made = TRUE,
         spoiled'[e] # "torn" =>
           /\ spoiled[e] # "torn" /\ ~journal'[e].torn
           /\ Kept(journal[e].lines, journal'[e].lines)
           /\ entry'[e] = entry[e] \/ entry'[e] = Folded(journal[e].lines),
         spoiled'[e] = "ok" =>
           /\ spoiled[e] = "ok" /\ OwnLeads(journal'[e].lines)
           /\ queue'[e] # "none" /\ e \notin inFlight' => Reported(journal'[e].lines),
         acted'[e] = acted[e],
         held'[e] # <<>> => e \in inFlight',
         \A i \in DOMAIN held'[e] : held'[e][i][1] = "later",
         StartInv(e)', CloserInv(e)',
         job'[e].at = "acting" => job[e].at = "acting"
  PROVE  TaleInv(e)'
<1>1. MadeInv(e)'
  BY DEF MadeInv
<1>2. WholeInv(e)'
  BY DEF TaleInv, WholeInv, Kept
<1>3. ToldInv(e)'
  BY DEF TaleInv, ToldInv, Kept
<1>4. OnceInv(e)'
  BY DEF TaleInv, OnceInv, Kept
<1>5. LaterInv(e)'
  BY DEF LaterInv
<1> QED BY <1>1, <1>2, <1>3, <1>4, <1>5 DEF TaleInv

\* A step that moves e on to a status and tells it in its journal.
LEMMA TaleTold ==
  ASSUME TypeOK, NEW e \in Experiment, TaleInv(e),
         NEW line \in Line, Tells(line), NEW how \in How,
         NEW j \in Journal, j.made = TRUE, j.lines = journal[e].lines, j.torn = journal[e].torn,
         journal'[e] = AppendTo(j, line, how), spoiled'[e] = Worse(spoiled[e], how),
         entry'[e] = line[2],
         \/ journal[e].lines = <<>>
         \/ entry[e] # "absent" /\ Rank(entry[e]) < Rank(line[2]),
         spoiled[e] # "torn" =>
           /\ line = Promised => ~Has(journal[e].lines, Promised)
           /\ Has(journal[e].lines, Promised) => line[2] \in {"PROMOTING"} \cup Terminal,
         acted'[e] = acted[e], held'[e] = held[e], queue'[e] = queue[e],
         e \in inFlight => e \in inFlight',
         StartInv(e)', CloserInv(e)',
         job'[e].at = "acting" => job[e].at = "acting" \/ (line = Promised /\ how = "ok")
  PROVE  TaleInv(e)'
<1> DEFINE s == journal[e].lines
           t == journal'[e].lines
<1>0. s \in Seq(Line) /\ spoiled[e] \in How /\ acted[e] \in Nat
  BY Typed
<1>1. MadeInv(e)'
  BY AppendMade DEF MadeInv
<1>2. ASSUME spoiled'[e] # "torn"
      PROVE  /\ spoiled[e] # "torn" /\ how \in {"ok", "refused"} /\ ~journal'[e].torn
             /\ t = IF how = "ok" THEN Append(s, line) ELSE s
             /\ Whole(s) /\ PromisedOnce(s)
  <2>1. spoiled[e] # "torn" /\ how \in {"ok", "refused"}
    BY <1>0, <1>2, Worst DEF How
  <2>2. ~j.torn /\ Whole(s) /\ PromisedOnce(s)
    BY <2>1 DEF TaleInv, WholeInv
  <2>3. /\ journal'[e].torn = FALSE
        /\ t = IF how = "ok" THEN Append(s, line) ELSE s
    <3> HIDE DEF t
    <3>1. /\ AppendTo(j, line, how).torn = FALSE
          /\ AppendTo(j, line, how).lines = IF how = "ok" THEN Append(j.lines, line) ELSE j.lines
      BY <2>1, <2>2, CleanAppend
    <3> QED BY <3>1 DEF t
  <2> QED BY <2>1, <2>2, <2>3
<1>3. ASSUME spoiled'[e] = "ok"
      PROVE  spoiled[e] = "ok" /\ how = "ok"
  BY <1>0, <1>3, Worst
<1>4. WholeInv(e)'
  <2> SUFFICES ASSUME spoiled'[e] # "torn"
               PROVE  ~journal'[e].torn /\ Whole(t) /\ PromisedOnce(t)
    BY DEF WholeInv
  <2>1. CASE how = "ok"
    BY <1>0, <1>2, <2>1, TellingLine
  <2>2. CASE how = "refused"
    BY <1>2, <2>2
  <2> QED BY <1>2, <2>1, <2>2
<1>5. ToldInv(e)'
  <2> SUFFICES ASSUME spoiled'[e] = "ok"
               PROVE  Ascends(t) /\ entry'[e] = Folded(t)
    BY DEF ToldInv
  <2>1. spoiled[e] = "ok" /\ t = Append(s, line)
    BY <1>2, <1>3
  <2>2. Ascends(s) /\ (s = <<>> \/ Rank(Folded(s)) < Rank(line[2]))
    BY <2>1 DEF TaleInv, ToldInv
  <2> QED BY <1>0, <2>1, <2>2, TellingLine
<1>6. OnceInv(e)'
  <2> SUFFICES ASSUME spoiled'[e] # "torn"
               PROVE  /\ acted[e] <= 1
                      /\ acted[e] = 1 => Has(t, Promised)
                      /\ job'[e].at = "acting" => acted[e] = 0 /\ Has(t, Promised)
                      /\ Has(t, Promised) => /\ line[2] \in {"PROMOTING"} \cup Terminal
                                             /\ Folded(t) \in {"PROMOTING"} \cup Terminal
    BY DEF OnceInv
  <2>1. /\ acted[e] <= 1
        /\ acted[e] = 1 => Has(s, Promised)
        /\ job[e].at = "acting" => acted[e] = 0 /\ Has(s, Promised)
        /\ Has(s, Promised) => Folded(s) \in {"PROMOTING"} \cup Terminal
    BY <1>2 DEF TaleInv, OnceInv
  <2>2. /\ line = Promised => ~Has(s, Promised)
        /\ Has(s, Promised) => line[2] \in {"PROMOTING"} \cup Terminal
    BY <1>2
  <2>3. Promised[2] = "PROMOTING"
    BY DEF Promised, Decision
  <2>4. CASE how = "ok"
    <3>1. /\ Folded(t) = line[2]
          /\ Has(t, Promised) <=> Has(s, Promised) \/ line = Promised
      BY <1>0, <1>2, <2>4, TellingLine
    <3>2. Has(t, Promised) => line[2] \in {"PROMOTING"} \cup Terminal
      BY <2>2, <2>3, <3>1
    <3>3. line = Promised => acted[e] = 0
      BY <1>0, <2>1, <2>2
    <3> QED BY <2>1, <3>1, <3>2, <3>3
  <2>5. CASE how = "refused"
    BY <1>2, <2>1, <2>2, <2>5
  <2> QED BY <1>2, <2>4, <2>5
<1>7. LaterInv(e)'
  <2>1. /\ held[e] # <<>> => e \in inFlight
        /\ \A i \in DOMAIN held[e] : held[e][i][1] = "later"
    BY DEF TaleInv, LaterInv
  <2>2. ASSUME spoiled'[e] = "ok"
        PROVE  /\ queue[e] # "none" /\ e \notin inFlight' => Reported(t)
               /\ OwnLeads(t)
    <3>1. spoiled[e] = "ok" /\ t = Append(s, line)
      BY <1>2, <1>3, <2>2
    <3>2. (queue[e] # "none" /\ e \notin inFlight => Reported(s)) /\ OwnLeads(s)
      BY <3>1 DEF TaleInv, LaterInv
    <3>3. (Reported(s) => Reported(t)) /\ (OwnLeads(s) => OwnLeads(t))
      <4> HIDE DEF s, t
      <4> QED BY <1>0, <3>1, TellingLine
    <3> QED BY <3>2, <3>3
  <2> QED BY <2>1, <2>2 DEF LaterInv
<1> QED BY <1>1, <1>4, <1>5, <1>6, <1>7 DEF TaleInv

\* One neutral line, of a journal that is made.
LEMMA TaleNoted ==
  ASSUME TypeOK, NEW e \in Experiment, TaleInv(e), journal[e].made = TRUE,
         NEW line \in Line, ~Tells(line), line # Merged, NEW how \in How,
         journal'[e] = AppendTo(journal[e], line, how), spoiled'[e] = Worse(spoiled[e], how),
         entry'[e] = entry[e], acted'[e] = acted[e],
         spoiled'[e] = "ok" =>
           /\ line[1] = "later" => Reported(journal[e].lines)
           /\ queue'[e] # "none" /\ e \notin inFlight' => Reported(journal[e].lines),
         held'[e] # <<>> => e \in inFlight',
         \A i \in DOMAIN held'[e] : held'[e][i][1] = "later",
         StartInv(e)', CloserInv(e)',
         job'[e].at = "acting" => job[e].at = "acting"
  PROVE  TaleInv(e)'
<1>0. journal[e] \in Journal /\ spoiled[e] \in How
  BY Typed
<1>1. journal'[e].made = TRUE
  BY <1>0, AppendMade
<1>2. ASSUME spoiled'[e] # "torn"
      PROVE  /\ spoiled[e] # "torn" /\ how \in {"ok", "refused"} /\ ~journal[e].torn
             /\ ~journal'[e].torn /\ Kept(journal[e].lines, journal'[e].lines)
  <2>1. spoiled[e] # "torn" /\ how \in {"ok", "refused"}
    BY <1>0, <1>2, Worst DEF How
  <2>2. ~journal[e].torn
    BY <2>1 DEF TaleInv, WholeInv
  <2> QED BY <1>0, <2>1, <2>2, NeutralAppend
<1>3. ASSUME spoiled'[e] = "ok"
      PROVE  /\ spoiled[e] = "ok" /\ OwnLeads(journal'[e].lines)
             /\ queue'[e] # "none" /\ e \notin inFlight' => Reported(journal'[e].lines)
  <2>1. spoiled[e] = "ok" /\ how = "ok"
    <3>1. Worse(spoiled[e], how) = "ok"
      BY <1>3
    <3> QED BY <1>0, <3>1, Worst
  <2>2. OwnLeads(journal[e].lines)
    BY <2>1 DEF TaleInv, LaterInv
  <2>3. ~journal[e].torn /\ Kept(journal[e].lines, journal'[e].lines)
    BY <1>2, <1>3
  <2>4. OwnLeads(journal'[e].lines)
    BY <1>0, <1>3, <2>1, <2>2, <2>3, NeutralAppend
  <2> QED BY <1>3, <2>1, <2>3, <2>4 DEF Kept
<1> QED BY <1>1, <1>2, <1>3, TaleKept

\* The journal of a registered experiment is made.
LEMMA MadeOf ==
  ASSUME TypeOK, NEW e \in Experiment, TaleInv(e), entry[e] # "absent" \/ queue[e] # "none"
  PROVE  journal[e].made = TRUE
<1>1. journal[e].made \in BOOLEAN
  BY Typed
<1> QED BY <1>1 DEF TaleInv, MadeInv

\* An experiment that has not ended ranks below an end.
LEMMA OpenRank ==
  ASSUME TypeOK, NEW e \in Experiment, Open(e), NEW st \in Terminal
  PROVE  entry[e] # "absent" /\ Rank(entry[e]) < Rank(st)
<1>1. entry[e] \in Status \cup {"absent"}
  BY Typed
<1> QED BY <1>1 DEF Open, Status, Live, Terminal, Rank

\* A promised experiment is promoting or has ended.
LEMMA NotPromised ==
  ASSUME NEW e \in Experiment, TaleInv(e), spoiled[e] # "torn",
         entry[e] \in {"PROPOSED", "RUNNING", "CONCLUDED"}
  PROVE  ~Has(journal[e].lines, Promised)
BY DEF TaleInv, OnceInv, Terminal

LEMMA TaleDeclare ==
  ASSUME TypeOK, JournalInv, NEW e \in Experiment, Declare(e)
  PROVE  JournalInv'
<1> DEFINE line == Decision("PROPOSED")
           j == [journal[e] EXCEPT !.made = TRUE]
<1>0. /\ "declarer" \in Worker /\ "declarer" \notin Experiment
      /\ job["declarer"] \in Job /\ e \in Worker
  BY Workers, Typed, ApartFromExperiments
<1>1. PICK how \in How :
        /\ journal' = [journal EXCEPT ![e] = AppendTo([@ EXCEPT !.made = TRUE], line, how)]
        /\ spoiled' = [spoiled EXCEPT ![e] = Worse(@, how)]
  BY DEF Declare
<1>2. /\ ~journal[e].made
      /\ job["declarer"].at = "chosen"
      /\ entry' = [entry EXCEPT ![e] = "PROPOSED"]
      /\ Move("declarer", "start")
      /\ UNCHANGED <<inFlight, held, queue, acted>>
  BY DEF Declare, Chosen
<1>3. /\ \A v \in Worker : v # "declarer" => job'[v] = job[v]
      /\ job'["declarer"].at = "start"
  BY <1>0, <1>2, Typed, MoveFrame
<1>4. \A f \in Experiment : job'[f] = job[f]
  BY <1>0, <1>3, Workers
<1>5. ASSUME NEW f \in Experiment, f # e
      PROVE  TaleInv(f)'
  <2>1. journal'[f] = journal[f] /\ spoiled'[f] = spoiled[f] /\ entry'[f] = entry[f]
    BY <1>1, <1>2, <1>5, Typed
  <2> QED BY <1>2, <1>3, <1>4, <1>5, <2>1, TaleStays DEF JournalInv
<1>6. TaleInv(e)'
  <2>1. TaleInv(e) /\ journal[e].lines = <<>> /\ entry[e] = "absent" /\ queue[e] = "none"
    BY <1>2 DEF JournalInv, TaleInv, MadeInv
  <2>2. ~Closing(job[e].at) /\ e \notin inFlight
    BY <2>1 DEF TaleInv, CloserInv, Closing, Terminal
  <2>3. /\ journal'[e] = AppendTo(j, line, how) /\ spoiled'[e] = Worse(spoiled[e], how)
        /\ entry'[e] = "PROPOSED"
    BY <1>1, <1>2, Typed
  <2>4. /\ j \in Journal /\ j.made = TRUE /\ j.lines = journal[e].lines
        /\ j.torn = journal[e].torn
    BY Typed DEF Journal
  <2>5. line \in Line /\ Tells(line) /\ line[2] = "PROPOSED" /\ line # Promised
    BY Lines DEF Status, Live, Tells, Decision, Promised
  <2>6. ~Has(journal[e].lines, Promised)
    BY <2>1 DEF Has
  <2>7. StartInv(e)'
    BY <1>3 DEF StartInv
  <2>8. CloserInv(e)'
    BY <1>2, <1>4, <2>2 DEF CloserInv, Closing
  <2>9. job'[e].at # "acting"
    BY <1>4, <2>2 DEF Closing
  <2>10. UNCHANGED <<acted[e], held[e], queue[e]>> /\ (e \in inFlight => e \in inFlight')
    BY <1>2
  <2> HIDE DEF j, line
  <2> QED BY <2>1, <2>3, <2>4, <2>5, <2>6, <2>7, <2>8, <2>9, <2>10, TaleTold
<1> QED BY <1>5, <1>6 DEF JournalInv

LEMMA TaleDeclareFails ==
  ASSUME TypeOK, JournalInv, NEW e \in Experiment, DeclareFails(e)
  PROVE  JournalInv'
<1>0. /\ "declarer" \in Worker /\ "declarer" \notin Experiment
      /\ job["declarer"] \in Job /\ e \in Worker
  BY Workers, Typed, ApartFromExperiments
<1>1. /\ ~journal[e].made
      /\ journal' = [journal EXCEPT ![e].made = TRUE]
      /\ spoiled' = [spoiled EXCEPT ![e] = Worse(@, "refused")]
      /\ Rest("declarer")
      /\ UNCHANGED <<entry, inFlight, held, queue, acted>>
  BY DEF DeclareFails
<1>2. /\ \A f \in Experiment : job'[f] = job[f]
      /\ job'["declarer"].at = "idle"
  BY <1>0, <1>1, RestFrame, Typed, Workers
<1>3. ASSUME NEW f \in Experiment, f # e
      PROVE  TaleInv(f)'
  <2>1. journal'[f] = journal[f] /\ spoiled'[f] = spoiled[f]
    BY <1>1, <1>3, Typed
  <2> QED BY <1>1, <1>2, <1>3, <2>1, TaleStays DEF JournalInv
<1>4. TaleInv(e)'
  <2>1. TaleInv(e) /\ journal[e].lines = <<>> /\ entry[e] = "absent" /\ queue[e] = "none"
    BY <1>1 DEF JournalInv, TaleInv, MadeInv
  <2>2. ~Closing(job[e].at) /\ e \notin inFlight
    BY <2>1 DEF TaleInv, CloserInv, Closing, Terminal
  <2>3. /\ journal'[e].made = TRUE /\ journal'[e].lines = journal[e].lines
        /\ journal'[e].torn = journal[e].torn
    BY <1>1, Typed DEF Journal
  <2>4. spoiled[e] \in How /\ spoiled'[e] = Worse(spoiled[e], "refused")
    BY <1>1, Typed
  <2>5. /\ spoiled'[e] # "torn" => spoiled[e] # "torn"
        /\ spoiled'[e] # "ok"
    BY <2>4, Worst DEF How
  <2>6. Kept(journal[e].lines, journal'[e].lines)
    BY <2>3 DEF Kept
  <2>7. ASSUME spoiled'[e] # "torn"
        PROVE  spoiled[e] # "torn" /\ ~journal'[e].torn
    BY <2>1, <2>3, <2>5, <2>7 DEF TaleInv, WholeInv
  <2>8. held[e] = <<>> \/ e \in inFlight
    BY <2>1 DEF TaleInv, LaterInv
  <2>9. held'[e] = <<>>
    BY <1>1, <2>2, <2>8
  <2>10. StartInv(e)' /\ CloserInv(e)' /\ job'[e].at # "acting"
    BY <1>1, <1>2, <2>2 DEF StartInv, CloserInv, Closing
  <2>11. \A i \in DOMAIN held'[e] : held'[e][i][1] = "later"
    BY <2>9
  <2>12. entry'[e] = entry[e] /\ acted'[e] = acted[e]
    BY <1>1
  <2> QED BY <2>1, <2>3, <2>5, <2>6, <2>7, <2>9, <2>10, <2>11, <2>12, TaleKept
<1> QED BY <1>3, <1>4 DEF JournalInv

\* A step that only moves workers, none of them into or out of the closing of an experiment.
LEMMA TaleQuiet ==
  ASSUME JournalInv, UNCHANGED <<journal, spoiled, entry, queue, held, acted, inFlight>>,
         \A e \in Experiment :
           job'[e].at = job[e].at \/ (~Closing(job'[e].at) /\ ~Closing(job[e].at)),
         \/ job'["declarer"].at \notin {"sent", "landed"}
         \/ /\ job["declarer"].at \in {"sent", "landed"}
            /\ job'["declarer"].exp = job["declarer"].exp
         \/ entry[job'["declarer"].exp] = "PROPOSED"
  PROVE  JournalInv'
<1> SUFFICES ASSUME NEW e \in Experiment PROVE TaleInv(e)'
  BY DEF JournalInv
<1>1. \/ job'["declarer"].at \notin {"sent", "landed"} \/ job'["declarer"].exp # e
      \/ job["declarer"].at \in {"sent", "landed"} /\ job["declarer"].exp = e
      \/ entry[e] = "PROPOSED"
  OBVIOUS
<1> QED BY <1>1, TaleStays DEF JournalInv

\* The write came back and nothing has overtaken it: the proposal is still what stands.
LEMMA TaleStarted ==
  ASSUME TypeOK, JournalInv, Started
  PROVE  JournalInv'
<1>e. PICK e : e = job["declarer"].exp
  OBVIOUS
<1>0. /\ "declarer" \in Worker /\ "declarer" \notin Experiment /\ job["declarer"] \in Job
      /\ job["declarer"].at = "landed" /\ e \in Experiment
  BY <1>e, Workers, Typed, ApartFromExperiments DEF Started, TypeOK
<1>1. CASE Overtaken(e)
  <2>1. /\ job' = [job EXCEPT !["declarer"] = [@ EXCEPT !.at = "restrip", !.res = "applied"]]
        /\ UNCHANGED <<journal, spoiled, entry, queue, held, acted, inFlight>>
    BY <1>1, <1>e DEF Started
  <2>2. /\ \A v \in Worker : v # "declarer" => job'[v] = job[v]
        /\ job'["declarer"].at = "restrip"
    BY <1>0, <2>1, Typed DEF Job
  <2>3. \A f \in Experiment : job'[f] = job[f]
    BY <1>0, <2>2, Workers
  <2> QED BY <2>1, <2>2, <2>3, TaleQuiet
<1>2. CASE ~Overtaken(e)
  <2> DEFINE line == Decision("RUNNING")
  <2>1. /\ entry' = [entry EXCEPT ![e] = "RUNNING"]
        /\ \E how \in How : Log(e, line, how)
        /\ Rest("declarer")
        /\ UNCHANGED <<inFlight, held, queue, acted>>
    BY <1>2, <1>e DEF Started
  <2>2. PICK how \in How : Log(e, line, how)
    BY <2>1
  <2>3. /\ \A f \in Experiment : job'[f] = job[f]
        /\ job'["declarer"].at = "idle"
    BY <1>0, <2>1, RestFrame, Typed, Workers
  <2>4. /\ journal'[e] = AppendTo(journal[e], line, how) /\ spoiled'[e] = Worse(spoiled[e], how)
        /\ entry'[e] = "RUNNING"
        /\ \A f \in Experiment : f # e => /\ journal'[f] = journal[f] /\ spoiled'[f] = spoiled[f]
                                          /\ entry'[f] = entry[f]
    BY <1>0, <2>1, <2>2, Typed DEF Log
  <2>5. ASSUME NEW f \in Experiment, f # e
        PROVE  TaleInv(f)'
    BY <2>1, <2>3, <2>4, <2>5, TaleStays DEF JournalInv
  <2>6. TaleInv(e)'
    <3>1. TaleInv(e) /\ entry[e] = "PROPOSED"
      BY <1>0, <1>2, <1>e DEF JournalInv, TaleInv, StartInv, Overtaken, Open
    <3>2. /\ journal[e] \in Journal /\ journal[e].made = TRUE
      BY <1>0, <3>1, Typed, MadeOf
    <3>3. ~Closing(job[e].at)
      BY <3>1 DEF TaleInv, CloserInv, Closing, Terminal
    <3>4. line \in Line /\ Tells(line) /\ line[2] = "RUNNING" /\ line # Promised
      BY Lines DEF Status, Live, Tells, Decision, Promised
    <3>5. Rank(entry[e]) < Rank("RUNNING") /\ entry[e] # "absent"
      BY <3>1 DEF Rank
    <3>6. spoiled[e] # "torn" => ~Has(journal[e].lines, Promised)
      BY <1>0, <3>1, NotPromised
    <3>7. StartInv(e)' /\ CloserInv(e)' /\ job'[e].at # "acting"
      BY <1>0, <2>1, <2>3, <3>1, <3>3 DEF TaleInv, StartInv, CloserInv, Closing
    <3>8. UNCHANGED <<acted[e], held[e], queue[e]>> /\ (e \in inFlight => e \in inFlight')
      BY <2>1
    <3> HIDE DEF line
    <3> QED BY <1>0, <2>4, <3>1, <3>2, <3>4, <3>5, <3>6, <3>7, <3>8, TaleTold
  <2> QED BY <2>5, <2>6 DEF JournalInv
<1> QED BY <1>1, <1>2

LEMMA TaleDeclarer ==
  ASSUME TypeOK, JournalInv, DeclarerStep
  PROVE  JournalInv'
<1>0. /\ "declarer" \in Worker /\ "declarer" \notin Experiment /\ job["declarer"] \in Job
  BY Workers, Typed, ApartFromExperiments
<1>1. CASE (\E d \in Experiment : Choose(d)) \/ Decline \/ Start \/ StartErred \/ AbortStart
  <2>1. UNCHANGED <<journal, spoiled, entry, queue, held, acted, inFlight>>
    BY <1>1 DEF Choose, Decline, Start, StartErred, AbortStart
  <2>2. /\ \A v \in Worker : v # "declarer" => job'[v] = job[v]
        /\ \/ job'["declarer"].at \notin {"sent", "landed"}
           \/ entry[job'["declarer"].exp] = "PROPOSED"
    <3>1. CASE \E d \in Experiment : Choose(d)
      BY <1>0, <3>1, Typed DEF Choose, Job
    <3>2. CASE Decline
      BY <1>0, <3>2, Typed, RestFrame DEF Decline
    <3>3. CASE Start
      <4>1. PICK at \in {"sent", "abort"} :
               /\ Move("declarer", at)
               /\ at = "sent" => entry[job["declarer"].exp] = "PROPOSED"
        BY <3>3 DEF Start
      <4>2. /\ \A v \in Worker : v # "declarer" => job'[v] = job[v]
            /\ job'["declarer"].at = at /\ job'["declarer"].exp = job["declarer"].exp
        BY <1>0, <4>1, Typed, MoveFrame
      <4> QED BY <4>1, <4>2
    <3>4. CASE StartErred
      <4>1. PICK at \in {"restrip", "abort"} :
               job' = [job EXCEPT !["declarer"] = [@ EXCEPT !.at = at, !.res = "refused"]]
        BY <3>4 DEF StartErred
      <4> QED BY <1>0, <4>1, Typed DEF Job
    <3>5. CASE AbortStart
      <4>1. CASE Rest("declarer")
        BY <1>0, <4>1, Typed, RestFrame
      <4>2. CASE job' = [job EXCEPT !["declarer"] = [@ EXCEPT !.at = "begin", !.end = "ABORTED"]]
        BY <1>0, <4>2, Typed DEF Job
      <4> QED BY <3>5, <4>1, <4>2 DEF AbortStart
    <3> QED BY <1>1, <3>1, <3>2, <3>3, <3>4, <3>5
  <2>3. \A f \in Experiment : job'[f] = job[f]
    BY <1>0, <2>2, Workers
  <2> QED BY <2>1, <2>2, <2>3, TaleQuiet
<1>2. CASE Started
  BY <1>2, TaleStarted
<1>3. CASE \E e \in Experiment : Declare(e) \/ DeclareFails(e)
  BY <1>3, TaleDeclare, TaleDeclareFails
<1> QED BY <1>1, <1>2, <1>3 DEF DeclarerStep

LEMMA TaleKeeper ==
  ASSUME TypeOK, JournalInv, KeeperStep
  PROVE  JournalInv'
<1>0. /\ "keeper" \in Worker /\ "keeper" \notin Experiment /\ job["keeper"] \in Job
      /\ "declarer" \in Worker /\ "keeper" # "declarer"
  BY Workers, Typed, ApartFromExperiments
<1>1. UNCHANGED <<journal, spoiled, entry, queue, held, acted, inFlight>>
  BY DEF KeeperStep, Reasserted, Reassert, Discard
<1>2. \A v \in Worker : v # "keeper" => job'[v] = job[v]
  <2>1. job \in [Worker -> Job]
    BY Typed
  <2> QED BY <2>1 DEF KeeperStep, Reasserted, Reassert, Discard, Move, Rest
<1>3. /\ \A f \in Experiment : job'[f] = job[f]
      /\ job'["declarer"] = job["declarer"]
  BY <1>0, <1>2, Workers
<1> QED BY <1>1, <1>3, TaleQuiet

\* The end of an experiment: the last that is told, once.
LEMMA TaleRecord ==
  ASSUME TypeOK, JournalInv, NEW w \in Worker, Record(w)
  PROVE  JournalInv'
<1>e. PICK e : e = job[w].exp
  OBVIOUS
<1>0. /\ job[w] \in Job /\ job[w].at = "record" /\ e \in Experiment
      /\ job[w].end \in Terminal
  BY <1>e, Typed DEF Record, TypeOK, Job
<1>1. /\ Rest(w)
      /\ UNCHANGED <<inFlight, held, queue, acted>>
  BY DEF Record
<1>2. /\ \A v \in Worker : v # w => job'[v] = job[v]
      /\ job'[w].at = "idle"
  BY <1>1, RestFrame, Typed
<1>3. /\ \A f \in Experiment :
           job'[f].at = job[f].at \/ (~Closing(job'[f].at) /\ ~Closing(job[f].at))
      /\ job'["declarer"].at \notin {"sent", "landed"} \/ job'["declarer"] = job["declarer"]
  BY <1>0, <1>2, Workers DEF Closing
<1>4. CASE ~Open(e)
  <2>1. UNCHANGED <<journal, spoiled, entry>>
    BY <1>4, <1>e DEF Record
  <2> QED BY <1>1, <1>3, <2>1, TaleQuiet
<1>5. CASE Open(e)
  <2> DEFINE line == Outcome(job[w].end)
  <2>1. /\ entry' = [entry EXCEPT ![e] = job[w].end]
        /\ \E how \in How : Log(e, line, how)
    BY <1>5, <1>e DEF Record
  <2>2. PICK how \in How : Log(e, line, how)
    BY <2>1
  <2>3. /\ journal'[e] = AppendTo(journal[e], line, how) /\ spoiled'[e] = Worse(spoiled[e], how)
        /\ entry'[e] = job[w].end
        /\ \A f \in Experiment : f # e => /\ journal'[f] = journal[f] /\ spoiled'[f] = spoiled[f]
                                          /\ entry'[f] = entry[f]
    BY <1>0, <2>1, <2>2, Typed DEF Log
  <2>4. ASSUME NEW f \in Experiment, f # e
        PROVE  TaleInv(f)'
    <3>1. \/ job'["declarer"].at \notin {"sent", "landed"} \/ job'["declarer"].exp # f
          \/ job["declarer"].at \in {"sent", "landed"} /\ job["declarer"].exp = f
      BY <1>3
    <3> QED BY <1>1, <1>3, <2>3, <2>4, <3>1, TaleStays DEF JournalInv
  <2>5. TaleInv(e)'
    <3>1. TaleInv(e) /\ entry[e] # "absent" /\ Rank(entry[e]) < Rank(job[w].end)
      BY <1>0, <1>5, OpenRank DEF JournalInv
    <3>2. /\ journal[e] \in Journal /\ journal[e].made = TRUE
      BY <1>0, <3>1, Typed, MadeOf
    <3>3. line \in Line /\ Tells(line) /\ line[2] = job[w].end /\ line # Promised
      BY <1>0, Lines DEF Tells, Outcome, Promised, Decision
    <3>4. StartInv(e)'
      BY <1>0, <2>3 DEF StartInv
    <3>5. CloserInv(e)'
      BY <1>0, <1>1, <1>3, <2>3, <3>1 DEF TaleInv, CloserInv, Closing
    <3>6. job'[e].at = "acting" => job[e].at = "acting"
      BY <1>3, <1>0 DEF Closing
    <3>7. UNCHANGED <<acted[e], held[e], queue[e]>> /\ (e \in inFlight => e \in inFlight')
      BY <1>1
    <3> HIDE DEF line
    <3> QED BY ZenonT(40), <1>0, <2>3, <3>1, <3>2, <3>3, <3>4, <3>5, <3>6, <3>7, TaleTold
  <2> QED BY <2>4, <2>5 DEF JournalInv
<1> QED BY <1>4, <1>5

\* A strip that failed is noted.
LEMMA TaleRestrip ==
  ASSUME TypeOK, PresentInv, JournalInv, NEW w \in Worker, Restrip(w)
  PROVE  JournalInv'
<1>e. PICK e : e = job[w].exp
  OBVIOUS
<1>0. /\ job[w] \in Job /\ job[w].at = "restrip" /\ e \in Experiment /\ entry[e] # "absent"
      /\ w \in {"declarer", "keeper"} /\ w \notin Experiment
  BY <1>e, Typed, ApartFromExperiments DEF Restrip, TypeOK, PresentInv
<1>1. UNCHANGED <<entry, inFlight, held, queue, acted>>
  BY DEF Restrip
<1>2. PICK at \in {"abort", "idle"} :
        /\ \A v \in Worker : v # w => job'[v] = job[v]
        /\ job'[w].at = at
  <2>1. Move(w, "abort") \/ Rest(w)
    BY DEF Restrip
  <2> QED BY <1>0, <2>1, MoveFrame, RestFrame, Typed
<1>3. /\ \A f \in Experiment : job'[f] = job[f]
      /\ job'["declarer"].at \notin {"sent", "landed"} \/ job'["declarer"] = job["declarer"]
  BY <1>0, <1>2, Workers
<1>4. CASE UNCHANGED <<journal, spoiled>>
  BY <1>1, <1>3, <1>4, TaleQuiet
<1>5. CASE journal' = [journal EXCEPT ![e] = AppendTo(@, Leaked, "ok")] /\ spoiled' = spoiled
  <2>1. /\ journal'[e] = AppendTo(journal[e], Leaked, "ok")
        /\ \A f \in Experiment : f # e => journal'[f] = journal[f]
    BY <1>0, <1>5, Typed
  <2>2. ASSUME NEW f \in Experiment, f # e
        PROVE  TaleInv(f)'
    <3>1. \/ job'["declarer"].at \notin {"sent", "landed"} \/ job'["declarer"].exp # f
          \/ job["declarer"].at \in {"sent", "landed"} /\ job["declarer"].exp = f
      BY <1>3
    <3> QED BY <1>1, <1>3, <1>5, <2>1, <2>2, <3>1, TaleStays DEF JournalInv
  <2>3. TaleInv(e)'
    <3>1. TaleInv(e) /\ journal[e].made = TRUE
      BY <1>0, MadeOf DEF JournalInv
    <3>2. spoiled'[e] = Worse(spoiled[e], "ok")
      BY <1>0, <1>5, Typed, Worst DEF How
    <3>3. StartInv(e)' /\ CloserInv(e)'
      BY <1>0, <1>1, <1>3, <3>1 DEF TaleInv, StartInv, CloserInv
    <3>4. /\ held'[e] # <<>> => e \in inFlight'
          /\ \A i \in DOMAIN held'[e] : held'[e][i][1] = "later"
      BY <1>1, <3>1 DEF TaleInv, LaterInv
    <3>5. spoiled'[e] = "ok" =>
            /\ Leaked[1] = "later" => Reported(journal[e].lines)
            /\ queue'[e] # "none" /\ e \notin inFlight' => Reported(journal[e].lines)
      BY <1>1, <1>5, <3>1, NeutralLines DEF TaleInv, LaterInv
    <3> QED BY <1>0, <1>1, <1>3, <2>1, <3>1, <3>2, <3>3, <3>4, <3>5, NeutralLines, TaleNoted
            DEF How
  <2> QED BY <2>2, <2>3 DEF JournalInv
<1> QED BY <1>4, <1>5, <1>e DEF Restrip

LEMMA TaleWorkers ==
  ASSUME TypeOK, PresentInv, JournalInv, NEW w \in Worker, Teardown(w) \/ Land(w) \/ Restrip(w)
  PROVE  JournalInv'
<1>1. CASE Begin(w) \/ Strip(w) \/ Land(w)
  <2>1. UNCHANGED <<journal, spoiled, entry, queue, held, acted, inFlight>>
    BY <1>1 DEF Begin, Strip, Land
  <2>2. PICK at \in {"strip", "record", "landed"} :
          /\ Move(w, at) /\ ~Closing(job[w].at)
          /\ at = "landed" => job[w].at = "sent"
    BY <1>1 DEF Begin, Strip, Land, Closing
  <2>3. /\ \A v \in Worker : v # w => job'[v] = job[v]
        /\ job'[w].at = at /\ job'[w].exp = job[w].exp
    BY <2>2, MoveFrame, Typed
  <2>4. ~Closing(job'[w].at)
    BY <2>3 DEF Closing
  <2> QED BY <2>1, <2>2, <2>3, <2>4, Workers, TaleQuiet
<1>2. CASE Record(w)
  BY <1>2, TaleRecord
<1>3. CASE Restrip(w)
  BY <1>3, TaleRestrip
<1> QED BY <1>1, <1>2, <1>3 DEF Teardown

\* A step about one experiment, of its own closer or of nobody.
LEMMA TaleOthers ==
  ASSUME TypeOK, JournalInv, NEW e \in Experiment,
         \A v \in Worker : v # e => job'[v] = job[v],
         \A f \in Experiment : f # e =>
           /\ journal'[f] = journal[f] /\ spoiled'[f] = spoiled[f] /\ entry'[f] = entry[f]
           /\ queue'[f] = queue[f] /\ held'[f] = held[f] /\ acted'[f] = acted[f]
           /\ f \in inFlight' <=> f \in inFlight,
         TaleInv(e)'
  PROVE  JournalInv'
<1>1. job'["declarer"] = job["declarer"]
  BY Workers, ApartFromExperiments
<1>2. ASSUME NEW f \in Experiment, f # e
      PROVE  TaleInv(f)'
  <2>1. job'[f] = job[f]
    BY <1>2, Workers
  <2>2. \/ job'["declarer"].at \notin {"sent", "landed"} \/ job'["declarer"].exp # f
        \/ job["declarer"].at \in {"sent", "landed"} /\ job["declarer"].exp = f
    BY <1>1
  <2> QED BY <1>2, <2>1, <2>2, TaleStays DEF JournalInv
<1> QED BY <1>2 DEF JournalInv

LEMMA TaleConclude ==
  ASSUME TypeOK, JournalInv, NEW e \in Experiment, Conclude(e)
  PROVE  JournalInv'
<1> DEFINE line == Decision("CONCLUDED")
<1>0. e \in Worker /\ job[e] \in Job /\ "declarer" \in Worker /\ "declarer" # e
  BY Workers, Typed, ApartFromExperiments
<1>1. /\ job[e] = Idle /\ entry[e] = "RUNNING"
      /\ entry' = [entry EXCEPT ![e] = "CONCLUDED"]
      /\ \E how \in How : Log(e, line, how)
      /\ \E at \in {"verdict", "finish"} :
            job' = [job EXCEPT ![e] = [@ EXCEPT !.at = at, !.exp = e]]
      /\ UNCHANGED <<inFlight, held, queue, acted>>
  BY DEF Conclude
<1>2. PICK how \in How : Log(e, line, how)
  BY <1>1
<1>3. PICK at \in {"verdict", "finish"} :
        job' = [job EXCEPT ![e] = [@ EXCEPT !.at = at, !.exp = e]]
  BY <1>1
<1>4. /\ \A v \in Worker : v # e => job'[v] = job[v]
      /\ job'[e].at = at
  BY <1>0, <1>3, Typed DEF Job
<1>5. /\ journal'[e] = AppendTo(journal[e], line, how) /\ spoiled'[e] = Worse(spoiled[e], how)
      /\ entry'[e] = "CONCLUDED"
      /\ \A f \in Experiment : f # e => /\ journal'[f] = journal[f] /\ spoiled'[f] = spoiled[f]
                                        /\ entry'[f] = entry[f]
  BY <1>1, <1>2, Typed DEF Log
<1>6. TaleInv(e)'
  <2>1. TaleInv(e) /\ entry[e] # "absent" /\ Rank(entry[e]) < Rank("CONCLUDED")
    BY <1>1 DEF JournalInv, Rank
  <2>2. /\ journal[e] \in Journal /\ journal[e].made = TRUE
    BY <2>1, Typed, MadeOf
  <2>3. line \in Line /\ Tells(line) /\ line[2] = "CONCLUDED" /\ line # Promised
    BY Lines DEF Status, Live, Tells, Decision, Promised
  <2>4. spoiled[e] # "torn" => ~Has(journal[e].lines, Promised)
    BY <1>1, <2>1, NotPromised
  <2>5. StartInv(e)'
    BY <1>0, <1>1, <1>4, <2>1 DEF TaleInv, StartInv, Terminal
  <2>6. CloserInv(e)'
    BY <1>1, <1>4, <1>5, <2>1 DEF TaleInv, CloserInv, Idle
  <2>7. job'[e].at # "acting"
    BY <1>4
  <2>8. UNCHANGED <<acted[e], held[e], queue[e]>> /\ (e \in inFlight => e \in inFlight')
    BY <1>1
  <2> HIDE DEF line
  <2> QED BY <1>5, <2>1, <2>2, <2>3, <2>4, <2>5, <2>6, <2>7, <2>8, TaleTold
<1> QED BY <1>1, <1>4, <1>5, <1>6, TaleOthers

\* The promoting decision, written ahead of the promoter's call.
LEMMA TalePromote ==
  ASSUME TypeOK, JournalInv, NEW e \in Experiment, Promote(e)
  PROVE  JournalInv'
<1>0. e \in Worker /\ job[e] \in Job /\ "declarer" \in Worker /\ "declarer" # e
  BY Workers, Typed, ApartFromExperiments
<1>1. /\ job[e].at = "verdict"
      /\ UNCHANGED <<held, queue, acted>>
  BY DEF Promote
<1>2. /\ TaleInv(e) /\ entry[e] \in {"CONCLUDED"} \cup Terminal /\ e \notin inFlight
      /\ journal[e].made = TRUE
  <2>1. TaleInv(e) /\ entry[e] \in {"CONCLUDED"} \cup Terminal /\ e \notin inFlight
    BY <1>1 DEF JournalInv, TaleInv, CloserInv
  <2> QED BY <2>1, MadeOf DEF Terminal
<1>3. /\ held[e] = <<>>
      /\ spoiled[e] = "ok" /\ queue[e] # "none" => Reported(journal[e].lines)
  BY <1>2 DEF TaleInv, LaterInv
<1>4. CASE ~Open(e)
  <2>1. Move(e, "finish") /\ UNCHANGED <<journal, spoiled, entry, inFlight>>
    BY <1>4 DEF Promote
  <2>2. /\ \A v \in Worker : v # e => job'[v] = job[v]
        /\ job'[e].at = "finish"
    BY <1>0, <2>1, MoveFrame, Typed
  <2>3. StartInv(e)' /\ CloserInv(e)'
    BY <1>0, <1>2, <2>1, <2>2 DEF TaleInv, StartInv, CloserInv
  <2>4. MadeInv(e)' /\ WholeInv(e)' /\ ToldInv(e)'
    BY <1>1, <1>2, <2>1 DEF TaleInv, MadeInv, WholeInv, ToldInv
  <2>5. OnceInv(e)' /\ LaterInv(e)'
    BY <1>1, <1>2, <2>1, <2>2 DEF TaleInv, OnceInv, LaterInv
  <2> QED BY <1>1, <2>1, <2>2, <2>3, <2>4, <2>5, TaleOthers DEF TaleInv
<1>5. CASE Open(e) /\ Stopping
  <2> DEFINE line == Own("refused")
  <2>1. Move(e, "finish") /\ UNCHANGED <<entry, inFlight>> /\ \E how \in How : Log(e, line, how)
    BY <1>5 DEF Promote
  <2>2. PICK how \in How : Log(e, line, how)
    BY <2>1
  <2>3. /\ \A v \in Worker : v # e => job'[v] = job[v]
        /\ job'[e].at = "finish"
    BY <1>0, <2>1, MoveFrame, Typed
  <2>4. /\ journal'[e] = AppendTo(journal[e], line, how) /\ spoiled'[e] = Worse(spoiled[e], how)
        /\ \A f \in Experiment : f # e => journal'[f] = journal[f] /\ spoiled'[f] = spoiled[f]
    BY <2>2, Typed DEF Log
  <2>5. StartInv(e)' /\ CloserInv(e)'
    BY <1>0, <1>2, <2>1, <2>3 DEF TaleInv, StartInv, CloserInv
  <2>6. line \in Line /\ ~Tells(line) /\ line # Merged /\ line[1] = "promotion"
    BY NeutralLines DEF Result
  <2>7. spoiled'[e] = "ok" =>
          /\ line[1] = "later" => Reported(journal[e].lines)
          /\ queue'[e] # "none" /\ e \notin inFlight' => Reported(journal[e].lines)
    <3>1. spoiled[e] \in How
      BY Typed
    <3>2. spoiled'[e] = "ok" => spoiled[e] = "ok"
      BY <2>4, <3>1, Worst
    <3> QED BY <1>1, <1>3, <2>6, <3>2
  <2>8. TaleInv(e)'
    <3>1. /\ held'[e] # <<>> => e \in inFlight'
          /\ \A i \in DOMAIN held'[e] : held'[e][i][1] = "later"
          /\ UNCHANGED <<entry[e], acted[e]>> /\ job'[e].at # "acting"
      BY <1>1, <1>3, <2>1, <2>3
    <3> HIDE DEF line
    <3> QED BY <1>2, <2>4, <2>5, <2>6, <2>7, <3>1, TaleNoted
  <2> QED BY <1>1, <2>1, <2>3, <2>4, <2>8, TaleOthers
<1>6. CASE Open(e) /\ ~Stopping
  <2>1. /\ entry' = [entry EXCEPT ![e] = "PROMOTING"]
        /\ inFlight' = inFlight \cup {e}
        /\ \E how \in How : /\ Log(e, Promised, how)
                            /\ Move(e, IF how = "ok" THEN "acting" ELSE "result")
    BY <1>6 DEF Promote, Promised
  <2>2. PICK how \in How : /\ Log(e, Promised, how)
                           /\ Move(e, IF how = "ok" THEN "acting" ELSE "result")
    BY <2>1
  <2>3. /\ \A v \in Worker : v # e => job'[v] = job[v]
        /\ job'[e].at = IF how = "ok" THEN "acting" ELSE "result"
    BY <1>0, <2>2, MoveFrame, Typed
  <2>4. /\ journal'[e] = AppendTo(journal[e], Promised, how)
        /\ spoiled'[e] = Worse(spoiled[e], how) /\ entry'[e] = "PROMOTING"
        /\ \A f \in Experiment : f # e => /\ journal'[f] = journal[f] /\ spoiled'[f] = spoiled[f]
                                          /\ entry'[f] = entry[f]
    BY <2>1, <2>2, Typed DEF Log
  <2>5. entry[e] = "CONCLUDED"
    BY <1>2, <1>6 DEF Open
  <2>6. spoiled[e] # "torn" => ~Has(journal[e].lines, Promised)
    BY <1>2, <2>5, NotPromised
  <2>7. entry[e] # "absent" /\ Rank(entry[e]) < Rank("PROMOTING")
    BY <2>5 DEF Rank
  <2>8. Promised \in Line /\ Tells(Promised) /\ Promised[2] = "PROMOTING"
    BY Lines DEF Status, Tells, Decision, Promised
  <2>9. StartInv(e)'
    BY <1>0, <1>2, <2>3, <2>5 DEF TaleInv, StartInv, Terminal
  <2>10. CloserInv(e)'
    BY <2>1, <2>3, <2>4 DEF CloserInv
  <2>11. job'[e].at = "acting" => how = "ok"
    BY <2>3
  <2>12. journal[e] \in Journal
    BY Typed
  <2>13. UNCHANGED <<acted[e], held[e], queue[e]>> /\ e \in inFlight'
    BY <1>1, <2>1
  <2>14. TaleInv(e)'
    <3>1. spoiled[e] # "torn" =>
            /\ Promised = Promised => ~Has(journal[e].lines, Promised)
            /\ Has(journal[e].lines, Promised) => Promised[2] \in {"PROMOTING"} \cup Terminal
      BY <2>6, <2>8
    <3> QED BY <1>2, <2>4, <2>7, <2>8, <2>9, <2>10, <2>11, <2>12, <2>13, <3>1, TaleTold
  <2> QED BY <1>1, <2>1, <2>3, <2>4, <2>14, TaleOthers
<1> QED BY <1>4, <1>5, <1>6

\* The promoter acts, for the first time.
LEMMA TaleAct ==
  ASSUME TypeOK, JournalInv, NEW e \in Experiment, Act(e)
  PROVE  JournalInv'
<1>0. e \in Worker /\ job[e] \in Job /\ "declarer" \in Worker /\ "declarer" # e
      /\ acted[e] \in Nat
  BY Workers, Typed, ApartFromExperiments
<1>1. /\ job[e].at = "acting" /\ TaleInv(e)
      /\ UNCHANGED <<entry, journal, inFlight, held, spoiled>>
  BY DEF Act, JournalInv
<1>2. PICK res \in Result :
        /\ job' = [job EXCEPT ![e] = [@ EXCEPT !.at = "result", !.res = res]]
        /\ acted' = [acted EXCEPT ![e] = @ + IF res \in Acting THEN 1 ELSE 0]
        /\ queue' = [queue EXCEPT ![e] = CASE res = "deferred" -> "waits"
                                            [] res = "applied" -> "applied"
                                            [] OTHER -> @]
  BY DEF Act
<1>3. /\ \A v \in Worker : v # e => job'[v] = job[v]
      /\ job'[e].at = "result"
  BY <1>0, <1>2, Typed DEF Job
<1>4. /\ \A f \in Experiment : f # e => queue'[f] = queue[f] /\ acted'[f] = acted[f]
      /\ acted'[e] = acted[e] \/ acted'[e] = acted[e] + 1
  BY <1>0, <1>2, Typed
<1>5. entry[e] \in {"PROMOTING"} \cup Terminal /\ e \in inFlight
  BY <1>1 DEF TaleInv, CloserInv
<1>6. MadeInv(e)' /\ WholeInv(e)' /\ ToldInv(e)'
  <2>1. journal[e].made = TRUE
    BY <1>1, <1>5, MadeOf DEF Terminal
  <2> QED BY <1>1, <2>1 DEF TaleInv, MadeInv, WholeInv, ToldInv
<1>7. StartInv(e)' /\ CloserInv(e)'
  BY <1>0, <1>1, <1>3, <1>5 DEF TaleInv, StartInv, CloserInv
<1>8. OnceInv(e)'
  <2>1. spoiled[e] # "torn" => acted'[e] <= 1
    BY <1>0, <1>1, <1>4 DEF TaleInv, OnceInv
  <2> QED BY <1>1, <1>3, <2>1 DEF TaleInv, OnceInv
<1>9. LaterInv(e)'
  BY <1>1, <1>5 DEF TaleInv, LaterInv
<1> QED BY <1>1, <1>3, <1>4, <1>6, <1>7, <1>8, <1>9, TaleOthers DEF TaleInv

LEMMA KeptTrans ==
  ASSUME NEW r, NEW s, NEW t, Kept(r, s), Kept(s, t)
  PROVE  Kept(r, t)
BY DEF Kept

\* A line held back for the promotion's own event: an outcome of it.
LEMMA HeldLine ==
  ASSUME NEW line \in Line, line[1] = "later"
  PROVE  ~Tells(line) /\ line # Merged
BY DEF Tells, Merged

\* The promotion's own event, and behind it what was held back.
LEMMA TaleJournalResult ==
  ASSUME TypeOK, JournalInv, NEW e \in Experiment, JournalResult(e)
  PROVE  JournalInv'
<1>0. /\ e \in Worker /\ job[e] \in Job /\ "declarer" \in Worker /\ "declarer" # e
      /\ journal[e] \in Journal /\ spoiled[e] \in How /\ held[e] \in Seq(Line)
      /\ Own(job[e].res) \in Line
  BY Workers, Typed, ApartFromExperiments, NeutralLines DEF Job
<1>1. /\ job[e].at = "result" /\ TaleInv(e) /\ Move(e, "finish")
      /\ inFlight' = inFlight \ {e} /\ held' = [held EXCEPT ![e] = <<>>]
      /\ UNCHANGED <<entry, queue, acted>>
  BY DEF JournalResult, JournalInv
<1> DEFINE own(how) == AppendTo(journal[e], Own(job[e].res), how)
           one(how) == IF Len(held[e]) > 0 THEN AppendTo(own(how), held[e][1], "ok") ELSE own(how)
           two(how) == IF Len(held[e]) > 1 THEN AppendTo(one(how), held[e][2], "ok") ELSE one(how)
<1>2. PICK how \in How :
        /\ journal' = [journal EXCEPT ![e] = two(how)]
        /\ spoiled' = [spoiled EXCEPT ![e] = Worse(@, how)]
  BY DEF JournalResult
<1>3. /\ \A v \in Worker : v # e => job'[v] = job[v]
      /\ job'[e].at = "finish"
  BY <1>0, <1>1, MoveFrame, Typed
<1>4. /\ journal'[e] = two(how) /\ spoiled'[e] = Worse(spoiled[e], how) /\ held'[e] = <<>>
      /\ \A f \in Experiment : f # e =>
           /\ journal'[f] = journal[f] /\ spoiled'[f] = spoiled[f] /\ held'[f] = held[f]
           /\ f \in inFlight' <=> f \in inFlight
  <2> HIDE DEF two
  <2> QED BY <1>1, <1>2, Typed
<1>5. /\ Len(held[e]) \in Nat
      /\ Len(held[e]) > 0 => held[e][1] \in Line /\ held[e][1][1] = "later"
      /\ Len(held[e]) > 1 => held[e][2] \in Line /\ held[e][2][1] = "later"
  <2>1. Len(held[e]) \in Nat /\ DOMAIN held[e] = 1..Len(held[e])
    BY <1>0
  <2>2. \A i \in DOMAIN held[e] : held[e][i] \in Line /\ held[e][i][1] = "later"
    BY <1>0, <1>1 DEF TaleInv, LaterInv
  <2> QED BY <2>1, <2>2
<1>6. journal'[e].made = TRUE
  <2>1. entry[e] \in {"PROMOTING"} \cup Terminal
    BY <1>1 DEF TaleInv, CloserInv
  <2>2. journal[e].made = TRUE
    BY <1>1, <2>1, MadeOf DEF Terminal
  <2>3. own(how) \in Journal /\ own(how).made = TRUE
    BY <1>0, <2>2, Appended, AppendMade
  <2>4. one(how) \in Journal /\ one(how).made = TRUE
    <3> HIDE DEF own
    <3> QED BY <1>5, <2>3, Appended, AppendMade DEF How
  <2>5. two(how).made = TRUE
    <3> HIDE DEF one
    <3> QED BY <1>5, <2>4, AppendMade
  <2> HIDE DEF two
  <2> QED BY <1>4, <2>5
<1>7. ASSUME spoiled'[e] # "torn"
      PROVE  /\ spoiled[e] # "torn" /\ how \in {"ok", "refused"} /\ ~journal'[e].torn
             /\ Kept(journal[e].lines, journal'[e].lines)
             /\ how = "ok" => Reported(journal'[e].lines)
             /\ how = "ok" /\ OwnLeads(journal[e].lines) => OwnLeads(journal'[e].lines)
  <2>1. spoiled[e] # "torn" /\ how \in {"ok", "refused"}
    BY <1>0, <1>4, <1>7, Worst DEF How
  <2>2. ~journal[e].torn
    BY <1>1, <2>1 DEF TaleInv, WholeInv
  <2> DEFINE good(k) == /\ k \in Journal /\ ~k.torn /\ Kept(journal[e].lines, k.lines)
                        /\ how = "ok" => Reported(k.lines)
                        /\ how = "ok" /\ OwnLeads(journal[e].lines) => OwnLeads(k.lines)
  <2>3. good(own(how))
    <3>1. /\ Own(job[e].res) \in Line /\ ~Tells(Own(job[e].res)) /\ Own(job[e].res) # Merged
          /\ Own(job[e].res)[1] = "promotion"
      BY <1>0, NeutralLines DEF Job
    <3> QED BY <1>0, <2>1, <2>2, <3>1, NeutralAppend
  <2>4. ASSUME NEW k \in Journal, good(k), NEW line \in Line, line[1] = "later"
        PROVE  good(AppendTo(k, line, "ok"))
    <3>1. ~Tells(line) /\ line # Merged
      BY <2>4, HeldLine
    <3>2. PICK l : l = AppendTo(k, line, "ok")
      OBVIOUS
    <3>3. /\ l \in Journal /\ ~l.torn /\ Kept(k.lines, l.lines)
          /\ OwnLeads(k.lines) /\ Reported(k.lines) => OwnLeads(l.lines)
      BY <2>4, <3>1, <3>2, NeutralAppend
    <3>4. Kept(journal[e].lines, l.lines) /\ (Reported(k.lines) => Reported(l.lines))
      BY <2>4, <3>3, KeptTrans DEF Kept
    <3>5. good(l)
      BY <2>4, <3>3, <3>4
    <3> QED BY <3>2, <3>5
  <2>5. own(how) \in Journal /\ good(own(how))
    BY <2>3
  <2>6. one(how) \in Journal /\ good(one(how))
    <3>1. CASE Len(held[e]) > 0
      <4> HIDE DEF own, good
      <4>1. good(AppendTo(own(how), held[e][1], "ok"))
        BY <1>5, <2>4, <2>5, <3>1
      <4> QED BY <3>1, <4>1 DEF good
    <3>2. CASE ~(Len(held[e]) > 0)
      <4> HIDE DEF own, good
      <4> QED BY <2>5, <3>2
    <3> QED BY <3>1, <3>2
  <2>7. good(two(how))
    <3> HIDE DEF one, good
    <3>1. CASE Len(held[e]) > 1
      BY <1>5, <2>4, <2>6, <3>1
    <3>2. CASE ~(Len(held[e]) > 1)
      BY <2>6, <3>2
    <3> QED BY <3>1, <3>2
  <2>8. good(journal'[e])
    <3> HIDE DEF two, good
    <3> QED BY <1>4, <2>7
  <2> QED BY <2>1, <2>8
<1>8. ASSUME spoiled'[e] = "ok"
      PROVE  /\ spoiled[e] = "ok" /\ OwnLeads(journal'[e].lines)
             /\ Reported(journal'[e].lines)
  <2>1. spoiled[e] = "ok" /\ how = "ok"
    <3>1. Worse(spoiled[e], how) = "ok"
      BY <1>4, <1>8
    <3> QED BY <1>0, <3>1, Worst
  <2>2. OwnLeads(journal[e].lines)
    BY <1>1, <2>1 DEF TaleInv, LaterInv
  <2> QED BY <1>7, <1>8, <2>1, <2>2
<1>9. StartInv(e)' /\ CloserInv(e)'
  BY <1>0, <1>1, <1>3 DEF TaleInv, StartInv, CloserInv
<1>10. TaleInv(e)'
  <2>1. /\ held'[e] # <<>> => e \in inFlight'
        /\ \A i \in DOMAIN held'[e] : held'[e][i][1] = "later"
        /\ UNCHANGED <<entry[e], acted[e]>> /\ job'[e].at # "acting"
    BY <1>1, <1>3, <1>4
  <2> QED BY <1>1, <1>6, <1>7, <1>8, <1>9, <2>1, TaleKept
<1> QED BY <1>1, <1>3, <1>4, <1>10, TaleOthers

\* A later outcome of a promotion whose own event is out goes to the journal, any other waits.
LEMMA TaleSettled ==
  ASSUME TypeOK, NEW e \in Experiment, TaleInv(e), queue[e] # "none", NEW res \in Later,
         spoiled'[e] = spoiled[e], entry'[e] = entry[e], acted'[e] = acted[e],
         job'[e] = job[e], job'["declarer"] = job["declarer"],
         e \in inFlight' <=> e \in inFlight,
         IF e \in inFlight
         THEN held'[e] = Append(held[e], After(res)) /\ journal'[e] = journal[e]
         ELSE held'[e] = held[e] /\ journal'[e] = AppendTo(journal[e], After(res), "ok")
  PROVE  TaleInv(e)'
<1>0. /\ journal[e] \in Journal /\ spoiled[e] \in How /\ held[e] \in Seq(Line)
      /\ journal[e].made = TRUE
  BY Typed, MadeOf
<1>1. /\ After(res) \in Line /\ ~Tells(After(res)) /\ After(res) # Merged
      /\ After(res)[1] = "later"
  BY NeutralLines
<1>2. StartInv(e)' /\ CloserInv(e)'
  BY DEF TaleInv, StartInv, CloserInv
<1>3. /\ held[e] # <<>> => e \in inFlight
      /\ \A i \in DOMAIN held[e] : held[e][i][1] = "later"
      /\ spoiled[e] = "ok" =>
           (e \notin inFlight => Reported(journal[e].lines)) /\ OwnLeads(journal[e].lines)
  BY DEF TaleInv, LaterInv
<1>4. CASE e \in inFlight
  <2>1. \A i \in DOMAIN held'[e] : held'[e][i][1] = "later"
    <3>1. held'[e] = Append(held[e], After(res))
      BY <1>4
    <3>2. /\ DOMAIN held[e] = 1..Len(held[e]) /\ DOMAIN held'[e] = 1..(Len(held[e]) + 1)
          /\ Len(held[e]) \in Nat /\ held'[e][Len(held[e]) + 1] = After(res)
          /\ \A i \in 1..Len(held[e]) : held'[e][i] = held[e][i]
      BY <1>0, <1>1, <3>1, Appends
    <3> QED BY <1>1, <1>3, <3>2
  <2>2. MadeInv(e)' /\ WholeInv(e)' /\ ToldInv(e)'
    BY <1>0, <1>4 DEF TaleInv, MadeInv, WholeInv, ToldInv
  <2>3. OnceInv(e)'
    BY <1>4 DEF TaleInv, OnceInv
  <2>4. LaterInv(e)'
    BY <1>3, <1>4, <2>1 DEF LaterInv
  <2> QED BY <1>2, <2>2, <2>3, <2>4 DEF TaleInv
<1>5. CASE e \notin inFlight
  <2>1. spoiled'[e] = Worse(spoiled[e], "ok")
    BY <1>0, Worst DEF How
  <2>2. spoiled'[e] = "ok" =>
          /\ After(res)[1] = "later" => Reported(journal[e].lines)
          /\ queue'[e] # "none" /\ e \notin inFlight' => Reported(journal[e].lines)
    BY <1>3, <1>5
  <2>3. /\ held'[e] # <<>> => e \in inFlight'
        /\ \A i \in DOMAIN held'[e] : held'[e][i][1] = "later"
        /\ journal'[e] = AppendTo(journal[e], After(res), "ok")
    BY <1>3, <1>5
  <2>4. "ok" \in How
    BY DEF How
  <2> QED BY <1>0, <1>1, <1>2, <2>1, <2>2, <2>3, <2>4, TaleNoted
<1> QED BY <1>4, <1>5

LEMMA TaleRecordPromotion ==
  ASSUME TypeOK, JournalInv, NEW e \in Experiment, RecordPromotion(e)
  PROVE  JournalInv'
<1>1. /\ queue[e] # "none" /\ TaleInv(e)
      /\ UNCHANGED <<entry, job, inFlight, acted, spoiled>>
  BY DEF RecordPromotion, JournalInv
<1>2. PICK res \in {"applied", "refused", "reverted"} :
        /\ queue' = [queue EXCEPT ![e] = IF res = "applied" THEN "applied" ELSE "none"]
        /\ IF e \in inFlight
           THEN /\ held' = [held EXCEPT ![e] = Append(@, After(res))]
                /\ UNCHANGED journal
           ELSE /\ journal' = [journal EXCEPT ![e] = AppendTo(@, After(res), "ok")]
                /\ UNCHANGED held
  BY DEF RecordPromotion
<1>3. \A f \in Experiment : f # e =>
        queue'[f] = queue[f] /\ held'[f] = held[f] /\ journal'[f] = journal[f]
  BY <1>2, Typed
<1>4. TaleInv(e)'
  <2>1. IF e \in inFlight
        THEN held'[e] = Append(held[e], After(res)) /\ journal'[e] = journal[e]
        ELSE held'[e] = held[e] /\ journal'[e] = AppendTo(journal[e], After(res), "ok")
    BY <1>2, Typed
  <2>2. res \in Later
    BY DEF Later
  <2> QED BY <1>1, <2>1, <2>2, TaleSettled
<1> QED BY <1>1, <1>3, <1>4, TaleOthers

LEMMA TaleCloser ==
  ASSUME TypeOK, JournalInv, NEW e \in Experiment,
         Conclude(e) \/ CloserStep(e) \/ RecordPromotion(e)
  PROVE  JournalInv'
<1>1. CASE Finish(e)
  <2>1. /\ UNCHANGED <<journal, spoiled, entry, queue, held, acted, inFlight>>
        /\ job[e].at = "finish"
    BY <1>1 DEF Finish
  <2>2. e \in Worker /\ job[e] \in Job /\ "declarer" \in Worker /\ "declarer" # e
    BY Workers, Typed, ApartFromExperiments
  <2>3. /\ \A v \in Worker : v # e => job'[v] = job[v]
        /\ job'[e].at = "begin"
    BY <1>1, <2>2, Typed DEF Finish, Job
  <2>4. ~Closing(job[e].at) /\ ~Closing(job'[e].at)
    BY <2>1, <2>3 DEF Closing
  <2> QED BY <2>1, <2>2, <2>3, <2>4, Workers, TaleQuiet
<1> QED BY <1>1, TaleConclude, TalePromote, TaleAct, TaleJournalResult, TaleRecordPromotion
        DEF CloserStep

\* The stop drops the deferred writes, each as an outcome of its promotion.
LEMMA TaleLoopStops ==
  ASSUME TypeOK, JournalInv, LoopStops
  PROVE  JournalInv'
<1> SUFFICES ASSUME NEW e \in Experiment PROVE TaleInv(e)'
  BY DEF JournalInv
<1>1. /\ UNCHANGED <<entry, job, inFlight, acted, spoiled>>
      /\ queue'[e] = IF queue[e] = "waits" THEN "none" ELSE queue[e]
      /\ held'[e] = IF queue[e] = "waits" /\ e \in inFlight
                    THEN Append(held[e], After("refused")) ELSE held[e]
      /\ journal'[e] = IF queue[e] = "waits" /\ e \notin inFlight
                       THEN AppendTo(journal[e], After("refused"), "ok") ELSE journal[e]
  BY DEF LoopStops
<1>2. TaleInv(e)
  BY DEF JournalInv
<1>3. CASE queue[e] = "waits"
  <2>1. "refused" \in Later
    BY DEF Later
  <2>2. IF e \in inFlight
        THEN held'[e] = Append(held[e], After("refused")) /\ journal'[e] = journal[e]
        ELSE held'[e] = held[e] /\ journal'[e] = AppendTo(journal[e], After("refused"), "ok")
    BY <1>1, <1>3
  <2> QED BY <1>1, <1>2, <1>3, <2>1, <2>2, TaleSettled
<1>4. CASE queue[e] # "waits"
  <2>1. UNCHANGED <<queue[e], held[e], journal[e]>>
    BY <1>1, <1>4
  <2>2. \/ job'["declarer"].at \notin {"sent", "landed"} \/ job'["declarer"].exp # e
        \/ job["declarer"].at \in {"sent", "landed"} /\ job["declarer"].exp = e
    BY <1>1
  <2> QED BY <1>1, <1>2, <2>1, <2>2, TaleStays
<1> QED BY <1>3, <1>4

\* A deferred promotion is one the promotion's own event told of.
LEMMA DeferredReported ==
  ASSUME NEW s \in Seq(Line), LastPromotion(s) = "deferred"
  PROVE  Reported(s)
<1> DEFINE kinds == {"promotion", "later"}
<1>1. PICK m \in DOMAIN s : s[m][1] \in kinds /\ s[m][2] = "deferred"
  BY LastFound DEF LastPromotion
<1>2. s[m] \in Line
  OBVIOUS
<1>3. s[m][1] = "promotion"
  BY <1>1, <1>2 DEF Line, Decision, Outcome, Own, After, Later, Leaked, Merged
<1> QED BY <1>3 DEF Reported

\* What a restore reads of a journal nothing was torn from is the journal.
LEMMA RecoveredWhole ==
  ASSUME NEW j \in Journal
  PROVE  /\ Recovered(j) \in Journal /\ Recovered(j).made = j.made /\ ~Recovered(j).torn
         /\ Whole(j.lines) => Recovered(j).lines = j.lines
<1>1. Recovered(j) \in Journal
  BY RecoveredType
<1>2. Recovered(j).made = j.made /\ Recovered(j).torn = FALSE
  BY DEF Recovered, Journal
<1>3. ASSUME Whole(j.lines) PROVE Recovered(j).lines = j.lines
  <2>1. ~(j.lines # <<>> /\ j.lines[Len(j.lines)] = Merged)
    <3> SUFFICES ASSUME j.lines # <<>>, j.lines[Len(j.lines)] = Merged PROVE FALSE
      OBVIOUS
    <3>1. j.lines \in Seq(Line)
      BY DEF Journal
    <3>2. Len(j.lines) \in DOMAIN j.lines
      BY <3>1, EmptySeq
    <3> QED BY <1>3, <3>2 DEF Whole, Has
  <2> QED BY <2>1 DEF Recovered, Journal
<1> QED BY <1>1, <1>2, <1>3

\* A restore takes over what the journals tell, and tells them nothing new but a lost write.
LEMMA TaleRehydrate ==
  ASSUME TypeOK, JournalInv, Rehydrate
  PROVE  JournalInv'
<1> SUFFICES ASSUME NEW e \in Experiment PROVE TaleInv(e)'
  BY DEF JournalInv
<1>0. TaleInv(e) /\ journal[e] \in Journal /\ journal[e].lines \in Seq(Line)
  BY Typed DEF JournalInv
<1>1. /\ UNCHANGED <<job, inFlight, held, queue, acted, spoiled>>
      /\ journal'[e] = IF e \in Foreign THEN Swept(e) ELSE journal[e]
      /\ entry'[e] = IF e \in Foreign /\ Folded(Found(e)) \notin Terminal
                     THEN Folded(Found(e)) ELSE entry[e]
  <2> DEFINE back == {f \in Foreign : Folded(Found(f)) \notin Terminal}
  <2>1. /\ UNCHANGED <<job, inFlight, held, queue, acted, spoiled>>
        /\ journal' = [f \in Experiment |-> IF f \in Foreign THEN Swept(f) ELSE journal[f]]
        /\ entry' = [f \in Experiment |-> IF f \in back THEN Folded(Found(f)) ELSE entry[f]]
    BY DEF Rehydrate
  <2> QED BY <2>1
<1>2. CASE e \notin Foreign
  <2>1. UNCHANGED <<journal[e], entry[e]>>
    BY <1>1, <1>2
  <2>2. \/ job'["declarer"].at \notin {"sent", "landed"} \/ job'["declarer"].exp # e
        \/ job["declarer"].at \in {"sent", "landed"} /\ job["declarer"].exp = e
    BY <1>1
  <2> QED BY <1>0, <1>1, <2>1, <2>2, TaleStays
<1>3. CASE e \in Foreign
  <2>1. journal[e].made = TRUE /\ entry[e] = "absent"
    BY <1>3, Typed DEF Foreign
  <2>2. /\ Recovered(journal[e]) \in Journal /\ Recovered(journal[e]).made = TRUE
        /\ ~Recovered(journal[e]).torn
        /\ Whole(journal[e].lines) => Found(e) = journal[e].lines
    BY <1>0, <2>1, RecoveredWhole DEF Found
  <2>3. /\ \/ journal'[e] = Recovered(journal[e])
           \/ /\ journal'[e] = AppendTo(Recovered(journal[e]), After("lost"), "ok")
              /\ LastPromotion(Found(e)) = "deferred"
    BY <1>1, <1>3 DEF Swept
  <2>4. journal'[e].made = TRUE
    <3>1. AppendTo(Recovered(journal[e]), After("lost"), "ok").made = TRUE
      BY <2>2, AppendMade
    <3> QED BY <2>2, <2>3, <3>1
  <2>5. ~Closing(job[e].at) /\ e \notin inFlight /\ held[e] = <<>>
    <3>1. ~Closing(job[e].at) /\ e \notin inFlight
      BY <1>0, <2>1 DEF TaleInv, CloserInv, Closing, Terminal
    <3> QED BY <1>0, <3>1 DEF TaleInv, LaterInv
  <2>6. /\ StartInv(e)' /\ CloserInv(e)' /\ job'[e].at # "acting"
        /\ held'[e] # <<>> => e \in inFlight'
        /\ \A i \in DOMAIN held'[e] : held'[e][i][1] = "later"
        /\ acted'[e] = acted[e]
    BY <1>0, <1>1, <2>1, <2>5 DEF TaleInv, StartInv, CloserInv, Closing, Terminal
  <2>7. ASSUME spoiled'[e] # "torn"
        PROVE  /\ spoiled[e] # "torn" /\ ~journal'[e].torn
               /\ Kept(journal[e].lines, journal'[e].lines)
               /\ entry'[e] = entry[e] \/ entry'[e] = Folded(journal[e].lines)
               /\ OwnLeads(journal[e].lines) => OwnLeads(journal'[e].lines)
    <3>1. spoiled[e] # "torn" /\ Found(e) = journal[e].lines
      BY <1>0, <1>1, <2>2, <2>7 DEF TaleInv, WholeInv
    <3>2. Recovered(journal[e]).lines = journal[e].lines
      BY <3>1 DEF Found
    <3>3. CASE journal'[e] = Recovered(journal[e])
      BY <1>1, <2>2, <3>1, <3>2, <3>3 DEF Kept
    <3>4. CASE /\ journal'[e] = AppendTo(Recovered(journal[e]), After("lost"), "ok")
               /\ LastPromotion(Found(e)) = "deferred"
      <4>1. Reported(journal[e].lines)
        BY <1>0, <3>1, <3>4, DeferredReported
      <4>2. After("lost") \in Line /\ ~Tells(After("lost")) /\ After("lost") # Merged
        BY NeutralLines DEF Later
      <4>3. /\ ~journal'[e].torn /\ Kept(journal[e].lines, journal'[e].lines)
            /\ OwnLeads(journal[e].lines) => OwnLeads(journal'[e].lines)
        BY <2>2, <3>2, <3>4, <4>1, <4>2, NeutralAppend
      <4> QED BY <1>1, <3>1, <4>3
    <3> QED BY <2>3, <3>3, <3>4
  <2>8. ASSUME spoiled'[e] = "ok"
        PROVE  /\ spoiled[e] = "ok" /\ OwnLeads(journal'[e].lines)
               /\ queue'[e] # "none" /\ e \notin inFlight' => Reported(journal'[e].lines)
    <3>1. spoiled[e] = "ok"
      BY <1>1, <2>8
    <3>2. /\ OwnLeads(journal[e].lines)
          /\ queue[e] # "none" /\ e \notin inFlight => Reported(journal[e].lines)
      BY <1>0, <3>1 DEF TaleInv, LaterInv
    <3> QED BY <1>1, <2>7, <2>8, <3>1, <3>2 DEF Kept
  <2> QED BY <1>0, <2>4, <2>6, <2>7, <2>8, TaleKept
<1> QED BY <1>2, <1>3

LEMMA TaleLoop ==
  ASSUME TypeOK, JournalInv, LoopStep
  PROVE  JournalInv'
<1>0. "loop" \in Worker /\ "loop" \notin Experiment /\ "declarer" \in Worker /\ job \in [Worker -> Job]
  BY Workers, Typed, ApartFromExperiments
<1>1. CASE \/ TickOff \/ LoopReturns
           \/ \E e \in Experiment, why \in {"abort", "unstarted", "unfinished", "lost"} :
                 TakeNext(e, why)
  <2>1. UNCHANGED <<journal, spoiled, entry, queue, held, acted, inFlight>>
    BY <1>1 DEF TickOff, LoopReturns, TakeNext
  <2>2. \A v \in Worker : v # "loop" => job'[v] = job[v]
    BY <1>0, <1>1 DEF TickOff, LoopReturns, TakeNext
  <2>3. (\A f \in Experiment : job'[f] = job[f]) /\ job'["declarer"] = job["declarer"]
    BY <1>0, <2>2, Workers
  <2> QED BY <2>1, <2>3, TaleQuiet
<1> QED BY <1>1, TaleRehydrate, TaleLoopStops DEF LoopStep

\* A crash leaves the journals, and forgets what they were told of.
LEMMA TaleWorld ==
  ASSUME TypeOK, JournalInv, Stop \/ Crash \/ Flip \/ FlagServiceRestarts
  PROVE  JournalInv'
<1>1. CASE Stop \/ Flip \/ FlagServiceRestarts
  <2>1. UNCHANGED <<journal, spoiled, entry, queue, held, acted, inFlight, job>>
    BY <1>1 DEF Stop, Flip, FlagServiceRestarts
  <2> QED BY <2>1, TaleQuiet
<1>2. CASE Crash
  <2> SUFFICES ASSUME NEW e \in Experiment PROVE TaleInv(e)'
    BY DEF JournalInv
  <2>1. /\ entry'[e] = "absent" /\ inFlight' = {} /\ held'[e] = <<>> /\ queue'[e] = "none"
        /\ job'[e].at = "idle" /\ job'["declarer"].at = "idle"
        /\ UNCHANGED <<journal, acted, spoiled>> /\ TaleInv(e)
    BY <1>2, Workers DEF Crash, JournalInv, Idle
  <2>2. MadeInv(e)' /\ WholeInv(e)' /\ ToldInv(e)'
    BY <2>1 DEF TaleInv, MadeInv, WholeInv, ToldInv
  <2>3. StartInv(e)' /\ CloserInv(e)'
    BY <2>1 DEF StartInv, CloserInv
  <2>4. OnceInv(e)' /\ LaterInv(e)'
    BY <2>1 DEF TaleInv, OnceInv, LaterInv
  <2> QED BY <2>2, <2>3, <2>4 DEF TaleInv
<1> QED BY <1>1, <1>2

LEMMA TaleStep ==
  ASSUME TypeOK, PresentInv, JournalInv, [Next]_vars
  PROVE  JournalInv'
<1>1. CASE Next
  BY <1>1, TaleDeclarer, TaleKeeper, TaleLoop, TaleCloser, TaleWorkers, TaleWorld DEF Next
<1>2. CASE UNCHANGED vars
  <2>1. UNCHANGED <<journal, spoiled, entry, queue, held, acted, inFlight, job>>
    BY <1>2 DEF vars
  <2> QED BY <2>1, TaleQuiet
<1> QED BY <1>1, <1>2

LEMMA TaleInit == Init => JournalInv
<1> SUFFICES ASSUME Init, NEW e \in Experiment PROVE TaleInv(e)
  BY DEF JournalInv
<1>1. /\ entry[e] = "absent" /\ inFlight = {} /\ held[e] = <<>> /\ queue[e] = "none"
      /\ job[e].at = "idle" /\ job["declarer"].at = "idle" /\ acted[e] = 0
      /\ journal[e].lines = <<>> /\ ~journal[e].torn /\ ~journal[e].made
  BY Workers DEF Init, Idle, Blank
<1>2. /\ Whole(<<>>) /\ PromisedOnce(<<>>) /\ Ascends(<<>>) /\ OwnLeads(<<>>)
      /\ ~Has(<<>>, Promised)
  BY DEF Whole, PromisedOnce, Ascends, OwnLeads, Has
<1>3. MadeInv(e) /\ WholeInv(e) /\ ToldInv(e)
  BY <1>1, <1>2 DEF MadeInv, WholeInv, ToldInv
<1>4. StartInv(e) /\ CloserInv(e) /\ OnceInv(e) /\ LaterInv(e)
  BY <1>1, <1>2 DEF StartInv, CloserInv, OnceInv, LaterInv
<1> QED BY <1>3, <1>4 DEF TaleInv

\* The inductive invariant of the journals, over that of the registry: what each journal tells,
\* what the registry and the workers believe, and what the promoter has done agree, whichever
\* lines were lost and whenever the process ended.
THEOREM Journals == Spec => [](RegistryInv /\ JournalInv)
<1> DEFINE Inv == RegistryInv /\ JournalInv
<1>1. Init => Inv
  BY InitInv, TaleInit
<1>2. Inv /\ [Next]_vars => Inv'
  BY TypeStep, PresentStep, FlagStep, BranchStep, ClosingStep, TaleStep DEF RegistryInv
<1> QED BY <1>1, <1>2, PTL DEF Spec

\* A set none of whose members differ has at most one.
LEMMA AtMostOne ==
  ASSUME NEW S, \A i, k \in S : i = k
  PROVE  Cardinality(S) <= 1 /\ (S # {} => Cardinality(S) = 1)
<1>1. CASE S = {}
  BY <1>1, FS_EmptySet
<1>2. CASE S # {}
  <2>1. PICK x \in S : S = {x}
    BY <1>2
  <2> QED BY <2>1, FS_Singleton
<1> QED BY <1>1, <1>2

\* A promoter acts for an experiment at most once, crashes and restores included, and only
\* behind a promoting decision on disk (the write-ahead of promote, finishRestored), as long as
\* no append was torn.
THEOREM PromotionOnce == Spec => []PromotedOnce
<1>1. RegistryInv /\ JournalInv => PromotedOnce
  <2> SUFFICES ASSUME RegistryInv, JournalInv, NEW e \in Experiment, spoiled[e] # "torn"
               PROVE  /\ acted[e] <= 1
                      /\ acted[e] = 1 => Count(e, Decision("PROMOTING")) = 1
    BY DEF PromotedOnce
  <2> DEFINE at == {i \in DOMAIN journal[e].lines : journal[e].lines[i] = Promised}
  <2>1. /\ acted[e] <= 1
        /\ acted[e] = 1 => Has(journal[e].lines, Promised)
        /\ PromisedOnce(journal[e].lines)
    BY DEF JournalInv, TaleInv, OnceInv, WholeInv
  <2>2. \A i, k \in at : i = k
    BY <2>1 DEF PromisedOnce
  <2>3. acted[e] = 1 => at # {}
    BY <2>1 DEF Has
  <2>4. Count(e, Decision("PROMOTING")) = Cardinality(at)
    BY DEF Count, Promised
  <2>5. at # {} => Cardinality(at) = 1
    <3> HIDE DEF at
    <3> QED BY <2>2, AtMostOne
  <2> QED BY <2>1, <2>3, <2>4, <2>5
<1> QED BY <1>1, Journals, PTL

\* A journal that missed no line tells one life: every decision at most once, one end and
\* nothing decided behind it, the status the registry holds, and no outcome of a promotion
\* before the promotion's own event; and no two experiments of a flag are live at once.
THEOREM JournalsTell == Spec => []ExperimentsInv
<1>1. RegistryInv /\ JournalInv => ExperimentsInv
  <2> SUFFICES ASSUME RegistryInv, JournalInv PROVE ExperimentsInv
    OBVIOUS
  <2>0. TypeOK /\ OneLivePerFlag
    BY DEF RegistryInv
  <2>1. ASSUME NEW e \in Experiment, spoiled[e] = "ok"
        PROVE  /\ Ascends(journal[e].lines) /\ OwnLeads(journal[e].lines)
               /\ entry[e] # "absent" => Folded(journal[e].lines) = entry[e]
               /\ DOMAIN journal[e].lines = 1..Len(journal[e].lines)
               /\ Len(journal[e].lines) \in Nat /\ journal[e].lines \in Seq(Line)
    <3>1. journal[e].lines \in Seq(Line)
      BY <2>0, Typed
    <3>2. /\ DOMAIN journal[e].lines = 1..Len(journal[e].lines)
          /\ Len(journal[e].lines) \in Nat
      BY <3>1
    <3> QED BY <2>1, <3>1, <3>2 DEF JournalInv, TaleInv, ToldInv, LaterInv
  <2>2. ASSUME NEW e \in Experiment, spoiled[e] = "ok",
               NEW S \in SUBSET DOMAIN journal[e].lines,
               \A i \in S : Tells(journal[e].lines[i]),
               \A i, k \in S : Rank(journal[e].lines[i][2]) = Rank(journal[e].lines[k][2])
        PROVE  Cardinality(S) <= 1
    <3>1. ASSUME NEW i \in S, NEW k \in S, i < k
          PROVE  FALSE
      <4>1. Rank(journal[e].lines[i][2]) < Rank(journal[e].lines[k][2])
        BY <2>1, <2>2, <3>1 DEF Ascends
      <4>2. Rank(journal[e].lines[i][2]) = Rank(journal[e].lines[k][2])
        BY <2>2
      <4> QED BY <4>1, <4>2, Ranked
    <3>2. \A i, k \in S : i = k
      <4> SUFFICES ASSUME NEW i \in S, NEW k \in S, i # k PROVE FALSE
        OBVIOUS
      <4>1. i \in Nat /\ k \in Nat
        BY <2>1, <2>2
      <4>2. i < k \/ k < i
        BY <4>1
      <4> QED BY <3>1, <4>2
    <3> QED BY <3>2, AtMostOne
  <2>3. JournalTrue
    <3> SUFFICES ASSUME NEW e \in Experiment, spoiled[e] = "ok"
                 PROVE  /\ \A st \in Status : Count(e, Decision(st)) <= 1
                        /\ Cardinality({i \in DOMAIN journal[e].lines :
                                          journal[e].lines[i][1] = "outcome"}) <= 1
                        /\ entry[e] # "absent" => Folded(journal[e].lines) = entry[e]
      BY DEF JournalTrue
    <3>1. ASSUME NEW st \in Status
          PROVE  Count(e, Decision(st)) <= 1
      <4> DEFINE S == {i \in DOMAIN journal[e].lines : journal[e].lines[i] = Decision(st)}
      <4>1. /\ S \in SUBSET DOMAIN journal[e].lines
            /\ \A i \in S : Tells(journal[e].lines[i])
            /\ \A i, k \in S : Rank(journal[e].lines[i][2]) = Rank(journal[e].lines[k][2])
        BY DEF Tells, Decision
      <4>2. Cardinality(S) <= 1
        <5> HIDE DEF S
        <5> QED BY <2>2, <4>1
      <4> QED BY <4>2 DEF Count
    <3>2. Cardinality({i \in DOMAIN journal[e].lines :
                         journal[e].lines[i][1] = "outcome"}) <= 1
      <4> DEFINE S == {i \in DOMAIN journal[e].lines : journal[e].lines[i][1] = "outcome"}
      <4>1. S \in SUBSET DOMAIN journal[e].lines /\ \A i \in S : Tells(journal[e].lines[i])
        BY DEF Tells
      <4>2. \A i \in S : Rank(journal[e].lines[i][2]) = 4
        <5> SUFFICES ASSUME NEW i \in S PROVE Rank(journal[e].lines[i][2]) = 4
          OBVIOUS
        <5>1. journal[e].lines[i] \in Line /\ journal[e].lines[i][1] = "outcome"
          BY <2>1
        <5>2. journal[e].lines[i][2] \in Terminal
          BY <5>1 DEF Line, Decision, Outcome, Own, After, Leaked, Merged
        <5> QED BY <5>2, Ranked
      <4> HIDE DEF S
      <4>3. Cardinality(S) <= 1
        BY <2>2, <4>1, <4>2
      <4> QED BY <4>3 DEF S
    <3> QED BY <2>1, <3>1, <3>2
  <2>4. OwnFirst
    BY <2>1 DEF OwnFirst, OwnLeads
  <2> QED BY <2>0, <2>3, <2>4 DEF ExperimentsInv
<1> QED BY <1>1, Journals, PTL
=============================================================================
