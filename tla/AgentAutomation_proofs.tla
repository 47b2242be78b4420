------------------------ MODULE AgentAutomation_proofs ------------------------
(* Proofs about AgentAutomation, for any automations, skills, heartbeats, requests and *)
(* bounds.                                                                             *)
EXTENDS AgentAutomation, TLAPS

-----------------------------------------------------------------------------
(* The type invariant and what it needs. *)

Schedules == [enabled : BOOLEAN, next : 1..(Occurrences + 2), claim : Tickers \cup {Nobody},
              fresh : BOOLEAN]

Runs == [phase : Phases, status : {"none", "running", "failed", "completed"},
         claim : Requests \cup {Nobody}, fresh : BOOLEAN, artifacts : 0..1, kept : BOOLEAN]

Reads == {<<>>} \cup Schedules \cup Runs

Forces == {"none", "failed", "failed_closed", "restart_required"}

Places == {"idle", "pick", "process", "insert", "step", "failing", "fail", "failed", "advance",
           "pause", "continue", "resume", "resumed", "dispatch"}

Jobs == [pc : Places, a : Automations, o : Times, pos : 1..11, behind : Nat, done : 0..PerTick,
         due : 0..Occurrences, late : 0..Occurrences, read : Reads, good : BOOLEAN,
         force : Forces]

WorldTyped ==
    /\ due \in 0..Occurrences /\ late \in {due, due - 1} \cap Nat
    /\ fit \in [Automations -> BOOLEAN] /\ skill \in [Automations -> Skills]
    /\ asked \in 0..MaxAsked /\ flips \in 0..MaxFlips /\ faults \in 0..MaxFaults

SchedulesTyped == automation \in [Automations -> Schedules]

RunsTyped ==
    /\ run \in [Automations -> [Times -> Runs]]
    /\ \A a \in Automations, o \in Times : run[a][o].phase = "none" => run[a][o] = NoRun

CallsTyped == calls \in [Automations -> [Times -> Nat]]

\* Whoever is in a run, or has just left it.
Engaged == InRun \cup {"advance"}

\* What a heartbeat or a request remembers: heartbeats do not resume, requests do not
\* insert, and come into a run of drafts only, after the call of the model.  Nobody is ahead
\* of the clock, and the run they are in exists.
Remembers(x, j, d, l, runs) ==
    /\ j.pc \in {"pick", "process", "insert", "advance"} => x \in Tickers
    /\ j.pc \in {"pick", "process", "insert"} => j.pos = 1
    /\ j.pc \in {"pause", "continue"} => x \in Requests /\ j.read \in Schedules
    /\ j.pc \in {"resume", "resumed", "dispatch"} => x \in Requests
    /\ j.pc \in {"resumed", "dispatch"} => j.read \in Runs
    /\ j.pc \in InRun /\ x \in Requests => skill[j.a] # "attention"
    /\ j.pc = "step" /\ x \in Requests => j.pos >= 8
    /\ j.pc = "step" /\ skill[j.a] = "attention" => j.pos <= 7
    /\ j.due <= d /\ j.late <= l
    /\ j.pc \in Engaged => runs[j.a][j.o].phase # "none"

JobsTyped == job \in [Executors -> Jobs] /\ \A x \in Executors : Remembers(x, job[x], due, late, run)

\* A heartbeat that is about to look at what it claimed finds an occurrence that exists.
ClaimsTimely ==
    \A t \in Tickers : job[t].pc = "process" /\ automation[job[t].a].claim = t =>
        automation[job[t].a].next <= due + 1

TypeInv == WorldTyped /\ SchedulesTyped /\ RunsTyped /\ CallsTyped /\ JobsTyped /\ ClaimsTimely

-----------------------------------------------------------------------------
(* What the helpers do. *)

\* What the assumption says of the constants, in the form the steps use.
LEMMA Constants ==
  /\ Occurrences \in Nat \ {0} /\ PerTick \in Nat \ {0}
  /\ MaxAsked \in Nat /\ MaxFlips \in Nat /\ MaxFaults \in Nat
  /\ Tickers \cap Requests = {} /\ Executors = Tickers \cup Requests /\ Nobody \notin Tickers
  /\ Times = 1..(Occurrences + 1) /\ 1 \in Times
  BY AgentAutomationAssumption DEF Executors, Nobody, Times

\* The rows that a process begins with, and those it inserts, are typed.
LEMMA InitialRows ==
  /\ Idle \in Jobs /\ Idle.pc = "idle" /\ Idle.due = 0 /\ Idle.late = 0 /\ Idle.pos = 1
  /\ NoRun \in Runs /\ NoRun.phase = "none"
  /\ NewRun \in Runs /\ NewRun.phase = "created" /\ NewRun.status = "running"
  /\ NewRun.artifacts = 0
  /\ Created \in Schedules /\ Created.next = 1
  <1>1. (CHOOSE a \in Automations : TRUE) \in Automations
    BY AgentAutomationAssumption
  <1>2. Idle \in Jobs /\ Idle.pc = "idle" /\ Idle.due = 0 /\ Idle.late = 0 /\ Idle.pos = 1
    <2>1. <<>> \in Reads
      BY DEF Reads
    <2> HIDE DEF Reads
    <2> QED BY <1>1, <2>1, Constants DEF Idle, Jobs, Places, Forces
  <1>3. NoRun \in Runs /\ NoRun.phase = "none"
    BY DEF NoRun, Runs, Phases
  <1>4. /\ NewRun \in Runs /\ NewRun.phase = "created" /\ NewRun.status = "running"
        /\ NewRun.artifacts = 0
    <2>1. NoRun.artifacts = 0
      BY DEF NoRun
    <2>2. {"created"} \subseteq Phases
      BY DEF Phases
    <2> QED BY <1>3, <2>1, <2>2 DEF NewRun, Runs
  <1>5. Created \in Schedules /\ Created.next = 1
    BY Constants DEF Created, NextAfter, Schedules
  <1> QED BY <1>2, <1>3, <1>4, <1>5

\* The scripts, step by step.
LEMMA Scripts ==
  /\ Script["attention"] = AttentionScript /\ Script["drafts"] = DraftScript
  /\ Script["series"] = DraftScript
  /\ \A i \in 1..11 : /\ DraftScript[i] \notin {"ask", "finish", "leave"}
                      /\ DraftScript[i] = "call" <=> i = 4
                      /\ DraftScript[i] = "batch" <=> i = 8
                      /\ DraftScript[i] = "complete" <=> i = 11
  /\ \A i \in 1..7 : /\ AttentionScript[i] \notin {"inflight", "call", "validated", "batch",
                                                   "persist", "complete"}
                     /\ AttentionScript[i] = "ask" <=> i = 3
                     /\ AttentionScript[i] = "leave" <=> i = 7
  /\ DOMAIN DraftScript = 1..11 /\ Len(DraftScript) = 11
  <1>1. \A i \in 1..11 : i \in {1, 2, 3, 4, 5, 6, 7, 8, 9, 10, 11}
    OBVIOUS
  <1>2. \A i \in 1..7 : i \in {1, 2, 3, 4, 5, 6, 7}
    OBVIOUS
  <1>3. \A i \in 1..11 : /\ DraftScript[i] \notin {"ask", "finish", "leave"}
                         /\ DraftScript[i] = "call" <=> i = 4
                         /\ DraftScript[i] = "batch" <=> i = 8
                         /\ DraftScript[i] = "complete" <=> i = 11
    BY <1>1 DEF DraftScript
  <1>4. \A i \in 1..7 : /\ AttentionScript[i] \notin {"inflight", "call", "validated", "batch",
                                                      "persist", "complete"}
                        /\ AttentionScript[i] = "ask" <=> i = 3
                        /\ AttentionScript[i] = "leave" <=> i = 7
    BY <1>2 DEF AttentionScript
  <1>5. DOMAIN DraftScript = 1..11 /\ Len(DraftScript) = 11
    BY DEF DraftScript
  <1> QED BY <1>3, <1>4, <1>5 DEF Script, SeriesScript

\* A run of drafts is resumed at the batch or at the end.
LEMMA ResumesAt ==
  /\ SelectInSeq(DraftScript, LAMBDA s : s = "batch") = 8
  /\ SelectInSeq(DraftScript, LAMBDA s : s = "complete") = 11
  <1>1. {i \in 1..Len(DraftScript) : DraftScript[i] = "batch"} = {8}
    BY Scripts
  <1>2. {i \in 1..Len(DraftScript) : DraftScript[i] = "complete"} = {11}
    BY Scripts
  <1>3. Min({8}) = 8 /\ Min({11}) = 11
    BY DEF Min
  <1>4. SelectInSeq(DraftScript, LAMBDA s : s = "batch") = 8
    BY <1>1, <1>3 DEF SelectInSeq
  <1>5. SelectInSeq(DraftScript, LAMBDA s : s = "complete") = 11
    BY <1>2, <1>3 DEF SelectInSeq
  <1> QED BY <1>4, <1>5

\* The steps of a script come in its order.
LEMMA AtSteps ==
  ASSUME TypeInv, NEW x \in Executors, NEW what, AtStep(x, what)
  PROVE  /\ job[x].pc = "step" /\ skill[job[x].a] \in {"attention", "drafts", "series"}
         /\ skill[job[x].a] = "attention" => x \in Tickers /\ job[x].pos \in 1..7
                                              /\ AttentionScript[job[x].pos] = what
         /\ skill[job[x].a] # "attention" => job[x].pos \in 1..11 /\ DraftScript[job[x].pos] = what
  <1>1. job[x].pc = "step" /\ Script[skill[job[x].a]][job[x].pos] = what
    BY DEF AtStep
  <1>2. job[x] \in Jobs /\ Remembers(x, job[x], due, late, run)
    BY DEF TypeInv, JobsTyped
  <1>3. skill[job[x].a] \in {"attention", "drafts", "series"} /\ job[x].pos \in 1..11
    BY <1>2, AgentAutomationAssumption DEF TypeInv, WorldTyped, Jobs
  <1>4. skill[job[x].a] = "attention" => x \in Tickers /\ job[x].pos <= 7
    BY <1>1, <1>2, Constants DEF Remembers, InRun
  <1>5. job[x].pos <= 7 => job[x].pos \in 1..7
    BY <1>3
  <1> QED BY <1>1, <1>3, <1>4, <1>5, Scripts

-----------------------------------------------------------------------------
(* What becomes of the memories. *)

\* Another has written events meanwhile, perhaps.
Same(i, j) ==
    /\ j.pc = i.pc /\ j.a = i.a /\ j.o = i.o /\ j.pos = i.pos /\ j.done = i.done
    /\ j.due = i.due /\ j.late = i.late /\ j.read = i.read /\ j.good = i.good /\ j.force = i.force

Acts(x, row) ==
    /\ job' \in [Executors -> Jobs] /\ job'[x] = row
    /\ \A y \in Executors \ {x} : Same(job[y], job'[y])

\* Whoever writes its own row of memory leaves the others alone.
LEMMA Replaces ==
  ASSUME job \in [Executors -> Jobs], NEW x \in Executors, NEW row \in Jobs,
         job' = [job EXCEPT ![x] = row]
  PROVE  Acts(x, row)
  BY DEF Acts, Same

\* Whoever writes an event changes of others only how far they are behind.
LEMMA Logs ==
  ASSUME job \in [Executors -> Jobs], NEW x \in Executors, NEW row \in Jobs, Logged(x, row)
  PROVE  Acts(x, row)
  <1>1. ASSUME NEW y \in Executors
        PROVE  /\ [job[y] EXCEPT !.behind = @ + 1] \in Jobs
               /\ Same(job[y], [job[y] EXCEPT !.behind = @ + 1])
    <2>1. job[y] \in Jobs
      OBVIOUS
    <2> HIDE DEF Reads
    <2> QED BY <2>1 DEF Jobs, Same
  <1>2. job' = [y \in Executors |-> IF y = x THEN row
                                    ELSE IF y \in Beside(x) THEN [job[y] EXCEPT !.behind = @ + 1]
                                    ELSE job[y]]
    BY DEF Logged
  <1>3. \A y \in Executors : job'[y] \in Jobs
    BY <1>1, <1>2
  <1>4. job'[x] = row
    BY <1>2
  <1>5. \A y \in Executors \ {x} : Same(job[y], job'[y])
    BY <1>1, <1>2 DEF Same
  <1>6. job' \in [Executors -> Jobs]
    BY <1>2, <1>3
  <1> QED BY <1>4, <1>5, <1>6 DEF Acts

\* Who moves stays with the run and with the clock it has read.
Stays(x) ==
    /\ job'[x].a = job[x].a /\ job'[x].o = job[x].o
    /\ job'[x].due = job[x].due /\ job'[x].late = job[x].late

Leaves(x) ==
    \/ job'[x] = Idle
    \/ /\ x \in Tickers /\ job'[x].pc = "pick" /\ job'[x].pos = 1
       /\ job'[x].due = job[x].due /\ job'[x].late = job[x].late

\* Who returns or ends is idle, or a heartbeat that picks on with the clock it has.
LEMMA Returns ==
  ASSUME job \in [Executors -> Jobs], NEW x \in Executors, Return(x) \/ End(x)
  PROVE  Acts(x, job'[x]) /\ Leaves(x)
  <1>1. CASE End(x)
    <2>1. job' = [job EXCEPT ![x] = Idle]
      BY <1>1 DEF End
    <2>2. Acts(x, Idle)
      BY <2>1, InitialRows, Replaces
    <2> QED BY <2>2 DEF Acts, Leaves
  <1>2. CASE Return(x) /\ ~End(x)
    <2> DEFINE row == [Idle EXCEPT !.pc = "pick", !.due = job[x].due, !.late = job[x].late,
                                   !.done = job[x].done + 1]
    <2>1. x \in Tickers /\ job[x].done + 1 < PerTick /\ job' = [job EXCEPT ![x] = row]
      BY <1>2 DEF Return
    <2>2. job[x] \in Jobs
      OBVIOUS
    <2>3. job[x].done + 1 \in 0..PerTick /\ job[x].due \in 0..Occurrences
          /\ job[x].late \in 0..Occurrences
      BY <2>1, <2>2, Constants DEF Jobs
    <2>4. /\ row \in Jobs /\ row.pc = "pick" /\ row.pos = 1
          /\ row.due = job[x].due /\ row.late = job[x].late
      BY <2>3, InitialRows DEF Jobs, Places
    <2> HIDE DEF row
    <2>5. Acts(x, row)
      BY <2>1, <2>4, Replaces
    <2>6. job'[x] = row
      BY <2>5 DEF Acts
    <2> QED BY <2>1, <2>4, <2>5, <2>6 DEF Leaves
  <1> QED BY <1>1, <1>2

\* A step within a run keeps automation, occurrence and the times read at the tick.
LEMMA Goes ==
  ASSUME job \in [Executors -> Jobs], NEW x \in Executors, NEW row \in Jobs,
         row.a = job[x].a, row.o = job[x].o, row.due = job[x].due, row.late = job[x].late,
         job' = [job EXCEPT ![x] = row] \/ Logged(x, row)
  PROVE  Acts(x, row) /\ Acts(x, job'[x]) /\ job'[x] = row /\ Stays(x)
  <1>1. Acts(x, row)
    BY Replaces, Logs
  <1> QED BY <1>1 DEF Acts, Stays

\* Where a step of a run leads: on, out of it, or towards its failure.
Moves(x) ==
    /\ Acts(x, job'[x])
    /\ \/ Leaves(x)
       \/ Stays(x) /\ job'[x].pc \in {"failing", "fail", "failed"}
       \/ Stays(x) /\ job'[x].pc = "advance" /\ x \in Tickers
       \/ /\ Stays(x) /\ job[x].pc = "step" /\ job'[x].pc = "step"
          /\ job'[x].pos = job[x].pos + 1
          /\ skill[job[x].a] = "attention" => job'[x].pos <= 7

\* The next step.
LEMMA NextStep ==
  ASSUME TypeInv, NEW x \in Executors, NEW what, what \notin {"leave", "complete"},
         AtStep(x, what), NEW good \in BOOLEAN, NEW row,
         row = [job[x] EXCEPT !.pos = @ + 1, !.good = good],
         job' = [job EXCEPT ![x] = row] \/ Logged(x, row)
  PROVE  Moves(x)
  <1>1. job[x] \in Jobs /\ job \in [Executors -> Jobs]
    BY DEF TypeInv, JobsTyped
  <1>2. /\ job[x].pc = "step" /\ job[x].pos + 1 \in 1..11
        /\ skill[job[x].a] = "attention" => job[x].pos + 1 <= 7
    <2>1. skill[job[x].a] = "attention" => job[x].pos \in 1..7 /\ job[x].pos # 7
      BY AtSteps, Scripts
    <2>2. skill[job[x].a] # "attention" => job[x].pos \in 1..11 /\ job[x].pos # 11
      BY AtSteps, Scripts
    <2>3. job[x].pc = "step"
      BY AtSteps
    <2>4. CASE skill[job[x].a] = "attention"
      BY <2>1, <2>3, <2>4
    <2>5. CASE skill[job[x].a] # "attention"
      BY <2>2, <2>3, <2>5
    <2> QED BY <2>4, <2>5
  <1>3. /\ row \in Jobs /\ row.pc = "step" /\ row.pos = job[x].pos + 1
        /\ row.a = job[x].a /\ row.o = job[x].o /\ row.due = job[x].due /\ row.late = job[x].late
    BY <1>1, <1>2 DEF Jobs
  <1>4. Acts(x, job'[x]) /\ job'[x] = row /\ Stays(x)
    BY <1>1, <1>3, Goes
  <1> QED BY <1>2, <1>3, <1>4 DEF Moves

\* A step that only goes on.
LEMMA PlainStep ==
  ASSUME TypeInv, NEW x \in Executors, NEW what, what \notin {"leave", "complete"},
         AtStep(x, what), Step(x) \/ Logged(x, [job[x] EXCEPT !.pos = @ + 1])
  PROVE  Moves(x)
  <1> DEFINE row == [job[x] EXCEPT !.pos = @ + 1, !.good = job[x].good]
  <1>1. job[x] \in Jobs
    BY DEF TypeInv, JobsTyped
  <1>2. row = [job[x] EXCEPT !.pos = @ + 1] /\ job[x].good \in BOOLEAN
    BY <1>1 DEF Jobs
  <1>3. job' = [job EXCEPT ![x] = [job[x] EXCEPT !.pos = @ + 1]]
        \/ Logged(x, [job[x] EXCEPT !.pos = @ + 1])
    BY DEF Step
  <1>4. job' = [job EXCEPT ![x] = row] \/ Logged(x, row)
    BY <1>2, <1>3
  <1> HIDE DEF row
  <1>5. row = [job[x] EXCEPT !.pos = @ + 1, !.good = job[x].good]
    BY DEF row
  <1> QED BY <1>2, <1>4, <1>5, NextStep

\* Towards the failure, with what is left of the memory.
LEMMA FailsAt ==
  ASSUME TypeInv, NEW x \in Executors, NEW pc \in {"failing", "fail", "failed"},
         NEW pos \in 1..11, NEW good \in BOOLEAN, NEW force \in Forces, NEW behind \in Nat,
         NEW row,
         row = [job[x] EXCEPT !.pc = pc, !.pos = pos, !.good = good, !.force = force,
                              !.behind = behind],
         job' = [job EXCEPT ![x] = row] \/ Logged(x, row)
  PROVE  Moves(x)
  <1>1. job[x] \in Jobs /\ job \in [Executors -> Jobs]
    BY DEF TypeInv, JobsTyped
  <1>2. /\ row \in Jobs /\ row.pc = pc
        /\ row.a = job[x].a /\ row.o = job[x].o /\ row.due = job[x].due /\ row.late = job[x].late
    BY <1>1 DEF Jobs, Places
  <1>3. Acts(x, job'[x]) /\ job'[x] = row /\ Stays(x)
    BY <1>1, <1>2, Goes
  <1> QED BY <1>2, <1>3 DEF Moves

\* A step towards a failure stays with its run, in whatever way it gets there.
LEMMA Fails ==
  ASSUME TypeInv, NEW x \in Executors, NEW pc \in {"failing", "fail", "failed"},
         \/ Goto(x, pc)
         \/ Missed(x, pc) /\ Taken(x)
         \/ \E force \in Forces : job' = [job EXCEPT ![x].pc = pc, ![x].force = force]
         \/ \E force \in Forces : job' = [job EXCEPT ![x].pc = pc, ![x].pos = 1, ![x].force = force]
         \/ \E force \in Forces : job' = [job EXCEPT ![x].pc = pc, ![x].pos = 1, ![x].good = TRUE,
                                                     ![x].force = force]
  PROVE  Moves(x)
  <1> DEFINE j == job[x]
             Row(pos, good, force, behind) ==
               [j EXCEPT !.pc = pc, !.pos = pos, !.good = good, !.force = force,
                         !.behind = behind]
  <1>1. /\ j \in Jobs /\ job \in [Executors -> Jobs] /\ j.pos \in 1..11 /\ 1 \in 1..11
        /\ j.good \in BOOLEAN /\ j.force \in Forces /\ j.behind \in Nat
        /\ Taken(x) => j.behind - 1 \in Nat
    BY DEF TypeInv, JobsTyped, Jobs, Taken
  <1>2. ASSUME NEW pos \in 1..11, NEW good \in BOOLEAN, NEW force \in Forces, NEW behind \in Nat,
               job' = [job EXCEPT ![x] = Row(pos, good, force, behind)]
        PROVE  Moves(x)
    BY ZenonT(40), <1>2, FailsAt
  <1>3. CASE Goto(x, pc)
    <2>1. job' = [job EXCEPT ![x] = Row(j.pos, j.good, j.force, j.behind)]
      BY <1>1, <1>3 DEF Goto, Jobs
    <2> QED BY <1>1, <1>2, <2>1
  <1>4. CASE Missed(x, pc) /\ Taken(x)
    <2>1. job' = [job EXCEPT ![x] = Row(j.pos, j.good, j.force, j.behind - 1)]
      <3>1. job' = [job EXCEPT ![x] = [j EXCEPT !.behind = j.behind - 1, !.pc = pc]]
        BY <1>4 DEF Missed
      <3>2. [j EXCEPT !.behind = j.behind - 1, !.pc = pc]
              = Row(j.pos, j.good, j.force, j.behind - 1)
        BY <1>1 DEF Jobs
      <3> QED BY <3>1, <3>2
    <2> QED BY <1>1, <1>2, <1>4, <2>1
  <1>5. ASSUME NEW force \in Forces, job' = [job EXCEPT ![x].pc = pc, ![x].force = force]
        PROVE  Moves(x)
    <2>1. job' = [job EXCEPT ![x] = Row(j.pos, j.good, force, j.behind)]
      <3>1. job' = [job EXCEPT ![x] = [j EXCEPT !.pc = pc, !.force = force]]
        BY <1>5
      <3>2. [j EXCEPT !.pc = pc, !.force = force] = Row(j.pos, j.good, force, j.behind)
        BY <1>1 DEF Jobs
      <3> QED BY <3>1, <3>2
    <2> QED BY <1>1, <1>2, <2>1
  <1>6. ASSUME NEW force \in Forces,
               job' = [job EXCEPT ![x].pc = pc, ![x].pos = 1, ![x].force = force]
        PROVE  Moves(x)
    <2>1. job' = [job EXCEPT ![x] = Row(1, j.good, force, j.behind)]
      <3>1. job' = [job EXCEPT ![x] = [j EXCEPT !.pc = pc, !.pos = 1, !.force = force]]
        BY <1>6
      <3>2. [j EXCEPT !.pc = pc, !.pos = 1, !.force = force] = Row(1, j.good, force, j.behind)
        BY <1>1 DEF Jobs
      <3> QED BY <3>1, <3>2
    <2> QED BY <1>1, <1>2, <2>1
  <1>7. ASSUME NEW force \in Forces,
               job' = [job EXCEPT ![x].pc = pc, ![x].pos = 1, ![x].good = TRUE, ![x].force = force]
        PROVE  Moves(x)
    <2>1. job' = [job EXCEPT ![x] = Row(1, TRUE, force, j.behind)]
      <3>1. job' = [job EXCEPT ![x] = [j EXCEPT !.pc = pc, !.pos = 1, !.good = TRUE,
                                                !.force = force]]
        BY <1>7
      <3>2. [j EXCEPT !.pc = pc, !.pos = 1, !.good = TRUE, !.force = force]
              = Row(1, TRUE, force, j.behind)
        BY <1>1 DEF Jobs
      <3> QED BY <3>1, <3>2
    <2> QED BY <1>1, <1>2, <2>1
  <1> QED BY <1>3, <1>4, <1>5, <1>6, <1>7

\* At once.
LEMMA FailsNow ==
  ASSUME TypeInv, NEW x \in Executors, Goto(x, "failing")
  PROVE  Moves(x)
  BY Fails

\* By an event number that another has taken.
LEMMA FailsBeside ==
  ASSUME TypeInv, NEW x \in Executors, Missed(x, "failing"), Taken(x)
  PROVE  Moves(x)
  BY Fails

\* By drafts that are there already, or no longer drafts.
LEMMA FailsClosed ==
  ASSUME TypeInv, NEW x \in Executors,
         job' = [job EXCEPT ![x].pc = "fail", ![x].force = "failed_closed"]
  PROVE  Moves(x)
  <1>1. "failed_closed" \in Forces
    BY DEF Forces
  <1> QED BY <1>1, Fails

\* Back to the schedule.
LEMMA Advances ==
  ASSUME TypeInv, NEW x \in Tickers, NEW pos \in 1..11, NEW behind \in Nat, NEW row,
         row = [job[x] EXCEPT !.pc = "advance", !.pos = pos, !.behind = behind],
         job' = [job EXCEPT ![x] = row] \/ Logged(x, row)
  PROVE  Moves(x)
  <1>1. x \in Executors /\ job[x] \in Jobs /\ job \in [Executors -> Jobs]
    BY Constants DEF TypeInv, JobsTyped
  <1>2. /\ row \in Jobs /\ row.pc = "advance"
        /\ row.a = job[x].a /\ row.o = job[x].o /\ row.due = job[x].due /\ row.late = job[x].late
    BY <1>1 DEF Jobs, Places
  <1>3. Acts(x, job'[x]) /\ job'[x] = row /\ Stays(x)
    BY <1>1, <1>2, Goes
  <1> QED BY <1>2, <1>3 DEF Moves

\* A step of a run moves its executor through the script or out of the run.
LEMMA RunStepMoves ==
  ASSUME TypeInv, NEW x \in Executors, RunStep(x)
  PROVE  Moves(x) /\ job[x].pc \in InRun
  <1> DEFINE j == job[x]
  <1>1. j \in Jobs /\ job \in [Executors -> Jobs] /\ Remembers(x, j, due, late, run)
    BY DEF TypeInv, JobsTyped
  <1>2. ASSUME Return(x) \/ End(x) PROVE Moves(x)
    BY <1>1, <1>2, Returns DEF Moves
  <1>3. CASE Event(x)
    <2>1. AtStep(x, "event")
      BY <1>3 DEF Event
    <2>2. CASE Logged(x, [job[x] EXCEPT !.pos = @ + 1])
      BY <2>1, <2>2, PlainStep, AtSteps DEF InRun
    <2>3. CASE Return(x)
      BY <1>2, <2>1, <2>3, AtSteps DEF InRun
    <2>4. CASE Missed(x, "failing") /\ Taken(x)
      BY <2>1, <2>4, Fails, AtSteps DEF InRun
    <2> QED BY <1>3, <2>2, <2>3, <2>4 DEF Event
  <1>4. CASE AskModel(x)
    <2>1. AtStep(x, "ask") /\ (Step(x) \/ Goto(x, "failing"))
      BY <1>4 DEF AskModel
    <2> QED BY <2>1, PlainStep, Fails, AtSteps DEF InRun
  <1>5. CASE Finish(x)
    BY <1>5, PlainStep, AtSteps DEF Finish, InRun
  <1>6. CASE Leave(x)
    <2>1. /\ AtStep(x, "leave")
          /\ job' = [job EXCEPT ![x] = [j EXCEPT !.pc = "advance", !.pos = 1]]
      BY <1>6 DEF Leave
    <2>2. [j EXCEPT !.pc = "advance", !.pos = 1]
            = [j EXCEPT !.pc = "advance", !.pos = 1, !.behind = j.behind]
      BY <1>1 DEF Jobs
    <2>3. j.behind \in Nat
      BY <1>1 DEF Jobs
    <2>4. x \in Tickers /\ j.pc = "step"
      <3>1. skill[j.a] = "attention"
        BY <2>1, AtSteps, Scripts
      <3> QED BY <2>1, <3>1, AtSteps
    <2>5. 1 \in 1..11
      OBVIOUS
    <2> DEFINE row == [j EXCEPT !.pc = "advance", !.pos = 1, !.behind = j.behind]
    <2>6. row = [job[x] EXCEPT !.pc = "advance", !.pos = 1, !.behind = j.behind]
      OBVIOUS
    <2>7. job' = [job EXCEPT ![x] = row]
      BY <2>1, <2>2
    <2> HIDE DEF row
    <2> QED BY <2>3, <2>4, <2>5, <2>6, <2>7, Advances DEF InRun
  <1>7. CASE Inflight(x)
    BY <1>7, PlainStep, AtSteps DEF Inflight, InRun
  <1>8. CASE Call(x)
    <2>1. AtStep(x, "call")
      BY <1>8 DEF Call
    <2>2. ASSUME NEW good \in BOOLEAN, job' = [job EXCEPT ![x].pos = @ + 1, ![x].good = good]
          PROVE  Moves(x)
      <3> DEFINE row == [j EXCEPT !.pos = @ + 1, !.good = good]
      <3>1. job' = [job EXCEPT ![x] = row]
        BY <2>2
      <3>2. row = [job[x] EXCEPT !.pos = @ + 1, !.good = good]
        OBVIOUS
      <3> HIDE DEF row
      <3> QED BY <2>1, <3>1, <3>2, NextStep
    <2>3. CASE Goto(x, "failing")
      BY <2>1, <2>3, FailsNow, AtSteps DEF InRun
    <2> QED BY <1>8, <2>1, <2>2, <2>3, AtSteps DEF Call, InRun
  <1>9. CASE Validate(x)
    <2>1. AtStep(x, "validated") /\ (Step(x) \/ Goto(x, "failing"))
      BY <1>9 DEF Validate
    <2> QED BY <2>1, PlainStep, Fails, AtSteps DEF InRun
  <1>10. CASE StartBatch(x)
    <2>1. AtStep(x, "batch")
      BY <1>10 DEF StartBatch
    <2>6. j.pc \in InRun
      BY <2>1, AtSteps DEF InRun
    <2>2. CASE Missed(x, "failing") /\ Taken(x)
      BY <2>2, <2>6, FailsBeside
    <2>3. CASE Logged(x, [job[x] EXCEPT !.pos = @ + 1])
      BY <2>1, <2>3, <2>6, PlainStep
    <2>4. CASE Goto(x, "failing")
      BY <2>4, <2>6, FailsNow
    <2>5. CASE job' = [job EXCEPT ![x].pc = "fail", ![x].force = "failed_closed"]
      BY <2>5, <2>6, FailsClosed
    <2> QED BY <1>10, <2>2, <2>3, <2>4, <2>5, <2>6 DEF StartBatch
  <1>11. CASE Persist(x)
    <2>1. AtStep(x, "persist") /\ (Step(x) \/ Goto(x, "failing"))
      BY <1>11 DEF Persist
    <2> QED BY <2>1, PlainStep, Fails, AtSteps DEF InRun
  <1>12. CASE Refused(x)
    <2>1. j.pc \in InRun
      BY <1>12, AtSteps DEF Refused, InRun
    <2>2. CASE Goto(x, "failing")
      BY <2>1, <2>2, Fails
    <2>3. CASE job' = [job EXCEPT ![x].pc = "fail", ![x].pos = 1, ![x].force = "failed_closed"]
      <3>1. "failed_closed" \in Forces
        BY DEF Forces
      <3> QED BY <2>1, <2>3, <3>1, Fails
    <2> QED BY <1>12, <2>2, <2>3 DEF Refused
  <1>13. CASE Complete(x)
    <2>1. j.pc \in InRun
      BY <1>13, AtSteps DEF Complete, InRun
    <2>2. CASE x \in Tickers
      <3> DEFINE row == [j EXCEPT !.pc = "advance", !.pos = 1, !.behind = 0]
      <3>1. job' = [job EXCEPT ![x] = row] \/ Logged(x, row)
        BY <1>13, <2>2 DEF Complete
      <3>2. row = [job[x] EXCEPT !.pc = "advance", !.pos = 1, !.behind = 0]
        OBVIOUS
      <3> HIDE DEF row
      <3>3. 1 \in 1..11 /\ 0 \in Nat
        OBVIOUS
      <3> QED BY <2>1, <2>2, <3>1, <3>2, <3>3, Advances
    <2>3. CASE x \notin Tickers
      <3>1. job' = [job EXCEPT ![x] = Idle] \/ Logged(x, Idle)
        BY <1>13, <2>3 DEF Complete
      <3>2. Acts(x, Idle)
        BY <1>1, <3>1, InitialRows, Replaces, Logs
      <3> QED BY <2>1, <3>2 DEF Acts, Moves, Leaves
    <2> QED BY <2>2, <2>3
  <1>14. CASE Failing(x)
    <2>1. PICK force \in Endings(x, RunOf(x).phase) :
             job' = [job EXCEPT ![x].pc = "fail", ![x].pos = 1, ![x].good = TRUE,
                                ![x].force = force]
      BY <1>14 DEF Failing
    <2>2. force \in Forces
      BY DEF Endings, AttentionEnds, ResumeEnds, RunEnds, Forces
    <2> QED BY <1>14, <2>1, <2>2, Fails DEF Failing, InRun
  <1>15. CASE Fail(x)
    <2>1. job' = [job EXCEPT ![x].pc = "failed", ![x].force = "none"] /\ j.pc = "fail"
      BY <1>15 DEF Fail
    <2>2. "none" \in Forces
      BY DEF Forces
    <2> QED BY <2>1, <2>2, Fails DEF InRun
  <1>16. CASE FailedEvent(x)
    <2>1. j.pc \in InRun
      BY <1>16 DEF FailedEvent, InRun
    <2>2. CASE Return(x)
      BY <1>2, <2>1, <2>2
    <2>3. CASE x \in Tickers /\ ~Return(x)
      <3> DEFINE row == [j EXCEPT !.pc = "advance", !.pos = j.pos, !.behind = 0]
      <3>1. row = [j EXCEPT !.pc = "advance", !.behind = 0] /\ j.pos \in 1..11
        BY <1>1 DEF Jobs
      <3>2. Logged(x, [j EXCEPT !.pc = "advance", !.behind = 0])
        BY <1>16, <2>3 DEF FailedEvent
      <3>3. row = [job[x] EXCEPT !.pc = "advance", !.pos = j.pos, !.behind = 0]
        OBVIOUS
      <3> HIDE DEF row
      <3> QED BY <2>1, <2>3, <3>1, <3>2, <3>3, Advances
    <2>4. CASE x \notin Tickers /\ ~Return(x)
      <3>1. Logged(x, Idle)
        BY <1>16, <2>4 DEF FailedEvent
      <3>2. Acts(x, Idle)
        BY <1>1, <3>1, InitialRows, Logs
      <3> QED BY <2>1, <3>2 DEF Acts, Moves, Leaves
    <2> QED BY <2>2, <2>3, <2>4
  <1> QED BY <1>3, <1>4, <1>5, <1>6, <1>7, <1>8, <1>9, <1>10, <1>11, <1>12, <1>13, <1>14, <1>15,
             <1>16 DEF RunStep

-----------------------------------------------------------------------------
(* What becomes of the runs. *)

\* The clocks go on, and a run that exists stays.
Grows ==
    /\ due <= due' /\ late <= late' /\ skill' = skill
    /\ \A a \in Automations, o \in Times :
          run[a][o].phase # "none" => run'[a][o].phase # "none"

\* Drafts are written once and stay, and what completes has them.
Fate(a, r, next) ==
    /\ next.artifacts = r.artifacts \/ (r.artifacts = 0 /\ next.artifacts = 1)
    /\ next.status = "completed" =>
          r.status = "completed" \/ skill[a] = "attention" \/ next.artifacts = 1

RunsGrow ==
    /\ RunsTyped'
    /\ \A a \in Automations, o \in Times :
          /\ run[a][o].phase # "none" => run'[a][o].phase # "none"
          /\ Fate(a, run[a][o], run'[a][o])

\* A row of a run is replaced by a later one, and no other run changes.
LEMMA Writes ==
  ASSUME TypeInv, NEW a \in Automations, NEW o \in Times, NEW row \in Runs, row.phase # "none",
         Fate(a, run[a][o], row), run' = [run EXCEPT ![a][o] = row]
  PROVE  /\ RunsGrow /\ run'[a][o] = row
         /\ \A b \in Automations, p \in Times : <<b, p>> # <<a, o>> => run'[b][p] = run[b][p]
  <1>1. run \in [Automations -> [Times -> Runs]]
    BY DEF TypeInv, RunsTyped
  <1>2. run' \in [Automations -> [Times -> Runs]] /\ run'[a][o] = row
    BY <1>1
  <1>3. \A b \in Automations, p \in Times : <<b, p>> # <<a, o>> => run'[b][p] = run[b][p]
    BY <1>1
  <1>4. ASSUME NEW b \in Automations, NEW p \in Times
        PROVE  /\ run'[b][p].phase = "none" => run'[b][p] = NoRun
               /\ run[b][p].phase # "none" => run'[b][p].phase # "none"
               /\ Fate(b, run[b][p], run'[b][p])
    <2>1. CASE <<b, p>> = <<a, o>>
      BY <1>2, <2>1
    <2>2. CASE <<b, p>> # <<a, o>>
      <3>1. run'[b][p] = run[b][p]
        BY <1>3, <2>2
      <3>2. Fate(b, run[b][p], run[b][p])
        BY DEF Fate
      <3> QED BY <3>1, <3>2 DEF TypeInv, RunsTyped
    <2> QED BY <2>1, <2>2
  <1> QED BY <1>2, <1>3, <1>4 DEF RunsGrow, RunsTyped

\* A step that leaves the runs alone loses none of them.
LEMMA RunsStay ==
  ASSUME TypeInv, UNCHANGED run
  PROVE  RunsGrow
  BY DEF TypeInv, RunsTyped, RunsGrow, Fate

\* The row of the run one is in.
LEMMA InTheRun ==
  ASSUME TypeInv, NEW x \in Executors, job[x].pc \in Engaged
  PROVE  /\ job[x].a \in Automations /\ job[x].o \in Times /\ RunOf(x) \in Runs
         /\ RunOf(x).phase # "none" /\ run[job[x].a][job[x].o] = RunOf(x)
  <1>1. /\ job[x] \in Jobs /\ Remembers(x, job[x], due, late, run)
        /\ run \in [Automations -> [Times -> Runs]]
    BY DEF TypeInv, JobsTyped, RunsTyped
  <1>2. job[x].a \in Automations /\ job[x].o \in Times
    BY <1>1 DEF Jobs
  <1>3. run[job[x].a][job[x].o].phase # "none"
    BY <1>1 DEF Remembers
  <1> QED BY <1>1, <1>2, <1>3 DEF RunOf

\* A new phase, and perhaps another status, claim or result.
LEMMA Rewrites ==
  ASSUME TypeInv, NEW x \in Executors, job[x].pc \in Engaged, NEW row \in Runs,
         row.phase # "none",
         row.artifacts = RunOf(x).artifacts \/ (RunOf(x).artifacts = 0 /\ row.artifacts = 1),
         row.status = "completed" => \/ RunOf(x).status = "completed"
                                     \/ skill[job[x].a] = "attention" \/ row.artifacts = 1,
         run' = [run EXCEPT ![job[x].a][job[x].o] = row]
  PROVE  RunsGrow
  <1>1. /\ job[x].a \in Automations /\ job[x].o \in Times
        /\ run[job[x].a][job[x].o] = RunOf(x)
    BY InTheRun
  <1>2. Fate(job[x].a, RunOf(x), row)
    BY DEF Fate
  <1> QED BY <1>1, <1>2, Writes

\* A phase that is stored belongs to a run that exists.
LEMMA PhaseGrows ==
  ASSUME TypeInv, NEW x \in Executors, job[x].pc \in Engaged,
         NEW phase \in Phases \ {"none"}, Phase(x, phase)
  PROVE  RunsGrow
  <1> DEFINE row == [RunOf(x) EXCEPT !.phase = phase]
  <1>1. RunOf(x) \in Runs
    BY InTheRun
  <1>2. /\ row \in Runs /\ row.phase # "none" /\ row.artifacts = RunOf(x).artifacts
        /\ row.status = RunOf(x).status
    BY <1>1 DEF Runs
  <1>3. run' = [run EXCEPT ![job[x].a][job[x].o] = row]
    BY DEF Phase, RunOf
  <1> HIDE DEF row
  <1> QED BY <1>2, <1>3, Rewrites

\* A step of a run never removes the row, its drafts or a phase.
LEMMA RunStepGrows ==
  ASSUME TypeInv, NEW x \in Executors, RunStep(x)
  PROVE  RunsGrow
  <1> DEFINE r == RunOf(x)
  <1>1. /\ job[x].pc \in Engaged /\ r \in Runs /\ r.phase # "none" /\ x \in Tickers \cup Requests
        /\ job[x] \in Jobs
    BY RunStepMoves, InTheRun, Constants DEF Engaged, TypeInv, JobsTyped
  <1>2. {"inflight", "validated", "failed", "completed", "persisted", "restart_required",
         "failed_closed"} \subseteq Phases \ {"none"}
    BY DEF Phases
  <1>3. CASE UNCHANGED run
    BY <1>3, RunsStay
  <1>4. CASE Inflight(x)
    BY <1>1, <1>2, <1>4, PhaseGrows DEF Inflight
  <1>5. CASE Validate(x)
    BY <1>1, <1>2, <1>5, PhaseGrows DEF Validate
  <1>6. CASE Finish(x)
    <2> DEFINE row == [r EXCEPT !.phase = "completed", !.status = "completed"]
    <2>1. run' = [run EXCEPT ![job[x].a][job[x].o] = row]
      BY <1>6 DEF Finish, RunOf
    <2>2. row \in Runs /\ row.phase = "completed" /\ row.artifacts = r.artifacts
      BY <1>1, <1>2 DEF Runs
    <2>3. skill[job[x].a] = "attention"
      BY SMTT(30), <1>6, AtSteps, Scripts DEF Finish
    <2> HIDE DEF row
    <2> QED BY <1>1, <2>1, <2>2, <2>3, Rewrites
  <1>7. CASE Persist(x)
    <2>1. CASE r.artifacts = 0 /\ run' = [run EXCEPT ![job[x].a][job[x].o] = Written(r)]
      <3>1. /\ Written(r) \in Runs /\ Written(r).phase = "persisted"
            /\ Written(r).artifacts = 1
        <4>1. r.artifacts + 1 = 1 /\ 1 \in 0..1
          BY <2>1
        <4>2. Written(r) = [r EXCEPT !.artifacts = 1, !.phase = "persisted"]
          BY <4>1 DEF Written
        <4> QED BY <1>1, <1>2, <4>1, <4>2 DEF Runs
      <3> QED BY <1>1, <2>1, <3>1, Rewrites
    <2>2. CASE UNCHANGED run
      BY <2>2, RunsStay
    <2> QED BY <1>7, <2>1, <2>2 DEF Persist, RunOf
  <1>8. CASE Complete(x)
    <2> DEFINE c == [r EXCEPT !.phase = "completed", !.status = "completed"]
               row == IF x \in Requests THEN [c EXCEPT !.claim = Nobody, !.fresh = FALSE] ELSE c
    <2>1. run' = [run EXCEPT ![job[x].a][job[x].o] = row]
      BY <1>8 DEF Complete
    <2>2. c \in Runs /\ c.phase = "completed" /\ c.artifacts = r.artifacts
      BY <1>1, <1>2 DEF Runs
    <2>3. row \in Runs /\ row.phase = "completed" /\ row.artifacts = r.artifacts
      <3> HIDE DEF c
      <3> QED BY <2>2 DEF Runs
    <2>4. r.artifacts = 1
      BY <1>8 DEF Complete, Holds, SeriesHold, DraftsHold
    <2> HIDE DEF row
    <2> QED BY <1>1, <2>1, <2>3, <2>4, Rewrites
  <1>9. CASE Fail(x)
    <2> DEFINE phase == IF job[x].force = "none" THEN r.phase ELSE job[x].force
               f == [r EXCEPT !.status = "failed", !.phase = phase]
               row == IF x \in Requests THEN [f EXCEPT !.claim = Nobody, !.fresh = FALSE] ELSE f
    <2>1. run' = [run EXCEPT ![job[x].a][job[x].o] = row]
      BY <1>9 DEF Fail
    <2>2. phase \in Phases \ {"none"}
      BY <1>1, <1>2 DEF Jobs, Forces, Runs
    <2> HIDE DEF phase
    <2>3. /\ f \in Runs /\ f.phase # "none" /\ f.artifacts = r.artifacts /\ f.status = "failed"
      BY <1>1, <2>2 DEF Runs
    <2>4. /\ row \in Runs /\ row.phase # "none" /\ row.artifacts = r.artifacts
          /\ row.status = "failed"
      <3> HIDE DEF f
      <3> QED BY <2>3 DEF Runs
    <2> HIDE DEF row
    <2> QED BY <1>1, <2>1, <2>4, Rewrites
  <1> QED BY <1>3, <1>4, <1>5, <1>6, <1>7, <1>8, <1>9
          DEF RunStep, Event, AskModel, Leave, Call, StartBatch, Refused, Failing, FailedEvent

\* Nor does any other step.
LEMMA OthersGrow ==
  ASSUME TypeInv, [Next]_vars, \A x \in Executors : ~RunStep(x)
  PROVE  RunsGrow
  <1>1. CASE UNCHANGED run
    BY <1>1, RunsStay
  <1>2. ASSUME NEW t \in Tickers, Insert(t) PROVE RunsGrow
    <2>1. job[t].a \in Automations /\ job[t].o \in Times /\ run \in [Automations -> [Times -> Runs]]
      BY Constants DEF TypeInv, JobsTyped, Jobs, RunsTyped
    <2>2. CASE ~Exists(job[t].a, job[t].o)
      <3>1. run' = [run EXCEPT ![job[t].a][job[t].o] = NewRun]
        BY <1>2, <2>2 DEF Insert
      <3>2. run[job[t].a][job[t].o].artifacts = 0
        BY <2>2 DEF Exists, NoRun
      <3>3. Fate(job[t].a, run[job[t].a][job[t].o], NewRun)
        BY <3>2, InitialRows DEF Fate
      <3> QED BY <2>1, <3>1, <3>3, InitialRows, Writes
    <2> QED BY <1>1, <1>2, <2>2 DEF Insert
  <1>3. ASSUME NEW q \in Requests, TakeRun(q), ~UNCHANGED run PROVE RunsGrow
    <2> DEFINE row == [RunOf(q) EXCEPT !.claim = q, !.fresh = TRUE]
    <2>1. q \in Executors /\ job[q].pc \in Engaged
      BY <1>3, Constants DEF TakeRun, Engaged, InRun
    <2>2. RunOf(q) \in Runs /\ RunOf(q).phase # "none"
      BY <2>1, InTheRun
    <2>3. run' = [run EXCEPT ![job[q].a][job[q].o] = row]
      <3>1. /\ job[q].a \in Automations /\ job[q].o \in Times
            /\ run \in [Automations -> [Times -> Runs]]
        BY <2>1, InTheRun DEF TypeInv, RunsTyped
      <3> QED BY ZenonT(40), <1>3, <3>1 DEF TakeRun, RunOf
    <2>4. /\ row \in Runs /\ row.phase = RunOf(q).phase /\ row.artifacts = RunOf(q).artifacts
          /\ row.status = RunOf(q).status
      BY <2>2 DEF Runs
    <2> HIDE DEF row
    <2> QED BY <2>1, <2>2, <2>3, <2>4, Rewrites
  <1>4. ASSUME NEW q \in Requests, Resume(q), ~UNCHANGED run PROVE RunsGrow
    <2> DEFINE row == [RunOf(q) EXCEPT !.status = "running"]
    <2>1. q \in Executors /\ job[q].pc \in Engaged
      BY <1>4, Constants DEF Resume, Engaged, InRun
    <2>2. RunOf(q) \in Runs /\ RunOf(q).phase # "none"
      BY <2>1, InTheRun
    <2>3. run' = [run EXCEPT ![job[q].a][job[q].o] = row]
      BY <1>4 DEF Resume, RunOf
    <2>4. /\ row \in Runs /\ row.phase = RunOf(q).phase /\ row.artifacts = RunOf(q).artifacts
          /\ row.status = "running"
      BY <2>2 DEF Runs
    <2> HIDE DEF row
    <2> QED BY <2>1, <2>2, <2>3, <2>4, Rewrites
  <1>5. ASSUME NEW a \in Automations, NEW o \in Times, NEW row,
               run[a][o] # NoRun, run' = [run EXCEPT ![a][o] = row],
               \/ row = [run[a][o] EXCEPT !.fresh = FALSE]
               \/ row = [run[a][o] EXCEPT !.kept = FALSE]
        PROVE  RunsGrow
    <2>1. run[a][o] \in Runs /\ run[a][o].phase # "none"
      BY <1>5 DEF TypeInv, RunsTyped
    <2>2. /\ row \in Runs /\ row.phase = run[a][o].phase /\ row.artifacts = run[a][o].artifacts
          /\ row.status = run[a][o].status
      BY <1>5, <2>1 DEF Runs
    <2>3. Fate(a, run[a][o], row)
      BY <2>2 DEF Fate
    <2> QED BY <1>5, <2>1, <2>2, <2>3, Writes
  <1>6. NoRun.fresh = FALSE /\ NoRun.artifacts = 0
    BY DEF NoRun
  <1>7. ASSUME NEW a \in Automations, NEW o \in Times, ExpireRun(a, o) \/ OutliveRun(a, o)
        PROVE  RunsGrow
    <2>1. run[a][o] # NoRun
      BY <1>6, <1>7 DEF ExpireRun, OutliveRun
    <2>2. run' = [run EXCEPT ![a][o] = [run[a][o] EXCEPT !.fresh = FALSE]]
      BY <1>7 DEF ExpireRun, OutliveRun
    <2> QED BY <1>5, <2>1, <2>2
  <1>8. ASSUME NEW a \in Automations, NEW o \in Times, Regrade(a, o) PROVE RunsGrow
    <2>1. run[a][o] # NoRun
      BY <1>6, <1>8 DEF Regrade
    <2>2. run' = [run EXCEPT ![a][o] = [run[a][o] EXCEPT !.kept = FALSE]]
      BY <1>8 DEF Regrade
    <2> QED BY <1>5, <2>1, <2>2
  <1>9. \/ UNCHANGED run
        \/ \E t \in Tickers : Insert(t)
        \/ \E q \in Requests : TakeRun(q) \/ Resume(q)
        \/ \E a \in Automations, o \in Times :
              ExpireRun(a, o) \/ OutliveRun(a, o) \/ Regrade(a, o)
    BY Constants DEF Next, Beat, Serve, Tick, Pick, Process, Advance, SetEnabled, ResumedEvent, Ask,
                     Die, Raise, BecomesDue, GraceEnds, Flip, Expire, Outlive, vars
  <1> QED BY <1>1, <1>2, <1>3, <1>4, <1>7, <1>8, <1>9

\* Once there, a run stays, with the drafts written in it.
LEMMA AllGrow ==
  ASSUME TypeInv, [Next]_vars
  PROVE  RunsGrow /\ Grows
  <1>1. RunsGrow
    BY RunStepGrows, OthersGrow
  <1>2. due <= due' /\ late <= late' /\ skill' = skill
    <2>1. due \in Nat /\ late \in Nat
      BY Constants DEF TypeInv, WorldTyped
    <2>2. UNCHANGED <<due, late, skill>> \/ BecomesDue \/ GraceEnds
      <3>1. ASSUME NEW x, RunStep(x) PROVE UNCHANGED <<due, late, skill>>
        BY <3>1 DEF RunStep, Event, AskModel, Finish, Leave, Inflight, Call, Validate, StartBatch,
                    Persist, Refused, Complete, Failing, Fail, FailedEvent
      <3>2. ASSUME NEW t, Beat(t) PROVE UNCHANGED <<due, late, skill>>
        BY <3>1, <3>2 DEF Beat, Tick, Pick, Process, Insert, Advance
      <3>3. ASSUME NEW q, Ask(q) \/ Serve(q) PROVE UNCHANGED <<due, late, skill>>
        BY <3>1, <3>3 DEF Ask, Serve, SetEnabled, TakeRun, ResumedEvent, Resume
      <3> QED BY <3>2, <3>3 DEF Next, Die, Raise, Flip, Expire, Outlive, ExpireRun, OutliveRun,
                                Regrade, vars
    <2> QED BY <2>1, <2>2 DEF BecomesDue, GraceEnds
  <1> QED BY <1>1, <1>2 DEF RunsGrow, Grows

-----------------------------------------------------------------------------
(* The memories keep their types. *)

\* The clock, the ownership and the bounds stay typed.
LEMMA WorldStep ==
  ASSUME TypeInv, [Next]_vars
  PROVE  WorldTyped'
  <1>0. WorldTyped /\ due \in 0..Occurrences /\ late \in {due, due - 1} \cap Nat
    BY DEF TypeInv, WorldTyped
  <1>1. CASE UNCHANGED <<due, late, fit, skill, asked, flips, faults>>
    BY <1>0, <1>1 DEF WorldTyped
  <1>2. ASSUME UNCHANGED <<due, late, fit, skill, flips, faults>>, asked < MaxAsked,
               asked' = asked + 1
        PROVE  WorldTyped'
    BY <1>0, <1>2, Constants DEF WorldTyped
  <1>3. ASSUME UNCHANGED <<due, late, skill, asked, faults>>, flips < MaxFlips,
               flips' = flips + 1, fit' \in [Automations -> BOOLEAN]
        PROVE  WorldTyped'
    BY <1>0, <1>3, Constants DEF WorldTyped
  <1>4. ASSUME UNCHANGED <<due, late, fit, skill, asked, flips>>, Fault PROVE WorldTyped'
    BY <1>0, <1>4, Constants DEF WorldTyped, Fault
  <1>5. CASE BecomesDue \/ GraceEnds
    <2>1. UNCHANGED <<fit, skill, asked, flips, faults>>
      BY <1>5 DEF BecomesDue, GraceEnds, bounds
    <2>2. due' \in 0..Occurrences /\ late' \in {due', due' - 1} \cap Nat
      <3>1. CASE BecomesDue
        BY <1>0, <3>1, Constants DEF BecomesDue
      <3>2. CASE GraceEnds
        BY <1>0, <3>2, Constants DEF GraceEnds
      <3> QED BY <1>5, <3>1, <3>2
    <2> QED BY <1>0, <2>1, <2>2 DEF WorldTyped
  <1>6. ASSUME NEW x, RunStep(x) PROVE WorldTyped'
    BY <1>1, <1>6 DEF RunStep, Event, AskModel, Finish, Leave, Inflight, Call, Validate,
                      StartBatch, Persist, Refused, Complete, Failing, Fail, FailedEvent, bounds
  <1>7. ASSUME NEW t, Beat(t) PROVE WorldTyped'
    BY <1>1, <1>6, <1>7 DEF Beat, Tick, Pick, Process, Insert, Advance, bounds
  <1>8. ASSUME NEW q, Ask(q) PROVE WorldTyped'
    BY <1>2, <1>8 DEF Ask
  <1>9. ASSUME NEW q, Serve(q) PROVE WorldTyped'
    BY <1>1, <1>6, <1>9 DEF Serve, SetEnabled, TakeRun, ResumedEvent, Resume, bounds
  <1>10. ASSUME NEW a \in Automations, Flip(a) PROVE WorldTyped'
    BY <1>0, <1>3, <1>10 DEF Flip, WorldTyped
  <1>11. ASSUME NEW a, NEW o, Regrade(a, o) PROVE WorldTyped'
    BY <1>0, <1>3, <1>11 DEF Regrade, WorldTyped
  <1>12. ASSUME NEW a, Expire(a) \/ Outlive(a) PROVE WorldTyped'
    BY <1>1, <1>4, <1>12 DEF Expire, Outlive, bounds
  <1>13. ASSUME NEW a, NEW o, ExpireRun(a, o) \/ OutliveRun(a, o) PROVE WorldTyped'
    BY <1>1, <1>4, <1>13 DEF ExpireRun, OutliveRun, bounds
  <1>14. ASSUME NEW x, Die(x) \/ Raise(x) PROVE WorldTyped'
    BY <1>4, <1>14 DEF Die, Raise
  <1>15. CASE UNCHANGED vars
    BY <1>1, <1>15 DEF vars, bounds
  <1> QED BY <1>5, <1>7, <1>8, <1>9, <1>10, <1>11, <1>12, <1>13, <1>14, <1>15 DEF Next

\* What a row of another shape must say to be remembered next.
RememberedNext(x, j) == Remembers(x, j, due', late', run')

\* A step that one executor takes leaves the memory of all others sound.
LEMMA OthersRemember ==
  ASSUME TypeInv, [Next]_vars, NEW x \in Executors, NEW row, Acts(x, row),
         RememberedNext(x, row)
  PROVE  JobsTyped'
  <1>1. job' \in [Executors -> Jobs] /\ job'[x] = row
    BY DEF Acts
  <1>2. ASSUME NEW y \in Executors PROVE Remembers(y, job'[y], due', late', run')
    <2>1. CASE y = x
      BY <1>1, <2>1 DEF RememberedNext
    <2>2. CASE y # x
      <3>1. Same(job[y], job'[y]) /\ Remembers(y, job[y], due, late, run) /\ job[y] \in Jobs
        BY <2>2 DEF Acts, TypeInv, JobsTyped
      <3>2. job[y].a \in Automations /\ job[y].o \in Times /\ job[y].due \in Nat
            /\ job[y].late \in Nat /\ due \in Nat /\ late \in Nat /\ due' \in Int /\ late' \in Int
        <4>1. due' \in Int /\ late' \in Int
          BY WorldStep DEF WorldTyped
        <4> QED BY <3>1, <4>1, Constants DEF Jobs, TypeInv, WorldTyped
      <3> QED BY <3>1, <3>2, AllGrow DEF Grows, Remembers, Same
    <2> QED BY <2>1, <2>2
  <1>3. skill' = skill
    BY AllGrow DEF Grows
  <1>4. \A y \in Executors : Remembers(y, job[y], due, late, run)'
    BY <1>2, <1>3 DEF Remembers
  <1> QED BY <1>1, <1>4 DEF JobsTyped

\* Times only grow, and what a heartbeat has read of them is not ahead of them.
LEMMA Clocks ==
  ASSUME TypeInv, [Next]_vars
  PROVE  /\ due \in Nat /\ late \in Nat /\ due' \in Nat /\ late' \in Nat /\ due <= due'
         /\ late <= late' /\ skill' = skill
         /\ \A x \in Executors : /\ job[x].due \in Nat /\ job[x].late \in Nat
                                 /\ job[x].due <= due' /\ job[x].late <= late'
  <1>1. due \in Nat /\ late \in Nat
    BY Constants DEF TypeInv, WorldTyped
  <1>2. due' \in Nat /\ late' \in Nat
    BY WorldStep, Constants DEF WorldTyped
  <1>3. due <= due' /\ late <= late' /\ skill' = skill
    BY AllGrow DEF Grows
  <1>4. ASSUME NEW x \in Executors
        PROVE  /\ job[x].due \in Nat /\ job[x].late \in Nat
               /\ job[x].due <= due /\ job[x].late <= late
    <2>1. job[x] \in Jobs /\ Remembers(x, job[x], due, late, run)
      BY DEF TypeInv, JobsTyped
    <2> QED BY <2>1, Constants DEF Jobs, Remembers
  <1> QED BY <1>1, <1>2, <1>3, <1>4

\* A step of a run, whose runner has seen neither more nor another run.
LEMMA MoveRemembers ==
  ASSUME TypeInv, [Next]_vars, NEW x \in Executors, Moves(x), job[x].pc \in InRun
  PROVE  JobsTyped'
  <1> DEFINE j == job[x]
             k == job'[x]
  <1>1. Moves(x) /\ j.pc \in InRun /\ j \in Jobs /\ Remembers(x, j, due, late, run)
        /\ j.a \in Automations /\ j.o \in Times
    BY DEF TypeInv, JobsTyped, Jobs
  <1>2. /\ due \in Nat /\ late \in Nat /\ j.due \in Nat /\ j.late \in Nat
        /\ due' \in Nat /\ late' \in Nat /\ due <= due' /\ late <= late' /\ skill' = skill
    BY Clocks
  <1>3. run'[j.a][j.o].phase # "none"
    BY <1>1, AllGrow DEF Grows, Remembers, Engaged
  <1>4. Acts(x, k)
    BY <1>1 DEF Moves
  <1>5. CASE k = Idle
    <2>1. RememberedNext(x, Idle)
      BY <1>2, InitialRows DEF RememberedNext, Remembers, InRun, Engaged
    <2> QED BY <1>4, <1>5, <2>1, OthersRemember
  <1>6. CASE x \in Tickers /\ k.pc = "pick" /\ k.pos = 1 /\ k.due = j.due /\ k.late = j.late
    <2>1. RememberedNext(x, k)
      BY <1>1, <1>2, <1>6 DEF RememberedNext, Remembers, InRun, Engaged
    <2> QED BY <1>4, <2>1, OthersRemember
  <1>7. ASSUME Stays(x), k.pc \in {"failing", "fail", "failed"} PROVE JobsTyped'
    <2>1. RememberedNext(x, k)
      BY <1>1, <1>2, <1>3, <1>7 DEF RememberedNext, Remembers, InRun, Engaged, Stays
    <2> QED BY <1>4, <2>1, OthersRemember
  <1>8. ASSUME Stays(x), k.pc = "advance", x \in Tickers PROVE JobsTyped'
    <2>1. RememberedNext(x, k)
      BY <1>1, <1>2, <1>3, <1>8 DEF RememberedNext, Remembers, InRun, Engaged, Stays
    <2> QED BY <1>4, <2>1, OthersRemember
  <1>9. ASSUME Stays(x), j.pc = "step", k.pc = "step", k.pos = j.pos + 1,
               skill[j.a] = "attention" => k.pos <= 7
        PROVE  JobsTyped'
    <2>0. j.pos \in Nat
      BY <1>1 DEF Jobs
    <2>1. RememberedNext(x, k)
      BY <1>1, <1>2, <1>3, <1>9, <2>0 DEF RememberedNext, Remembers, InRun, Engaged, Stays
    <2> QED BY <1>4, <2>1, OthersRemember
  <1> QED BY <1>1, <1>5, <1>6, <1>7, <1>8, <1>9 DEF Moves, Leaves

\* Who ends, dies or goes back to its claims.
LEMMA LeavingRemembers ==
  ASSUME TypeInv, [Next]_vars, NEW x \in Executors, Return(x) \/ End(x)
  PROVE  JobsTyped'
  <1> DEFINE j == job[x]
  <1>1. Acts(x, job'[x]) /\ Leaves(x) /\ j \in Jobs /\ Remembers(x, j, due, late, run)
    BY Returns DEF TypeInv, JobsTyped
  <1>2. /\ due \in Nat /\ late \in Nat /\ j.due \in Nat /\ j.late \in Nat
        /\ due' \in Nat /\ late' \in Nat /\ due <= due' /\ late <= late'
    BY Clocks
  <1>3. CASE job'[x] = Idle
    <2>1. RememberedNext(x, Idle)
      BY <1>2, InitialRows DEF RememberedNext, Remembers, InRun, Engaged
    <2> QED BY <1>1, <1>3, <2>1, OthersRemember
  <1>4. CASE /\ x \in Tickers /\ job'[x].pc = "pick" /\ job'[x].pos = 1
             /\ job'[x].due = j.due /\ job'[x].late = j.late
    <2>1. RememberedNext(x, job'[x])
      BY <1>1, <1>2, <1>4 DEF RememberedNext, Remembers, InRun, Engaged
    <2> QED BY <1>1, <2>1, OthersRemember
  <1> QED BY <1>1, <1>3, <1>4 DEF Leaves

\* Another place, where the rest stays as it was.
LEMMA MovingRemembers ==
  ASSUME TypeInv, [Next]_vars, NEW x \in Executors, NEW row \in Jobs,
         job' = [job EXCEPT ![x] = row] \/ Logged(x, row),
         row.due <= due', row.late <= late',
         row.pc \in Engaged => run'[row.a][row.o].phase # "none",
         row.pc \in {"pick", "process", "insert", "advance"} => x \in Tickers,
         row.pc \in {"pick", "process", "insert"} => row.pos = 1,
         row.pc \in {"pause", "continue"} => x \in Requests /\ row.read \in Schedules,
         row.pc \in {"resume", "resumed", "dispatch"} => x \in Requests,
         row.pc \in {"resumed", "dispatch"} => row.read \in Runs,
         row.pc \in InRun /\ x \in Requests => skill[row.a] # "attention",
         row.pc = "step" /\ x \in Requests => row.pos >= 8,
         row.pc = "step" /\ skill[row.a] = "attention" => row.pos <= 7
  PROVE  JobsTyped'
  <1>1. Acts(x, row)
    BY Replaces, Logs DEF TypeInv, JobsTyped
  <1>2. RememberedNext(x, row)
    BY DEF RememberedNext, Remembers
  <1> QED BY <1>1, <1>2, OthersRemember

\* A heartbeat that looks for what is due.
LEMMA BeatRemembers ==
  ASSUME TypeInv, [Next]_vars, NEW t \in Tickers,
         Tick(t) \/ Pick(t) \/ Process(t) \/ Insert(t) \/ Advance(t)
  PROVE  JobsTyped'
  <1> DEFINE j == job[t]
  <1>1. /\ t \in Executors /\ j \in Jobs /\ Remembers(t, j, due, late, run)
        /\ j.a \in Automations /\ j.o \in Times /\ j.due <= due' /\ j.late <= late'
        /\ t \notin Requests
    BY Constants, Clocks DEF TypeInv, JobsTyped, Jobs
  <1>2. CASE Tick(t)
    <2> DEFINE row == [Idle EXCEPT !.pc = "pick", !.due = due, !.late = late]
    <2>1. job' = [job EXCEPT ![t] = row]
      BY <1>2 DEF Tick
    <2>2. due \in 0..Occurrences /\ late \in 0..Occurrences
      BY Constants DEF TypeInv, WorldTyped
    <2>3. row \in Jobs /\ row.pc = "pick" /\ row.pos = 1 /\ row.due = due /\ row.late = late
      BY <2>2, InitialRows DEF Jobs, Places
    <2> HIDE DEF row
    <2> QED BY <1>1, <2>1, <2>3, MovingRemembers, Clocks DEF InRun, Engaged
  <1>3. CASE Pick(t)
    <2>1. CASE End(t)
      BY <1>1, <2>1, LeavingRemembers
    <2>2. ASSUME NEW a \in Automations, job' = [job EXCEPT ![t].pc = "process", ![t].a = a]
          PROVE  JobsTyped'
      <3> DEFINE row == [j EXCEPT !.pc = "process", !.a = a]
      <3>1. job' = [job EXCEPT ![t] = row]
        BY <2>2
      <3>2. /\ row \in Jobs /\ row.pc = "process" /\ row.pos = j.pos
            /\ row.due = j.due /\ row.late = j.late
        BY <1>1 DEF Jobs, Places
      <3>3. j.pos = 1
        BY <1>1, <1>3 DEF Pick, Remembers
      <3> HIDE DEF row
      <3> QED BY <1>1, <3>1, <3>2, <3>3, MovingRemembers DEF InRun, Engaged
    <2>3. \/ End(t)
          \/ \E a \in Automations : job' = [job EXCEPT ![t].pc = "process", ![t].a = a]
      BY <1>3 DEF Pick
    <2> QED BY <2>1, <2>2, <2>3
  <1>4. CASE Process(t)
    <2> DEFINE o == automation[j.a].next
    <2>1. CASE Return(t)
      BY <1>1, <2>1, LeavingRemembers
    <2>2. CASE ~Return(t)
      <3> DEFINE row == [j EXCEPT !.pc = "insert", !.o = o]
      <3>1. /\ job' = [job EXCEPT ![t] = row] /\ j.pc = "process"
            /\ automation[j.a].claim = t
        BY <1>4, <2>2 DEF Process
      <3>2. o \in Times
        <4>1. o <= due + 1
          BY <3>1 DEF TypeInv, ClaimsTimely
        <4>2. o \in 1..(Occurrences + 2) /\ due \in 0..Occurrences
          BY <1>1 DEF TypeInv, WorldTyped, SchedulesTyped, Schedules
        <4> QED BY <4>1, <4>2, Constants
      <3>3. /\ row \in Jobs /\ row.pc = "insert" /\ row.pos = j.pos
            /\ row.due = j.due /\ row.late = j.late
        BY <1>1, <3>2 DEF Jobs, Places
      <3>4. j.pos = 1
        BY <1>1, <3>1 DEF Remembers
      <3> HIDE DEF row
      <3> QED BY <1>1, <3>1, <3>3, <3>4, MovingRemembers DEF InRun, Engaged
    <2> QED BY <2>1, <2>2
  <1>5. CASE Insert(t)
    <2>1. CASE Goto(t, "advance") /\ Exists(j.a, j.o)
      <3> DEFINE row == [j EXCEPT !.pc = "advance"]
      <3>1. job' = [job EXCEPT ![t] = row]
        BY <2>1 DEF Goto
      <3>2. /\ row \in Jobs /\ row.pc = "advance" /\ row.due = j.due /\ row.late = j.late
            /\ row.a = j.a /\ row.o = j.o
        BY <1>1 DEF Jobs, Places
      <3>3. run[j.a][j.o].phase # "none"
        BY <1>1, <2>1 DEF Exists, TypeInv, RunsTyped
      <3>4. run'[j.a][j.o].phase # "none"
        BY <1>1, <3>3, AllGrow DEF Grows
      <3> HIDE DEF row
      <3> QED BY <1>1, <3>1, <3>2, <3>4, MovingRemembers DEF InRun
    <2>2. CASE /\ Goto(t, "step") /\ ~Exists(j.a, j.o)
               /\ run' = [run EXCEPT ![j.a][j.o] = NewRun]
      <3> DEFINE row == [j EXCEPT !.pc = "step"]
      <3>1. job' = [job EXCEPT ![t] = row]
        BY <2>2 DEF Goto
      <3>2. /\ row \in Jobs /\ row.pc = "step" /\ row.due = j.due /\ row.late = j.late
            /\ row.a = j.a /\ row.o = j.o /\ row.pos = j.pos
        BY <1>1 DEF Jobs, Places
      <3>3. run'[j.a][j.o] = NewRun
        BY <1>1, <2>2 DEF TypeInv, RunsTyped
      <3>4. j.pc = "insert"
        BY <1>5 DEF Insert
      <3>5. j.pos <= 7
        BY <1>1, <3>4 DEF Remembers
      <3> HIDE DEF row
      <3> QED BY <1>1, <3>1, <3>2, <3>3, <3>5, InitialRows, MovingRemembers DEF InRun
    <2> QED BY <1>5, <2>1, <2>2 DEF Insert
  <1>6. CASE Advance(t)
    BY <1>1, <1>6, LeavingRemembers DEF Advance
  <1> QED BY <1>2, <1>3, <1>4, <1>5, <1>6

\* The owner's requests.
LEMMA RequestRemembers ==
  ASSUME TypeInv, [Next]_vars, NEW q \in Requests,
         Ask(q) \/ SetEnabled(q) \/ TakeRun(q) \/ ResumedEvent(q) \/ Resume(q)
  PROVE  JobsTyped'
  <1> DEFINE j == job[q]
  <1>1. /\ q \in Executors /\ j \in Jobs /\ Remembers(q, j, due, late, run)
        /\ j.a \in Automations /\ j.o \in Times /\ j.due <= due' /\ j.late <= late'
        /\ q \notin Tickers
    BY Constants, Clocks DEF TypeInv, JobsTyped, Jobs
  <1>2. \A a \in Automations, o \in Times :
           run[a][o].phase # "none" => run'[a][o].phase # "none"
    BY AllGrow DEF Grows
  <1>3. CASE SetEnabled(q)
    BY <1>1, <1>3, LeavingRemembers DEF SetEnabled
  <1>4. CASE Ask(q)
    <2>1. ASSUME NEW a \in Automations, NEW pc \in {"pause", "continue"},
                 job' = [job EXCEPT ![q].pc = pc, ![q].a = a, ![q].read = automation[a]]
          PROVE  JobsTyped'
      <3> DEFINE row == [j EXCEPT !.pc = pc, !.a = a, !.read = automation[a]]
      <3>1. job' = [job EXCEPT ![q] = row]
        BY <2>1
      <3>2. automation[a] \in Schedules /\ automation[a] \in Reads /\ pc \in Places
        BY DEF TypeInv, SchedulesTyped, Reads, Places
      <3>3. /\ row \in Jobs /\ row.pc = pc /\ row.due = j.due /\ row.late = j.late
            /\ row.read = automation[a]
        BY <1>1, <3>2 DEF Jobs
      <3> HIDE DEF row
      <3> QED BY <1>1, <3>1, <3>2, <3>3, MovingRemembers DEF InRun, Engaged
    <2>2. ASSUME NEW a \in Automations, NEW o \in Times, Resumable(a, o),
                 job' = [job EXCEPT ![q].pc = "resume", ![q].a = a, ![q].o = o]
          PROVE  JobsTyped'
      <3> DEFINE row == [j EXCEPT !.pc = "resume", !.a = a, !.o = o]
      <3>1. job' = [job EXCEPT ![q] = row]
        BY <2>2
      <3>2. /\ row \in Jobs /\ row.pc = "resume" /\ row.due = j.due /\ row.late = j.late
            /\ row.a = a /\ row.o = o
        BY <1>1 DEF Jobs, Places
      <3>3. skill[a] # "attention" /\ run[a][o] # NoRun
        BY <2>2 DEF Resumable, NoRun
      <3>4. run'[a][o].phase # "none"
        BY <1>2, <3>3 DEF TypeInv, RunsTyped
      <3> HIDE DEF row
      <3> QED BY <1>1, <3>1, <3>2, <3>3, <3>4, MovingRemembers
    <2> QED BY <1>4, <2>1, <2>2 DEF Ask
  <1>5. j.pc \in InRun => /\ skill[j.a] # "attention" /\ run[j.a][j.o].phase # "none"
                          /\ run'[j.a][j.o].phase # "none" /\ RunOf(q) \in Runs
    BY <1>1, <1>2, InTheRun DEF Remembers, Engaged
  <1>6. CASE TakeRun(q)
    <2>1. CASE End(q)
      BY <1>1, <2>1, LeavingRemembers
    <2>2. CASE ~End(q)
      <3> DEFINE row == [j EXCEPT !.pc = "resumed", !.read = RunOf(q)]
      <3>1. j.pc = "resume" /\ job' = [job EXCEPT ![q] = row]
        BY <1>6, <2>2 DEF TakeRun
      <3>2. RunOf(q) \in Runs /\ RunOf(q) \in Reads
        BY <1>5, <3>1 DEF InRun, Reads
      <3>3. /\ row \in Jobs /\ row.pc = "resumed" /\ row.due = j.due /\ row.late = j.late
            /\ row.a = j.a /\ row.o = j.o /\ row.read = RunOf(q)
        BY <1>1, <3>2 DEF Jobs, Places
      <3> HIDE DEF row
      <3> QED BY <1>1, <1>5, <3>1, <3>2, <3>3, MovingRemembers DEF InRun
    <2> QED BY <2>1, <2>2
  <1>7. ASSUME j.pc \in InRun, NEW pc \in {"failing", "fail", "dispatch"}, NEW behind \in Nat,
               NEW force \in Forces, NEW read \in Reads, pc = "dispatch" => read \in Runs,
               NEW row, row = [j EXCEPT !.pc = pc, !.behind = behind, !.read = read,
                                        !.force = force],
               job' = [job EXCEPT ![q] = row] \/ Logged(q, row)
        PROVE  JobsTyped'
    <2>1. /\ row \in Jobs /\ row.pc = pc /\ row.due = j.due /\ row.late = j.late
          /\ row.a = j.a /\ row.o = j.o /\ row.read = read
      BY <1>1, <1>7 DEF Jobs, Places
    <2> QED BY ZenonT(40), <1>1, <1>5, <1>7, <2>1, MovingRemembers
  <1>8. CASE ResumedEvent(q)
    <2>1. j.pc = "resumed" /\ j.pc \in InRun
      BY <1>8 DEF ResumedEvent, InRun
    <2>2. /\ j.read \in Runs /\ j.read \in Reads /\ j.behind \in Nat /\ j.force \in Forces
          /\ Taken(q) => j.behind - 1 \in Nat
      BY <1>1, <2>1 DEF Remembers, Reads, Jobs, Taken
    <2>3. CASE Taken(q)
      <3> DEFINE row == [j EXCEPT !.pc = "failing", !.behind = j.behind - 1, !.read = j.read,
                                  !.force = j.force]
      <3>1. job' = [job EXCEPT ![q] = [j EXCEPT !.behind = j.behind - 1, !.pc = "failing"]]
        BY <1>8, <2>3 DEF ResumedEvent, Missed
      <3>2. row = [j EXCEPT !.behind = j.behind - 1, !.pc = "failing"]
        BY <1>1 DEF Jobs
      <3>3. row = [j EXCEPT !.pc = "failing", !.behind = j.behind - 1, !.read = j.read,
                            !.force = j.force]
        OBVIOUS
      <3>4. job' = [job EXCEPT ![q] = row]
        BY <3>1, <3>2
      <3>5. "failing" \in {"failing", "fail", "dispatch"} /\ "failing" # "dispatch"
        OBVIOUS
      <3> HIDE DEF row
      <3> QED BY <1>7, <2>1, <2>2, <2>3, <3>3, <3>4, <3>5
    <2>4. CASE ~Taken(q)
      <3> DEFINE row == [j EXCEPT !.pc = "dispatch", !.behind = j.behind, !.read = j.read,
                                  !.force = j.force]
      <3>1. Logged(q, [j EXCEPT !.pc = "dispatch"])
        BY <1>8, <2>4 DEF ResumedEvent
      <3>2. row = [j EXCEPT !.pc = "dispatch"]
        BY <1>1 DEF Jobs
      <3>3. row = [j EXCEPT !.pc = "dispatch", !.behind = j.behind, !.read = j.read,
                            !.force = j.force]
        OBVIOUS
      <3>4. Logged(q, row)
        BY <3>1, <3>2
      <3>5. "dispatch" \in {"failing", "fail", "dispatch"}
        OBVIOUS
      <3> HIDE DEF row
      <3> QED BY <1>7, <2>1, <2>2, <3>3, <3>4, <3>5
    <2> QED BY <2>3, <2>4
  <1>9. CASE Resume(q)
    <2>1. j.pc \in InRun /\ j.behind \in Nat /\ <<>> \in Reads
      BY <1>1, <1>9 DEF Resume, InRun, Jobs, Reads
    <2>2. ASSUME NEW force \in {"restart_required", "failed_closed"},
                 job' = [job EXCEPT ![q].pc = "fail", ![q].read = <<>>, ![q].force = force]
          PROVE  JobsTyped'
      <3> DEFINE row == [j EXCEPT !.pc = "fail", !.behind = j.behind, !.read = <<>>,
                                  !.force = force]
      <3>1. job' = [job EXCEPT ![q] = [j EXCEPT !.pc = "fail", !.read = <<>>, !.force = force]]
        BY <2>2
      <3>2. row = [j EXCEPT !.pc = "fail", !.read = <<>>, !.force = force]
        BY <1>1 DEF Jobs
      <3>3. row = [j EXCEPT !.pc = "fail", !.behind = j.behind, !.read = <<>>, !.force = force]
        OBVIOUS
      <3>4. force \in Forces
        BY DEF Forces
      <3> HIDE DEF row
      <3> QED BY ZenonT(40), <1>7, <2>1, <3>1, <3>2, <3>3, <3>4
    <2>3. ASSUME NEW pos \in {8, 11},
                 job' = [job EXCEPT ![q].pc = "step", ![q].read = <<>>, ![q].pos = pos]
          PROVE  JobsTyped'
      <3> DEFINE row == [j EXCEPT !.pc = "step", !.read = <<>>, !.pos = pos]
      <3>1. job' = [job EXCEPT ![q] = row]
        BY <2>3
      <3>2. /\ row \in Jobs /\ row.pc = "step" /\ row.due = j.due /\ row.late = j.late
            /\ row.a = j.a /\ row.o = j.o /\ row.pos = pos /\ pos >= 8
        <4>1. pos \in 1..11 /\ pos >= 8 /\ "step" \in Places
          BY DEF Places
        <4> HIDE DEF Reads
        <4> QED BY <1>1, <2>1, <4>1 DEF Jobs
      <3> HIDE DEF row
      <3> QED BY <1>1, <1>5, <2>1, <3>1, <3>2, MovingRemembers
    <2>4. skill[j.a] \in {"drafts", "series"} /\ Script[skill[j.a]] = DraftScript
      BY <1>1, <1>5, <2>1, Scripts, AgentAutomationAssumption DEF TypeInv, WorldTyped
    <2>5. \/ \E force \in {"restart_required", "failed_closed"} :
               job' = [job EXCEPT ![q].pc = "fail", ![q].read = <<>>, ![q].force = force]
          \/ \E what \in {"batch", "complete"} :
               job' = [job EXCEPT ![q].pc = "step", ![q].read = <<>>,
                                  ![q].pos = SelectInSeq(DraftScript, LAMBDA s : s = what)]
      BY <1>9, <2>4 DEF Resume
    <2> QED BY SMTT(30), <2>2, <2>3, <2>5, ResumesAt
  <1> QED BY <1>3, <1>4, <1>6, <1>8, <1>9

\* Every step leaves the memory of heartbeats and requests sound.
LEMMA JobsStep ==
  ASSUME TypeInv, [Next]_vars
  PROVE  JobsTyped'
  <1>1. CASE UNCHANGED job
    <2>1. ASSUME NEW x \in Executors PROVE JobsTyped'
      <3>1. job[x] \in Jobs /\ job \in [Executors -> Jobs] /\ Remembers(x, job[x], due, late, run)
        BY DEF TypeInv, JobsTyped
      <3>2. Acts(x, job[x])
        BY <1>1, <3>1 DEF Acts, Same
      <3>3. RememberedNext(x, job[x])
        <4>1. job[x].a \in Automations /\ job[x].o \in Times
          BY <3>1 DEF Jobs
        <4>2. run[job[x].a][job[x].o].phase # "none" => run'[job[x].a][job[x].o].phase # "none"
          BY <4>1, AllGrow DEF Grows
        <4> QED BY <3>1, <4>2, Clocks DEF RememberedNext, Remembers
      <3> QED BY <3>2, <3>3, OthersRemember
    <2>2. CASE Executors = {}
      BY <1>1, <2>2 DEF TypeInv, JobsTyped
    <2> QED BY <2>1, <2>2
  <1>2. ASSUME NEW x \in Executors, RunStep(x) PROVE JobsTyped'
    BY <1>2, RunStepMoves, MoveRemembers
  <1>3. ASSUME NEW t \in Tickers, Beat(t) PROVE JobsTyped'
    BY <1>2, <1>3, BeatRemembers, Constants DEF Beat
  <1>4. ASSUME NEW q \in Requests, Ask(q) \/ Serve(q) PROVE JobsTyped'
    BY <1>2, <1>4, RequestRemembers, Constants DEF Serve
  <1>5. ASSUME NEW x \in Executors, Die(x) PROVE JobsTyped'
    BY <1>5, LeavingRemembers DEF Die
  <1>6. ASSUME NEW x \in Executors, Raise(x) PROVE JobsTyped'
    <2>1. Goto(x, "failing") /\ job[x].pc \in InRun
      BY <1>6 DEF Raise, InRun
    <2> QED BY <2>1, FailsNow, MoveRemembers
  <1> QED BY <1>1, <1>3, <1>4, <1>5, <1>6
          DEF Next, BecomesDue, GraceEnds, Flip, Expire, Outlive, ExpireRun, OutliveRun, Regrade,
              vars

\* Who does not act stays where it is.
LEMMA OthersStay ==
  ASSUME TypeInv, NEW x \in Executors,
         \/ Die(x) \/ Raise(x)
         \/ x \in Tickers /\ Beat(x)
         \/ x \in Requests /\ (Ask(x) \/ Serve(x))
  PROVE  \A y \in Executors \ {x} : Same(job[y], job'[y])
  <1>1. ASSUME NEW row, job' = [job EXCEPT ![x] = row]
        PROVE  \A y \in Executors \ {x} : Same(job[y], job'[y])
    BY <1>1 DEF TypeInv, JobsTyped, Same
  <1>2. ASSUME NEW row, Logged(x, row)
        PROVE  \A y \in Executors \ {x} : Same(job[y], job'[y])
    <2>1. ASSUME NEW y \in Executors
          PROVE  Same(job[y], [job[y] EXCEPT !.behind = @ + 1])
      <3>1. job[y] \in Jobs
        BY DEF TypeInv, JobsTyped
      <3> QED BY <3>1 DEF Jobs, Same
    <2> QED BY <1>2, <2>1 DEF Logged, Same
  <1>3. CASE RunStep(x)
    BY <1>3, RunStepMoves DEF Moves, Acts
  <1>4. CASE Return(x) \/ End(x)
    BY <1>1, <1>4 DEF Return, End
  <1>5. CASE Tick(x) \/ Pick(x) \/ Insert(x)
    BY <1>1, <1>4, <1>5 DEF Tick, Pick, Insert, Goto
  <1>6. CASE Process(x) \/ Advance(x)
    BY <1>1, <1>4, <1>6 DEF Process, Advance
  <1>7. CASE Ask(x) \/ SetEnabled(x) \/ TakeRun(x)
    BY <1>1, <1>4, <1>7 DEF Ask, SetEnabled, TakeRun
  <1>8. CASE ResumedEvent(x) \/ Resume(x)
    BY <1>1, <1>2, <1>8 DEF ResumedEvent, Resume, Missed
  <1>9. CASE Die(x) \/ Raise(x)
    BY <1>1, <1>4, <1>9 DEF Die, Raise, Goto
  <1> QED BY <1>3, <1>5, <1>6, <1>7, <1>8, <1>9 DEF Beat, Serve

\* A step is that of someone, or leaves all memories alone.
LEMMA SomeoneActs ==
  ASSUME [Next]_vars
  PROVE  \/ UNCHANGED job
         \/ \E x \in Executors : \/ Die(x) \/ Raise(x)
                                 \/ x \in Tickers /\ Beat(x)
                                 \/ x \in Requests /\ (Ask(x) \/ Serve(x))
  BY Constants DEF Next, BecomesDue, GraceEnds, Flip, Expire, Outlive, ExpireRun, OutliveRun,
                   Regrade, vars

-----------------------------------------------------------------------------
(* The schedules. *)

\* A schedule moves when its claim is released, when it is claimed or by the owner.
Shifts(a) ==
    /\ automation'[a] \in Schedules
    /\ \/ automation'[a].claim = Nobody
       \/ automation'[a].next <= due /\ \E t \in Tickers : Pick(t)
       \/ /\ automation'[a].claim = automation[a].claim
          /\ automation'[a].next \in {automation[a].next, due + 1}

\* A written row of a schedule is typed, and where it moves the schedule to is known.
LEMMA ScheduleWritten ==
  ASSUME SchedulesTyped, NEW a \in Automations, NEW row \in Schedules,
         automation' = [automation EXCEPT ![a] = row],
         \/ row.claim = Nobody
         \/ row.next <= due /\ \E t \in Tickers : Pick(t)
         \/ row.claim = automation[a].claim /\ row.next \in {automation[a].next, due + 1}
  PROVE  SchedulesTyped' /\ \A b \in Automations : Shifts(b)
  <1>1. automation' \in [Automations -> Schedules] /\ automation'[a] = row
    BY DEF SchedulesTyped
  <1>2. \A b \in Automations : b # a => automation'[b] = automation[b]
    BY DEF SchedulesTyped
  <1>3. Shifts(a)
    BY <1>1 DEF Shifts
  <1>4. ASSUME NEW b \in Automations, b # a PROVE Shifts(b)
    BY <1>1, <1>2, <1>4 DEF Shifts
  <1> QED BY <1>1, <1>3, <1>4 DEF SchedulesTyped

\* A step that leaves the schedules alone moves none.
LEMMA ScheduleStays ==
  ASSUME SchedulesTyped, UNCHANGED automation
  PROVE  SchedulesTyped' /\ \A b \in Automations : Shifts(b)
  BY DEF SchedulesTyped, Shifts

\* What the two guarded writes of a heartbeat do to a schedule.
LEMMA AdvanceWrites ==
  ASSUME TypeInv, NEW t \in Tickers, NEW from, NEW to \in 1..(Occurrences + 2),
         Advanced(t, from, to) \/ Disabled(t)
  PROVE  SchedulesTyped' /\ \A b \in Automations : Shifts(b)
  <1> DEFINE a == job[t].a
             advanced == [automation[a] EXCEPT !.next = to, !.claim = Nobody, !.fresh = FALSE]
             disabled == [automation[a] EXCEPT !.enabled = FALSE, !.claim = Nobody, !.fresh = FALSE]
  <1>1. a \in Automations /\ automation[a] \in Schedules /\ SchedulesTyped
    BY Constants DEF TypeInv, JobsTyped, Jobs, SchedulesTyped
  <1>2. /\ advanced \in Schedules /\ advanced.claim = Nobody
        /\ disabled \in Schedules /\ disabled.claim = Nobody
    BY <1>1 DEF Schedules
  <1>3. \/ UNCHANGED automation
        \/ automation' = [automation EXCEPT ![a] = advanced]
        \/ automation' = [automation EXCEPT ![a] = disabled]
    BY DEF Advanced, Disabled
  <1> HIDE DEF a, advanced, disabled
  <1> QED BY <1>1, <1>2, <1>3, ScheduleWritten, ScheduleStays

\* What a heartbeat does to the schedules.
LEMMA BeatShifts ==
  ASSUME TypeInv, NEW t \in Tickers, Pick(t) \/ Process(t) \/ Advance(t)
  PROVE  SchedulesTyped' /\ \A b \in Automations : Shifts(b)
  <1> DEFINE j == job[t]
  <1>1. /\ SchedulesTyped /\ j \in Jobs /\ Remembers(t, j, due, late, run)
        /\ j.a \in Automations /\ j.o \in Times /\ j.due \in 0..Occurrences /\ j.due <= due
        /\ due \in 0..Occurrences
    BY Constants DEF TypeInv, JobsTyped, Jobs, Remembers, WorldTyped
  <1>2. CASE Pick(t)
    <2>1. CASE UNCHANGED automation
      BY <1>1, <2>1, ScheduleStays
    <2>2. ASSUME NEW a \in Automations, Claimable(a, j.due),
                 automation' = [automation EXCEPT ![a].claim = t, ![a].fresh = TRUE]
          PROVE  SchedulesTyped' /\ \A b \in Automations : Shifts(b)
      <3> DEFINE row == [automation[a] EXCEPT !.claim = t, !.fresh = TRUE]
      <3>1. automation' = [automation EXCEPT ![a] = row]
        BY <2>2
      <3>2. automation[a] \in Schedules
        BY <1>1 DEF SchedulesTyped
      <3>3. row \in Schedules /\ row.next = automation[a].next
        BY <3>2 DEF Schedules
      <3>4. row.next <= due
        BY SMTT(30), <1>1, <2>2, <3>2, <3>3, Constants DEF Claimable, Schedules
      <3> HIDE DEF row
      <3> QED BY <1>1, <1>2, <3>1, <3>3, <3>4, ScheduleWritten
    <2> QED BY <1>2, <2>1, <2>2 DEF Pick
  <1>3. CASE Process(t)
    <2> DEFINE o == automation[j.a].next
    <2>1. o \in 1..(Occurrences + 2)
      BY <1>1 DEF SchedulesTyped, Schedules
    <2>2. CASE UNCHANGED automation
      BY <1>1, <2>2, ScheduleStays
    <2>3. CASE Advanced(t, o, NextAfter(j.due))
      <3>1. NextAfter(j.due) \in 1..(Occurrences + 2)
        BY <1>1, Constants DEF NextAfter
      <3> QED BY <2>3, <3>1, AdvanceWrites
    <2>4. CASE Disabled(t)
      <3>1. 1 \in 1..(Occurrences + 2)
        BY Constants
      <3> QED BY <2>4, <3>1, AdvanceWrites
    <2>5. CASE Advanced(t, o, NextAfter(o)) /\ ~UNCHANGED automation
      <3>1. automation[j.a].claim = t /\ j.pc = "process"
        BY <1>3, <2>5 DEF Advanced, Process
      <3>2. o <= due + 1
        BY <3>1 DEF TypeInv, ClaimsTimely
      <3>3. NextAfter(o) \in 1..(Occurrences + 2)
        BY <1>1, <2>1, <3>2, Constants DEF NextAfter
      <3> QED BY <2>5, <3>3, AdvanceWrites
    <2> QED BY <1>3, <2>2, <2>3, <2>4, <2>5 DEF Process
  <1>4. CASE Advance(t)
    <2>1. NextAfter(j.o) \in 1..(Occurrences + 2)
      BY <1>1, Constants DEF NextAfter
    <2> QED BY <1>4, <2>1, AdvanceWrites DEF Advance
  <1> QED BY <1>2, <1>3, <1>4

\* What pause and continue do to them.
LEMMA OwnerShifts ==
  ASSUME TypeInv, NEW q \in Requests, SetEnabled(q)
  PROVE  SchedulesTyped' /\ \A b \in Automations : Shifts(b)
  <1> DEFINE a == job[q].a
             row == automation[a]
  <1>1. /\ SchedulesTyped /\ a \in Automations /\ row \in Schedules
        /\ NextAfter(due) \in 1..(Occurrences + 2) /\ NextAfter(due) = due + 1
    BY Constants DEF TypeInv, WorldTyped, JobsTyped, Jobs, SchedulesTyped, NextAfter
  <1>2. ASSUME NEW r \in Schedules
        PROVE  /\ Unclaimed(q, r) \in Schedules
               /\ Unclaimed(q, r).claim \in {Nobody, r.claim} /\ Unclaimed(q, r).next = r.next
    <2>1. CASE job[q].read.claim = Nobody
      BY <2>1 DEF Unclaimed
    <2>2. CASE job[q].read.claim # Nobody
      BY <2>2 DEF Unclaimed, Schedules
    <2> QED BY <2>1, <2>2
  <1>3. Off(q, row) \in Schedules /\ Off(q, row).claim = row.claim /\ Off(q, row).next = row.next
    BY <1>1 DEF Off, Schedules
  <1>4. /\ On(q, row) \in Schedules /\ On(q, row).claim = row.claim
        /\ On(q, row).next \in {row.next, due + 1}
    BY <1>1 DEF On, Schedules
  <1>5. PICK next \in {row, Unclaimed(q, Off(q, row)), Unclaimed(q, On(q, row))} :
           automation' = [automation EXCEPT ![a] = next]
    BY DEF SetEnabled
  <1>6. /\ next \in Schedules /\ next.claim \in {Nobody, automation[a].claim}
        /\ next.next \in {automation[a].next, due + 1}
    BY <1>1, <1>2, <1>3, <1>4, <1>5
  <1> HIDE DEF a, row
  <1> QED BY <1>1, <1>5, <1>6, ScheduleWritten

\* The actions that write schedules.
LEMMA WhoReschedules ==
  ASSUME [Next]_vars
  PROVE  \/ UNCHANGED automation
         \/ \E t \in Tickers : Pick(t) \/ Process(t) \/ Advance(t)
         \/ \E q \in Requests : SetEnabled(q)
         \/ \E a \in Automations : Expire(a) \/ Outlive(a)
  <1>1. ASSUME NEW x, RunStep(x) PROVE UNCHANGED automation
    BY <1>1 DEF RunStep, Event, AskModel, Finish, Leave, Inflight, Call, Validate, StartBatch,
                Persist, Refused, Complete, Failing, Fail, FailedEvent
  <1> QED BY <1>1 DEF Next, Beat, Serve, Tick, Insert, Ask, TakeRun, ResumedEvent, Resume, Die,
                      Raise, BecomesDue, GraceEnds, Flip, ExpireRun, OutliveRun, Regrade, vars

\* Every step leaves the schedules typed.
LEMMA SchedulesStep ==
  ASSUME TypeInv, [Next]_vars
  PROVE  SchedulesTyped' /\ \A a \in Automations : Shifts(a)
  <1>1. SchedulesTyped
    BY DEF TypeInv
  <1>2. CASE UNCHANGED automation
    BY <1>1, <1>2, ScheduleStays
  <1>3. ASSUME NEW a \in Automations, Expire(a) \/ Outlive(a)
        PROVE  SchedulesTyped' /\ \A b \in Automations : Shifts(b)
    <2> DEFINE row == [automation[a] EXCEPT !.fresh = FALSE]
    <2>1. automation' = [automation EXCEPT ![a] = row]
      BY <1>3 DEF Expire, Outlive
    <2>2. automation[a] \in Schedules
      BY <1>1 DEF SchedulesTyped
    <2>3. row \in Schedules /\ row.next = automation[a].next /\ row.claim = automation[a].claim
      BY <2>2 DEF Schedules
    <2> HIDE DEF row
    <2> QED BY <1>1, <2>1, <2>3, ScheduleWritten
  <1> QED BY <1>2, <1>3, BeatShifts, OwnerShifts, WhoReschedules

\* Where a heartbeat that looks at its claim comes from.
LEMMA ProcessComesFrom ==
  ASSUME TypeInv, [Next]_vars, NEW t \in Tickers, job'[t].pc = "process"
  PROVE  \/ job[t].pc = "process" /\ job[t].a = job'[t].a
         \/ automation'[job'[t].a].next <= due
  <1> DEFINE j == job[t]
             k == job'[t]
             Goal == \/ j.pc = "process" /\ j.a = k.a
                     \/ automation'[k.a].next <= due
  <1>1. /\ t \in Executors /\ j \in Jobs /\ job \in [Executors -> Jobs]
        /\ j.due \in Nat /\ j.due <= due /\ due \in Nat /\ SchedulesTyped
    BY Constants, Clocks DEF TypeInv, JobsTyped, Jobs, Remembers
  <1>2. CASE Same(j, k)
    BY <1>2 DEF Same
  <1>3. CASE Return(t) \/ End(t)
    <2>1. k.pc \in {"idle", "pick"}
      BY <1>1, <1>3, Returns, InitialRows DEF Leaves
    <2> QED BY <2>1
  <1>4. CASE RunStep(t)
    <2>1. Moves(t)
      BY <1>1, <1>4, RunStepMoves
    <2>2. k.pc # "process"
      BY <2>1, InitialRows DEF Moves, Leaves
    <2> QED BY <2>2
  <1>5. CASE Pick(t)
    <2>1. CASE End(t)
      BY <1>3, <2>1
    <2>2. ASSUME NEW a \in Automations, Claimable(a, j.due),
                 automation' = [automation EXCEPT ![a].claim = t, ![a].fresh = TRUE],
                 job' = [job EXCEPT ![t].pc = "process", ![t].a = a]
          PROVE  Goal
      <3>1. k.a = a
        BY <1>1, <2>2 DEF Jobs
      <3>2. automation[a] \in Schedules
        BY <1>1 DEF SchedulesTyped
      <3>3. automation'[a].next = automation[a].next
        BY <1>1, <2>2, <3>2 DEF SchedulesTyped, Schedules
      <3>4. automation[a].next <= due
        BY <1>1, <2>2, <3>2, Constants DEF Claimable, Schedules
      <3> QED BY <3>1, <3>3, <3>4
    <2> QED BY <1>5, <2>1, <2>2 DEF Pick
  <1>6. CASE Tick(t) \/ Process(t) \/ Insert(t) \/ Advance(t)
    <2>1. ~(Return(t) \/ End(t)) => k.pc \in {"pick", "insert", "advance", "step"}
      <3>1. CASE Tick(t)
        <4> DEFINE row == [Idle EXCEPT !.pc = "pick", !.due = due, !.late = late]
        <4>1. row.pc = "pick"
          BY InitialRows DEF Jobs
        <4>2. job' = [job EXCEPT ![t] = row]
          BY <3>1 DEF Tick
        <4> HIDE DEF row
        <4> QED BY <1>1, <4>1, <4>2
      <3>2. CASE Process(t)
        BY <1>1, <3>2 DEF Process, Jobs
      <3>3. CASE Insert(t)
        BY <1>1, <3>3 DEF Insert, Goto, Jobs
      <3>4. CASE Advance(t)
        BY <3>4 DEF Advance
      <3> QED BY <1>6, <3>1, <3>2, <3>3, <3>4
    <2> QED BY <1>3, <2>1
  <1>7. CASE Die(t) \/ Raise(t)
    <2>1. CASE End(t)
      BY <1>3, <2>1
    <2>2. CASE Goto(t, "failing")
      BY <1>1, <2>2 DEF Goto, Jobs
    <2> QED BY <1>7, <2>1, <2>2 DEF Die, Raise
  <1>8. CASE UNCHANGED job
    BY <1>8
  <1>9. ASSUME NEW x \in Executors, x # t,
               \/ Die(x) \/ Raise(x)
               \/ x \in Tickers /\ Beat(x)
               \/ x \in Requests /\ (Ask(x) \/ Serve(x))
        PROVE  Goal
    <2>1. Same(j, k)
      BY <1>1, <1>9, OthersStay
    <2> QED BY <1>2, <2>1
  <1>10. CASE Die(t) \/ Raise(t) \/ Beat(t)
    BY <1>4, <1>5, <1>6, <1>7, <1>10 DEF Beat
  <1>11. t \notin Requests
    BY Constants
  <1> QED BY <1>8, <1>9, <1>10, <1>11, SomeoneActs

\* No step breaks ClaimsTimely.
LEMMA ClaimsStep ==
  ASSUME TypeInv, [Next]_vars
  PROVE  ClaimsTimely'
  <1> SUFFICES ASSUME NEW t \in Tickers, job'[t].pc = "process",
                      automation'[job'[t].a].claim = t
               PROVE  automation'[job'[t].a].next <= due' + 1
    BY DEF ClaimsTimely
  <1> DEFINE a == job'[t].a
  <1>1. /\ a \in Automations /\ due \in Nat /\ due' \in Nat /\ due <= due'
        /\ automation[a] \in Schedules /\ automation'[a] \in Schedules /\ Shifts(a)
    BY JobsStep, SchedulesStep, Clocks, Constants DEF TypeInv, SchedulesTyped, JobsTyped, Jobs
  <1>2. automation[a].next \in Nat /\ automation'[a].next \in Nat
    BY <1>1, Constants DEF Schedules
  <1>3. CASE automation'[a].next <= due
    BY <1>1, <1>2, <1>3
  <1>4. CASE /\ automation'[a].claim = automation[a].claim
             /\ automation'[a].next \in {automation[a].next, due + 1}
    <2>1. CASE job[t].pc = "process" /\ job[t].a = a
      <3>1. automation[a].next <= due + 1
        BY <1>4, <2>1 DEF TypeInv, ClaimsTimely
      <3>2. automation'[a].next <= due' + 1
        <4> HIDE DEF a
        <4> QED BY <1>1, <1>2, <1>4, <3>1
      <3> QED BY <3>2
    <2> QED BY <1>3, <2>1, ProcessComesFrom
  <1> QED BY <1>1, <1>3, <1>4, Constants DEF Shifts

\* The model is called in a run only.
LEMMA CallsStep ==
  ASSUME TypeInv, [Next]_vars
  PROVE  /\ CallsTyped'
         /\ \/ UNCHANGED calls
            \/ \E x \in Executors : /\ AskModel(x) \/ Call(x)
                                    /\ calls' = [calls EXCEPT ![job[x].a][job[x].o] = @ + 1]
  <1>1. \/ UNCHANGED calls
        \/ \E x \in Executors : AskModel(x) \/ Call(x)
    <2>1. ASSUME NEW x \in Executors, RunStep(x)
          PROVE UNCHANGED calls \/ AskModel(x) \/ Call(x)
      BY <2>1 DEF RunStep, Event, Finish, Leave, Inflight, Validate, StartBatch, Persist, Refused,
                  Complete, Failing, Fail, FailedEvent
    <2> QED BY ZenonT(40), <2>1, Constants DEF Next, Beat, Serve, Tick, Pick, Process, Insert, Advance, Ask,
                        SetEnabled, TakeRun, ResumedEvent, Resume, Die, Raise, BecomesDue,
                        GraceEnds, Flip, Expire, Outlive, ExpireRun, OutliveRun, Regrade, vars
  <1>2. CallsTyped
    BY DEF TypeInv
  <1>3. CASE UNCHANGED calls
    BY <1>2, <1>3 DEF CallsTyped
  <1>4. ASSUME NEW x \in Executors, AskModel(x) \/ Call(x), ~UNCHANGED calls
        PROVE  CallsTyped' /\ calls' = [calls EXCEPT ![job[x].a][job[x].o] = @ + 1]
    <2>1. calls' = [calls EXCEPT ![job[x].a][job[x].o] = @ + 1]
      BY <1>4 DEF AskModel, Call
    <2>2. job[x].a \in Automations /\ job[x].o \in Times
      BY DEF TypeInv, JobsTyped, Jobs
    <2>3. calls[job[x].a][job[x].o] + 1 \in Nat
      BY <1>2, <2>2 DEF CallsTyped
    <2> QED BY <1>2, <2>1, <2>2, <2>3 DEF CallsTyped
  <1> QED BY <1>1, <1>3, <1>4

-----------------------------------------------------------------------------
(* Every state has its type. *)

\* TypeInv is an invariant: every action finds the rows and the memory it uses.
LEMMA TypeInvCorrect == Spec => []TypeInv
  <1>1. ASSUME Init PROVE TypeInv
    <2>1. WorldTyped
      BY <1>1, Constants DEF Init, WorldTyped
    <2>2. SchedulesTyped
      <3>1. PICK paused \in SUBSET Automations :
               automation = [a \in Automations |-> [Created EXCEPT !.enabled = a \notin paused]]
        BY <1>1 DEF Init
      <3>2. ASSUME NEW a \in Automations
            PROVE  [Created EXCEPT !.enabled = a \notin paused] \in Schedules
        BY InitialRows DEF Schedules
      <3> QED BY <3>1, <3>2 DEF SchedulesTyped
    <2>3. RunsTyped
      <3>1. run = [a \in Automations |-> [o \in Times |-> NoRun]]
        BY <1>1 DEF Init
      <3> QED BY <3>1, InitialRows DEF RunsTyped
    <2>4. CallsTyped
      BY <1>1 DEF Init, CallsTyped
    <2>5. job = [x \in Executors |-> Idle] /\ due = 0 /\ late = 0
      BY <1>1 DEF Init
    <2>6. JobsTyped
      <3>1. ASSUME NEW x \in Executors PROVE Remembers(x, Idle, due, late, run)
        BY <2>5, InitialRows DEF Remembers, InRun, Engaged
      <3> QED BY <2>5, <3>1, InitialRows DEF JobsTyped
    <2>7. ClaimsTimely
      BY <2>5, InitialRows, Constants DEF ClaimsTimely
    <2> QED BY <2>1, <2>2, <2>3, <2>4, <2>6, <2>7 DEF TypeInv
  <1>2. TypeInv /\ [Next]_vars => TypeInv'
    <2>1. ASSUME TypeInv, [Next]_vars PROVE RunsTyped'
      BY <2>1, AllGrow DEF RunsGrow
    <2> QED BY <2>1, WorldStep, SchedulesStep, CallsStep, JobsStep, ClaimsStep DEF TypeInv
  <1> QED BY <1>1, <1>2, PTL DEF Spec

\* Every variable has its type, whoever acts and dies, and no schedule points beyond the
\* second occurrence from the last that became due.
THEOREM TypeCorrect == Spec => []TypeOK
  <1>1. TypeInv => TypeOK
    <2> SUFFICES ASSUME TypeInv PROVE TypeOK
      OBVIOUS
    <2>1. ASSUME NEW a \in Automations, NEW o \in Times
          PROVE  /\ run[a][o].phase \in Phases
                 /\ run[a][o].status \in {"none", "running", "failed", "completed"}
                 /\ run[a][o].claim \in Requests \cup {Nobody} /\ run[a][o].artifacts \in 0..1
                 /\ run[a][o].kept \in BOOLEAN
      <3>1. run[a][o] \in Runs
        BY DEF TypeInv, RunsTyped
      <3> QED BY <3>1 DEF Runs
    <2>2. ASSUME NEW x \in Executors
          PROVE  job[x].pos \in DOMAIN DraftScript /\ job[x].done \in 0..PerTick
      <3>1. job[x] \in Jobs
        BY DEF TypeInv, JobsTyped
      <3> QED BY <3>1, Scripts DEF Jobs
    <2>3. automation \in [Automations -> [enabled : BOOLEAN, next : 1..(Occurrences + 2),
                                          claim : Tickers \cup {Nobody}, fresh : BOOLEAN]]
      BY DEF TypeInv, SchedulesTyped, Schedules
    <2> QED BY <2>1, <2>2, <2>3 DEF TypeInv, WorldTyped, TypeOK
  <1> QED BY <1>1, TypeInvCorrect, PTL

-----------------------------------------------------------------------------
(* An occurrence is run once. *)

\* Whether who is at this step has the call of the model still before it.
Before(j) == j.pc = "step" /\ j.pos <= IF skill[j.a] = "attention" THEN 3 ELSE 4

\* Nothing was called for a run that does not exist; one heartbeat at most goes through the
\* steps of a run, and until it calls nobody has.  Requests come in after the call.
CallsFollow ==
    \A a \in Automations, o \in Times :
        /\ calls[a][o] <= 1
        /\ run[a][o].phase = "none" => calls[a][o] = 0

OneRunner ==
    \A t, u \in Tickers :
        job[t].pc = "step" /\ job[u].pc = "step" /\ job[t].a = job[u].a /\ job[t].o = job[u].o
          => t = u

NotCalledYet == \A t \in Tickers : Before(job[t]) => calls[job[t].a][job[t].o] = 0

CompletedHave ==
    \A a \in Automations, o \in Times :
        run[a][o].status = "completed" /\ skill[a] # "attention" => run[a][o].artifacts = 1

OnceInv == CallsFollow /\ OneRunner /\ NotCalledYet /\ CompletedHave

\* Where a heartbeat at a step comes from.
LEMMA StepComesFrom ==
  ASSUME TypeInv, [Next]_vars, NEW t \in Tickers, job'[t].pc = "step"
  PROVE  \/ Same(job[t], job'[t])
         \/ /\ RunStep(t) /\ Stays(t) /\ job[t].pc = "step" /\ job'[t].pos = job[t].pos + 1
         \/ /\ Stays(t) /\ run[job[t].a][job[t].o].phase = "none"
            /\ UNCHANGED calls /\ \A x \in Executors \ {t} : Same(job[x], job'[x])
  <1> DEFINE j == job[t]
             k == job'[t]
             Goal == \/ Same(j, k)
                     \/ RunStep(t) /\ Stays(t) /\ j.pc = "step" /\ k.pos = j.pos + 1
                     \/ /\ Stays(t) /\ run[j.a][j.o].phase = "none"
                        /\ UNCHANGED calls /\ \A x \in Executors \ {t} : Same(job[x], job'[x])
  <1>1. t \in Executors /\ j \in Jobs /\ job \in [Executors -> Jobs] /\ t \notin Requests
    BY Constants DEF TypeInv, JobsTyped
  <1>2. CASE Return(t) \/ End(t)
    <2>1. k.pc # "step"
      BY <1>1, <1>2, Returns, InitialRows DEF Leaves
    <2> QED BY <2>1
  <1>3. CASE RunStep(t)
    <2>1. Moves(t)
      BY <1>1, <1>3, RunStepMoves
    <2>2. k.pc = "step"
      OBVIOUS
    <2>3. ~Leaves(t)
      BY <2>2, InitialRows DEF Leaves
    <2>4. Stays(t) /\ j.pc = "step" /\ k.pos = j.pos + 1
      BY <2>1, <2>2, <2>3 DEF Moves
    <2> QED BY <1>3, <2>4
  <1>4. CASE Insert(t)
    <2>1. CASE Goto(t, "advance")
      <3>1. k.pc = "advance"
        BY <1>1, <2>1 DEF Goto, Jobs
      <3> QED BY <3>1
    <2>2. CASE Goto(t, "step") /\ ~Exists(j.a, j.o)
      <3>1. Stays(t)
        BY <1>1, <2>2 DEF Goto, Jobs, Stays
      <3>2. run[j.a][j.o].phase = "none"
        BY <2>2, InitialRows DEF Exists
      <3>3. \A x \in Executors \ {t} : Same(job[x], job'[x])
        BY <1>1, <2>2 DEF Goto, Same
      <3> QED BY <1>4, <3>1, <3>2, <3>3 DEF Insert
    <2> QED BY <1>4, <2>1, <2>2 DEF Insert
  <1>5. CASE Tick(t) \/ Pick(t) \/ Process(t) \/ Advance(t) \/ Die(t) \/ Raise(t)
    <2>1. ~(Return(t) \/ End(t)) => k.pc # "step"
      <3>1. CASE Tick(t)
        <4> DEFINE row == [Idle EXCEPT !.pc = "pick", !.due = due, !.late = late]
        <4>1. row.pc = "pick"
          BY InitialRows DEF Jobs
        <4>2. job' = [job EXCEPT ![t] = row]
          BY <3>1 DEF Tick
        <4> HIDE DEF row
        <4> QED BY <1>1, <4>1, <4>2
      <3>2. CASE Pick(t)
        BY ZenonT(40), <1>1, <3>2 DEF Pick, Jobs
      <3>3. CASE Process(t)
        BY <1>1, <3>3 DEF Process, Jobs
      <3>4. CASE Advance(t) \/ Die(t)
        BY <3>4 DEF Advance, Die
      <3>5. CASE Raise(t)
        BY <1>1, <3>5 DEF Raise, Goto, Jobs
      <3> QED BY <1>5, <3>1, <3>2, <3>3, <3>4, <3>5
    <2> QED BY <1>2, <2>1
  <1>6. CASE UNCHANGED job
    BY <1>6 DEF Same
  <1>7. ASSUME NEW x \in Executors, x # t,
               \/ Die(x) \/ Raise(x)
               \/ x \in Tickers /\ Beat(x)
               \/ x \in Requests /\ (Ask(x) \/ Serve(x))
        PROVE  Goal
    BY <1>1, <1>7, OthersStay
  <1>8. CASE Die(t) \/ Raise(t) \/ Beat(t)
    BY <1>3, <1>4, <1>5, <1>8 DEF Beat
  <1> QED BY <1>1, <1>6, <1>7, <1>8, SomeoneActs

\* Only a heartbeat calls, at its one step for it, and is past that step then.
LEMMA Calling ==
  ASSUME TypeInv, NEW x \in Executors, AskModel(x) \/ Call(x)
  PROVE  /\ x \in Tickers /\ Before(job[x])
         /\ job[x].a \in Automations /\ job[x].o \in Times
         /\ job'[x].pc = "step" => job'[x].a = job[x].a /\
                                   job'[x].pos > IF skill[job[x].a] = "attention" THEN 3 ELSE 4
  <1>1. /\ job[x] \in Jobs /\ Remembers(x, job[x], due, late, run) /\ Moves(x)
    BY RunStepMoves DEF TypeInv, JobsTyped, RunStep
  <1>2. job[x].pos \in Nat /\ job[x].a \in Automations /\ job[x].o \in Times
    BY <1>1 DEF Jobs
  <1>3. job'[x].pc = "step" => job'[x].pos = job[x].pos + 1 /\ job'[x].a = job[x].a
    <2>1. Leaves(x) => job'[x].pc # "step"
      BY InitialRows DEF Leaves
    <2> QED BY <1>1, <2>1 DEF Moves, Stays
  <1>4. CASE AskModel(x)
    <2>1. AtStep(x, "ask")
      BY <1>4 DEF AskModel
    <2>2. skill[job[x].a] = "attention" /\ job[x].pos = 3 /\ x \in Tickers /\ job[x].pc = "step"
      <3>1. skill[job[x].a] = "attention"
        BY <2>1, AtSteps, Scripts
      <3> QED BY <2>1, <3>1, AtSteps, Scripts
    <2> QED BY <1>2, <1>3, <2>2 DEF Before
  <1>5. CASE Call(x)
    <2>1. AtStep(x, "call")
      BY <1>5 DEF Call
    <2>2. skill[job[x].a] # "attention" /\ job[x].pos = 4 /\ job[x].pc = "step"
      <3>1. skill[job[x].a] # "attention"
        BY <2>1, AtSteps, Scripts
      <3> QED BY <2>1, <3>1, AtSteps, Scripts
    <2>3. x \in Tickers
      BY <1>1, <2>2, Constants DEF Remembers
    <2> QED BY <1>2, <1>3, <2>2, <2>3 DEF Before
  <1> QED BY <1>4, <1>5

\* One runner for each occurrence, and no call before it stands at the call: no step breaks it.
LEMMA OnceStep ==
  ASSUME TypeInv, OnceInv, [Next]_vars
  PROVE  OnceInv'
  <1>1. /\ \A a \in Automations, o \in Times : calls[a][o] \in Nat
        /\ calls \in [Automations -> [Times -> Nat]] /\ skill' = skill
        /\ \A t \in Tickers : /\ t \in Executors /\ job[t].a \in Automations /\ job[t].o \in Times
                              /\ job[t].pos \in Nat
                              /\ job[t].pc = "step" => run[job[t].a][job[t].o].phase # "none"
    <2>1. ASSUME NEW t \in Tickers
          PROVE  /\ t \in Executors /\ job[t].a \in Automations /\ job[t].o \in Times
                 /\ job[t].pos \in Nat
                 /\ job[t].pc = "step" => run[job[t].a][job[t].o].phase # "none"
      <3>1. t \in Executors /\ job[t] \in Jobs /\ Remembers(t, job[t], due, late, run)
        BY Constants DEF TypeInv, JobsTyped
      <3> QED BY <3>1 DEF Jobs, Remembers, Engaged, InRun
    <2> QED BY <2>1, Clocks DEF TypeInv, CallsTyped
  <1>2. ASSUME NEW x \in Executors, AskModel(x) \/ Call(x),
               calls' = [calls EXCEPT ![job[x].a][job[x].o] = @ + 1]
        PROVE  /\ x \in Tickers /\ job[x].pc = "step"
               /\ calls[job[x].a][job[x].o] = 0 /\ calls'[job[x].a][job[x].o] = 1
               /\ \A a \in Automations, o \in Times :
                     a # job[x].a \/ o # job[x].o => calls'[a][o] = calls[a][o]
    <2>1. /\ x \in Tickers /\ Before(job[x]) /\ job[x].a \in Automations /\ job[x].o \in Times
      BY <1>2, Calling
    <2>2. calls[job[x].a][job[x].o] = 0
      BY <2>1 DEF OnceInv, NotCalledYet
    <2> QED BY <1>1, <1>2, <2>1, <2>2 DEF Before
  <1>3. CallsFollow'
    <2> SUFFICES ASSUME NEW a \in Automations, NEW o \in Times
                 PROVE  calls'[a][o] <= 1 /\ (run'[a][o].phase = "none" => calls'[a][o] = 0)
      BY DEF CallsFollow
    <2>1. calls[a][o] <= 1 /\ (run[a][o].phase = "none" => calls[a][o] = 0)
      BY DEF OnceInv, CallsFollow
    <2>2. run'[a][o].phase = "none" => run[a][o].phase = "none"
      BY AllGrow DEF Grows
    <2>3. CASE UNCHANGED calls
      BY <2>1, <2>2, <2>3
    <2>4. ASSUME NEW x \in Executors, AskModel(x) \/ Call(x),
                 calls' = [calls EXCEPT ![job[x].a][job[x].o] = @ + 1]
          PROVE  calls'[a][o] <= 1 /\ (run'[a][o].phase = "none" => calls'[a][o] = 0)
      <3>1. CASE a = job[x].a /\ o = job[x].o
        <4>1. run[a][o].phase # "none"
          BY <1>1, <1>2, <2>4, <3>1
        <4>2. calls'[a][o] = 1
          BY <1>2, <2>4, <3>1
        <4> QED BY <2>2, <4>1, <4>2
      <3>2. CASE a # job[x].a \/ o # job[x].o
        <4>1. calls'[a][o] = calls[a][o]
          BY <1>2, <2>4, <3>2
        <4> QED BY <2>1, <2>2, <4>1
      <3> QED BY <3>1, <3>2
    <2> QED BY <2>3, <2>4, CallsStep
  <1>4. OneRunner'
    <2> SUFFICES ASSUME NEW t \in Tickers, NEW u \in Tickers, t # u,
                        job'[t].pc = "step", job'[u].pc = "step",
                        job'[t].a = job'[u].a, job'[t].o = job'[u].o
                 PROVE  FALSE
      BY DEF OneRunner
    <2>1. ASSUME NEW v \in Tickers, NEW w \in Tickers, v # w,
                 job'[v].a = job'[w].a, job'[v].o = job'[w].o,
                 job'[w].pc = "step",
                 Stays(v), run[job[v].a][job[v].o].phase = "none",
                 \A x \in Executors \ {v} : Same(job[x], job'[x])
          PROVE  FALSE
      <3>1. Same(job[w], job'[w])
        BY <1>1, <2>1
      <3>2. job[w].pc = "step" /\ job[w].a = job[v].a /\ job[w].o = job[v].o
        BY <2>1, <3>1 DEF Same, Stays
      <3> QED BY <1>1, <2>1, <3>2
    <2>2. ASSUME NEW v \in Tickers, job'[v].pc = "step",
                 Same(job[v], job'[v]) \/ (Stays(v) /\ job[v].pc = "step")
          PROVE  job[v].pc = "step" /\ job'[v].a = job[v].a /\ job'[v].o = job[v].o
      BY <2>2 DEF Same, Stays
    <2>3. \A v \in {t, u} : Same(job[v], job'[v]) \/ (Stays(v) /\ job[v].pc = "step")
      BY <2>1, StepComesFrom
    <2>4. \A v \in {t, u} : job[v].pc = "step" /\ job'[v].a = job[v].a /\ job'[v].o = job[v].o
      BY <2>2, <2>3
    <2> QED BY <2>4 DEF OnceInv, OneRunner
  <1>5. NotCalledYet'
    <2> SUFFICES ASSUME NEW t \in Tickers, Before(job[t])'
                 PROVE  calls'[job'[t].a][job'[t].o] = 0
      BY DEF NotCalledYet
    <2>0. job'[t].pc = "step" /\ job'[t].pos <= IF skill[job'[t].a] = "attention" THEN 3 ELSE 4
      BY <1>1 DEF Before
    <2>1. CASE /\ Stays(t) /\ run[job[t].a][job[t].o].phase = "none" /\ UNCHANGED calls
      <3>1. calls[job[t].a][job[t].o] = 0
        BY <1>1, <2>1 DEF OnceInv, CallsFollow
      <3> QED BY <2>1, <3>1 DEF Stays
    <2>2. CASE \/ Same(job[t], job'[t])
               \/ Stays(t) /\ job[t].pc = "step" /\ job'[t].pos = job[t].pos + 1
      <3>1. /\ job[t].pc = "step" /\ job'[t].a = job[t].a /\ job'[t].o = job[t].o
            /\ job[t].pos <= job'[t].pos /\ job'[t].pos \in Nat
        BY <1>1, <2>0, <2>2 DEF Same, Stays
      <3>2. job[t].pos <= IF skill[job[t].a] = "attention" THEN 3 ELSE 4
        BY <1>1, <2>0, <3>1
      <3>3. calls[job[t].a][job[t].o] = 0
        BY <3>1, <3>2 DEF Before, OnceInv, NotCalledYet
      <3>4. ASSUME NEW x \in Executors, AskModel(x) \/ Call(x),
                   calls' = [calls EXCEPT ![job[x].a][job[x].o] = @ + 1]
            PROVE  calls'[job[t].a][job[t].o] = 0
        <4>1. CASE job[t].a = job[x].a /\ job[t].o = job[x].o
          <5>1. x = t
            BY <1>2, <3>1, <3>4, <4>1 DEF OnceInv, OneRunner
          <5>2. job'[t].pos > IF skill[job[t].a] = "attention" THEN 3 ELSE 4
            BY <2>0, <3>4, <5>1, Calling
          <5> QED BY <2>0, <3>1, <5>2
        <4>2. CASE job[t].a # job[x].a \/ job[t].o # job[x].o
          BY SMTT(30), <1>1, <1>2, <3>3, <3>4, <4>2
        <4> QED BY <4>1, <4>2
      <3> QED BY <3>1, <3>3, <3>4, CallsStep
    <2> QED BY <2>0, <2>1, <2>2, StepComesFrom
  <1>6. CompletedHave'
    <2> SUFFICES ASSUME NEW a \in Automations, NEW o \in Times,
                        run'[a][o].status = "completed", skill[a] # "attention"
                 PROVE  run'[a][o].artifacts = 1
      BY <1>1 DEF CompletedHave
    <2>1. Fate(a, run[a][o], run'[a][o])
      BY AllGrow DEF RunsGrow
    <2> QED BY <2>1 DEF Fate, OnceInv, CompletedHave
  <1> QED BY <1>3, <1>4, <1>5, <1>6 DEF OnceInv

\* Whoever takes over, dies or resumes, an occurrence asks the model at most once, its
\* drafts are written once, and a run of drafts that completed has them.
THEOREM OnceCorrect == Spec => []RunOnce
  <1>1. ASSUME Init PROVE OnceInv
    <2>1. /\ calls = [a \in Automations |-> [o \in Times |-> 0]]
          /\ run = [a \in Automations |-> [o \in Times |-> NoRun]]
          /\ job = [x \in Executors |-> Idle]
      BY <1>1 DEF Init
    <2>2. NoRun.status = "none"
      BY DEF NoRun
    <2> QED BY <2>1, <2>2, InitialRows, Constants
            DEF OnceInv, CallsFollow, OneRunner, NotCalledYet, CompletedHave, Before
  <1>2. TypeInv /\ OnceInv /\ [Next]_vars => OnceInv'
    BY OnceStep
  <1>3. TypeInv /\ OnceInv => RunOnce
    <2> SUFFICES ASSUME TypeInv, OnceInv, NEW a \in Automations, NEW o \in Times
                 PROVE  /\ calls[a][o] <= 1 /\ run[a][o].artifacts <= 1
                        /\ run[a][o].status = "completed" /\ skill[a] # "attention"
                             => run[a][o].artifacts = 1
      BY DEF RunOnce
    <2>1. run[a][o] \in Runs
      BY DEF TypeInv, RunsTyped
    <2>2. run[a][o].artifacts \in 0..1
      BY <2>1 DEF Runs
    <2> QED BY <2>2 DEF OnceInv, CallsFollow, CompletedHave
  <1> QED BY <1>1, <1>2, <1>3, TypeInvCorrect, PTL DEF Spec

-----------------------------------------------------------------------------
(* No occurrence is skipped. *)

\* Whoever carries an occurrence to its end.
Carrying == Engaged \cup {"insert"}

\* What is carried exists, and its schedule has not gone back.
CarriedExist == \A t \in Tickers : job[t].pc \in Carrying => job[t].o <= due + 1

CarriedNext ==
    \A t \in Tickers :
        job[t].pc \in Carrying /\ automation[job[t].a].claim = t => automation[job[t].a].next >= job[t].o

CarryInv == CarriedExist /\ CarriedNext

\* An occurrence that a heartbeat carries was the next of its schedule when it was taken.
LEMMA CarriedComesFrom ==
  ASSUME TypeInv, [Next]_vars, NEW t \in Tickers, job'[t].pc \in Carrying
  PROVE  \/ job[t].pc \in Carrying /\ job'[t].a = job[t].a /\ job'[t].o = job[t].o
         \/ /\ UNCHANGED automation /\ job'[t].o = automation[job'[t].a].next
            /\ job'[t].o <= due + 1
  <1> DEFINE j == job[t]
             k == job'[t]
             Goal == \/ j.pc \in Carrying /\ k.a = j.a /\ k.o = j.o
                     \/ /\ UNCHANGED automation /\ k.o = automation[k.a].next
                        /\ k.o <= due + 1
  <1>1. t \in Executors /\ j \in Jobs /\ job \in [Executors -> Jobs] /\ t \notin Requests
    BY Constants DEF TypeInv, JobsTyped
  <1>2. k.pc \notin {"idle", "pick", "process"} /\ InRun \cup {"insert"} \subseteq Carrying
    BY DEF Carrying, Engaged, InRun
  <1>3. CASE Return(t) \/ End(t)
    <2>1. k.pc \in {"idle", "pick"}
      BY <1>1, <1>3, Returns, InitialRows DEF Leaves
    <2> QED BY <1>2, <2>1
  <1>4. CASE RunStep(t)
    <2>1. Moves(t) /\ j.pc \in InRun
      BY <1>1, <1>4, RunStepMoves
    <2>2. ~Leaves(t)
      BY <1>2, InitialRows DEF Leaves
    <2> QED BY <1>2, <2>1, <2>2 DEF Moves, Stays
  <1>5. CASE Insert(t)
    <2>1. j.pc = "insert" /\ k.a = j.a /\ k.o = j.o
      BY <1>1, <1>5 DEF Insert, Goto, Jobs
    <2> QED BY <1>2, <2>1
  <1>6. CASE Process(t)
    <2>1. CASE Return(t)
      BY <1>3, <2>1
    <2>2. CASE ~Return(t)
      <3>1. /\ job' = [job EXCEPT ![t].pc = "insert", ![t].o = automation[j.a].next]
            /\ j.pc = "process" /\ automation[j.a].claim = t /\ UNCHANGED automation
        BY <1>6, <2>2 DEF Process
      <3>2. k.a = j.a /\ k.o = automation[j.a].next
        BY <1>1, <3>1 DEF Jobs
      <3>3. automation[j.a].next <= due + 1
        BY <3>1 DEF TypeInv, ClaimsTimely
      <3> QED BY <3>1, <3>2, <3>3
    <2> QED BY <2>1, <2>2
  <1>7. CASE Tick(t) \/ Pick(t) \/ Advance(t) \/ Die(t)
    <2>1. CASE Tick(t)
      <3> DEFINE row == [Idle EXCEPT !.pc = "pick", !.due = due, !.late = late]
      <3>1. row.pc = "pick"
        BY InitialRows DEF Jobs
      <3>2. job' = [job EXCEPT ![t] = row]
        BY <2>1 DEF Tick
      <3> HIDE DEF row
      <3> QED BY <1>1, <1>2, <3>1, <3>2
    <2>2. CASE Pick(t)
      <3>1. \/ End(t)
            \/ \E a \in Automations : job' = [job EXCEPT ![t].pc = "process", ![t].a = a]
        BY <2>2 DEF Pick
      <3>2. End(t) \/ k.pc = "process"
        BY <1>1, <3>1 DEF Jobs
      <3> QED BY <1>2, <1>3, <3>2
    <2> QED BY <1>3, <1>7, <2>1, <2>2 DEF Advance, Die
  <1>8. CASE Raise(t)
    <2>1. j.pc = "step" /\ k.a = j.a /\ k.o = j.o
      BY <1>1, <1>8 DEF Raise, Goto, Jobs
    <2> QED BY <1>2, <2>1 DEF InRun
  <1>9. ASSUME Same(j, k) PROVE Goal
    BY <1>9 DEF Same
  <1>10. ASSUME NEW x \in Executors, x # t,
               \/ Die(x) \/ Raise(x)
               \/ x \in Tickers /\ Beat(x)
               \/ x \in Requests /\ (Ask(x) \/ Serve(x))
        PROVE  Goal
    BY <1>1, <1>9, <1>10, OthersStay
  <1>11. CASE UNCHANGED job
    BY <1>9, <1>11 DEF Same
  <1>12. CASE Die(t) \/ Raise(t) \/ Beat(t)
    BY <1>4, <1>5, <1>6, <1>7, <1>8, <1>12 DEF Beat
  <1> QED BY <1>1, <1>10, <1>11, <1>12, SomeoneActs

\* A claim changes nothing of a schedule but the claim, and its holder looks at it next.
LEMMA PicksProcess ==
  ASSUME TypeInv, [Next]_vars, NEW t \in Tickers, Pick(t), NEW a \in Automations
  PROVE  /\ automation'[a].next = automation[a].next /\ automation'[a].enabled = automation[a].enabled
         /\ automation'[a].claim = automation[a].claim
              \/ (automation'[a].claim = t /\ job'[t].pc = "process")
  <1>1. automation[a] \in Schedules /\ automation \in [Automations -> Schedules]
    BY DEF TypeInv, SchedulesTyped
  <1>2. t \in Executors /\ job[t] \in Jobs /\ job \in [Executors -> Jobs]
    BY Constants DEF TypeInv, JobsTyped
  <1>3. CASE UNCHANGED automation
    BY <1>3
  <1>4. ASSUME NEW b \in Automations,
               automation' = [automation EXCEPT ![b].claim = t, ![b].fresh = TRUE],
               job' = [job EXCEPT ![t].pc = "process", ![t].a = b]
        PROVE  /\ automation'[a].next = automation[a].next
               /\ automation'[a].enabled = automation[a].enabled
               /\ automation'[a].claim = automation[a].claim
                    \/ (automation'[a].claim = t /\ job'[t].pc = "process")
    <2>1. job'[t].pc = "process"
      BY <1>2, <1>4 DEF Jobs
    <2> QED BY <1>1, <1>4, <2>1 DEF Schedules
  <1> QED BY <1>3, <1>4 DEF Pick

\* No step breaks CarryInv.
LEMMA CarryStep ==
  ASSUME TypeInv, CarryInv, [Next]_vars
  PROVE  CarryInv'
  <1> SUFFICES ASSUME NEW t \in Tickers, job'[t].pc \in Carrying
               PROVE  /\ job'[t].o <= due' + 1
                      /\ automation'[job'[t].a].claim = t => automation'[job'[t].a].next >= job'[t].o
    BY DEF CarryInv, CarriedExist, CarriedNext, Carrying, Engaged, InRun
  <1>0. PICK a \in Automations, o \in Times : a = job'[t].a /\ o = job'[t].o
    BY JobsStep, Constants DEF JobsTyped, Jobs
  <1>1. /\ due \in Nat /\ due' \in Nat /\ due <= due' /\ o \in Nat
        /\ automation[a] \in Schedules /\ automation'[a] \in Schedules /\ Shifts(a)
    BY SchedulesStep, Clocks, Constants DEF TypeInv, SchedulesTyped
  <1>2. automation[a].next \in Nat /\ automation'[a].next \in Nat
    BY <1>1, Constants DEF Schedules
  <1>3. CASE UNCHANGED automation /\ o = automation[a].next /\ o <= due + 1
    BY <1>0, <1>1, <1>2, <1>3
  <1>4. CASE job[t].pc \in Carrying /\ a = job[t].a /\ o = job[t].o
    <2>1. o <= due + 1
      BY <1>4 DEF CarryInv, CarriedExist
    <2>2. ASSUME automation'[a].claim = t PROVE automation'[a].next >= o
      <3>1. ASSUME automation[a].claim = t, automation'[a].next \in {automation[a].next, due + 1}
            PROVE  automation'[a].next >= o
        <4>1. automation[a].next >= o
          BY <1>4, <3>1 DEF CarryInv, CarriedNext
        <4> QED BY <1>1, <1>2, <2>1, <3>1, <4>1
      <3>2. ASSUME NEW u \in Tickers, Pick(u) PROVE automation'[a].next >= o
        <4>1. job'[t].pc # "process"
          BY DEF Carrying, Engaged, InRun
        <4>2. automation'[a].next = automation[a].next /\ automation[a].claim = t
          BY <2>2, <3>2, <4>1, PicksProcess
        <4> QED BY <3>1, <4>2
      <3> QED BY <1>1, <2>2, <3>1, <3>2, Constants DEF Shifts
    <2> QED BY <1>0, <1>1, <2>1, <2>2
  <1> QED BY <1>0, <1>3, <1>4, CarriedComesFrom

\* The schedule passes what was run, what is too old, or what was switched off.
Passes(a) ==
    \/ automation'[a].next <= automation[a].next
    \/ run[a][automation[a].next] # NoRun
    \/ automation[a].next <= late
    \/ ~automation[a].enabled

\* The heartbeats and the clock, whatever the owner does beside them.
LEMMA OnlyOwnerSkips ==
  ASSUME TypeInv, CarryInv, [Next]_vars, NEW a \in Automations,
         \A q \in Requests : ~SetEnabled(q)
  PROVE  Passes(a)
  <1>1. /\ automation \in [Automations -> Schedules] /\ automation[a] \in Schedules
        /\ automation[a].next \in Int /\ late \in Int
    BY Constants, Clocks DEF TypeInv, SchedulesTyped, Schedules
  <1>2. ASSUME automation'[a].next = automation[a].next PROVE Passes(a)
    BY <1>1, <1>2 DEF Passes
  <1>3. ASSUME NEW t \in Tickers, NEW from, NEW to, Advanced(t, from, to), a # job[t].a
        PROVE  Passes(a)
    BY <1>1, <1>2, <1>3 DEF Advanced
  <1>4. ASSUME NEW t \in Tickers, Process(t) PROVE Passes(a)
    <2> DEFINE o == automation[job[t].a].next
    <2>1. CASE Disabled(t)
      <3>1. automation'[a].next = automation[a].next
        BY <1>1, <2>1 DEF Disabled, Schedules
      <3> QED BY <1>2, <3>1
    <2>2. CASE UNCHANGED automation
      BY <1>2, <2>2
    <2>3. CASE o <= job[t].late /\ Advanced(t, o, NextAfter(job[t].due))
      <3>1. CASE a = job[t].a
        <4>1. job[t].late \in Int /\ job[t].late <= late
          <5>1. t \in Executors /\ job[t] \in Jobs /\ Remembers(t, job[t], due, late, run)
            BY Constants DEF TypeInv, JobsTyped
          <5> QED BY <5>1 DEF Jobs, Remembers
        <4>2. automation[a].next <= late
          BY <1>1, <2>3, <3>1, <4>1
        <4> QED BY <4>2 DEF Passes
      <3> QED BY <1>3, <2>3, <3>1
    <2>4. CASE Exists(job[t].a, o) /\ Advanced(t, o, NextAfter(o))
      <3>1. CASE a = job[t].a
        BY <2>4, <3>1 DEF Exists, Passes
      <3> QED BY <1>3, <2>4, <3>1
    <2> QED BY <1>4, <2>1, <2>2, <2>3, <2>4 DEF Process
  <1>5. ASSUME NEW t \in Tickers, Advance(t) PROVE Passes(a)
    <2>1. CASE a = job[t].a /\ automation[a].claim = t /\ ~(automation'[a].next <= automation[a].next)
      <3>1. /\ job[t].pc = "advance" /\ automation'[a].next = job[t].o + 1
        BY <1>1, <1>5, <2>1 DEF Advance, Advanced, NextAfter, Schedules
      <3>2. t \in Executors /\ job[t] \in Jobs /\ Remembers(t, job[t], due, late, run)
        BY Constants DEF TypeInv, JobsTyped
      <3>3. job[t].o \in Int
        BY <3>2, Constants DEF Jobs
      <3>4. automation[a].next >= job[t].o
        BY <2>1, <3>1 DEF CarryInv, CarriedNext, Carrying, Engaged
      <3>5. automation[a].next = job[t].o
        BY <1>1, <2>1, <3>1, <3>3, <3>4
      <3>6. run[a][job[t].o].phase # "none"
        BY <2>1, <3>1, <3>2 DEF Remembers, Engaged
      <3> QED BY <3>5, <3>6, InitialRows DEF Passes
    <2>2. CASE a = job[t].a /\ automation[a].claim # t
      <3>1. UNCHANGED automation
        BY <1>5, <2>2 DEF Advance, Advanced
      <3> QED BY <1>2, <3>1
    <2>3. CASE a # job[t].a
      BY <1>3, <1>5, <2>3 DEF Advance
    <2> QED BY <2>1, <2>2, <2>3 DEF Passes
  <1>6. ASSUME NEW b \in Automations, Expire(b) \/ Outlive(b) PROVE Passes(a)
    <2>1. automation' = [automation EXCEPT ![b].fresh = FALSE]
      BY <1>6 DEF Expire, Outlive
    <2>2. automation'[a].next = automation[a].next
      BY <1>1, <2>1 DEF Schedules
    <2> QED BY <1>2, <2>2
  <1>7. ASSUME NEW t \in Tickers, Pick(t) PROVE Passes(a)
    BY <1>2, <1>7, PicksProcess
  <1>8. CASE UNCHANGED automation
    BY <1>2, <1>8
  <1> QED BY <1>4, <1>5, <1>6, <1>7, <1>8, WhoReschedules

\* What one request read as switched off, only another could have switched on since.
OffStays ==
    \A q \in Requests :
        job[q].pc \in {"pause", "continue"} /\ ~job[q].read.enabled => ~automation[job[q].a].enabled

\* Pause and continue pass over nothing that was not switched off.
LEMMA OwnerPasses ==
  ASSUME TypeInv, OffStays, NEW q \in Requests, SetEnabled(q), NEW a \in Automations
  PROVE  Passes(a)
  <1> DEFINE b == job[q].a
             row == automation[b]
  <1>1. /\ b \in Automations /\ row \in Schedules /\ automation \in [Automations -> Schedules]
        /\ automation[a].next \in Int
    BY Constants DEF TypeInv, JobsTyped, Jobs, SchedulesTyped, Schedules
  <1>2. ASSUME automation'[a].next = automation[a].next PROVE Passes(a)
    BY <1>1, <1>2 DEF Passes
  <1>3. CASE job[q].pc = "continue" /\ ~job[q].read.enabled /\ a = b
    <2>1. ~automation[a].enabled
      BY <1>3 DEF OffStays
    <2> QED BY <2>1 DEF Passes
  <1>4. CASE ~(job[q].pc = "continue" /\ ~job[q].read.enabled)
    <2>1. Off(q, row) \in Schedules /\ Off(q, row).next = row.next
      BY <1>1 DEF Off, Schedules
    <2>2. Unclaimed(q, Off(q, row)).next = row.next
      BY <2>1 DEF Unclaimed, Schedules
    <2>3. PICK next \in {row, Unclaimed(q, Off(q, row))} : automation' = [automation EXCEPT ![b] = next]
      BY <1>4 DEF SetEnabled
    <2>4. automation'[a].next = automation[a].next
      BY <1>1, <2>2, <2>3
    <2> QED BY <1>2, <2>4
  <1>5. CASE a # b
    <2>1. automation'[a] = automation[a]
      BY <1>1, <1>5 DEF SetEnabled
    <2> QED BY <1>2, <2>1
  <1> QED BY <1>3, <1>4, <1>5

\* What a request is about to write it has read from the row.
LEMMA AskedComesFrom ==
  ASSUME TypeInv, [Next]_vars, NEW q \in Requests, job'[q].pc \in {"pause", "continue"}
  PROVE  \/ Same(job[q], job'[q]) /\ ~SetEnabled(q)
         \/ UNCHANGED automation /\ job'[q].read = automation[job'[q].a]
  <1> DEFINE j == job[q]
             k == job'[q]
             Goal == \/ Same(j, k) /\ ~SetEnabled(q)
                     \/ UNCHANGED automation /\ k.read = automation[k.a]
  <1>1. q \in Executors /\ j \in Jobs /\ job \in [Executors -> Jobs] /\ q \notin Tickers
    BY Constants DEF TypeInv, JobsTyped
  <1>2. ~(Return(q) \/ End(q))
    <2>1. ASSUME Return(q) \/ End(q) PROVE k.pc \in {"idle", "pick"}
      BY <1>1, <2>1, Returns, InitialRows DEF Leaves
    <2> QED BY <2>1
  <1>3. ~RunStep(q)
    <2>1. ASSUME RunStep(q) PROVE k.pc \notin {"pause", "continue"}
      BY <1>1, <2>1, RunStepMoves, InitialRows DEF Moves, Leaves
    <2> QED BY <2>1
  <1>4. ~SetEnabled(q) /\ ~Die(q)
    BY <1>2 DEF SetEnabled, Die
  <1>5. CASE Ask(q)
    <2>1. UNCHANGED automation
      BY <1>5 DEF Ask
    <2>2. ASSUME NEW a \in Automations, NEW pc,
                 job' = [job EXCEPT ![q].pc = pc, ![q].a = a, ![q].read = automation[a]]
          PROVE  Goal
      <3>1. k.a = a /\ k.read = automation[a]
        BY <1>1, <2>2 DEF Jobs
      <3> QED BY <2>1, <3>1
    <2>3. ASSUME NEW a, NEW o,
                 job' = [job EXCEPT ![q].pc = "resume", ![q].a = a, ![q].o = o]
          PROVE  FALSE
      <3>1. k.pc = "resume"
        BY <1>1, <2>3 DEF Jobs
      <3> QED BY <3>1
    <2>4. PICK a \in Automations :
            \/ \E pc \in {"pause", "continue"} :
                  job' = [job EXCEPT ![q].pc = pc, ![q].a = a, ![q].read = automation[a]]
            \/ \E o \in Times : job' = [job EXCEPT ![q].pc = "resume", ![q].a = a, ![q].o = o]
      BY <1>5 DEF Ask
    <2> QED BY <2>2, <2>3, <2>4
  <1>6. ~TakeRun(q) /\ ~ResumedEvent(q) /\ ~Resume(q) /\ ~Raise(q)
    <2>1. ASSUME TakeRun(q) PROVE k.pc = "resumed"
      BY <1>1, <1>2, <2>1 DEF TakeRun, Jobs
    <2>2. ASSUME ResumedEvent(q) PROVE k.pc \in {"failing", "dispatch"}
      <3>1. CASE Missed(q, "failing")
        BY <1>1, <3>1 DEF Missed, Jobs
      <3>2. CASE Logged(q, [job[q] EXCEPT !.pc = "dispatch"])
        <4>1. k = [j EXCEPT !.pc = "dispatch"]
          BY <1>1, <3>2 DEF Logged
        <4> QED BY <1>1, <4>1 DEF Jobs
      <3> QED BY <2>2, <3>1, <3>2 DEF ResumedEvent
    <2>3. ASSUME Resume(q) PROVE k.pc \in {"fail", "step"}
      <3>1. \/ \E force : job' = [job EXCEPT ![q].pc = "fail", ![q].read = <<>>, ![q].force = force]
            \/ \E pos : job' = [job EXCEPT ![q].pc = "step", ![q].read = <<>>, ![q].pos = pos]
        BY <2>3 DEF Resume
      <3> QED BY <1>1, <3>1 DEF Jobs
    <2>4. ASSUME Raise(q) PROVE k.pc = "failing"
      BY <1>1, <2>4 DEF Raise, Goto, Jobs
    <2> QED BY <2>1, <2>2, <2>3, <2>4
  <1>7. CASE UNCHANGED job
    BY <1>4, <1>7 DEF Same
  <1>8. ASSUME NEW x \in Executors, x # q,
               \/ Die(x) \/ Raise(x)
               \/ x \in Tickers /\ Beat(x)
               \/ x \in Requests /\ (Ask(x) \/ Serve(x))
        PROVE  Goal
    BY <1>1, <1>4, <1>8, OthersStay
  <1>9. ~Serve(q)
    BY <1>3, <1>4, <1>6 DEF Serve
  <1> QED BY <1>1, <1>4, <1>5, <1>6, <1>7, <1>8, <1>9, SomeoneActs

\* Only the owner switches on.
LEMMA WhoEnables ==
  ASSUME TypeInv, [Next]_vars, NEW a \in Automations, ~automation[a].enabled,
         automation'[a].enabled
  PROVE  \E q \in Requests : SetEnabled(q)
  <1>1. automation \in [Automations -> Schedules] /\ automation[a] \in Schedules
    BY DEF TypeInv, SchedulesTyped
  <1>2. ASSUME NEW t \in Tickers, NEW from, NEW to, Advanced(t, from, to) \/ Disabled(t) PROVE FALSE
    BY SMTT(30), <1>1, <1>2 DEF Advanced, Disabled, Schedules
  <1>3. ASSUME NEW b \in Automations, Expire(b) \/ Outlive(b) PROVE FALSE
    <2>1. automation' = [automation EXCEPT ![b].fresh = FALSE]
      BY <1>3 DEF Expire, Outlive
    <2> QED BY <1>1, <2>1 DEF Schedules
  <1>4. ASSUME NEW t \in Tickers, Pick(t) PROVE FALSE
    BY <1>4, PicksProcess
  <1>5. ASSUME NEW t \in Tickers, Process(t) \/ Advance(t) PROVE FALSE
    BY <1>2, <1>5 DEF Process, Advance
  <1> QED BY <1>3, <1>4, <1>5, WhoReschedules

\* While one request works, an automation it read switched off stays so.
LEMMA OffStep ==
  ASSUME TypeInv, OffStays, [Next]_vars, \A q, r \in Requests : q = r
  PROVE  OffStays'
  <1> SUFFICES ASSUME NEW q \in Requests, job'[q].pc \in {"pause", "continue"},
                      ~job'[q].read.enabled
               PROVE  ~automation'[job'[q].a].enabled
    BY DEF OffStays
  <1>1. CASE UNCHANGED automation /\ job'[q].read = automation[job'[q].a]
    BY <1>1
  <1>2. CASE Same(job[q], job'[q]) /\ ~SetEnabled(q)
    <2>1. job'[q].a = job[q].a /\ job[q].a \in Automations
      BY <1>2, Constants DEF Same, TypeInv, JobsTyped, Jobs
    <2>2. ~automation[job[q].a].enabled
      BY <1>2 DEF Same, OffStays
    <2> QED BY <1>2, <2>1, <2>2, WhoEnables
  <1> QED BY <1>1, <1>2, AskedComesFrom

-----------------------------------------------------------------------------

\* Both invariants hold in every reachable state.
LEMMA CarryCorrect == Spec => [](TypeInv /\ CarryInv)
  <1>1. Init => CarryInv
    <2> SUFFICES ASSUME Init PROVE CarryInv
      OBVIOUS
    <2>1. \A t \in Tickers : job[t].pc = "idle"
      BY InitialRows, Constants DEF Init
    <2> QED BY <2>1 DEF CarryInv, CarriedExist, CarriedNext, Carrying, Engaged, InRun
  <1>2. TypeInv /\ CarryInv /\ [Next]_vars => CarryInv'
    BY CarryStep
  <1> QED BY <1>1, <1>2, TypeInvCorrect, PTL DEF Spec

\* Whatever the owner does beside them, the heartbeats pass only what was run, what is too
\* old, or what is switched off.
THEOREM OnlyOwnerSkipsCorrect ==
  Spec => [][(\A q \in Requests : ~SetEnabled(q)) => \A a \in Automations : Passes(a)]_vars
  <1>1. TypeInv /\ CarryInv /\ [Next]_vars =>
          [(\A q \in Requests : ~SetEnabled(q)) => \A a \in Automations : Passes(a)]_vars
    BY OnlyOwnerSkips
  <1> QED BY <1>1, CarryCorrect, PTL DEF Spec

\* The schedule passes an occurrence only if it was run, its grace was over or the owner
\* had switched the automation off, when requests of the owner come one at a time.
THEOREM NoneSkippedCorrect ==
  ASSUME \A q, r \in Requests : q = r
  PROVE  Spec => NoneSkipped
  <1>1. Init => OffStays
    <2> SUFFICES ASSUME Init PROVE OffStays
      OBVIOUS
    <2>1. \A q \in Requests : job[q].pc = "idle"
      BY InitialRows, Constants DEF Init
    <2> QED BY <2>1 DEF OffStays
  <1>2. TypeInv /\ OffStays /\ [Next]_vars => OffStays'
    BY OffStep
  <1>3. TypeInv /\ CarryInv /\ OffStays /\ [Next]_vars =>
          [\A a \in Automations : \/ automation'[a].next <= automation[a].next
                                  \/ run[a][automation[a].next] # NoRun
                                  \/ automation[a].next <= late
                                  \/ ~automation[a].enabled]_vars
    <2> SUFFICES ASSUME TypeInv, CarryInv, OffStays, [Next]_vars, NEW a \in Automations
                 PROVE  Passes(a)
      BY DEF Passes
    <2>1. CASE \A q \in Requests : ~SetEnabled(q)
      BY <2>1, OnlyOwnerSkips
    <2>2. ASSUME NEW q \in Requests, SetEnabled(q) PROVE Passes(a)
      BY <2>2, OwnerPasses
    <2> QED BY <2>1, <2>2
  <1> QED BY <1>1, <1>2, <1>3, CarryCorrect, PTL DEF Spec, NoneSkipped
=============================================================================
