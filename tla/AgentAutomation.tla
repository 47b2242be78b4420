---------------------------- MODULE AgentAutomation ----------------------------
(***************************************************************************)
(* Automations of the admin agent: once a day or week a heartbeat claims   *)
(* what is due (AdminAgentAutomationTickService,                           *)
(* src/app/services/admin_agent_automations.py) and runs it                *)
(* (AdminAgentRunner, admin_agent.py): a summary of what needs attention,   *)
(* or one call of the language model and then a batch of drafts, alone or  *)
(* as a series.  The owner pauses and continues an automation, resumes a   *)
(* run that did not end, and works on the drafts.                          *)
(*                                                                         *)
(* A step is one transaction; a run is a sequence of them, with numbered   *)
(* events in between.                                                      *)
(***************************************************************************)
EXTENDS Integers, SequencesExt, FiniteSetsExt

CONSTANTS
    Automations,  \* automations of the owner
    Skills,       \* what they may be for: attention, drafts, series
    Tickers,      \* heartbeats, one of each process
    Requests,     \* HTTP requests that may be under way at once
    PerTick,      \* max_occurrences
    Occurrences,  \* bound: occurrences of each automation that become due
    MaxAsked,     \* bound: requests
    MaxFlips,     \* bound: how often an automation becomes unfit or fit, or a series is regraded
    MaxFaults     \* bound: deaths, errors, claims outlived

ASSUME AgentAutomationAssumption ==
    /\ Automations # {} /\ Tickers \cap Requests = {} /\ "nobody" \notin Tickers
    /\ Skills \subseteq {"attention", "drafts", "series"}
    /\ PerTick \in Nat \ {0} /\ Occurrences \in Nat \ {0}
    /\ MaxAsked \in Nat /\ MaxFlips \in Nat /\ MaxFaults \in Nat

VARIABLES
    due,        \* the last occurrence whose time has come
    late,       \* the last one whose grace is over
    fit,        \* the owner still has the channel and the definition is still valid
    skill,      \* what each automation is for
    automation, \* AdminAgentAutomation
    run,        \* AdminAgentRun of each occurrence, with its events and artifacts
    calls,      \* history: calls of the language model for each occurrence
    job,        \* memory of heartbeats and requests
    asked, flips, faults \* what the bounds count

bounds == <<asked, flips, faults>>
vars == <<due, late, fit, skill, automation, run, calls, job, bounds>>

Executors == Tickers \cup Requests
Nobody == "nobody"

\* An automation that two requests continue may be claimed for an occurrence and run for the next.
Times == 1..(Occurrences + 1)

\* artifacts: batches of drafts it owns; kept: whether they all are drafts still.
NoRun == [phase |-> "none", status |-> "none", claim |-> Nobody, fresh |-> FALSE, artifacts |-> 0,
          kept |-> TRUE]
NewRun == [NoRun EXCEPT !.phase = "created", !.status = "running"]

\* behind: events that others wrote to the run since it was read; read: what a request read
\* of its row; good: whether the model answered as it should; force: the phase a failure
\* ends in, or none.
Idle == [pc |-> "idle", a |-> CHOOSE a \in Automations : TRUE, o |-> 1, pos |-> 1, behind |-> 0,
         done |-> 0, due |-> 0, late |-> 0, read |-> <<>>, good |-> TRUE, force |-> "none"]

NextAfter(o) == o + 1
Created == [enabled |-> TRUE, next |-> NextAfter(0), claim |-> Nobody, fresh |-> FALSE]

Init ==
    /\ due = 0 /\ late = 0
    /\ fit = [a \in Automations |-> TRUE]
    /\ skill \in [Automations -> Skills]
    /\ \E paused \in SUBSET Automations :
          automation = [a \in Automations |-> [Created EXCEPT !.enabled = a \notin paused]]
    /\ run = [a \in Automations |-> [o \in Times |-> NoRun]]
    /\ calls = [a \in Automations |-> [o \in Times |-> 0]]
    /\ job = [x \in Executors |-> Idle]
    /\ asked = 0 /\ flips = 0 /\ faults = 0

Goto(x, pc) == job' = [job EXCEPT ![x].pc = pc]
End(x) == job' = [job EXCEPT ![x] = Idle]

\* A heartbeat goes on to the next claim, a request is answered.
Return(x) ==
    IF x \in Tickers /\ job[x].done + 1 < PerTick
      THEN job' = [job EXCEPT ![x] = [Idle EXCEPT !.pc = "pick", !.due = job[x].due,
                                                  !.late = job[x].late, !.done = job[x].done + 1]]
      ELSE End(x)

-----------------------------------------------------------------------------
(* A heartbeat: claim, check, advance. *)

Tick(t) ==
    /\ job[t].pc = "idle"
    /\ job' = [job EXCEPT ![t] = [Idle EXCEPT !.pc = "pick", !.due = due, !.late = late]]
    /\ UNCHANGED <<due, late, fit, skill, automation, run, calls, bounds>>

\* Faulty variant: a claim is never taken over.
ClaimableOnce(a, now) ==
    /\ automation[a].enabled /\ automation[a].next <= now
    /\ automation[a].claim = Nobody

Claimable(a, now) ==
    /\ automation[a].enabled /\ automation[a].next <= now
    /\ automation[a].claim = Nobody \/ ~automation[a].fresh

\* The compare-and-set; the oldest comes first.
Pick(t) ==
    LET ready == {a \in Automations : Claimable(a, job[t].due)}
    IN
    /\ job[t].pc = "pick"
    /\ IF ready = {} THEN End(t) /\ UNCHANGED automation
       ELSE \E a \in ready :
              /\ \A b \in ready : automation[a].next <= automation[b].next
              /\ automation' = [automation EXCEPT ![a].claim = t, ![a].fresh = TRUE]
              /\ job' = [job EXCEPT ![t].pc = "process", ![t].a = a]
    /\ UNCHANGED <<due, late, fit, skill, run, calls, bounds>>

\* Both are guarded by the token.
Advanced(t, from, to) ==
    IF automation[job[t].a].claim = t /\ automation[job[t].a].next = from
      THEN automation' = [automation EXCEPT ![job[t].a].next = to, ![job[t].a].claim = Nobody,
                                            ![job[t].a].fresh = FALSE]
      ELSE UNCHANGED automation

Disabled(t) ==
    automation' = [automation EXCEPT ![job[t].a].enabled = FALSE, ![job[t].a].claim = Nobody,
                                     ![job[t].a].fresh = FALSE]

\* The run of an occurrence is found by its key, and is exactly that occurrence's.
Exists(a, o) == run[a][o] # NoRun

\* Faulty variant: without the grace.
ProcessWithoutGrace(t) ==
    LET a == job[t].a
        o == automation[a].next
    IN
    /\ job[t].pc = "process"
    /\ IF ~automation[a].enabled \/ automation[a].claim # t THEN Return(t) /\ UNCHANGED automation
       ELSE IF o <= job[t].due THEN Advanced(t, o, NextAfter(job[t].due)) /\ Return(t)
       ELSE IF ~fit[a] THEN Disabled(t) /\ Return(t)
       ELSE IF Exists(a, o) THEN Advanced(t, o, NextAfter(o)) /\ Return(t)
       ELSE job' = [job EXCEPT ![t].pc = "insert", ![t].o = o] /\ UNCHANGED automation
    /\ UNCHANGED <<due, late, fit, skill, run, calls, bounds>>

Process(t) ==
    LET a == job[t].a
        o == automation[a].next
    IN
    /\ job[t].pc = "process"
    /\ IF ~automation[a].enabled \/ automation[a].claim # t THEN Return(t) /\ UNCHANGED automation
       ELSE IF o <= job[t].late THEN Advanced(t, o, NextAfter(job[t].due)) /\ Return(t)
       ELSE IF ~fit[a] THEN Disabled(t) /\ Return(t)
       ELSE IF Exists(a, o) THEN Advanced(t, o, NextAfter(o)) /\ Return(t)
       ELSE job' = [job EXCEPT ![t].pc = "insert", ![t].o = o] /\ UNCHANGED automation
    /\ UNCHANGED <<due, late, fit, skill, run, calls, bounds>>

\* Faulty variant: a run that exists is taken for one's own.
InsertOrJoin(t) ==
    LET a == job[t].a
        o == job[t].o
    IN
    /\ job[t].pc = "insert"
    /\ run' = IF Exists(a, o) THEN run ELSE [run EXCEPT ![a][o] = NewRun]
    /\ Goto(t, "step")
    /\ UNCHANGED <<due, late, fit, skill, automation, calls, bounds>>

\* The unique occurrence: who comes second gets the run of the first.
Insert(t) ==
    LET a == job[t].a
        o == job[t].o
    IN
    /\ job[t].pc = "insert"
    /\ IF Exists(a, o) THEN Goto(t, "advance") /\ UNCHANGED run
       ELSE run' = [run EXCEPT ![a][o] = NewRun] /\ Goto(t, "step")
    /\ UNCHANGED <<due, late, fit, skill, automation, calls, bounds>>

\* The row is read again first.
Advance(t) ==
    /\ job[t].pc = "advance"
    /\ Advanced(t, automation[job[t].a].next, NextAfter(job[t].o))
    /\ Return(t)
    /\ UNCHANGED <<due, late, fit, skill, run, calls, bounds>>

-----------------------------------------------------------------------------
(* A run. *)

\* Tools read, and the model may be asked for their order; nothing is kept but the result.
AttentionScript == << "event", "event", "ask", "event", "finish", "event", "leave" >>

DraftScript == << "event", "inflight", "event", "call", "event", "validated", "event",
                  "batch", "persist", "event", "complete" >>

\* A series goes through the same steps.
SeriesScript == DraftScript

Script == [attention |-> AttentionScript, drafts |-> DraftScript, series |-> SeriesScript]

AtStep(x, what) == job[x].pc = "step" /\ Script[skill[job[x].a]][job[x].pos] = what
RunOf(x) == run[job[x].a][job[x].o]
Step(x) == job' = [job EXCEPT ![x].pos = @ + 1]

\* Events count from what their writer has read, and a number is unique in its run: whoever
\* writes beside another fails, as often as the other has written.
Taken(x) == job[x].behind > 0
Missed(x, pc) == job' = [job EXCEPT ![x].behind = @ - 1, ![x].pc = pc]

InRun == {"step", "failing", "fail", "failed", "resume", "resumed", "dispatch"}
Beside(x) ==
    {y \in Executors \ {x} : job[y].pc \in InRun /\ job[y].a = job[x].a /\ job[y].o = job[x].o}
Logged(x, next) ==
    job' = [y \in Executors |-> IF y = x THEN next
                                ELSE IF y \in Beside(x) THEN [job[y] EXCEPT !.behind = @ + 1]
                                ELSE job[y]]

\* The first event is outside the handlers: its failure leaves the heartbeat's claim.
Event(x) ==
    /\ AtStep(x, "event")
    /\ IF ~Taken(x) THEN Logged(x, [job[x] EXCEPT !.pos = @ + 1])
       ELSE IF job[x].pos = 1 THEN Return(x)
       ELSE Missed(x, "failing")
    /\ UNCHANGED <<due, late, fit, skill, automation, run, calls, bounds>>

Phase(x, phase) == run' = [run EXCEPT ![job[x].a][job[x].o].phase = phase]

Inflight(x) ==
    /\ AtStep(x, "inflight")
    /\ Phase(x, "inflight") /\ Step(x)
    /\ UNCHANGED <<due, late, fit, skill, automation, calls, bounds>>

\* Nothing to put in order, or the model is switched off; an exhausted quota is no error.
AskModel(x) ==
    /\ AtStep(x, "ask")
    /\ \/ UNCHANGED calls /\ Step(x)
       \/ /\ calls' = [calls EXCEPT ![job[x].a][job[x].o] = @ + 1]
          /\ Step(x) \/ Goto(x, "failing")
    /\ UNCHANGED <<due, late, fit, skill, automation, run, bounds>>

Finish(x) ==
    /\ AtStep(x, "finish")
    /\ run' = [run EXCEPT ![job[x].a][job[x].o].phase = "completed", ![job[x].a][job[x].o].status = "completed"]
    /\ Step(x)
    /\ UNCHANGED <<due, late, fit, skill, automation, calls, bounds>>

Leave(x) ==
    /\ AtStep(x, "leave")
    /\ job' = [job EXCEPT ![x].pc = "advance", ![x].pos = 1]
    /\ UNCHANGED <<due, late, fit, skill, automation, run, calls, bounds>>

\* The model answers, answers badly, or not in time.
Call(x) ==
    /\ AtStep(x, "call")
    /\ calls' = [calls EXCEPT ![job[x].a][job[x].o] = @ + 1]
    /\ \/ \E good \in BOOLEAN : job' = [job EXCEPT ![x].pos = @ + 1, ![x].good = good]
       \/ Goto(x, "failing")
    /\ UNCHANGED <<due, late, fit, skill, automation, run, bounds>>

Validate(x) ==
    /\ AtStep(x, "validated")
    /\ IF job[x].good THEN Phase(x, "validated") /\ Step(x)
       ELSE Phase(x, "failed") /\ Goto(x, "failing")
    /\ UNCHANGED <<due, late, fit, skill, automation, calls, bounds>>

\* Drafts that are there already close a resumed run.
StartBatch(x) ==
    /\ AtStep(x, "batch")
    /\ IF RunOf(x).artifacts = 0
         THEN IF Taken(x) THEN Missed(x, "failing") ELSE Logged(x, [job[x] EXCEPT !.pos = @ + 1])
       ELSE IF x \in Tickers THEN Goto(x, "failing")
       ELSE job' = [job EXCEPT ![x].pc = "fail", ![x].force = "failed_closed"]
    /\ UNCHANGED <<due, late, fit, skill, automation, run, calls, bounds>>

Written(r) == [r EXCEPT !.artifacts = @ + 1, !.phase = "persisted"]

\* Faulty variant: without the unique artifacts.
PersistAgain(x) ==
    /\ AtStep(x, "persist")
    /\ run' = [run EXCEPT ![job[x].a][job[x].o] = Written(@)]
    /\ Step(x)
    /\ UNCHANGED <<due, late, fit, skill, automation, calls, bounds>>

\* Drafts, artifacts and phase are one transaction.
Persist(x) ==
    /\ AtStep(x, "persist")
    /\ IF RunOf(x).artifacts = 0
         THEN run' = [run EXCEPT ![job[x].a][job[x].o] = Written(@)] /\ Step(x)
         ELSE Goto(x, "failing") /\ UNCHANGED run
    /\ UNCHANGED <<due, late, fit, skill, automation, calls, bounds>>

\* The result is read from the drafts: those of a series must be drafts still.
DraftsHold(r) == r.artifacts = 1
SeriesHold(r) == r.artifacts = 1 /\ r.kept
Holds(x) == IF skill[job[x].a] = "series" THEN SeriesHold(RunOf(x)) ELSE DraftsHold(RunOf(x))

Refused(x) ==
    /\ AtStep(x, "complete") /\ ~Holds(x)
    /\ IF x \in Tickers THEN Goto(x, "failing")
       ELSE job' = [job EXCEPT ![x].pc = "fail", ![x].pos = 1, ![x].force = "failed_closed"]
    /\ UNCHANGED <<due, late, fit, skill, automation, run, calls, bounds>>

\* A resumed run gives its claim back; the last event is best effort.
Complete(x) ==
    LET r == RunOf(x)
        c == [r EXCEPT !.phase = "completed", !.status = "completed"]
    IN
    /\ AtStep(x, "complete") /\ Holds(x)
    /\ run' = [run EXCEPT ![job[x].a][job[x].o] =
                  IF x \in Requests THEN [c EXCEPT !.claim = Nobody, !.fresh = FALSE] ELSE c]
    /\ LET next == IF x \in Tickers THEN [job[x] EXCEPT !.pc = "advance", !.pos = 1, !.behind = 0] ELSE Idle
       IN  IF Taken(x) THEN job' = [job EXCEPT ![x] = next] ELSE Logged(x, next)
    /\ UNCHANGED <<due, late, fit, skill, automation, calls, bounds>>

-----------------------------------------------------------------------------
(* How a run fails. *)

\* What the failure ends in is decided on one read of the phase and written after another;
\* a run that was in flight is ambiguous, unless its own limits ended it.
RunEnds(phase) ==
    IF phase \in {"validated", "persisted"} THEN {"none"}
    ELSE IF phase = "inflight" THEN {"restart_required", "failed"} ELSE {"failed"}
ResumeEnds(phase) == IF phase \in {"validated", "persisted"} THEN {"none"} ELSE {"failed_closed"}
AttentionEnds == {"failed"}

Endings(x, phase) ==
    IF skill[job[x].a] = "attention" THEN AttentionEnds
    ELSE IF x \in Requests THEN ResumeEnds(phase) ELSE RunEnds(phase)

Failing(x) ==
    /\ job[x].pc = "failing"
    /\ \E force \in Endings(x, RunOf(x).phase) :
          job' = [job EXCEPT ![x].pc = "fail", ![x].pos = 1, ![x].good = TRUE, ![x].force = force]
    /\ UNCHANGED <<due, late, fit, skill, automation, run, calls, bounds>>

Fail(x) ==
    LET r == RunOf(x)
        f == [r EXCEPT !.status = "failed", !.phase = IF job[x].force = "none" THEN @ ELSE job[x].force]
    IN
    /\ job[x].pc = "fail"
    /\ run' = [run EXCEPT ![job[x].a][job[x].o] =
                  IF x \in Requests THEN [f EXCEPT !.claim = Nobody, !.fresh = FALSE] ELSE f]
    /\ job' = [job EXCEPT ![x].pc = "failed", ![x].force = "none"]
    /\ UNCHANGED <<due, late, fit, skill, automation, calls, bounds>>

\* The event of the failure; if it fails, the heartbeat keeps its claim.
FailedEvent(x) ==
    /\ job[x].pc = "failed"
    /\ IF Taken(x) THEN Return(x)
       ELSE Logged(x, IF x \in Tickers THEN [job[x] EXCEPT !.pc = "advance", !.behind = 0] ELSE Idle)
    /\ UNCHANGED <<due, late, fit, skill, automation, run, calls, bounds>>

-----------------------------------------------------------------------------
(* Requests of the owner. *)

\* What only reads is run again instead.
Resumable(a, o) == skill[a] # "attention" /\ run[a][o].status \in {"running", "failed"}

Ask(q) ==
    /\ job[q].pc = "idle" /\ asked < MaxAsked
    /\ asked' = asked + 1
    /\ \E a \in Automations :
       \/ \E pc \in {"pause", "continue"} :
             job' = [job EXCEPT ![q].pc = pc, ![q].a = a, ![q].read = automation[a]]
       \/ \E o \in Times :
             /\ Resumable(a, o)
             /\ job' = [job EXCEPT ![q].pc = "resume", ![q].a = a, ![q].o = o]
    /\ UNCHANGED <<due, late, fit, skill, automation, run, calls, flips, faults>>

\* The mapper writes what differs from what was read.
Unclaimed(q, row) ==
    IF job[q].read.claim = Nobody THEN row ELSE [row EXCEPT !.claim = Nobody, !.fresh = FALSE]
Off(q, row) == IF job[q].read.enabled THEN [row EXCEPT !.enabled = FALSE] ELSE row
On(q, row) == [row EXCEPT !.enabled = TRUE, !.next = IF NextAfter(due) = job[q].read.next THEN @ ELSE NextAfter(due)]

SetEnabled(q) ==
    LET a == job[q].a
        row == automation[a]
    IN
    /\ job[q].pc \in {"pause", "continue"}
    /\ automation' = [automation EXCEPT ![a] =
          IF job[q].pc = "pause" \/ ~fit[a] THEN Unclaimed(q, Off(q, row))
          ELSE IF job[q].read.enabled THEN row
          ELSE Unclaimed(q, On(q, row))]
    /\ End(q)
    /\ UNCHANGED <<due, late, fit, skill, run, calls, bounds>>

\* A run has a claim only while it is resumed.
TakeRun(q) ==
    LET r == RunOf(q)
    IN
    /\ job[q].pc = "resume"
    /\ IF r.status = "completed" \/ (r.claim # Nobody /\ r.fresh) THEN End(q) /\ UNCHANGED run
       ELSE /\ run' = [run EXCEPT ![job[q].a][job[q].o].claim = q, ![job[q].a][job[q].o].fresh = TRUE]
            /\ job' = [job EXCEPT ![q].pc = "resumed", ![q].read = r]
    /\ UNCHANGED <<due, late, fit, skill, automation, calls, bounds>>

ResumedEvent(q) ==
    /\ job[q].pc = "resumed"
    /\ IF Taken(q) THEN Missed(q, "failing") ELSE Logged(q, [job[q] EXCEPT !.pc = "dispatch"])
    /\ UNCHANGED <<due, late, fit, skill, automation, run, calls, bounds>>

\* Where the run goes on depends on the phase that was read with the claim.
Resume(q) ==
    LET phase == job[q].read.phase
        goesOn(what) == job' = [job EXCEPT ![q].pc = "step", ![q].read = <<>>,
                                           ![q].pos = SelectInSeq(Script[skill[job[q].a]], LAMBDA s : s = what)]
        closes(force) == job' = [job EXCEPT ![q].pc = "fail", ![q].read = <<>>, ![q].force = force]
                         /\ UNCHANGED run
    IN
    /\ job[q].pc = "dispatch"
    /\ IF phase = "inflight" THEN closes("restart_required")
       ELSE IF phase = "validated"
         THEN /\ run' = IF job[q].read.status = "running" THEN run
                        ELSE [run EXCEPT ![job[q].a][job[q].o].status = "running"]
              /\ goesOn("batch")
       ELSE IF phase = "persisted" THEN goesOn("complete") /\ UNCHANGED run
       ELSE closes("failed_closed")
    /\ UNCHANGED <<due, late, fit, skill, automation, calls, bounds>>

\* The owner calls a draft ready, approved or archived.  Bound: when someone is about to
\* read them.
Regrade(a, o) ==
    /\ flips < MaxFlips
    /\ skill[a] = "series" /\ run[a][o].kept
    /\ run[a][o].artifacts > 0
    /\ \E x \in Executors : AtStep(x, "complete") /\ job[x].a = a /\ job[x].o = o
    /\ flips' = flips + 1
    /\ run' = [run EXCEPT ![a][o].kept = FALSE]
    /\ UNCHANGED <<due, late, fit, skill, automation, calls, job, asked, faults>>

-----------------------------------------------------------------------------
(* Time and faults. *)

BecomesDue ==
    /\ due < Occurrences /\ late = due
    /\ due' = due + 1
    /\ UNCHANGED <<late, fit, skill, automation, run, calls, job, bounds>>

GraceEnds ==
    /\ late < due
    /\ late' = due
    /\ UNCHANGED <<due, fit, skill, automation, run, calls, job, bounds>>

\* Bound: only when someone is about to look; at other times nobody can tell.
Flip(a) ==
    /\ flips < MaxFlips
    /\ \E x \in Executors : job[x].pc \in {"process", "continue"} /\ job[x].a = a
    /\ flips' = flips + 1
    /\ fit' = [fit EXCEPT ![a] = ~@]
    /\ UNCHANGED <<due, late, skill, automation, run, calls, job, asked, faults>>

Fault == faults < MaxFaults /\ faults' = faults + 1

Die(x) ==
    /\ job[x].pc # "idle" /\ Fault
    /\ End(x)
    /\ UNCHANGED <<due, late, fit, skill, automation, run, calls, asked, flips>>

\* An error of the database, or the deadline between two steps of a run.
Raise(x) ==
    /\ job[x].pc = "step" /\ job[x].pos > 1 /\ Fault
    /\ Goto(x, "failing")
    /\ UNCHANGED <<due, late, fit, skill, automation, run, calls, asked, flips>>

Carried(a) == \E t \in Tickers : job[t].pc \notin {"idle", "pick"} /\ job[t].a = a /\ automation[a].claim = t
CarriedRun(a, o) ==
    \E q \in Requests : job[q].pc # "idle" /\ job[q].a = a /\ job[q].o = o /\ run[a][o].claim = q

\* Claims last two minutes, and ninety seconds; a run has thirty.
Expire(a) ==
    /\ automation[a].fresh /\ ~Carried(a)
    /\ automation' = [automation EXCEPT ![a].fresh = FALSE]
    /\ UNCHANGED <<due, late, fit, skill, run, calls, job, bounds>>

ExpireRun(a, o) ==
    /\ run[a][o].fresh /\ ~CarriedRun(a, o)
    /\ run' = [run EXCEPT ![a][o].fresh = FALSE]
    /\ UNCHANGED <<due, late, fit, skill, automation, calls, job, bounds>>

Outlive(a) ==
    /\ automation[a].fresh /\ Carried(a) /\ Fault
    /\ automation' = [automation EXCEPT ![a].fresh = FALSE]
    /\ UNCHANGED <<due, late, fit, skill, run, calls, job, asked, flips>>

OutliveRun(a, o) ==
    /\ run[a][o].fresh /\ CarriedRun(a, o) /\ Fault
    /\ run' = [run EXCEPT ![a][o].fresh = FALSE]
    /\ UNCHANGED <<due, late, fit, skill, automation, calls, job, asked, flips>>

RunStep(x) ==
    \/ Event(x) \/ AskModel(x) \/ Finish(x) \/ Leave(x)
    \/ Inflight(x) \/ Call(x) \/ Validate(x) \/ StartBatch(x) \/ Persist(x)
    \/ Refused(x) \/ Complete(x) \/ Failing(x) \/ Fail(x) \/ FailedEvent(x)

Beat(t) == Tick(t) \/ Pick(t) \/ Process(t) \/ Insert(t) \/ Advance(t) \/ RunStep(t)
Serve(q) == SetEnabled(q) \/ TakeRun(q) \/ ResumedEvent(q) \/ Resume(q) \/ RunStep(q)

Next ==
    \/ \E t \in Tickers : Beat(t)
    \/ \E q \in Requests : Ask(q) \/ Serve(q)
    \/ \E x \in Executors : Die(x) \/ Raise(x)
    \/ BecomesDue \/ GraceEnds
    \/ \E a \in Automations : Flip(a) \/ Expire(a) \/ Outlive(a)
    \/ \E a \in Automations, o \in Times : ExpireRun(a, o) \/ OutliveRun(a, o) \/ Regrade(a, o)

Spec == Init /\ [][Next]_vars

\* The heartbeat goes on, calls of the model have a timeout, and claims age.
Fairness ==
    /\ \A t \in Tickers : WF_vars(Beat(t))
    /\ \A a \in Automations : WF_vars(Expire(a))

FairSpec == Spec /\ Fairness

-----------------------------------------------------------------------------
(* Properties. *)

Phases == {"none", "created", "inflight", "validated", "persisted", "completed",
           "restart_required", "failed", "failed_closed"}

\* Every variable has its type.
TypeOK ==
    /\ due \in 0..Occurrences /\ late \in {due, due - 1} \cap Nat
    /\ fit \in [Automations -> BOOLEAN] /\ skill \in [Automations -> Skills]
    /\ automation \in [Automations -> [enabled : BOOLEAN, next : 1..(Occurrences + 2),
                                       claim : Tickers \cup {Nobody}, fresh : BOOLEAN]]
    /\ \A a \in Automations, o \in Times :
          /\ run[a][o].phase \in Phases
          /\ run[a][o].status \in {"none", "running", "failed", "completed"}
          /\ run[a][o].claim \in Requests \cup {Nobody} /\ run[a][o].artifacts \in 0..1
          /\ run[a][o].kept \in BOOLEAN
    /\ \A x \in Executors : job[x].pos \in DOMAIN DraftScript /\ job[x].done \in 0..PerTick
    /\ asked \in 0..MaxAsked /\ flips \in 0..MaxFlips /\ faults \in 0..MaxFaults

\* Whoever takes over, dies or resumes, an occurrence asks the model at most once
\* (AdminAgentAutomationTickService.tick: "no-replay reconciliation advances the
\* occurrence without a second provider call"), its drafts are written once, and a run
\* of them that completed has them.
RunOnce ==
    \A a \in Automations, o \in Times :
        /\ calls[a][o] <= 1
        /\ run[a][o].artifacts <= 1
        /\ run[a][o].status = "completed" /\ skill[a] # "attention" => run[a][o].artifacts = 1

\* The schedule passes an occurrence only if it was run or its grace was over, unless the
\* owner had switched the automation off.
NoneSkipped ==
    [][\A a \in Automations :
          \/ automation'[a].next <= automation[a].next
          \/ run[a][automation[a].next] # NoRun
          \/ automation[a].next <= late
          \/ ~automation[a].enabled]_vars

\* Claims that are left behind, failing runs and switches only delay what is due.
DueIsHandled ==
    \A a \in Automations : []<>(~automation[a].enabled \/ automation[a].next > due)
================================================================================
