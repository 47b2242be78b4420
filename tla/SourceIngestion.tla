---------------------------- MODULE SourceIngestion ----------------------------
(***************************************************************************)
(* Sources of a channel: Telegram channels that are read along a cursor,   *)
(* and feeds.  One worker polls a rotating window of them                  *)
(* (src/app/workers/source_ingestion.py); the Studio polls one, changes    *)
(* its settings and lists them (src/app/api/studio/sources.py).  Polls and *)
(* changes take a lease on the source (source_ingestion_lease.py).         *)
(*                                                                         *)
(* Steps are transactions.  The connector's configuration is one JSON      *)
(* column that is read in one and written as a whole in a later one.       *)
(***************************************************************************)
EXTENDS Integers, SequencesExt, FiniteSetsExt

CONSTANTS
    Sources,      \* number of sources
    Telegram,     \* those with a cursor
    Fresh,        \* those nobody has read or listed so far
    Worker,       \* the ingestion worker
    Requests,     \* requests of the Studio that may be under way at once
    Page,         \* history_limit, and the entries of a feed
    Window,       \* max_connectors_per_tick
    MaxMessages,  \* bound: messages of each source
    MaxAsked,     \* bound: requests
    MaxFailures,  \* bound: polls that fail or time out
    MaxFaults     \* bound: deaths, cancellations, lost releases, leases outlived

ASSUME SourceIngestionAssumption ==
    /\ Sources \in Nat \ {0} /\ Telegram \subseteq 1..Sources /\ Fresh \subseteq 1..Sources
    /\ Worker \notin Requests
    /\ Page \in Nat \ {0} /\ Window \in Nat \ {0}
    /\ MaxMessages \in [1..Sources -> Nat \ {0}]
    /\ \A s \in (1..Sources) \ Fresh : MaxMessages[s] >= 2  \* what Init starts with
    /\ MaxAsked \in Nat /\ MaxFailures \in Nat /\ MaxFaults \in Nat

VARIABLES
    posts,    \* messages in each source
    enabled,  \* SourceConnector.enabled
    config,   \* SourceConnector.config: cursor, backlog hint, failure, what the mirror adds
    legacy,   \* AISource.enabled
    lease,    \* SourceIngestionLease
    inbox,    \* messages with their SourceDocument and ContentCandidate
    since,    \* history: the messages up to this one were there before the first poll
    ended,    \* the last failure of each source whose backoff has passed
    rotation, \* memory of the worker: _last_connector_id, and what is left of the window
    poll,     \* memory of the worker and of the requests
    asked, failures, faults \* what the bounds count

bounds == <<asked, failures, faults>>
vars == <<posts, enabled, config, legacy, lease, inbox, since, ended, rotation, poll, bounds>>

Ids == 1..Sources
Pollers == Requests \cup {Worker}
Nobody == "nobody"
Unread == 0 - 1
Most == Max({MaxMessages[s] : s \in Ids})

\* until: the failure that opened the backoff, 0 for none.
Config == [cursor : 0..Most, hint : BOOLEAN, until : 0..MaxFailures, mirrored : BOOLEAN]
NoConfig == [cursor |-> 0, hint |-> FALSE, until |-> 0, mirrored |-> FALSE]

NoPoll == [pc |-> "idle", source |-> 1, enabled |-> TRUE, wanted |-> TRUE, config |-> NoConfig,
           dirty |-> FALSE, page |-> <<>>, fetched |-> 0, high |-> 0, late |-> FALSE]

Free == [holder |-> Nobody, live |-> FALSE]

\* A source that is not fresh has been read up to its first message, and there is a second.
Init ==
    /\ posts = [s \in Ids |-> IF s \in Fresh THEN 1 ELSE 2]
    /\ enabled = [s \in Ids |-> TRUE]
    /\ config = [s \in Ids |-> IF s \in Fresh THEN NoConfig
                               ELSE [NoConfig EXCEPT !.cursor = IF s \in Telegram THEN 1 ELSE 0,
                                                     !.mirrored = TRUE]]
    /\ legacy = [s \in Ids |-> TRUE]
    /\ lease = [s \in Ids |-> Free]
    /\ inbox = [s \in Ids |-> {}]
    /\ since = [s \in Ids |-> IF s \in Fresh THEN Unread ELSE 1]
    /\ ended = [s \in Ids |-> 0]
    /\ rotation = [last |-> 0, todo |-> <<>>]
    /\ poll = [p \in Pollers |-> NoPoll]
    /\ asked = 0 /\ failures = 0 /\ faults = 0

-----------------------------------------------------------------------------
(* The window of the worker. *)

BackoffActive(s, c) == c.until > ended[s]

\* Faulty variant: every window starts with the first source.
FromTheStart ==
    {s \in Ids : enabled[s] /\ Cardinality({t \in Ids : enabled[t] /\ t < s}) < Window}

\* Where a source stands after the last one read: the next one first, that one last.
Ahead(s) == IF s > rotation.last THEN s - rotation.last ELSE s - rotation.last + Sources

\* The first sources after the last one, then those up to it.
Rotating ==
    {s \in Ids : /\ enabled[s]
                 /\ Cardinality({t \in Ids : enabled[t] /\ Ahead(t) < Ahead(s)}) < Window}

Boundary == CHOOSE s \in Rotating : \A t \in Rotating : Ahead(t) <= Ahead(s)

\* Sources with a backlog come first; how long ago the others were read is left open.
Orders(eligible) ==
    LET urgent == {s \in eligible : config[s].hint}
    IN  {u \o v : u \in SetToSeqs(urgent), v \in SetToSeqs(eligible \ urgent)}

Tick ==
    /\ poll[Worker].pc = "idle" /\ rotation.todo = <<>>
    /\ IF Rotating = {} THEN rotation' = [last |-> 0, todo |-> <<>>]
       ELSE \E order \in Orders({s \in Rotating : ~BackoffActive(s, config[s])}) :
               rotation' = [last |-> Boundary, todo |-> order]
    /\ UNCHANGED <<posts, enabled, config, legacy, lease, inbox, since, ended, poll, bounds>>

-----------------------------------------------------------------------------
(* The connector is read, then the lease is acquired. *)

Read(s) == [NoPoll EXCEPT !.source = s, !.enabled = enabled[s], !.config = config[s]]

StartNext ==
    LET s == Head(rotation.todo)
    IN
    /\ poll[Worker].pc = "idle" /\ rotation.todo # <<>>
    /\ rotation' = [rotation EXCEPT !.todo = Tail(@)]
    /\ IF enabled[s] /\ ~BackoffActive(s, config[s])
         THEN poll' = [poll EXCEPT ![Worker] = [Read(s) EXCEPT !.pc = "acquire"]]
         ELSE UNCHANGED poll
    /\ UNCHANGED <<posts, enabled, config, legacy, lease, inbox, since, ended, bounds>>

\* ingest_source, update_source_settings and list_sources.
Ask(q) ==
    /\ poll[q].pc = "idle" /\ asked < MaxAsked
    /\ asked' = asked + 1
    /\ \E s \in Ids :
       \/ poll' = [poll EXCEPT ![q] = [Read(s) EXCEPT !.pc = "acquire"]]
       \/ \E value \in BOOLEAN :
             poll' = [poll EXCEPT ![q] = [Read(s) EXCEPT !.pc = "lock", !.wanted = value]]
       \/ poll' = [poll EXCEPT ![q] = [NoPoll EXCEPT !.pc = "legacy", !.source = s, !.wanted = legacy[s]]]
    /\ UNCHANGED <<posts, enabled, config, legacy, lease, inbox, since, ended, rotation, failures, faults>>

\* An expired lease is deleted, and the insertion fails on any other.
Acquire(p) ==
    LET s == poll[p].source
        pc == IF poll[p].pc = "lock" THEN "write" ELSE IF poll[p].enabled THEN "fetch" ELSE "clear"
    IN
    /\ poll[p].pc \in {"acquire", "lock"}
    /\ IF lease[s].live THEN UNCHANGED lease /\ poll' = [poll EXCEPT ![p] = NoPoll]
       ELSE /\ lease' = [lease EXCEPT ![s] = [holder |-> p, live |-> TRUE]]
            /\ poll' = [poll EXCEPT ![p].pc = pc]
    /\ UNCHANGED <<posts, enabled, config, legacy, inbox, since, ended, rotation, bounds>>

-----------------------------------------------------------------------------
(* A poll. *)

Newest(s) == Reverse([i \in 1..Min({Page, posts[s]}) |-> posts[s] - Min({Page, posts[s]}) + i])
OldestAfter(s, c) == [i \in 1..Min({Page, posts[s] - c}) |-> c + i]

\* Faulty variant: the history is always read from its end.
NewestPage(s, cursor) == SelectSeq(Newest(s), LAMBDA m : m > cursor)

\* The first time the newest messages, later the oldest ones after the cursor.
History(s, cursor) == IF cursor = 0 THEN Newest(s) ELSE OldestAfter(s, cursor)

AfterPage(s) == IF s \in Telegram THEN "stage" ELSE "clear"

Fetch(p) ==
    LET s == poll[p].source
        cursor == poll[p].config.cursor
        page == IF s \in Telegram THEN History(s, cursor) ELSE Newest(s)
    IN
    /\ poll[p].pc = "fetch"
    /\ poll' = [poll EXCEPT ![p].pc = IF page = <<>> THEN AfterPage(s) ELSE "reconcile",
                            ![p].page = page, ![p].fetched = Len(page),
                            ![p].high = Max({cursor} \cup ToSet(page))]
    /\ UNCHANGED <<posts, enabled, config, legacy, lease, inbox, since, ended, rotation, bounds>>

\* One transaction: document, candidate and health.  Who was there first is found by the
\* unique keys.
Reconcile(p) ==
    LET s == poll[p].source
    IN
    /\ poll[p].pc = "reconcile"
    /\ inbox' = [inbox EXCEPT ![s] = @ \cup {Head(poll[p].page)}]
    /\ poll' = [poll EXCEPT ![p].pc = IF Len(poll[p].page) = 1 THEN AfterPage(s) ELSE @,
                            ![p].page = Tail(@)]
    /\ UNCHANGED <<posts, enabled, config, legacy, lease, since, ended, rotation, bounds>>

\* Faulty variant: the cursor is the next message to read.
StageTooFar(p) ==
    LET c == config[poll[p].source]
        next == [c EXCEPT !.cursor = poll[p].high + 1]
    IN
    /\ poll[p].pc = "stage"
    /\ poll' = [poll EXCEPT ![p].pc = "commit", ![p].config = next, ![p].dirty = next # c]
    /\ UNCHANGED <<posts, enabled, config, legacy, lease, inbox, since, ended, rotation, bounds>>

\* The configuration is read again; a cursor that is further than ours is left alone.
Stage(p) ==
    LET c == config[poll[p].source]
        hint == poll[p].config.cursor > 0 /\ poll[p].fetched >= Page
        next == IF poll[p].high < c.cursor THEN c
                ELSE [c EXCEPT !.cursor = poll[p].high, !.hint = hint]
    IN
    /\ poll[p].pc = "stage"
    /\ poll' = [poll EXCEPT ![p].pc = "commit", ![p].config = next, ![p].dirty = next # c]
    /\ UNCHANGED <<posts, enabled, config, legacy, lease, inbox, since, ended, rotation, bounds>>

Commit(p) ==
    LET s == poll[p].source
        first == since[s] = Unread /\ poll[p].dirty
    IN
    /\ poll[p].pc = "commit"
    /\ config' = IF poll[p].dirty THEN [config EXCEPT ![s] = poll[p].config] ELSE config
    /\ since' = IF first THEN [since EXCEPT ![s] = poll[p].high - poll[p].fetched] ELSE since
    /\ poll' = [poll EXCEPT ![p].pc = "clear"]
    /\ UNCHANGED <<posts, enabled, legacy, lease, inbox, ended, rotation, bounds>>

\* What is left of a poll when it is over.
Over(p, pc) ==
    [NoPoll EXCEPT !.pc = pc, !.source = poll[p].source, !.late = poll[p].late]

\* A success closes the backoff.
Clear(p) ==
    LET s == poll[p].source
    IN
    /\ poll[p].pc = "clear"
    /\ config' = IF poll[p].config.until = 0 THEN config
                 ELSE [config EXCEPT ![s] = [poll[p].config EXCEPT !.until = 0]]
    /\ poll' = [poll EXCEPT ![p] = Over(p, "release")]
    /\ UNCHANGED <<posts, enabled, legacy, lease, inbox, since, ended, rotation, bounds>>

-----------------------------------------------------------------------------
(* How a poll ends otherwise. *)

Polling == {"fetch", "reconcile", "stage", "commit", "clear"}

\* An error or, for the worker, the timeout of a connector; the transaction is rolled back.
Fail(p) ==
    /\ poll[p].pc \in Polling /\ failures < MaxFailures
    /\ failures' = failures + 1
    /\ poll' = [poll EXCEPT ![p] = Over(p, IF p = Worker THEN "failed" ELSE "release")]
    /\ UNCHANGED <<posts, enabled, config, legacy, lease, inbox, since, ended, rotation, asked, faults>>

\* _record_failure reads the configuration again, and writes it.
ReadForFailure ==
    /\ poll[Worker].pc = "failed"
    /\ poll' = [poll EXCEPT ![Worker].pc = "record",
                            ![Worker].config = [config[poll[Worker].source] EXCEPT !.until = failures]]
    /\ UNCHANGED <<posts, enabled, config, legacy, lease, inbox, since, ended, rotation, bounds>>

RecordFailure ==
    /\ poll[Worker].pc = "record"
    /\ config' = [config EXCEPT ![poll[Worker].source] = poll[Worker].config]
    /\ poll' = [poll EXCEPT ![Worker] = Over(Worker, "release")]
    /\ UNCHANGED <<posts, enabled, legacy, lease, inbox, since, ended, rotation, bounds>>

\* Faulty variant: the lease of the source goes, whoever has it.
ReleaseAny(p) ==
    /\ poll[p].pc = "release"
    /\ lease' = [lease EXCEPT ![poll[p].source] = Free]
    /\ poll' = [poll EXCEPT ![p] = NoPoll]
    /\ UNCHANGED <<posts, enabled, config, legacy, inbox, since, ended, rotation, bounds>>

\* The lease is deleted by its token.
Release(p) ==
    LET s == poll[p].source
    IN
    /\ poll[p].pc = "release"
    /\ lease' = IF lease[s].holder = p THEN [lease EXCEPT ![s] = Free] ELSE lease
    /\ poll' = [poll EXCEPT ![p] = NoPoll]
    /\ UNCHANGED <<posts, enabled, config, legacy, inbox, since, ended, rotation, bounds>>

BackoffEnds(s) ==
    /\ BackoffActive(s, config[s])
    /\ ended' = [ended EXCEPT ![s] = config[s].until]
    /\ UNCHANGED <<posts, enabled, config, legacy, lease, inbox, since, rotation, poll, bounds>>

-----------------------------------------------------------------------------
(* Settings and lists. *)

\* The mapper writes an attribute only when it differs from what was read, and the
\* connector was read before the lease; the legacy source is read here.
WriteSettings(q) ==
    LET s == poll[q].source
    IN
    /\ poll[q].pc = "write"
    /\ enabled' = IF poll[q].wanted = poll[q].enabled THEN enabled
                  ELSE [enabled EXCEPT ![s] = poll[q].wanted]
    /\ legacy' = [legacy EXCEPT ![s] = poll[q].wanted]
    /\ poll' = [poll EXCEPT ![q] = Over(q, "release")]
    /\ UNCHANGED <<posts, config, lease, inbox, since, ended, rotation, bounds>>

\* LegacySourceMirror, without a lease.  The legacy sources are read first, the connector
\* of each later.
ReadMirrored(q) ==
    LET m == poll[q]
    IN
    /\ m.pc = "legacy"
    /\ poll' = [poll EXCEPT ![q] = [Read(m.source) EXCEPT !.pc = "mirror", !.wanted = m.wanted]]
    /\ UNCHANGED <<posts, enabled, config, legacy, lease, inbox, since, ended, rotation, bounds>>

\* The legacy source decides, and the configuration gets a mark.
Mirror(q) ==
    LET s == poll[q].source
    IN
    /\ poll[q].pc = "mirror"
    /\ enabled' = IF poll[q].wanted = poll[q].enabled THEN enabled
                  ELSE [enabled EXCEPT ![s] = poll[q].wanted]
    /\ config' = IF poll[q].config.mirrored THEN config
                 ELSE [config EXCEPT ![s] = [poll[q].config EXCEPT !.mirrored = TRUE]]
    /\ poll' = [poll EXCEPT ![q] = NoPoll]
    /\ UNCHANGED <<posts, legacy, lease, inbox, since, ended, rotation, bounds>>

-----------------------------------------------------------------------------
(* The world. *)

Post(s) ==
    /\ posts[s] < MaxMessages[s]
    /\ posts' = [posts EXCEPT ![s] = @ + 1]
    /\ UNCHANGED <<enabled, config, legacy, lease, inbox, since, ended, rotation, poll, bounds>>

Fault == faults < MaxFaults /\ faults' = faults + 1

Holding(p) == poll[p].pc \in Polling \cup {"failed", "record", "release", "write"}

\* The process goes, and with it what it remembers.
Die(p) ==
    /\ poll[p].pc # "idle" /\ Fault
    /\ poll' = [poll EXCEPT ![p] = NoPoll]
    /\ rotation' = IF p = Worker THEN [last |-> 0, todo |-> <<>>] ELSE rotation
    /\ UNCHANGED <<posts, enabled, config, legacy, lease, inbox, since, ended, asked, failures>>

\* A cancellation, or an error while a failure is recorded: the lease is released, the
\* rest of the window is left.
Cancel(p) ==
    /\ Holding(p) /\ poll[p].pc # "release" /\ Fault
    /\ poll' = [poll EXCEPT ![p] = Over(p, "release")]
    /\ rotation' = IF p = Worker THEN [rotation EXCEPT !.todo = <<>>] ELSE rotation
    /\ UNCHANGED <<posts, enabled, config, legacy, lease, inbox, since, ended, asked, failures>>

ReleaseFails(p) ==
    /\ poll[p].pc = "release" /\ Fault
    /\ poll' = [poll EXCEPT ![p] = NoPoll]
    /\ UNCHANGED <<posts, enabled, config, legacy, lease, inbox, since, ended, rotation, asked, failures>>

Carried(s) == \E p \in Pollers : lease[s].holder = p /\ Holding(p) /\ poll[p].source = s

Expire(s) ==
    /\ lease[s].live /\ ~Carried(s)
    /\ lease' = [lease EXCEPT ![s].live = FALSE]
    /\ UNCHANGED <<posts, enabled, config, legacy, inbox, since, ended, rotation, poll, bounds>>

\* The worker gives up after a minute of the lease's ten, a request does not.
Outlive(s) ==
    /\ lease[s].live /\ Carried(s) /\ lease[s].holder # Worker /\ Fault
    /\ lease' = [lease EXCEPT ![s].live = FALSE]
    /\ poll' = [poll EXCEPT ![lease[s].holder].late = TRUE]
    /\ UNCHANGED <<posts, enabled, config, legacy, inbox, since, ended, rotation, asked, failures>>

Proceed(p) ==
    \/ Acquire(p) \/ Fetch(p) \/ Reconcile(p) \/ Stage(p) \/ Commit(p) \/ Clear(p) \/ Release(p)

Work == Tick \/ StartNext \/ ReadForFailure \/ RecordFailure \/ Proceed(Worker)
Serve(q) == Proceed(q) \/ WriteSettings(q) \/ ReadMirrored(q) \/ Mirror(q)

Next ==
    \/ Work
    \/ \E q \in Requests : Ask(q) \/ Serve(q)
    \/ \E p \in Pollers : Fail(p) \/ Die(p) \/ Cancel(p) \/ ReleaseFails(p)
    \/ \E s \in Ids : Post(s) \/ BackoffEnds(s) \/ Expire(s) \/ Outlive(s)

Spec == Init /\ [][Next]_vars

\* The worker goes on, requests are served, and time passes.
Fairness ==
    /\ WF_vars(Work)
    /\ \A q \in Requests : WF_vars(Serve(q))
    /\ \A s \in Ids : WF_vars(BackoffEnds(s)) /\ WF_vars(Expire(s))

FairSpec == Spec /\ Fairness

-----------------------------------------------------------------------------
(* Properties. *)

\* Every variable has its type.
TypeOK ==
    /\ posts \in [Ids -> 1..Most]
    /\ enabled \in [Ids -> BOOLEAN] /\ legacy \in [Ids -> BOOLEAN]
    /\ config \in [Ids -> Config]
    /\ lease \in [Ids -> [holder : Pollers \cup {Nobody}, live : BOOLEAN]]
    /\ inbox \in [Ids -> SUBSET (1..Most)]
    /\ since \in [Ids -> Unread..Most] /\ ended \in [Ids -> 0..MaxFailures]
    /\ rotation.last \in 0..Sources /\ rotation.todo \in SeqOf(Ids, Sources)
    /\ \A p \in Pollers : poll[p].source \in Ids /\ poll[p].config \in Config
    /\ asked \in 0..MaxAsked /\ failures \in 0..MaxFailures /\ faults \in 0..MaxFaults

\* What the cursor has passed is in the inbox, whatever failed or overlapped
\* (telegram_source_ingestion.py: "drained without gaps").  Not said of a source that is
\* being read for the first time: who read its connector before the first cursor was
\* stored starts from the newest messages again, and what came in between is left out.
NoGap ==
    \A s \in Telegram \ Fresh : (since[s] + 1)..config[s].cursor \subseteq inbox[s]

\* Two polls of one source overlap only if one has outlived its lease: nobody else takes
\* the lease of a poll that is under way (source_ingestion_lease.py).
LeaseHeld ==
    \A p \in Pollers : Holding(p) /\ ~poll[p].late =>
        lease[poll[p].source] = [holder |-> p, live |-> TRUE]

\* Whatever a source that stays enabled brings reaches the inbox: windows, backoff, busy
\* and abandoned leases only delay it
\* (test_worker_rotates_bounded_connector_window_without_starvation).
Drained ==
    \A s \in Telegram \ Fresh :
        []<>(~enabled[s] \/ (since[s] + 1)..posts[s] \subseteq inbox[s])
================================================================================
