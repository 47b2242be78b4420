# Verification of refactor-bot

TLA+ models of the parts of refactor-bot that decide what is posted to a Telegram
channel, when, and how often; TLC runs that check them on small instances; and TLAPS
proofs of what matters most for instances of every size. Paths are relative to the
repository (`src/` here); `services/x.py` stands for `src/app/services/x.py`, `workers/`
likewise.

## 1. The system

refactor-bot is one Python process (`python -m app.bot.dispatcher`): an aiogram bot, a
FastAPI application behind the Studio front end, and about a dozen polling workers
(`core/runner.py`, `PollingLoop`: call `on_tick`, log what it raises, sleep, repeat) that
share one SQL database. Everything durable is a row; workers, bot and Studio interact only
by reading and writing rows. The default database is SQLite; PostgreSQL is supported.
`docs/deployment-recovery.md` asks for one foreground process, and the code defends itself
against several with leases, unique constraints and `SELECT ... FOR UPDATE`.

What makes the behaviour hard is the distance between three things: the rows, the
provider (a call to Telegram can neither be rolled back nor asked whether it happened),
and a process that may die between any two of its transactions. A second one is the
database: on PostgreSQL a transaction that locks the rows it reads is one step. On SQLite
`FOR UPDATE` is ignored, and the driver sends `BEGIN` only with the first write, so a
transaction that proves something by reading and then writes *by primary key* is two
steps, and anything may be committed between them. (A write that carries its condition in
its `WHERE` is safe on both.) The constant `RowLocks` of the models makes the choice.

### Inventory

Sizes are lines of code; `PROJECT.json` lists the files of every component and its status.

| Component | State | Operations | Hard behaviour | What makes it correct |
|---|---|---|---|---|
| **Canonical delivery** (`services/canonical_publication_delivery_*`, 5 k) | `publications`, `schedule_entries`, `publication_attempts`, delivery leases, action ledger, autodelete token in `Publication.meta` | plan, claim, record targets, renew, send, hook (timer, pin, forwards), finalize | claim races; call outliving its lease; crash after the send; hook failing half way; channel disconnected meanwhile | at most one send; ledger tells the truth; outcomes final; rows agree; published only as planned |
| **Delivery recovery** | leases | list expired, take over, close as failed | dies between takeover and close; races the late worker | every delivery ends; nothing is sent again |
| **Repeat continuation** (`workers/canonical_repeat_continuation.py`, `services/canonical_repeat_*`, 2 k) | reservation in the metadata of publication and schedule entry, `repeat_source_publication_id`, cursor in memory | scan, verify, reserve, materialize | passes with different clocks; crash between reserve and materialize; edits and metadata writers in between; paging | one successor per source; slot kept once reserved; series on its grid; no source starved |
| **Content plan controls** | the same rows | cancel, delay, repeat on/off, edit | race the claim | refused once delivery began |
| **Studio planner** (`services/planner.py`) | the same rows | reschedule, cancel | race the claim | an accepted cancellation is kept |
| **Bulk removal** (`services/admin_remove_allrepeat.py`) | the same rows | cancel all repeats, strip deletion options | unlocked read, late write | terminal history preserved |
| **Editing after publication** (`canonical_publication_edit.py`, `publication_edit_persistence.py`) | revision, metadata | preflight, provider edit, persist | provider accepted, database refuses; unknown outcome | rows show what the channel shows |
| **Autodelete by time / by views / mixed** (`publication_autodelete*`, 7 k with workers) | lease, action ledger, state in metadata | candidate, acquire, delete, mark, report | partial deletion; lease lost; a view count that moves | deleted once, marked only when done |
| **Provider sender** (`document_posting.py`, `posting.py`) | none | send, forward with fallback to copy, retry | unknown outcome before a fallback | one post per call |
| **Scheduling and creation** (`canonical_schedule_materializer.py`, `posting_dedupe.py`, `manual_publish.py`) | content, schedule, publication, dedupe lock | schedule, publish now | double submission | one publication per key |
| **Source ingestion** (`source_ingestion*.py`, `source_reconciliation.py`, 3 k) | connector, checkpoint, lease, items | acquire, fetch, store, move checkpoint, release | overlapping polls; crash between store and checkpoint | no post twice, none skipped |
| **Candidates** (`services/candidate_*.py`, 3 k) | candidate with its metadata, runs of enrichment and rewriting | enrich, rewrite, edit a proposal, apply, draft, dismiss, restore | late answers on edited candidates; metadata written as a whole | an answer belongs to what was asked; one draft, of what the editor saw |
| **Channel DM replies** (`channel_dm_reply*.py`, 2 k) | proposals, intents, commands | draft, edit, send | unknown outcome, stale source | one reply per intent |
| **Admin agent** (`admin_agent*.py`, 7 k) | conversations, approvals, series approvals, execution fence | propose, approve, execute, recover | double approval, expiry, stale document | an approval is used once, for what it approved |
| **AI runs** (`ai_run_leases.py`, `ai_run_retention.py`) | runs, leases | start, finish, take over, retain | process dies in a run; retention beside requests | a run ends; the current one is kept |
| **Automations of the agent** (`admin_agent_automations.py`, `admin_agent.py`) | automation with claim and next occurrence, run with phase, claim, events, artifacts | claim, run, advance, pause, continue, resume | claim outlived during a model call; crash in a run; run resumed while at work | model asked once per occurrence; drafts written once; no due occurrence forgotten |
| Join requests, suggested posts, onboarding | request rows | decide, execute | external answer lost | one decision |
| Polling loop, start-up, configuration, schema | none durable | start, tick, stop | tick raising | ticks go on |
| Bot routers, Studio API and front end, userbot, LLM client, migrations | dialogue state | translate to service calls | — | — |

### Interactions

Delivery turns a queued publication into `published`, `failed` or `cancelled`. A published
one whose schedule repeats is a *source* for the continuation, which creates the next queued
publication of the series, and a candidate for the autodelete workers, which act on the
token the delivery hook left. Owner controls act on queued publications, edits also on
published ones. Several of these write the same JSON column, `Publication.meta`.

Source ingestion fills the inbox of candidates, which are enriched, rewritten and accepted
as drafts while further polls store other texts; a direct message among them may be
answered by a reply command. The agent's automations leave drafts, which its approvals turn into
schedule entries with queued publications, from where delivery takes them.

## 2. Modules

| Module | Models | Role |
|---|---|---|
| `PublicationDelivery` | delivery, recovery, controls, planner, bulk removal | rows of a publication, workers step by step |
| `PublicationLifecycle` | — | abstract: withdrawn or begun once, posted at most once, published only after posting, outcomes final |
| `RepeatContinuation` | continuation, controls, edits, deletion mark, late writes | a series of occurrences and the workers that extend it |
| `RepeatSeries` | — | abstract: a line whose last element alone may wait |
| `PublishedPost` | autodelete by time (and by views up to its lease), editing after publication | a post in the channel, the workers that delete it, the edits that change it |
| `ChannelDMReply` | drafts, reviews and commands of replies to subscribers | overlapping requests about one message |
| `DraftApproval` | approvals of one draft and of a series, their execution and takeover | overlapping requests about the agent's proposals |
| `AgentAutomation` | heartbeat, runs and their resumption | occurrences of a schedule that each ask the model |
| `SourceIngestion` | rotation, leases, pages, cursor, backoff, settings | sources and whoever polls them |
| `CandidateInbox` | runs of enrichment and rewriting with their leases, edits of a proposal, drafts, polls, retention | one candidate of the Sources Inbox |
| `PublicationDelivery_proofs`, `RepeatContinuation_proofs`, `ChannelDMReply_proofs`, `SourceIngestion_proofs`, `AgentAutomation_proofs`, `PublishedPost_proofs`, `DraftApproval_proofs`, `CandidateInbox_proofs` | — | theorems |
| `MC…` | — | instances and symmetry; in `MCRepeatContinuation` also the loop of `compute_next_repeat_time`, compared with the closed form the model uses |

### PublicationDelivery

Every variable but the workers' memory is a column. `status`, `schedule`, `attempt`, `ids`
are the statuses of publication, schedule entry and attempt #1 and the recorded message
ids; `token`/`ttl` the delivery lease (`token = 0`: no row); `ledger` the action rows;
`timer` the autodelete token. `intent` is a version number for everything a plan snapshots
(content revision, channel, schedule, options): two plans are equal exactly when the
versions are, and a finalizer compares what it sent with what the rows say. `sends` and
`calls` count provider calls; no action reads them.

A delivery worker goes through the places of `Places`: `claim` (SQLite only: planned, not
yet written) – `claimed` – `recorded` – `ready` – `sent` or `rejected` – `timer` –
`actions` – the post actions, each `reserve`, `fresh` (proved again), `call`, then
`succeeded` or `unknown` – `settle` (hook finished, heartbeat to be stopped) – `publish` or
`fail`. `hb` is its heartbeat task: renewing, lost, off. `proof` is what a transaction read
when reads and writes are separate. `Stop(e)` loses a worker anywhere; `CancelAction` is
cancellation inside a provider call; `HookFails` and `PostActionsFail` are the exceptions
the hook logs. `Claimable`, `InFlight`, `Authorized`, `Proven` are the guards that the code
repeats before every step (planner, finalizer, lifecycle authority).

Abstractions: a publication owns its channel and forward targets (`active`); lease clocks
count down (`Age`) instead of comparing timestamps, which loses nothing since only order
counts; publications are independent of each other except for workers' time, so runs use
one; the rate limiter and its retries are inside the one provider call.

### RepeatContinuation

`occ[i]` is the i-th occurrence: publication and schedule entry in one record with status,
slot, repeat rule, group, content revision, lineage (`source`) and the two copies of the
reservation. A pass of a worker is `StartPass` (the clock is read once), `Select`, and for
each source `Verify`, `Reserve`, `Materialize`, each a transaction. `Deliver` is
PublicationDelivery as one step. Controls (`Cancel`, `Reschedule`, `StartRepeat`,
`StopRepeat`, `Edit`) change waiting occurrences, `Edit` also published ones. Writers that
write late what they read early are split: `ReadReserve`/`WriteReserve`,
`ReadMaterialize`/`WriteMaterialize`, `ReadEdit`/`WriteEdit`,
`ReadMarkDeleted`/`WriteMarkDeleted` without row locks, and `ReadUnlocked`/`WriteUnlocked`
for the Studio planner (SQLite) and the bulk removal (both databases).

Abstractions: content is its revision number; runtime options change only with it; the
channel stays active; time is a small number; controls of the content plan are one step
(their SQLite split is in PublicationDelivery). The authority's check of the delivery
attempt is the status: publication, schedule entry and attempt change together there.

A consequence seen while modelling: an edit of an older, published occurrence raises the
item's current revision, so a successor that is already queued with the earlier one can no
longer be edited (`Editable`).

### PublishedPost

`pub[p]` is a publication with its schedule entry: revision, message ids, the deletion it was
planned with, whether it is due, marked deleted, watched by its views, barred by migrated
evidence. `row` is the action ledger, one row for a message; `lease` the autodelete lease.
`gone` and `shown` are Telegram: messages that are no longer there, and the edit each one
shows. A worker (`Select`, `Acquire`, `Read`, `Reserve`, `Delete`, `Mark`, `MarkDeleted`,
`Report`, `Release`) leases a publication from a batch behind a cursor, reserves one message after
another, asks Telegram between two transactions, and marks the publication in the end. An
editor reads, asks Telegram (a changed text, or another message of the post when the first
refuses), and persists a revision unless the publication changed meanwhile. The views
worker is modelled up to its lease (finding 1). The authority fingerprint is the revision;
lease expiry is a flag (`Expire`; `Outlive` for one whose holder still works). The module
honours row locks; SQLite's split transactions are not modelled here. The adapters for
repeats with pins and forwards admit other candidates to the same path and are not told
apart.

### ChannelDMReply

`intents` (drafts under review) and `commands` are rows by id, `lock` who holds the
candidate with its document (0) or an intent. Requests draft, edit, dismiss, send, list, or
reply directly under a key of their own. `Begin` reads, `Serve` is what a request does step
by step: taking locks in the order of the code, aborted when two wait for each other,
reserving a command, one call of Telegram, marking its outcome. `EditMessage` is the
subscriber, `Reroute` whatever takes the connector's trust away. With `locking = FALSE` the
locks are not there and what was read is written back by primary key.

### DraftApproval

`row` holds approvals of one draft and of a series alike, with a claim that is `fresh` for
thirty seconds; `entry` holds schedule entries with their publications and the execution
key (`by`) they carry. A request reads (`Decide`…), claims or takes over, and then fences,
looks, queues and settles draft by draft (`Fence`, `Queue`, `Settle`); a series does so for
one part after another. `Edit` stands for anything that changes a draft, `Shift` for a
change of the channel's time zone or day, `OwnerSchedules` and `OwnerChanges` for the owner
in the bot. Identities of requests and the contract of the run a draft came from are
immutable data and left out.

### AgentAutomation

`automation` is the row of a schedule with its claim, `run[a][o]` the run of its o-th
occurrence with claim and artifacts, `due` and `late` how far the clock and the grace of a
missed occurrence are. A heartbeat ticks (the time is read once), picks, processes, inserts
a run and then follows the `Script` of the automation's skill, its transactions; a request pauses,
continues, or resumes a run at the phase it finds. Events of a run carry numbers that each
writer counts for itself: `behind` counts the events others wrote meanwhile, and a writer
that is behind fails (`Taken`). Pause and continue are written as the mapper does it, only
where they differ from what was read. The skill that only reads cannot be resumed. A series
goes through the steps of a batch of drafts, but its result is refused once the owner has
regraded one of its drafts (`Regrade`, `SeriesHold`); `kept` remembers it. Runs started by
hand take the same steps under the key of their request and are left out.

### SourceIngestion

`config` is the JSON column of a connector: cursor, backlog hint, backoff, what the legacy
mirror adds; who writes it writes all of it. The worker rotates through a window of
connectors, takes a lease, reads a page (after the cursor, or the newest messages for a
source without one), reconciles the messages one by one, then stores the cursor. The Studio polls one
source, changes its settings under the lease, and lists sources, which mirrors legacy rows:
they are read first, then each connector, which is written without a lease.
Contents of documents, health columns, the doctor and the parsing of feeds are left out.

### CandidateInbox

`text` and `policy` are the source's document and the connector's policy, `candidate` the row
with its metadata column (`meta`: policy, current enrichment, current rewrite), `runs` the
rows of both tables in order of creation, `drafts` the content items made of it. A request or
the local worker begins a run (`Begin`: `TurnAway`, `Reuse` or `Open`), asks the model outside
any transaction, and ends it (`Finish`, `ModelFails`); what becomes of an answer is `Verdict`.
An edit reads the proposal first (`ReadProposal`) and carries it as the run it expects to be
current. `OpenDraft`/`StoreDraft` and `Apply` accept the candidate; a poll reads the connector
(`ReadSource`), later writes the text (`StoreText`) and then the candidate (`StoreCandidate`);
`Scan`/`Sweep` are the retention, `SetStatus` and `SetPolicy` the editor. Row locks are honoured: who needs the candidate and its document waits for a draft
and a poll that hold one of them. Both tables share one numbering; a run is the input it was
made of (text, policy, and for an edit or a prompted rewrite its `Variant`: the run it starts from
and what the editor asks for) and its fate, and an answer is its run.

## 3. Runs

| Run | Instance | Shows |
|---|---|---|
| `delivery_locks` | PostgreSQL, fair; 2 delivery workers, 1 recovery worker, 2 post actions, timer, 2 crashes | `TypeOK`; `NothingSentUnlessClaimed` (an accepted cancellation is kept), `PublishedAsPlanned` (with its timer before any post action), `ExpiredIsNeverPublished`, `SendingEnds`; implements `PublicationLifecycle` (`KeepsLifecycle`) |
| `delivery_sqlite` | SQLite, bulk removal, Studio planner; 2+1 workers, 2 post actions | what survives reads without locks and late writes: `AtMostOneSend`, `LedgerIsTruthful` |
| `repeat_series` | PostgreSQL, fair; 1 worker, 3 occurrences, 2 revisions, a fault | `TypeOK`, `SeriesIsALine`, `ReservationIsDurable`, `SuccessorContinuesSource`, `SeriesContinues`; implements `RepeatSeries` (`KeepsSeries`) |
| `repeat_unlocked` | SQLite; 2 workers, 3 occurrences; edits, deletion marks and late controls, two under way | `OnlyLastWaits` |
| `published_post` | a post of 2 messages, 2 workers, 2 edits, a fault | `TypeOK`, `DeletedOnce`, `ChannelShowsRevision`, `NothingReservedAfterwards` |
| `published_post_liveness` | 2 posts, 2 workers and the views worker, fair, a fault | `DueIsDeleted` |
| `dm_reply` | both databases; 3 requests, 2 at a time, 2 versions of the message, a death; fair | `TypeOK`, `AtMostOneCall`, `SentAsReviewed`, `RequestsEnd` |
| `approvals` | both databases; 2 drafts, 2 proposals, 2 requests, a change, a fault | `TypeOK`, `ScheduledOnce`, `OneTarget` |
| `automations` | 1 automation, reading or writing a series, 1 occurrence, 2 heartbeats, 1 request, a change or a fault; fair | `TypeOK`, `RunOnce`, `NoneSkipped`, `DueIsHandled` |
| `ingestion` | 2 sources, one with a cursor, 1 request, a failure, a fault; fair | `TypeOK`, `NoGap`, `LeaseHeld`, `Drained` |
| `inbox` | PostgreSQL; 2 requests and the local worker, 2 texts, 2 policies, plain and structured rewrites, 4 events; fair | `TypeOK`, `PointersHold`, `DraftAsSeen`, `CurrentIsEarned`, `UntouchedIsEnriched` |
| `views_never_delete` | *violation* of `ViewsDelete` | finding 1 |

Every property of a passing run has a *faulty variant* of a definition in its module (named
in `PROJECT.json`, "mutants") under which the run fails.

### Bounds

- Two workers of a kind: every race in the code is between a pair on one row. `ingestion` has
  one worker (the code starts one) and one request of the Studio.
- Delivery. `MaxTokens`: the delivery's own token and takeovers, more than there are faults,
  so recovery is never out of tokens (a token is never issued twice: `uuid4`). `LeaseTTL` 1
  or 2, `RecoveryTTL` 1: 1 separates live from expired; 2 lets a renewal be late without
  being lost. `MaxIntent`, `MaxFlips` 1–2: one change before the plan and one after it; off
  and on. `PostActionCount` 2: a chain that can break in the middle.
- Repeats. `MaxOccurrences` 3: first, a middle one that is source and successor, last.
  `MaxTime` 2 with interval 2: a slot that has passed when it is reserved or materialized,
  and a grid coarser than the clock; 1 in `repeat_unlocked`, enough for two workers to plan
  different slots for one source. `BatchSize` 1 < `ScanLimit` 2 < `MaxOccurrences`: a batch that
  fills within a page, a page that is not the last; in `repeat_unlocked`, where nothing is asked
  about paging, a page holds everything. `TwoUnderWay` constrains that run: two passes, or a
  pass and a late write, or two late writes of different kinds overlap, never three, and a
  series that has its last occurrence is not followed further.
- Published posts. Two messages: a deletion that is half done. `MaxEdits` 2: two that
  overlap. `BatchSize` 1 of 2 publications: a cursor that must come back.
- Replies. `MaxRequests` 3: one that drafts and two that send, edit or dismiss at once.
  `MaxSource` 2: one edit by the subscriber.
- Approvals. `MaxApprovals` 2: an approval of a draft beside one of its series.
- Automations. `Occurrences` 1: what is raced for is one occurrence; the next is what the
  schedule advances to. `Times` has one more, for which two requests that continue the automation
  could let a run begin early. `PerTick` 2: a heartbeat that goes on with the clock it has. Initially
  the automation may have been paused, so that one request can continue it; a single flip
  takes the owner's channel away, or regrades a draft, and does so only when a step is about to
  look at it: earlier it would be noticed by nobody. `OneDisturbance` constrains the run to a
  change or a fault; neither is fair, so what is cut off is no behaviour that must go on. `Skills`: attention and series; single drafts behave as a
  series that nobody regrades.
- Sources. `Page` 1 and up to 3 messages: several pages and messages that arrive in between;
  `Window` 1 of 2 sources: rotation.
- Inbox. `MaxEvents` 4 counts requests, polls, changes of policy, deaths and leases outlived:
  enough for two edits of one proposal, or a draft beside a poll and a rewrite. `KeepRecent` 1:
  the newest old run and the current one may differ. `Instructions` 2: two edits of one
  proposal that ask for the same, or for different things. `Kinds` are a plain and a structured
  rewrite; an enrichment by a model and a rewrite after an instruction take the same steps.
- `MaxFaults` 1 (2 in `delivery_locks`), `MaxUnlocked`, `MaxFailures`, `MaxAsked`, `MaxChanges`: to
  keep runs within minutes. The theorems have no bound.

Deadlock is not checked: when everything bounded has happened the system rests. That
requests do not wait for each other for ever is `RequestsEnd`.

### Fairness

- `PublicationDelivery`: what a worker does of itself after a claim (`Advance`: its awaits
  return, and it is enabled only while the worker lives), recovery (`Recover`:
  `PollingLoop` calls it every 60 s whatever a pass raised) and the clock (`Age`). Claims,
  controls, heartbeats, stops and faults are not fair. The run has one recovery worker: two
  that keep overtaking each other's short lease are bounded only by `MaxTokens`.
- `RepeatContinuation`: each worker's pass (`Work`), for the same reason.
- `PublishedPost`: each worker's loop (`Work`), which goes on whatever a publication raised;
  timers come due and abandoned leases expire. Edits are not fair.
- `ChannelDMReply`: a request that runs goes on; the database aborts one of two that
  deadlock.
- `AgentAutomation`: the heartbeat (its loop logs what a tick raises; a call of the model has
  a timeout) and the expiry of claims whose holder is gone. The clock, requests and their
  claims of runs are not fair.
- `SourceIngestion`: the worker, requests under way, backoffs and leases that run out.
- `CandidateInbox`: the local worker (its loop goes on whatever a tick raises; it runs only if
  `LOCAL_ENRICHMENT_WORKER_ENABLED` is set, which is not the default), the second half of
  requests and polls that have begun, and leases that run out.

## 4. Findings and observations

Findings are disagreements between a sentence of the repository and what its code does; the
runs give the behaviours.

1. `views_never_delete`: the views worker passes an argument that the lease service does not
   take (`workers/publication_autodelete_views.py:130`), so every candidate raises
   `TypeError` and nothing is ever deleted by its views, against
   `tests/test_post_task_retirement_canonical_e2e.py:348-349`.

Observations: behaviours of the code that the models reach and that a property of a passing
run therefore excludes or does not speak of.

- Delivery. An error of the hook's first read publishes a post without its timer
  (`canonical_publication_delivery_executor.py:220`), so the timer part of
  `PublishedAsPlanned` speaks of actions, not of publication. On SQLite an edit that began before the claim is written
  after it (`queued_canonical_publication_edit.py:241`), and the finalizer then refuses what
  was sent; the Studio planner may cancel what was claimed (`planner.py:230`). The bulk
  removal overwrites outcomes on any database (`admin_remove_allrepeat.py:84`), so
  `delivery_sqlite` asks only for what survives it.
- Repeats. On SQLite the autodelete worker's mark may erase one half of a reservation
  (`publication_autodelete.py:543`); the verifier then reports a conflict for good and the
  series ends. An edit of an older, published occurrence makes a queued successor
  uneditable.
- Published posts. An edit between the deletion of two messages blocks the rest for good
  (`Blocked`). An edit persisted after a deletion resets the mark
  (`publication_edit_autodelete.py:162-175`). A change of options alone can get "message is
  not modified" and fall back to another message of the post.
- Replies. A list that read the document before the subscriber's edit marks a newer draft
  stale, even one that is being sent (`channel_dm_reply_intents.py:682`; four requests). On
  SQLite two tabs that send one draft may store two commands, and two replies go out;
  `tests/test_channel_dm_reply_intent_concurrency.py:96` starts the second tab only after the
  first has committed.
- Approvals. `_mark_stale` and `_terminal_failure` write by primary key without the fence, so
  a request whose claim was taken over may call an executed series stale
  (`admin_agent_series_approvals.py:1088`). On SQLite a single draft is scheduled twice if
  the owner cancels the first schedule between the two looks of a takeover; `ScheduledOnce`
  excludes that case.
- Automations. A request that continues an automation writes the next occurrence from the
  row it read. Two that both read it switched off may pass over an occurrence: one continues, the
  occurrence becomes due, the other writes the schedule beyond it. `NoneSkippedCorrect` therefore speaks of
  one request at a time, and the run has one. The first execution of a run holds no claim of it, and a request may resume
  it meanwhile. Whoever loses an event number or the artifacts then marks the run failed, even after
  the other has completed it (`admin_agent.py:1946`), although the comment at 1914-1916
  wants a completed run never to be turned back. A missed occurrence advances the schedule
  past everything that is due, including a later occurrence still within its grace. A series
  whose run failed after its drafts were written fails closed for good when it is resumed after
  the owner called one of them ready or archived it (`admin_agent.py:1573`), while
  single drafts can still be completed. The skill that only reads writes its last event inside the
  handler, so an error of that event marks a completed run failed (`admin_agent.py:1839-1877`).
- Sources. A fresh source whose connector was read before its first cursor was stored, or
  whose first cursor was overwritten by a mirror or a cleared failure that began earlier, starts
  from its newest messages again and leaves out what came in between, so `NoGap` speaks of
  sources that have a cursor; the docstring of `telegram_source_ingestion.py` says "drained
  without gaps". A change of settings that read the connector before its lease can leave
  `SourceConnector.enabled` and the legacy row in disagreement until the next listing. A
  source disabled between read and lease is still polled once.
- Inbox. The worker and the batch choose untouched candidates first and enrich them later, so
  they may replace an enrichment by a model that an editor asked for meanwhile, against the
  worker's docstring (`workers/candidate_enrichment.py:34-39`). The retention reads the
  pointers and deletes afterwards: a run that a restored candidate takes up again in between
  is deleted although it is current (`ai_run_retention.py:131-169`); it also looks at the same
  first hundred candidates every time. A draft can be made of a dismissed candidate. A
  restored candidate keeps its draft, and Apply then returns that draft, not the proposal. A
  draft under "summarize" takes the candidate's summary whatever text it was made of. On SQLite
  two requests may both open a run, and writers of the metadata may take back each other's
  pointer. A poll and an enrichment lock candidate and document in different orders
  (`source_reconciliation.py:274`), so PostgreSQL may abort one of them.
- Creation. `PostingService.schedule` takes a key that would make a second request find the
  first publication, but none of its callers gives one (`manual_publish.py:111`,
  `posting_publish.py:338`, `main.py:137`), so only the dialogue's state keeps a second press from scheduling again.
- Scheduled texts. A task of `workers/ai_auto_tasks.py` is due only within its very minute
  (line 72); the loop sleeps sixty seconds after each tick, and a tick lasts as long as the models
  it asks, so a minute can pass between two ticks and the task is not run that day.

## 5. Proofs

Every safety invariant and every action property that a passing run checks is also a theorem,
under conditions that the instance of the run meets, and so are both refinements. The theorems hold for every number of publications, workers,
requests, sources and automations and for every bound. What they take from the constants is the named assumption of
each module (`DeliveryAssumption`, `RepeatAssumption`, `ChannelDMReplyAssumption`,
`SourceIngestionAssumption`, `AgentAutomationAssumption`, `PublishedPostAssumption`,
`DraftApprovalAssumption`, `CandidateInboxAssumption`), which TLC evaluates in every run: types, bounds that are naturals, and names that differ ("nobody" is no
worker; a client's key is not one the service draws; a Telegram message belongs to one post and
occurs in it once). What a theorem assumes beyond that, it says.

Every proof follows one pattern: the types are made inductive first, with what each
process remembers of the rows it stands on; then the property is strengthened until a step
of one process cannot break what another relies on.

### PublicationDelivery_proofs

- `TypeCorrect`: `Spec => []TypeOK`, on both databases.
- `SentAtMostOnce`: `Spec => []AtMostOneSend`, on both databases, with planner and bulk
  removal. `AtMostOneSend` is not inductive: nothing in it says why the next send is the
  first. `SendInv` adds it: a worker past its claim stands on a publication whose attempt
  exists; no two such workers stand on the same one; a publication without an attempt was
  not sent, nor was one whose worker is still before its send. A claim needs `attempt =
  "none"` (by its plan, or on SQLite by compare-and-set of the attempt count), no step ever
  takes an attempt away, and so the one worker that leaves `ready` does so once.
- `LedgerCorrect`: `Spec => []LedgerIsTruthful`, on both databases. `LedgerInv` ties the row
  of an action to the worker that reserved it: while it stands before its call the row is
  reserved and nobody was asked, after the call once. That nobody else touches the row is
  the second part of `SendInv`.
- `NothingSentBeforeClaim`: with row locks and without the bulk removal, `Spec =>
  []NothingSentUnlessClaimed`. `ClaimInv`: no attempt exactly while queued or cancelled.
  Both conditions are needed: a late write of the planner, or of the removal, cancels what
  was claimed.
- `PublishedCorrect`: under the same conditions `Spec => []PublishedAsPlanned`. `PlanInv`: a worker that
  stands after its send has sent once, and a finalizer writes the ids and the version it
  verified. `TimerInv`: past the timer step, or with a row in the ledger, the timer is there.
- `LifecycleKept`: under the same conditions `Spec => KeepsLifecycle`: every step maps to a step of
  `PublicationLifecycle` or to a stutter.
- `ExpiredStaysUnpublished`: with row locks `Spec => ExpiredIsNeverPublished`, a property of
  whole behaviours. A lease that has expired is lost (`Lost`): tokens are numbered as they are issued
  (`TokenInv`), a takeover issues a new one, and only the holder of the current one can
  publish; `Lost` is kept by every step.

### RepeatContinuation_proofs

- `TypeCorrect`: `Spec => []TypeOK`; the step that needs work is that the slot computed is a
  natural and the source a worker looks at is the least of a non-empty set, for which the
  module proves that `Min` and `Max` of the community modules return an element (`Min` by
  well-foundedness of finite sets, `Max` by reflecting).
- `OnlyLastWaitsCorrect`: `Spec => []OnlyLastWaits`, on any setting. `SeriesInv` adds the lineage
  (every occurrence but the first continues the one before it) and that a worker about to
  insert stands on a source that is published, or was and has been cancelled since. An insertion has a
  source no row names, and by the lineage every occurrence but the last is named, so the
  source is the last one; and no write, however late, makes a row wait again that did not.
- `LineCorrect`: if no control reads without a lock (`MaxUnlocked = 0`), `Spec =>
  []SeriesIsALine`, on both databases. The invariant `LineInv` adds that a worker about to
  insert stands on an occurrence that is published with its repeat on, and inserts that
  very interval; no step undoes it. Together with lineage: whatever stands before the last was published, so
  controls reach the last one alone.
- `ReservationCorrect`: with row locks and `MaxUnlocked = 0`, `Spec =>
  ReservationIsDurable`. The invariant `Whole` says that no transaction is ever open between
  its reads and its writes; what is left writes a reservation where there was none, or the
  same again.
- `SuccessorCorrect`: under the same conditions `Spec => SuccessorContinuesSource`. `Planned` says
  that a reserved slot lies on the grid of its source and after it; the arithmetic of
  `NextRepeatTime` (later than both, a whole number of intervals away) is a lemma.
- `SeriesRefined`: under the condition of `LineCorrect`, `Spec => Series!Spec`: every step
  maps to `Set`, `Settle`, `Continue` or a stutter of `RepeatSeries`.

### ChannelDMReply_proofs

- `TypeCorrect`: `Spec => []TypeOK`, on both databases. `TypeInv` adds that there are no more
  rows than requests (`Budget`), that keys are unique, that at most one draft is under review, and
  where each request stands with the rows it has read (`Placed`).
- `CalledOnce`: `Spec => []AtMostOneCall`, on both databases. `CallInv`: no two
  requests have one command in hand; who is before the call finds it marked as started and never
  called; a command that was not started was not called, and its final state says what
  Telegram did. For "one command of a draft", which needs locks,
  `HandoffInv` says that a draft carries a key from the moment it is handed over and the
  command of that key, and none but it, answers it.
- `SentAsReviewedCorrect`: `Spec => SentAsReviewed` (the property itself speaks of row locks).
  A handed-over draft is bound to its command; edits, dismissals and lists change drafts only while
  they are under review, and where they look and write is one transaction.

### SourceIngestion_proofs

- `TypeCorrect`: `Spec => []TypeOK`. The order of the rotation never names more sources than
  there are, and a page that was read ends at a message that exists.
- `LeaseCorrect`: `Spec => []LeaseHeld`. The property is inductive over the types; the work is in
  the release, which compares holders, and in the two kinds of expiry.
- `NoGapCorrect`: `Spec => []NoGap`. Cursors are not monotonic: a stale configuration written back
  may lower one. `GapInv` therefore speaks of every copy: a configuration, in the row or in the memory of a
  poll, has a cursor below which everything since the start is in the inbox
  (`SourcesCovered`, `PollsCovered`), and the page a poll is storing closes the way from its
  cursor to the end of the page. Since nothing leaves the inbox, any of these copies may
  be written at any time.

### AgentAutomation_proofs

- `TypeCorrect`: `Spec => []TypeOK`. `TypeInv` adds what an executor remembers
  (`Remembers`: the clock it has read is not ahead, whoever is in a run finds it) and that a
  heartbeat with a claim looks at an occurrence that is due (`ClaimsTimely`).
- `OnceCorrect`: `Spec => []RunOnce`. `OnceInv`: whoever stands in a run as a heartbeat has inserted it,
  and there is one such heartbeat (`OneRunner`: the unique occurrence); while it is before its call
  there was none (`NotCalledYet`); a request enters after it. Artifacts are written where there
  were none, and no step takes them away, so what completes has them although `Persist` and
  `Complete` are separate transactions.
- `OnlyOwnerSkipsCorrect`: `Spec => [][(\A q \in Requests : ~SetEnabled(q)) => \A a \in
  Automations : Passes(a)]_vars`, for any number of requests: no heartbeat, however late it
  writes, moves a schedule past an occurrence that was neither run nor too old nor switched off.
  `CarryInv`: the occurrence a heartbeat carries to `Advance` exists, and under its claim the
  schedule is not before it.
- `NoneSkippedCorrect`: with one request at a time `Spec => NoneSkipped`. `OffStays`: an
  automation that the request read switched off is still so when it writes. With two
  requests this is false (see Observations).

### PublishedPost_proofs

- `TypeCorrect`: `Spec => []TypeOK`. That the revision stays within its bound needs the history: an
  edit that would still be stored is later than the last one stored (`Remembers`), and the
  revision is counted no faster than edits (`PubSound`). Lemmas say what the operators on
  sequences return: the confirmed message moves last and none is lost (`MovedLast`), reversing
  keeps the elements (`Reversed`), a batch is short or ends at a publication (`Batches`).
- `DeletionHappensOnce`: `Spec => []DeletedOnce`. `AskedOnce`: whoever stands at a message has
  reserved it and is alone there, and a message without a row was never asked for; since a row is
  never taken away and one that is ambiguous forbids a reservation, the call is the first.
  `ToldOnce`: a report belongs to a publication that is `Settled`, all rows resolved and
  either marked deleted or of an older revision. What is settled stays settled although an
  edit resets the mark, because the same edit advances the revision; and nobody marks a
  settled publication, so one worker comes to tell.
- `ReservedUnderAuthority`: `Spec => NothingReservedAfterwards`. By `AskedOnce` a mark, late or
  cancelled, finds a row; only `Reserve` makes one, and it looks again.
- `ChannelTruthful`: `Spec => []ChannelShowsRevision`, for any number of editors. `Signed`: edits have
  tags of their own and write to their own post, and one that would be stored under the
  current revision finds in the channel what it wrote, unless another wrote over it that is
  under way or known to have failed. The comparison of revisions in `Persist` keeps the
  others from being stored after it.

### DraftApproval_proofs

Every step of a request is brought down to one of twelve ways on (`Way`: it rests, takes over,
begins, is led to a part, marks it, reserves it, files its schedule, ...), each with what the
request knew when it took it; and to what the rows see of it (`Stepped`): approvals only ever go
on (`Kept`), and a row that another request holds is not touched (`Polite`).

- `TypeCorrect`: `Spec => []TypeOK`. `Placed` says where a request stands: on an approval that
  exists, at a part it has, with as many remembered states as there are parts.
- `OneTargetHolds`: `Spec => []OneTarget`, on both databases. `HeldAlone`: between fence and
  commit a request is alone with the revision; `HeldFree`: nothing alive was scheduled
  for it by then, since it looked behind the fence. So what it commits is the only one.
- `ScheduledOnceHolds`: `Spec => []ScheduledOnce`, on both databases. `OwnInv`: requests that work
  have different tokens, and who holds the row still owns the approval, so only one request can
  commit for it. `MadeInv`: a part that waits was not scheduled; who owns a series knows that what it
  remembers as waiting was scheduled by nobody, and what it has found missing is missing still,
  because whoever else could schedule it would own the approval. `OrderInv`: a request in the loop
  has everything before its part scheduled. The single draft on SQLite, which the
  property leaves out, is where the first half of this fails: what a takeover read there may be old
  when it writes (`Prompt` says that with row locks nobody takes over late).

### CandidateInbox_proofs

What a step does to the candidate is brought down to four cases (`Moves`: nothing, a new status or
draft, a poll that writes the metadata back, a run that has `Earned` its place), and what it does to
the runs to one (`RunsKept`: inputs never change, what has ended stays or goes).

- `TypeCorrect`: `Spec => []TypeOK`. A pointer names a run of its own table (`CandidatePoints`), and
  who waits for a model waits for a run that exists (`WorkKnows`).
- `PointersAlwaysHold`: `Spec => []PointersHold`. `MemoryAgrees`: what a poll will write back is what the
  candidate has, since nobody can set a pointer while the document is locked; and what a scan has
  read is still current unless the candidate was restored, since only an active one gets
  pointers. `CurrentStays`: so the run that a sweep takes is not a current one.
- `DraftAlwaysAsSeen`: `Spec => []DraftAsSeen`. `DraftAlone`: who is about to store a draft is alone and
  there is none yet; what a draft carries refers to the input of a run, which never changes.
- `CurrentIsAlwaysEarned`: `Spec => CurrentIsEarned`. An edit under way expects the proposal that its run
  names, and `Verdict` compares it; the rest is in `Earned`.

### Model-checked only

Liveness (`SendingEnds`, `SeriesContinues`, `DueIsDeleted`, `RequestsEnd`, `DueIsHandled`, `Drained`,
`UntouchedIsEnriched`): fairness and ENABLED are out of the prover's reach. That the
closed form `NextRepeatTime` equals the code's loop is compared by TLC on a range of inputs
(`MCRepeatContinuation`), since the loop is recursive.

## 6. What is not modelled, and the plan

Not modelled because it is no control of its own: rendering and formatting, configuration,
schema checks, dialogues of the bot, HTTP translation, front end, external model and
Telegram clients, migrations. Not modelled although it has control: the keyset cursor of the
delivery's candidate scan; the lock of `posting_dedupe.py`, for which no caller in
`src/` gives a key; the sender's fallback from forward to copy; everything behind the lease of
deletion by views, which finding 1 makes unreachable; the clock of the scheduled texts; join requests, suggested posts and onboarding,
which are single transactions on request.

Nothing of the plan is left to prove but what section 5 leaves to TLC.
