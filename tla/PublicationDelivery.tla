-------------------------- MODULE PublicationDelivery --------------------------
(***************************************************************************)
(* Delivery of canonical publications (src/app/services/                   *)
(* canonical_publication_delivery_*.py): the delivery worker claims a due  *)
(* publication, sends it once through the Telegram provider under a        *)
(* renewable lease, runs the post-send hook (autodelete timer, pin,        *)
(* forwards) and finalizes; the recovery worker closes claims whose lease  *)
(* expired; the owner may edit, reschedule or cancel what is still queued. *)
(*                                                                         *)
(* One step is one database transaction, one provider call, or the loss of *)
(* a process.  With RowLocks (PostgreSQL) SELECT ... FOR UPDATE makes the  *)
(* reads and the writes of a transaction one step.  Without (SQLite, the   *)
(* default) FOR UPDATE is ignored and BEGIN is sent only with the first    *)
(* write, so a transaction that proves its right by reading and then       *)
(* writes by primary key is two steps.                                     *)
(***************************************************************************)
EXTENDS Integers

CONSTANTS
    Publications,     \* canonical publication rows, with their schedule entry
    NoPublication,    \* the publication of an idle worker
    Executors,        \* delivery workers, each handling one candidate at a time
    Recoverers,       \* recovery workers
    PostActionCount,  \* pin and forward actions of a publication, in order
    TimedDelete,      \* publications whose options ask for a deletion timer
    Repeating,        \* publications with an enabled repeat rule
    Barred,           \* publications under a durable no-replay barrier
    LeaseTTL,         \* life of a delivery lease, in steps of its clock
    RecoveryTTL,      \* life of a recovery lease
    RowLocks,         \* the database honours SELECT ... FOR UPDATE
    HookFaults,       \* the hook's first authority read may raise
    BulkRemoval,      \* an administrator may run "remove all repeats"
    StudioPlanner,    \* the owner may use the planner of the Studio
    MaxIntent,        \* bound: changes of what a publication should send
    MaxFlips,         \* bound: times a channel is switched off or on
    MaxTokens,        \* bound: lease tokens issued for one publication
    MaxFaults         \* bound: recovery passes that die after a takeover

ASSUME DeliveryAssumption ==
    /\ NoPublication \notin Publications
    /\ TimedDelete \subseteq Publications
    /\ Repeating \subseteq Publications
    /\ Barred \subseteq Publications
    /\ PostActionCount \in Nat
    /\ LeaseTTL \in Nat \ {0}
    /\ RecoveryTTL \in Nat
    /\ RowLocks \in BOOLEAN
    /\ HookFaults \in BOOLEAN
    /\ BulkRemoval \in BOOLEAN
    /\ StudioPlanner \in BOOLEAN
    /\ MaxIntent \in Nat /\ MaxFlips \in Nat /\ MaxTokens \in Nat /\ MaxFaults \in Nat

VARIABLES
    status,    \* Publication.status
    schedule,  \* ScheduleEntry.status
    attempt,   \* status of PublicationAttempt #1; it exists iff attempt_count = 1
    intent,    \* version of everything a delivery plan snapshots
    due,       \* ScheduleEntry.scheduled_at <= now
    ids,       \* intent whose messages telegram_message_ids names, -1 for none
    active,    \* the channel and the forward targets are active
    token,     \* lease_token of the delivery lease, 0 when there is no row
    ttl,       \* time left to the lease
    issued,    \* lease tokens ever generated for the publication
    timer,     \* the autodelete runtime token is in Publication.meta
    ledger,    \* PublicationDeliveryAction.state of each post action
    ex,        \* the delivery workers' memory
    rc,        \* the recovery workers' memory
    controls,  \* controls that read the row as mutable and have not written yet
    flips,     \* channel switches so far
    faults,    \* recovery faults so far
    sends,     \* observed: provider calls that may have posted the document
    calls      \* observed: provider calls made for each post action

rows == <<status, schedule, attempt, intent, due, ids, active, token, ttl, issued,
          timer, ledger>>
memory == <<ex, rc, controls>>
bounds == <<flips, faults>>
observed == <<sends, calls>>
vars == <<status, schedule, attempt, intent, due, ids, active, token, ttl, issued,
          timer, ledger, ex, rc, controls, flips, faults, sends, calls>>

ActionKeys == 1..PostActionCount

Terminal == {"published", "failed", "cancelled"}

IdleExecutor == [pc |-> "idle", pub |-> NoPublication, token |-> 0, intent |-> 0,
                 hb |-> "off", action |-> 1, proof |-> "unread"]

IdleRecoverer == [pc |-> "idle", pub |-> NoPublication, token |-> 0,
                  proof |-> "unread"]

Init ==
    /\ status = [p \in Publications |-> "queued"]
    /\ schedule = [p \in Publications |-> "pending"]
    /\ attempt = [p \in Publications |-> "none"]
    /\ intent = [p \in Publications |-> 0]
    /\ due = [p \in Publications |-> FALSE]
    /\ ids = [p \in Publications |-> -1]
    /\ active = [p \in Publications |-> TRUE]
    /\ token = [p \in Publications |-> 0]
    /\ ttl = [p \in Publications |-> 0]
    /\ issued = [p \in Publications |-> 0]
    /\ timer = [p \in Publications |-> FALSE]
    /\ ledger = [p \in Publications |-> [a \in ActionKeys |-> "none"]]
    /\ ex = [e \in Executors |-> IdleExecutor]
    /\ rc = [r \in Recoverers |-> IdleRecoverer]
    /\ controls = [p \in Publications |-> {}]
    /\ flips = [p \in Publications |-> 0]
    /\ faults = 0
    /\ sends = [p \in Publications |-> 0]
    /\ calls = [p \in Publications |-> [a \in ActionKeys |-> 0]]

-----------------------------------------------------------------------------
(* What the transactions read. *)

\* The delivery planner's eligibility, with the no-replay barrier of the claim.
Claimable(p) ==
    /\ status[p] = "queued"
    /\ schedule[p] = "pending"
    /\ due[p]
    /\ active[p]
    /\ ids[p] = -1
    /\ attempt[p] = "none"
    /\ p \notin Barred

\* No trace of execution on the rows a control of a queued publication reads.
NotStarted(p) ==
    /\ status[p] = "queued"
    /\ schedule[p] = "pending"
    /\ attempt[p] = "none"
    /\ ids[p] = -1

\* Faulty variant: the token is compared, its expiry is not.
LeaseHeld(p, t) == token[p] = t

LeaseLive(p, t) == token[p] = t /\ ttl[p] > 0

\* The lifecycle rows a claimed, unfinished delivery must show.
InFlight(p) ==
    /\ status[p] = "sending"
    /\ schedule[p] = "pending"
    /\ attempt[p] = "sending"
    /\ ids[p] = -1

\* The plan taken at claim time is still what the rows say.
IntentMatches(e) ==
    LET p == ex[e].pub IN intent[p] = ex[e].intent /\ active[p]

LiveLifecycle(e) == LeaseLive(ex[e].pub, ex[e].token) /\ InFlight(ex[e].pub)

Authorized(e) == LiveLifecycle(e) /\ IntentMatches(e)

\* What the transaction the executor stands before has to prove.
Proven(e) ==
    CASE ex[e].pc = "reserve" -> LiveLifecycle(e) /\ ex[e].pub \notin Barred
      [] ex[e].pc = "fail" -> LiveLifecycle(e)
      [] OTHER -> Authorized(e)

HasRead(e) == RowLocks \/ ex[e].proof # "unread"
Holds(e) == IF RowLocks THEN Proven(e) ELSE ex[e].proof = "holds"

\* Recovery finalizes with the time its pass began, so its lease counts as live.
RecoveryProven(r) == token[rc[r].pub] = rc[r].token /\ InFlight(rc[r].pub)
RecoveryHasRead(r) == RowLocks \/ rc[r].proof # "unread"
RecoveryHolds(r) == IF RowLocks THEN RecoveryProven(r) ELSE rc[r].proof = "holds"

At(e, place) == ex[e].pc = place
Goto(e, place) == ex' = [ex EXCEPT ![e].pc = place, ![e].proof = "unread"]
Abandon(e) == ex' = [ex EXCEPT ![e] = IdleExecutor]
Forget(r) == rc' = [rc EXCEPT ![r] = IdleRecoverer]

-----------------------------------------------------------------------------
(* Claim: one transaction proves the publication due, moves it to sending, *)
(* inserts attempt #1 and the lease; a second stores the forward targets;  *)
(* a third renews the lease before the executor starts its heartbeat.      *)

\* The claim's writes, for a plan taken at version `plan`.
TakeClaim(e, p, plan) ==
    /\ status' = [status EXCEPT ![p] = "sending"]
    /\ attempt' = [attempt EXCEPT ![p] = "sending"]
    /\ issued' = [issued EXCEPT ![p] = @ + 1]
    /\ token' = [token EXCEPT ![p] = issued'[p]]
    /\ ttl' = [ttl EXCEPT ![p] = LeaseTTL]
    /\ ex' = [ex EXCEPT ![e] = [IdleExecutor EXCEPT !.pc = "claimed", !.pub = p,
                                    !.token = issued'[p], !.intent = plan]]
    /\ UNCHANGED <<schedule, intent, due, ids, active, timer, ledger, rc, controls, bounds, observed>>

Claim(e, p) ==
    /\ RowLocks
    /\ At(e, "idle")
    /\ Claimable(p)
    /\ TakeClaim(e, p, intent[p])

\* Without row locks the plan is read before the transaction begins ...
ReadClaim(e, p) ==
    /\ ~RowLocks
    /\ At(e, "idle")
    /\ Claimable(p)
    /\ ex' = [ex EXCEPT ![e] = [IdleExecutor EXCEPT !.pc = "claim", !.pub = p,
                                    !.intent = intent[p]]]
    /\ UNCHANGED <<rows, rc, controls, bounds, observed>>

\* Faulty variant: the claim checks nothing.
WriteClaimBlindly(e) == At(e, "claim") /\ TakeClaim(e, ex[e].pub, ex[e].intent)

\* ... and only the compare-and-set on status and attempt_count is current.
WriteClaim(e) ==
    /\ At(e, "claim")
    /\ LET p == ex[e].pub IN
       IF status[p] = "queued" /\ attempt[p] = "none"
       THEN TakeClaim(e, p, ex[e].intent)
       ELSE /\ Abandon(e)
            /\ UNCHANGED <<rows, rc, controls, bounds, observed>>

RecordTargets(e) ==
    /\ At(e, "claimed")
    /\ IF attempt[ex[e].pub] = "sending" THEN Goto(e, "recorded") ELSE Abandon(e)
    /\ UNCHANGED <<rows, rc, controls, bounds, observed>>

\* Losing the lease here leaves `sending` with its lease for recovery.
RenewClaim(e) ==
    /\ At(e, "recorded")
    /\ LET p == ex[e].pub IN
       IF LeaseLive(p, ex[e].token)
       THEN /\ ttl' = [ttl EXCEPT ![p] = LeaseTTL]
            /\ ex' = [ex EXCEPT ![e].pc = "ready", ![e].hb = "on"]
       ELSE Abandon(e) /\ UNCHANGED ttl
    /\ UNCHANGED <<status, schedule, attempt, intent, due, ids, active, token, issued,
                   timer, ledger, rc, controls, bounds, observed>>

-----------------------------------------------------------------------------
(* The heartbeat task renews a live lease only; once a renewal is refused  *)
(* or raises it reports the lease lost and ends.                           *)

HeartbeatRenews(e) ==
    LET p == ex[e].pub IN
    /\ ex[e].hb = "on"
    /\ LeaseLive(p, ex[e].token)
    /\ ttl' = [ttl EXCEPT ![p] = LeaseTTL]
    /\ UNCHANGED <<status, schedule, attempt, intent, due, ids, active, token, issued,
                   timer, ledger, memory, bounds, observed>>

HeartbeatLoses(e) ==
    /\ ex[e].hb = "on"
    /\ ex' = [ex EXCEPT ![e].hb = "lost"]
    /\ UNCHANGED <<rows, rc, controls, bounds, observed>>

-----------------------------------------------------------------------------
(* The provider call.  It posts the document and returns message ids, or   *)
(* raises, or returns none; a call that raised may have posted it.         *)

Post(e) == sends' = [sends EXCEPT ![ex[e].pub] = @ + 1]

SendDocument(e) ==
    /\ At(e, "ready")
    /\ Post(e)
    /\ \E result \in {"sent", "rejected"} : Goto(e, result)
    /\ UNCHANGED <<rows, rc, controls, bounds, calls>>

SendRejected(e) ==
    /\ At(e, "ready")
    /\ Goto(e, "rejected")
    /\ UNCHANGED <<rows, rc, controls, bounds, observed>>

-----------------------------------------------------------------------------
(* The post-send hook: authority, admin log, deletion timer, pin and       *)
(* forwards, owner notice.  The two notices keep no state.                 *)

\* Without authority the hook returns normally and nothing of it happens.
AuthorizeHook(e) ==
    /\ At(e, "sent")
    /\ Goto(e, IF Authorized(e) THEN "timer" ELSE "settle")
    /\ UNCHANGED <<rows, rc, controls, bounds, observed>>

\* A database error in that read is an ordinary hook failure: the executor
\* logs it and goes on to finalize.
HookFails(e) ==
    /\ HookFaults
    /\ At(e, "sent")
    /\ Goto(e, "settle")
    /\ UNCHANGED <<rows, rc, controls, bounds, observed>>

SkipTimer(e) ==
    /\ At(e, "timer")
    /\ ex[e].pub \notin TimedDelete
    /\ Goto(e, "actions")
    /\ UNCHANGED <<rows, rc, controls, bounds, observed>>

\* Faulty variant: a timer that cannot be written is skipped.
MaterializeIfPossible(e) ==
    LET p == ex[e].pub IN
    /\ At(e, "timer")
    /\ p \in TimedDelete
    /\ HasRead(e)
    /\ Goto(e, "actions")
    /\ timer' = [timer EXCEPT ![p] = Holds(e)]
    /\ UNCHANGED <<status, schedule, attempt, intent, due, ids, active, token, ttl,
                   issued, ledger, rc, controls, bounds, observed>>

\* A requested timer that cannot be written blocks finalization.
MaterializeAutodelete(e) ==
    LET p == ex[e].pub IN
    /\ At(e, "timer")
    /\ p \in TimedDelete
    /\ HasRead(e)
    /\ IF Holds(e)
       THEN Goto(e, "actions") /\ timer' = [timer EXCEPT ![p] = TRUE]
       ELSE Abandon(e) /\ UNCHANGED timer
    /\ UNCHANGED <<status, schedule, attempt, intent, due, ids, active, token, ttl,
                   issued, ledger, rc, controls, bounds, observed>>

PlanActions(e) ==
    /\ At(e, "actions")
    /\ IF Authorized(e) /\ PostActionCount > 0
       THEN ex' = [ex EXCEPT ![e].pc = "reserve", ![e].action = 1]
       ELSE Goto(e, "settle")
    /\ UNCHANGED <<rows, rc, controls, bounds, observed>>

\* Faulty variant: one action too many.
NextActionInclusive(e) ==
    IF ex[e].action <= PostActionCount
    THEN ex' = [ex EXCEPT ![e].pc = "reserve", ![e].proof = "unread",
                          ![e].action = @ + 1]
    ELSE Goto(e, "settle")

\* The next post action, or the end of the hook.
NextAction(e) ==
    IF ex[e].action < PostActionCount
    THEN ex' = [ex EXCEPT ![e].pc = "reserve", ![e].proof = "unread",
                          ![e].action = @ + 1]
    ELSE Goto(e, "settle")

Mark(e, state) == ledger' = [ledger EXCEPT ![ex[e].pub][ex[e].action] = state]

\* (publication, action_key) is the ledger's primary key: a row is never reopened.
ReserveAction(e) ==
    /\ At(e, "reserve")
    /\ HasRead(e)
    /\ \/ /\ Holds(e)
          /\ ledger[ex[e].pub][ex[e].action] = "none"
          /\ Mark(e, "reserved")
          /\ Goto(e, "fresh")
       \/ /\ Holds(e)
          /\ ledger[ex[e].pub][ex[e].action] # "none"
          /\ NextAction(e)
          /\ UNCHANGED ledger
       \/ /\ ~Holds(e)
          /\ Goto(e, "settle")
          /\ UNCHANGED ledger
    /\ UNCHANGED <<status, schedule, attempt, intent, due, ids, active, token, ttl,
                   issued, timer, rc, controls, bounds, observed>>

\* A second proof after the reservation; drift suppresses it and ends the chain.
\* Marks are best effort: a failed one leaves the row reserved.
ReproveAction(e) ==
    /\ At(e, "fresh")
    /\ IF Authorized(e)
       THEN Goto(e, "call") /\ UNCHANGED ledger
       ELSE Goto(e, "settle") /\ (Mark(e, "suppressed") \/ UNCHANGED ledger)
    /\ UNCHANGED <<status, schedule, attempt, intent, due, ids, active, token, ttl,
                   issued, timer, rc, controls, bounds, observed>>

CallProvider(e) ==
    /\ At(e, "call")
    /\ calls' = [calls EXCEPT ![ex[e].pub][ex[e].action] = @ + 1]
    /\ \E result \in {"succeeded", "unknown"} : Goto(e, result)
    /\ UNCHANGED <<rows, rc, controls, bounds, sends>>

\* Faulty variant: a call that raised is taken for one that was never made.
MarkRaisedAsSuppressed(e) ==
    /\ ex[e].pc \in {"succeeded", "unknown"}
    /\ Mark(e, IF At(e, "unknown") THEN "suppressed" ELSE "succeeded")
    /\ NextAction(e)
    /\ UNCHANGED <<status, schedule, attempt, intent, due, ids, active, token, ttl,
                   issued, timer, rc, controls, bounds, observed>>

MarkAction(e) ==
    /\ ex[e].pc \in {"succeeded", "unknown"}
    /\ Mark(e, ex[e].pc) \/ UNCHANGED ledger
    /\ NextAction(e)
    /\ UNCHANGED <<status, schedule, attempt, intent, due, ids, active, token, ttl,
                   issued, timer, rc, controls, bounds, observed>>

\* An error outside the provider call ends the chain, not the delivery.
PostActionsFail(e) ==
    /\ ex[e].pc \in {"actions", "reserve", "fresh"}
    /\ Goto(e, "settle")
    /\ UNCHANGED <<rows, rc, controls, bounds, observed>>

\* Cancellation between reservation and mark closes the row as far as it can.
CancelAction(e) ==
    /\ \/ At(e, "fresh") /\ Mark(e, "suppressed") /\ UNCHANGED calls
       \/ /\ At(e, "call")
          /\ Mark(e, "unknown")
          /\ calls' = [calls EXCEPT ![ex[e].pub][ex[e].action] = @ + 1]
    /\ Abandon(e)
    /\ UNCHANGED <<status, schedule, attempt, intent, due, ids, active, token, ttl,
                   issued, timer, rc, controls, bounds, sends>>

-----------------------------------------------------------------------------
(* Finalization under the exact live lease. *)

\* The heartbeat is stopped before either finalization.
StopHeartbeat(e) ==
    /\ ex[e].pc \in {"settle", "rejected"}
    /\ IF ex[e].hb = "lost"
       THEN Abandon(e)
       ELSE ex' = [ex EXCEPT ![e].hb = "off",
                             ![e].pc = IF @ = "settle" THEN "publish" ELSE "fail"]
    /\ UNCHANGED <<rows, rc, controls, bounds, observed>>

\* Terminal writes: Publication, ScheduleEntry and attempt #1 by primary key,
\* the lease row deleted by publication id.
Close(p, outcome) ==
    /\ status' = [status EXCEPT ![p] = outcome]
    /\ schedule' = [schedule EXCEPT ![p] = IF outcome = "published"
                                           THEN "completed" ELSE "failed"]
    /\ attempt' = [attempt EXCEPT ![p] = outcome]
    /\ token' = [token EXCEPT ![p] = 0]
    /\ ttl' = [ttl EXCEPT ![p] = 0]
    /\ UNCHANGED <<intent, due, active, issued, timer, ledger, controls,
                   bounds, observed>>

CompleteSuccess(e) ==
    LET p == ex[e].pub IN
    /\ At(e, "publish")
    /\ HasRead(e)
    /\ IF Holds(e)
       THEN Close(p, "published") /\ ids' = [ids EXCEPT ![p] = ex[e].intent]
       ELSE UNCHANGED <<rows, controls, bounds, observed>>
    /\ Abandon(e)
    /\ UNCHANGED rc

CompleteFailure(e) ==
    /\ At(e, "fail")
    /\ HasRead(e)
    /\ IF Holds(e)
       THEN Close(ex[e].pub, "failed") /\ UNCHANGED ids
       ELSE UNCHANGED <<rows, controls, bounds, observed>>
    /\ Abandon(e)
    /\ UNCHANGED rc

\* Without row locks: the reads of the transaction the executor stands before.
Read(e) ==
    /\ ~RowLocks
    /\ ex[e].pc \in {"timer", "reserve", "publish", "fail"}
    /\ ex[e].proof = "unread"
    /\ ex' = [ex EXCEPT ![e].proof = IF Proven(e) THEN "holds" ELSE "refused"]
    /\ UNCHANGED <<rows, rc, controls, bounds, observed>>

\* Process loss, cancellation or a database error: the rows stay as they are.
Stop(e) ==
    /\ ~At(e, "idle")
    /\ Abandon(e)
    /\ UNCHANGED <<rows, rc, controls, bounds, observed>>

-----------------------------------------------------------------------------
(* Recovery: never calls the provider, never sends again. *)

\* Faulty variant: leases of disconnected channels are not listed.
ListActiveExpired(r, p) ==
    /\ rc[r].pc = "idle"
    /\ token[p] # 0
    /\ ttl[p] = 0
    /\ active[p]
    /\ rc' = [rc EXCEPT ![r] = [pc |-> "listed", pub |-> p, token |-> token[p],
                                proof |-> "unread"]]
    /\ UNCHANGED <<rows, ex, controls, bounds, observed>>

\* A pass lists expired leases; each reference is used later.
ListExpired(r, p) ==
    /\ rc[r].pc = "idle"
    /\ token[p] # 0
    /\ ttl[p] = 0
    /\ rc' = [rc EXCEPT ![r] = [pc |-> "listed", pub |-> p, token |-> token[p],
                                proof |-> "unread"]]
    /\ UNCHANGED <<rows, ex, controls, bounds, observed>>

\* Compare-and-set on the exact old token, still expired.  The new expiry is
\* counted from the time the pass began, so some of it may already be gone.
TakeExpired(r) ==
    LET p == rc[r].pub IN
    /\ rc[r].pc = "listed"
    /\ \/ /\ token[p] = rc[r].token
          /\ ttl[p] = 0
          /\ p \notin Barred
          /\ issued[p] < MaxTokens
          /\ issued' = [issued EXCEPT ![p] = @ + 1]
          /\ token' = [token EXCEPT ![p] = issued'[p]]
          /\ \E left \in 0..RecoveryTTL : ttl' = [ttl EXCEPT ![p] = left]
          /\ rc' = [rc EXCEPT ![r].pc = "taken", ![r].token = issued'[p]]
       \/ /\ token[p] # rc[r].token \/ ttl[p] > 0 \/ p \in Barred
          /\ Forget(r)
          /\ UNCHANGED <<token, ttl, issued>>
    /\ UNCHANGED <<status, schedule, attempt, intent, due, ids, active, timer, ledger,
                   ex, controls, bounds, observed>>

RecoveryRead(r) ==
    /\ ~RowLocks
    /\ rc[r].pc = "taken"
    /\ rc[r].proof = "unread"
    /\ rc' = [rc EXCEPT ![r].proof = IF RecoveryProven(r) THEN "holds" ELSE "refused"]
    /\ UNCHANGED <<rows, ex, controls, bounds, observed>>

\* Faulty variant: the ambiguous delivery is queued again.
RequeueUnknown(r) ==
    LET p == rc[r].pub IN
    /\ rc[r].pc = "taken"
    /\ RecoveryHasRead(r)
    /\ RecoveryHolds(r)
    /\ status' = [status EXCEPT ![p] = "queued"]
    /\ attempt' = [attempt EXCEPT ![p] = "none"]
    /\ token' = [token EXCEPT ![p] = 0]
    /\ ttl' = [ttl EXCEPT ![p] = 0]
    /\ Forget(r)
    /\ UNCHANGED <<schedule, intent, due, ids, active, issued, timer, ledger, ex,
                   controls, bounds, observed>>

\* The ambiguous delivery is closed as failed; on a conflict the lease stays.
RecoverUnknown(r) ==
    /\ rc[r].pc = "taken"
    /\ RecoveryHasRead(r)
    /\ IF RecoveryHolds(r)
       THEN Close(rc[r].pub, "failed") /\ UNCHANGED ids
       ELSE UNCHANGED <<rows, controls, bounds, observed>>
    /\ Forget(r)
    /\ UNCHANGED ex

\* The pass dies, or its transaction raises, with the lease listed or taken.
RecoveryFault(r) ==
    /\ rc[r].pc # "idle"
    /\ faults < MaxFaults
    /\ faults' = faults + 1
    /\ Forget(r)
    /\ UNCHANGED <<rows, ex, controls, flips, observed>>

-----------------------------------------------------------------------------
(* What the owner and the administrator do to queued publications. *)

Mutable(p) == status[p] = "queued" /\ schedule[p] = "pending"

Withdraw(p) ==
    /\ status' = [status EXCEPT ![p] = "cancelled"]
    /\ schedule' = [schedule EXCEPT ![p] = "cancelled"]

\* A control that is not one step decides from its reading and applies it later.
Decide(p, control) ==
    /\ control \notin controls[p]
    /\ controls' = [controls EXCEPT ![p] = @ \cup {control}]
    /\ UNCHANGED <<rows, ex, rc, bounds, observed>>

Apply(p, control) ==
    /\ control \in controls[p]
    /\ controls' = [controls EXCEPT ![p] = @ \ {control}]

\* Faulty variant: what is being sent is cancelled too.
CancelAnyway(p) ==
    /\ schedule[p] = "pending"
    /\ Withdraw(p)
    /\ UNCHANGED <<attempt, intent, due, ids, active, token, ttl, issued, timer, ledger,
                   memory, bounds, observed>>

Cancel(p) ==
    /\ NotStarted(p)
    /\ token[p] = 0
    /\ Withdraw(p)
    /\ UNCHANGED <<attempt, intent, due, ids, active, token, ttl, issued, timer, ledger,
                   memory, bounds, observed>>

ChangeIntent(p) == intent' = [intent EXCEPT ![p] = @ + 1]

\* A positive delay: the publication is due later than it was.
Reschedule(p) ==
    /\ NotStarted(p)
    /\ token[p] = 0
    /\ intent[p] < MaxIntent
    /\ ChangeIntent(p)
    /\ due' = [due EXCEPT ![p] = FALSE]
    /\ UNCHANGED <<status, schedule, attempt, ids, active, token, ttl, issued, timer,
                   ledger, memory, bounds, observed>>

\* Faulty variant: a publication that is no longer pending is changed.
SetRepeatAnyway(p) ==
    /\ token[p] = 0
    /\ intent[p] < MaxIntent
    /\ ChangeIntent(p)
    /\ UNCHANGED <<status, schedule, attempt, due, ids, active, token, ttl, issued,
                   timer, ledger, memory, bounds, observed>>

SetRepeat(p) ==
    /\ NotStarted(p)
    /\ token[p] = 0
    /\ intent[p] < MaxIntent
    /\ ChangeIntent(p)
    /\ UNCHANGED <<status, schedule, attempt, due, ids, active, token, ttl, issued,
                   timer, ledger, memory, bounds, observed>>

\* A new content revision; the barriers against a started delivery are reads.
Editable(p) == NotStarted(p) /\ ttl[p] = 0

Edit(p) ==
    /\ RowLocks
    /\ Editable(p)
    /\ intent[p] < MaxIntent
    /\ ChangeIntent(p)
    /\ UNCHANGED <<status, schedule, attempt, due, ids, active, token, ttl, issued,
                   timer, ledger, memory, bounds, observed>>

ReadEdit(p) ==
    /\ ~RowLocks
    /\ Editable(p)
    /\ Decide(p, "edit")

WriteEdit(p) ==
    /\ intent[p] < MaxIntent
    /\ ChangeIntent(p)
    /\ Apply(p, "edit")
    /\ UNCHANGED <<status, schedule, attempt, due, ids, active, token, ttl, issued,
                   timer, ledger, ex, rc, bounds, observed>>

\* "Remove all repeats" reads every row without a lock on either database and
\* writes by primary key what it decided from that reading.
ReadRemoval(p) ==
    /\ BulkRemoval
    /\ p \in Repeating \/ p \in TimedDelete
    /\ Mutable(p)
    /\ Decide(p, "removal")

\* Repeats are cancelled; deletion options go, and with them the whole meta.
WriteRemoval(p) ==
    /\ intent[p] < MaxIntent
    /\ ChangeIntent(p)
    /\ IF p \in Repeating THEN Withdraw(p) ELSE UNCHANGED <<status, schedule>>
    /\ timer' = [timer EXCEPT ![p] = @ /\ p \notin TimedDelete]
    /\ Apply(p, "removal")
    /\ UNCHANGED <<attempt, due, ids, active, token, ttl, issued, ledger, ex, rc,
                   bounds, observed>>

\* The planner of the Studio reads the schedule entry and the publication with
\* FOR UPDATE and looks at their status alone.
PlannerCancels(p) ==
    /\ Withdraw(p)
    /\ UNCHANGED <<attempt, intent, due, ids, active, token, ttl, issued, timer, ledger,
                   ex, rc, bounds, observed>>

\* To any time, a past one included.
PlannerReschedules(p) ==
    /\ intent[p] < MaxIntent
    /\ ChangeIntent(p)
    /\ \E late \in BOOLEAN : due' = [due EXCEPT ![p] = late]
    /\ UNCHANGED <<status, schedule, attempt, ids, active, token, ttl, issued, timer,
                   ledger, ex, rc, bounds, observed>>

Plan(p) ==
    /\ StudioPlanner
    /\ RowLocks
    /\ Mutable(p)
    /\ PlannerCancels(p) \/ PlannerReschedules(p)
    /\ UNCHANGED controls

ReadPlan(p) ==
    /\ StudioPlanner
    /\ ~RowLocks
    /\ Mutable(p)
    /\ Decide(p, "plan")

WritePlan(p) ==
    /\ Apply(p, "plan")
    /\ PlannerCancels(p) \/ PlannerReschedules(p)

BecomeDue(p) ==
    /\ ~due[p]
    /\ due' = [due EXCEPT ![p] = TRUE]
    /\ UNCHANGED <<status, schedule, attempt, intent, ids, active, token, ttl, issued,
                   timer, ledger, memory, bounds, observed>>

\* The channel, or a forward target, is disconnected or connected again.
SwitchChannel(p) ==
    /\ flips[p] < MaxFlips
    /\ flips' = [flips EXCEPT ![p] = @ + 1]
    /\ active' = [active EXCEPT ![p] = ~@]
    /\ UNCHANGED <<status, schedule, attempt, intent, due, ids, token, ttl, issued,
                   timer, ledger, memory, faults, observed>>

\* Time passes for a lease that is not yet expired.
Age(p) ==
    /\ token[p] # 0
    /\ ttl[p] > 0
    /\ ttl' = [ttl EXCEPT ![p] = @ - 1]
    /\ UNCHANGED <<status, schedule, attempt, intent, due, ids, active, token, issued,
                   timer, ledger, memory, bounds, observed>>

-----------------------------------------------------------------------------
\* What a worker does of itself once it holds a claim.
Advance(e) ==
    \/ WriteClaim(e) \/ RecordTargets(e) \/ RenewClaim(e)
    \/ SendDocument(e) \/ SendRejected(e)
    \/ AuthorizeHook(e) \/ HookFails(e)
    \/ SkipTimer(e) \/ MaterializeAutodelete(e)
    \/ PlanActions(e) \/ ReserveAction(e) \/ ReproveAction(e)
    \/ CallProvider(e) \/ MarkAction(e) \/ PostActionsFail(e)
    \/ StopHeartbeat(e) \/ CompleteSuccess(e) \/ CompleteFailure(e)
    \/ Read(e)

Execute(e) ==
    \/ \E p \in Publications : Claim(e, p) \/ ReadClaim(e, p)
    \/ Advance(e)
    \/ HeartbeatRenews(e) \/ HeartbeatLoses(e)
    \/ CancelAction(e) \/ Stop(e)

Recover(r) ==
    \/ \E p \in Publications : ListExpired(r, p)
    \/ TakeExpired(r) \/ RecoveryRead(r) \/ RecoverUnknown(r)

Control(p) ==
    \/ Cancel(p) \/ Reschedule(p) \/ SetRepeat(p)
    \/ Edit(p) \/ ReadEdit(p) \/ WriteEdit(p)
    \/ ReadRemoval(p) \/ WriteRemoval(p)
    \/ Plan(p) \/ ReadPlan(p) \/ WritePlan(p)

Next ==
    \/ \E e \in Executors : Execute(e)
    \/ \E r \in Recoverers : Recover(r) \/ RecoveryFault(r)
    \/ \E p \in Publications : Control(p) \/ BecomeDue(p) \/ SwitchChannel(p) \/ Age(p)

Spec == Init /\ [][Next]_vars

\* Database and provider calls return, the clock runs and the recovery worker polls.
Fairness ==
    /\ \A e \in Executors : WF_vars(Advance(e))
    /\ \A r \in Recoverers : WF_vars(Recover(r))
    /\ \A p \in Publications : WF_vars(Age(p))

FairSpec == Spec /\ Fairness

-----------------------------------------------------------------------------
AttemptStates == {"none", "sending", "published", "failed"}
ActionStates == {"none", "reserved", "succeeded", "unknown", "suppressed"}
Places == {"idle", "claim", "claimed", "recorded", "ready", "sent", "rejected", "timer",
           "actions", "reserve", "fresh", "call", "succeeded", "unknown", "settle",
           "publish", "fail"}
ActionPlaces == {"reserve", "fresh", "call", "succeeded", "unknown"}
Proofs == {"unread", "holds", "refused"}

ExecutorMemory ==
    [pc : Places, pub : Publications \cup {NoPublication}, token : Nat, intent : Nat,
     hb : {"off", "on", "lost"}, action : Nat, proof : Proofs]
RecovererMemory ==
    [pc : {"idle", "listed", "taken"}, pub : Publications \cup {NoPublication},
     token : Nat, proof : Proofs]

RowsTypeOK ==
    /\ status \in [Publications -> {"queued", "sending"} \cup Terminal]
    /\ schedule \in [Publications -> {"pending", "completed", "failed", "cancelled"}]
    /\ attempt \in [Publications -> AttemptStates]
    /\ intent \in [Publications -> Nat]
    /\ due \in [Publications -> BOOLEAN]
    /\ ids \in [Publications -> Nat \cup {-1}]
    /\ active \in [Publications -> BOOLEAN]
    /\ token \in [Publications -> Nat]
    /\ ttl \in [Publications -> Nat]
    /\ issued \in [Publications -> Nat]
    /\ timer \in [Publications -> BOOLEAN]
    /\ ledger \in [Publications -> [ActionKeys -> ActionStates]]

\* A worker that is not idle has a publication, and one that is at a post action
\* stands at one of them.
ExecutorsTypeOK ==
    /\ ex \in [Executors -> ExecutorMemory]
    /\ \A e \in Executors :
          /\ ex[e].pc # "idle" => ex[e].pub \in Publications
          /\ ex[e].hb = "on" => ex[e].pc # "idle"
          /\ ex[e].pc \in ActionPlaces => ex[e].action \in ActionKeys

RecoverersTypeOK ==
    /\ rc \in [Recoverers -> RecovererMemory]
    /\ \A r \in Recoverers : rc[r].pc # "idle" => rc[r].pub \in Publications

OthersTypeOK ==
    /\ controls \in [Publications -> SUBSET {"edit", "removal", "plan"}]
    /\ flips \in [Publications -> Nat]
    /\ faults \in Nat
    /\ sends \in [Publications -> Nat]
    /\ calls \in [Publications -> [ActionKeys -> Nat]]

TypeOK == RowsTypeOK /\ ExecutorsTypeOK /\ RecoverersTypeOK /\ OthersTypeOK

\* No publication is handed to the provider twice, whatever crashes, lease
\* losses and recoveries happen: claim is the only way to a send and happens
\* once, recovery never sends again.
AtMostOneSend == \A p \in Publications : sends[p] <= 1

\* No pin or forward is called twice, and the ledger tells the truth about it:
\* a call is never made without its reservation, an action marked succeeded or
\* unknown was called (unknown also covers a cancelled call), and one marked
\* suppressed never was.
LedgerIsTruthful ==
    \A p \in Publications, a \in ActionKeys :
        /\ calls[p][a] <= 1
        /\ calls[p][a] = 1 => ledger[p][a] \in {"reserved", "succeeded", "unknown"}
        /\ ledger[p][a] \in {"succeeded", "unknown"} => calls[p][a] = 1

\* A publication that is queued or cancelled was not sent, and no worker is about
\* to send it: a cancellation that was accepted is kept.
NothingSentUnlessClaimed ==
    \A p \in Publications : status[p] \in {"queued", "cancelled"} =>
        /\ sends[p] = 0
        /\ \A e \in Executors : ex[e].pub = p => ex[e].pc \in {"idle", "claim"}

\* What is recorded as published is what the rows say was to be published: it was sent,
\* and nothing about it changed since the plan was taken.  A requested deletion timer is
\* durable before the first pin or forward: these may take long, and a process lost among
\* them must not lose the timer.
PublishedAsPlanned ==
    \A p \in Publications :
        /\ status[p] = "published" => sends[p] = 1 /\ ids[p] = intent[p]
        /\ p \in TimedDelete /\ (\E a \in ActionKeys : ledger[p][a] # "none") => timer[p]

\* Once the lease of a sending publication has expired, the worker that held it
\* cannot regain it: the publication is never recorded as published.
ExpiredIsNeverPublished ==
    \A p \in Publications :
        []((status[p] = "sending" /\ ttl[p] = 0) => [](status[p] # "published"))

\* The delivery keeps the promise of PublicationLifecycle: withdrawn or begun once,
\* posted at most once, published only after posting, every outcome final.
Lifecycle == INSTANCE PublicationLifecycle WITH phase <- status, posts <- sends
KeepsLifecycle == Lifecycle!Spec

\* Every claimed publication reaches an outcome, although workers stop anywhere.
SendingEnds ==
    \A p \in Publications : (status[p] = "sending") ~> (status[p] \in Terminal)
=============================================================================
