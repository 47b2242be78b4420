----------------------------- MODULE DraftApproval -----------------------------
(***************************************************************************)
(* The admin agent prepares drafts and proposes when to publish them; the  *)
(* owner approves or rejects.  An approval of one draft                    *)
(* (src/app/services/admin_agent_approvals.py) and an approval of a series *)
(* of drafts (src/app/services/admin_agent_series_approvals.py) claim      *)
(* their row for thirty seconds, schedule behind a fence on that row and   *)
(* on the draft's revision (admin_agent_execution_fence.py), and record    *)
(* the outcome in another transaction.                                     *)
(*                                                                         *)
(* Steps are transactions.  Where the code reads in one and writes by      *)
(* primary key in another, there are two steps; on SQLite, which ignores   *)
(* FOR UPDATE, that is so for every read.                                  *)
(***************************************************************************)
EXTENDS Integers, SequencesExt, FiniteSetsExt

CONSTANTS
    Drafts,       \* number of drafts, which are also the posts of the one series
    Requests,     \* HTTP requests that may be under way at once
    RowLocks,     \* the databases to look at: does FOR UPDATE lock rows?
    MaxApprovals, \* bound: proposals
    MaxChanges,   \* bound: edits, changes of the time zone, the owner's own scheduling
    MaxFaults     \* bound: requests that die, claims outlived by their request

ASSUME DraftApprovalAssumption ==
    /\ Drafts \in Nat \ {0}
    /\ RowLocks \subseteq BOOLEAN
    /\ MaxApprovals \in Nat /\ MaxChanges \in Nat /\ MaxFaults \in Nat

VARIABLES
    locking,  \* row locks work: PostgreSQL, else SQLite
    revision, \* current revision of each draft
    zone,     \* the channel's time zone and date, which the slots depend on
    row,      \* AdminAgentApproval and AdminAgentApprovalBatch, in order of creation
    entry,    \* ScheduleEntry with its Publication, in order of creation
    req,      \* memory of the requests
    issued,   \* claim tokens issued
    changes, faults \* what the bounds count

bounds == <<changes, faults>>
vars == <<locking, revision, zone, row, entry, req, issued, bounds>>

Items == 1..Drafts
Approvals == DOMAIN row
Entries == DOMAIN entry

\* Nobody's token, and who schedules without an approval.
NoToken == 0
Owner == <<0, 0>>

Idle == [pc |-> "idle", id |-> 0, pos |-> 1, token |-> NoToken, done |-> 0,
         mem |-> <<>>, marks |-> {}, verdict |-> "none"]

Part(item, rev) == [item |-> item, revision |-> rev, state |-> "pending"]

Proposal(kind, parts) ==
    [kind |-> kind, state |-> "pending_review", claim |-> NoToken, fresh |-> FALSE,
     zone |-> zone, parts |-> parts]

Init ==
    /\ locking \in RowLocks
    /\ revision = [c \in Items |-> 1]
    /\ zone = 0
    /\ row = <<>>
    /\ entry = <<>>
    /\ req = [r \in Requests |-> Idle]
    /\ issued = 0
    /\ changes = 0 /\ faults = 0

-----------------------------------------------------------------------------
(* What the services read. *)

Active == {"pending_review", "executing"}

\* A schedule of this revision that was not cancelled.
ConflictingScheduleExists(part) ==
    \E s \in Entries : /\ entry[s].live
                       /\ entry[s].item = part.item /\ entry[s].revision = part.revision

StaleAt(a, k) ==
    LET part == row[a].parts[k]
    IN  \/ revision[part.item] # part.revision
        \/ zone # row[a].zone
        \/ ConflictingScheduleExists(part)

MadeBy(a, k) == {s \in Entries : entry[s].by = <<a, k>>}

\* Exactly one pair that is still what was approved; a series wants it alive, too.
Matches(a, k) ==
    \E s \in Entries :
        /\ MadeBy(a, k) = {s}
        /\ ~entry[s].moved
        /\ row[a].kind = "series" => entry[s].live

\* Faulty variant: the claim is not compared, only the state.
OwnsState(r) == row[req[r].id].state = "executing"

\* fence_execution_claim: the row is executing under this very token.
Owns(r) ==
    /\ row[req[r].id].state = "executing"
    /\ row[req[r].id].claim = req[r].token

\* Between its fence and its commit a request holds the row and the revision; on SQLite
\* it holds the one write lock.
Holding(q) == req[q].pc = "queue"
PartOf(q) == row[req[q].id].parts[req[q].pos]
MayWrite(r, a) ==
    \A q \in Requests \ {r} : Holding(q) => locking /\ req[q].id # a
MayFence(r) ==
    /\ MayWrite(r, req[r].id)
    /\ \A q \in Requests \ {r} : Holding(q) =>
          <<PartOf(q).item, PartOf(q).revision>> # <<PartOf(r).item, PartOf(r).revision>>
Unwatched == \A q \in Requests : Holding(q) => locking

-----------------------------------------------------------------------------
(* Proposals, drafts and the owner's other doings. *)

\* What was read may be old when the row is inserted; the partial unique index is not.
ProposeDraft(c, rev) ==
    /\ Len(row) < MaxApprovals
    /\ rev \in 1..revision[c]
    /\ ~ConflictingScheduleExists(Part(c, rev))
    /\ ~ \E a \in Approvals : /\ row[a].kind = "draft" /\ row[a].state \in Active
                              /\ row[a].parts = <<Part(c, rev)>>
    /\ Unwatched
    /\ row' = Append(row, Proposal("draft", <<Part(c, rev)>>))
    /\ UNCHANGED <<locking, revision, zone, entry, req, issued, bounds>>

ProposeSeries ==
    /\ Len(row) < MaxApprovals
    /\ ~ \E a \in Approvals : row[a].kind = "series" /\ row[a].state \in Active
    /\ Unwatched
    /\ row' = Append(row, Proposal("series", [c \in Items |-> Part(c, revision[c])]))
    /\ UNCHANGED <<locking, revision, zone, entry, req, issued, bounds>>

\* A new revision; another status or channel of the draft does the same to a proposal.
Edit(c) ==
    /\ changes < MaxChanges /\ Unwatched
    /\ changes' = changes + 1
    /\ revision' = [revision EXCEPT ![c] = @ + 1]
    /\ UNCHANGED <<locking, zone, row, entry, req, issued, faults>>

Shift ==
    /\ changes < MaxChanges /\ Unwatched
    /\ changes' = changes + 1
    /\ zone' = zone + 1
    /\ UNCHANGED <<locking, revision, row, entry, req, issued, faults>>

Entry(part, by) ==
    [item |-> part.item, revision |-> part.revision, by |-> by, live |-> TRUE, moved |-> FALSE]

\* The owner schedules, moves or cancels in the bot or in the Studio.
OwnerSchedules(c) ==
    /\ changes < MaxChanges /\ Unwatched
    /\ changes' = changes + 1
    /\ entry' = Append(entry, Entry(Part(c, revision[c]), Owner))
    /\ UNCHANGED <<locking, revision, zone, row, req, issued, faults>>

OwnerChanges(s) ==
    /\ changes < MaxChanges /\ Unwatched /\ entry[s].live
    /\ changes' = changes + 1
    /\ \/ entry' = [entry EXCEPT ![s].live = FALSE]
       \/ entry' = [entry EXCEPT ![s].moved = TRUE]
    /\ UNCHANGED <<locking, revision, zone, row, req, issued, faults>>

-----------------------------------------------------------------------------
(* What a request writes by primary key, whatever became of the row. *)

Goto(r, pc) == req' = [req EXCEPT ![r].pc = pc]
End(r) == req' = [req EXCEPT ![r] = Idle]

\* What makes the whole approval stale: a part that was begun or that is stale.
Unfit(a, k) == row[a].parts[k].state # "pending" \/ StaleAt(a, k)
Stale(a) == \E k \in DOMAIN row[a].parts : Unfit(a, k)

\* The parts that are marked with it: all that wait when the time zone changed, else the
\* first unfit one, if it waits or was begun.
StaleParts(a) ==
    IF row[a].kind = "draft" THEN {}
    ELSE IF zone # row[a].zone
      THEN {k \in DOMAIN row[a].parts : row[a].parts[k].state = "pending"}
    ELSE {k \in DOMAIN row[a].parts : /\ Unfit(a, k) /\ \A j \in 1..(k - 1) : ~Unfit(a, j)
                                      /\ row[a].parts[k].state \in {"pending", "executing"}}

Conclude(a, state) ==
    row' = [row EXCEPT ![a].state = state, ![a].claim = NoToken, ![a].fresh = FALSE]

Write(r, what, marks) ==
    LET a == req[r].id
    IN
    \/ /\ what = "stale"
       /\ row' = [row EXCEPT ![a].state = "stale", ![a].claim = NoToken, ![a].fresh = FALSE,
                             ![a].parts = [k \in DOMAIN @ |->
                                 IF k \in marks THEN [@[k] EXCEPT !.state = "stale"] ELSE @[k]]]
       /\ End(r) /\ UNCHANGED issued
    \/ /\ what \in {"failed", "rejected"}
       /\ Conclude(a, what)
       /\ End(r) /\ UNCHANGED issued
    \/ /\ what = "take"
       /\ issued' = issued + 1
       /\ row' = [row EXCEPT ![a].claim = issued', ![a].fresh = TRUE]
       /\ req' = [req EXCEPT ![r].pc = "fence", ![r].token = issued', ![r].marks = {}]

\* Read FOR UPDATE and written in the same transaction; on SQLite the write comes later.
Marks(a, what) == IF what = "stale" THEN StaleParts(a) ELSE {}

Later(r, what) ==
    req' = [req EXCEPT ![r].pc = what, ![r].marks = Marks(req[r].id, what)]

Decide(r, what) ==
    \/ locking /\ MayWrite(r, req[r].id) /\ Write(r, what, Marks(req[r].id, what))
    \/ ~locking /\ Later(r, what) /\ UNCHANGED <<row, issued>>

Late(r) ==
    /\ \E what \in {"stale", "failed", "rejected", "take"} :
          req[r].pc = what /\ MayWrite(r, req[r].id) /\ Write(r, what, req[r].marks)
    /\ UNCHANGED <<locking, revision, zone, entry, bounds>>

-----------------------------------------------------------------------------
(* approve and reject, up to the claim. *)

Ask(r) ==
    /\ req[r].pc = "idle"
    /\ \E a \in Approvals, pc \in {"approve", "reject"} :
          /\ row[a].state \in Active
          /\ req' = [req EXCEPT ![r].pc = pc, ![r].id = a]
    /\ UNCHANGED <<locking, revision, zone, row, entry, issued, bounds>>

Reject(r) ==
    /\ req[r].pc = "reject"
    /\ IF row[req[r].id].state = "pending_review"
         THEN Decide(r, "rejected")
         ELSE End(r) /\ UNCHANGED <<row, issued>>
    /\ UNCHANGED <<locking, revision, zone, entry, bounds>>

\* FOR UPDATE waits for whoever holds the row.
Reads(r) == req[r].pc = "approve" /\ (locking => MayWrite(r, req[r].id))

ApprovePending(r) ==
    LET a == req[r].id
    IN
    /\ Reads(r) /\ row[a].state = "pending_review"
    /\ IF Stale(a) THEN Decide(r, "stale") ELSE Goto(r, "claim") /\ UNCHANGED <<row, issued>>
    /\ UNCHANGED <<locking, revision, zone, entry, bounds>>

\* An approval that was left executing: its result is looked for before its claim is.
ApproveExecutingDraft(r) ==
    LET a == req[r].id
    IN
    /\ Reads(r) /\ row[a].kind = "draft" /\ row[a].state = "executing"
    /\ IF Matches(a, 1)
         THEN /\ req' = [req EXCEPT ![r].pc = "finish", ![r].token = row[a].claim]
              /\ UNCHANGED <<row, issued>>
       ELSE IF MadeBy(a, 1) # {} THEN Decide(r, "failed")
       ELSE IF row[a].fresh THEN End(r) /\ UNCHANGED <<row, issued>>
       ELSE IF Stale(a) THEN Decide(r, "stale")
       ELSE Decide(r, "take")
    /\ UNCHANGED <<locking, revision, zone, entry, bounds>>

ApproveExecutingSeries(r) ==
    LET a == req[r].id
    IN
    /\ Reads(r) /\ row[a].kind = "series" /\ row[a].state = "executing"
    /\ IF row[a].fresh
         THEN End(r)
         ELSE req' = [req EXCEPT ![r].pc = "swap", ![r].token = row[a].claim]
    /\ UNCHANGED <<locking, revision, zone, row, entry, issued, bounds>>

ApproveSettled(r) ==
    /\ Reads(r) /\ row[req[r].id].state \notin Active
    /\ End(r)
    /\ UNCHANGED <<locking, revision, zone, row, entry, issued, bounds>>

\* The compare-and-set; who loses it starts again.
Claim(r) ==
    LET a == req[r].id
    IN
    /\ req[r].pc = "claim" /\ MayWrite(r, a)
    /\ IF row[a].state = "pending_review"
         THEN /\ issued' = issued + 1
              /\ row' = [row EXCEPT ![a].state = "executing", ![a].claim = issued',
                                    ![a].fresh = TRUE]
              /\ req' = [req EXCEPT ![r].pc = "recheck", ![r].token = issued']
         ELSE Goto(r, "approve") /\ UNCHANGED <<row, issued>>
    /\ UNCHANGED <<locking, revision, zone, entry, bounds>>

\* What a request remembers of a series: the states of its parts.
Remember(a) == [k \in DOMAIN row[a].parts |-> row[a].parts[k].state]

Execute(r) ==
    LET a == req[r].id
    IN  req' = [req EXCEPT ![r].pc = IF row[a].kind = "series" THEN "item" ELSE "fence",
                           ![r].mem = Remember(a)]

\* Everything is validated once more, without a lock; what follows is written later.
Recheck(r) ==
    /\ req[r].pc = "recheck"
    /\ IF Stale(req[r].id) THEN Later(r, "stale") ELSE Execute(r)
    /\ UNCHANGED <<locking, revision, zone, row, entry, issued, bounds>>

\* A series is taken over by exchanging the token.
Swap(r) ==
    LET a == req[r].id
    IN
    /\ req[r].pc = "swap" /\ MayWrite(r, a)
    /\ IF Owns(r)
         THEN /\ issued' = issued + 1
              /\ row' = [row EXCEPT ![a].claim = issued', ![a].fresh = TRUE]
              /\ req' = [req EXCEPT ![r].pc = "item", ![r].token = issued',
                                    ![r].mem = Remember(a)]
         ELSE End(r) /\ UNCHANGED <<row, issued>>
    /\ UNCHANGED <<locking, revision, zone, entry, bounds>>

-----------------------------------------------------------------------------
(* Execution. *)

Advance(r) == [req EXCEPT ![r].pc = "item", ![r].pos = @ + 1, ![r].done = @ + 1]

\* Faulty variant: a part that is stale is passed over.
PassOver(r) ==
    LET a == req[r].id
    IN
    /\ req[r].pc = "item" /\ req[r].pos <= Len(row[a].parts)
    /\ IF ~Owns(r) THEN End(r)
       ELSE IF StaleAt(a, req[r].pos) THEN req' = Advance(r)
       ELSE Goto(r, "mark")
    /\ UNCHANGED <<locking, revision, zone, row, entry, issued, bounds>>

\* One part of a series: what is remembered of it, and what its result and its draft
\* look like now.
Item(r) ==
    LET a == req[r].id
        k == req[r].pos
        fails(state, done) == req' = [req EXCEPT ![r].pc = "fail", ![r].verdict = state,
                                                 ![r].done = @ + done]
    IN
    /\ req[r].pc = "item" /\ k <= Len(row[a].parts)
    /\ IF ~Owns(r) THEN End(r)
       ELSE IF req[r].mem[k] = "executed" /\ Matches(a, k) THEN req' = Advance(r)
       ELSE IF req[r].mem[k] = "executed" THEN fails("failed", 1)
       ELSE IF req[r].mem[k] \in {"stale", "failed"} THEN fails(req[r].mem[k], 0)
       ELSE IF req[r].mem[k] = "executing" /\ Matches(a, k) THEN Goto(r, "settle")
       ELSE IF req[r].mem[k] = "executing" /\ MadeBy(a, k) # {} THEN fails("failed", 0)
       ELSE IF StaleAt(a, k) THEN fails("stale", 0)
       ELSE Goto(r, IF req[r].mem[k] = "pending" THEN "mark" ELSE "fence")
    /\ UNCHANGED <<locking, revision, zone, row, entry, issued, bounds>>

\* The part is marked by primary key, without a fence.
MarkPart(r) ==
    /\ req[r].pc = "mark" /\ Unwatched
    /\ row' = [row EXCEPT ![req[r].id].parts[req[r].pos].state = "executing"]
    /\ req' = [req EXCEPT ![r].pc = "fence", ![r].mem[req[r].pos] = "executing"]
    /\ UNCHANGED <<locking, revision, zone, entry, issued, bounds>>

\* Faulty variant: the part gets the verdict of the series.
FailedAlike(r, verdict) ==
    LET end == IF req[r].done > 0 THEN "partial_failed" ELSE verdict
    IN  row' = [row EXCEPT ![req[r].id].parts[req[r].pos].state = end,
                           ![req[r].id].state = end,
                           ![req[r].id].claim = NoToken, ![req[r].id].fresh = FALSE]

\* The series ends at a part, neither with a fence.
Failed(r, verdict) ==
    row' = [row EXCEPT ![req[r].id].parts[req[r].pos].state = verdict,
                       ![req[r].id].state = IF req[r].done > 0 THEN "partial_failed" ELSE verdict,
                       ![req[r].id].claim = NoToken, ![req[r].id].fresh = FALSE]

Fail(r) ==
    /\ req[r].pc = "fail" /\ MayWrite(r, req[r].id)
    /\ Failed(r, req[r].verdict)
    /\ End(r)
    /\ UNCHANGED <<locking, revision, zone, entry, issued, bounds>>

\* Faulty variant: the schedule is not looked for again behind the fence.
FenceOnly(r) ==
    /\ req[r].pc = "fence" /\ MayFence(r)
    /\ IF Owns(r) THEN Goto(r, "queue") ELSE End(r)
    /\ UNCHANGED <<locking, revision, zone, row, entry, issued, bounds>>

\* The guarded writes that hold row and revision, then the last look for a schedule.
Fence(r) ==
    /\ req[r].pc = "fence" /\ MayFence(r)
    /\ IF ~Owns(r) THEN End(r) /\ UNCHANGED row
       ELSE IF ~ConflictingScheduleExists(PartOf(r)) THEN Goto(r, "queue") /\ UNCHANGED row
       ELSE /\ End(r)
            /\ IF row[req[r].id].kind = "draft" THEN Conclude(req[r].id, "stale")
               ELSE Failed(r, "stale")
    /\ UNCHANGED <<locking, revision, zone, entry, issued, bounds>>

\* The bridge commits schedule entry and publication together with the fence.
Queue(r) ==
    /\ req[r].pc = "queue"
    /\ entry' = Append(entry, Entry(PartOf(r), <<req[r].id, req[r].pos>>))
    /\ Goto(r, IF row[req[r].id].kind = "draft" THEN "finish" ELSE "settle")
    /\ UNCHANGED <<locking, revision, zone, row, issued, bounds>>

Settle(r) ==
    /\ req[r].pc = "settle" /\ MayWrite(r, req[r].id)
    /\ IF Owns(r)
         THEN /\ row' = [row EXCEPT ![req[r].id].parts[req[r].pos].state = "executed"]
              /\ req' = Advance(r)
         ELSE End(r) /\ UNCHANGED row
    /\ UNCHANGED <<locking, revision, zone, entry, issued, bounds>>

\* Faulty variant: off by one.
FinishedAtLast(r) ==
    \/ req[r].pc = "finish"
    \/ req[r].pc = "item" /\ req[r].pos >= Len(row[req[r].id].parts)

Finished(r) ==
    \/ req[r].pc = "finish"
    \/ req[r].pc = "item" /\ req[r].pos > Len(row[req[r].id].parts)

Finish(r) ==
    /\ Finished(r) /\ MayWrite(r, req[r].id)
    /\ IF Owns(r) THEN Conclude(req[r].id, "executed") ELSE UNCHANGED row
    /\ End(r)
    /\ UNCHANGED <<locking, revision, zone, entry, issued, bounds>>

\* The process dies, or scheduling raises: what is not committed is rolled back.
Die(r) ==
    /\ req[r].pc # "idle" /\ faults < MaxFaults
    /\ faults' = faults + 1
    /\ End(r)
    /\ UNCHANGED <<locking, revision, zone, row, entry, issued, changes>>

\* Thirty seconds pass: nobody has the claim any more, or who has it is late.
Carried(a) == \E r \in Requests : req[r].pc # "idle" /\ req[r].id = a /\ req[r].token = row[a].claim

Expire(a) ==
    /\ row[a].fresh /\ ~Carried(a)
    /\ row' = [row EXCEPT ![a].fresh = FALSE]
    /\ UNCHANGED <<locking, revision, zone, entry, req, issued, bounds>>

Outlive(a) ==
    /\ row[a].fresh /\ Carried(a) /\ faults < MaxFaults
    /\ faults' = faults + 1
    /\ row' = [row EXCEPT ![a].fresh = FALSE]
    /\ UNCHANGED <<locking, revision, zone, entry, req, issued, changes>>

Approve(r) ==
    \/ ApprovePending(r) \/ ApproveExecutingDraft(r) \/ ApproveExecutingSeries(r)
    \/ ApproveSettled(r) \/ Claim(r) \/ Recheck(r) \/ Swap(r) \/ Late(r)

Proceed(r) ==
    \/ Item(r) \/ MarkPart(r) \/ Fail(r) \/ Fence(r) \/ Queue(r) \/ Settle(r) \/ Finish(r)

Next ==
    \/ \E c \in Items : Edit(c) \/ OwnerSchedules(c) \/ \E rev \in 1..revision[c] : ProposeDraft(c, rev)
    \/ ProposeSeries \/ Shift
    \/ \E s \in Entries : OwnerChanges(s)
    \/ \E r \in Requests : Ask(r) \/ Reject(r) \/ Approve(r) \/ Proceed(r) \/ Die(r)
    \/ \E a \in Approvals : Expire(a) \/ Outlive(a)

Spec == Init /\ [][Next]_vars

-----------------------------------------------------------------------------
(* Properties. *)

States == {"pending_review", "executing", "executed", "rejected", "stale", "failed", "partial_failed"}
PartStates == {"pending", "executing", "executed", "stale", "failed"}

\* Every variable has its type.
TypeOK ==
    /\ locking \in BOOLEAN
    /\ revision \in [Items -> 1..(MaxChanges + 1)]
    /\ zone \in 0..MaxChanges
    /\ \A a \in Approvals :
          /\ row[a].kind \in {"draft", "series"} /\ row[a].state \in States
          /\ row[a].claim \in 0..issued /\ row[a].fresh \in BOOLEAN
          /\ \A k \in DOMAIN row[a].parts :
                row[a].parts[k].item \in Items /\ row[a].parts[k].state \in PartStates
    /\ \A s \in Entries : entry[s].item \in Items /\ entry[s].live \in BOOLEAN
    /\ \A r \in Requests : req[r].pos \in 1..(Drafts + 1) /\ req[r].token \in 0..issued
    /\ changes \in 0..MaxChanges /\ faults \in 0..MaxFaults

\* Whoever retries, takes over or comes late, an approval schedules each of its drafts
\* at most once, a series in its order: where it ends, nothing after it was scheduled
\* (test_series_crash_recovery_and_partial_failure_are_no_replay); and what is called
\* executed was scheduled, every part of it.  The first is not said of a single draft on
\* SQLite, where a takeover that looked for a result before the first schedule was made,
\* and for a conflict after the owner cancelled it, makes another.
ScheduledOnce ==
    \A a \in Approvals : \A k \in DOMAIN row[a].parts :
        /\ locking \/ row[a].kind = "series" => Cardinality(MadeBy(a, k)) <= 1
        /\ row[a].state = "executed" => MadeBy(a, k) # {}
        /\ MadeBy(a, k) # {} => \A j \in 1..(k - 1) : MadeBy(a, j) # {}

\* Approvals of the draft and of its series never both schedule one revision
\* (admin_agent_execution_fence.py: the shared cross-mode authority).
OneTarget ==
    \A s, t \in Entries :
        /\ s # t /\ entry[s].live /\ entry[t].live
        /\ entry[s].by # Owner /\ entry[t].by # Owner
        => <<entry[s].item, entry[s].revision>> # <<entry[t].item, entry[t].revision>>

================================================================================
