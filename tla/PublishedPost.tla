----------------------------- MODULE PublishedPost -----------------------------
(***************************************************************************)
(* What happens to a post after its publication: workers delete it when it *)
(* is due (src/app/workers/publication_autodelete.py and the services it   *)
(* calls), its owner edits it (src/app/services/                           *)
(* canonical_publication_edit.py), and both meet in the same rows and the  *)
(* same Telegram messages.                                                 *)
(*                                                                         *)
(* A worker leases a publication, reserves one message after another in    *)
(* the action ledger, asks Telegram to delete it between two transactions  *)
(* and marks the publication in the end.  An edit reads, asks Telegram,    *)
(* then stores a revision.  Transactions are steps: the database honours   *)
(* row locks.  The authority fingerprint covers the revision and values    *)
(* that change only with it, so the revision stands for it.                *)
(***************************************************************************)
EXTENDS Integers, SequencesExt, FiniteSetsExt

CONSTANTS
    Posts,       \* the publications: the Telegram messages of each, in order
    Intents,     \* what the publications may be planned with
    Workers,     \* autodelete workers, one per process
    Editors,     \* edits that may be under way at once
    ViewsWorker, \* the views worker is enabled
    BatchSize,   \* publications a pass looks at
    MaxEdits,    \* bound: edits
    MaxFaults    \* bound: deaths, cancellations, late holders, refused writes

\* Every post has messages, no message occurs twice.
ASSUME PublishedPostAssumption ==
    /\ Posts \in Seq(Seq(Nat) \ {<<>>})
    /\ \A p \in DOMAIN Posts : IsInjective(Posts[p])
    /\ \A p, q \in DOMAIN Posts : p # q => ToSet(Posts[p]) \cap ToSet(Posts[q]) = {}
    /\ "nobody" \notin Workers
    /\ Intents \subseteq [seconds : Nat, views : Nat]
    /\ ViewsWorker \in BOOLEAN
    /\ BatchSize \in Nat \ {0}
    /\ MaxEdits \in Nat /\ MaxFaults \in Nat

VARIABLES
    pub,        \* publications with their schedule entries
    lease,      \* PublicationAutodeleteLease by publication
    row,        \* PublicationAutodeleteAction by message
    gone,       \* messages that Telegram no longer has
    shown,      \* the edit a message shows (0: as published)
    w,          \* the workers' memory
    queue,      \* the batch of the views worker
    ed,         \* the edits under way
    edits,      \* edits begun
    unstored,   \* edits whose owner was told they failed, or whose process died
    calls,      \* deletions asked of Telegram, by message
    reports,    \* reports of a deletion sent to the owner
    faults      \* faults so far

deletion == <<lease, row, w, calls, reports>>
editing == <<ed, edits, unstored>>
vars == <<pub, gone, shown, queue, deletion, editing, faults>>

Pubs == DOMAIN Posts
Messages == UNION {ToSet(Posts[p]) : p \in Pubs}

NoLease == [by |-> "nobody", live |-> FALSE]
NoRow == [state |-> "none", revision |-> 0]

Ambiguous == {"reserved", "unknown"}
Resolved == {"succeeded", "unavailable"}

RestingWorker == [pc |-> "loop", cursor |-> 0, todo |-> <<>>, revision |-> 0,
                  mixed |-> FALSE, ids |-> <<>>, next |-> 1, result |-> "none", own |-> FALSE]

NoEdit == [pc |-> "idle", of |-> 0, revision |-> 0, intent |-> [seconds |-> 0, views |-> 0],
           todo |-> <<>>, hit |-> 0, tag |-> 0]

\* noReplay: migrated evidence forbids automatic deletion.  text is the history of
\* the revisions, as the edits they store.
Published(p, intent, noReplay) ==
    [revision |-> 1, ids |-> Posts[p], intent |-> intent, due |-> FALSE,
     deleted |-> FALSE, watched |-> intent.views > 0, noReplay |-> noReplay, text |-> <<0>>]

Init ==
    /\ pub \in {[p \in Pubs |-> Published(p, intent[p], p = barred)] :
                  intent \in [Pubs -> Intents], barred \in Pubs \cup {0}}
    /\ lease = [p \in Pubs |-> NoLease]
    /\ row = [m \in Messages |-> NoRow]
    /\ gone = {}
    /\ shown = [m \in Messages |-> 0]
    /\ w = [x \in Workers |-> RestingWorker]
    /\ queue = <<>>
    /\ ed = [e \in Editors |-> NoEdit]
    /\ edits = 0
    /\ unstored = {}
    /\ calls = [m \in Messages |-> 0]
    /\ reports = [p \in Pubs |-> 0]
    /\ faults = 0

-----------------------------------------------------------------------------
(* What the services decide from the rows. *)

MessagesOf(p) == ToSet(Posts[p])

Timed(intent) == intent.seconds > 0
Mixed(intent) == intent.seconds > 0 /\ intent.views > 0

\* The candidate a service accepts: by time only, or by time and views.
Eligible(p) == Timed(pub[p].intent) /\ pub[p].due /\ ~pub[p].deleted

\* The worker's publication, and whether its lease is still its own.
Job(x) == Head(w[x].todo)
Holds(x) == w[x].pc # "loop"
LiveLease(x) == lease[Job(x)] = [by |-> x, live |-> TRUE]

\* Faulty variant: the candidate that was read first is trusted.
TrustCandidate(x) == TRUE

\* The locked rows are those the worker read without a lock.
StillCurrent(x) == Eligible(Job(x)) /\ pub[Job(x)].revision = w[x].revision

\* Faulty variant: a reservation of a lost worker is taken over.
TakeOver(x) ==
    \/ pub[Job(x)].noReplay
    \/ \E m \in MessagesOf(Job(x)) : row[m] # NoRow /\ row[m].revision # w[x].revision
    \/ \E m \in MessagesOf(Job(x)) : row[m].state = "unknown"

\* What in the ledger forbids another reservation.
Obstructed(x) ==
    \/ pub[Job(x)].noReplay
    \/ \E m \in MessagesOf(Job(x)) : row[m] # NoRow /\ row[m].revision # w[x].revision
    \/ \E m \in MessagesOf(Job(x)) : row[m].state \in Ambiguous

\* Every expected message is resolved under the worker's authority.
Accounted(x) ==
    \A m \in ToSet(w[x].ids) : row[m].state \in Resolved /\ row[m].revision = w[x].revision

-----------------------------------------------------------------------------
(* The autodelete worker. *)

Goto(x, pc) == w' = [w EXCEPT ![x].pc = pc]

\* The visit is over: what it read is forgotten, the lease is released next.
Leave(x) == w' = [w EXCEPT ![x] = [RestingWorker EXCEPT !.pc = "release", !.todo = w[x].todo,
                                                        !.cursor = w[x].cursor]]

\* The publications after the cursor, as many as a batch takes.
BatchAfter(cursor) == [i \in 1..Min({BatchSize, Len(Posts) - cursor}) |-> cursor + i]

\* Faulty variant: the cursor is never set back.
SelectOnwards(x) ==
    /\ w[x].pc = "loop" /\ w[x].todo = <<>>
    /\ LET batch == BatchAfter(w[x].cursor)
       IN  w' = [w EXCEPT ![x].todo = batch,
                          ![x].cursor = IF batch = <<>> THEN @ ELSE Last(batch)]
    /\ UNCHANGED <<pub, lease, row, gone, shown, queue, calls, reports, editing, faults>>

\* The next batch: at its end the cursor is already past it, or back at the start.
Select(x) ==
    /\ w[x].pc = "loop" /\ w[x].todo = <<>>
    /\ LET batch == BatchAfter(w[x].cursor)
       IN  w' = [w EXCEPT ![x].todo = batch,
                          ![x].cursor = IF Len(batch) < BatchSize THEN 0 ELSE Last(batch)]
    /\ UNCHANGED <<pub, lease, row, gone, shown, queue, calls, reports, editing, faults>>

\* An expired lease is removed and a new one inserted under the same key.
Acquire(x) ==
    /\ w[x].pc = "loop" /\ w[x].todo # <<>>
    /\ ~lease[Job(x)].live
    /\ lease' = [lease EXCEPT ![Job(x)] = [by |-> x, live |-> TRUE]]
    /\ Goto(x, "leased")
    /\ UNCHANGED <<pub, row, gone, shown, queue, calls, reports, editing, faults>>

Busy(x) ==
    /\ w[x].pc = "loop" /\ w[x].todo # <<>>
    /\ lease[Job(x)].live
    /\ w' = [w EXCEPT ![x].todo = Tail(@)]
    /\ UNCHANGED <<pub, lease, row, gone, shown, queue, calls, reports, editing, faults>>

\* The candidate, read without a lock.
Read(x) ==
    /\ w[x].pc = "leased"
    /\ IF Eligible(Job(x))
         THEN w' = [w EXCEPT ![x].pc = "next", ![x].revision = pub[Job(x)].revision,
                             ![x].mixed = Mixed(pub[Job(x)].intent),
                             ![x].ids = pub[Job(x)].ids]
         ELSE Leave(x)
    /\ UNCHANGED <<pub, lease, row, gone, shown, queue, calls, reports, editing, faults>>

MessageAt(x) == w[x].ids[w[x].next]
MessagesLeft(x) == w[x].pc = "next" /\ w[x].next <= Len(w[x].ids)

MayReserve(x) == StillCurrent(x) /\ LiveLease(x) /\ ~Obstructed(x)

\* Conflict, lost lease or an outcome nobody knows: this visit ends.
Refuse(x) ==
    /\ MessagesLeft(x) /\ ~MayReserve(x)
    /\ Leave(x)
    /\ UNCHANGED <<pub, lease, row, gone, shown, queue, calls, reports, editing, faults>>

\* Resolved by an earlier visit.
Skip(x) ==
    /\ MessagesLeft(x) /\ MayReserve(x)
    /\ row[MessageAt(x)].state \in Resolved
    /\ w' = [w EXCEPT ![x].next = @ + 1]
    /\ UNCHANGED <<pub, lease, row, gone, shown, queue, calls, reports, editing, faults>>

Reserve(x) ==
    /\ MessagesLeft(x) /\ MayReserve(x)
    /\ row[MessageAt(x)].state \notin Resolved
    /\ row' = [row EXCEPT ![MessageAt(x)] = [state |-> "reserved", revision |-> w[x].revision]]
    /\ Goto(x, "call")
    /\ UNCHANGED <<pub, lease, gone, shown, queue, calls, reports, editing, faults>>

\* What Telegram does and what it tells.
Deletes(m, result) ==
    \/ result = "succeeded" /\ m \notin gone /\ gone' = gone \cup {m}
    \/ result = "unavailable" /\ gone' = gone
    \/ result = "unknown" /\ gone' \in {gone, gone \cup {m}}

\* Outside any transaction, whatever became of lease and rows meanwhile.
Delete(x) ==
    /\ w[x].pc = "call"
    /\ \E result \in Resolved \cup {"unknown"} :
          /\ Deletes(MessageAt(x), result)
          /\ w' = [w EXCEPT ![x].pc = "mark", ![x].result = result]
    /\ calls' = [calls EXCEPT ![MessageAt(x)] = @ + 1]
    /\ UNCHANGED <<pub, lease, row, shown, queue, reports, editing, faults>>

Mark(x) ==
    /\ w[x].pc = "mark"
    /\ row' = [row EXCEPT ![MessageAt(x)].state = w[x].result]
    /\ IF w[x].result = "unknown"
         THEN Leave(x)
         ELSE w' = [w EXCEPT ![x].pc = "next", ![x].next = @ + 1, ![x].result = "none",
                             ![x].own = @ \/ w[x].result = "succeeded"]
    /\ UNCHANGED <<pub, lease, gone, shown, queue, calls, reports, editing, faults>>

\* The database refuses the mark: the reservation stays.
MarkFails(x) ==
    /\ w[x].pc = "mark" /\ faults < MaxFaults
    /\ faults' = faults + 1
    /\ Leave(x)
    /\ UNCHANGED <<pub, lease, row, gone, shown, queue, calls, reports, editing>>

\* The last transaction; a report follows when something was deleted, for time and
\* views together only when this visit deleted it.
MarkDeleted(x) ==
    /\ w[x].pc = "next" /\ ~MessagesLeft(x)
    /\ LET p == Job(x)
           reported == IF w[x].mixed
                         THEN w[x].own
                         ELSE \E m \in ToSet(w[x].ids) : row[m].state = "succeeded"
       IN  IF StillCurrent(x) /\ LiveLease(x) /\ Accounted(x)
             THEN /\ pub' = [pub EXCEPT ![p].deleted = TRUE,
                                        ![p].watched = @ /\ ~w[x].mixed]
                  /\ IF reported THEN Goto(x, "report") ELSE Leave(x)
             ELSE Leave(x) /\ UNCHANGED pub
    /\ UNCHANGED <<lease, row, gone, shown, queue, calls, reports, editing, faults>>

\* Best effort: the message may not leave.
Report(x) ==
    /\ w[x].pc = "report"
    /\ \E sent \in {0, 1} : reports' = [reports EXCEPT ![Job(x)] = @ + sent]
    /\ Leave(x)
    /\ UNCHANGED <<pub, lease, row, gone, shown, queue, calls, editing, faults>>

\* Only the worker's own lease is removed, live or not.
Release(x) ==
    /\ w[x].pc = "release"
    /\ lease' = IF lease[Job(x)].by = x THEN [lease EXCEPT ![Job(x)] = NoLease] ELSE lease
    /\ w' = [w EXCEPT ![x] = [RestingWorker EXCEPT !.cursor = w[x].cursor,
                                                   !.todo = Tail(w[x].todo)]]
    /\ UNCHANGED <<pub, row, gone, shown, queue, calls, reports, editing, faults>>

\* The process dies: what it remembers is gone, its lease stays.
Die(x) ==
    /\ Holds(x) /\ faults < MaxFaults
    /\ faults' = faults + 1
    /\ w' = [w EXCEPT ![x] = RestingWorker]
    /\ UNCHANGED <<pub, lease, row, gone, shown, queue, calls, reports, editing>>

\* Cancelled while Telegram is asked: it may have been done, and one attempt is made
\* to mark it.
Cancel(x) ==
    /\ w[x].pc = "call" /\ faults < MaxFaults
    /\ faults' = faults + 1
    /\ Deletes(MessageAt(x), "unknown")
    /\ calls' = [calls EXCEPT ![MessageAt(x)] = @ + 1]
    /\ \E state \in Ambiguous : row' = [row EXCEPT ![MessageAt(x)].state = state]
    /\ w' = [w EXCEPT ![x] = RestingWorker]
    /\ UNCHANGED <<pub, lease, shown, queue, reports, editing>>

Work(x) ==
    \/ Select(x) \/ Acquire(x) \/ Busy(x) \/ Read(x)
    \/ Refuse(x) \/ Skip(x) \/ Reserve(x) \/ Delete(x) \/ Mark(x)
    \/ MarkDeleted(x) \/ Report(x) \/ Release(x)

-----------------------------------------------------------------------------
(* The views worker and the clock. *)

\* The publications with a views row, all of them due for a look; their order makes no
\* difference.
WatchedPubs == {p \in Pubs : pub[p].watched}

ViewsSelect ==
    /\ ViewsWorker
    /\ queue = <<>> /\ WatchedPubs # {}
    /\ queue' = SetToSeq(WatchedPubs)
    /\ UNCHANGED <<pub, gone, shown, deletion, editing, faults>>

\* The worker asks for the lease with allow_linked, which acquire does not take: the
\* call raises, the publication is passed over.
ViewsAcquire ==
    /\ queue # <<>>
    /\ queue' = Tail(queue)
    /\ UNCHANGED <<pub, gone, shown, deletion, editing, faults>>

BecomeDue(p) ==
    /\ Timed(pub[p].intent) /\ ~pub[p].due
    /\ pub' = [pub EXCEPT ![p].due = TRUE]
    /\ UNCHANGED <<gone, shown, queue, deletion, editing, faults>>

Held(p) == \E x \in Workers : Holds(x) /\ Job(x) = p /\ lease[p].by = x

\* A lease runs out: of a worker that is gone, or of one that is late.
Expire(p) ==
    /\ lease[p].live
    /\ ~Held(p)
    /\ lease' = [lease EXCEPT ![p].live = FALSE]
    /\ UNCHANGED <<pub, row, gone, shown, w, queue, calls, reports, editing, faults>>

Outlive(p) ==
    /\ lease[p].live
    /\ Held(p) /\ faults < MaxFaults
    /\ faults' = faults + 1
    /\ lease' = [lease EXCEPT ![p].live = FALSE]
    /\ UNCHANGED <<pub, row, gone, shown, w, queue, calls, reports, editing>>

-----------------------------------------------------------------------------
(* Edits of a published post. *)

\* Options of time and of views exclude each other in an edit.
Payloads == {intent \in Intents : ~Mixed(intent)}

\* The preflight passes when the owner saw the current revision; the confirmed message
\* of the last edit is tried first.
Preflight(e) ==
    /\ ed[e].pc = "idle" /\ edits < MaxEdits
    /\ \E p \in Pubs, intent \in Payloads :
          ed' = [ed EXCEPT ![e] = [pc |-> "edit", of |-> p, revision |-> pub[p].revision,
                                   intent |-> intent, todo |-> Reverse(pub[p].ids),
                                   hit |-> 0, tag |-> edits + 1]]
    /\ edits' = edits + 1
    /\ UNCHANGED <<pub, gone, shown, queue, deletion, unstored, faults>>

\* The owner is told, or nobody is left to tell: the edit is not stored.
GiveUp(e) ==
    /\ ed' = [ed EXCEPT ![e] = NoEdit]
    /\ unstored' = unstored \cup {ed[e].tag}

\* Telegram confirms the edit of a message.
Confirm(e) ==
    /\ ed[e].pc = "edit" /\ ed[e].todo # <<>>
    /\ Head(ed[e].todo) \notin gone
    /\ shown' = [shown EXCEPT ![Head(ed[e].todo)] = ed[e].tag]
    /\ ed' = [ed EXCEPT ![e].pc = "persist", ![e].hit = Head(ed[e].todo)]
    /\ UNCHANGED <<pub, gone, queue, deletion, edits, unstored, faults>>

\* A bad request: the message is gone, or of another kind, or already reads like that.
TryNext(e) ==
    /\ ed[e].pc = "edit" /\ ed[e].todo # <<>>
    /\ ed' = [ed EXCEPT ![e].todo = Tail(@)]
    /\ UNCHANGED <<pub, gone, shown, queue, deletion, edits, unstored, faults>>

\* Any other error, after which the message may read either way.
Unclear(e) ==
    /\ ed[e].pc = "edit" /\ ed[e].todo # <<>> /\ faults < MaxFaults
    /\ faults' = faults + 1
    /\ \/ shown' = shown
       \/ /\ Head(ed[e].todo) \notin gone
          /\ shown' = [shown EXCEPT ![Head(ed[e].todo)] = ed[e].tag]
    /\ GiveUp(e)
    /\ UNCHANGED <<pub, gone, queue, deletion, edits>>

NoneLeft(e) ==
    /\ ed[e].pc = "edit" /\ ed[e].todo = <<>>
    /\ GiveUp(e)
    /\ UNCHANGED <<pub, gone, shown, queue, deletion, edits, faults>>

\* The runtime after an edit: a new timer starts anew, without one nothing is left,
\* otherwise it stays.
Retimed(b, intent) ==
    IF (Timed(intent) /\ intent.seconds # b.intent.seconds) \/ (~Timed(intent) /\ intent # b.intent)
      THEN [b EXCEPT !.due = FALSE, !.deleted = FALSE]
      ELSE b

\* Faulty variant: the revision is advanced by the edit and by its runtime.
EditedTwice(b, e) ==
    [Retimed(b, ed[e].intent) EXCEPT !.revision = @ + 2, !.intent = ed[e].intent]

\* The stored edit: the confirmed message, which occurs once, moves to the end.
Edited(b, e) ==
    [Retimed(b, ed[e].intent) EXCEPT
        !.revision = @ + 1,
        !.ids = Append(RemoveFirst(@, ed[e].hit), ed[e].hit),
        !.intent = ed[e].intent,
        !.watched = ed[e].intent.views > 0,
        !.text = Append(@, ed[e].tag)]

\* Faulty variant: the revision is not compared again.
PersistAnyway(e) ==
    /\ ed[e].pc = "persist"
    /\ pub' = [pub EXCEPT ![ed[e].of] = Edited(@, e)]
    /\ ed' = [ed EXCEPT ![e] = NoEdit]
    /\ UNCHANGED <<gone, shown, queue, deletion, edits, unstored, faults>>

Persist(e) ==
    /\ ed[e].pc = "persist"
    /\ pub[ed[e].of].revision = ed[e].revision
    /\ pub' = [pub EXCEPT ![ed[e].of] = Edited(@, e)]
    /\ ed' = [ed EXCEPT ![e] = NoEdit]
    /\ UNCHANGED <<gone, shown, queue, deletion, edits, unstored, faults>>

Conflict(e) ==
    /\ ed[e].pc = "persist"
    /\ pub[ed[e].of].revision # ed[e].revision
    /\ GiveUp(e)
    /\ UNCHANGED <<pub, gone, shown, queue, deletion, edits, faults>>

\* The database refuses it, or the process dies with it.
Lose(e) ==
    /\ ed[e].pc # "idle" /\ faults < MaxFaults
    /\ faults' = faults + 1
    /\ GiveUp(e)
    /\ UNCHANGED <<pub, gone, shown, queue, deletion, edits>>

Edit(e) ==
    \/ Preflight(e) \/ Confirm(e) \/ TryNext(e) \/ Unclear(e) \/ NoneLeft(e)
    \/ Persist(e) \/ Conflict(e) \/ Lose(e)

Next ==
    \/ \E x \in Workers : Work(x) \/ MarkFails(x) \/ Die(x) \/ Cancel(x)
    \/ \E p \in Pubs : BecomeDue(p) \/ Expire(p) \/ Outlive(p)
    \/ \E e \in Editors : Edit(e)
    \/ ViewsSelect \/ ViewsAcquire

Spec == Init /\ [][Next]_vars

\* The polling loops go on, time passes, a lease nobody holds runs out.
FairSpec ==
    /\ Spec
    /\ \A x \in Workers : WF_vars(Work(x))
    /\ \A p \in Pubs : WF_vars(BecomeDue(p)) /\ WF_vars(Expire(p))
    /\ WF_vars(ViewsSelect \/ ViewsAcquire)

-----------------------------------------------------------------------------
(* Properties. *)

Publication ==
    [revision : 1..(MaxEdits + 1), ids : Seq(Messages), intent : Intents, due : BOOLEAN,
     deleted : BOOLEAN, watched : BOOLEAN, noReplay : BOOLEAN, text : Seq(0..MaxEdits)]

\* Every variable has its type.
TypeOK ==
    /\ pub \in [Pubs -> Publication]
    /\ lease \in [Pubs -> [by : Workers \cup {"nobody"}, live : BOOLEAN]]
    /\ row \in [Messages -> [state : {"none"} \cup Ambiguous \cup Resolved,
                             revision : 0..(MaxEdits + 1)]]
    /\ gone \subseteq Messages
    /\ shown \in [Messages -> 0..MaxEdits]
    /\ queue \in Seq(Pubs)
    /\ \A e \in Editors : ed[e].pc \in {"idle", "edit", "persist"} /\ ed[e].of \in Pubs \cup {0}
    /\ \A x \in Workers : w[x].pc \in {"loop", "leased", "next", "call", "mark", "report", "release"}
    /\ edits \in 0..MaxEdits
    /\ unstored \subseteq 1..MaxEdits
    /\ calls \in [Messages -> Nat] /\ reports \in [Pubs -> Nat]
    /\ faults \in 0..MaxFaults

\* Telegram is asked at most once to delete a message, and the owner is told at most once,
\* only of a deletion that is whole, whichever workers lease the publication one after
\* another, die, are cancelled or come late, and whatever the owner edits meanwhile
\* (publication_autodelete.py: no-replay barriers).
DeletedOnce ==
    /\ \A m \in Messages : calls[m] <= 1
    /\ \A p \in Pubs : /\ reports[p] <= 1
                       /\ reports[p] = 1 => \A m \in MessagesOf(p) : row[m].state \in Resolved

\* No message is reserved for deletion once the owner took the timer away or changed
\* the post, however old the candidate of the worker is (_reserve_message).
NothingReservedAfterwards ==
    [][\A p \in Pubs : \A m \in MessagesOf(p) :
          row[m] = NoRow /\ row'[m] # NoRow =>
             /\ Eligible(p) /\ row'[m].revision = pub[p].revision]_vars

\* The message an edit was confirmed for shows the current revision, or what an edit
\* wrote that is still under way or whose failure is out (canonical_publication_edit.py:
\* a post-provider persistence failure is reported explicitly).
ChannelShowsRevision ==
    \A p \in Pubs :
        LET seen == shown[Last(pub[p].ids)]
        IN  \/ Last(pub[p].ids) \in gone
            \/ seen = Last(pub[p].text)
            \/ seen \in unstored
            \/ \E e \in Editors : ed[e].pc # "idle" /\ ed[e].tag = seen

\* What can keep a due publication from its deletion: an outcome nobody knows, an edit
\* between two messages, migrated evidence.
Blocked(p) ==
    \/ pub[p].noReplay
    \/ \E m \in MessagesOf(p) :
          row[m].state \in Ambiguous \/ (row[m] # NoRow /\ row[m].revision # pub[p].revision)

\* Every due publication is deleted in the end, unless it is blocked or edited: no
\* worker's death, lease or cursor leaves it behind (workers/publication_autodelete.py).
DueIsDeleted == \A p \in Pubs : Eligible(p) ~> (~Eligible(p) \/ Blocked(p))

\* A publication that is to be deleted by its views, which they have reached, is
\* deleted in the end, unless it is edited or migrated evidence forbids it.
ViewsDelete ==
    \A p \in Pubs :
        ~pub[p].noReplay /\ ~Timed(pub[p].intent) /\ pub[p].intent.views > 0
            ~> (pub[p].deleted \/ pub[p].revision > 1)
===============================================================================
