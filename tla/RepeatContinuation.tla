--------------------------- MODULE RepeatContinuation ---------------------------
(***************************************************************************)
(* Continuation of repeating publications (src/app/workers/                *)
(* canonical_repeat_continuation.py and the services it calls): a worker   *)
(* scans the published occurrences in batches and, for each, verifies,     *)
(* reserves the next slot in the metadata of the source, and materializes  *)
(* the successor, every step in a transaction of its own.  Meanwhile the   *)
(* owner edits, reschedules, cancels or changes the repeat, the autodelete *)
(* worker marks deletions in the same metadata, and workers die anywhere.  *)
(*                                                                         *)
(* With RowLocks (PostgreSQL) a transaction is one step.  Without (SQLite) *)
(* one that writes is two: what it read, then what it writes, JSON         *)
(* metadata as a whole.  A transaction that only reads is one step.        *)
(***************************************************************************)
EXTENDS Integers, Sequences, FiniteSetsExt

CONSTANTS
    Workers,         \* continuation workers, one per process
    Intervals,       \* repeat intervals an owner may choose
    BatchSize,       \* sources a pass continues
    ScanLimit,       \* published rows a pass looks at
    RowLocks,        \* the database honours SELECT ... FOR UPDATE
    MaxOccurrences,  \* bound: occurrences of the series
    MaxRevisions,    \* bound: revisions of its content item
    MaxTime,         \* bound: the clock
    MaxUnlocked,     \* bound: controls under way that read without a lock (0: unused)
    MaxFaults        \* bound: steps of workers that die or raise

ASSUME RepeatAssumption ==
    /\ Intervals \subseteq Nat \ {0}
    /\ BatchSize \in Nat \ {0}
    /\ ScanLimit \in Nat /\ ScanLimit >= BatchSize
    /\ RowLocks \in BOOLEAN
    /\ MaxOccurrences \in Nat \ {0} /\ MaxRevisions \in Nat /\ MaxTime \in Nat
    /\ MaxUnlocked \in Nat /\ MaxFaults \in Nat

VARIABLES
    occ,     \* the occurrences by id: a publication with its schedule entry
    item,    \* ContentItem.current_revision
    now,     \* the clock
    w,       \* the workers' memory
    edit,    \* an edit that has read and not written
    mark,    \* a deletion mark that has read and not written
    late,    \* controls of a waiting occurrence that have read and not written
    faults   \* worker faults so far

unwritten == <<edit, mark, late>>

vars == <<occ, item, now, w, unwritten, faults>>

Ids == 1..Len(occ)

NoPlan == [at |-> 0, every |-> 0, group |-> 0, revision |-> 0]

\* One occurrence: every is the repeat rule (0 when it is off), plan and copy are the
\* reservation in the metadata of publication and schedule entry.  Runtime options
\* change only with the revision.
Occurrence(at, every, group, revision, source) ==
    [status |-> "queued", at |-> at, every |-> every, group |-> group,
     revision |-> revision, source |-> source, plan |-> NoPlan, copy |-> NoPlan]

IdleWorker == [pc |-> "idle", time |-> 0, cursor |-> 0, next |-> 0, done |-> FALSE,
               todo |-> {}, plan |-> NoPlan]

NoEdit == [id |-> 0, published |-> FALSE, plan |-> NoPlan, copy |-> NoPlan]
NoMark == [id |-> 0, plan |-> NoPlan]

Init ==
    /\ \E every \in Intervals \cup {0} :
          occ = <<Occurrence(0, every, IF every = 0 THEN 0 ELSE 1, 1, 0)>>
    /\ item = 1
    /\ now = 0
    /\ w = [x \in Workers |-> IdleWorker]
    /\ edit = NoEdit
    /\ mark = NoMark
    /\ late = {}
    /\ faults = 0

-----------------------------------------------------------------------------
(* What the services decide from the rows. *)

\* The first slot after `after`, stepping from `start`.
NextRepeatTime(start, every, after) ==
    IF start > after THEN start ELSE start + every * (((after - start) \div every) + 1)

\* The exclusive continuation authority over a source.
Authority(i) == occ[i].status = "published" /\ occ[i].every > 0 /\ occ[i].group > 0

\* The other occurrences of the series that stand at a slot with a given content.
AtSlot(i, plan) ==
    {j \in Ids \ {i} : /\ occ[j].revision = plan.revision
                       /\ occ[j].at = plan.at
                       /\ occ[j].group = plan.group}

\* The reservation still describes its source.
Describes(plan, i) ==
    /\ plan.every = occ[i].every
    /\ plan.group = occ[i].group
    /\ plan.revision = occ[i].revision

\* No reservation yet: Verify calls the source ineligible and Reserve goes on.
Unreserved(i) == Authority(i) /\ occ[i].plan = NoPlan /\ occ[i].copy = NoPlan

\* Faulty variant: a reservation is not compared with its source any more.
PendingUnchecked(i) ==
    /\ Authority(i)
    /\ occ[i].plan # NoPlan
    /\ occ[i].plan = occ[i].copy
    /\ AtSlot(i, occ[i].plan) = {}

\* A reservation without a successor at its slot.
Pending(i) ==
    /\ Authority(i)
    /\ occ[i].plan # NoPlan
    /\ occ[i].plan = occ[i].copy
    /\ Describes(occ[i].plan, i)
    /\ AtSlot(i, occ[i].plan) = {}

Snapshot(i, time) ==
    [at |-> NextRepeatTime(occ[i].at + occ[i].every, occ[i].every, time),
     every |-> occ[i].every, group |-> occ[i].group, revision |-> occ[i].revision]

-----------------------------------------------------------------------------
(* A pass of the worker. *)

At(x, place) == w[x].pc = place
Source(x) == Min(w[x].todo)

\* The next source of the batch; after the last one the cursor moves.
NextSource(x) ==
    w' = [w EXCEPT ![x] =
            IF w[x].todo # {Source(x)}
            THEN [w[x] EXCEPT !.pc = "verify", !.todo = w[x].todo \ {Source(x)},
                              !.plan = NoPlan]
            ELSE [IdleWorker EXCEPT !.cursor = IF w[x].done THEN 0 ELSE w[x].next]]

StartPass(x) ==
    /\ At(x, "idle")
    /\ w' = [w EXCEPT ![x].pc = "select", ![x].time = now]
    /\ UNCHANGED <<occ, item, now, unwritten, faults>>

\* The n smallest of a set of ids.
First(n, ids) == {i \in ids : Cardinality({j \in ids : j < i}) < n}

\* The published occurrences after the cursor, as many as one scan reads, and those
\* of them, as many as one pass continues, that repeat.
Scanned(x) ==
    First(ScanLimit, {i \in Ids : i > w[x].cursor /\ occ[i].status = "published"})

Batch(x) == First(BatchSize, {i \in Scanned(x) : occ[i].every > 0})

\* What a pass does when nothing it scanned repeats, and otherwise.
TakeBatch(x, next, done) ==
    w' = [w EXCEPT ![x] =
             IF Batch(x) = {}
             THEN [IdleWorker EXCEPT !.cursor = IF done THEN 0 ELSE next]
             ELSE [@ EXCEPT !.pc = "verify", !.todo = Batch(x), !.next = next,
                            !.done = done]]

\* Faulty variant: a page shorter than the limit is taken for exhausted although the
\* batch filled in the middle of it.
SelectToEnd(x) ==
    /\ At(x, "select")
    /\ LET page == Scanned(x) IN
       TakeBatch(x, IF page = {} THEN w[x].cursor ELSE Max(page),
                 Cardinality(page) < ScanLimit)
    /\ UNCHANGED <<occ, item, now, unwritten, faults>>

\* Faulty variant: a page without repeating occurrences is continued like any other.
SelectUnchecked(x) ==
    /\ At(x, "select")
    /\ w' = [w EXCEPT ![x].pc = "verify", ![x].todo = Batch(x), ![x].next = w[x].cursor,
                      ![x].done = TRUE]
    /\ UNCHANGED <<occ, item, now, unwritten, faults>>

\* When the batch fills, the rest of the page is left to the next pass; otherwise the
\* scan starts anew once the database has no full page left.
Select(x) ==
    /\ At(x, "select")
    /\ LET page == Scanned(x)
           full == Cardinality(Batch(x)) = BatchSize
       IN  TakeBatch(x, CASE full -> Max(Batch(x))
                          [] ~full /\ page # {} -> Max(page)
                          [] OTHER -> w[x].cursor,
                     ~full /\ Cardinality(page) < ScanLimit)
    /\ UNCHANGED <<occ, item, now, unwritten, faults>>

\* A durable reservation is never planned again: a pending one is materialized as it
\* is, and everything matched or in conflict is left alone.
Verify(x) ==
    /\ At(x, "verify")
    /\ LET i == Source(x) IN
       CASE Unreserved(i) -> w' = [w EXCEPT ![x].pc = "reserve"]
         [] Pending(i) -> w' = [w EXCEPT ![x].pc = "materialize"]
         [] OTHER -> NextSource(x)
    /\ UNCHANGED <<occ, item, now, unwritten, faults>>

\* Reserve proves the source again and plans: nothing may stand at the slot, and what
\* is reserved may only be this very plan.
MayReserve(i, plan) ==
    /\ Authority(i)
    /\ AtSlot(i, plan) = {}
    /\ <<occ[i].plan, occ[i].copy>> \in {<<NoPlan, NoPlan>>, <<plan, plan>>}

WritePlans(i, plan) == occ' = [occ EXCEPT ![i].plan = plan, ![i].copy = plan]

Reserve(x) ==
    LET i == Source(x)
        plan == Snapshot(i, w[x].time)
    IN
    /\ RowLocks
    /\ At(x, "reserve")
    /\ IF MayReserve(i, plan)
       THEN /\ WritePlans(i, plan)
            /\ w' = [w EXCEPT ![x].pc = "materialize"]
       ELSE NextSource(x) /\ UNCHANGED occ
    /\ UNCHANGED <<item, now, unwritten, faults>>

ReadReserve(x) ==
    LET i == Source(x)
        plan == Snapshot(i, w[x].time)
    IN
    /\ ~RowLocks
    /\ At(x, "reserve")
    /\ CASE MayReserve(i, plan) /\ Unreserved(i) ->
              w' = [w EXCEPT ![x].pc = "write", ![x].plan = plan]
         [] MayReserve(i, plan) /\ ~Unreserved(i) ->
              w' = [w EXCEPT ![x].pc = "materialize"]
         [] OTHER -> NextSource(x)
    /\ UNCHANGED <<occ, item, now, unwritten, faults>>

WriteReserve(x) ==
    /\ At(x, "write")
    /\ WritePlans(Source(x), w[x].plan)
    /\ w' = [w EXCEPT ![x].pc = "materialize", ![x].plan = NoPlan]
    /\ UNCHANGED <<item, now, unwritten, faults>>

\* Faulty variant: lineage is not unique in the database.
InsertAlways(i, plan) ==
    IF Len(occ) < MaxOccurrences
    THEN occ' = Append(occ, Occurrence(plan.at, plan.every, plan.group, plan.revision, i))
    ELSE UNCHANGED occ

\* Faulty variant: what is unique is the slot, not the lineage.
InsertUnlessSlotTaken(i, plan) ==
    IF Len(occ) < MaxOccurrences /\ \A j \in Ids : occ[j].at # plan.at
    THEN occ' = Append(occ, Occurrence(plan.at, plan.every, plan.group, plan.revision, i))
    ELSE UNCHANGED occ

\* repeat_source_publication_id is unique: a second successor fails the insertion.
Insert(i, plan) ==
    IF Len(occ) < MaxOccurrences /\ \A j \in Ids : occ[j].source # i
    THEN occ' = Append(occ, Occurrence(plan.at, plan.every, plan.group, plan.revision, i))
    ELSE UNCHANGED occ

\* The last verification of the source that follows only counts.
Materialize(x) ==
    LET i == Source(x) IN
    /\ RowLocks
    /\ At(x, "materialize")
    /\ IF Pending(i) THEN Insert(i, occ[i].plan) ELSE UNCHANGED occ
    /\ NextSource(x)
    /\ UNCHANGED <<item, now, unwritten, faults>>

ReadMaterialize(x) ==
    LET i == Source(x) IN
    /\ ~RowLocks
    /\ At(x, "materialize")
    /\ IF Pending(i)
       THEN w' = [w EXCEPT ![x].pc = "insert", ![x].plan = occ[i].plan]
       ELSE NextSource(x)
    /\ UNCHANGED <<occ, item, now, unwritten, faults>>

WriteMaterialize(x) ==
    /\ At(x, "insert")
    /\ Insert(Source(x), w[x].plan)
    /\ NextSource(x)
    /\ UNCHANGED <<item, now, unwritten, faults>>

\* A step raises: the pass goes on with the next source.
StepFails(x) ==
    /\ w[x].todo # {}
    /\ faults < MaxFaults
    /\ faults' = faults + 1
    /\ NextSource(x)
    /\ UNCHANGED <<occ, item, now, unwritten>>

\* The process stops, or the selection raises; the cursor is kept only in the latter.
Stop(x) ==
    /\ ~At(x, "idle")
    /\ faults < MaxFaults
    /\ faults' = faults + 1
    /\ \E cursor \in IF At(x, "select") THEN {0, w[x].cursor} ELSE {0} :
          w' = [w EXCEPT ![x] = [IdleWorker EXCEPT !.cursor = cursor]]
    /\ UNCHANGED <<occ, item, now, unwritten>>

-----------------------------------------------------------------------------
(* Delivery, the owner and the autodelete worker. *)

\* What PublicationDelivery does with an occurrence that is due.
Deliver(i) ==
    /\ occ[i].status = "queued"
    /\ occ[i].at <= now
    /\ \E outcome \in {"published", "failed"} :
          occ' = [occ EXCEPT ![i].status = outcome]
    /\ UNCHANGED <<item, now, w, unwritten, faults>>

Cancel(i) ==
    /\ occ[i].status = "queued"
    /\ occ' = [occ EXCEPT ![i].status = "cancelled"]
    /\ UNCHANGED <<item, now, w, unwritten, faults>>

\* Later by a positive delay in the content plan; to any time in the Studio planner,
\* which is one step only with row locks.
Reschedule(i) ==
    /\ occ[i].status = "queued"
    /\ \E at \in 0..MaxTime :
          /\ RowLocks \/ at > occ[i].at
          /\ occ' = [occ EXCEPT ![i].at = at]
    /\ UNCHANGED <<item, now, w, unwritten, faults>>

\* An occurrence without a group becomes the root of one.
StartRepeat(i) ==
    /\ occ[i].status = "queued"
    /\ \E every \in Intervals :
          occ' = [occ EXCEPT ![i].every = every,
                             ![i].group = IF @ = 0 THEN i ELSE @]
    /\ UNCHANGED <<item, now, w, unwritten, faults>>

\* Every waiting occurrence of the group leaves it.
StopRepeat(i) ==
    /\ occ[i].status = "queued"
    /\ occ' = [j \in Ids |->
                  IF j = i \/ (occ[i].group # 0 /\ occ[j].group = occ[i].group
                               /\ occ[j].status = "queued")
                  THEN [occ[j] EXCEPT !.every = 0, !.group = 0] ELSE occ[j]]
    /\ UNCHANGED <<item, now, w, unwritten, faults>>

\* A new revision: only of the current one, and unique in the database.
Editable(i, status) ==
    occ[i].status = status /\ occ[i].revision = item /\ item < MaxRevisions

\* Faulty variant: the metadata is written anew.
EditAfresh(i) ==
    /\ RowLocks
    /\ \E status \in {"queued", "published"} : Editable(i, status)
    /\ item' = item + 1
    /\ occ' = [occ EXCEPT ![i].revision = item', ![i].plan = NoPlan, ![i].copy = NoPlan]
    /\ UNCHANGED <<now, w, unwritten, faults>>

\* A published occurrence is edited after Telegram accepted the edit.
Edit(i) ==
    /\ RowLocks
    /\ \E status \in {"queued", "published"} : Editable(i, status)
    /\ item' = item + 1
    /\ occ' = [occ EXCEPT ![i].revision = item']
    /\ UNCHANGED <<now, w, unwritten, faults>>

ReadEdit(i) ==
    /\ ~RowLocks
    /\ edit = NoEdit
    /\ \E status \in {"queued", "published"} : Editable(i, status)
    /\ edit' = [id |-> i, published |-> occ[i].status = "published",
                plan |-> occ[i].plan, copy |-> occ[i].copy]
    /\ UNCHANGED <<occ, item, now, w, mark, late, faults>>

\* The metadata of a published occurrence is written, as read, when the edit changes the
\* runtime options.
WriteEdit ==
    LET i == edit.id IN
    /\ edit # NoEdit
    /\ edit' = NoEdit
    /\ IF occ[i].revision = item /\ item < MaxRevisions
       THEN /\ item' = item + 1
            /\ \/ occ' = [occ EXCEPT ![i].revision = item']
               \/ /\ edit.published
                  /\ occ' = [occ EXCEPT ![i].revision = item', ![i].plan = edit.plan,
                                        ![i].copy = edit.copy]
       ELSE UNCHANGED <<occ, item>>
    /\ UNCHANGED <<now, w, mark, late, faults>>

\* Controls that write by primary key what they decided from an unlocked read of a
\* waiting occurrence: on SQLite the Studio planner, on either database the bulk removal
\* of repeats, which cleans up the deletion options of the rest.
ReadUnlocked(i) ==
    /\ Cardinality(late) < MaxUnlocked
    /\ occ[i].status = "queued"
    /\ \/ ~RowLocks /\ late' = late \cup {<<"planner", i>>}
       \/ late' = late \cup
             {<<IF occ[i].every > 0 \/ occ[i].group > 0 THEN "removal" ELSE "cleanup", i>>}
    /\ UNCHANGED <<occ, item, now, w, edit, mark, faults>>

\* The metadata, when it held deletion options, is written back as it was: unreserved.
Unreserve(row) == [row EXCEPT !.plan = NoPlan, !.copy = NoPlan]

\* Faulty variant: the planner writes the status it read along with the new time.
LateRowsAsRead(kind, row) ==
    CASE kind = "planner" -> {[row EXCEPT !.status = "cancelled"]}
                                \cup {[row EXCEPT !.status = "queued", !.at = at] :
                                         at \in 0..MaxTime}
      [] kind = "removal" -> LET gone == [row EXCEPT !.status = "cancelled", !.every = 0]
                             IN  {gone, Unreserve(gone)}
      [] kind = "cleanup" -> {row, Unreserve(row)}

LateRows(kind, row) ==
    CASE kind = "planner" -> {[row EXCEPT !.status = "cancelled"]}
                                \cup {[row EXCEPT !.at = at] : at \in 0..MaxTime}
      [] kind = "removal" -> LET gone == [row EXCEPT !.status = "cancelled", !.every = 0]
                             IN  {gone, Unreserve(gone)}
      [] kind = "cleanup" -> {row, Unreserve(row)}

WriteUnlocked(i) ==
    /\ \E kind \in {"planner", "removal", "cleanup"} :
          /\ <<kind, i>> \in late
          /\ late' = late \ {<<kind, i>>}
          /\ \E row \in LateRows(kind, occ[i]) : occ' = [occ EXCEPT ![i] = row]
    /\ UNCHANGED <<item, now, w, edit, mark, faults>>

\* The autodelete worker marks a deletion in the metadata of a published occurrence.
\* With row locks that leaves the reservation alone; without, it writes back what the
\* metadata held when it was read.
ReadMarkDeleted(i) ==
    /\ ~RowLocks
    /\ mark = NoMark
    /\ occ[i].status = "published"
    /\ mark' = [id |-> i, plan |-> occ[i].plan]
    /\ UNCHANGED <<occ, item, now, w, edit, late, faults>>

WriteMarkDeleted ==
    /\ mark # NoMark
    /\ mark' = NoMark
    /\ occ' = [occ EXCEPT ![mark.id].plan = mark.plan]
    /\ UNCHANGED <<item, now, w, edit, late, faults>>

Tick ==
    /\ now < MaxTime
    /\ now' = now + 1
    /\ UNCHANGED <<occ, item, w, unwritten, faults>>

-----------------------------------------------------------------------------
Work(x) ==
    \/ StartPass(x) \/ Select(x) \/ Verify(x)
    \/ Reserve(x) \/ ReadReserve(x) \/ WriteReserve(x)
    \/ Materialize(x) \/ ReadMaterialize(x) \/ WriteMaterialize(x)

Control(i) ==
    \/ Cancel(i) \/ Reschedule(i) \/ StartRepeat(i) \/ StopRepeat(i) \/ Edit(i)
    \/ ReadEdit(i) \/ ReadUnlocked(i) \/ WriteUnlocked(i)

Next ==
    \/ \E x \in Workers : Work(x) \/ StepFails(x) \/ Stop(x)
    \/ \E i \in Ids : Deliver(i) \/ Control(i) \/ ReadMarkDeleted(i)
    \/ WriteEdit \/ WriteMarkDeleted
    \/ Tick

Spec == Init /\ [][Next]_vars

\* The polling loop calls the worker again and again, and its transactions return.
FairSpec == Spec /\ \A x \in Workers : WF_vars(Work(x))

-----------------------------------------------------------------------------
Plans == [at : Nat, every : Nat, group : Nat, revision : Nat]

Rows ==
    [status : {"queued", "published", "failed", "cancelled"}, at : Nat, every : Nat,
     group : Nat, revision : Nat, source : Nat, plan : Plans, copy : Plans]

WorkerMemory ==
    [pc : {"idle", "select", "verify", "reserve", "write", "materialize", "insert"},
     time : Nat, cursor : Nat, next : Nat, done : BOOLEAN, todo : SUBSET Nat, plan : Plans]

\* Workers, edits and marks always refer to occurrences that exist.
TypeOK ==
    /\ occ \in Seq(Rows)
    /\ item \in Nat
    /\ now \in Nat
    /\ w \in [Workers -> WorkerMemory]
    /\ \A x \in Workers :
          /\ w[x].todo \subseteq Ids
          /\ w[x].pc \notin {"idle", "select"} <=> w[x].todo # {}
    /\ edit \in [id : Ids \cup {0}, published : BOOLEAN, plan : Plans, copy : Plans]
    /\ edit # NoEdit => edit.id \in Ids
    /\ mark \in [id : Ids \cup {0}, plan : Plans]
    /\ mark # NoMark => mark.id \in Ids
    /\ late \subseteq {"planner", "removal", "cleanup"} \X Ids
    /\ faults \in Nat

\* A series never posts twice at once: only what was posted is continued, once, so at most
\* its last occurrence waits, however workers overlap and whatever was overwritten
\* meanwhile.  (A late write of an unlocked control cancels what was published.)
OnlyLastWaits ==
    \A i \in Ids : i < Len(occ) => occ[i].status \in {"published", "cancelled"}

\* The series is a line: every occurrence but the last was published and its only
\* successor is the next one, so at most one waits to be posted.  (A late write of an
\* unlocked control breaks it: it cancels what was published.)
SeriesIsALine ==
    \A i \in Ids :
        /\ occ[i].source = i - 1
        /\ i < Len(occ) => occ[i].status = "published" /\ occ[i].every > 0

\* A slot once reserved is kept, however much later and by whom it is materialized: the
\* series does not slip when a worker dies between reservation and successor.
ReservationIsDurable ==
    [][\A i \in Ids : occ[i].plan # NoPlan =>
          occ'[i].plan = occ[i].plan /\ occ'[i].copy = occ[i].copy]_vars

\* A successor carries the content its source shows at that moment, and stands on the
\* grid of its source's schedule, later than the source.
SuccessorContinuesSource ==
    [][\A j \in DOMAIN occ' \ Ids :
          LET new == occ'[j]
              old == occ'[new.source]
          IN  /\ new.revision = old.revision
              /\ new.every = old.every
              /\ new.at > old.at
              /\ (new.at - old.at) % old.every = 0]_vars

\* The reservation was made for what the source was before an edit.
Outdated(i) == i \in Ids /\ occ[i].plan # NoPlan /\ ~Describes(occ[i].plan, i)

\* A published repeating occurrence gets its successor although workers die at any step,
\* unless it was edited between reservation and materialization, after which it is
\* left alone for good.
SeriesContinues ==
    \A i \in 1..(MaxOccurrences - 1) :
        (i \in Ids /\ Authority(i)) ~> (i + 1 \in Ids \/ Outdated(i))

\* The continuation keeps the promise of RepeatSeries.
Series == INSTANCE RepeatSeries
    WITH length <- Len(occ), last <- occ[Len(occ)].status,
         repeats <- occ[Len(occ)].every > 0
KeepsSeries == Series!Spec
=============================================================================
