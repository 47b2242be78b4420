----------------------- MODULE RepeatContinuation_proofs -----------------------
(* Proofs about RepeatContinuation, for any workers, intervals and bounds.  *)
EXTENDS RepeatContinuation, FiniteSetTheorems, SequenceTheorems, TLAPS

-----------------------------------------------------------------------------
(* Smallest and largest elements, and the operators of the module.          *)

\* A non-empty set of naturals has the smallest element the worker takes from it.
LEMMA MinElement ==
  ASSUME NEW S \in SUBSET Nat, S # {}
  PROVE  Min(S) \in S /\ \A i \in S : Min(S) <= i
  <1>1. PICK n : n \in S
    OBVIOUS
  <1> DEFINE Below == {0..k : k \in S}
             R == StrictSubsetOrdering(Nat)
  <1>2. Below \subseteq FiniteSubsetsOf(Nat)
    <2> SUFFICES ASSUME NEW k \in S PROVE 0..k \in FiniteSubsetsOf(Nat)
      OBVIOUS
    <2>1. IsFiniteSet(0..k)
      BY FS_Interval
    <2> QED BY <2>1 DEF FiniteSubsetsOf
  <1>3. IsWellFoundedOn(R, FiniteSubsetsOf(Nat))
    BY FS_StrictSubsetOrderingWellFounded
  <1>4. Below # {}
    BY <1>1
  <1>5. PICK b \in Below : \A c \in Below : <<c, b>> \notin R
    <2> HIDE DEF R, Below
    <2> QED BY <1>2, <1>3, <1>4, WFMin
  <1>6. PICK m \in S : b = 0..m
    OBVIOUS
  <1>7. ASSUME NEW i \in S PROVE m <= i
    <2> SUFFICES ASSUME i < m PROVE FALSE
      OBVIOUS
    <2>1. 0..i \subseteq 0..m /\ m \notin 0..i /\ m \in 0..m
      OBVIOUS
    <2>2. <<0..i, 0..m>> \in R
      BY <2>1 DEF StrictSubsetOrdering
    <2> QED BY <1>5, <1>6, <2>2
  <1> QED BY <1>7 DEF Min

\* A bounded non-empty set of naturals has a largest element.
LEMMA MaxElement ==
  ASSUME NEW n \in Nat, NEW S \in SUBSET (0..n), S # {}
  PROVE  Max(S) \in S
  <1> DEFINE T == {n - i : i \in S}
  <1>1. T \in SUBSET Nat
    OBVIOUS
  <1>2. T # {}
    <2>1. PICK i \in S : TRUE
      OBVIOUS
    <2>2. n - i \in T
      BY <2>1
    <2> QED BY <2>2
  <1>3. PICK i \in S : Min(T) = n - i
    BY <1>1, <1>2, MinElement
  <1>4. \A j \in S : n - i <= n - j
    BY <1>1, <1>2, <1>3, MinElement
  <1>5. \A j \in S : i >= j
    BY <1>4
  <1> QED BY <1>5 DEF Max

\* The next slot of a schedule is a time like any other.
LEMMA NextTyped ==
  ASSUME NEW s \in Nat, NEW e \in Nat \ {0}, NEW a \in Nat
  PROVE  NextRepeatTime(s, e, a) \in Nat
  <1>1. CASE s > a
   BY <1>1 DEF NextRepeatTime
  <1>2. CASE ~(s > a)
   <2> DEFINE k == ((a - s) \div e) + 1
   <2>1. k \in Nat
     BY <1>2
   <2>2. e * k \in Nat
     BY <2>1
   <2> QED BY <1>2, <2>2 DEF NextRepeatTime
  <1> QED BY <1>1, <1>2

-----------------------------------------------------------------------------
(* The parts of the type invariant. *)

OccTyped == occ \in Seq(Rows)

\* What the memory of one worker may hold, given the rows.
Sound(m) ==
    /\ m \in WorkerMemory
    /\ m.todo \subseteq Ids
    /\ m.pc \notin {"idle", "select"} <=> m.todo # {}

MemorySound == w \in [Workers -> WorkerMemory] /\ \A x \in Workers : Sound(w[x])

EditTyped ==
    /\ edit \in [id : Ids \cup {0}, published : BOOLEAN, plan : Plans, copy : Plans]
    /\ edit # NoEdit => edit.id \in Ids

MarkTyped ==
    /\ mark \in [id : Ids \cup {0}, plan : Plans]
    /\ mark # NoMark => mark.id \in Ids

Kinds == {"planner", "removal", "cleanup"}

LateTyped == late \subseteq Kinds \X Ids

Counters == item \in Nat /\ now \in Nat /\ faults \in Nat

\* The type invariant is the conjunction of these parts.
LEMMA TypeParts ==
  TypeOK <=> OccTyped /\ MemorySound /\ EditTyped /\ MarkTyped /\ LateTyped /\ Counters
  BY DEF TypeOK, OccTyped, MemorySound, Sound, EditTyped, MarkTyped, Kinds, LateTyped,
         Counters

\* An absent reservation is in the set of plans.
LEMMA NoPlanTyped == NoPlan \in Plans
  BY DEF NoPlan, Plans

\* The ids are naturals below the length, each with a well-formed row.
LEMMA IdsNat ==
  ASSUME OccTyped
  PROVE  Len(occ) \in Nat /\ Ids \subseteq Nat /\ Ids \subseteq 0..Len(occ)
         /\ \A i \in Ids : occ[i] \in Rows
  BY LenProperties, ElementOfSeq DEF OccTyped, Ids

\* An idle worker's memory is sound.
LEMMA IdleSound == Sound(IdleWorker)
  BY NoPlanTyped DEF Sound, IdleWorker, WorkerMemory

\* Replacing the memory of one worker by a sound one.
LEMMA SetMemory ==
  ASSUME MemorySound, NEW x \in Workers, NEW m, Sound(m),
         w' = [w EXCEPT ![x] = m]
  PROVE  w' \in [Workers -> WorkerMemory] /\ \A y \in Workers : Sound(w'[y])
  BY DEF MemorySound, Sound

\* The source a busy worker looks at is one of its batch.
LEMMA SourceInTodo ==
  ASSUME OccTyped, MemorySound, NEW x \in Workers, w[x].todo # {}
  PROVE  Source(x) \in w[x].todo /\ Source(x) \in Ids
  <1>1. w[x].todo \in SUBSET Nat
    BY IdsNat DEF MemorySound, Sound
  <1>2. Source(x) \in w[x].todo
    BY <1>1, MinElement DEF Source
  <1> QED BY <1>2 DEF MemorySound, Sound

\* A worker that works on a source has one.
LEMMA BusyHasTodo ==
  ASSUME MemorySound, NEW x \in Workers,
         NEW place \in {"verify", "reserve", "write", "materialize", "insert"}, At(x, place)
  PROVE  w[x].todo # {}
  BY DEF MemorySound, Sound, At

\* Going on with the next source keeps the memory sound.
LEMMA NextSourceSound ==
  ASSUME OccTyped, MemorySound, NEW x \in Workers, w[x].todo # {}, NextSource(x)
  PROVE  w' \in [Workers -> WorkerMemory] /\ \A y \in Workers : Sound(w'[y])
  <1> DEFINE more == [w[x] EXCEPT !.pc = "verify", !.todo = w[x].todo \ {Source(x)},
                                  !.plan = NoPlan]
             none == [IdleWorker EXCEPT !.cursor = IF w[x].done THEN 0 ELSE w[x].next]
  <1>1. w[x] \in WorkerMemory /\ Sound(w[x])
    BY DEF MemorySound
  <1>2. CASE w[x].todo # {Source(x)}
    <2>1. w' = [w EXCEPT ![x] = more]
      BY <1>2 DEF NextSource, MemorySound
    <2>2. w[x].todo \ {Source(x)} # {}
      BY <1>2, SourceInTodo
    <2>3. more \in WorkerMemory /\ more.todo = w[x].todo \ {Source(x)} /\ more.pc = "verify"
      BY <1>1, NoPlanTyped DEF WorkerMemory
    <2>4. Sound(more)
      BY <1>1, <2>2, <2>3 DEF Sound
    <2> HIDE DEF more
    <2> QED BY <2>1, <2>4, SetMemory
  <1>3. CASE w[x].todo = {Source(x)}
    <2>1. w' = [w EXCEPT ![x] = none]
      BY <1>3 DEF NextSource, MemorySound
    <2>2. none \in WorkerMemory /\ none.todo = {} /\ none.pc = "idle"
      BY <1>1, NoPlanTyped DEF WorkerMemory, IdleWorker
    <2>3. Sound(none)
      BY <2>2 DEF Sound
    <2> HIDE DEF none
    <2> QED BY <2>1, <2>3, SetMemory
  <1> QED BY <1>2, <1>3

\* Moving on with the same source keeps the memory sound.
LEMMA SameSourceSound ==
  ASSUME MemorySound, NEW x \in Workers, w[x].todo # {},
         NEW place \in {"verify", "reserve", "write", "materialize", "insert"},
         NEW plan \in Plans, w' = [w EXCEPT ![x].pc = place, ![x].plan = plan]
  PROVE  w' \in [Workers -> WorkerMemory] /\ \A y \in Workers : Sound(w'[y])
  <1> DEFINE m == [w[x] EXCEPT !.pc = place, !.plan = plan]
  <1>1. w[x] \in WorkerMemory /\ Sound(w[x])
    BY DEF MemorySound
  <1>2. w' = [w EXCEPT ![x] = m]
    BY DEF MemorySound
  <1>3. m \in WorkerMemory /\ m.todo = w[x].todo /\ m.pc = place
    BY <1>1 DEF WorkerMemory
  <1>4. Sound(m)
    BY <1>1, <1>3 DEF Sound
  <1> HIDE DEF m
  <1> QED BY <1>2, <1>4, SetMemory

-----------------------------------------------------------------------------
(* What a step does to the rows. *)

\* How a row may change: its lineage never does, and status or repeat rule, one at a
\* time, only while it is waiting.
Evolves(old, new) ==
    /\ new.source = old.source
    /\ \/ new.status = old.status /\ new.every = old.every
       \/ /\ old.status = "queued"
          /\ new.status = old.status \/ new.every = old.every

\* A step replaces one row.
Replaces(i, row) ==
    /\ row \in Rows
    /\ occ' = [occ EXCEPT ![i] = row]
    /\ Evolves(occ[i], row)

\* A step neither adds nor removes rows.
Keeps ==
    /\ OccTyped'
    /\ Len(occ') = Len(occ)
    /\ Ids' = Ids
    /\ \A j \in Ids : Evolves(occ[j], occ'[j])

\* A step appends the successor of i.
Appends(i, plan) ==
    /\ \A j \in Ids : occ[j].source # i
    /\ occ' = Append(occ, Occurrence(plan.at, plan.every, plan.group, plan.revision, i))

\* Replacing one row keeps the others.
LEMMA ReplacesKeeps ==
  ASSUME OccTyped, NEW i \in Ids, NEW row, Replaces(i, row)
  PROVE  Keeps
  <1>1. row \in Rows /\ occ' = [occ EXCEPT ![i] = row] /\ i \in 1..Len(occ)
    BY DEF Replaces, Ids
  <1>2. /\ occ' \in Seq(Rows)
        /\ Len(occ') = Len(occ)
        /\ \A j \in 1..Len(occ) : occ'[j] = IF j = i THEN row ELSE occ[j]
    BY <1>1, ExceptSeq DEF OccTyped
  <1> QED BY <1>2 DEF Keeps, Replaces, Evolves, Ids, OccTyped

\* So does leaving the rows alone.
LEMMA UnchangedKeeps ==
  ASSUME OccTyped, UNCHANGED occ
  PROVE  Keeps
  BY DEF Keeps, Evolves, OccTyped, Ids

\* Appending a successor keeps all rows and adds the new one at the end.
LEMMA AppendsTyped ==
  ASSUME OccTyped, NEW i \in Nat, NEW plan \in Plans, Appends(i, plan)
  PROVE  /\ OccTyped'
         /\ Len(occ') = Len(occ) + 1
         /\ Ids' = Ids \cup {Len(occ) + 1}
         /\ \A j \in Ids : occ'[j] = occ[j]
         /\ occ'[Len(occ) + 1] =
               Occurrence(plan.at, plan.every, plan.group, plan.revision, i)
  <1> DEFINE row == Occurrence(plan.at, plan.every, plan.group, plan.revision, i)
  <1>1. row \in Rows
    BY NoPlanTyped DEF Occurrence, Rows, Plans
  <1>2. occ' = Append(occ, row)
    BY DEF Appends
  <1>3. Len(occ) \in Nat
    BY IdsNat
  <1> HIDE DEF row
  <1>4. /\ occ' \in Seq(Rows)
        /\ Len(occ') = Len(occ) + 1
        /\ \A j \in 1..Len(occ) : occ'[j] = occ[j]
        /\ occ'[Len(occ) + 1] = row
    BY <1>1, <1>2, AppendProperties DEF OccTyped
  <1>5. Ids' = Ids \cup {Len(occ) + 1}
    BY <1>3, <1>4 DEF Ids
  <1> QED BY <1>4, <1>5 DEF Ids, OccTyped, row

\* An insertion appends the successor or, when lineage or bound forbid it, does nothing.
LEMMA InsertCases ==
  ASSUME NEW i, NEW plan, Insert(i, plan)
  PROVE  UNCHANGED occ \/ Appends(i, plan)
  BY DEF Insert, Appends

\* What a delivery, the owner or a reader of the metadata does to the rows.
LEMMA OwnerKeeps ==
  ASSUME OccTyped, Counters, NEW i \in Ids,
         Deliver(i) \/ Control(i) \/ ReadMarkDeleted(i), ~WriteUnlocked(i)
  PROVE  Keeps
  <1>1. i \in Nat /\ occ[i] \in Rows /\ i \in DOMAIN occ
    BY IdsNat, LenProperties DEF OccTyped, Ids
  <1>2. CASE Deliver(i)
    <2>1. PICK outcome \in {"published", "failed"} :
             occ' = [occ EXCEPT ![i].status = outcome] /\ occ[i].status = "queued"
      BY <1>2 DEF Deliver
    <2> DEFINE row == [occ[i] EXCEPT !.status = outcome]
    <2>2. row \in Rows /\ row.source = occ[i].source /\ row.every = occ[i].every
      BY <1>1 DEF Rows
    <2>3. occ' = [occ EXCEPT ![i] = row]
      BY <1>1, <2>1
    <2> QED BY <2>1, <2>2, <2>3, ReplacesKeeps DEF Replaces, Evolves
  <1>3. CASE Cancel(i)
    <2> DEFINE row == [occ[i] EXCEPT !.status = "cancelled"]
    <2>1. row \in Rows /\ row.source = occ[i].source /\ row.every = occ[i].every
      BY <1>1 DEF Rows
    <2>2. occ' = [occ EXCEPT ![i] = row] /\ occ[i].status = "queued"
      BY <1>1, <1>3 DEF Cancel
    <2> QED BY <2>1, <2>2, ReplacesKeeps DEF Replaces, Evolves
  <1>4. CASE Reschedule(i)
    <2>1. PICK at \in 0..MaxTime :
             occ' = [occ EXCEPT ![i].at = at] /\ occ[i].status = "queued"
      BY <1>4 DEF Reschedule
    <2> DEFINE row == [occ[i] EXCEPT !.at = at]
    <2>2. row \in Rows /\ row.source = occ[i].source /\ row.status = occ[i].status
      BY <1>1, RepeatAssumption DEF Rows
    <2>3. occ' = [occ EXCEPT ![i] = row]
      BY <1>1, <2>1
    <2> QED BY <2>1, <2>2, <2>3, ReplacesKeeps DEF Replaces, Evolves
  <1>5. CASE StartRepeat(i)
    <2>1. PICK every \in Intervals :
             /\ occ' = [occ EXCEPT ![i].every = every,
                                   ![i].group = IF @ = 0 THEN i ELSE @]
             /\ occ[i].status = "queued"
      BY <1>5 DEF StartRepeat
    <2> DEFINE row == [occ[i] EXCEPT !.every = every,
                                     !.group = IF occ[i].group = 0 THEN i ELSE occ[i].group]
    <2>2. row \in Rows /\ row.source = occ[i].source /\ row.status = occ[i].status
      BY <1>1, RepeatAssumption DEF Rows
    <2>3. occ' = [occ EXCEPT ![i] = row]
      BY <1>1, <2>1
    <2> HIDE DEF row
    <2> QED BY <2>1, <2>2, <2>3, ReplacesKeeps DEF Replaces, Evolves
  <1>6. CASE StopRepeat(i)
    <2> DEFINE row(j) == IF j = i \/ (occ[i].group # 0 /\ occ[j].group = occ[i].group
                                      /\ occ[j].status = "queued")
                         THEN [occ[j] EXCEPT !.every = 0, !.group = 0] ELSE occ[j]
    <2>1. occ' = [j \in Ids |-> row(j)] /\ occ[i].status = "queued"
      BY <1>6 DEF StopRepeat
    <2>2. ASSUME NEW j \in Ids
          PROVE  /\ row(j) \in Rows
                 /\ row(j).source = occ[j].source
                 /\ row(j).status = occ[j].status
                 /\ row(j).every = occ[j].every \/ occ[j].status = "queued"
      <3>1. occ[j] \in Rows
        BY IdsNat
      <3> QED BY <2>1, <3>1 DEF Rows
    <2> HIDE DEF row
    <2>3. occ' \in [1..Len(occ) -> Rows]
      BY <2>1, <2>2 DEF Ids
    <2>4. occ' \in Seq(Rows) /\ Len(occ') = Len(occ)
      BY <2>3, IdsNat
    <2> QED BY <2>1, <2>2, <2>4 DEF Keeps, Evolves, OccTyped, Ids
  <1>7. CASE Edit(i)
    <2> DEFINE row == [occ[i] EXCEPT !.revision = item']
    <2>1. item' \in Nat /\ occ' = [occ EXCEPT ![i] = row]
      BY <1>1, <1>7 DEF Edit, Counters
    <2>2. row \in Rows /\ row.source = occ[i].source /\ row.status = occ[i].status
          /\ row.every = occ[i].every
      BY <1>1, <2>1 DEF Rows
    <2> HIDE DEF row
    <2> QED BY <2>1, <2>2, ReplacesKeeps DEF Replaces, Evolves
  <1>8. CASE ReadEdit(i) \/ ReadUnlocked(i) \/ ReadMarkDeleted(i)
    BY <1>8, UnchangedKeeps DEF ReadEdit, ReadUnlocked, ReadMarkDeleted
  <1> QED BY <1>2, <1>3, <1>4, <1>5, <1>6, <1>7, <1>8 DEF Control

\* What the second half of an edit or of a deletion mark does to the rows.
LEMMA WritersKeep ==
  ASSUME OccTyped, Counters, EditTyped, MarkTyped, WriteEdit \/ WriteMarkDeleted
  PROVE  Keeps
  <1>1. CASE WriteEdit /\ UNCHANGED occ
    BY <1>1, UnchangedKeeps
  <1>2. CASE WriteEdit /\ ~UNCHANGED occ
    <2> DEFINE i == edit.id
               row == [occ[i] EXCEPT !.revision = item']
               back == [row EXCEPT !.plan = edit.plan, !.copy = edit.copy]
    <2>1. i \in Ids
      BY <1>2 DEF WriteEdit, EditTyped
    <2>2. occ[i] \in Rows /\ i \in DOMAIN occ
      BY <2>1, IdsNat, LenProperties DEF OccTyped, Ids
    <2>3. item' \in Nat
      BY <1>2 DEF WriteEdit, Counters
    <2>4. row \in Rows /\ row.source = occ[i].source /\ row.status = occ[i].status
          /\ row.every = occ[i].every
      BY <2>2, <2>3 DEF Rows
    <2>5. edit.plan \in Plans /\ edit.copy \in Plans
      BY DEF EditTyped
    <2>6. back \in Rows /\ back.source = occ[i].source /\ back.status = occ[i].status
          /\ back.every = occ[i].every
      BY <2>4, <2>5 DEF Rows
    <2>7. occ' = [occ EXCEPT ![i] = row] \/ occ' = [occ EXCEPT ![i] = back]
      BY <1>2, <2>2 DEF WriteEdit
    <2> HIDE DEF i, row, back
    <2> QED BY <2>1, <2>4, <2>6, <2>7, ReplacesKeeps DEF Replaces, Evolves
  <1>3. CASE WriteMarkDeleted
    <2> DEFINE i == mark.id
               row == [occ[i] EXCEPT !.plan = mark.plan]
    <2>1. i \in Ids
      BY <1>3 DEF WriteMarkDeleted, MarkTyped
    <2>2. occ[i] \in Rows /\ i \in DOMAIN occ
      BY <2>1, IdsNat, LenProperties DEF OccTyped, Ids
    <2>3. mark.plan \in Plans
      BY DEF MarkTyped
    <2>4. row \in Rows /\ row.source = occ[i].source /\ row.status = occ[i].status
          /\ row.every = occ[i].every
      BY <2>2, <2>3 DEF Rows
    <2>5. occ' = [occ EXCEPT ![i] = row]
      BY <1>3, <2>2 DEF WriteMarkDeleted
    <2> HIDE DEF i, row
    <2> QED BY <2>1, <2>4, <2>5, ReplacesKeeps DEF Replaces, Evolves
  <1> QED BY <1>1, <1>2, <1>3

\* No row that waits to be posted, nor one whose post failed.
Done(row) == row.status \in {"published", "cancelled"}

\* What a late write does to the rows: of the row it writes the lineage stays, and it does
\* not wait again.
LEMMA LateKeepsLineage ==
  ASSUME OccTyped, NEW i \in Ids, WriteUnlocked(i)
  PROVE  /\ OccTyped'
         /\ Len(occ') = Len(occ)
         /\ \A j \in Ids : occ'[j].source = occ[j].source /\ (Done(occ[j]) => Done(occ'[j]))
  <1>0. PICK kind \in Kinds :
           \E row \in LateRows(kind, occ[i]) : occ' = [occ EXCEPT ![i] = row]
    BY DEF WriteUnlocked, Kinds
  <1>1. PICK row \in LateRows(kind, occ[i]) : occ' = [occ EXCEPT ![i] = row]
    BY <1>0
  <1>2. occ[i] \in Rows
    BY IdsNat
  <1>3. row \in Rows /\ row.source = occ[i].source /\ (Done(occ[i]) => Done(row))
    <2>1. CASE kind = "planner"
      BY <1>2, <2>1, RepeatAssumption DEF LateRows, Rows, Done
    <2>2. CASE kind = "removal"
      <3> DEFINE gone == [occ[i] EXCEPT !.status = "cancelled", !.every = 0]
      <3>1. row \in {gone, Unreserve(gone)}
        BY <2>2 DEF LateRows
      <3>2. gone \in Rows /\ gone.source = occ[i].source /\ Done(gone)
        BY <1>2 DEF Rows, Done
      <3> HIDE DEF gone
      <3>3. /\ Unreserve(gone) \in Rows
            /\ Unreserve(gone).source = gone.source
            /\ Done(Unreserve(gone))
        BY <3>2, NoPlanTyped DEF Unreserve, Rows, Done
      <3> QED BY <3>1, <3>2, <3>3
    <2>3. CASE kind = "cleanup"
      BY <1>2, <2>3, NoPlanTyped DEF LateRows, Unreserve, Rows, Done
    <2> QED BY <2>1, <2>2, <2>3 DEF Kinds
  <1>4. /\ occ' \in Seq(Rows)
        /\ Len(occ') = Len(occ)
        /\ \A j \in 1..Len(occ) : occ'[j] = IF j = i THEN row ELSE occ[j]
    <2> i \in 1..Len(occ)
      BY DEF Ids
    <2> QED BY <1>1, <1>3, ExceptSeq DEF OccTyped
  <1> QED BY <1>3, <1>4 DEF OccTyped, Ids

\* What Reserve plans for a source.
LEMMA SnapshotTyped ==
  ASSUME OccTyped, NEW i \in Ids, NEW time \in Nat, Authority(i)
  PROVE  Snapshot(i, time) \in Plans
  <1>1. occ[i] \in Rows
    BY IdsNat
  <1>2. occ[i].every \in Nat \ {0} /\ occ[i].at + occ[i].every \in Nat
    BY <1>1 DEF Authority, Rows
  <1>3. NextRepeatTime(occ[i].at + occ[i].every, occ[i].every, time) \in Nat
    BY <1>2, NextTyped
  <1> QED BY <1>1, <1>3 DEF Snapshot, Plans, Rows

\* Writing a reservation replaces the row of its source.
LEMMA WritePlansKeeps ==
  ASSUME OccTyped, NEW i \in Ids, NEW plan \in Plans, WritePlans(i, plan)
  PROVE  Keeps
  <1> DEFINE row == [occ[i] EXCEPT !.plan = plan, !.copy = plan]
  <1>1. occ[i] \in Rows /\ i \in DOMAIN occ
    BY IdsNat, LenProperties DEF OccTyped, Ids
  <1>2. row \in Rows /\ row.source = occ[i].source /\ row.status = occ[i].status
        /\ row.every = occ[i].every
    BY <1>1 DEF Rows
  <1>3. occ' = [occ EXCEPT ![i] = row]
    BY <1>1 DEF WritePlans
  <1> HIDE DEF row
  <1> QED BY <1>2, <1>3, ReplacesKeeps DEF Replaces, Evolves

-----------------------------------------------------------------------------
(* What a step does to the workers. *)

\* The memory of the workers after a step, against the rows before it.
SoundAfter == w' \in [Workers -> WorkerMemory] /\ \A y \in Workers : Sound(w'[y])

\* The first of a set of ids are some of them.
LEMMA FirstSubset ==
  ASSUME NEW n, NEW S
  PROVE  First(n, S) \subseteq S
  BY DEF First

\* What a pass scans and continues are ids of rows.
LEMMA BatchInIds ==
  ASSUME NEW x \in Workers
  PROVE  Scanned(x) \subseteq Ids /\ Batch(x) \subseteq Scanned(x)
  BY FirstSubset DEF Scanned, Batch

\* Taking a batch: the cursors stay naturals and a worker with no batch is idle.
LEMMA TakeBatchSound ==
  ASSUME OccTyped, MemorySound, NEW x \in Workers, w[x].todo = {}, NEW next \in Nat,
         NEW done \in BOOLEAN, TakeBatch(x, next, done)
  PROVE  SoundAfter
  <1> DEFINE none == [IdleWorker EXCEPT !.cursor = IF done THEN 0 ELSE next]
             some == [w[x] EXCEPT !.pc = "verify", !.todo = Batch(x), !.next = next,
                                  !.done = done]
  <1>1. w[x] \in WorkerMemory
    BY DEF MemorySound
  <1>2. CASE Batch(x) = {}
    <2>1. w' = [w EXCEPT ![x] = none]
      BY <1>2 DEF TakeBatch
    <2>2. none \in WorkerMemory /\ none.todo = {} /\ none.pc = "idle"
      BY NoPlanTyped DEF WorkerMemory, IdleWorker
    <2>3. Sound(none)
      BY <2>2 DEF Sound
    <2> HIDE DEF none
    <2> QED BY <2>1, <2>3, SetMemory DEF SoundAfter
  <1>3. CASE Batch(x) # {}
    <2>1. w' = [w EXCEPT ![x] = some]
      BY <1>3 DEF TakeBatch, MemorySound
    <2>2. Batch(x) \subseteq Ids /\ Batch(x) \subseteq Nat
      BY BatchInIds, IdsNat
    <2>3. some \in WorkerMemory /\ some.todo = Batch(x) /\ some.pc = "verify"
      BY <1>1, <2>2 DEF WorkerMemory
    <2>4. Sound(some)
      BY <1>3, <2>2, <2>3 DEF Sound
    <2> HIDE DEF some
    <2> QED BY <2>1, <2>4, SetMemory DEF SoundAfter
  <1> QED BY <1>2, <1>3

\* Selecting a batch, whether it fills or not, keeps the memories sound.
LEMMA SelectSound ==
  ASSUME OccTyped, MemorySound, NEW x \in Workers, Select(x)
  PROVE  SoundAfter
  <1> DEFINE page == Scanned(x)
             full == Cardinality(Batch(x)) = BatchSize
             next == CASE full -> Max(Batch(x))
                       [] ~full /\ page # {} -> Max(page)
                       [] OTHER -> w[x].cursor
             done == ~full /\ Cardinality(page) < ScanLimit
  <1>1. w[x] \in WorkerMemory /\ w[x].todo = {} /\ w[x].cursor \in Nat
    BY DEF Select, At, MemorySound, Sound, WorkerMemory
  <1>2. TakeBatch(x, next, done)
    BY DEF Select
  <1>3. Ids \subseteq 0..Len(occ) /\ Len(occ) \in Nat
    BY IdsNat
  <1>4. CASE page = {}
    <2>1. Batch(x) = {} /\ Cardinality(Batch(x)) = 0
      BY <1>4, BatchInIds, FS_EmptySet
    <2>2. ~full
      BY <2>1, RepeatAssumption
    <2>3. next = w[x].cursor
      BY <1>4, <2>2
    <2> QED BY <1>1, <1>2, <2>3, TakeBatchSound
  <1>5. CASE page # {} /\ ~full
    <2>1. next = Max(page)
      BY <1>5
    <2>2. page \in SUBSET (0..Len(occ))
      BY <1>3, BatchInIds
    <2>3. next \in Nat
      BY <1>3, <1>5, <2>1, <2>2, MaxElement
    <2> QED BY <1>1, <1>2, <2>3, TakeBatchSound
  <1>6. CASE full
    <2>1. Batch(x) # {}
      <3>1. Cardinality({}) = 0
        BY FS_EmptySet
      <3> QED BY <1>6, <3>1, RepeatAssumption
    <2>2. next = Max(Batch(x))
      BY <1>6
    <2>3. Batch(x) \in SUBSET (0..Len(occ))
      BY <1>3, BatchInIds
    <2>4. next \in Nat
      BY <1>3, <2>1, <2>2, <2>3, MaxElement
    <2> QED BY <1>1, <1>2, <2>4, TakeBatchSound
  <1> QED BY <1>4, <1>5, <1>6

\* Every step of a worker keeps the memories sound.
LEMMA WorkSound ==
  ASSUME OccTyped, MemorySound, Counters, NEW x \in Workers,
         Work(x) \/ StepFails(x) \/ Stop(x)
  PROVE  SoundAfter
  <1>1. w[x] \in WorkerMemory /\ Sound(w[x]) /\ w[x].plan \in Plans /\ w[x].time \in Nat
    BY DEF MemorySound, WorkerMemory
  <1>2. CASE StartPass(x)
    <2> DEFINE m == [w[x] EXCEPT !.pc = "select", !.time = now]
    <2>1. w' = [w EXCEPT ![x] = m]
      BY <1>2 DEF StartPass, MemorySound
    <2>2. m \in WorkerMemory /\ m.todo = w[x].todo /\ m.pc = "select"
      BY <1>1 DEF Counters, WorkerMemory
    <2>3. w[x].todo = {}
      BY <1>1, <1>2 DEF StartPass, At, Sound
    <2>4. Sound(m)
      BY <2>2, <2>3 DEF Sound
    <2> HIDE DEF m
    <2> QED BY <2>1, <2>4, SetMemory DEF SoundAfter
  <1>3. CASE Select(x)
    BY <1>3, SelectSound
  <1>4. ASSUME NEW place \in {"verify", "reserve", "write", "materialize", "insert"},
               At(x, place), NextSource(x)
        PROVE  SoundAfter
    BY <1>4, BusyHasTodo, NextSourceSound DEF SoundAfter
  <1>5. ASSUME NEW place \in {"verify", "reserve", "write", "materialize", "insert"},
               At(x, place),
               NEW then \in {"verify", "reserve", "write", "materialize", "insert"},
               w' = [w EXCEPT ![x].pc = then]
        PROVE  SoundAfter
    <2>1. w' = [w EXCEPT ![x].pc = then, ![x].plan = w[x].plan]
      <3> DEFINE m == [w[x] EXCEPT !.pc = then]
                 n == [w[x] EXCEPT !.pc = then, !.plan = w[x].plan]
      <3>1. m = n
        BY <1>1 DEF WorkerMemory
      <3>2. w' = [w EXCEPT ![x] = m]
        BY <1>5 DEF MemorySound
      <3>3. w' = [w EXCEPT ![x] = n]
        BY <3>1, <3>2
      <3> QED BY <3>3 DEF MemorySound
    <2>2. w[x].todo # {}
      BY <1>5, BusyHasTodo
    <2> QED BY <1>1, <1>5, <2>1, <2>2, SameSourceSound DEF SoundAfter
  <1>6. ASSUME NEW place \in {"verify", "reserve", "write", "materialize", "insert"},
               At(x, place),
               NEW then \in {"verify", "reserve", "write", "materialize", "insert"},
               NEW plan \in Plans,
               w' = [w EXCEPT ![x].pc = then, ![x].plan = plan]
        PROVE  SoundAfter
    BY <1>6, BusyHasTodo, SameSourceSound DEF SoundAfter
  <1>7. CASE Verify(x)
    BY <1>4, <1>5, <1>7 DEF Verify
  <1>8. CASE Reserve(x)
    BY <1>4, <1>5, <1>8 DEF Reserve
  <1>9. CASE ReadReserve(x)
    <2>1. At(x, "reserve")
      BY <1>9 DEF ReadReserve
    <2>2. Source(x) \in Ids
      BY <2>1, BusyHasTodo, SourceInTodo
    <2>3. MayReserve(Source(x), Snapshot(Source(x), w[x].time)) =>
            Snapshot(Source(x), w[x].time) \in Plans
      BY <1>1, <2>2, SnapshotTyped DEF MayReserve
    <2> QED BY <1>4, <1>5, <1>6, <1>9, <2>3 DEF ReadReserve
  <1>10. CASE WriteReserve(x)
    BY <1>6, <1>10, NoPlanTyped DEF WriteReserve
  <1>11. CASE Materialize(x)
    BY <1>4, <1>11 DEF Materialize
  <1>12. CASE ReadMaterialize(x)
    <2>1. At(x, "materialize")
      BY <1>12 DEF ReadMaterialize
    <2>2. Source(x) \in Ids
      BY <2>1, BusyHasTodo, SourceInTodo
    <2>3. occ[Source(x)].plan \in Plans
      BY <2>2, IdsNat DEF Rows
    <2> QED BY <1>4, <1>6, <1>12, <2>3 DEF ReadMaterialize
  <1>13. CASE WriteMaterialize(x)
    BY <1>4, <1>13 DEF WriteMaterialize
  <1>14. CASE StepFails(x)
    BY <1>14, NextSourceSound DEF StepFails, SoundAfter
  <1>15. CASE Stop(x)
    <2>1. PICK cursor \in {0, w[x].cursor} :
             w' = [w EXCEPT ![x] = [IdleWorker EXCEPT !.cursor = cursor]]
      BY <1>15 DEF Stop
    <2> DEFINE m == [IdleWorker EXCEPT !.cursor = cursor]
    <2>2. cursor \in Nat
      BY <1>1 DEF WorkerMemory
    <2>3. m \in WorkerMemory /\ m.todo = {} /\ m.pc = "idle"
      BY <2>2, NoPlanTyped DEF WorkerMemory, IdleWorker
    <2>4. Sound(m) /\ w' = [w EXCEPT ![x] = m]
      BY <2>1, <2>3 DEF Sound
    <2> HIDE DEF m
    <2> QED BY <2>4, SetMemory DEF SoundAfter
  <1> QED BY <1>2, <1>3, <1>7, <1>8, <1>9, <1>10, <1>11, <1>12, <1>13, <1>14, <1>15 DEF Work

-----------------------------------------------------------------------------
(* Type correctness. *)

\* Steps after which the rows are as before but for one, and those that append.
LEMMA WorkRows ==
  ASSUME OccTyped, MemorySound, NEW x \in Workers,
         Work(x) \/ StepFails(x) \/ Stop(x)
  PROVE  \/ Keeps
         \/ /\ Materialize(x) /\ Pending(Source(x)) /\ Source(x) \in Ids
            /\ Appends(Source(x), occ[Source(x)].plan)
         \/ /\ WriteMaterialize(x) /\ Source(x) \in Ids
            /\ Appends(Source(x), w[x].plan)
  <1>1. CASE UNCHANGED occ
    BY <1>1, UnchangedKeeps
  <1>2. CASE Reserve(x) /\ ~UNCHANGED occ
    <2> DEFINE plan == Snapshot(Source(x), w[x].time)
    <2>1. At(x, "reserve") /\ MayReserve(Source(x), plan) /\ WritePlans(Source(x), plan)
      BY <1>2 DEF Reserve
    <2>2. Source(x) \in Ids
      BY <2>1, BusyHasTodo, SourceInTodo
    <2>3. plan \in Plans
      BY <2>1, <2>2, SnapshotTyped DEF MayReserve, MemorySound, WorkerMemory
    <2> QED BY <2>1, <2>2, <2>3, WritePlansKeeps
  <1>3. CASE WriteReserve(x)
    <2>1. At(x, "write") /\ WritePlans(Source(x), w[x].plan)
      BY <1>3 DEF WriteReserve
    <2>2. Source(x) \in Ids /\ w[x].plan \in Plans
      BY <2>1, BusyHasTodo, SourceInTodo DEF MemorySound, WorkerMemory
    <2> QED BY <2>1, <2>2, WritePlansKeeps
  <1>4. CASE Materialize(x)
    <2>1. Source(x) \in Ids
      BY <1>4, BusyHasTodo, SourceInTodo DEF Materialize
    <2>2. UNCHANGED occ \/ (Pending(Source(x)) /\ Insert(Source(x), occ[Source(x)].plan))
      BY <1>4 DEF Materialize
    <2> QED BY <1>4, <2>1, <2>2, InsertCases, UnchangedKeeps
  <1>5. CASE WriteMaterialize(x)
    <2>1. Source(x) \in Ids
      BY <1>5, BusyHasTodo, SourceInTodo DEF WriteMaterialize
    <2> QED BY <1>5, <2>1, InsertCases, UnchangedKeeps DEF WriteMaterialize
  <1>6. CASE ~(Reserve(x) \/ WriteReserve(x) \/ Materialize(x) \/ WriteMaterialize(x))
    <2>1. UNCHANGED occ
      BY <1>6 DEF Work, StepFails, Stop, StartPass, Select, Verify, ReadReserve,
                  ReadMaterialize
    <2> QED BY <2>1, UnchangedKeeps
  <1> QED BY <1>1, <1>2, <1>3, <1>4, <1>5, <1>6

\* Rows are only ever replaced or appended.
LEMMA RowsStep ==
  ASSUME TypeOK, [Next]_vars
  PROVE  OccTyped' /\ Ids \subseteq Ids'
  <1> USE TypeParts
  <1>1. ASSUME NEW x \in Workers, Work(x) \/ StepFails(x) \/ Stop(x)
        PROVE  OccTyped' /\ Ids \subseteq Ids'
    <2>1. CASE Keeps
      BY <2>1 DEF Keeps
    <2>2. ASSUME NEW i \in Ids, NEW plan \in Plans, Appends(i, plan)
          PROVE  OccTyped' /\ Ids \subseteq Ids'
      BY <2>2, IdsNat, AppendsTyped
    <2>3. \A i \in Ids : occ[i].plan \in Plans
      BY IdsNat DEF Rows
    <2>4. w[x].plan \in Plans
      BY DEF MemorySound, WorkerMemory
    <2> QED BY <1>1, <2>1, <2>2, <2>3, <2>4, WorkRows
  <1>2. ASSUME NEW i \in Ids, Deliver(i) \/ Control(i) \/ ReadMarkDeleted(i)
        PROVE  OccTyped' /\ Ids \subseteq Ids'
    <2>1. CASE WriteUnlocked(i)
      BY <2>1, LateKeepsLineage DEF Ids
    <2> QED BY <1>2, <2>1, OwnerKeeps DEF Keeps
  <1>3. CASE WriteEdit \/ WriteMarkDeleted
    BY <1>3, WritersKeep DEF Keeps
  <1>4. CASE Tick \/ UNCHANGED vars
    BY <1>4, UnchangedKeeps DEF Keeps, Tick, vars
  <1> QED BY <1>1, <1>2, <1>3, <1>4 DEF Next

\* The memories fit the rows after the step as well: no row is ever removed.
LEMMA MemoryStep ==
  ASSUME TypeOK, [Next]_vars
  PROVE  MemorySound'
  <1> USE TypeParts
  <1>1. SoundAfter
    <2>1. ASSUME NEW x \in Workers, Work(x) \/ StepFails(x) \/ Stop(x) PROVE SoundAfter
      BY <2>1, WorkSound
    <2>2. CASE UNCHANGED w
      BY <2>2 DEF MemorySound, SoundAfter
    <2>3. ASSUME NEW i \in Ids, Deliver(i) \/ Control(i) \/ ReadMarkDeleted(i)
          PROVE  UNCHANGED w
      BY <2>3 DEF Deliver, Control, Cancel, Reschedule, StartRepeat, StopRepeat, Edit, ReadEdit,
                ReadUnlocked, WriteUnlocked, ReadMarkDeleted
    <2>4. CASE WriteEdit \/ WriteMarkDeleted \/ Tick \/ UNCHANGED vars
      BY <2>2, <2>4 DEF WriteEdit, WriteMarkDeleted, Tick, vars
    <2> QED BY <2>1, <2>2, <2>3, <2>4 DEF Next
  <1>2. Ids \subseteq Ids'
    BY RowsStep
  <1>3. ASSUME NEW y \in Workers PROVE Sound(w[y])'
    BY <1>1, <1>2 DEF SoundAfter, Sound
  <1> QED BY <1>1, <1>3 DEF SoundAfter, MemorySound

\* Edits and marks in progress refer to rows that exist, and the counters are naturals.
LEMMA OtherStep ==
  ASSUME TypeOK, [Next]_vars
  PROVE  EditTyped' /\ MarkTyped' /\ LateTyped' /\ Counters'
  <1> USE TypeParts
  <1>1. Ids \subseteq Ids'
    BY RowsStep
  <1>2. ASSUME UNCHANGED <<edit, mark>> PROVE EditTyped' /\ MarkTyped'
    BY <1>1, <1>2 DEF EditTyped, MarkTyped
  <1>3. ASSUME NEW i \in Ids, ReadEdit(i) PROVE EditTyped' /\ MarkTyped'
    <2>1. occ[i] \in Rows /\ edit' = [id |-> i, published |-> occ[i].status = "published",
                    plan |-> occ[i].plan, copy |-> occ[i].copy]
          /\ UNCHANGED mark
      BY <1>3, IdsNat DEF ReadEdit
    <2>2. (occ[i].status = "published") \in BOOLEAN
      OBVIOUS
    <2> QED BY <1>1, <2>1, <2>2 DEF EditTyped, MarkTyped, Rows
  <1>4. ASSUME NEW i \in Ids, ReadMarkDeleted(i) PROVE EditTyped' /\ MarkTyped'
    <2>1. occ[i] \in Rows /\ mark' = [id |-> i, plan |-> occ[i].plan] /\ UNCHANGED edit
      BY <1>4, IdsNat DEF ReadMarkDeleted
    <2> QED BY <1>1, <2>1 DEF EditTyped, MarkTyped, Rows
  <1>5. ASSUME WriteEdit PROVE EditTyped' /\ MarkTyped'
    <2>1. edit' = NoEdit /\ UNCHANGED mark
      BY <1>5 DEF WriteEdit
    <2> QED BY <1>1, <2>1, NoPlanTyped DEF EditTyped, MarkTyped, NoEdit
  <1>6. ASSUME WriteMarkDeleted PROVE EditTyped' /\ MarkTyped'
    <2>1. mark' = NoMark /\ UNCHANGED edit
      BY <1>6 DEF WriteMarkDeleted
    <2> QED BY <1>1, <2>1, NoPlanTyped DEF EditTyped, MarkTyped, NoMark
  <1>7. EditTyped' /\ MarkTyped'
    <2>1. ASSUME NEW x \in Workers, Work(x) \/ StepFails(x) \/ Stop(x)
          PROVE  UNCHANGED <<edit, mark>>
      BY <2>1 DEF Work, StepFails, Stop, StartPass, Select, Verify, Reserve, ReadReserve,
                  WriteReserve, Materialize, ReadMaterialize, WriteMaterialize, unwritten
    <2>2. ASSUME NEW i \in Ids, Deliver(i) \/ (Control(i) /\ ~ReadEdit(i))
          PROVE  UNCHANGED <<edit, mark>>
      BY <2>2 DEF Deliver, Control, Cancel, Reschedule, StartRepeat, StopRepeat, Edit,
                  ReadUnlocked, WriteUnlocked, unwritten
    <2>3. CASE Tick \/ UNCHANGED vars
      BY <1>2, <2>3 DEF Tick, vars, unwritten
    <2> QED BY <1>2, <1>3, <1>4, <1>5, <1>6, <2>1, <2>2, <2>3 DEF Next, Control
  <1>8. Counters'
    <2>1. ASSUME NEW x \in Workers, Work(x) \/ StepFails(x) \/ Stop(x) PROVE Counters'
      BY <2>1 DEF Work, StepFails, Stop, StartPass, Select, Verify, Reserve, ReadReserve,
                  WriteReserve, Materialize, ReadMaterialize, WriteMaterialize, Counters
    <2>2. ASSUME NEW i \in Ids, Deliver(i) \/ Control(i) \/ ReadMarkDeleted(i) PROVE Counters'
      <3>1. CASE Edit(i)
        BY <3>1 DEF Edit, Counters
      <3>2. CASE ~(Edit(i))
        <4>1. UNCHANGED <<item, now, faults>>
          BY <2>2, <3>2 DEF Deliver, Control, Cancel, Reschedule, StartRepeat, StopRepeat,
                            ReadEdit, ReadUnlocked, WriteUnlocked, ReadMarkDeleted
        <4> QED BY <4>1 DEF Counters
      <3> QED BY <3>1, <3>2
    <2>3. CASE WriteEdit \/ WriteMarkDeleted \/ Tick \/ UNCHANGED vars
      BY <2>3 DEF WriteEdit, WriteMarkDeleted, Tick, vars, Counters
    <2> QED BY <2>1, <2>2, <2>3 DEF Next
  <1>9. LateTyped'
    <2>1. UNCHANGED late => LateTyped'
      BY <1>1 DEF LateTyped
    <2>2. ASSUME NEW x \in Workers, Work(x) \/ StepFails(x) \/ Stop(x) PROVE UNCHANGED late
      BY <2>2 DEF Work, StepFails, Stop, StartPass, Select, Verify, Reserve, ReadReserve,
                  WriteReserve, Materialize, ReadMaterialize, WriteMaterialize, unwritten
    <2>3. ASSUME NEW i \in Ids, Deliver(i) \/ Control(i) \/ ReadMarkDeleted(i)
          PROVE  LateTyped'
      <3>1. CASE ReadUnlocked(i)
        <4>1. PICK kind \in Kinds : late' = late \cup {<<kind, i>>}
          BY <3>1 DEF ReadUnlocked, Kinds
        <4> QED BY <1>1, <4>1 DEF LateTyped
      <3>2. CASE WriteUnlocked(i)
        BY <1>1, <3>2 DEF WriteUnlocked, LateTyped
      <3>3. CASE ~(ReadUnlocked(i) \/ WriteUnlocked(i))
        <4>1. UNCHANGED late
          BY <2>3, <3>3 DEF Deliver, Control, Cancel, Reschedule, StartRepeat, StopRepeat,
                            Edit, ReadEdit, ReadMarkDeleted, unwritten
        <4> QED BY <2>1, <4>1
      <3> QED BY <3>1, <3>2, <3>3
    <2>4. CASE WriteEdit \/ WriteMarkDeleted \/ Tick \/ UNCHANGED vars
      BY <2>1, <2>4 DEF WriteEdit, WriteMarkDeleted, Tick, vars, unwritten
    <2> QED BY <2>1, <2>2, <2>3, <2>4 DEF Next
  <1> QED BY <1>7, <1>8, <1>9

\* The initial states are well typed.
LEMMA TypeInit == Init => TypeOK
  <1> SUFFICES ASSUME Init PROVE TypeOK
    OBVIOUS
  <1>1. PICK every \in Intervals \cup {0} :
           occ = <<Occurrence(0, every, IF every = 0 THEN 0 ELSE 1, 1, 0)>>
    BY DEF Init
  <1> DEFINE row == Occurrence(0, every, IF every = 0 THEN 0 ELSE 1, 1, 0)
  <1>2. row \in Rows
    BY RepeatAssumption, NoPlanTyped DEF Occurrence, Rows
  <1>3. occ \in Seq(Rows)
    <2> HIDE DEF row
    <2>1. occ = <<row>>
      BY <1>1 DEF row
    <2> QED BY <1>2, <2>1
  <1>4. MemorySound
    BY IdleSound DEF Init, MemorySound, Sound
  <1>5. EditTyped /\ MarkTyped /\ LateTyped /\ Counters
    BY NoPlanTyped DEF Init, NoEdit, NoMark, EditTyped, MarkTyped, LateTyped, Counters
  <1> QED BY <1>3, <1>4, <1>5, TypeParts DEF OccTyped

\* The variables stay in their sets, and a worker, an edit and a deletion mark refer only
\* to occurrences that exist: no step of the code looks up a row that is gone.
THEOREM TypeCorrect == Spec => []TypeOK
  <1>1. TypeOK /\ [Next]_vars => TypeOK'
    <2> SUFFICES ASSUME TypeOK, [Next]_vars PROVE TypeOK'
      OBVIOUS
    <2>1. (OccTyped /\ MemorySound /\ EditTyped /\ MarkTyped /\ LateTyped /\ Counters)'
      BY RowsStep, MemoryStep, OtherStep
    <2> QED BY <2>1 DEF TypeOK, OccTyped, MemorySound, Sound, EditTyped, MarkTyped, Kinds,
                        LateTyped, Counters
  <1> QED BY <1>1, TypeInit, PTL DEF Spec

-----------------------------------------------------------------------------
(* Lineage, and what is continued, whatever controls are used. *)

\* A worker comes to insert by proving its source, and keeps its memory while others move.
LEMMA MemoryCases ==
  ASSUME TypeOK, [Next]_vars, NEW y \in Workers, At(y, "insert")'
  PROVE  UNCHANGED w[y] \/ ReadMaterialize(y)
  <1> USE TypeParts DEF MemorySound
  <1>1. ASSUME NEW x \in Workers, Work(x) \/ StepFails(x) \/ Stop(x), x # y
        PROVE  UNCHANGED w[y]
    BY <1>1 DEF Work, StepFails, Stop, StartPass, Select, Verify, Reserve, ReadReserve,
                WriteReserve, Materialize, ReadMaterialize, WriteMaterialize, NextSource,
                TakeBatch
  <1>2. CASE (Work(y) \/ StepFails(y) \/ Stop(y)) /\ ~ReadMaterialize(y)
    <2>1. w[y] \in WorkerMemory
      OBVIOUS
    <2>2. NextSource(y) => w'[y].pc # "insert"
      BY <2>1 DEF NextSource, IdleWorker, WorkerMemory
    <2>3. ASSUME NEW next, NEW done, TakeBatch(y, next, done) PROVE w'[y].pc # "insert"
      BY <2>1, <2>3 DEF TakeBatch, IdleWorker, WorkerMemory
    <2>4. Stop(y) => w'[y].pc # "insert"
      BY <2>1 DEF Stop, IdleWorker, WorkerMemory
    <2>5. Select(y) => w'[y].pc # "insert"
      BY <2>3 DEF Select
    <2>6. StartPass(y) \/ Verify(y) \/ Reserve(y) \/ ReadReserve(y) \/ WriteReserve(y)
             => w'[y].pc # "insert"
      BY <2>1, <2>2 DEF StartPass, Verify, Reserve, ReadReserve, WriteReserve, WorkerMemory
    <2>7. Materialize(y) \/ WriteMaterialize(y) \/ StepFails(y) => w'[y].pc # "insert"
      BY <2>2 DEF Materialize, WriteMaterialize, StepFails
    <2> QED BY <1>2, <2>4, <2>5, <2>6, <2>7 DEF Work, At
  <1>3. ASSUME NEW i \in Ids, Deliver(i) \/ Control(i) \/ ReadMarkDeleted(i)
        PROVE  UNCHANGED w
    BY <1>3 DEF Deliver, Control, Cancel, Reschedule, StartRepeat, StopRepeat, Edit, ReadEdit,
                ReadUnlocked, WriteUnlocked, ReadMarkDeleted
  <1>4. CASE WriteEdit \/ WriteMarkDeleted \/ Tick \/ UNCHANGED vars
    BY <1>4 DEF WriteEdit, WriteMarkDeleted, Tick, vars
  <1> QED BY <1>1, <1>2, <1>3, <1>4 DEF Next

\* Every occurrence but the first continues the one before it.
Lineage == \A i \in Ids : occ[i].source = i - 1

\* A step that appends continues a row that had no successor.
LEMMA LineageStep ==
  ASSUME TypeOK, Lineage, [Next]_vars
  PROVE  Lineage'
  <1>0. /\ OccTyped /\ MemorySound /\ EditTyped /\ MarkTyped /\ Counters
        /\ Len(occ) \in Nat /\ Ids = 1..Len(occ)
    BY TypeParts, IdsNat DEF Ids
  <1>1. CASE Keeps
    BY <1>1 DEF Keeps, Evolves, Lineage
  <1>2. ASSUME NEW i \in Ids, NEW plan \in Plans, Appends(i, plan) PROVE Lineage'
    <2>1. i = Len(occ)
      <3> SUFFICES ASSUME i < Len(occ) PROVE FALSE
        BY <1>0
      <3>1. i + 1 \in Ids /\ occ[i + 1].source = i
        BY <1>0 DEF Lineage
      <3> QED BY <1>2, <3>1 DEF Appends
    <2>2. /\ Ids' = Ids \cup {i + 1}
          /\ \A j \in Ids : occ'[j] = occ[j]
          /\ occ'[i + 1] = Occurrence(plan.at, plan.every, plan.group, plan.revision, i)
      BY <1>0, <1>2, <2>1, AppendsTyped
    <2>3. occ'[i + 1].source = i
      BY <2>2 DEF Occurrence
    <2> QED BY <1>0, <2>1, <2>2, <2>3 DEF Lineage
  <1>3. ASSUME NEW x \in Workers, Work(x) \/ StepFails(x) \/ Stop(x) PROVE Lineage'
    <2>1. \A i \in Ids : occ[i].plan \in Plans
      BY <1>0, IdsNat DEF Rows
    <2>2. w[x].plan \in Plans
      BY <1>0 DEF MemorySound, WorkerMemory
    <2> QED BY <1>0, <1>1, <1>2, <1>3, <2>1, <2>2, WorkRows
  <1>4. ASSUME NEW i \in Ids, Deliver(i) \/ Control(i) \/ ReadMarkDeleted(i)
        PROVE  Lineage'
    <2>1. CASE WriteUnlocked(i)
      BY <1>0, <2>1, LateKeepsLineage DEF Lineage, Ids
    <2> QED BY <1>0, <1>1, <1>4, <2>1, OwnerKeeps
  <1>5. CASE WriteEdit \/ WriteMarkDeleted
    BY <1>0, <1>1, <1>5, WritersKeep
  <1>6. CASE Tick \/ UNCHANGED vars
    BY <1>0, <1>1, <1>6, UnchangedKeeps DEF Tick, vars
  <1> QED BY <1>3, <1>4, <1>5, <1>6 DEF Next

\* A successor is inserted in a later step than the one that proved its source published;
\* a late write may cancel it in between.
InsertsAfterDone == \A x \in Workers : At(x, "insert") => Done(occ[Source(x)])

SeriesInv == TypeOK /\ Lineage /\ OnlyLastWaits /\ InsertsAfterDone

\* What is done stays done, whatever a step does to the rows there are.
LEMMA DoneStays ==
  ASSUME TypeOK, [Next]_vars, NEW j \in Ids, Done(occ[j])
  PROVE  Done(occ'[j])
  <1> USE TypeParts
  <1>1. CASE Keeps
    BY <1>1 DEF Keeps, Evolves, Done
  <1>2. ASSUME NEW x \in Workers, Work(x) \/ StepFails(x) \/ Stop(x) PROVE Done(occ'[j])
    <2>1. ASSUME NEW i \in Ids, NEW plan \in Plans, Appends(i, plan) PROVE Done(occ'[j])
      BY <2>1, IdsNat, AppendsTyped
    <2>2. \A i \in Ids : occ[i].plan \in Plans
      BY IdsNat DEF Rows
    <2>3. w[x].plan \in Plans
      BY DEF MemorySound, WorkerMemory
    <2> QED BY <1>1, <1>2, <2>1, <2>2, <2>3, WorkRows
  <1>3. ASSUME NEW i \in Ids, Deliver(i) \/ Control(i) \/ ReadMarkDeleted(i)
        PROVE  Done(occ'[j])
    <2>1. CASE WriteUnlocked(i)
      BY <2>1, LateKeepsLineage
    <2> QED BY <1>1, <1>3, <2>1, OwnerKeeps
  <1>4. CASE WriteEdit \/ WriteMarkDeleted
    BY <1>1, <1>4, WritersKeep
  <1>5. CASE Tick \/ UNCHANGED vars
    BY <1>1, <1>5, UnchangedKeeps DEF Tick, vars
  <1> QED BY <1>2, <1>3, <1>4, <1>5 DEF Next

\* A step keeps the number of rows or appends the successor of a row that is done.
LEMMA GrowsAfterDone ==
  ASSUME SeriesInv, [Next]_vars
  PROVE  \/ Ids' = Ids /\ Len(occ') = Len(occ)
         \/ \E i \in Ids, plan \in Plans : Appends(i, plan) /\ Done(occ[i])
  <1> USE TypeParts DEF SeriesInv
  <1>1. CASE Keeps
    BY <1>1 DEF Keeps
  <1>2. ASSUME NEW x \in Workers, Work(x) \/ StepFails(x) \/ Stop(x), ~Keeps
        PROVE  \E i \in Ids, plan \in Plans : Appends(i, plan) /\ Done(occ[i])
    <2> DEFINE i == Source(x)
    <2>1. CASE Pending(i) /\ i \in Ids /\ Appends(i, occ[i].plan)
      <3>1. occ[i].plan \in Plans
        BY <2>1, IdsNat DEF Rows
      <3>2. Done(occ[i])
        BY <2>1 DEF Pending, Authority, Done
      <3> QED BY <2>1, <3>1, <3>2
    <2>2. CASE WriteMaterialize(x) /\ i \in Ids /\ Appends(i, w[x].plan)
      <3>1. w[x].plan \in Plans
        BY DEF MemorySound, WorkerMemory
      <3>2. Done(occ[i])
        BY <2>2 DEF WriteMaterialize, InsertsAfterDone
      <3> QED BY <2>2, <3>1, <3>2
    <2> QED BY <1>2, <2>1, <2>2, WorkRows
  <1>3. ASSUME NEW i \in Ids, Deliver(i) \/ Control(i) \/ ReadMarkDeleted(i)
        PROVE  Ids' = Ids /\ Len(occ') = Len(occ)
    <2>1. CASE WriteUnlocked(i)
      BY <2>1, LateKeepsLineage DEF Ids
    <2> QED BY <1>1, <1>3, <2>1, OwnerKeeps DEF Keeps
  <1>4. CASE WriteEdit \/ WriteMarkDeleted
    BY <1>1, <1>4, WritersKeep
  <1>5. CASE Tick \/ UNCHANGED vars
    BY <1>1, <1>5, UnchangedKeeps DEF Tick, vars
  <1> QED BY <1>1, <1>2, <1>3, <1>4, <1>5 DEF Next

\* The row that gets a successor is the last one, and it is done.
LEMMA OnlyLastWaitsStep ==
  ASSUME SeriesInv, [Next]_vars
  PROVE  OnlyLastWaits'
  <1>0. TypeOK /\ OccTyped /\ Len(occ) \in Nat /\ Ids = 1..Len(occ)
    BY TypeParts, IdsNat DEF Ids, SeriesInv
  <1>1. \A j \in Ids : j < Len(occ) => Done(occ[j])
    BY DEF SeriesInv, OnlyLastWaits, Done
  <1>2. CASE Ids' = Ids /\ Len(occ') = Len(occ)
    BY <1>0, <1>1, <1>2, DoneStays DEF OnlyLastWaits, Done
  <1>3. ASSUME NEW i \in Ids, NEW plan \in Plans, Appends(i, plan), Done(occ[i])
        PROVE  OnlyLastWaits'
    <2>1. i = Len(occ)
      <3> SUFFICES ASSUME i < Len(occ) PROVE FALSE
        BY <1>0
      <3>1. i + 1 \in Ids /\ occ[i + 1].source = i
        BY <1>0 DEF Lineage, SeriesInv
      <3> QED BY <1>3, <3>1 DEF Appends
    <2>2. Len(occ') = Len(occ) + 1 /\ Ids' = Ids \cup {Len(occ) + 1}
      BY <1>0, <1>3, <2>1, AppendsTyped
    <2>3. \A j \in Ids : Done(occ'[j])
      BY <1>0, <1>1, <1>3, <2>1, DoneStays
    <2> QED BY <1>0, <2>2, <2>3 DEF OnlyLastWaits, Done
  <1> QED BY <1>2, <1>3, GrowsAfterDone

\* A worker comes to insert from a source that is published at that moment.
LEMMA InsertsStep ==
  ASSUME SeriesInv, [Next]_vars
  PROVE  InsertsAfterDone'
  <1> SUFFICES ASSUME NEW y \in Workers, At(y, "insert")' PROVE Done(occ[Source(y)])'
    BY DEF InsertsAfterDone
  <1>0. TypeOK /\ OccTyped /\ MemorySound /\ w[y] \in WorkerMemory
    BY TypeParts DEF SeriesInv, MemorySound
  <1>1. CASE UNCHANGED w[y]
    <2>1. At(y, "insert") /\ Source(y)' = Source(y)
      BY <1>1 DEF At, Source
    <2>2. Source(y) \in Ids /\ Done(occ[Source(y)])
      BY <1>0, <2>1, BusyHasTodo, SourceInTodo DEF SeriesInv, InsertsAfterDone
    <2> QED BY <1>0, <2>1, <2>2, DoneStays DEF Done
  <1>2. CASE ReadMaterialize(y) /\ ~UNCHANGED w[y]
    <2>1. Pending(Source(y)) /\ UNCHANGED occ
      <3>1. NextSource(y) => w'[y].pc # "insert"
        BY <1>0 DEF NextSource, IdleWorker, WorkerMemory, MemorySound
      <3> QED BY <1>2, <3>1 DEF ReadMaterialize, At
    <2>2. w' = [w EXCEPT ![y].pc = "insert", ![y].plan = occ[Source(y)].plan]
      BY <1>2, <2>1 DEF ReadMaterialize
    <2>3. Source(y)' = Source(y)
      BY <1>0, <2>2 DEF MemorySound, WorkerMemory, Source
    <2> QED BY <2>1, <2>3 DEF Pending, Authority, Done
  <1> QED BY <1>0, <1>1, <1>2, MemoryCases

\* However many workers continue a series at the same time, on either database, and
\* whatever edits, deletion marks, planner and bulk removal write late to its rows: what is
\* not posted yet is never continued, and nothing is continued twice.
THEOREM OnlyLastWaitsCorrect == Spec => []OnlyLastWaits
  <1>1. Init => Lineage /\ OnlyLastWaits /\ InsertsAfterDone
    <2> SUFFICES ASSUME Init PROVE Lineage /\ OnlyLastWaits /\ InsertsAfterDone
      OBVIOUS
    <2>1. PICK every \in Intervals \cup {0} :
             occ = <<Occurrence(0, every, IF every = 0 THEN 0 ELSE 1, 1, 0)>>
      BY DEF Init
    <2>2. Len(occ) = 1 /\ occ[1].source = 0
      BY <2>1 DEF Occurrence
    <2>3. InsertsAfterDone
      BY DEF Init, InsertsAfterDone, At, IdleWorker
    <2> QED BY <2>2, <2>3 DEF Lineage, OnlyLastWaits, Ids
  <1>2. SeriesInv /\ [Next]_vars /\ TypeOK' => SeriesInv'
    BY LineageStep, OnlyLastWaitsStep, InsertsStep DEF SeriesInv
  <1> QED BY <1>1, <1>2, TypeCorrect, PTL DEF Spec, SeriesInv

-----------------------------------------------------------------------------
(* The series is a line, when no control reads without a lock. *)

\* Then nothing is ever written late.
LEMMA NothingLate ==
  ASSUME MaxUnlocked = 0, late = {}, [Next]_vars
  PROVE  late' = {}
  <1>1. ASSUME NEW i \in Ids PROVE ~ReadUnlocked(i) /\ ~WriteUnlocked(i)
    <2>1. Cardinality(late) = 0
      BY FS_EmptySet
    <2> QED BY <2>1 DEF ReadUnlocked, WriteUnlocked
  <1>2. ASSUME NEW x \in Workers, Work(x) \/ StepFails(x) \/ Stop(x) PROVE UNCHANGED late
    BY <1>2 DEF Work, StepFails, Stop, StartPass, Select, Verify, Reserve, ReadReserve,
                WriteReserve, Materialize, ReadMaterialize, WriteMaterialize, unwritten
  <1>3. ASSUME NEW i \in Ids, Deliver(i) \/ Control(i) \/ ReadMarkDeleted(i)
        PROVE  UNCHANGED late
    BY <1>1, <1>3 DEF Deliver, Control, Cancel, Reschedule, StartRepeat, StopRepeat, Edit,
                      ReadEdit, ReadMarkDeleted, unwritten
  <1>4. CASE WriteEdit \/ WriteMarkDeleted \/ Tick \/ UNCHANGED vars
    BY <1>4 DEF WriteEdit, WriteMarkDeleted, Tick, vars, unwritten
  <1> QED BY <1>2, <1>3, <1>4 DEF Next

\* Without row locks the successor is inserted in a later step than the one that proved
\* the source published and repeating; nothing takes that back in between.
Inserting(x) ==
    At(x, "insert") =>
        /\ occ[Source(x)].status = "published"
        /\ occ[Source(x)].every > 0
        /\ w[x].plan.every = occ[Source(x)].every

LineInv ==
    /\ TypeOK
    /\ occ # << >>
    /\ late = {}
    /\ SeriesIsALine
    /\ \A x \in Workers : Inserting(x)

\* A step appends a successor of a row that is published and repeats.
Continues(i) ==
    /\ i \in Ids
    /\ occ[i].status = "published" /\ occ[i].every > 0
    /\ \E plan \in Plans : plan.every = occ[i].every /\ Appends(i, plan)

\* Every step keeps the rows or continues one of them.
LEMMA RowsKeepOrContinue ==
  ASSUME LineInv, [Next]_vars
  PROVE  Keeps \/ \E i \in Ids : Continues(i)
  <1> USE TypeParts DEF LineInv
  <1>1. ASSUME NEW x \in Workers, Work(x) \/ StepFails(x) \/ Stop(x)
        PROVE  Keeps \/ \E i \in Ids : Continues(i)
    <2> DEFINE i == Source(x)
    <2>1. CASE Keeps
      BY <2>1
    <2>2. CASE Pending(i) /\ i \in Ids /\ Appends(i, occ[i].plan)
      <3>1. occ[i].plan \in Plans
        BY <2>2, IdsNat DEF Rows
      <3>2. Continues(i)
        BY <2>2, <3>1 DEF Continues, Pending, Authority, Describes
      <3> QED BY <2>2, <3>2
    <2>3. CASE WriteMaterialize(x) /\ i \in Ids /\ Appends(i, w[x].plan)
      <3>1. w[x].plan \in Plans
        BY DEF MemorySound, WorkerMemory
      <3>2. Continues(i)
        BY <2>3, <3>1 DEF Continues, WriteMaterialize, Inserting
      <3> QED BY <2>3, <3>2
    <2> QED BY <1>1, <2>1, <2>2, <2>3, WorkRows
  <1>2. ASSUME NEW i \in Ids, Deliver(i) \/ Control(i) \/ ReadMarkDeleted(i) PROVE Keeps
    <2>1. ~WriteUnlocked(i)
      BY DEF WriteUnlocked
    <2> QED BY <1>2, <2>1, OwnerKeeps
  <1>3. CASE WriteEdit \/ WriteMarkDeleted
    BY <1>3, WritersKeep
  <1>4. CASE Tick \/ UNCHANGED vars
    BY <1>4, UnchangedKeeps DEF Tick, vars
  <1> QED BY <1>1, <1>2, <1>3, <1>4 DEF Next

\* Only the last row of a line has no successor yet.
LEMMA OnlyLastContinues ==
  ASSUME LineInv, NEW i \in Ids, NEW plan, Appends(i, plan)
  PROVE  i = Len(occ)
  <1>1. Len(occ) \in Nat /\ Ids = 1..Len(occ)
    BY TypeParts, IdsNat DEF LineInv, Ids
  <1>2. CASE i < Len(occ)
    <2>1. i + 1 \in Ids /\ occ[i + 1].source = i
      BY <1>1, <1>2 DEF LineInv, SeriesIsALine
    <2> QED BY <2>1 DEF Appends
  <1> QED BY <1>1, <1>2

\* What is published stays so, and keeps its repeat rule, whatever a step does.
LEMMA PublishedStays ==
  ASSUME LineInv, [Next]_vars, NEW j \in Ids, occ[j].status = "published"
  PROVE  j \in Ids' /\ occ'[j].status = "published" /\ occ'[j].every = occ[j].every
  <1>1. CASE Keeps
    BY <1>1 DEF Keeps, Evolves
  <1>2. ASSUME NEW i \in Ids, Continues(i)
        PROVE  j \in Ids' /\ occ'[j] = occ[j]
    BY <1>2, TypeParts, IdsNat, AppendsTyped DEF Continues, LineInv
  <1> QED BY <1>1, <1>2, RowsKeepOrContinue

\* A step extends the line at its end or leaves it.
LEMMA LineStep ==
  ASSUME LineInv, [Next]_vars
  PROVE  SeriesIsALine'
  <1>0. OccTyped /\ Len(occ) \in Nat /\ Ids = 1..Len(occ)
    BY TypeParts, IdsNat DEF LineInv, Ids
  <1>1. CASE Keeps
    BY <1>0, <1>1 DEF Keeps, Evolves, LineInv, SeriesIsALine
  <1>2. ASSUME NEW i \in Ids, Continues(i) PROVE SeriesIsALine'
    <2>1. PICK plan \in Plans : Appends(i, plan)
      BY <1>2 DEF Continues
    <2>2. i = Len(occ) /\ i \in Nat
      BY <1>0, <2>1, OnlyLastContinues
    <2>3. /\ Len(occ') = Len(occ) + 1
          /\ Ids' = Ids \cup {Len(occ) + 1}
          /\ \A j \in Ids : occ'[j] = occ[j]
          /\ occ'[Len(occ) + 1].source = i
      <3>1. occ'[Len(occ) + 1] = Occurrence(plan.at, plan.every, plan.group, plan.revision, i)
            /\ Len(occ') = Len(occ) + 1
            /\ Ids' = Ids \cup {Len(occ) + 1}
            /\ \A j \in Ids : occ'[j] = occ[j]
        BY <1>0, <2>1, <2>2, AppendsTyped
      <3>2. Occurrence(plan.at, plan.every, plan.group, plan.revision, i).source = i
        BY DEF Occurrence
      <3> QED BY <3>1, <3>2
    <2>4. ASSUME NEW j \in Ids, j < Len(occ)
          PROVE  occ[j].source = j - 1 /\ occ[j].status = "published" /\ occ[j].every > 0
      BY <2>4 DEF LineInv, SeriesIsALine
    <2>5. occ[i].source = i - 1 /\ occ[i].status = "published" /\ occ[i].every > 0
      BY <1>2 DEF LineInv, SeriesIsALine, Continues
    <2>6. ASSUME NEW j \in Ids'
          PROVE  /\ occ'[j].source = j - 1
                 /\ j < Len(occ') => occ'[j].status = "published" /\ occ'[j].every > 0
      <3>1. CASE j = Len(occ) + 1
        BY <1>0, <2>2, <2>3, <3>1
      <3>2. CASE j = i
        BY <1>0, <2>3, <2>5, <3>2
      <3>3. CASE j \in Ids /\ j < Len(occ)
        BY <2>3, <2>4, <3>3
      <3> QED BY <1>0, <2>2, <2>3, <3>1, <3>2, <3>3
    <2> QED BY <2>6 DEF SeriesIsALine
  <1> QED BY <1>1, <1>2, RowsKeepOrContinue

\* Between proof and insertion nothing takes back what was proved of the source.
LEMMA InsertingStep ==
  ASSUME LineInv, [Next]_vars, NEW y \in Workers
  PROVE  Inserting(y)'
  <1> SUFFICES ASSUME At(y, "insert")' PROVE Inserting(y)'
    BY DEF Inserting
  <1>0. OccTyped /\ MemorySound /\ w[y] \in WorkerMemory
    BY TypeParts DEF LineInv, MemorySound
  <1>1. CASE UNCHANGED w[y]
    <2>1. At(y, "insert") /\ Source(y)' = Source(y)
      BY <1>1 DEF At, Source
    <2>2. Source(y) \in Ids
      BY <1>0, <2>1, BusyHasTodo, SourceInTodo
    <2>3. /\ occ[Source(y)].status = "published" /\ occ[Source(y)].every > 0
          /\ w[y].plan.every = occ[Source(y)].every
      BY <2>1 DEF LineInv, Inserting
    <2> QED BY <1>1, <2>1, <2>2, <2>3, PublishedStays DEF Inserting
  <1>2. CASE ReadMaterialize(y) /\ ~UNCHANGED w[y]
    <2>1. At(y, "materialize") /\ UNCHANGED occ
      BY <1>2 DEF ReadMaterialize
    <2>2. Pending(Source(y))
      <3>1. NextSource(y) => w'[y].pc # "insert"
        BY <1>0 DEF NextSource, IdleWorker, WorkerMemory, MemorySound
      <3> QED BY <1>2, <3>1 DEF ReadMaterialize, At
    <2>3. w' = [w EXCEPT ![y].pc = "insert", ![y].plan = occ[Source(y)].plan]
      BY <1>2, <2>2 DEF ReadMaterialize
    <2>4. w'[y].todo = w[y].todo /\ w'[y].plan = occ[Source(y)].plan
      BY <1>0, <2>3 DEF MemorySound, WorkerMemory
    <2>5. Source(y)' = Source(y)
      BY <2>4 DEF Source
    <2> QED BY <2>1, <2>2, <2>4, <2>5 DEF Inserting, Pending, Authority, Describes
  <1> QED BY <1>1, <1>2, MemoryCases DEF LineInv

\* A series always has a first occurrence.
LEMMA NeverEmpty ==
  ASSUME LineInv, [Next]_vars
  PROVE  occ' # << >>
  <1>1. OccTyped /\ Len(occ) \in Nat \ {0}
    BY TypeParts, IdsNat, EmptySeq DEF LineInv, OccTyped
  <1>2. CASE Keeps
    BY <1>1, <1>2, EmptySeq DEF Keeps
  <1>3. ASSUME NEW i \in Ids, Continues(i) PROVE occ' # << >>
    BY <1>1, <1>3, IdsNat, AppendsTyped, EmptySeq DEF Continues
  <1> QED BY <1>2, <1>3, RowsKeepOrContinue

\* The strengthened invariant holds in every reachable state.
LEMMA LineInvCorrect ==
  ASSUME MaxUnlocked = 0
  PROVE  Spec => []LineInv
  <1> DEFINE Rest == occ # << >> /\ late = {} /\ SeriesIsALine
                     /\ \A x \in Workers : Inserting(x)
  <1>1. Init => Rest
    <2> SUFFICES ASSUME Init PROVE Rest
      OBVIOUS
    <2>1. PICK every \in Intervals \cup {0} :
             occ = <<Occurrence(0, every, IF every = 0 THEN 0 ELSE 1, 1, 0)>>
      BY DEF Init
    <2>2. Len(occ) = 1 /\ occ[1].source = 0
      BY <2>1 DEF Occurrence
    <2>3. SeriesIsALine
      BY <2>2 DEF SeriesIsALine, Ids
    <2>4. \A x \in Workers : Inserting(x)
      BY DEF Init, Inserting, At, IdleWorker
    <2>5. late = {}
      BY DEF Init
    <2> QED BY <2>1, <2>3, <2>4, <2>5
  <1>2. LineInv /\ [Next]_vars /\ TypeOK' => LineInv'
    BY NeverEmpty, NothingLate, LineStep, InsertingStep DEF LineInv
  <1> QED BY <1>1, <1>2, TypeCorrect, TypeInit, PTL DEF Spec, LineInv

\* However many workers continue a series at the same time, with row locks or without,
\* and wherever they die: a successor exists only of an occurrence that was published
\* with its repeat on, and stays so.
THEOREM LineCorrect ==
  ASSUME MaxUnlocked = 0
  PROVE  Spec => []SeriesIsALine
  <1>1. LineInv => SeriesIsALine
    BY DEF LineInv
  <1> QED BY <1>1, LineInvCorrect, PTL

-----------------------------------------------------------------------------
(* With row locks a reservation is durable. *)

\* No transaction is ever between its read and its write.
Whole ==
    /\ edit = NoEdit /\ mark = NoMark /\ late = {}
    /\ \A x \in Workers : w[x].pc \notin {"write", "insert"}

\* Going on with the next source leaves no transaction open.
LEMMA NextSourceWhole ==
  ASSUME TypeOK, Whole, NEW x \in Workers, NextSource(x)
  PROVE  \A y \in Workers : w'[y].pc \notin {"write", "insert"}
  BY TypeParts DEF NextSource, IdleWorker, WorkerMemory, MemorySound, Whole

\* With row locks no step opens a transaction that another could interleave with.
LEMMA WholeStep ==
  ASSUME RowLocks, MaxUnlocked = 0, TypeOK, Whole, [Next]_vars
  PROVE  Whole'
  <1> USE TypeParts DEF MemorySound
  <1>1. ASSUME NEW x \in Workers, Work(x) \/ StepFails(x) \/ Stop(x) PROVE Whole'
    <2> DEFINE Free == \A y \in Workers : w'[y].pc \notin {"write", "insert"}
    <2>1. UNCHANGED unwritten
      BY <1>1 DEF Work, StepFails, Stop, StartPass, Select, Verify, Reserve, ReadReserve,
                  WriteReserve, Materialize, ReadMaterialize, WriteMaterialize
    <2>2. ASSUME NEW next, NEW done, TakeBatch(x, next, done) PROVE Free
      BY <2>2 DEF TakeBatch, IdleWorker, WorkerMemory, Whole
    <2>3. ASSUME StartPass(x) PROVE Free
      BY <2>3 DEF StartPass, WorkerMemory, Whole
    <2>4. ASSUME Select(x) PROVE Free
      BY <2>2, <2>4 DEF Select
    <2>5. ASSUME Verify(x) \/ Reserve(x) PROVE Free
      BY <2>5, NextSourceWhole DEF Verify, Reserve, WorkerMemory, Whole
    <2>6. ASSUME Materialize(x) \/ StepFails(x) PROVE Free
      BY <2>6, NextSourceWhole DEF Materialize, StepFails
    <2>7. ASSUME Stop(x) PROVE Free
      BY <2>7 DEF Stop, IdleWorker, WorkerMemory, Whole
    <2>8. ~(ReadReserve(x) \/ WriteReserve(x) \/ ReadMaterialize(x) \/ WriteMaterialize(x))
      BY DEF ReadReserve, WriteReserve, ReadMaterialize, WriteMaterialize, At, Whole
    <2>9. Free
      BY <1>1, <2>3, <2>4, <2>5, <2>6, <2>7, <2>8 DEF Work
    <2> QED BY <2>1, <2>9, NothingLate DEF Whole, unwritten
  <1>2. ASSUME NEW i \in Ids, Deliver(i) \/ Control(i) \/ ReadMarkDeleted(i)
        PROVE  UNCHANGED <<w, edit, mark>>
    BY <1>2 DEF Deliver, Control, Cancel, Reschedule, StartRepeat, StopRepeat, Edit, ReadEdit,
                ReadUnlocked, WriteUnlocked, ReadMarkDeleted, unwritten
  <1>3. ASSUME Tick \/ UNCHANGED vars PROVE Whole'
    BY <1>3 DEF Tick, vars, unwritten, Whole
  <1>4. ~WriteEdit /\ ~WriteMarkDeleted
    BY DEF WriteEdit, WriteMarkDeleted, Whole
  <1> QED BY <1>1, <1>2, <1>3, <1>4, NothingLate DEF Next, Whole

\* With row locks every reachable state is between transactions.
LEMMA WholeCorrect ==
  ASSUME RowLocks, MaxUnlocked = 0
  PROVE  Spec => []Whole
  <1>1. Init => Whole
    BY DEF Init, Whole, IdleWorker
  <1>2. TypeOK /\ Whole /\ [Next]_vars => Whole'
    BY WholeStep
  <1> QED BY <1>1, <1>2, TypeCorrect, PTL DEF Spec

\* What a step with row locks does to the reservation of a row.
KeepsReservation(i) ==
    occ[i].plan # NoPlan => occ'[i].plan = occ[i].plan /\ occ'[i].copy = occ[i].copy

\* Every action, one at a time: none changes a reservation that exists.
LEMMA ReservationStep ==
  ASSUME RowLocks, MaxUnlocked = 0, TypeOK, Whole, [Next]_vars, NEW i \in Ids
  PROVE  KeepsReservation(i)
  <1> USE TypeParts
  <1>0. i \in DOMAIN occ /\ occ[i] \in Rows /\ i \in Nat
    BY IdsNat, LenProperties DEF OccTyped, Ids
  <1>1. CASE UNCHANGED occ
    BY <1>1 DEF KeepsReservation
  <1>2. ASSUME NEW j \in Ids, NEW plan, WritePlans(j, plan),
               j = i => <<occ[i].plan, occ[i].copy>> \in {<<NoPlan, NoPlan>>, <<plan, plan>>}
        PROVE  KeepsReservation(i)
    <2>1. CASE j = i
      BY <1>0, <1>2, <2>1 DEF WritePlans, KeepsReservation, Rows
    <2>2. CASE j # i
      BY <1>0, <1>2, <2>2 DEF WritePlans, KeepsReservation
    <2> QED BY <2>1, <2>2
  <1>3. ASSUME NEW j \in Nat, NEW plan \in Plans, Appends(j, plan)
        PROVE  KeepsReservation(i)
    BY <1>3, AppendsTyped DEF KeepsReservation
  <1>4. ASSUME NEW x \in Workers, Work(x) \/ StepFails(x) \/ Stop(x)
        PROVE  KeepsReservation(i)
    <2>1. CASE Reserve(x) /\ ~UNCHANGED occ
      <3>1. Source(x) \in Ids
        BY <2>1, BusyHasTodo, SourceInTodo DEF Reserve
      <3> QED BY <1>2, <2>1, <3>1 DEF Reserve, MayReserve
    <2>2. CASE Materialize(x) /\ ~UNCHANGED occ
      <3>1. Source(x) \in Ids
        BY <2>2, BusyHasTodo, SourceInTodo DEF Materialize
      <3>2. Appends(Source(x), occ[Source(x)].plan)
        BY <2>2, InsertCases DEF Materialize
      <3>3. Source(x) \in Nat /\ occ[Source(x)].plan \in Plans
        BY <3>1, IdsNat DEF Rows
      <3> QED BY <1>3, <3>2, <3>3
    <2>3. ~WriteReserve(x) /\ ~WriteMaterialize(x)
      BY DEF WriteReserve, WriteMaterialize, At, Whole
    <2>4. CASE ~(Reserve(x) \/ Materialize(x))
      <3>1. UNCHANGED occ
        BY <1>4, <2>3, <2>4 DEF Work, StepFails, Stop, StartPass, Select, Verify, ReadReserve,
                                ReadMaterialize
      <3> QED BY <1>1, <3>1
    <2> QED BY <1>1, <2>1, <2>2, <2>4
  <1>5. ASSUME NEW j \in Ids, Deliver(j) \/ Control(j) \/ ReadMarkDeleted(j)
        PROVE  KeepsReservation(i)
    <2>0. occ[j] \in Rows
      BY IdsNat
    <2>1. CASE Deliver(j) \/ Cancel(j) \/ Reschedule(j)
      BY <1>0, <2>0, <2>1 DEF Deliver, Cancel, Reschedule, KeepsReservation, Rows
    <2>2. CASE StartRepeat(j)
      BY <1>0, <2>0, <2>2 DEF StartRepeat, KeepsReservation, Rows
    <2>3. CASE StopRepeat(j)
      BY <1>0, <2>0, <2>3 DEF StopRepeat, KeepsReservation, Rows
    <2>4. CASE Edit(j)
      BY <1>0, <2>0, <2>4 DEF Edit, KeepsReservation, Rows
    <2>5. CASE ReadEdit(j) \/ ReadUnlocked(j) \/ ReadMarkDeleted(j)
      BY <1>1, <2>5 DEF ReadEdit, ReadUnlocked, ReadMarkDeleted
    <2>6. ~WriteUnlocked(j)
      BY DEF WriteUnlocked, Whole
    <2> QED BY <1>5, <2>1, <2>2, <2>3, <2>4, <2>5, <2>6 DEF Control
  <1>6. ~WriteEdit /\ ~WriteMarkDeleted
    BY DEF WriteEdit, WriteMarkDeleted, Whole
  <1>7. CASE Tick \/ UNCHANGED vars
    BY <1>1, <1>7 DEF Tick, vars
  <1> QED BY <1>4, <1>5, <1>6, <1>7 DEF Next

\* With row locks a reserved slot is never moved or lost, by whichever worker the successor
\* is materialized and whatever the owner and the autodelete worker write meanwhile.
THEOREM ReservationCorrect ==
  ASSUME RowLocks, MaxUnlocked = 0
  PROVE  Spec => ReservationIsDurable
  <1>1. TypeOK /\ Whole /\ [Next]_vars =>
           [\A i \in Ids : occ[i].plan # NoPlan =>
              occ'[i].plan = occ[i].plan /\ occ'[i].copy = occ[i].copy]_vars
    BY ReservationStep DEF KeepsReservation
  <1> QED BY <1>1, TypeCorrect, WholeCorrect, PTL DEF Spec, ReservationIsDurable

-----------------------------------------------------------------------------
(* With row locks a successor stands where its source's schedule puts it.   *)

\* A later slot on the grid of a schedule.
Later(old, every, new) == new > old /\ (new - old) % every = 0

\* A reservation belongs to a published source and is a later slot of its schedule.
Planned ==
    \A i \in Ids : occ[i].plan # NoPlan =>
        /\ occ[i].status = "published"
        /\ occ[i].every > 0
        /\ Later(occ[i].at, occ[i].every, occ[i].plan.at)

\* A positive number of intervals after a moment is a later slot.
LEMMA StepsAreLater ==
  ASSUME NEW at \in Nat, NEW e \in Nat \ {0}, NEW m \in Nat \ {0}, NEW n \in Nat,
         n = at + e * m
  PROVE  Later(at, e, n)
  <1> DEFINE p == e * m
  <1>1. p \in Nat \ {0} /\ p % e = 0
    OBVIOUS
  <1> HIDE DEF p
  <1>2. n = at + p
    BY DEF p
  <1>3. n - at = p /\ n > at
    BY <1>1, <1>2
  <1> QED BY <1>1, <1>3 DEF Later

\* The next repeat time after any moment is a later slot on the grid.
LEMMA NextIsLater ==
  ASSUME NEW at \in Nat, NEW e \in Nat \ {0}, NEW a \in Nat
  PROVE  Later(at, e, NextRepeatTime(at + e, e, a))
  <1> DEFINE s == at + e
             n == NextRepeatTime(s, e, a)
  <1>0. s \in Nat /\ n \in Nat
    BY NextTyped
  <1>1. CASE s > a
    <2>1. n = s
      BY <1>1 DEF NextRepeatTime
    <2>2. n = at + e * 1
      BY <2>1
    <2> QED BY <1>0, <2>2, StepsAreLater
  <1>2. CASE ~(s > a)
    <2> DEFINE k == ((a - s) \div e) + 1
    <2>1. k \in Nat \ {0}
      BY <1>2
    <2>2. n = s + e * k
      BY <1>2 DEF NextRepeatTime
    <2> HIDE DEF k, n
    <2>3. s + e * k = at + e * (k + 1)
      BY <2>1
    <2>4. n = at + e * (k + 1) /\ k + 1 \in Nat \ {0}
      BY <2>1, <2>2, <2>3
    <2>5. Later(at, e, n)
      BY <1>0, <2>4, StepsAreLater
    <2> QED BY <2>5 DEF n
  <1> QED BY <1>1, <1>2

\* So is the slot a worker reserves.
LEMMA SnapshotIsLater ==
  ASSUME OccTyped, NEW i \in Ids, NEW time \in Nat, Authority(i)
  PROVE  Later(occ[i].at, occ[i].every, Snapshot(i, time).at)
  <1>1. occ[i].at \in Nat /\ occ[i].every \in Nat \ {0}
    BY IdsNat DEF Authority, Rows
  <1> QED BY <1>1, NextIsLater DEF Snapshot

\* What a step does to a row that was published: its schedule stays.
FixesSchedule(i) ==
    occ[i].status = "published" =>
        occ'[i].status = "published" /\ occ'[i].at = occ[i].at /\ occ'[i].every = occ[i].every

\* What it does to the reservation: nothing, or it is planned from the row as it stands.
KeepsOrPlans(i) ==
    \/ occ'[i].plan = occ[i].plan
    \/ Authority(i) /\ \E time \in Nat : occ'[i].plan = Snapshot(i, time)

\* Every action, one at a time: a reservation is only ever planned from a published row.
LEMMA PlanningStep ==
  ASSUME RowLocks, MaxUnlocked = 0, TypeOK, Whole, [Next]_vars, NEW i \in Ids
  PROVE  FixesSchedule(i) /\ KeepsOrPlans(i)
  <1> USE TypeParts
  <1>0. i \in DOMAIN occ /\ occ[i] \in Rows /\ i \in Nat
    BY IdsNat, LenProperties DEF OccTyped, Ids
  <1>1. CASE UNCHANGED occ
    BY <1>1 DEF FixesSchedule, KeepsOrPlans
  <1>2. ASSUME NEW j \in Ids, NEW time \in Nat, Authority(j),
               WritePlans(j, Snapshot(j, time))
        PROVE  FixesSchedule(i) /\ KeepsOrPlans(i)
    <2> DEFINE plan == Snapshot(j, time)
    <2>0. occ' = [occ EXCEPT ![j].plan = plan, ![j].copy = plan]
      BY <1>2 DEF WritePlans
    <2> HIDE DEF plan
    <2>1. CASE j = i
      <3>1. occ'[i].plan = plan /\ FixesSchedule(i)
        BY <1>0, <2>0, <2>1 DEF FixesSchedule, Rows
      <3> QED BY <1>2, <2>1, <3>1 DEF KeepsOrPlans, plan
    <2>2. CASE j # i
      BY <1>0, <2>0, <2>2 DEF FixesSchedule, KeepsOrPlans
    <2> QED BY <2>1, <2>2
  <1>3. ASSUME NEW j \in Nat, NEW plan \in Plans, Appends(j, plan)
        PROVE  FixesSchedule(i) /\ KeepsOrPlans(i)
    BY <1>3, AppendsTyped DEF FixesSchedule, KeepsOrPlans
  <1>4. ASSUME NEW x \in Workers, Work(x) \/ StepFails(x) \/ Stop(x)
        PROVE  FixesSchedule(i) /\ KeepsOrPlans(i)
    <2>1. CASE Reserve(x) /\ ~UNCHANGED occ
      <3>1. Source(x) \in Ids
        BY <2>1, BusyHasTodo, SourceInTodo DEF Reserve
      <3>2. w[x].time \in Nat
        BY DEF MemorySound, WorkerMemory
      <3> QED BY <1>2, <2>1, <3>1, <3>2 DEF Reserve, MayReserve
    <2>2. CASE Materialize(x) /\ ~UNCHANGED occ
      <3>1. Source(x) \in Ids
        BY <2>2, BusyHasTodo, SourceInTodo DEF Materialize
      <3>2. Appends(Source(x), occ[Source(x)].plan)
        BY <2>2, InsertCases DEF Materialize
      <3>3. Source(x) \in Nat /\ occ[Source(x)].plan \in Plans
        BY <3>1, IdsNat DEF Rows
      <3> QED BY <1>3, <3>2, <3>3
    <2>3. ~WriteReserve(x) /\ ~WriteMaterialize(x)
      BY DEF WriteReserve, WriteMaterialize, At, Whole
    <2>4. CASE ~(Reserve(x) \/ Materialize(x))
      <3>1. UNCHANGED occ
        BY <1>4, <2>3, <2>4 DEF Work, StepFails, Stop, StartPass, Select, Verify, ReadReserve,
                                ReadMaterialize
      <3> QED BY <1>1, <3>1
    <2> QED BY <1>1, <2>1, <2>2, <2>4
  <1>5. ASSUME NEW j \in Ids, Deliver(j) \/ Control(j) \/ ReadMarkDeleted(j)
        PROVE  FixesSchedule(i) /\ KeepsOrPlans(i)
    <2>0. occ[j] \in Rows
      BY IdsNat
    <2> USE DEF FixesSchedule, KeepsOrPlans
    <2>1. CASE Deliver(j) \/ Cancel(j) \/ Reschedule(j)
      BY <1>0, <2>0, <2>1 DEF Deliver, Cancel, Reschedule, Rows
    <2>2. CASE StartRepeat(j)
      BY <1>0, <2>0, <2>2 DEF StartRepeat, Rows
    <2>3. CASE StopRepeat(j)
      BY <1>0, <2>0, <2>3 DEF StopRepeat, Rows
    <2>4. CASE Edit(j)
      BY <1>0, <2>0, <2>4 DEF Edit, Rows
    <2>5. CASE ReadEdit(j) \/ ReadUnlocked(j) \/ ReadMarkDeleted(j)
      BY <1>1, <2>5 DEF ReadEdit, ReadUnlocked, ReadMarkDeleted
    <2>6. ~WriteUnlocked(j)
      BY DEF WriteUnlocked, Whole
    <2> QED BY <1>5, <2>1, <2>2, <2>3, <2>4, <2>5, <2>6 DEF Control
  <1>6. ~WriteEdit /\ ~WriteMarkDeleted
    BY DEF WriteEdit, WriteMarkDeleted, Whole
  <1>7. CASE Tick \/ UNCHANGED vars
    BY <1>1, <1>7 DEF Tick, vars
  <1> QED BY <1>4, <1>5, <1>6, <1>7 DEF Next

\* A new row is the successor of one whose reservation it carries and describes.
LEMMA NewRowStep ==
  ASSUME RowLocks, MaxUnlocked = 0, TypeOK, Whole, [Next]_vars, ~Keeps
  PROVE  \E i \in Ids : Pending(i) /\ Appends(i, occ[i].plan)
  <1> USE TypeParts
  <1>1. ASSUME NEW x \in Workers, Work(x) \/ StepFails(x) \/ Stop(x)
        PROVE  \E i \in Ids : Pending(i) /\ Appends(i, occ[i].plan)
    <2>1. ~WriteMaterialize(x)
      BY DEF WriteMaterialize, At, Whole
    <2> QED BY <1>1, <2>1, WorkRows
  <1>2. ASSUME NEW i \in Ids, Deliver(i) \/ Control(i) \/ ReadMarkDeleted(i) PROVE FALSE
    <2>1. ~WriteUnlocked(i)
      BY DEF WriteUnlocked, Whole
    <2> QED BY <1>2, <2>1, OwnerKeeps
  <1>3. ~WriteEdit /\ ~WriteMarkDeleted /\ ~(Tick \/ UNCHANGED vars)
    BY UnchangedKeeps DEF WriteEdit, WriteMarkDeleted, Whole, Tick, vars
  <1> QED BY <1>1, <1>2, <1>3 DEF Next

\* A reservation that was right stays right, and a new one is.
LEMMA PlannedStep ==
  ASSUME RowLocks, MaxUnlocked = 0, TypeOK, Whole, Planned, [Next]_vars
  PROVE  Planned'
  <1> USE TypeParts
  <1>1. ASSUME NEW i \in Ids, occ'[i].plan # NoPlan
        PROVE  /\ occ'[i].status = "published"
               /\ occ'[i].every > 0
               /\ Later(occ'[i].at, occ'[i].every, occ'[i].plan.at)
    <2>1. CASE occ'[i].plan = occ[i].plan
      BY <1>1, <2>1, PlanningStep DEF Planned, FixesSchedule
    <2>2. CASE Authority(i) /\ \E time \in Nat : occ'[i].plan = Snapshot(i, time)
      BY <2>2, PlanningStep, SnapshotIsLater DEF FixesSchedule, Authority
    <2> QED BY <2>1, <2>2, PlanningStep DEF KeepsOrPlans
  <1>2. CASE Keeps
    BY <1>1, <1>2 DEF Planned, Keeps
  <1>3. CASE ~Keeps
    <2>1. PICK i \in Ids : Appends(i, occ[i].plan)
      BY <1>3, NewRowStep
    <2>2. i \in Nat /\ occ[i].plan \in Plans
      BY IdsNat DEF Rows
    <2> DEFINE plan == occ[i].plan
    <2>3. /\ Ids' = Ids \cup {Len(occ) + 1}
          /\ occ'[Len(occ) + 1] =
                Occurrence(plan.at, plan.every, plan.group, plan.revision, i)
      BY <2>1, <2>2, AppendsTyped
    <2>4. occ'[Len(occ) + 1].plan = NoPlan
      BY <2>3 DEF Occurrence
    <2> QED BY <1>1, <2>3, <2>4 DEF Planned
  <1> QED BY <1>2, <1>3

\* With row locks every reservation in a reachable state is a later slot of its source.
LEMMA PlannedCorrect ==
  ASSUME RowLocks, MaxUnlocked = 0
  PROVE  Spec => []Planned
  <1>1. Init => Planned
    <2> SUFFICES ASSUME Init, NEW i \in Ids PROVE occ[i].plan = NoPlan
      BY DEF Planned
    <2>1. PICK every \in Intervals \cup {0} :
             occ = <<Occurrence(0, every, IF every = 0 THEN 0 ELSE 1, 1, 0)>>
      BY DEF Init
    <2> QED BY <2>1 DEF Occurrence, Ids
  <1>2. TypeOK /\ Whole /\ Planned /\ [Next]_vars => Planned'
    BY PlannedStep
  <1> QED BY <1>1, <1>2, TypeCorrect, WholeCorrect, PTL DEF Spec

\* What a successor has of its source when it appears.
ContinuesSource(j) ==
    LET new == occ'[j]
        old == occ'[new.source]
    IN  /\ new.revision = old.revision
        /\ new.every = old.every
        /\ new.at > old.at
        /\ (new.at - old.at) % old.every = 0

\* A step that appends the successor of a pending source continues it.
LEMMA SuccessorStep ==
  ASSUME RowLocks, MaxUnlocked = 0, TypeOK, Whole, Planned, [Next]_vars,
         NEW j \in DOMAIN occ' \ Ids
  PROVE  ContinuesSource(j)
  <1> USE TypeParts
  <1>1. ~Keeps
    BY LenProperties DEF Keeps, OccTyped, Ids
  <1>2. PICK i \in Ids : Pending(i) /\ Appends(i, occ[i].plan)
    BY <1>1, NewRowStep
  <1>3. i \in Nat /\ occ[i].plan \in Plans
    BY IdsNat DEF Rows
  <1> DEFINE plan == occ[i].plan
  <1>4. /\ OccTyped'
        /\ Ids' = Ids \cup {Len(occ) + 1}
        /\ occ'[i] = occ[i]
        /\ occ'[Len(occ) + 1] =
              Occurrence(plan.at, plan.every, plan.group, plan.revision, i)
    BY <1>2, <1>3, AppendsTyped
  <1>5. j = Len(occ) + 1
    BY <1>4, LenProperties DEF OccTyped, Ids
  <1>6. /\ occ'[j].source = i /\ occ'[j].revision = plan.revision
        /\ occ'[j].every = plan.every /\ occ'[j].at = plan.at
    BY <1>4, <1>5 DEF Occurrence
  <1>7. plan.revision = occ[i].revision /\ plan.every = occ[i].every
        /\ Later(occ[i].at, occ[i].every, plan.at)
    BY <1>2 DEF Pending, Describes, Planned
  <1> QED BY <1>4, <1>6, <1>7 DEF ContinuesSource, Later

\* With row locks a successor carries the content and the repeat rule of its source and
\* stands at a later slot of the source's schedule, whatever the owner changed between
\* reservation and materialization.
THEOREM SuccessorCorrect ==
  ASSUME RowLocks, MaxUnlocked = 0
  PROVE  Spec => SuccessorContinuesSource
  <1>1. TypeOK /\ Whole /\ Planned /\ [Next]_vars =>
          [\A j \in DOMAIN occ' \ Ids :
              LET new == occ'[j]
                  old == occ'[new.source]
              IN  /\ new.revision = old.revision
                  /\ new.every = old.every
                  /\ new.at > old.at
                  /\ (new.at - old.at) % old.every = 0]_vars
    BY SuccessorStep DEF ContinuesSource
  <1> QED BY <1>1, TypeCorrect, WholeCorrect, PlannedCorrect, PTL
          DEF Spec, SuccessorContinuesSource

-----------------------------------------------------------------------------
(* Refinement of RepeatSeries. *)

\* A step that keeps the rows sets the repeat of the last one, settles it, or does neither.
LEMMA KeepsRefines ==
  ASSUME LineInv, Keeps
  PROVE  [Series!Next]_<<Len(occ), occ[Len(occ)].status, occ[Len(occ)].every > 0>>
  <1> DEFINE n == Len(occ)
             old == occ[n]
             new == occ'[n]
  <1>1. OccTyped /\ OccTyped' /\ n \in Nat \ {0} /\ n' = n
    BY TypeParts, IdsNat, EmptySeq DEF LineInv, OccTyped, Keeps
  <1>2. old \in Rows /\ new \in Rows
    BY <1>1, ElementOfSeq DEF OccTyped
  <1>3. Evolves(old, new)
    BY <1>1 DEF Keeps, Ids
  <1>4. occ'[n'] = new
    BY <1>1
  <1> HIDE DEF old, new, n
  <1>5. CASE new.status = old.status /\ new.every = old.every
    BY <1>1, <1>4, <1>5 DEF old, n
  <1>6. CASE old.status = "queued" /\ new.status = old.status
    <2>1. CASE (new.every > 0) = (old.every > 0)
      BY <1>1, <1>4, <1>6, <2>1 DEF old, n
    <2>2. CASE (new.every > 0) # (old.every > 0)
      <3>1. (new.every > 0) = ~(old.every > 0)
        BY <2>2
      <3>2. Series!Set
        BY <1>1, <1>4, <1>6, <3>1 DEF Series!Set, old, n
      <3> QED BY <3>2 DEF Series!Next
    <2> QED BY <2>1, <2>2
  <1>7. CASE old.status = "queued" /\ new.every = old.every /\ new.status # old.status
    <2>1. new.status \in {"published", "failed", "cancelled"}
      BY <1>2, <1>7 DEF Rows
    <2>2. Series!Settle
      BY <1>1, <1>4, <1>7, <2>1 DEF Series!Settle, old, n
    <2> QED BY <2>2 DEF Series!Next
  <1> QED BY <1>3, <1>5, <1>6, <1>7 DEF Evolves

\* A step that continues a row continues the series.
LEMMA ContinuesRefines ==
  ASSUME LineInv, NEW i \in Ids, Continues(i)
  PROVE  Series!Next
  <1>1. PICK plan \in Plans : plan.every = occ[i].every /\ Appends(i, plan)
    BY DEF Continues
  <1>2. i = Len(occ) /\ i \in Nat /\ OccTyped
    BY <1>1, OnlyLastContinues, TypeParts, IdsNat DEF LineInv
  <1>3. /\ Len(occ') = i + 1
        /\ occ'[i + 1] = Occurrence(plan.at, plan.every, plan.group, plan.revision, i)
    BY <1>1, <1>2, AppendsTyped
  <1>4. occ'[i + 1].status = "queued" /\ occ'[i + 1].every = plan.every
    BY <1>3 DEF Occurrence
  <1>5. Series!Continue
    BY <1>1, <1>2, <1>3, <1>4 DEF Continues, Series!Continue
  <1> QED BY <1>5 DEF Series!Next

\* A series starts with one waiting occurrence.
LEMMA InitRefines == Init => Series!Init
  <1> SUFFICES ASSUME Init PROVE Series!Init
    OBVIOUS
  <1>1. PICK every \in Intervals \cup {0} :
           occ = <<Occurrence(0, every, IF every = 0 THEN 0 ELSE 1, 1, 0)>>
    BY DEF Init
  <1>2. Len(occ) = 1 /\ occ[1].status = "queued"
    BY <1>1 DEF Occurrence
  <1> QED BY <1>2 DEF Series!Init

\* The continuation of a repeating publication implements the abstract series, for any
\* number of workers, with row locks and without.
THEOREM SeriesRefined ==
  ASSUME MaxUnlocked = 0
  PROVE  Spec => KeepsSeries
  <1>1. LineInv /\ [Next]_vars =>
          [Series!Next]_<<Len(occ), occ[Len(occ)].status, occ[Len(occ)].every > 0>>
    BY RowsKeepOrContinue, KeepsRefines, ContinuesRefines
  <1> QED BY <1>1, InitRefines, LineInvCorrect, PTL DEF Spec, KeepsSeries, Series!Spec
=============================================================================
