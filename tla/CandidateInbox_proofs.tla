------------------------- MODULE CandidateInbox_proofs -------------------------
(* Proofs about CandidateInbox, for any requests, texts and bounds.         *)
EXTENDS CandidateInbox, FiniteSetTheorems, SequenceTheorems, TLAPS

-----------------------------------------------------------------------------
(* The inductive invariant. *)

Variants == [base : Nat, instruction : Instructions \cup {None}]

RunRows ==
    [by : Enrichers \cup Rewriters, variant : Variants, text : Texts, policy : Policies,
     status : Terminal \cup {"running", "gone"}, live : BOOLEAN]

CandidateRows ==
    [status : {"new", "dismissed", "accepted"}, summary : Nat, item : Nat, meta : Pointers]

WorkRows ==
    [pc : {"idle", "selected", "edit", "model", "draft"}, by : Enrichers \cup Rewriters,
     run : Nat, expected : Nat, text : Texts \cup {None}]

DraftRows == [text : Texts \cup {None}, policy : Policies, rewrite : Nat, wanted : Nat]

PollRows == [pc : {"idle", "read", "write"}, policy : Policies, meta : Pointers]

SweepRows == [pc : {"idle", "scanned"}, enriched : Nat, rewritten : Nat]

\* A run edits one that is older.
RunsTyped ==
    /\ runs \in Seq(RunRows) /\ old \in 0..Len(runs)
    /\ \A i \in DOMAIN runs : runs[i].variant.base \in 0..(i - 1)

RunsOf(table) == {i \in DOMAIN runs : runs[i].by \in table}

\* A pointer is nothing or a run of its table; the summary goes with the pointer.
CandidatePoints ==
    /\ candidate \in CandidateRows /\ candidate.summary = candidate.meta.enriched
    /\ candidate.meta.enriched \in RunsOf(Enrichers) \cup {None}
    /\ candidate.meta.rewritten \in RunsOf(Rewriters) \cup {None}

\* What an actor waits for exists, and an edit knows the proposal it starts from.
WorkKnows ==
    /\ work \in [Actors -> WorkRows]
    /\ \A a \in Actors :
          /\ work[a].pc = "edit" => work[a].expected # None
          /\ work[a].pc = "model" =>
               /\ work[a].run \in DOMAIN runs
               /\ runs[work[a].run].variant.base # None
                    => work[a].expected = runs[work[a].run].variant.base

\* A poll writes back what the candidate has; the retention spares what the candidate points to.
MemoryAgrees ==
    /\ text \in Texts /\ policy \in Policies /\ overtaken \in BOOLEAN /\ events \in 0..MaxEvents
    /\ poll \in PollRows /\ (poll.pc = "write" => poll.meta = candidate.meta)
    /\ sweep \in SweepRows
    /\ sweep.pc = "scanned" /\ ~overtaken =>
         /\ candidate.status # "new"
         /\ sweep.enriched = candidate.meta.enriched /\ sweep.rewritten = candidate.meta.rewritten

Carries(d) ==
    /\ d.wanted # None => d.rewrite = d.wanted
    /\ d.rewrite # None => /\ d.rewrite \in DOMAIN runs
                           /\ runs[d.rewrite].text = d.text /\ runs[d.rewrite].policy = d.policy

\* Whoever stores a draft is alone, and the first.
DraftAlone ==
    /\ drafts \in Seq(DraftRows) /\ Len(drafts) <= 1 /\ candidate.item = Len(drafts)
    /\ \A a, b \in Actors : work[a].pc = "draft" /\ work[b].pc = "draft" => a = b
    /\ \A a \in Actors : work[a].pc = "draft" => candidate.item = None
    /\ \A k \in DOMAIN drafts : Carries(drafts[k])

\* Only the retention, overtaken, takes a current run away.
CurrentStays ==
    \A i \in {candidate.meta.enriched, candidate.meta.rewritten} \ {None} :
       runs[i].status = "gone" => overtaken

Typed == RunsTyped /\ CandidatePoints /\ WorkKnows /\ MemoryAgrees
Inv == Typed /\ CurrentStays /\ DraftAlone
-----------------------------------------------------------------------------
(* Numbers, sequences and records. *)

\* A bounded non-empty set of naturals has a largest element.
LEMMA MaxElement ==
  ASSUME NEW n \in Nat, NEW S \in SUBSET (1..n), S # {}
  PROVE  Max(S) \in S
  <1>1. PICK s \in S : TRUE
    OBVIOUS
  <1> DEFINE Above == {i..n : i \in S}
             R == StrictSubsetOrdering(Nat)
  <1>2. Above \subseteq FiniteSubsetsOf(Nat)
    <2> SUFFICES ASSUME NEW i \in S PROVE i..n \in FiniteSubsetsOf(Nat)
      OBVIOUS
    <2>1. IsFiniteSet(i..n) /\ i..n \subseteq Nat
      BY FS_Interval
    <2> QED BY <2>1 DEF FiniteSubsetsOf
  <1>3. IsWellFoundedOn(R, FiniteSubsetsOf(Nat))
    BY FS_StrictSubsetOrderingWellFounded
  <1>4. Above # {}
    BY <1>1
  <1>5. PICK b \in Above : \A c \in Above : <<c, b>> \notin R
    <2> HIDE DEF R, Above
    <2> QED BY <1>2, <1>3, <1>4, WFMin
  <1>6. PICK m \in S : b = m..n
    OBVIOUS
  <1>7. ASSUME NEW i \in S PROVE m >= i
    <2> SUFFICES ASSUME i > m PROVE FALSE
      OBVIOUS
    <2>1. i..n \subseteq m..n /\ m \notin i..n /\ m \in m..n /\ m..n \subseteq Nat
      OBVIOUS
    <2>2. <<i..n, m..n>> \in R
      BY <2>1 DEF StrictSubsetOrdering
    <2> QED BY <1>5, <1>6, <2>2
  <1> QED BY <1>7 DEF Max

LEMMA AppendsRun ==
  ASSUME NEW rows \in Seq(RunRows), NEW row \in RunRows
  PROVE  /\ Append(rows, row) \in Seq(RunRows)
         /\ Len(Append(rows, row)) = Len(rows) + 1
         /\ DOMAIN Append(rows, row) = DOMAIN rows \cup {Len(rows) + 1}
         /\ \A j \in DOMAIN rows : Append(rows, row)[j] = rows[j]
         /\ Append(rows, row)[Len(rows) + 1] = row
  <1> HIDE DEF RunRows
  <1> QED OBVIOUS

LEMMA AppendsDraft ==
  ASSUME NEW rows \in Seq(DraftRows), NEW row \in DraftRows
  PROVE  /\ Append(rows, row) \in Seq(DraftRows)
         /\ Len(Append(rows, row)) = Len(rows) + 1
         /\ DOMAIN Append(rows, row) = DOMAIN rows \cup {Len(rows) + 1}
         /\ \A j \in DOMAIN rows : Append(rows, row)[j] = rows[j]
         /\ Append(rows, row)[Len(rows) + 1] = row
  <1> HIDE DEF DraftRows
  <1> QED OBVIOUS

\* The runs are rows, and a number of one is positive.
LEMMA Rows ==
  ASSUME RunsTyped
  PROVE  /\ Len(runs) \in Nat /\ DOMAIN runs = 1..Len(runs)
         /\ \A i \in DOMAIN runs : runs[i] \in RunRows /\ i \in Nat /\ i # None
         /\ \A f \in [DOMAIN runs -> RunRows] : f \in Seq(RunRows) /\ Len(f) = Len(runs)
  <1> HIDE DEF RunRows
  <1>1. runs \in Seq(RunRows) /\ Len(runs) \in Nat /\ DOMAIN runs = 1..Len(runs)
    BY DEF RunsTyped
  <1>2. \A f \in [1..Len(runs) -> RunRows] : f \in Seq(RunRows) /\ Len(f) = Len(runs)
    BY <1>1
  <1> QED BY <1>1, <1>2 DEF None

LEMMA EndedRow ==
  ASSUME RunsTyped, NEW i \in DOMAIN runs, NEW status \in Terminal
  PROVE  /\ Ended(i, status) \in RunRows
         /\ Ended(i, status).by = runs[i].by /\ Ended(i, status).variant = runs[i].variant
         /\ Ended(i, status).text = runs[i].text /\ Ended(i, status).policy = runs[i].policy
         /\ Ended(i, status).status = status
  BY Rows DEF Ended, RunRows

LEMMA PointedRow ==
  ASSUME CandidatePoints, RunsTyped, NEW i \in DOMAIN runs
  PROVE  /\ Pointed(i) \in CandidateRows
         /\ Pointed(i).status = candidate.status /\ Pointed(i).item = candidate.item
         /\ Pointed(i).meta.policy = candidate.meta.policy
         /\ Pointed(i).summary = Pointed(i).meta.enriched
         /\ runs[i].by \in Enrichers => /\ Pointed(i).meta.enriched = i
                                        /\ Pointed(i).meta.rewritten = candidate.meta.rewritten
         /\ runs[i].by \notin Enrichers => /\ Pointed(i).meta.rewritten = i
                                           /\ Pointed(i).meta.enriched = candidate.meta.enriched
  BY Rows DEF Pointed, CandidatePoints, CandidateRows, Pointers
-----------------------------------------------------------------------------
(* What a step does to the runs. *)

\* The run that a scan spared.
SparedBy(i) == IF runs[i].by \in Enrichers THEN sweep.enriched ELSE sweep.rewritten

\* A run keeps its input; what has ended stays as it ended or goes, and only a retention,
\* which is over then, takes a run away, and none that its scan spared.
Kept(i) ==
    /\ runs'[i].by = runs[i].by /\ runs'[i].variant = runs[i].variant
    /\ runs'[i].text = runs[i].text /\ runs'[i].policy = runs[i].policy
    /\ runs[i].status # "running" => runs'[i].status \in {runs[i].status, "gone"}
    /\ runs'[i].status = "gone" =>
         \/ runs[i].status = "gone"
         \/ sweep.pc = "scanned" /\ i # SparedBy(i) /\ UNCHANGED candidate

RunsKept ==
    /\ RunsTyped' /\ DOMAIN runs \subseteq DOMAIN runs'
    /\ \A i \in DOMAIN runs : Kept(i)

LEMMA SameRuns ==
  ASSUME RunsTyped, UNCHANGED <<runs, old>>
  PROVE  RunsKept
  BY Rows DEF RunsTyped, RunsKept, Kept

\* One run ends.
LEMMA EndKept ==
  ASSUME RunsTyped, NEW i \in DOMAIN runs, NEW status \in Terminal, runs[i].status = "running",
         runs' = [runs EXCEPT ![i] = Ended(i, status)], UNCHANGED old
  PROVE  RunsKept
  <1>1. runs' \in [DOMAIN runs -> RunRows]
    BY Rows, EndedRow
  <1>2. runs' \in Seq(RunRows) /\ Len(runs') = Len(runs) /\ DOMAIN runs' = DOMAIN runs
    BY <1>1, Rows
  <1>3. \A j \in DOMAIN runs : Kept(j)
    BY Rows, EndedRow DEF Kept, Terminal
  <1> QED BY <1>2, <1>3, Rows DEF RunsTyped, RunsKept, Kept

LEMMA ExpireKept ==
  ASSUME RunsTyped, NEW i \in DOMAIN runs, Expire(i)
  PROVE  RunsKept
  <1>0. runs' = [runs EXCEPT ![i].live = FALSE] /\ UNCHANGED old
    BY DEF Expire
  <1>1. runs' \in [DOMAIN runs -> RunRows]
    BY <1>0, Rows DEF RunRows
  <1>2. runs' \in Seq(RunRows) /\ Len(runs') = Len(runs) /\ DOMAIN runs' = DOMAIN runs
    BY <1>1, Rows
  <1>3. \A j \in DOMAIN runs : Kept(j)
    BY <1>0, Rows DEF Kept, RunRows
  <1> QED BY <1>0, <1>2, <1>3, Rows DEF RunsTyped, RunsKept, Kept

\* Of each table the one that the scan read stays.
LEMMA SweepKept ==
  ASSUME RunsTyped, Sweep
  PROVE  RunsKept
  <1> DEFINE gone == (OldRuns(Enrichers) \ (Recent(Enrichers) \cup {sweep.enriched}))
                     \cup (OldRuns(Rewriters) \ (Recent(Rewriters) \cup {sweep.rewritten}))
  <1>0. /\ runs' = [i \in DOMAIN runs |-> IF i \in gone THEN [runs[i] EXCEPT !.status = "gone"]
                                          ELSE runs[i]]
        /\ sweep.pc = "scanned" /\ UNCHANGED <<old, candidate>>
    BY DEF Sweep
  <1>1. ASSUME NEW i \in gone
        PROVE  i # SparedBy(i) /\ runs[i].status \in Terminal
    BY DEF OldRuns, SparedBy, Enrichers, Rewriters
  <1> HIDE DEF gone
  <1>2. runs' \in [DOMAIN runs -> RunRows]
    BY <1>0, Rows DEF RunRows
  <1>3. runs' \in Seq(RunRows) /\ Len(runs') = Len(runs) /\ DOMAIN runs' = DOMAIN runs
    BY <1>2, Rows
  <1>4. ASSUME NEW i \in DOMAIN runs
        PROVE  Kept(i)
    <2>1. CASE i \in gone
      BY <1>0, <1>1, <2>1, Rows DEF Kept, RunRows
    <2>2. CASE i \notin gone
      BY <1>0, <2>2 DEF Kept
    <2> QED BY <2>1, <2>2
  <1> QED BY <1>0, <1>3, <1>4, Rows DEF RunsTyped, RunsKept, Kept

\* The input of a run is typed.
LEMMA KeyTyped ==
  ASSUME MemoryAgrees, CandidatePoints, NEW by
  PROVE  Key(by).text = text /\ Key(by).text \in Texts /\ Key(by).policy \in Policies
  BY DEF Key, MemoryAgrees, CandidatePoints, CandidateRows, Pointers

\* A new run, on top of the proposal it edits if it edits one.
LEMMA OpenKept ==
  ASSUME Typed, NEW a \in Actors, NEW by \in Enrichers \cup Rewriters, NEW variant \in Variants,
         NEW expected \in Nat, variant.base # None => expected = variant.base,
         Open(a, by, variant, expected), UNCHANGED old
  PROVE  /\ RunsKept
         /\ DOMAIN runs' = DOMAIN runs \cup {Len(runs) + 1}
         /\ runs'[Len(runs) + 1].variant = variant
         /\ \A i \in DOMAIN runs : runs'[i].status = runs[i].status \/ runs[i].status = "running"
  <1> DEFINE kept == Abandoned(by, variant)
             new == NewRun(by, variant, Key(by))
  <1>1. runs' = Append(kept, new)
    BY DEF Open
  <1>2. ASSUME NEW i \in DOMAIN runs
        PROVE  /\ kept[i] \in RunRows
               /\ kept[i].by = runs[i].by /\ kept[i].variant = runs[i].variant
               /\ kept[i].text = runs[i].text /\ kept[i].policy = runs[i].policy
               /\ kept[i].status = runs[i].status
                    \/ (runs[i].status = "running" /\ kept[i].status = "abandoned")
    <2>1. CASE i \in Found(by, variant, "running")
      BY <2>1, EndedRow DEF Abandoned, Found, Typed, Terminal
    <2>2. CASE i \notin Found(by, variant, "running")
      BY <2>2, Rows DEF Abandoned, Typed
    <2> QED BY <2>1, <2>2
  <1>3. kept \in [DOMAIN runs -> RunRows]
    BY <1>2 DEF Abandoned
  <1>4. kept \in Seq(RunRows) /\ Len(kept) = Len(runs) /\ DOMAIN kept = DOMAIN runs
    BY <1>3, Rows DEF Typed
  <1>5. new \in RunRows /\ new.variant = variant
    BY KeyTyped DEF NewRun, RunRows, Typed
  <1>6. variant.base \in 0..Len(runs)
    <2>1. CASE variant.base # None
      BY <2>1, Rows DEF Open, Refused, Typed, CandidatePoints, RunsOf, None, Variants
    <2>2. CASE variant.base = None
      BY <2>2, Rows DEF None, Typed
    <2> QED BY <2>1, <2>2
  <1> HIDE DEF kept, new
  <1>7. /\ runs' \in Seq(RunRows) /\ Len(runs') = Len(runs) + 1
        /\ DOMAIN runs' = DOMAIN runs \cup {Len(runs) + 1}
        /\ \A i \in DOMAIN runs : runs'[i] = kept[i]
        /\ runs'[Len(runs) + 1] = new
    BY <1>1, <1>4, <1>5, AppendsRun
  <1>8. \A i \in DOMAIN runs : Kept(i)
    BY <1>2, <1>7 DEF Kept
  <1>9. RunsTyped'
    <2>1. ASSUME NEW i \in DOMAIN runs'
          PROVE  runs'[i].variant.base \in 0..(i - 1)
      <3>1. CASE i \in DOMAIN runs
        BY <1>2, <1>7, <3>1 DEF Typed, RunsTyped
      <3>2. CASE i = Len(runs) + 1
        <4>1. Len(runs) \in Nat /\ i - 1 = Len(runs)
          BY <3>2, Rows DEF Typed
        <4> QED BY <1>5, <1>6, <1>7, <3>2, <4>1
      <3> QED BY <1>7, <3>1, <3>2
    <2> QED BY <1>7, <2>1, Rows DEF RunsTyped, Typed
  <1> QED BY <1>2, <1>5, <1>7, <1>8, <1>9 DEF RunsKept
-----------------------------------------------------------------------------
(* The ways of a step. *)

\* A step makes run i current: it is completed, made of what is in force, and on top of the
\* proposal it started from; nobody holds what a poll would write back.
Earned(i) ==
    /\ i \in DOMAIN runs /\ runs[i].status # "gone" /\ runs'[i].status = "completed"
    /\ candidate' = Pointed(i) /\ candidate.status = "new"
    /\ HasInput(i, runs[i].by, runs[i].variant, Key(runs[i].by))
    /\ runs[i].variant.base # None => candidate.meta.rewritten = runs[i].variant.base
    /\ poll.pc # "write" /\ UNCHANGED <<text, policy, drafts, poll, sweep, overtaken>>

\* Actor a begins a run.
Begins(a) ==
    \E by \in Enrichers \cup Rewriters, variant \in Variants, expected \in Nat :
       (variant.base # None => expected = variant.base) /\ Begin(a, by, variant, expected)

Bystanding == UNCHANGED <<text, policy, drafts, poll, sweep, overtaken>>

Answers(a) == Begins(a) \/ Finish(a) \/ ModelFails(a)

\* Memory of actor a becomes w, which is in order.
Recalls(a, w) ==
    /\ w \in WorkRows /\ work' = [work EXCEPT ![a] = w]
    /\ w.pc = "edit" => w.expected # None
    /\ w.pc = "model" => /\ w.run \in DOMAIN runs'
                         /\ runs'[w.run].variant.base # None
                              => w.expected = runs'[w.run].variant.base

LEMMA StopsWell ==
  ASSUME NEW a \in Actors, Stop(a)
  PROVE  Recalls(a, NoWork)
  BY DEF Stop, Recalls, NoWork, WorkRows, Enrichers, Rewriters, None

LEMMA BeginWay ==
  ASSUME Typed, NEW a \in Actors, Begins(a)
  PROVE  /\ RunsKept /\ (UNCHANGED candidate \/ \E i \in DOMAIN runs : Earned(i))
         /\ \E w : Recalls(a, w) /\ w.pc # "draft"
  <1>1. PICK by \in Enrichers \cup Rewriters, variant \in Variants, expected \in Nat :
             (variant.base # None => expected = variant.base) /\ Begin(a, by, variant, expected)
    BY DEF Begins
  <1>2. Bystanding /\ LocksFree /\ UNCHANGED old
    BY <1>1 DEF Begin, Bystanding
  <1>3. CASE TurnAway(a, by, variant, expected)
    BY <1>2, <1>3, SameRuns, StopsWell DEF TurnAway, Typed, NoWork
  <1>4. CASE Reuse(a, by, variant, expected)
    <2> DEFINE found == Found(by, variant, "completed")
               i == Max(found)
    <2>1. found # {} /\ ~Refused(by, expected) /\ candidate' = Pointed(i) /\ Stop(a) /\ UNCHANGED runs
      BY <1>4 DEF Reuse
    <2>2. found \in SUBSET (1..Len(runs)) /\ Len(runs) \in Nat
      BY Rows DEF Found, Typed
    <2>3. i \in found
      <3> HIDE DEF found
      <3> QED BY <2>1, <2>2, MaxElement
    <2> HIDE DEF i
    <2>4. i \in DOMAIN runs /\ runs[i].status = "completed" /\ HasInput(i, by, variant, Key(by))
      BY <2>3 DEF Found
    <2>5. runs[i].by = by /\ runs[i].variant = variant
      BY <2>4 DEF HasInput
    <2>6. candidate.status = "new" /\ (variant.base # None => candidate.meta.rewritten = variant.base)
      BY <1>1, <2>1 DEF Refused, None
    <2>7. Earned(i)
      BY <1>2, <2>1, <2>4, <2>5, <2>6 DEF Earned, Bystanding, LocksFree, DocumentFree
    <2> QED BY <1>2, <2>1, <2>4, <2>7, SameRuns, StopsWell DEF Typed, NoWork
  <1>5. CASE Open(a, by, variant, expected)
    <2>1. /\ RunsKept
          /\ DOMAIN runs' = DOMAIN runs \cup {Len(runs) + 1}
          /\ runs'[Len(runs) + 1].variant = variant
      BY <1>1, <1>2, <1>5, OpenKept
    <2> DEFINE w == [NoWork EXCEPT !.pc = "model", !.by = by, !.run = Len(runs) + 1,
                                   !.expected = expected]
    <2>2. work' = [work EXCEPT ![a] = w] /\ UNCHANGED candidate
      BY <1>5 DEF Open
    <2>3. Len(runs) + 1 \in Nat
      BY Rows DEF Typed
    <2>4. w \in WorkRows /\ w.pc = "model" /\ w.run = Len(runs) + 1 /\ w.expected = expected
      BY <2>3 DEF NoWork, WorkRows, None, Enrichers, Rewriters
    <2> HIDE DEF w
    <2>5. Recalls(a, w) /\ w.pc # "draft"
      BY <1>1, <2>1, <2>2, <2>4 DEF Recalls
    <2> QED BY <2>1, <2>2, <2>5
  <1> QED BY <1>1, <1>3, <1>4, <1>5 DEF Begin

LEMMA FinishWay ==
  ASSUME Typed, NEW a \in Actors, Finish(a)
  PROVE  /\ RunsKept /\ (UNCHANGED candidate \/ \E i \in DOMAIN runs : Earned(i))
         /\ \E w : Recalls(a, w) /\ w.pc # "draft"
  <1> DEFINE i == work[a].run
  <1>1. /\ Answering(a) /\ Stop(a) /\ Bystanding /\ UNCHANGED old
        /\ IF runs[i].status # "running" THEN UNCHANGED <<candidate, runs>>
           ELSE /\ runs' = [runs EXCEPT ![i] = Ended(i, Verdict(a))]
                /\ candidate' = IF Verdict(a) = "completed" THEN Pointed(i) ELSE candidate
    BY DEF Finish, Bystanding
  <1>2. i \in DOMAIN runs /\ (runs[i].variant.base # None => work[a].expected = runs[i].variant.base)
    BY <1>1 DEF Answering, Typed, WorkKnows
  <1>3. Verdict(a) \in Terminal
    BY DEF Verdict, Terminal
  <1>4. Verdict(a) = "completed" =>
          /\ candidate.status = "new"
          /\ runs[i].text = Key(runs[i].by).text /\ runs[i].policy = Key(runs[i].by).policy
          /\ work[a].expected # None => candidate.meta.rewritten = work[a].expected
    BY DEF Verdict
  <1> HIDE DEF i
  <1>5. CASE runs[i].status # "running"
    BY <1>1, <1>5, SameRuns, StopsWell DEF Typed, NoWork
  <1>6. CASE runs[i].status = "running"
    <2>1. RunsKept
      BY <1>1, <1>2, <1>3, <1>6, EndKept DEF Typed
    <2>2. ASSUME Verdict(a) = "completed"
          PROVE  Earned(i)
      <3>1. runs'[i].status = "completed"
        BY <1>1, <1>2, <1>3, <1>6, <2>2, EndedRow DEF Typed
      <3>2. HasInput(i, runs[i].by, runs[i].variant, Key(runs[i].by))
        BY <1>4, <2>2 DEF HasInput
      <3>3. runs[i].variant.base # None => candidate.meta.rewritten = runs[i].variant.base
        BY <1>2, <1>4, <2>2 DEF None
      <3> QED BY <1>1, <1>2, <1>4, <1>6, <2>2, <3>1, <3>2, <3>3
              DEF Earned, Bystanding, Answering, LocksFree, DocumentFree
    <2> QED BY <1>1, <1>2, <1>6, <2>1, <2>2, StopsWell DEF NoWork
  <1> QED BY <1>5, <1>6

LEMMA FailsWay ==
  ASSUME Typed, NEW a \in Actors, ModelFails(a)
  PROVE  RunsKept /\ UNCHANGED candidate /\ Recalls(a, NoWork)
  <1> DEFINE i == work[a].run
  <1>1. /\ runs' = IF runs[i].status = "running" THEN [runs EXCEPT ![i] = Ended(i, "failed")] ELSE runs
        /\ Answering(a) /\ Stop(a) /\ UNCHANGED <<candidate, old>>
    BY DEF ModelFails
  <1>2. i \in DOMAIN runs
    BY <1>1 DEF Answering, Typed, WorkKnows
  <1> HIDE DEF i
  <1>3. CASE runs[i].status = "running"
    <2>1. RunsKept
      BY <1>1, <1>2, <1>3, EndKept DEF Typed, Terminal
    <2> QED BY <1>1, <2>1, StopsWell
  <1>4. CASE runs[i].status # "running"
    BY <1>1, <1>4, SameRuns, StopsWell DEF Typed
  <1> QED BY <1>3, <1>4

LEMMA NoVariantTyped == NoVariant \in Variants /\ NoVariant.base = None
  BY DEF NoVariant, Variant, Variants, None

\* A request, the worker and the batch begin runs in their own ways.
LEMMA AskRunBegins ==
  ASSUME NEW q \in Requests, AskRun(q), CandidateInboxAssumption
  PROVE  Begins(q)
  <1>1. PICK kind \in Kinds :
             IF kind = "prompted"
             THEN \E instruction \in Instructions :
                     Begin(q, "structured", Variant(None, instruction), None)
             ELSE Begin(q, kind, NoVariant, None)
    BY DEF AskRun
  <1>2. CASE kind = "prompted"
    <2>1. PICK instruction \in Instructions :
               Begin(q, "structured", Variant(None, instruction), None)
      BY <1>1, <1>2
    <2>2. Variant(None, instruction) \in Variants /\ Variant(None, instruction).base = None
      BY DEF Variant, Variants, None
    <2> QED BY <2>1, <2>2 DEF Begins, None, Rewriters
  <1>3. CASE kind # "prompted"
    <2>1. kind \in Enrichers \cup Rewriters
      BY <1>3, CandidateInboxAssumption DEF Enrichers, Rewriters
    <2> QED BY <1>1, <1>3, <2>1, NoVariantTyped DEF Begins, None
  <1> QED BY <1>2, <1>3

LEMMA EnrichSelectedBegins ==
  ASSUME EnrichSelected
  PROVE  Begins(Worker)
  BY NoVariantTyped DEF EnrichSelected, Begins, None, Enrichers

LEMMA EditBegins ==
  ASSUME Typed, NEW q \in Requests, EditProposal(q)
  PROVE  Begins(q)
  <1>1. work[q].expected \in Nat
    BY DEF Typed, WorkKnows, WorkRows, Actors
  <1>2. PICK operation \in Instructions :
             Begin(q, "structured", Variant(work[q].expected, operation), work[q].expected)
    BY DEF EditProposal
  <1>3. /\ Variant(work[q].expected, operation) \in Variants
        /\ Variant(work[q].expected, operation).base = work[q].expected
    BY <1>1 DEF Variant, Variants
  <1> QED BY <1>1, <1>2, <1>3 DEF Begins, Rewriters

\* The other things that become of the candidate.
Marked ==
    \E status \in {"new", "dismissed", "accepted"}, item \in Nat :
       candidate' = [candidate EXCEPT !.status = status, !.item = item]

Polled ==
    /\ poll.pc = "write" /\ poll'.pc = "idle"
    /\ candidate' = [candidate EXCEPT !.meta = [poll.meta EXCEPT !.policy = poll.policy]]

Moves == UNCHANGED candidate \/ Marked \/ Polled \/ \E i \in DOMAIN runs : Earned(i)

\* What a step of one actor, of the clock, of the source and of the retention is.
LEMMA Cases ==
  ASSUME Typed, Next
  PROVE  \/ \E a \in Actors : Begins(a) \/ Finish(a)
         \/ \E q \in Requests : ModelFails(q) \/ ReadProposal(q) \/ OpenDraft(q) \/ StoreDraft(q)
         \/ \E q \in Requests, i \in DOMAIN runs : Apply(q, i)
         \/ \E q \in Requests, status \in {"new", "dismissed"} : SetStatus(q, status)
         \/ \E a \in Actors : Die(a)
         \/ \E i \in DOMAIN runs : Expire(i)
         \/ Select \/ SetPolicy \/ ReadSource \/ StoreText \/ StoreCandidate \/ Age \/ Scan \/ Sweep
  <1>1. Requests \subseteq Actors /\ Worker \in Actors
    BY DEF Actors
  <1>2. CASE Enrich
    BY <1>1, <1>2, EnrichSelectedBegins DEF Enrich
  <1>3. CASE \E q \in Requests : Ask(q) \/ Serve(q) \/ ModelFails(q)
    <2>1. PICK q \in Requests : Ask(q) \/ Serve(q) \/ ModelFails(q)
      BY <1>3
    <2>2. CASE Ask(q)
      BY <1>1, <2>2, AskRunBegins, CandidateInboxAssumption DEF Ask
    <2>3. CASE Serve(q)
      BY <1>1, <2>3, EditBegins DEF Serve
    <2> QED BY <2>1, <2>2, <2>3
  <1>4. CASE \/ \E a \in Actors : Die(a)
             \/ \E i \in DOMAIN runs : Expire(i)
             \/ SetPolicy \/ ReadSource \/ StoreText \/ StoreCandidate \/ Age \/ Scan \/ Sweep
    BY <1>4
  <1> QED BY <1>2, <1>3, <1>4 DEF Next

LEMMA DraftMarks ==
  ASSUME Typed, NEW content, NEW wanted, Draft(content, wanted), drafts \in Seq(DraftRows)
  PROVE  Marked
  <1>1. Len(drafts) + 1 \in Nat
    OBVIOUS
  <1> QED BY <1>1 DEF Draft, Marked

LEMMA StepKept ==
  ASSUME Typed, drafts \in Seq(DraftRows), [Next]_vars
  PROVE  RunsKept /\ Moves
  <1>0. RunsTyped
    BY DEF Typed
  <1>1. CASE UNCHANGED vars
    BY <1>0, <1>1, SameRuns DEF vars, Moves
  <1>2. ASSUME NEW a \in Actors, Begins(a) \/ Finish(a)
        PROVE  RunsKept /\ Moves
    BY <1>2, BeginWay, FinishWay DEF Moves
  <1>3. ASSUME NEW q \in Requests, ModelFails(q) \/ ReadProposal(q) \/ OpenDraft(q) \/ StoreDraft(q)
        PROVE  RunsKept /\ Moves
    <2>1. CASE ModelFails(q)
      BY <2>1, FailsWay DEF Moves, Actors
    <2>2. CASE ReadProposal(q) \/ OpenDraft(q)
      BY <1>0, <2>2, SameRuns DEF ReadProposal, OpenDraft, Moves
    <2>3. CASE StoreDraft(q)
      BY <1>0, <2>3, SameRuns, DraftMarks DEF StoreDraft, Moves
    <2> QED BY <1>3, <2>1, <2>2, <2>3
  <1>4. ASSUME NEW q \in Requests, NEW i \in DOMAIN runs, Apply(q, i)
        PROVE  RunsKept /\ Moves
    BY <1>0, <1>4, SameRuns, DraftMarks DEF Apply, Moves
  <1>5. ASSUME NEW q \in Requests, NEW status \in {"new", "dismissed"}, SetStatus(q, status)
        PROVE  RunsKept /\ Moves
    <2>1. candidate' = [candidate EXCEPT !.status = status, !.item = candidate.item]
      BY <1>5 DEF SetStatus, Typed, CandidatePoints, CandidateRows
    <2>2. candidate.item \in Nat
      BY DEF Typed, CandidatePoints, CandidateRows
    <2> QED BY <1>0, <1>5, <2>1, <2>2, SameRuns DEF SetStatus, Moves, Marked
  <1>6. ASSUME NEW i \in DOMAIN runs, Expire(i)
        PROVE  RunsKept /\ Moves
    <2>1. UNCHANGED candidate
      BY <1>6 DEF Expire
    <2> QED BY <1>0, <1>6, <2>1, ExpireKept DEF Moves
  <1>7. CASE StoreCandidate
    BY <1>0, <1>7, SameRuns DEF StoreCandidate, Moves, Polled, NoPoll
  <1>8. CASE Age
    <2>1. UNCHANGED <<runs, candidate>> /\ old' \in 0..Len(runs)
      BY <1>8, Rows DEF Age, Typed
    <2> QED BY <1>0, <2>1, Rows DEF RunsTyped, RunsKept, Kept, Moves
  <1>9. CASE Sweep
    BY <1>0, <1>9, SweepKept DEF Sweep, Moves
  <1>10. CASE Select \/ SetPolicy \/ ReadSource \/ StoreText \/ Scan \/ \E a \in Actors : Die(a)
    BY <1>0, <1>10, SameRuns DEF Select, SetPolicy, ReadSource, StoreText, Scan, Die, Moves
  <1> QED BY <1>1, <1>2, <1>3, <1>4, <1>5, <1>6, <1>7, <1>8, <1>9, <1>10, Cases

-----------------------------------------------------------------------------
(* The invariant is kept. *)

\* What the pointers of the candidate become.
LEMMA MovesPoint ==
  ASSUME Typed, Moves
  PROVE  /\ candidate' \in CandidateRows /\ candidate'.summary = candidate'.meta.enriched
         /\ \/ /\ candidate'.meta.enriched = candidate.meta.enriched
               /\ candidate'.meta.rewritten = candidate.meta.rewritten
            \/ \E i \in DOMAIN runs :
                  /\ Earned(i)
                  /\ runs[i].by \in Enrichers => /\ candidate'.meta.enriched = i
                                                 /\ candidate'.meta.rewritten = candidate.meta.rewritten
                  /\ runs[i].by \notin Enrichers => /\ candidate'.meta.rewritten = i
                                                    /\ candidate'.meta.enriched = candidate.meta.enriched
  <1>0. /\ candidate \in CandidateRows /\ candidate.summary = candidate.meta.enriched
        /\ candidate.meta \in Pointers /\ poll.meta \in Pointers /\ poll.policy \in Policies
        /\ poll.pc = "write" => poll.meta = candidate.meta
    BY DEF Typed, CandidatePoints, MemoryAgrees, PollRows, CandidateRows
  <1>1. CASE UNCHANGED candidate
    BY <1>0, <1>1
  <1>2. CASE Marked
    BY <1>0, <1>2 DEF Marked, CandidateRows
  <1>3. CASE Polled
    <2>1. candidate' = [candidate EXCEPT !.meta = [candidate.meta EXCEPT !.policy = poll.policy]]
      BY <1>0, <1>3 DEF Polled
    <2>2. [candidate.meta EXCEPT !.policy = poll.policy] \in Pointers
      BY <1>0 DEF Pointers
    <2>3. /\ [candidate.meta EXCEPT !.policy = poll.policy].enriched = candidate.meta.enriched
          /\ [candidate.meta EXCEPT !.policy = poll.policy].rewritten = candidate.meta.rewritten
      BY <1>0 DEF Pointers
    <2> QED BY <1>0, <2>1, <2>2, <2>3 DEF CandidateRows
  <1>4. CASE \E i \in DOMAIN runs : Earned(i)
    <2>1. PICK i \in DOMAIN runs : Earned(i)
      BY <1>4
    <2> QED BY <2>1, PointedRow DEF Earned, Typed
  <1> QED BY <1>1, <1>2, <1>3, <1>4 DEF Moves

LEMMA PointsStep ==
  ASSUME Typed, RunsKept, Moves
  PROVE  CandidatePoints'
  <1>1. \A i \in DOMAIN runs : i \in DOMAIN runs' /\ runs'[i].by = runs[i].by
    BY DEF RunsKept, Kept
  <1>2. /\ RunsOf(Enrichers) \subseteq RunsOf(Enrichers)'
        /\ RunsOf(Rewriters) \subseteq RunsOf(Rewriters)'
    BY <1>1 DEF RunsOf
  <1>3. \A i \in DOMAIN runs : runs[i].by \in Enrichers \/ runs[i].by \in Rewriters
    BY Rows DEF Typed, RunRows
  <1> QED BY <1>1, <1>2, <1>3, MovesPoint DEF CandidatePoints, Typed, RunsOf
\* Who remembers something new remembers it in order.
LEMMA WorkStep ==
  ASSUME Typed, RunsKept, UNCHANGED work \/ \E a \in Actors : \E w : Recalls(a, w)
  PROVE  WorkKnows'
  <1>1. ASSUME NEW i \in DOMAIN runs
        PROVE  i \in DOMAIN runs' /\ runs'[i].variant = runs[i].variant
    BY DEF RunsKept, Kept
  <1>2. CASE UNCHANGED work
    BY <1>1, <1>2 DEF WorkKnows, Typed
  <1>3. ASSUME NEW a \in Actors, NEW w, Recalls(a, w)
        PROVE  WorkKnows'
    <2>1. work \in [Actors -> WorkRows] /\ work' \in [Actors -> WorkRows]
      BY <1>3 DEF Recalls, Typed, WorkKnows
    <2>2. work'[a] = w /\ \A b \in Actors : b # a => work'[b] = work[b]
      BY <1>3, <2>1 DEF Recalls
    <2>3. ASSUME NEW b \in Actors
          PROVE  /\ work'[b].pc = "edit" => work'[b].expected # None
                 /\ work'[b].pc = "model" =>
                      /\ work'[b].run \in DOMAIN runs'
                      /\ runs'[work'[b].run].variant.base # None
                           => work'[b].expected = runs'[work'[b].run].variant.base
      <3>1. CASE b = a
        BY <1>3, <2>2, <3>1 DEF Recalls
      <3>2. CASE b # a
        BY <1>1, <2>2, <3>2 DEF WorkKnows, Typed
      <3> QED BY <3>1, <3>2
    <2> QED BY <2>1, <2>3 DEF WorkKnows
  <1> QED BY <1>2, <1>3

\* What the actor remembers; nobody but OpenDraft begins to store a draft.
LEMMA WorkWays ==
  ASSUME Typed, Next
  PROVE  \/ UNCHANGED work
         \/ \E a \in Actors : \E w :
               /\ Recalls(a, w)
               /\ w.pc = "draft" => a \in Requests /\ OpenDraft(a)
  <1>0. work \in [Actors -> WorkRows] /\ Requests \subseteq Actors /\ Worker \in Actors
    BY DEF Typed, WorkKnows, Actors
  <1>1. ASSUME NEW a \in Actors, Begins(a) \/ Finish(a)
        PROVE  \E w : Recalls(a, w) /\ w.pc # "draft"
    BY <1>1, BeginWay, FinishWay
  <1>2. ASSUME NEW a \in Actors, Stop(a)
        PROVE  Recalls(a, NoWork) /\ NoWork.pc # "draft"
    BY <1>2, StopsWell DEF NoWork
  <1>3. ASSUME NEW q \in Requests, ReadProposal(q)
        PROVE  \E w : Recalls(q, w) /\ w.pc # "draft"
    <2> DEFINE w == [work[q] EXCEPT !.pc = "edit", !.expected = Proposal]
    <2>1. work' = [work EXCEPT ![q] = w] /\ Proposal # None
      BY <1>0, <1>3 DEF ReadProposal
    <2>2. Proposal \in Nat
      <3>1. candidate.meta.rewritten \in Nat
        BY DEF Typed, CandidatePoints, CandidateRows, Pointers
      <3> QED BY <3>1 DEF Proposal, Current, None
    <2>3. w \in WorkRows /\ w.pc = "edit" /\ w.expected = Proposal
      BY <1>0, <2>2 DEF WorkRows
    <2> HIDE DEF w
    <2> QED BY <2>1, <2>3 DEF Recalls
  <1>4. ASSUME NEW q \in Requests, OpenDraft(q)
        PROVE  \E w : Recalls(q, w)
    <2> DEFINE w == [work[q] EXCEPT !.pc = "draft", !.text = text]
    <2>1. work' = [work EXCEPT ![q] = w] /\ text \in Texts
      BY <1>0, <1>4 DEF OpenDraft, Typed, MemoryAgrees
    <2>2. w \in WorkRows /\ w.pc = "draft"
      BY <1>0, <2>1 DEF WorkRows
    <2> HIDE DEF w
    <2> QED BY <2>1, <2>2 DEF Recalls
  <1>5. CASE Select
    <2> DEFINE w == [work[Worker] EXCEPT !.pc = "selected"]
    <2>1. work' = [work EXCEPT ![Worker] = w]
      BY <1>0, <1>5 DEF Select
    <2>2. w \in WorkRows /\ w.pc = "selected"
      BY <1>0 DEF WorkRows
    <2> HIDE DEF w
    <2> QED BY <1>0, <2>1, <2>2 DEF Recalls
  <1>6. ASSUME NEW a \in Actors, Die(a) \/ (a \in Requests /\ (ModelFails(a) \/ StoreDraft(a)))
        PROVE  Stop(a)
    BY <1>6 DEF Die, ModelFails, StoreDraft
  <1>7. ASSUME NEW q \in Requests, NEW i \in DOMAIN runs, Apply(q, i)
        PROVE  UNCHANGED work
    BY <1>7 DEF Apply
  <1>8. ASSUME NEW q \in Requests, NEW status, SetStatus(q, status)
        PROVE  UNCHANGED work
    BY <1>8 DEF SetStatus
  <1>9. ASSUME NEW i \in DOMAIN runs, Expire(i)
        PROVE  UNCHANGED work
    BY <1>9 DEF Expire
  <1>10. SetPolicy \/ ReadSource \/ StoreText \/ StoreCandidate \/ Age \/ Scan \/ Sweep => UNCHANGED work
    BY DEF SetPolicy, ReadSource, StoreText, StoreCandidate, Age, Scan, Sweep
  <1> QED BY <1>0, <1>1, <1>2, <1>3, <1>4, <1>5, <1>6, <1>7, <1>8, <1>9, <1>10, Cases

LEMMA EventsStep ==
  ASSUME Typed, Next
  PROVE  events' \in 0..MaxEvents
  <1>0. /\ events \in 0..MaxEvents /\ MaxEvents \in Nat
        /\ Event => events' \in 0..MaxEvents
    BY CandidateInboxAssumption DEF Typed, MemoryAgrees, Event
  <1>1. CASE Enrich
    BY <1>0, <1>1 DEF Enrich, Select, EnrichSelected, Finish
  <1>2. ASSUME NEW q \in Requests, Ask(q)
        PROVE  Event
    BY <1>2 DEF Ask, AskRun, ReadProposal, OpenDraft, Apply, SetStatus, Asking
  <1>3. ASSUME NEW q \in Requests, Serve(q) \/ ModelFails(q)
        PROVE  UNCHANGED events
    BY <1>3 DEF Serve, EditProposal, StoreDraft, Finish, ModelFails
  <1>4. ASSUME NEW a \in Actors, Die(a)
        PROVE  Event
    BY <1>4 DEF Die
  <1>5. ASSUME NEW i \in DOMAIN runs, Expire(i)
        PROVE  Event \/ UNCHANGED events
    BY <1>5 DEF Expire
  <1>6. SetPolicy \/ ReadSource => Event
    BY DEF SetPolicy, ReadSource
  <1>7. StoreText \/ StoreCandidate \/ Age \/ Scan \/ Sweep => UNCHANGED events
    BY DEF StoreText, StoreCandidate, Age, Scan, Sweep
  <1> QED BY <1>0, <1>1, <1>2, <1>3, <1>4, <1>5, <1>6, <1>7 DEF Next

\* What the poll and the retention remember agrees with the candidate.
LEMMA MemoryStep ==
  ASSUME Typed, Next, CandidatePoints'
  PROVE  MemoryAgrees' /\ (overtaken => overtaken')
  <1>0. /\ events' \in 0..MaxEvents
        /\ text \in Texts /\ policy \in Policies /\ overtaken \in BOOLEAN
        /\ poll \in PollRows /\ (poll.pc = "write" => poll.meta = candidate.meta)
        /\ sweep \in SweepRows /\ candidate \in CandidateRows
    BY EventsStep DEF Typed, MemoryAgrees, CandidatePoints
  <1>1. ASSUME UNCHANGED <<text, policy, poll, sweep, overtaken>>,
               UNCHANGED candidate
                 \/ (candidate'.meta = candidate.meta /\ candidate'.status # "new")
        PROVE  MemoryAgrees' /\ (overtaken => overtaken')
    BY <1>0, <1>1 DEF Typed, MemoryAgrees
  <1>2. ASSUME NEW i \in DOMAIN runs, Earned(i)
        PROVE  MemoryAgrees' /\ (overtaken => overtaken')
    BY <1>0, <1>2 DEF Typed, MemoryAgrees, Earned
  <1>3. ASSUME NEW a \in Actors, Begins(a) \/ Finish(a)
        PROVE  MemoryAgrees' /\ (overtaken => overtaken')
    <2>1. UNCHANGED <<text, policy, poll, sweep, overtaken>>
      BY <1>3 DEF Begins, Begin, Finish
    <2>2. UNCHANGED candidate \/ \E i \in DOMAIN runs : Earned(i)
      BY <1>3, BeginWay, FinishWay
    <2> QED BY <1>1, <1>2, <2>1, <2>2
  <1>4. ASSUME NEW content, NEW wanted, Draft(content, wanted)
        PROVE  candidate'.meta = candidate.meta /\ candidate'.status # "new"
    BY <1>0, <1>4 DEF Draft, CandidateRows
  <1>5. ASSUME NEW q \in Requests, ModelFails(q) \/ ReadProposal(q) \/ OpenDraft(q) \/ StoreDraft(q)
        PROVE  MemoryAgrees' /\ (overtaken => overtaken')
    BY <1>1, <1>4, <1>5 DEF ModelFails, ReadProposal, OpenDraft, StoreDraft
  <1>6. ASSUME NEW q \in Requests, NEW i \in DOMAIN runs, Apply(q, i)
        PROVE  MemoryAgrees' /\ (overtaken => overtaken')
    BY <1>1, <1>4, <1>6 DEF Apply
  <1>7. ASSUME NEW q \in Requests, NEW status \in {"new", "dismissed"}, SetStatus(q, status)
        PROVE  MemoryAgrees' /\ (overtaken => overtaken')
    <2>1. /\ candidate'.meta = candidate.meta /\ candidate'.status = status
          /\ overtaken' = (overtaken \/ (status = "new" /\ sweep.pc = "scanned"))
          /\ UNCHANGED <<text, policy, poll, sweep>>
      BY <1>0, <1>7 DEF SetStatus, CandidateRows
    <2> QED BY <1>0, <2>1 DEF Typed, MemoryAgrees
  <1>8. ASSUME NEW i \in DOMAIN runs, Expire(i)
        PROVE  MemoryAgrees' /\ (overtaken => overtaken')
    BY <1>1, <1>8 DEF Expire
  <1>9. CASE Select \/ Age \/ \E a \in Actors : Die(a)
    BY <1>1, <1>9 DEF Select, Age, Die
  <1>10. CASE SetPolicy
    BY <1>0, <1>10 DEF SetPolicy, Typed, MemoryAgrees
  <1>11. CASE StoreText
    <2>1. [poll EXCEPT !.pc = "write", !.meta = candidate.meta] \in PollRows
      BY <1>0 DEF PollRows, CandidateRows
    <2> QED BY <1>0, <1>11, <2>1 DEF StoreText, Typed, MemoryAgrees
  <1>12. CASE StoreCandidate
    <2>1. NoPoll \in PollRows /\ NoPoll.pc # "write"
      BY DEF NoPoll, NoMeta, PollRows, Pointers, Policies, None
    <2>2. /\ candidate'.status = candidate.status
          /\ candidate'.meta.enriched = candidate.meta.enriched
          /\ candidate'.meta.rewritten = candidate.meta.rewritten
      <3>1. CASE UNCHANGED candidate
        BY <3>1
      <3>2. CASE candidate' = [candidate EXCEPT !.meta = [poll.meta EXCEPT !.policy = poll.policy]]
        BY <1>0, <1>12, <3>2 DEF StoreCandidate, CandidateRows, Pointers
      <3> QED BY <1>12, <3>1, <3>2 DEF StoreCandidate
    <2>3. poll' = NoPoll /\ UNCHANGED <<text, policy, sweep, overtaken>>
      BY <1>12 DEF StoreCandidate
    <2> QED BY <1>0, <2>1, <2>2, <2>3 DEF Typed, MemoryAgrees
  <1>13. CASE Scan
    <2>1. [pc |-> "scanned", enriched |-> candidate.meta.enriched,
           rewritten |-> candidate.meta.rewritten] \in SweepRows
      BY <1>0 DEF SweepRows, CandidateRows, Pointers
    <2> QED BY <1>0, <1>13, <2>1 DEF Scan, Typed, MemoryAgrees
  <1>14. CASE Sweep
    <2>1. NoSweep \in SweepRows /\ NoSweep.pc # "scanned"
      BY DEF NoSweep, SweepRows, None
    <2> QED BY <1>0, <1>14, <2>1 DEF Sweep, Typed, MemoryAgrees
  <1>15. CASE ReadSource
    <2>1. [NoPoll EXCEPT !.pc = "read", !.policy = policy] \in PollRows
      BY <1>0 DEF NoPoll, NoMeta, PollRows, Pointers, Policies, None
    <2> QED BY <1>0, <1>15, <2>1 DEF ReadSource, NoPoll, Typed, MemoryAgrees
  <1> QED BY <1>3, <1>5, <1>6, <1>7, <1>8, <1>9, <1>10, <1>11, <1>12, <1>13, <1>14, <1>15, Cases
\* A draft that was stored keeps what it carries.
LEMMA CarriesOn ==
  ASSUME RunsKept, NEW d, Carries(d)
  PROVE  Carries(d)'
  BY DEF Carries, RunsKept, Kept

\* Drafts stay, and nobody begins to store one.
LEMMA NoDraft ==
  ASSUME DraftAlone, RunsKept, UNCHANGED drafts, candidate'.item = candidate.item,
         \A a \in Actors : work'[a].pc = "draft" => work[a].pc = "draft"
  PROVE  DraftAlone'
  BY CarriesOn DEF DraftAlone

\* What is stored carries the rewrite of its text and of the policy, and the one wanted.
LEMMA DraftCarries ==
  ASSUME Typed, NEW content \in Texts \cup {None}, NEW wanted \in Nat,
         wanted # None => Proposal = wanted /\ content = text,
         Draft(content, wanted), drafts = <<>>
  PROVE  \E d \in DraftRows : drafts' = Append(drafts, d) /\ Carries(d)
  <1> DEFINE key == [text |-> content, policy |-> policy]
             rewrite == IF policy = "rewrite_with_attribution" THEN Current(key) ELSE None
             d == [text |-> content, policy |-> policy, rewrite |-> rewrite, wanted |-> wanted]
  <1>1. drafts' = Append(drafts, d)
    BY DEF Draft
  <1>2. ASSUME rewrite # None
        PROVE  /\ rewrite \in DOMAIN runs
               /\ runs[rewrite].text = content /\ runs[rewrite].policy = policy
    <2>1. rewrite = Current(key) /\ Current(key) # None
      BY <1>2
    <2>2. candidate.meta.rewritten \in RunsOf(Rewriters) \cup {None}
      BY DEF Typed, CandidatePoints
    <2> QED BY <2>1, <2>2 DEF Current, RunsOf
  <1>3. ASSUME wanted # None
        PROVE  rewrite = wanted
    <2>1. policy = "rewrite_with_attribution" /\ Current(Key("structured")) = wanted
      BY <1>3 DEF Proposal
    <2>2. Key("structured") = key
      BY <1>3 DEF Key, Enrichers
    <2> QED BY <2>1, <2>2
  <1>4. rewrite \in Nat
    BY <1>2, Rows DEF None, Typed
  <1> HIDE DEF rewrite
  <1>5. d \in DraftRows
    BY <1>4 DEF Typed, MemoryAgrees, DraftRows
  <1>6. Carries(d)
    BY <1>2, <1>3 DEF Carries
  <1> QED BY <1>1, <1>5, <1>6

\* The first draft is stored when nobody else is about to store one.
LEMMA FirstDraft ==
  ASSUME Typed, DraftAlone, RunsKept, NEW content \in Texts \cup {None}, NEW wanted \in Nat,
         wanted # None => Proposal = wanted /\ content = text,
         Draft(content, wanted), candidate.item = None,
         \A a \in Actors : work'[a].pc # "draft"
  PROVE  DraftAlone'
  <1>1. drafts = <<>> /\ Len(drafts) = 0 /\ drafts \in Seq(DraftRows)
    <2>1. drafts \in Seq(DraftRows) /\ Len(drafts) = 0
      BY DEF DraftAlone, None
    <2> HIDE DEF DraftRows
    <2> QED BY <2>1, EmptySeq
  <1>2. PICK d \in DraftRows : drafts' = Append(drafts, d) /\ Carries(d)
    BY <1>1, DraftCarries
  <1>3. /\ drafts' \in Seq(DraftRows) /\ Len(drafts') = 1 /\ DOMAIN drafts' = {1} /\ drafts'[1] = d
    BY <1>1, <1>2, AppendsDraft
  <1>4. candidate'.item = 1
    BY <1>1 DEF Draft, Typed, CandidatePoints, CandidateRows
  <1>5. Carries(d)'
    BY <1>2, CarriesOn
  <1> QED BY <1>3, <1>4, <1>5 DEF DraftAlone

LEMMA DraftStep ==
  ASSUME Typed, DraftAlone, RunsKept, Next
  PROVE  DraftAlone'
  <1>0. /\ work \in [Actors -> WorkRows] /\ Requests \subseteq Actors
        /\ candidate \in CandidateRows
    BY DEF Typed, WorkKnows, CandidatePoints, Actors
  <1>1. CASE \E q \in Requests : OpenDraft(q)
    <2>1. PICK q \in Requests : OpenDraft(q)
      BY <1>1
    <2>2. /\ CandidateFree /\ candidate.item = None /\ UNCHANGED <<candidate, drafts>>
          /\ work' = [work EXCEPT ![q].pc = "draft", ![q].text = text]
      BY <2>1 DEF OpenDraft
    <2>3. \A a \in Actors : a # q => work'[a].pc # "draft"
      BY <1>0, <2>2 DEF CandidateFree
    <2> QED BY <2>2, <2>3, CarriesOn DEF DraftAlone
  <1>2. CASE \E q \in Requests : StoreDraft(q)
    <2>1. PICK q \in Requests : StoreDraft(q)
      BY <1>2
    <2>2. work[q].pc = "draft" /\ Draft(work[q].text, None) /\ Stop(q)
      BY <2>1 DEF StoreDraft
    <2>3. candidate.item = None /\ \A a \in Actors : a # q => work[a].pc # "draft"
      BY <1>0, <2>2 DEF DraftAlone
    <2>4. \A a \in Actors : work'[a].pc # "draft"
      BY <1>0, <2>2, <2>3 DEF Stop, NoWork
    <2>5. work[q].text \in Texts \cup {None} /\ None \in Nat
      BY <1>0 DEF WorkRows, None
    <2> QED BY <2>2, <2>3, <2>4, <2>5, FirstDraft
  <1>3. CASE \E q \in Requests, i \in DOMAIN runs : Apply(q, i)
    <2>1. PICK q \in Requests, i \in DOMAIN runs : Apply(q, i)
      BY <1>3
    <2>2. /\ LocksFree /\ Proposal = i /\ candidate.item = None /\ Draft(text, i) /\ UNCHANGED work
      BY <2>1 DEF Apply
    <2>3. text \in Texts \cup {None} /\ i \in Nat
      BY Rows DEF Typed, MemoryAgrees
    <2>4. \A a \in Actors : work'[a].pc # "draft"
      BY <2>2 DEF LocksFree, CandidateFree
    <2> QED BY <2>2, <2>3, <2>4, FirstDraft
  <1>4. CASE ~\E q \in Requests : OpenDraft(q) \/ StoreDraft(q) \/ \E i \in DOMAIN runs : Apply(q, i)
    <2>1. \A a \in Actors : work'[a].pc = "draft" => work[a].pc = "draft"
      <3>1. CASE UNCHANGED work
        BY <3>1
      <3>2. ASSUME NEW b \in Actors, NEW w, Recalls(b, w),
                   w.pc = "draft" => b \in Requests /\ OpenDraft(b)
            PROVE  \A a \in Actors : work'[a].pc = "draft" => work[a].pc = "draft"
        <4>1. w.pc # "draft"
          BY <1>4, <3>2
        <4> QED BY <1>0, <3>2, <4>1 DEF Recalls
      <3> QED BY <3>1, <3>2, WorkWays
    <2>2. UNCHANGED drafts /\ candidate'.item = candidate.item
      <3>1. ASSUME NEW a \in Actors, Begins(a) \/ Finish(a)
            PROVE  UNCHANGED drafts /\ candidate'.item = candidate.item
        <4>1. UNCHANGED drafts
          BY <3>1 DEF Begins, Begin, Finish
        <4>2. UNCHANGED candidate \/ \E i \in DOMAIN runs : Earned(i)
          BY <3>1, BeginWay, FinishWay
        <4> QED BY <4>1, <4>2, PointedRow DEF Earned, Typed
      <3>2. ASSUME NEW q \in Requests, NEW status, SetStatus(q, status)
            PROVE  UNCHANGED drafts /\ candidate'.item = candidate.item
        BY <1>0, <3>2 DEF SetStatus, CandidateRows
      <3>3. CASE StoreCandidate
        BY <1>0, <3>3 DEF StoreCandidate, CandidateRows
      <3>4. ASSUME NEW q \in Requests, ModelFails(q) \/ ReadProposal(q)
            PROVE  UNCHANGED drafts /\ candidate'.item = candidate.item
        BY <3>4 DEF ModelFails, ReadProposal
      <3>5. CASE \/ \E a \in Actors : Die(a)
                 \/ \E i \in DOMAIN runs : Expire(i)
                 \/ Select \/ SetPolicy \/ ReadSource \/ StoreText \/ Age \/ Scan \/ Sweep
        BY <3>5 DEF Die, Expire, Select, SetPolicy, ReadSource, StoreText, Age, Scan, Sweep
      <3> QED BY <1>4, <3>1, <3>2, <3>3, <3>4, <3>5, Cases
    <2> QED BY <2>1, <2>2, NoDraft
  <1> QED BY <1>1, <1>2, <1>3, <1>4

\* The retention takes no current run away, unless it was overtaken.
LEMMA StaysStep ==
  ASSUME Typed, CurrentStays, RunsKept, Moves, overtaken => overtaken'
  PROVE  CurrentStays'
  <1>0. /\ candidate.meta.enriched \in RunsOf(Enrichers) \cup {None}
        /\ candidate.meta.rewritten \in RunsOf(Rewriters) \cup {None}
        /\ \A i \in RunsOf(Rewriters) : i \in DOMAIN runs /\ runs[i].by \notin Enrichers
        /\ \A i \in RunsOf(Enrichers) : i \in DOMAIN runs /\ runs[i].by \in Enrichers
    BY DEF Typed, CandidatePoints, RunsOf, Enrichers, Rewriters
  <1>1. ASSUME NEW i \in {candidate.meta.enriched, candidate.meta.rewritten} \ {None},
               runs'[i].status = "gone"
        PROVE  overtaken'
    <2>1. i \in DOMAIN runs /\ Kept(i)
      BY <1>0, <1>1 DEF RunsKept
    <2>2. CASE runs[i].status = "gone"
      BY <1>1, <2>2 DEF CurrentStays
    <2>3. CASE sweep.pc = "scanned" /\ i # SparedBy(i)
      BY <1>0, <1>1, <2>3 DEF SparedBy, Typed, MemoryAgrees
    <2> QED BY <1>1, <2>1, <2>2, <2>3 DEF Kept
  <1>2. CASE /\ candidate'.meta.enriched = candidate.meta.enriched
             /\ candidate'.meta.rewritten = candidate.meta.rewritten
    BY <1>1, <1>2 DEF CurrentStays
  <1>3. ASSUME NEW i \in DOMAIN runs, Earned(i),
               {candidate'.meta.enriched, candidate'.meta.rewritten}
                 \subseteq {i, candidate.meta.enriched, candidate.meta.rewritten}
        PROVE  CurrentStays'
    BY <1>1, <1>3 DEF CurrentStays, Earned
  <1> QED BY <1>2, <1>3, MovesPoint

LEMMA Start ==
  ASSUME Init
  PROVE  Inv
  <1>1. text \in Texts
    BY CandidateInboxAssumption DEF Init
  <1>2. /\ runs = <<>> /\ drafts = <<>> /\ old = 0 /\ policy \in Policies
        /\ poll = NoPoll /\ sweep = NoSweep /\ overtaken = FALSE /\ events = 0
        /\ work = [a \in Actors |-> NoWork]
        /\ candidate = [status |-> "new", summary |-> None, item |-> None,
                        meta |-> [policy |-> policy, enriched |-> None, rewritten |-> None]]
    BY DEF Init, Policies
  <1>3. RunsTyped
    BY <1>2 DEF RunsTyped
  <1>4. CandidatePoints
    BY <1>2 DEF CandidatePoints, CandidateRows, Pointers, None
  <1>5. WorkKnows
    BY <1>2 DEF WorkKnows, WorkRows, NoWork, None, Enrichers, Rewriters
  <1>6. MemoryAgrees
    <2>1. NoPoll \in PollRows /\ NoPoll.pc # "write"
      BY DEF NoPoll, NoMeta, PollRows, Pointers, Policies, None
    <2>2. NoSweep \in SweepRows /\ NoSweep.pc # "scanned"
      BY DEF NoSweep, SweepRows, None
    <2>3. 0 \in 0..MaxEvents
      BY CandidateInboxAssumption
    <2> QED BY <1>1, <1>2, <2>1, <2>2, <2>3 DEF MemoryAgrees
  <1>7. CurrentStays
    BY <1>2 DEF CurrentStays
  <1>8. DraftAlone
    BY <1>2 DEF DraftAlone, NoWork, None
  <1> QED BY <1>3, <1>4, <1>5, <1>6, <1>7, <1>8 DEF Inv, Typed

LEMMA Step ==
  ASSUME Inv, [Next]_vars
  PROVE  Inv' /\ RunsKept /\ Moves
  <1>1. Typed /\ CurrentStays /\ DraftAlone /\ drafts \in Seq(DraftRows)
    BY DEF Inv, DraftAlone
  <1>2. RunsKept /\ Moves
    BY <1>1, StepKept
  <1>3. CASE UNCHANGED vars
    <2>1. Inv'
      BY <1>3 DEF vars, Inv, Typed, RunsTyped, CandidatePoints, RunsOf, WorkKnows, MemoryAgrees,
                  CurrentStays, DraftAlone, Carries
    <2> QED BY <1>2, <2>1
  <1>4. CASE Next
    <2>1. CandidatePoints'
      BY <1>1, <1>2, PointsStep
    <2>2. WorkKnows'
      <3>1. UNCHANGED work \/ \E a \in Actors : \E w : Recalls(a, w)
        BY <1>1, <1>4, WorkWays
      <3> QED BY <1>1, <1>2, <3>1, WorkStep
    <2>3. MemoryAgrees' /\ (overtaken => overtaken')
      BY <1>1, <1>4, <2>1, MemoryStep
    <2>4. CurrentStays'
      BY <1>1, <1>2, <2>3, StaysStep
    <2>5. DraftAlone'
      BY <1>1, <1>2, <1>4, DraftStep
    <2> QED BY <1>2, <2>1, <2>2, <2>3, <2>4, <2>5 DEF RunsKept, Inv, Typed
  <1> QED BY <1>3, <1>4

-----------------------------------------------------------------------------
(* Theorems. *)

\* Every variable has its type, whatever the order of requests, polls, deaths and retentions.
THEOREM TypeCorrect == Spec => []TypeOK
  <1>1. Init => Inv
    BY Start
  <1>2. Inv /\ [Next]_vars => Inv'
    BY Step
  <1>3. Inv => TypeOK
    <2> SUFFICES ASSUME Inv PROVE TypeOK
      OBVIOUS
    <2>1. RunsTyped /\ CandidatePoints /\ WorkKnows /\ MemoryAgrees /\ DraftAlone
      BY DEF Inv, Typed
    <2>2. /\ candidate.status \in {"new", "dismissed", "accepted"} /\ candidate.meta \in Pointers
          /\ candidate.summary \in 0..Len(runs) /\ candidate.item \in 0..Len(drafts)
      BY <2>1, Rows DEF CandidatePoints, CandidateRows, RunsOf, None, DraftAlone
    <2>3. \A i \in DOMAIN runs :
             /\ runs[i].by \in Enrichers \cup Rewriters
             /\ runs[i].variant \in [base : 0..(i - 1), instruction : Instructions \cup {None}]
             /\ runs[i].status \in Terminal \cup {"running", "gone"}
      BY <2>1, Rows DEF RunsTyped, RunRows, Variants
    <2>4. \A a \in Actors : work[a].pc \in {"idle", "selected", "edit", "model", "draft"}
      BY <2>1 DEF WorkKnows, WorkRows
    <2> QED BY <2>1, <2>2, <2>3, <2>4 DEF TypeOK, RunsTyped, MemoryAgrees
  <1> QED BY <1>1, <1>2, <1>3, PTL DEF Spec

\* The summary goes with the run the candidate points to, and a retention takes a current run away
\* only from a candidate that was restored meanwhile.  Who writes the metadata holds the candidate
\* and the document, and what a poll read before is what it finds when it writes the column back;
\* a candidate that is not active gets no new pointer between the two steps of a retention.
THEOREM PointersAlwaysHold == Spec => []PointersHold
  <1>1. Init => Inv
    BY Start
  <1>2. Inv /\ [Next]_vars => Inv'
    BY Step
  <1>3. Inv => PointersHold
    BY DEF Inv, Typed, CandidatePoints, CurrentStays, PointersHold
  <1> QED BY <1>1, <1>2, <1>3, PTL DEF Spec

\* A candidate becomes one draft, whoever asks, with the rewrite of the text and the policy it
\* carries, and the one the editor saw: who stores it is alone, and the first.
THEOREM DraftAlwaysAsSeen == Spec => []DraftAsSeen
  <1>1. Init => Inv
    BY Start
  <1>2. Inv /\ [Next]_vars => Inv'
    BY Step
  <1>3. Inv => DraftAsSeen
    <2> SUFFICES ASSUME Inv PROVE DraftAsSeen
      OBVIOUS
    <2>1. DraftAlone
      BY DEF Inv
    <2>2. \A d \in ToSet(drafts) : Carries(d)
      BY <2>1 DEF DraftAlone, ToSet
    <2> QED BY <2>1, <2>2 DEF DraftAsSeen, DraftAlone, Carries
  <1> QED BY <1>1, <1>2, <1>3, PTL DEF Spec

\* No answer makes a run current but its own, in force, on an active candidate, and an edit only on
\* top of the proposal it started from; what has ended never ends again.
THEOREM CurrentIsAlwaysEarned == Spec => CurrentIsEarned
  <1>1. Init => Inv
    BY Start
  <1>2. Inv /\ [Next]_vars => Inv'
    BY Step
  <1> DEFINE Final(i) == runs[i].status # "running" => runs'[i].status \in {runs[i].status, "gone"}
             Own(i) == /\ runs'[i].status = "completed" /\ candidate.status = "new"
                       /\ HasInput(i, runs[i].by, runs[i].variant, Key(runs[i].by))
                       /\ runs[i].variant.base # None => candidate.meta.rewritten = runs[i].variant.base
  <1>3. Inv /\ [Next]_vars => (\A i \in DOMAIN runs : Final(i)) /\ (\A i \in MadeCurrent : Own(i))
    <2> SUFFICES ASSUME Inv, [Next]_vars
                 PROVE  (\A i \in DOMAIN runs : Final(i)) /\ (\A i \in MadeCurrent : Own(i))
      OBVIOUS
    <2>1. RunsKept /\ Moves /\ Typed
      BY Step DEF Inv
    <2>2. \A i \in DOMAIN runs : Final(i)
      BY <2>1 DEF RunsKept, Kept
    <2>3. ASSUME NEW i \in MadeCurrent
          PROVE  Earned(i)
      BY <2>1, <2>3, MovesPoint DEF MadeCurrent
    <2>4. \A i \in MadeCurrent : Own(i)
      BY <2>3 DEF Earned
    <2> QED BY <2>2, <2>4
  <1> QED BY <1>1, <1>2, <1>3, PTL DEF Spec, CurrentIsEarned
=============================================================================
